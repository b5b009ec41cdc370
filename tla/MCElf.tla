------------------------------- MODULE MCElf -------------------------------
(***************************************************************************)
(* Object images for ElfLoader, shaped after the rel_64_32 test object:   *)
(* one .text with two functions, a helper call and a local call resolved  *)
(* by R_BPF_64_32, an LDDW resolved by R_BPF_64_64 against .data.  Each   *)
(* other image changes one thing of the good one, so every check of the   *)
(* loader is reached.  Offsets and sizes are in instruction units.        *)
(***************************************************************************)
EXTENDS ElfLoader, ElfImages

MCImages == {Good, TwoSecImage} \cup Rejected
MCWellFormedLoads == {<<Good, "main">>, <<Good, NoName>>,
                      <<TwoSecImage, "main">>, <<TwoSecImage, "three">>}


\* A function symbol, or the data symbol of an R_BPF_64_64 relocation,
\* whose st_shndx equals the section count (the checks are > section_count).
ShndxImages == {Image(FCode \o MainCode, [GoodSyms EXCEPT ![2].shndx = 7], GoodRels),
                Image(FCode \o MainCode, [GoodSyms EXCEPT ![5].shndx = 7], GoodRels)}

\* A symbol table of function symbols only, without the null symbol, and
\* no main: every symbol takes a slot starting at 1.  An empty symbol
\* table: calloc(0) may return a pointer to no slots.
SlotImages == {Image(FCode \o MainCode, <<Sym("f", "func", 2, 0, 4), Sym("g", "func", 2, 4, 4)>>,
                     <<>>),
               Image(FCode \o MainCode, <<>>, <<>>)}

\* A function whose st_size runs past the end of its section.
SizeImages == {Image(FCode \o MainCode, [GoodSyms EXCEPT ![3].size = 5], GoodRels)}

\* A relocation section whose sh_info is past the section table.
InfoImages == {[Good EXCEPT !.sections[5].info = 9]}

\* A local call relocated against a symbol whose st_shndx is past the
\* section table.
TargetImages == {Image(FCode \o MainCode, GoodSyms \o <<Sym("g", "notype", 9, 0, 0)>>,
                       <<Rel(6, 5, "64_32")>>)}

\* A file that ends 32 bytes into its last section header: the 8 bytes
\* the loop checks are present, sh_offset and sh_size are not.
TruncatedImages == {[Good EXCEPT !.size = @ - (ShdrSize - 32)]}

FieldImages == TruncatedImages \cup ShndxImages \cup SizeImages \cup InfoImages \cup TargetImages

\* main begins with the helper call, so a relocation sits on the first
\* instruction of a function.
FirstInstCode == FCode \o <<CallHelper(0), Alu("alu64", "mov", 1, 1), CallLocal(-1), Exit>>
FirstInstImage == Image(FirstInstCode, GoodSyms,
                        <<Rel(1, 4, "64_64"), Rel(4, 3, "64_32"), Rel(6, 1, "64_32")>>)
FirstInstImages == {FirstInstImage}
FirstInstLoads == {<<FirstInstImage, "main">>}
====
