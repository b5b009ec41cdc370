------------------------------ MODULE ElfImages ------------------------------
(***************************************************************************)
(* Object images shaped after the rel_64_32 test object: one .text with   *)
(* two functions, a helper call and a local call resolved by R_BPF_64_32, *)
(* an LDDW resolved by R_BPF_64_64 against .data.  Each image of Rejected *)
(* changes one thing of the good one.  Offsets and sizes are in           *)
(* instruction units.  MCElf loads them; MCJit compiles the good one's    *)
(* linked program.                                                        *)
(***************************************************************************)
EXTENDS EbpfIsa

Blank == [type |-> "null", flags |-> "", name |-> "", ok |-> TRUE, insts |-> <<>>,
          syms |-> <<>>, rels |-> <<>>, info |-> 0, link |-> 0, size |-> 0]
StrTab == [Blank EXCEPT !.type = "strtab", !.name = ".strtab"]
Text(insts) == [Blank EXCEPT !.type = "progbits", !.flags = "ax", !.name = ".text",
                             !.insts = insts, !.size = Len(insts)]
SymTab(syms) == [Blank EXCEPT !.type = "symtab", !.name = ".symtab", !.syms = syms]
RelSec(name, info, rels) == [Blank EXCEPT !.type = "rel", !.name = name, !.info = info,
                                          !.link = 3, !.rels = rels]
Data == [Blank EXCEPT !.type = "progbits", !.flags = "wa", !.name = ".data", !.size = 2]

Sym(name, type, shndx, value, size) ==
  [name |-> name, type |-> type, shndx |-> shndx, value |-> value, size |-> size]
Rel(offset, sym, type) == [offset |-> offset, sym |-> sym, type |-> type]

\* f: r0 = 1; r1 = map; exit.   main: r1 = 1; call unwind; call f; exit.
FCode    == <<Alu("alu64", "mov", 0, 1), Lddw(1, 0), LddwTail(0), Exit>>
MainCode == <<Alu("alu64", "mov", 1, 1), CallHelper(0), CallLocal(-1), Exit>>
GoodSyms == <<Sym("", "notype", 0, 0, 0), Sym("f", "func", 2, 0, 4),
              Sym("main", "func", 2, 4, 4), Sym("unwind", "notype", 0, 0, 0),
              Sym("map", "object", 5, 0, 1)>>
GoodRels == <<Rel(1, 4, "64_64"), Rel(5, 3, "64_32"), Rel(6, 1, "64_32"), Rel(7, 0, "other")>>

\* An object file as clang lays it out: the 64-byte ELF header, the
\* payloads, then the table of 64-byte section headers at the end.
EhdrSize == 64
ShdrSize == 64
Laid(secs, payload) ==
  [headerOk |-> TRUE, shoff |-> EhdrSize + payload, shentsize |-> ShdrSize,
   size |-> EhdrSize + payload + ShdrSize * Len(secs), sections |-> secs]

Image(text, syms, rels) ==
  Laid(<<Blank, StrTab, Text(text), SymTab(syms), RelSec(".rel.text", 2, rels),
         Data, RelSec(".rel.data", 5, <<>>)>>, 256)

Good == Image(FCode \o MainCode, GoodSyms, GoodRels)

\* Images each of which a check of the loader rejects.
Rejected ==
  { [Good EXCEPT !.headerOk = FALSE],
    [Good EXCEPT !.sections[6].ok = FALSE],
    \* the file ends 4 bytes into the last section header
    [Good EXCEPT !.size = @ - (ShdrSize - 4)],
    [Good EXCEPT !.sections[4] = StrTab],
    [Good EXCEPT !.sections[5].link = 7],
    Image(FCode \o MainCode, GoodSyms, <<Rel(5, 7, "64_32")>>),
    Image(FCode \o MainCode, [GoodSyms EXCEPT ![4].name = "nohelper"], GoodRels),
    Image(FCode \o MainCode, GoodSyms, <<Rel(3, 4, "64_64")>>),
    Image(FCode \o MainCode, [GoodSyms EXCEPT ![2].name = "bad"], GoodRels),
    Image(FCode \o MainCode, [GoodSyms EXCEPT ![2].shndx = 5], GoodRels),
    Image(FCode \o <<Alu("alu64", "mov", 1, 1), CallHelper(0), CallLocal(0), Exit>>,
          GoodSyms, GoodRels),
    \* two symbols named main: the buffer counts both, one is copied
    Image(FCode \o MainCode, [GoodSyms EXCEPT ![2].name = "main"], <<>>) }

\* rel_64_32.bpf.c's layout, scaled to eight records: sec1 holds zero and
\* two (two calls zero), __main holds three and then main, which calls two
\* across sections.  The unlinked call immediates are the target's offset
\* in its section minus one.  two and main set a register before their
\* call, as main's one(6) does: a call on a function's first record is
\* rejected (the elf_firstinst run).
Named(sec, name) == [sec EXCEPT !.name = name]
RelFor(name, info, rels) == [RelSec(name, info, rels) EXCEPT !.link = 4]
TwoSecImage ==
  Laid(<<Blank, StrTab,
       Named(Text(<<Exit, Alu("alu64", "mov", 0, 1), CallLocal(-1), Exit>>), "sec1"),
       Named(Text(<<Exit, Alu("alu64", "mov", 1, -1), CallLocal(0), Exit>>), "__main"),
       SymTab(<<Sym("", "notype", 0, 0, 0), Sym("zero", "func", 2, 0, 1),
                Sym("two", "func", 2, 1, 3), Sym("three", "func", 3, 0, 1),
                Sym("main", "func", 3, 1, 3)>>),
       RelFor(".relsec1", 2, <<Rel(2, 1, "64_32")>>),
       RelFor(".rel__main", 3, <<Rel(2, 2, "64_32")>>)>>, 192)

MCHelperIndex == [n \in {"", "f", "main", "unwind", "nohelper", "map", "bad",
                          "zero", "two", "three"} |->
                    IF n = "unwind" THEN 5 ELSE -1]
MCDataReloc == [n \in {"map"} |-> 6]
====
