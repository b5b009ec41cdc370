----------------------------- MODULE ElfLoader -----------------------------
(***************************************************************************)
(* ubpf_load_elf_ex (ubpf_loader.c): function discovery, linking and      *)
(* relocation of a relocatable BPF object, then ubpf_load (Verifier).     *)
(* Each loop iteration of the code is one action, so the state between    *)
(* iterations (relocated_functions, total_functions, the linked buffer)   *)
(* is visible to the invariants.                                          *)
(*                                                                         *)
(* An image is abstracted to its parsed form: sections (0-based, as in    *)
(* sections[]) with their type, flags, name and contents; offsets, sizes  *)
(* and symbol values are in 8-byte instruction units.  The section-header *)
(* table is located in bytes (shoff, shentsize, the file's size); the     *)
(* other checks on raw bytes collapse to the flags headerOk and ok.  A    *)
(* read or write outside an array the code indexes moves to phase "ub":   *)
(* what follows is undefined and is not modelled.                          *)
(***************************************************************************)
EXTENDS Verifier

CONSTANTS
  Images,         \* the object images a caller may pass
  MainNames,      \* main_function_name arguments; NoName stands for NULL
  NoName,
  HelperIndex,    \* ubpf_lookup_registered_function: name -> index, or -1
  DataRelocSet,   \* whether vm->data_relocation_function is set
  DataReloc,      \* the value it returns for a symbol name (a word)
  Helpers,        \* indices registered with ubpf_register
  MaxInsts,       \* UBPF_MAX_INSTS
  MaxSections,    \* MAX_SECTIONS
  WellFormedLoads \* <<image, main name>> pairs the spec's ELF rules accept

VARIABLES
  img,        \* the image
  mainName,   \* main_function_name
  phase,      \* which loop of ubpf_load_elf_ex is running
  i, j,       \* its loop counters
  rf,         \* relocated_functions: slot -> record, or Null
  total,      \* total_functions
  linkedSize, \* linked_program_size, in instructions
  linked,     \* the linked program
  err         \* the error reported, once phase = "error"

lvars == <<img, mainName, phase, i, j, rf, total, linkedSize, linked, err>>

Null == [null |-> TRUE]

Sec(k) == img.sections[k + 1]
SecCount == Len(img.sections)
Executable(s) == s.type = "progbits" /\ s.flags = "ax"
FirstOf(type) == CHOOSE k \in 0 .. (SecCount - 1) :
                   /\ Sec(k).type = type
                   /\ \A l \in 0 .. (k - 1) : Sec(l).type # type
HasSection(type) == \E k \in 0 .. (SecCount - 1) : Sec(k).type = type
Symbols == Sec(FirstOf("symtab")).syms

\* The opcode-0 record calloc leaves where nothing was copied.
ZeroInst == [cls |-> "none", code |-> "zero", reg |-> FALSE,
             dst |-> 0, src |-> 0, off |-> 0, imm |-> 0]

Init ==
  /\ img \in Images
  /\ mainName \in MainNames
  /\ phase = "header"
  /\ i = 0 /\ j = 0
  /\ rf = <<>> /\ total = 0 /\ linkedSize = 0 /\ linked = <<>>
  /\ err = "none"

Fail(reason) == phase' = "error" /\ err' = reason
Undefined == phase' = "ub"

\* The e_ident, e_type, e_machine and e_shnum checks.
CheckHeader ==
  /\ phase = "header"
  /\ IF ~img.headerOk \/ SecCount > MaxSections THEN Fail("bad header")
     ELSE phase' = "sections" /\ UNCHANGED err
  /\ UNCHANGED <<img, mainName, i, j, rf, total, linkedSize, linked>>

\* Where the loop reads section header k: e_shoff plus k times e_shentsize.
ShdrOffset(k) == img.shoff + k * img.shentsize

\* The loop bounds-checks sizeof(Elf64_Ehdr*) bytes of a header, then reads
\* its sh_offset and sh_size, which end ShSizeEnd bytes into it.
PtrSize   == 8
ShSizeEnd == 40

\* One iteration of the section-header loop: header and payload in bounds.
ParseSection ==
  /\ phase = "sections"
  /\ IF i = SecCount THEN phase' = "tables" /\ i' = 0 /\ UNCHANGED err
     ELSE CASE ShdrOffset(i) + PtrSize > img.size ->
                 Fail("bad section header offset or size") /\ UNCHANGED i
            [] ShdrOffset(i) + ShSizeEnd > img.size -> Undefined /\ UNCHANGED <<i, err>>
            [] ~Sec(i).ok -> Fail("bad section offset or size") /\ UNCHANGED i
            [] OTHER -> i' = i + 1 /\ UNCHANGED <<phase, err>>
  /\ UNCHANGED <<img, mainName, j, rf, total, linkedSize, linked>>

\* The string-table and symbol-table searches and the calloc of
\* relocated_functions: total_symbols slots.  calloc(0, ...) may return
\* NULL or a pointer to no slots; slot 0 is read either way.
FindTables ==
  /\ phase = "tables"
  /\ CASE ~HasSection("strtab") -> Fail("could not find the string table") /\ UNCHANGED <<rf, total>>
       [] ~HasSection("symtab") -> Fail("could not find the symbol table") /\ UNCHANGED <<rf, total>>
       [] Len(Symbols) = 0 -> \/ Fail("could not allocate memory") /\ UNCHANGED <<rf, total>>
                              \/ Undefined /\ UNCHANGED <<err, rf, total>>
       [] OTHER -> /\ phase' = "discover"
                   /\ rf' = [k \in 0 .. (Len(Symbols) - 1) |-> Null]
                   /\ total' = 1
                   /\ UNCHANGED err
  /\ UNCHANGED <<img, mainName, i, j, linkedSize, linked>>

IsMainNamedOnly(sym) == mainName # NoName /\ sym.name = mainName

\* The symbol is the entry point: named by the caller, or, when the caller
\* names none, the function at offset 0 of .text.
IsMain(sym) ==
  \/ mainName # NoName /\ sym.name = mainName
  \/ mainName = NoName /\ Sec(sym.shndx).name = ".text" /\ sym.value = 0

\* st_name past the end of the string table.
BadName(sym) == sym.name = "bad"

\* The main function goes to slot 0 and counts towards the linked size.
TakeMainUncounted(rec) ==
  rf' = [rf EXCEPT ![0] = rec] /\ UNCHANGED linkedSize
TakeMain(rec) ==
  rf' = [rf EXCEPT ![0] = rec] /\ linkedSize' = linkedSize + rec.size

\* One iteration of the symbol loop.  The section index is checked with
\* > section_count, so an index equal to the count reads one past
\* sections[]; a non-main function goes to slot total_functions, which
\* starts at 1 in a table of total_symbols slots.
DiscoverSymbol ==
  /\ phase = "discover"
  /\ i < Len(Symbols)
  /\ LET sym == Symbols[i + 1]
         rec == [name |-> sym.name, shndx |-> sym.shndx, start |-> sym.value,
                 size |-> sym.size, landed |-> 0]
     IN CASE sym.type # "func" ->
               i' = i + 1 /\ UNCHANGED <<phase, err, rf, total, linkedSize>>
          [] BadName(sym) ->
               Fail("a function symbol contained a bad name") /\ UNCHANGED <<i, rf, total, linkedSize>>
          [] sym.shndx > SecCount ->
               Fail("bad section index") /\ UNCHANGED <<i, rf, total, linkedSize>>
          [] sym.shndx = SecCount -> Undefined /\ UNCHANGED <<i, err, rf, total, linkedSize>>
          [] ~Executable(Sec(sym.shndx)) ->
               Fail("points to a non-executable section") /\ UNCHANGED <<i, rf, total, linkedSize>>
          [] IsMain(sym) -> TakeMain(rec) /\ i' = i + 1 /\ UNCHANGED <<phase, err, total>>
          [] total >= Len(Symbols) -> Undefined /\ UNCHANGED <<i, err, rf, total, linkedSize>>
          [] OTHER ->
               /\ rf' = [rf EXCEPT ![total] = rec]
               /\ total' = total + 1
               /\ linkedSize' = linkedSize + sym.size
               /\ i' = i + 1
               /\ UNCHANGED <<phase, err>>
  /\ UNCHANGED <<img, mainName, j, linked>>

\* After the loop: the main function must have been found.
CheckMain ==
  /\ phase = "discover"
  /\ i = Len(Symbols)
  /\ IF rf[0] = Null THEN Fail("function not found")
     ELSE phase' = "link" /\ UNCHANGED err
  /\ i' = 0
  /\ UNCHANGED <<img, mainName, j, rf, total, linkedSize, linked>>

\* One iteration of the linking loop: copy the function's code to the
\* landing spot and record its index.  st_value and st_size were never
\* checked against the section, so the copy may read past its data; it
\* writes into the linked_program_size records calloc returned.
LinkFunction ==
  /\ phase = "link"
  /\ IF i = total
     THEN /\ phase' = "relocate" /\ i' = 0 /\ UNCHANGED rf
          /\ linked' = linked \o [k \in 1 .. (linkedSize - Len(linked)) |-> ZeroInst]
     ELSE LET f == rf[i]
              code == Sec(f.shndx).insts
          IN IF \/ f.start + f.size > Len(code)
                \/ Len(linked) + f.size > linkedSize
             THEN Undefined /\ UNCHANGED <<i, rf, linked>>
             ELSE /\ rf' = [rf EXCEPT ![i].landed = Len(linked)]
                  /\ linked' = linked \o SubSeq(code, f.start + 1, f.start + f.size)
                  /\ i' = i + 1
                  /\ UNCHANGED phase
  /\ UNCHANGED <<img, mainName, j, total, linkedSize, err>>

\* One iteration of the loop over sections, entering a relocation section.
\* sh_info is used as an index without a check; sh_link is checked.
StartRelocSection ==
  /\ phase = "relocate"
  /\ IF i = SecCount THEN phase' = "verify" /\ UNCHANGED <<i, err>>
     ELSE CASE Sec(i).type # "rel" -> i' = i + 1 /\ UNCHANGED <<phase, err>>
            [] Sec(i).info >= SecCount -> Undefined /\ UNCHANGED <<i, err>>
            [] ~Executable(Sec(Sec(i).info)) -> i' = i + 1 /\ UNCHANGED <<phase, err>>
            [] Sec(i).link >= SecCount -> Fail("bad symbol table section index") /\ UNCHANGED i
            [] OTHER -> phase' = "reloc" /\ UNCHANGED <<i, err>>
  /\ j' = 0
  /\ UNCHANGED <<img, mainName, rf, total, linkedSize, linked>>

\* The function a relocation at offset off of section sec applies to: the
\* first slot whose function contains off, with the start excluded.
SourceSlots(sec, off) ==
  {k \in 0 .. (total - 1) : /\ rf[k].shndx = sec
                            /\ off > rf[k].start /\ off < rf[k].start + rf[k].size}
FirstSlot(S) == CHOOSE k \in S : \A l \in S : k <= l

\* (uint32_t)imm and (uint32_t)(imm >> 32) stored into the signed imm field.
LowHalf(v)  == Signed(v % Half, HalfBits)
HighHalf(v) == Signed(v \div Half, HalfBits)

\* The R_BPF_64_64 case: the checks, then the callback's 64-bit value
\* split across the LDDW pair.  The pair is checked against the section,
\* not the function; the second record is written at the next linked slot.
DataRelocation(r, sym, sec, idx) ==
  LET map == Sec(sym.shndx) IN
  CASE r.offset + 1 > Len(Sec(sec).insts) -> Fail("bad R_BPF_64_64 relocation offset") /\ UNCHANGED linked
    [] sym.shndx > SecCount -> Fail("bad R_BPF_64_64 relocation section index") /\ UNCHANGED linked
    [] sym.shndx = SecCount -> Undefined /\ UNCHANGED <<err, linked>>
    [] map.type # "progbits" \/ map.flags # "wa" -> Fail("bad R_BPF_64_64 relocation section") /\ UNCHANGED linked
    [] sym.size + sym.value > map.size -> Fail("bad R_BPF_64_64 size") /\ UNCHANGED linked
    [] ~IsLddw(linked[idx + 1]) -> Fail("bad R_BPF_64_64 relocation instruction") /\ UNCHANGED linked
    [] r.offset + 2 > Len(Sec(sec).insts) -> Fail("bad R_BPF_64_64 relocation offset") /\ UNCHANGED linked
    [] ~DataRelocSet -> Fail("data relocation function not set") /\ UNCHANGED linked
    [] idx + 2 > Len(linked) -> Undefined /\ UNCHANGED <<err, linked>>
    [] OTHER -> /\ linked' = [linked EXCEPT ![idx + 1].imm = LowHalf(DataReloc[sym.name]),
                                            ![idx + 2].imm = HighHalf(DataReloc[sym.name])]
                /\ UNCHANGED <<phase, err>>

CallRelocationOffByOne(r, sym, idx) ==
  IF linked[idx + 1].src = 1
  THEN LET targets == {k \in 0 .. (total - 1) : /\ rf[k].shndx = sym.shndx
                                                  /\ rf[k].start = linked[idx + 1].imm + 1}
       IN CASE sym.shndx >= SecCount -> Undefined /\ UNCHANGED <<err, linked>>
            [] targets = {} -> Fail("relocated target of a function call does not point to a known function")
                               /\ UNCHANGED linked
            [] OTHER -> /\ linked' = [linked EXCEPT ![idx + 1].imm = rf[FirstSlot(targets)].landed - idx]
                        /\ UNCHANGED <<phase, err>>
  ELSE IF HelperIndex[sym.name] = -1 THEN Fail("helper function not found") /\ UNCHANGED linked
  ELSE /\ linked' = [linked EXCEPT ![idx + 1].imm = HelperIndex[sym.name]]
       /\ UNCHANGED <<phase, err>>

\* The R_BPF_64_32 case.  A local call's immediate holds the target's
\* section offset minus one; the target section index is not checked.
CallRelocation(r, sym, idx) ==
  IF linked[idx + 1].src = 1
  THEN LET targets == {k \in 0 .. (total - 1) : /\ rf[k].shndx = sym.shndx
                                                  /\ rf[k].start = linked[idx + 1].imm + 1}
       IN CASE sym.shndx >= SecCount -> Undefined /\ UNCHANGED <<err, linked>>
            [] targets = {} -> Fail("relocated target of a function call does not point to a known function")
                               /\ UNCHANGED linked
            [] OTHER -> /\ linked' = [linked EXCEPT ![idx + 1].imm = rf[FirstSlot(targets)].landed - (idx + 1)]
                        /\ UNCHANGED <<phase, err>>
  ELSE IF HelperIndex[sym.name] = -1 THEN Fail("helper function not found") /\ UNCHANGED linked
  ELSE /\ linked' = [linked EXCEPT ![idx + 1].imm = HelperIndex[sym.name]]
       /\ UNCHANGED <<phase, err>>

\* One iteration of the loop over the entries of a relocation section.
ApplyRelocation ==
  /\ phase = "reloc"
  /\ LET sec == Sec(i).info
         syms == Sec(Sec(i).link).syms
     IN IF j = Len(Sec(i).rels)
        THEN phase' = "relocate" /\ i' = i + 1 /\ UNCHANGED <<j, err, linked>>
        ELSE LET r == Sec(i).rels[j + 1]
                 sym == syms[r.sym + 1]
                 src == rf[FirstSlot(SourceSlots(sec, r.offset))]
                 idx == src.landed + (r.offset - src.start)
             IN /\ j' = j + 1
                /\ UNCHANGED i
                /\ CASE r.sym >= Len(syms) -> Fail("a relocation contained a bad symbol index") /\ UNCHANGED linked
                     [] BadName(sym) -> Fail("a relocation's symbol contained a bad name") /\ UNCHANGED linked
                     [] SourceSlots(sec, r.offset) = {} -> Fail("a relocation's symbol contained a bad name") /\ UNCHANGED linked
                     [] r.type = "64_64" -> DataRelocation(r, sym, sec, idx)
                     [] r.type = "64_32" -> CallRelocation(r, sym, idx)
                     [] OTHER -> UNCHANGED <<phase, err, linked>>
  /\ UNCHANGED <<img, mainName, rf, total, linkedSize>>

\* ubpf_load on the linked program.
Verify ==
  /\ phase = "verify"
  /\ IF Validate(linked, Helpers, MaxInsts) THEN phase' = "done" /\ UNCHANGED err
     ELSE Fail("verifier rejected")
  /\ UNCHANGED <<img, mainName, i, j, rf, total, linkedSize, linked>>

Next ==
  \/ CheckHeader \/ ParseSection \/ FindTables \/ DiscoverSymbol \/ CheckMain
  \/ LinkFunction \/ StartRelocSection \/ ApplyRelocation \/ Verify

Spec == Init /\ [][Next]_lvars /\ WF_lvars(Next)

-----------------------------------------------------------------------------
(* The linked program section 4.1 of the spec describes, in closed form:   *)
(* main first, the other functions in symbol-table order, every           *)
(* relocation of an executable section applied to the record at its      *)
(* offset.  A local call's immediate holds the target's section offset    *)
(* minus one, the form clang emits and the code reads.                    *)

RefFuncs == SelectSeq(Symbols, LAMBDA s : s.type = "func")
RefOrder == SelectSeq(RefFuncs, IsMain) \o SelectSeq(RefFuncs, LAMBDA s : ~IsMain(s))

RECURSIVE RefLanded(_)
RefLanded(n) == IF n = 1 THEN 0 ELSE RefLanded(n - 1) + RefOrder[n - 1].size

\* The relocations that apply to section sec, with their symbol tables.
RefRels(sec) ==
  UNION {{[r |-> Sec(q).rels[k], syms |-> Sec(Sec(q).link).syms] : k \in DOMAIN Sec(q).rels} :
           q \in {q \in 0 .. (SecCount - 1) : Sec(q).type = "rel" /\ Sec(q).info = sec}}

\* Record d of the n-th function of RefOrder, relocated.
RefInst(n, d) ==
  LET f == RefOrder[n]
      base == Sec(f.shndx).insts[f.value + d + 1]
      here == {x \in RefRels(f.shndx) : x.r.offset = f.value + d}
      pair == {x \in RefRels(f.shndx) : x.r.offset = f.value + d - 1 /\ x.r.type = "64_64"}
      SymOf(x) == x.syms[x.r.sym + 1]
  IN CASE here # {} ->
            LET x == CHOOSE x \in here : TRUE
                sym == SymOf(x)
            IN CASE x.r.type = "64_64" -> [base EXCEPT !.imm = LowHalf(DataReloc[sym.name])]
                 [] x.r.type = "64_32" /\ base.src = 1 ->
                      LET g == CHOOSE m \in DOMAIN RefOrder : /\ RefOrder[m].shndx = sym.shndx
                                                              /\ RefOrder[m].value = base.imm + 1
                      IN [base EXCEPT !.imm = RefLanded(g) - (RefLanded(n) + d + 1)]
                 [] x.r.type = "64_32" -> [base EXCEPT !.imm = HelperIndex[sym.name]]
                 [] OTHER -> base
       [] pair # {} -> [base EXCEPT !.imm = HighHalf(DataReloc[SymOf(CHOOSE x \in pair : TRUE).name])]
       [] OTHER -> base

RECURSIVE RefFrom(_)
RefFrom(n) == IF n > Len(RefOrder) THEN <<>>
              ELSE [d \in 1 .. RefOrder[n].size |-> RefInst(n, d - 1)] \o RefFrom(n + 1)

RefLinked == RefFrom(1)

-----------------------------------------------------------------------------

\* No step of ubpf_load_elf_ex reads or writes outside the arrays it
\* indexes (sections[], relocated_functions[], a section's data, the
\* linked buffer).
MemorySafe == phase # "ub"

\* A load that succeeds hands ubpf_load the program the spec describes:
\* main first, each call retargeted to its callee's linked index, each
\* helper name replaced by its index and each data reference by the
\* callback's value.
LinkedAsSpecified == phase = "done" => linked = RefLinked

\* Every image and main name the ELF rules of the spec accept is loaded:
\* the loop over symbols, functions and relocations ends in ubpf_load
\* accepting the linked program.
LoadsWellFormed == <<img, mainName>> \in WellFormedLoads ~> phase = "done"
====
