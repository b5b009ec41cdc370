------------------------------- MODULE MCJit -------------------------------
(***************************************************************************)
(* Model-checking instance of X86Jit: 4-bit registers with 2-bit "32-bit" *)
(* halves, a two-slot BPF stack, and programs drawn from an alphabet that *)
(* covers every code path of translate() modelled: both ALU widths with   *)
(* immediate and register operands, the muldivmod paths, branches of     *)
(* both widths, LDDW, helper calls (the unwind helper included) and       *)
(* nested local calls.                                                    *)
(***************************************************************************)
EXTENDS X86Jit

\* Instructions that may precede the final EXIT of a short program.
Alphabet ==
  { Alu("alu64", "add", 0, 1), Alu("alu32", "add", 0, -1),
    Alu("alu64", "mov", 0, -2), Alu("alu32", "mov", 3, 1),
    AluR("alu64", "mov", 0, 1), AluR("alu32", "sub", 0, 2),
    AluR("alu64", "xor", 3, 2), Alu("alu32", "or", 0, -2),
    Alu("alu64", "div", 0, -1), AluR("alu64", "div", 0, 2),
    AluR("alu32", "div", 1, 2), AluR("alu64", "mod", 1, 2),
    Alu("alu64", "mod", 0, 0), Alu("alu32", "mul", 0, -1),
    AluR("alu64", "mul", 2, 1), Alu("alu64", "div", 0, 0),
    Jmp("jmp", "jeq", 2, 0, 1), Jmp("jmp32", "jsgt", 1, 1, 1),
    Jmp("jmp", "jset", 1, 1, 0), Jmp("jmp", "ja", 0, 0, 0),
    CallHelper(2), CallHelper(5), Alu("alu64", "mov", 1, 0),
    Alu("alu32", "lsh", 0, 1), AluR("alu64", "rsh", 1, 2), Alu("alu64", "arsh", 0, 1),
    AluR("alu32", "arsh", 0, 0), Alu("alu64", "neg", 0, 0), Alu("alu32", "neg", 1, 0) }

Short == {<<Exit>>} \cup {<<a, Exit>> : a \in Alphabet} \cup {<<a, b, Exit>> : a, b \in Alphabet}

\* Programs with LDDW and local calls: a call that clobbers and restores
\* R6, two nested calls, and the unwind helper taken inside a call.
Structured ==
  { <<Lddw(0, -1), LddwTail(1), Exit>>,
    <<Lddw(6, 1), LddwTail(-2), AluR("alu64", "mov", 0, 6), Exit>>,
    <<CallLocal(1), Exit, Alu("alu64", "mov", 6, -1), AluR("alu64", "add", 0, 6), Exit>>,
    <<CallLocal(1), Exit, CallLocal(1), Exit, Alu("alu64", "mov", 7, 1), Exit>>,
    <<CallLocal(2), AluR("alu64", "add", 0, 7), Exit,
      Alu("alu64", "mov", 1, 0), CallHelper(5), Alu("alu64", "mov", 0, 1), Exit>>,
    <<Alu("alu64", "mov", 1, 0), CallLocal(1), Exit, CallHelper(5), Exit>> }

\* The loader and the JIT composed: the programs ubpf_load_elf_ex links
\* from the good image (main calls the unwind helper and then f, which
\* loads a relocated map address), with main named and by default, and
\* from the two-section image (calls within and across sections), with
\* main and three as entry.  The elf run checks that every successful load
\* links exactly RefLinked, so the JIT is given RefLinked, evaluated at the
\* loader's initial state.
Img == INSTANCE ElfImages
Loader(image, name) == INSTANCE ElfLoader WITH
  img <- image, mainName <- name, phase <- "header", i <- 0, j <- 0,
  rf <- <<>>, total <- 0, linkedSize <- 0, linked <- <<>>, err <- "",
  Images <- {image}, MainNames <- {name}, NoName <- "NULL",
  HelperIndex <- Img!MCHelperIndex, DataRelocSet <- TRUE,
  DataReloc <- Img!MCDataReloc, MaxSections <- 32, WellFormedLoads <- {}
Loads == {<<Img!Good, "main">>, <<Img!Good, "NULL">>,
          <<Img!TwoSecImage, "main">>, <<Img!TwoSecImage, "three">>}
LoadedPrograms == {Loader(l[1], l[2])!RefLinked : l \in Loads}

MCPrograms == Short \cup Structured \cup LoadedPrograms

MCCallerVals == [x \in CalleeSavedHost |->
                   CASE x = "RBX" -> 1 [] x = "RBP" -> 2 [] x = "R12" -> 3
                     [] x = "R13" -> 4 [] x = "R14" -> 5 [] x = "R15" -> 7]

\* R10 is RSP just after the non-volatile registers are pushed: the return
\* address and five registers.
MCFramePtr == 1 + Len(Nonvolatile)
\* Programs on which the compiled code and the interpreter disagree.
\* Main falls through into a local function's entry (pc 1 is a call target).
EntryFallthroughPrograms == {<<CallLocal(0), Exit>>}
\* 32-bit modulo by zero, by a register and by the immediate 0, of a
\* dividend with upper bits set.
Mod32ZeroPrograms ==
  { <<Alu("alu64", "mov", 0, -2), AluR("alu32", "mod", 0, 2), Exit>>,
    <<Alu("alu64", "mov", 0, -2), Alu("alu32", "mod", 0, 0), Exit>> }
\* 32-bit register move of a value with upper bits set.
Mov32RegPrograms == {<<Alu("alu64", "mov", 3, -2), AluR("alu32", "mov", 0, 3), Exit>>}
\* 32-bit results the JIT does not zero-extend.
ZeroExtPrograms == Mod32ZeroPrograms \cup Mov32RegPrograms
\* Three unwind-helper calls: two fixups each, plus the three fixed ones.
FixupOverflowPrograms == {<<CallHelper(5), CallHelper(5), CallHelper(5), Exit>>}
\* A register-source division whose record carries a nonzero immediate.
RegImmPrograms ==
  {<<Alu("alu64", "mov", 0, -2), [AluR("alu64", "div", 0, 2) EXCEPT !.imm = 1], Exit>>}
\* A function that calls itself without end.
RecursionPrograms == {<<CallLocal(-1), Exit>>}
====
