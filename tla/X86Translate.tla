---------------------------- MODULE X86Translate ----------------------------
(***************************************************************************)
(* The x86-64 code generator of ubpf_jit_x86_64.c for the System V build. *)
(* Machine code is abstracted to a sequence of native operations, one per *)
(* emit_* call; a location is an index into that sequence (0-based, like  *)
(* state->offset), so pc_locs, the jump-fixup table and the sentinel      *)
(* targets keep the shape they have in the code.  Bytes, REX prefixes and *)
(* ModR/M encodings are left out.                                         *)
(***************************************************************************)
EXTENDS Verifier, TLC

CONSTANTS
  MaxInsts,     \* UBPF_MAX_INSTS: also the capacity of the fixup tables
  StackSlots,   \* UBPF_STACK_SIZE / 8
  UnwindIndex   \* vm->unwind_stack_extension_index

\* Sentinel target pcs of the fixup tables (TARGET_PC_*).
TargetPcExit == -1
TargetPcRetpoline == -2
TargetPcExternalDispatcher == -3

\* register_map, platform_nonvolatile_registers, platform_parameter_registers.
RegisterMap == <<"RAX", "RDI", "RSI", "RDX", "R9", "R8", "RBX", "R13", "R14", "R15", "RBP">>
MapRegister(r) == RegisterMap[r + 1]
Nonvolatile == <<"RBP", "RBX", "R13", "R14", "R15">>
ParameterRegs == <<"RDI", "RSI", "RDX", "RCX", "R8", "R9">>
RcxAlt == "R9"

\* The native operations.
Push(r) == [k |-> "push", r |-> r]
Pop(r)  == [k |-> "pop", r |-> r]
SubRsp(n) == [k |-> "subrsp", n |-> n]
AddRsp(n) == [k |-> "addrsp", n |-> n]
Mov(s, d) == [k |-> "mov", s |-> s, d |-> d]
MovFromRsp(d) == [k |-> "movfromrsp", d |-> d]
MovToRsp(s) == [k |-> "movtorsp", s |-> s]
LoadImm(d, v) == [k |-> "loadimm", d |-> d, v |-> v]
AluOp(w, code, d, ins, s) ==
  [k |-> "alu", w |-> w, code |-> code, d |-> d, reg |-> ins.reg, s |-> s, imm |-> ins.imm]
Xor32(r) == [k |-> "alu", w |-> HalfBits, code |-> "xor", d |-> r, reg |-> TRUE, s |-> r, imm |-> 0]
CmpOp(kind, w, d, ins, s) ==
  [k |-> kind, w |-> w, d |-> d, reg |-> ins.reg, s |-> s, imm |-> ins.imm]
CmpImm(d, imm) == [k |-> "cmp", w |-> WordBits, d |-> d, reg |-> FALSE, s |-> d, imm |-> imm]
TestReg(w, r) == [k |-> "test", w |-> w, d |-> r, reg |-> TRUE, s |-> r, imm |-> 0]
CmovZ(s, d) == [k |-> "cmovz", s |-> s, d |-> d]
MulDivOp(w, mul) == [k |-> "muldiv", w |-> w, mul |-> mul]
Jcc(cc) == [k |-> "jcc", cc |-> cc]
JmpOp == [k |-> "jmp"]
CallOp == [k |-> "call"]
Ret == [k |-> "ret"]
CallExt(idx) == [k |-> "callext", idx |-> idx]
Simple(kind) == [k |-> kind]

\* The generator state (struct jit_state); pc_locs is calloc'ed, so a pc
\* that never gets a location reads as 0.
InitState == [code |-> <<>>, jumps |-> <<>>, loads |-> <<>>,
              pcLocs |-> [i \in 0 .. MaxInsts |-> 0],
              exitLoc |-> 0, retpolineLoc |-> 0, dispatcherLoc |-> 0, err |-> FALSE]

Emit(st, ops) == [st EXCEPT !.code = @ \o ops]

\* emit_jump_target_address: the operation carries a rel32 to be patched.
EmitJump(st, op, targetPc) ==
  [st EXCEPT !.code = Append(@, op),
             !.jumps = Append(@, [loc |-> Len(st.code), targetPc |-> targetPc, targetOffset |-> 0])]

\* emit_jump_target_offset: a fixup whose target location is already known.
FixOffset(st, loc, target) ==
  [st EXCEPT !.jumps = Append(@, [loc |-> loc, targetPc |-> 0, targetOffset |-> target])]

\* emit_dispatched_external_helper_call: an indirect call through the
\* dispatcher slot (a load fixup) and the retpoline (a jump fixup).
EmitExternalCall(st, idx) ==
  [st EXCEPT !.code = Append(@, CallExt(idx)),
             !.jumps = Append(@, [loc |-> Len(st.code), targetPc |-> TargetPcRetpoline, targetOffset |-> 0]),
             !.loads = Append(@, [loc |-> Len(st.code), targetPc |-> TargetPcExternalDispatcher])]

\* emit_local_call: save R6..R9 around a near call (32 bytes keep alignment).
EmitLocalCall(st, targetPc) ==
  LET saved == <<6, 7, 8, 9>>
      s1 == Emit(st, [j \in 1..4 |-> Push(MapRegister(saved[j]))])
      s2 == EmitJump(s1, CallOp, targetPc)
  IN Emit(s2, [j \in 1..4 |-> Pop(MapRegister(saved[5 - j]))])

\* emit_retpoline: call label1; capture: pause; jmp capture; label1:
\* mov [rsp], rax; ret.  Returns the state with retpolineLoc set.
EmitRetpoline(st) ==
  LET target == Len(st.code)
      s1 == Emit(st, <<CallOp, Simple("pause"), JmpOp>>)
      s2 == FixOffset(s1, target + 2, target + 1)
      label1 == Len(s2.code)
      s3 == Emit(s2, <<Simple("movraxtorsp"), Ret>>)
  IN [FixOffset(s3, target, label1) EXCEPT !.retpolineLoc = target]

\* muldivmod: MUL, DIV and MOD of either width, with the divisor-is-zero
\* semantics implemented by a saved ZF and two conditional moves.
muldivmod(st, ins, src, dst) ==
  LET code == ins.code
      w == Width(ins)
      mul == code = "mul"
      divmod == code \in {"div", "mod"}
      imm == ins.imm
      pre == (IF dst # "RAX" THEN <<Push("RAX")>> ELSE <<>>)
             \o (IF dst # "RDX" THEN <<Push("RDX")>> ELSE <<>>)
             \o <<IF imm # 0 THEN LoadImm("RCX", SExt(imm)) ELSE Mov(src, "RCX"),
                  Mov(dst, "RAX")>>
      check == IF divmod
               THEN <<TestReg(w, "RCX")>>
                    \o (IF code = "mod" THEN <<Push("RAX")>> ELSE <<>>)
                    \o <<Simple("pushf"), LoadImm("RDX", 1), CmovZ("RDX", "RCX"), Xor32("RDX")>>
               ELSE <<>>
      fix == IF divmod
             THEN <<Simple("popf")>>
                  \o (IF code = "div" THEN <<LoadImm("RCX", 0), CmovZ("RCX", "RAX")>>
                                      ELSE <<Pop("RCX"), CmovZ("RCX", "RDX")>>)
             ELSE <<>>
      post == (IF dst # "RDX"
               THEN (IF code = "mod" THEN <<Mov("RDX", dst)>> ELSE <<>>) \o <<Pop("RDX")>>
               ELSE <<>>)
              \o (IF dst # "RAX"
                  THEN (IF code # "mod" THEN <<Mov("RAX", dst)>> ELSE <<>>) \o <<Pop("RAX")>>
                  ELSE <<>>)
  IN IF ~ins.reg /\ imm = 0
     THEN Emit(st, <<IF code \in {"div", "mul"} THEN Xor32(dst) ELSE Mov(dst, dst)>>)
     ELSE Emit(st, pre \o check \o <<MulDivOp(w, mul)>> \o fix \o post)

\* A faulty JccFor: signed greater-than given the unsigned condition code.
JccForUnsigned(code) ==
  CASE code = "jeq"  -> "e"  [] code = "jne"  -> "ne"
    [] code = "jgt"  -> "a"  [] code = "jge"  -> "ae"
    [] code = "jlt"  -> "b"  [] code = "jle"  -> "be"
    [] code = "jsgt" -> "a"  [] code = "jsge" -> "ge"
    [] code = "jslt" -> "l"  [] code = "jsle" -> "le"
    [] code = "jset" -> "ne"

\* The condition code emit_jcc is given for each conditional jump.
JccFor(code) ==
  CASE code = "jeq"  -> "e"  [] code = "jne"  -> "ne"
    [] code = "jgt"  -> "a"  [] code = "jge"  -> "ae"
    [] code = "jlt"  -> "b"  [] code = "jle"  -> "be"
    [] code = "jsgt" -> "g"  [] code = "jsge" -> "ge"
    [] code = "jslt" -> "l"  [] code = "jsle" -> "le"
    [] code = "jset" -> "ne"

\* The ALU cases of the switch in translate(), both widths: a register
\* shift count goes through CL, as x86 requires.
EmitAlu(st, ins, src, dst) ==
  CASE ins.code \in MulDivMod -> muldivmod(st, ins, src, dst)
    [] ins.code = "mov" /\ ins.reg -> Emit(st, <<Mov(src, dst)>>)
    [] ins.code = "mov" /\ ins.cls = "alu64" -> Emit(st, <<LoadImm(dst, SExt(ins.imm))>>)
    [] ins.code \in Shifts /\ ins.reg ->
         Emit(st, <<Mov(src, "RCX"), AluOp(Width(ins), ins.code, dst, ins, "RCX")>>)
    [] OTHER -> Emit(st, <<AluOp(Width(ins), ins.code, dst, ins, src)>>)

\* The JA and conditional-jump cases: cmp (test for JSET), then jcc.
EmitBranch(st, ins, src, dst, targetPc) ==
  IF ins.code = "ja" THEN EmitJump(st, JmpOp, targetPc)
  ELSE LET kind == IF ins.code = "jset" THEN "test" ELSE "cmp"
       IN EmitJump(Emit(st, <<CmpOp(kind, Width(ins), dst, ins, src)>>),
                   Jcc(JccFor(ins.code)), targetPc)

\* The CALL case: RCX is reserved for shifts, so the fourth argument goes
\* through RCX_ALT; the unwind helper's result is tested against zero.
EmitCall(st, ins, i) ==
  IF ins.src = 0
  THEN LET s1 == EmitExternalCall(Emit(st, <<Mov(RcxAlt, "RCX")>>), ins.imm)
       IN IF ins.imm = UnwindIndex
          THEN EmitJump(Emit(s1, <<CmpImm(MapRegister(0), 0)>>), Jcc("e"), TargetPcExit)
          ELSE s1
  ELSE IF ins.src = 1 THEN EmitLocalCall(st, i + ins.imm + 1)
  ELSE st

\* One iteration of the loop over vm->insts: record pc_locs[i], align the
\* stack at a function entry, emit the instruction.  Returns the state and
\* the index of the last record consumed (LDDW consumes two).
EmitInst(st0, prog, i) ==
  LET ins == Inst(prog, i)
      dst == MapRegister(ins.dst)
      src == MapRegister(ins.src)
      s1 == [st0 EXCEPT !.pcLocs[i] = Len(st0.code)]
      st == IF i = 0 \/ i \in IntFuncs(prog) THEN Emit(s1, <<SubRsp(1)>>) ELSE s1
  IN CASE IsAlu(ins) -> <<EmitAlu(st, ins, src, dst), i>>
       [] IsBranch(ins) -> <<EmitBranch(st, ins, src, dst, i + ins.off + 1), i>>
       [] IsCall(ins) -> <<EmitCall(st, ins, i), i>>
       [] IsExit(ins) -> <<Emit(st, <<AddRsp(1), Ret>>), i>>
       [] IsLddw(ins) ->
            <<Emit(st, <<LoadImm(dst, LddwValue(ins.imm, Inst(prog, i + 1).imm))>>), i + 1>>
       [] OTHER -> <<[st EXCEPT !.err = TRUE], i>>

RECURSIVE EmitFrom(_, _, _)
EmitFrom(st, prog, i) ==
  IF i >= Len(prog) \/ st.err THEN st
  ELSE LET r == EmitInst(st, prog, i) IN EmitFrom(r[1], prog, r[2] + 1)

\* A faulty Prologue: the alignment adjustment made for an odd count of
\* saved registers instead of an even one.
PrologueAlignInverted(st) ==
  LET n == Len(Nonvolatile)
      s1 == Emit(st, [j \in 1..n |-> Push(Nonvolatile[j])]
                     \o (IF MapRegister(1) # ParameterRegs[1]
                         THEN <<Mov(ParameterRegs[1], MapRegister(1))>> ELSE <<>>)
                     \o (IF n % 2 = 1 THEN <<SubRsp(1)>> ELSE <<>>)
                     \o <<MovFromRsp(MapRegister(FP)), SubRsp(StackSlots),
                          [k |-> "callskip"]>>)
  IN EmitJump(s1, JmpOp, TargetPcExit)

\* The prologue: save the non-volatile registers, point R10 at the frame,
\* allocate the stack, and call over a jump to the epilogue, so that the
\* program's final EXIT returns to that jump.
Prologue(st) ==
  LET n == Len(Nonvolatile)
      s1 == Emit(st, [j \in 1..n |-> Push(Nonvolatile[j])]
                     \o (IF MapRegister(1) # ParameterRegs[1]
                         THEN <<Mov(ParameterRegs[1], MapRegister(1))>> ELSE <<>>)
                     \o (IF n % 2 = 0 THEN <<SubRsp(1)>> ELSE <<>>)
                     \o <<MovFromRsp(MapRegister(FP)), SubRsp(StackSlots),
                          [k |-> "callskip"]>>)
  IN EmitJump(s1, JmpOp, TargetPcExit)

\* Faulty Epilogues: the non-volatile registers popped in push order; the
\* stack not restored from R10 before popping.
EpilogueSameOrder(st) ==
  LET n == Len(Nonvolatile)
      s1 == Emit([st EXCEPT !.exitLoc = Len(st.code)],
                 <<MovToRsp(MapRegister(FP))>> \o [j \in 1..n |-> Pop(Nonvolatile[j])] \o <<Ret>>)
      s2 == EmitRetpoline(s1)
  IN [Emit(s2, <<Simple("data8")>>) EXCEPT !.dispatcherLoc = Len(s2.code)]
EpilogueNoStackRestore(st) ==
  LET n == Len(Nonvolatile)
      s1 == Emit([st EXCEPT !.exitLoc = Len(st.code)],
                 [j \in 1..n |-> Pop(Nonvolatile[n - j + 1])] \o <<Ret>>)
      s2 == EmitRetpoline(s1)
  IN [Emit(s2, <<Simple("data8")>>) EXCEPT !.dispatcherLoc = Len(s2.code)]

\* The epilogue: R0 into RAX, RSP back from R10, pop, ret; then the
\* retpoline and the dispatcher slot at the tail of the buffer.
Epilogue(st) ==
  LET n == Len(Nonvolatile)
      s1 == Emit([st EXCEPT !.exitLoc = Len(st.code)],
                 (IF MapRegister(0) # "RAX" THEN <<Mov(MapRegister(0), "RAX")>> ELSE <<>>)
                 \o <<MovToRsp(MapRegister(FP))>>
                 \o (IF n % 2 = 0 THEN <<AddRsp(1)>> ELSE <<>>)
                 \o [j \in 1..n |-> Pop(Nonvolatile[n - j + 1])]
                 \o <<Ret>>)
      s2 == EmitRetpoline(s1)
  IN [Emit(s2, <<Simple("data8")>>) EXCEPT !.dispatcherLoc = Len(s2.code)]

\* translate(): fails on an opcode it does not know.
Translate(prog) ==
  LET body == EmitFrom(Prologue(InitState), prog, 0)
  IN IF body.err THEN body ELSE Epilogue(body)

\* resolve_patchable_relatives: the location each fixup's rel32 leads to
\* (the rel32 arithmetic target - (site + 4) cancels with the CPU's).
JumpTargetLoc(st, j) ==
  CASE j.targetOffset # 0 -> j.targetOffset
    [] j.targetPc = TargetPcExit -> st.exitLoc
    [] j.targetPc = TargetPcRetpoline -> st.retpolineLoc
    [] OTHER -> st.pcLocs[j.targetPc]

ResolveOk(st) == \A n \in DOMAIN st.loads : st.loads[n].targetPc = TargetPcExternalDispatcher

\* The patched target location of every operation that carries a rel32.
Resolved(st) == [n \in DOMAIN st.jumps |-> [loc |-> st.jumps[n].loc,
                                            to |-> JumpTargetLoc(st, st.jumps[n])]]

\* ubpf_translate_x86_64: translate, check the jump count, resolve.
TranslateX86(prog) ==
  LET st == Translate(prog)
      ok == ~st.err /\ Len(st.jumps) # MaxInsts /\ ResolveOk(st)
  IN [st EXCEPT !.err = ~ok]
=============================================================================
