---------------------------- MODULE Interpreter ----------------------------
(***************************************************************************)
(* The interpreter, ubpf_exec (ubpf_vm.c, not part of this repository's   *)
(* sources: modelled from the spec, section 4.3), restricted to the       *)
(* instructions of EbpfIsa: ALU, LDDW, branches, helper and local calls   *)
(* and EXIT.  It is the abstract specification that the x86-64 JIT        *)
(* (X86Jit) is shown to implement.  One step is one iteration of the     *)
(* dispatch loop: fetch, increment pc, execute; pc is incremented at the *)
(* fetch, so a step that ends execution leaves pc one past its record.   *)
(***************************************************************************)
EXTENDS Verifier

CONSTANTS
  Programs,      \* the instruction streams a caller may load
  MaxInsts,      \* UBPF_MAX_INSTS
  Helpers,       \* indices registered with ubpf_register
  UnwindIndex,   \* ubpf_set_unwind_function_index
  MaxCallDepth,  \* UBPF_MAX_CALL_DEPTH
  MemPtr,        \* the mem argument of ubpf_exec, as an integer
  MemLens,       \* the mem_len arguments enumerated
  FramePtr,      \* the value of R10: the top of the private stack
  Junk,          \* values an uninitialised register may hold
  ClobberVals    \* values a helper may leave in the caller-saved R1..R5

\* prog is vm->insts: written by ubpf_load once the verifier accepts it.
VARIABLES prog, pc, reg, frames, status
ivars == <<prog, pc, reg, frames, status>>

CalleeSaved == 6..9
CallerSaved == 1..5

Loadable == {p \in Programs : Validate(p, Helpers, MaxInsts)}

Init ==
  /\ prog \in Programs /\ Validate(prog, Helpers, MaxInsts)
  /\ pc = 0
  /\ reg \in {r \in [Regs -> Junk \cup MemLens \cup {MemPtr, FramePtr}] :
                /\ r[1] = MemPtr /\ r[2] \in MemLens /\ r[FP] = FramePtr
                /\ \A i \in Regs \ {1, 2, FP} : r[i] \in Junk}
  /\ frames = <<>>
  /\ status = "running"

Cur == Inst(prog, pc)

AluStep ==
  /\ status = "running" /\ IsAlu(Cur)
  /\ LET w == Width(Cur)
     IN reg' = [reg EXCEPT ![Cur.dst] =
                  AluResult(Cur.code, w, Trunc(reg[Cur.dst], w), Trunc(Operand(Cur, reg), w))]
  /\ pc' = pc + 1
  /\ UNCHANGED <<frames, status>>

LddwStep ==
  /\ status = "running" /\ IsLddw(Cur)
  /\ reg' = [reg EXCEPT ![Cur.dst] = LddwValue(Cur.imm, Inst(prog, pc + 1).imm)]
  /\ pc' = pc + 2
  /\ UNCHANGED <<frames, status>>

BranchStep ==
  /\ status = "running" /\ IsBranch(Cur)
  /\ LET w == Width(Cur)
     IN pc' = IF Taken(Cur.code, w, Trunc(reg[Cur.dst], w), Trunc(Operand(Cur, reg), w))
              THEN BranchTarget(prog, pc) ELSE pc + 1
  /\ UNCHANGED <<reg, frames, status>>

\* A helper call sets R0; R1..R5 are caller-saved and left undefined.  The
\* unwind helper returning 0 ends the program with R0 = 0.
HelperStep ==
  /\ status = "running" /\ IsHelperCall(Cur)
  /\ \E v \in ClobberVals :
       LET res == HelperResult(Cur.imm, reg)
       IN /\ reg' = [r \in Regs |-> IF r = 0 THEN res
                                    ELSE IF r \in CallerSaved THEN v ELSE reg[r]]
          /\ status' = IF Cur.imm = UnwindIndex /\ res = 0 THEN "exited" ELSE "running"
  /\ pc' = pc + 1
  /\ UNCHANGED frames

LocalCallStep ==
  /\ status = "running" /\ IsLocalCall(Cur)
  /\ IF Len(frames) >= MaxCallDepth
     THEN /\ status' = "error"
          /\ pc' = pc + 1
          /\ UNCHANGED frames
     ELSE /\ frames' = Append(frames, [ret |-> pc + 1,
                                       saved |-> [r \in CalleeSaved |-> reg[r]]])
          /\ pc' = CallTarget(prog, pc)
          /\ UNCHANGED status
  /\ UNCHANGED reg

ExitStep ==
  /\ status = "running" /\ IsExit(Cur)
  /\ IF frames = <<>>
     THEN /\ status' = "exited"
          /\ pc' = pc + 1
          /\ UNCHANGED <<reg, frames>>
     ELSE LET top == frames[Len(frames)]
          IN /\ reg' = [r \in Regs |-> IF r \in CalleeSaved THEN top.saved[r] ELSE reg[r]]
             /\ pc' = top.ret
             /\ frames' = SubSeq(frames, 1, Len(frames) - 1)
             /\ UNCHANGED status

\* An opcode the dispatch switch does not know (an LDDW tail reached as an
\* instruction) ends execution with an error.
UnknownStep ==
  /\ status = "running" /\ Cur.cls = "none"
  /\ status' = "error"
  /\ pc' = pc + 1
  /\ UNCHANGED <<reg, frames>>

Next ==
  /\ UNCHANGED prog
  /\ \/ AluStep \/ LddwStep \/ BranchStep \/ HelperStep
     \/ LocalCallStep \/ ExitStep \/ UnknownStep

\* The behaviours the interpreter allows: the implementation relation the
\* JIT is checked against.
SafetySpec == Init /\ [][Next]_ivars

\* ubpf_exec is a synchronous loop: once called it keeps stepping.
Spec == SafetySpec /\ WF_ivars(Next)
=============================================================================
