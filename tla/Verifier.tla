------------------------------ MODULE Verifier ------------------------------
(***************************************************************************)
(* The load-time verifier (ubpf_load -> validate, ubpf_vm.c, which is not *)
(* part of this repository's sources: modelled from the spec, section     *)
(* 4.2).  Programs are sequences of EbpfIsa instructions; program          *)
(* counters are 0-based as in the code, so instruction pc is prog[pc+1].  *)
(***************************************************************************)
EXTENDS EbpfIsa, FiniteSets

Inst(prog, pc) == prog[pc + 1]
Pcs(prog) == 0 .. (Len(prog) - 1)

\* The pcs the verifier visits: it advances by two past an LDDW, so the
\* record after an LDDW is its tail and never an instruction of its own.
RECURSIVE StartsFrom(_, _)
StartsFrom(prog, pc) ==
  IF pc >= Len(prog) THEN {}
  ELSE {pc} \cup StartsFrom(prog, IF IsLddw(Inst(prog, pc)) THEN pc + 2 ELSE pc + 1)

Starts(prog) == StartsFrom(prog, 0)

BranchTarget(prog, pc) == pc + Inst(prog, pc).off + 1
CallTarget(prog, pc)   == pc + Inst(prog, pc).imm + 1
IsLocalCall(ins)  == IsCall(ins) /\ ins.src = 1
IsHelperCall(ins) == IsCall(ins) /\ ins.src = 0

\* One instruction obeys the structural rules of section 4.2.
InstOk(prog, pc, helpers) ==
  LET ins == Inst(prog, pc) IN
  /\ ins.cls # "none"
  /\ ins.dst \in Regs /\ ins.src \in Regs
  /\ (IsAlu(ins) \/ IsLddw(ins)) => ins.dst # FP
  /\ IsLddw(ins) =>
       /\ pc + 1 < Len(prog)
       /\ LET tail == Inst(prog, pc + 1)
          IN tail.cls = "none" /\ tail.dst = 0 /\ tail.src = 0 /\ tail.off = 0
  /\ IsBranch(ins) => BranchTarget(prog, pc) \in Starts(prog)
  /\ IsHelperCall(ins) => ins.imm \in helpers
  /\ IsLocalCall(ins) => CallTarget(prog, pc) \in Pcs(prog)

\* validate(): the whole program is accepted.
Validate(prog, helpers, maxInsts) ==
  /\ Len(prog) \in 1 .. maxInsts
  /\ IsExit(prog[Len(prog)])
  /\ \A pc \in Starts(prog) : InstOk(prog, pc, helpers)

\* The function-entry bitmap (vm->int_funcs): every local-call target.
IntFuncs(prog) ==
  {CallTarget(prog, pc) : pc \in {p \in Starts(prog) : IsLocalCall(Inst(prog, p))}}
=============================================================================
