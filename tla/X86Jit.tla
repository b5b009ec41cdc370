------------------------------- MODULE X86Jit -------------------------------
(***************************************************************************)
(* The program compiled by ubpf_translate_x86_64 (X86Translate) running on *)
(* the host: the native operations of the translation executed on a model *)
(* of the x86-64 registers, flags and stack, called from C the way        *)
(* ubpf_compile's caller does.  One HostStep runs the native code of one  *)
(* BPF instruction: from an instruction boundary (a pc_locs entry) to the *)
(* next boundary or to the epilogue; EpilogueStep runs the epilogue back  *)
(* to the caller.  The module checks that this code implements the       *)
(* interpreter (Interpreter) and keeps the System V ABI.                  *)
(***************************************************************************)
EXTENDS X86Translate, FiniteSets

LOCAL Seqs == INSTANCE SequencesExt

CONSTANTS
  Programs, Helpers, MemPtr, MemLens, FramePtr, ClobberVals,
  Junk,          \* values of volatile host registers on entry
  CallerVals,    \* the caller's values of the callee-saved host registers
  MaxCallDepth,  \* the interpreter's UBPF_MAX_CALL_DEPTH
  HostStackCap,  \* 8-byte slots of native stack available
  MaxBlockOps    \* bound on native operations run by one step

HostRegs == {"RAX", "RBX", "RCX", "RDX", "RSI", "RDI", "RBP",
             "R8", "R9", "R10", "R11", "R12", "R13", "R14", "R15"}
CalleeSavedHost == {"RBX", "RBP", "R12", "R13", "R14", "R15"}
ClobberedHost == HostRegs \ (CalleeSavedHost \cup {"RAX"})

ASSUME DOMAIN CallerVals = CalleeSavedHost

VARIABLES
  hprog,    \* vm->insts
  jit,      \* the translation: jit_state and the patched jump targets
  rip,      \* location of the next native operation
  hstack,   \* the native stack, one slot per 8 bytes; the top is last
  hreg,     \* host general-purpose registers
  hflags,   \* ZF, CF and signed-less (SF # OF)
  hstatus,  \* running, returned (to the C caller), crash, overflow
  abiOk,    \* auxiliary: every helper call so far had RSP 16-byte aligned
  bpf       \* auxiliary: the BPF-visible state at the last boundary

hvars == <<hprog, jit, rip, hstack, hreg, hflags, hstatus, abiOk, bpf>>

Slot(t, v) == [t |-> t, v |-> v]
NoFlags == [zf |-> FALSE, cf |-> FALSE, slt |-> FALSE]

Loadable == {p \in Programs : Validate(p, Helpers, MaxInsts)}

\* The compiled program for prog, with each patched rel32 resolved.
Compile(prog) ==
  LET st == TranslateX86(prog)
      res == Resolved(st)
  IN [st |-> st, tgt |-> [l \in {res[n].loc : n \in DOMAIN res} |->
                            (CHOOSE e \in {res[n] : n \in DOMAIN res} : e.loc = l).to]]

Boundaries == {jit.st.pcLocs[i] : i \in Starts(hprog)}
PcAt(loc) == CHOOSE i \in Starts(hprog) : jit.st.pcLocs[i] = loc
RetPcOf(loc) ==
  1 + (CHOOSE i \in Starts(hprog) :
         /\ jit.st.pcLocs[i] <= loc
         /\ \A j \in Starts(hprog) : jit.st.pcLocs[j] <= loc => jit.st.pcLocs[j] <= jit.st.pcLocs[i])

\* The BPF registers as the register map places them (R10 is constant).
BpfRegs(hr) == [r \in Regs |-> IF r = FP THEN FramePtr ELSE hr[MapRegister(r)]]

\* The BPF call frames on the native stack.  Only call instructions push
\* return addresses: the first is the prologue's landing pad, each later
\* one the return of a local call, just above the four pushes of R6..R9
\* made by emit_local_call.
RetSlots(stack) == Seqs!SetToSortSeq({k \in DOMAIN stack : stack[k].t = "ret"}, <)
FramesOf(stack) ==
  LET R == RetSlots(stack)
  IN [j \in 1 .. (Len(R) - 1) |->
        LET k == R[j + 1]
        IN [ret |-> RetPcOf(stack[k].v), saved |-> [r \in 6..9 |-> stack[k - 10 + r].v]]]

\* Flag results of cmp, test and ALU operations on w-bit values.
CmpFlags(w, a, b) == [zf |-> a = b, cf |-> a < b, slt |-> Signed(a, w) < Signed(b, w)]
ResFlags(w, r) == [zf |-> r = 0, cf |-> FALSE, slt |-> r >= 2^(w - 1)]
CondHolds(cc, f) ==
  CASE cc = "e" -> f.zf            [] cc = "ne" -> ~f.zf
    [] cc = "a" -> ~f.cf /\ ~f.zf  [] cc = "ae" -> ~f.cf
    [] cc = "b" -> f.cf            [] cc = "be" -> f.cf \/ f.zf
    [] cc = "g" -> ~f.zf /\ ~f.slt [] cc = "ge" -> ~f.slt
    [] cc = "l" -> f.slt           [] cc = "le" -> f.zf \/ f.slt

\* One native operation executed on the machine state m (a record of rip,
\* stack, registers, flags, status and the alignment history); v is the
\* value a helper leaves in the registers the ABI lets it clobber.
PushSlot(m, slot) ==
  IF Len(m.stk) >= HostStackCap THEN [m EXCEPT !.st = "crash"]
  ELSE [m EXCEPT !.stk = Append(@, slot)]
Top(m) == m.stk[Len(m.stk)]
Popped(m) == [m EXCEPT !.stk = SubSeq(@, 1, Len(@) - 1)]

\* The operand b of an alu/cmp/test: a register, or the sign-extended imm32.
Src2(m, op) == Trunc(IF op.reg THEN m.r[op.s] ELSE SExt(op.imm), op.w)

\* mul/div on (E|R)DX:(E|R)AX by (E|R)CX; a zero divisor or a quotient
\* that does not fit raises #DE.  32-bit results are zero extended.
MulDiv(m, op) ==
  LET B == 2^op.w
      a == Trunc(m.r["RAX"], op.w)
      c == Trunc(m.r["RCX"], op.w)
      n == Trunc(m.r["RDX"], op.w) * B + a
  IN IF op.mul THEN [m EXCEPT !.r["RAX"] = (a * c) % B, !.r["RDX"] = (a * c) \div B]
     ELSE IF c = 0 \/ n \div c >= B THEN [m EXCEPT !.st = "crash"]
     ELSE [m EXCEPT !.r["RAX"] = n \div c, !.r["RDX"] = n % c]

CallExtDone(m, op, v) ==
  LET args == [i \in 1..5 |-> m.r[ParameterRegs[i]]]
  IN [m EXCEPT !.abi = @ /\ Len(m.stk) % 2 = 0,
               !.r = [x \in HostRegs |-> IF x = "RAX" THEN HelperResult(op.idx, args)
                                         ELSE IF x \in ClobberedHost THEN v ELSE m.r[x]]]

Exec(m, v) ==
  LET op == jit.st.code[m.rip + 1]
      nx == [m EXCEPT !.rip = m.rip + 1]
      tgt == jit.tgt[m.rip]
  IN CASE op.k = "push" -> PushSlot(nx, Slot("val", m.r[op.r]))
       [] op.k = "pop" -> [Popped(nx) EXCEPT !.r[op.r] = Top(m).v]
       [] op.k = "subrsp" -> IF Len(m.stk) + op.n > HostStackCap THEN [m EXCEPT !.st = "crash"]
                             ELSE [nx EXCEPT !.stk = @ \o [j \in 1..op.n |-> Slot("pad", 0)]]
       [] op.k = "addrsp" -> [nx EXCEPT !.stk = SubSeq(@, 1, Len(@) - op.n)]
       [] op.k = "movfromrsp" -> [nx EXCEPT !.r[op.d] = Len(m.stk)]
       [] op.k = "movtorsp" -> [nx EXCEPT !.stk = SubSeq(@, 1, m.r[op.s])]
       [] op.k = "mov" -> [nx EXCEPT !.r[op.d] = m.r[op.s]]
       [] op.k = "loadimm" -> [nx EXCEPT !.r[op.d] = op.v]
       [] op.k = "alu" ->
            LET res == AluResult(op.code, op.w, Trunc(m.r[op.d], op.w), Src2(m, op))
            IN [nx EXCEPT !.r[op.d] = res, !.f = ResFlags(op.w, res)]
       [] op.k = "cmp" -> [nx EXCEPT !.f = CmpFlags(op.w, Trunc(m.r[op.d], op.w), Src2(m, op))]
       [] op.k = "test" ->
            [nx EXCEPT !.f = ResFlags(op.w, Trunc(m.r[op.d], op.w) & Src2(m, op))]
       [] op.k = "cmovz" -> IF m.f.zf THEN [nx EXCEPT !.r[op.d] = m.r[op.s]] ELSE nx
       [] op.k = "muldiv" -> MulDiv(nx, op)
       [] op.k = "pushf" -> PushSlot(nx, Slot("flags", m.f))
       [] op.k = "popf" -> [Popped(nx) EXCEPT !.f = Top(m).v]
       [] op.k = "jcc" -> IF CondHolds(op.cc, m.f) THEN [m EXCEPT !.rip = tgt] ELSE nx
       [] op.k = "jmp" -> [m EXCEPT !.rip = tgt]
       [] op.k = "call" -> PushSlot([m EXCEPT !.rip = tgt], Slot("ret", m.rip + 1))
       \* call +5 over the following jmp: returns to the jmp to the epilogue.
       [] op.k = "callskip" -> PushSlot([m EXCEPT !.rip = m.rip + 2], Slot("ret", m.rip + 1))
       [] op.k = "ret" ->
            CASE Top(m).t = "ret" -> [Popped(m) EXCEPT !.rip = Top(m).v]
              [] Top(m).t = "host" -> [Popped(m) EXCEPT !.st = "returned"]
              [] OTHER -> [m EXCEPT !.st = "crash"]
       [] op.k = "callext" -> CallExtDone(nx, op, v)
       [] OTHER -> [m EXCEPT !.st = "crash"]

\* Native code runs until it reaches the start of a BPF instruction or the
\* epilogue, stops, or exhausts the bound (a native loop: reported stuck).
RECURSIVE Run(_, _, _)
Run(m, v, fuel) ==
  IF m.st # "running" THEN m
  ELSE IF fuel = 0 THEN [m EXCEPT !.st = "crash"]
  ELSE LET m2 == Exec(m, v)
       IN IF m2.st = "running" /\ m2.rip \in Boundaries \cup {jit.st.exitLoc} THEN m2
          ELSE Run(m2, v, fuel - 1)

\* The programs ubpf_load accepts and ubpf_translate_x86_64 compiles.
Compilable == {p \in Loadable : ~TranslateX86(p).err}

Init ==
  /\ hprog \in Compilable
  /\ jit = Compile(hprog)
  /\ rip = 0
  /\ hstack = <<Slot("host", 0)>>
  /\ \E len \in MemLens, j \in [HostRegs \ (CalleeSavedHost \cup {"RDI", "RSI"}) -> Junk] :
       hreg = [x \in HostRegs |-> CASE x = "RDI" -> MemPtr [] x = "RSI" -> len
                                   [] x \in CalleeSavedHost -> CallerVals[x]
                                   [] OTHER -> j[x]]
  /\ hflags = NoFlags
  /\ hstatus = "running"
  /\ abiOk = TRUE
  /\ bpf = [pc |-> 0, regs |-> [BpfRegs(hreg) EXCEPT ![FP] = FramePtr], frames |-> <<>>,
            done |-> FALSE]

Machine == [rip |-> rip, stk |-> hstack, r |-> hreg, f |-> hflags, st |-> hstatus, abi |-> abiOk]

SetMachine(m) ==
  /\ rip' = m.rip /\ hstack' = m.stk /\ hreg' = m.r /\ hflags' = m.f
  /\ hstatus' = m.st /\ abiOk' = m.abi

\* The C caller's call into the compiled function: the prologue, up to
\* the first instruction.
EnterStep ==
  /\ hstatus = "running" /\ rip = 0
  /\ SetMachine(Run(Machine, 0, MaxBlockOps))
  /\ UNCHANGED <<hprog, jit, bpf>>

\* The native code of the BPF instruction at rip, up to the next
\* instruction boundary or the epilogue.  The snapshot bpf records the
\* BPF state the interpreter would show after the same instruction.
HostStep ==
  /\ hstatus = "running" /\ rip \in Boundaries
  /\ \E v \in ClobberVals :
       LET m == Run(Machine, v, MaxBlockOps)
       IN /\ SetMachine(m)
          /\ bpf' = IF m.st = "running" /\ m.rip \in Boundaries
                    THEN [pc |-> PcAt(m.rip), regs |-> BpfRegs(m.r), frames |-> FramesOf(m.stk),
                          done |-> FALSE]
                    ELSE [pc |-> bpf.pc + 1, regs |-> BpfRegs(m.r), frames |-> bpf.frames,
                          done |-> m.st = "running" /\ m.rip = jit.st.exitLoc]
  /\ UNCHANGED <<hprog, jit>>

\* The epilogue: from exit_loc back to the C caller.
EpilogueStep ==
  /\ hstatus = "running" /\ rip = jit.st.exitLoc
  /\ SetMachine(Run(Machine, 0, MaxBlockOps))
  /\ UNCHANGED <<hprog, jit, bpf>>

Next == EnterStep \/ HostStep \/ EpilogueStep

\* The compiled function runs on the caller's thread: while it is running,
\* its next step is always taken.  Next is enabled in every running state,
\* so weak fairness of Next is: steps forever, or stops running for good.
Fairness == []<><<Next>>_hvars \/ <>[](hstatus # "running")

Spec == Init /\ [][Next]_hvars /\ Fairness

-----------------------------------------------------------------------------
\* The interpreter's status as the host state shows it: the BPF program
\* has exited once its code reached exit_loc; what the epilogue does after
\* that is the host's business (CalleeSavedRestored, ReturnsToCaller).
MappedStatus ==
  CASE bpf.done -> "exited"
    [] hstatus = "running" -> "running"
    [] OTHER -> "crash"

Abs == INSTANCE Interpreter WITH
         prog <- hprog, pc <- bpf.pc, reg <- bpf.regs, frames <- bpf.frames,
         status <- MappedStatus, Junk <- Junk \cup {CallerVals[x] : x \in CalleeSavedHost}

\* Every run of the compiled code is a run of the interpreter on the same
\* program: translate() preserves the meaning of each instruction, of
\* local calls and returns (emit_local_call, EXIT) and of helper calls.
JitRefinesInterpreter == Abs!SafetySpec

\* A compiled program whose BPF code has no loop always gets back to its C
\* caller: the final EXIT lands on the jmp placed after the prologue's
\* call, the unwind helper's je reaches exit_loc, and the epilogue's ret
\* pops the caller's return address.
ReturnsToCaller == <>(hstatus = "returned")

\* When the compiled function returns to its C caller, the callee-saved
\* registers hold the caller's values, the stack is back where it was,
\* and RAX holds the program's R0 (the prologue/epilogue of translate()).
CalleeSavedRestored ==
  hstatus = "returned" =>
    /\ \A x \in CalleeSavedHost : hreg[x] = CallerVals[x]
    /\ hstack = <<>>
    /\ hreg["RAX"] = bpf.regs[0]

\* Every helper is called with RSP 16-byte aligned, as the System V ABI
\* requires (the alignment comments of translate() and emit_local_call).
HelperCallsAligned == abiOk

\* translate() never records more fixups than the jumps and loads tables
\* hold (calloc(UBPF_MAX_INSTS, ...) in ubpf_translate_x86_64, which
\* reports "Excessive number of jump targets" when the table is exceeded).
FixupTablesInBounds ==
  Len(jit.st.jumps) <= MaxInsts /\ Len(jit.st.loads) <= MaxInsts
====
