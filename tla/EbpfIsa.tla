------------------------------ MODULE EbpfIsa ------------------------------
(***************************************************************************)
(* The instruction model of the uBPF virtual machine (ebpf.h, ubpf.h):     *)
(* an instruction is a record whose fields are the partition of the       *)
(* opcode byte (operation class, operation code, source-is-register flag) *)
(* and the dst, src, offset and immediate fields.  Words are scaled down: *)
(* a register holds WordBits bits and the "32-bit" half HalfBits bits, so *)
(* that zero extension, sign extension and wrap-around stay observable.   *)
(***************************************************************************)
EXTENDS Integers, Sequences, Bitwise

CONSTANTS
  WordBits,   \* width of a register (64 in the code)
  HalfBits    \* width of the 32-bit operation forms and of an immediate

ASSUME HalfBits \in Nat \ {0} /\ WordBits = 2 * HalfBits

Word == 2^WordBits
Half == 2^HalfBits

\* Registers R0..R10; R10 is the read-only frame pointer.
Regs == 0..10
FP == 10

\* Operation classes and codes of the opcode byte.
AluCodes == {"add", "sub", "mul", "div", "mod", "or", "and", "xor", "mov",
             "lsh", "rsh", "arsh", "neg"}
Shifts == {"lsh", "rsh", "arsh"}
JmpCodes == {"ja", "jeq", "jne", "jgt", "jge", "jlt", "jle",
             "jsgt", "jsge", "jslt", "jsle", "jset"}
MulDivMod == {"mul", "div", "mod"}

IsAlu(ins)    == ins.cls \in {"alu32", "alu64"}
IsBranch(ins) == ins.cls \in {"jmp", "jmp32"} /\ ins.code \in JmpCodes
IsCall(ins)   == ins.cls = "jmp" /\ ins.code = "call"
IsExit(ins)   == ins.cls = "jmp" /\ ins.code = "exit"
IsLddw(ins)   == ins.cls = "ld" /\ ins.code = "dw"

\* Width in bits of an ALU or conditional-jump instruction.
Width(ins) == IF ins.cls \in {"alu32", "jmp32"} THEN HalfBits ELSE WordBits

Trunc(x, w)  == x % (2^w)
Signed(x, w) == IF x >= 2^(w-1) THEN x - 2^w ELSE x

\* An immediate is a signed HalfBits-bit value, sign extended to a word.
Imms == -(2^(HalfBits-1)) .. (2^(HalfBits-1) - 1)
SExt(imm) == imm % Word

\* The second operand of an ALU or jump instruction, before truncation.
Operand(ins, reg) == IF ins.reg THEN reg[ins.src] ELSE SExt(ins.imm)

\* The result of an ALU operation on w-bit operands a and b, with the
\* defined division-by-zero semantics (quotient 0, remainder = dividend);
\* shift counts are masked to the width (w is a power of two), and an
\* arithmetic shift floors the signed value.
AluResult(code, w, a, b) ==
  CASE code = "add" -> Trunc(a + b, w)
    [] code = "sub" -> Trunc(a - b, w)
    [] code = "mul" -> Trunc(a * b, w)
    [] code = "div" -> IF b = 0 THEN 0 ELSE a \div b
    [] code = "mod" -> IF b = 0 THEN a ELSE a % b
    [] code = "or"  -> a | b
    [] code = "and" -> a & b
    [] code = "xor" -> a ^^ b
    [] code = "mov" -> b
    [] code = "lsh" -> Trunc(a * 2^(b % w), w)
    [] code = "rsh" -> a \div 2^(b % w)
    [] code = "arsh" -> Trunc(Signed(a, w) \div 2^(b % w), w)
    [] code = "neg" -> Trunc(-a, w)

\* Whether a conditional jump on w-bit operands a and b is taken.
Taken(code, w, a, b) ==
  CASE code = "ja"   -> TRUE
    [] code = "jeq"  -> a = b
    [] code = "jne"  -> a # b
    [] code = "jgt"  -> a > b
    [] code = "jge"  -> a >= b
    [] code = "jlt"  -> a < b
    [] code = "jle"  -> a <= b
    [] code = "jsgt" -> Signed(a, w) > Signed(b, w)
    [] code = "jsge" -> Signed(a, w) >= Signed(b, w)
    [] code = "jslt" -> Signed(a, w) < Signed(b, w)
    [] code = "jsle" -> Signed(a, w) <= Signed(b, w)
    [] code = "jset" -> (a & b) # 0

\* The helpers of the test harness (test_helpers.h) the models register:
\* index 2 is no_op, index 5 is unwind, which returns its first argument.
\* args maps argument registers 1..5 to their values.
HelperResult(idx, args) == IF idx = 5 THEN args[1] ELSE 0

\* Instruction constructors, used to write programs in the MC modules.
Alu(cls, code, dst, imm)   == [cls |-> cls, code |-> code, reg |-> FALSE,
                               dst |-> dst, src |-> 0, off |-> 0, imm |-> imm]
AluR(cls, code, dst, src)  == [cls |-> cls, code |-> code, reg |-> TRUE,
                               dst |-> dst, src |-> src, off |-> 0, imm |-> 0]
Jmp(cls, code, dst, imm, off) == [cls |-> cls, code |-> code, reg |-> FALSE,
                               dst |-> dst, src |-> 0, off |-> off, imm |-> imm]
CallHelper(idx) == [cls |-> "jmp", code |-> "call", reg |-> FALSE,
                    dst |-> 0, src |-> 0, off |-> 0, imm |-> idx]
CallLocal(imm)  == [cls |-> "jmp", code |-> "call", reg |-> FALSE,
                    dst |-> 0, src |-> 1, off |-> 0, imm |-> imm]
Exit == [cls |-> "jmp", code |-> "exit", reg |-> FALSE,
         dst |-> 0, src |-> 0, off |-> 0, imm |-> 0]
\* LDDW spans two records; the second has opcode 0 and carries the high half.
Lddw(dst, lo) == [cls |-> "ld", code |-> "dw", reg |-> FALSE,
                  dst |-> dst, src |-> 0, off |-> 0, imm |-> lo]
LddwTail(hi)  == [cls |-> "none", code |-> "zero", reg |-> FALSE,
                  dst |-> 0, src |-> 0, off |-> 0, imm |-> hi]

\* The 64-bit constant loaded by an LDDW pair (low half unsigned).
LddwValue(lo, hi) == Trunc(lo, HalfBits) + Trunc(hi, HalfBits) * Half
=============================================================================
