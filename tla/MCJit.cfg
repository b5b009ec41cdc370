\* The JIT implements the interpreter and keeps the System V ABI.
CONSTANTS
  WordBits = 4
  HalfBits = 2
  MaxInsts = 8
  StackSlots = 2
  UnwindIndex = 5
  Helpers = {2, 5}
  MemPtr = 3
  MemLens = {0, 5}
  Junk = {0}
  ClobberVals = {9}
  MaxCallDepth = 2
  HostStackCap = 30
  MaxBlockOps = 40
  Programs <- MCPrograms
  CallerVals <- MCCallerVals
  FramePtr <- MCFramePtr
SPECIFICATION Spec
INVARIANTS CalleeSavedRestored HelperCallsAligned
PROPERTIES JitRefinesInterpreter ReturnsToCaller
CHECK_DEADLOCK FALSE
