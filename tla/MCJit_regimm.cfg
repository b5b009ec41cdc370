\* A register-source MUL, DIV or MOD with a nonzero imm uses the imm in the JIT.
CONSTANTS
  WordBits = 4
  HalfBits = 2
  MaxInsts = 8
  StackSlots = 2
  UnwindIndex = 5
  Helpers = {2, 5}
  MemPtr = 3
  MemLens = {0, 5}
  Junk = {0}
  ClobberVals = {9}
  MaxCallDepth = 2
  HostStackCap = 30
  MaxBlockOps = 40
  Programs <- RegImmPrograms
  CallerVals <- MCCallerVals
  FramePtr <- MCFramePtr
SPECIFICATION Spec
CHECK_DEADLOCK FALSE
PROPERTY JitRefinesInterpreter
