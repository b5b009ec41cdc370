\* A symbol table without the null symbol and without main overflows relocated_functions[] (ubpf_loader.c:279).
CONSTANTS
  WordBits = 4
  HalfBits = 2
  NoName = NoName
  MainNames = {"three"}
  Helpers = {5}
  MaxInsts = 8
  MaxSections = 32
  DataRelocSet = TRUE
  Images <- SlotImages
  WellFormedLoads <- MCWellFormedLoads
  HelperIndex <- MCHelperIndex
  DataReloc <- MCDataReloc
SPECIFICATION Spec
INVARIANT MemorySafe
CHECK_DEADLOCK FALSE
