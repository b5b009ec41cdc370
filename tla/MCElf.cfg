CONSTANTS
  WordBits = 4
  HalfBits = 2
  NoName = NoName
  MainNames = {"main", NoName, "three"}
  Helpers = {5}
  MaxInsts = 8
  MaxSections = 32
  DataRelocSet = TRUE
  Images <- MCImages
  WellFormedLoads <- MCWellFormedLoads
  HelperIndex <- MCHelperIndex
  DataReloc <- MCDataReloc
SPECIFICATION Spec
INVARIANTS MemorySafe LinkedAsSpecified
PROPERTIES LoadsWellFormed
CHECK_DEADLOCK FALSE
