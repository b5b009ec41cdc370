\* A relocation on the first instruction of a function is rejected as a bad name (ubpf_loader.c:367).
CONSTANTS
  WordBits = 4
  HalfBits = 2
  NoName = NoName
  MainNames = {"main"}
  Helpers = {5}
  MaxInsts = 8
  MaxSections = 32
  DataRelocSet = TRUE
  Images <- FirstInstImages
  WellFormedLoads <- FirstInstLoads
  HelperIndex <- MCHelperIndex
  DataReloc <- MCDataReloc
SPECIFICATION Spec
PROPERTY LoadsWellFormed
CHECK_DEADLOCK FALSE
