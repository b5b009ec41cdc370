\* Unchecked st_shndx (> instead of >=), st_size, sh_info and call-target st_shndx index past a section or past sections[] (ubpf_loader.c:249, 260, 318, 441).
CONSTANTS
  WordBits = 4
  HalfBits = 2
  NoName = NoName
  MainNames = {"main"}
  Helpers = {5}
  MaxInsts = 8
  MaxSections = 32
  DataRelocSet = TRUE
  Images <- FieldImages
  WellFormedLoads <- MCWellFormedLoads
  HelperIndex <- MCHelperIndex
  DataReloc <- MCDataReloc
SPECIFICATION Spec
INVARIANT MemorySafe
CHECK_DEADLOCK FALSE
