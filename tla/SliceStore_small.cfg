CONSTANTS
  USER_DIES = 1
  USER_BLOCKS_PER_DIE = 3
  SLICES_PER_BLOCK = 2
  PAGES_PER_MLC_BLOCK = 2
  LogicalSlices = {s1, s2, s3}
  NONE = NONE
  CurrentStaysLive = TRUE
  Values = {x1, x2}
  Blank = Blank
  Broken = Broken
SPECIFICATION StoreSpec
PROPERTIES
  ImplementsStore
  ProgramsInOrder
SYMMETRY StoreSymmetry
