CONSTANTS
  USER_DIES = 2
  USER_BLOCKS_PER_DIE = 3
  SLICES_PER_BLOCK = 2
  LogicalSlices = {s1, s2, s3, s4, s5, s6}
  NONE = NONE
  CurrentStaysLive = TRUE
SPECIFICATION Spec
SYMMETRY SliceSymmetry
\* The program stops at the assertion.
CHECK_DEADLOCK FALSE
INVARIANT VictimExists
