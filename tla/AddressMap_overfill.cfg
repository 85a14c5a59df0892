CONSTANTS
  USER_DIES = 1
  USER_BLOCKS_PER_DIE = 3
  SLICES_PER_BLOCK = 2
  LogicalSlices = {s1, s2, s3, s4}
  NONE = NONE
  CurrentStaysLive = FALSE
SPECIFICATION Spec
SYMMETRY SliceSymmetry
\* The program stops at an assertion.
CHECK_DEADLOCK FALSE
INVARIANT CurrentPageInBlock
