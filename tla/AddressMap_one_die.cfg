CONSTANTS
  USER_DIES = 1
  USER_BLOCKS_PER_DIE = 4
  SLICES_PER_BLOCK = 2
  LogicalSlices = {s1, s2, s3, s4}
  NONE = NONE
  CurrentStaysLive = TRUE
SPECIFICATION FairLinkSpec
INVARIANTS
  LinksAreLists
PROPERTY WriteReturns
