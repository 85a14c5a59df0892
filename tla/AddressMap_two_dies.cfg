CONSTANTS
  USER_DIES = 2
  USER_BLOCKS_PER_DIE = 3
  SLICES_PER_BLOCK = 2
  LogicalSlices = {s1, s2, s3, s4}
  NONE = NONE
  CurrentStaysLive = TRUE
SPECIFICATION Spec
SYMMETRY SliceSymmetry
INVARIANTS
  TypeOK
  MapsAgree
  InvalidCntExact
  VictimListsExact
  FreeBlocksErased
  NoBlockStranded
  ReserveKept
  NeverAborts
PROPERTY EraseLosesNothing
