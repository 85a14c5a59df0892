CONSTANTS
  USER_DIES = 2
  USER_BLOCKS_PER_LUN = 3
  TOTAL_BLOCKS_PER_LUN = 4
  USER_PAGES_PER_BLOCK = 4
  PAGES_PER_MLC_BLOCK = 4
  MaxWorn = 1
SPECIFICATION Spec
INVARIANTS
  TypeOK
  OwnPhysicalBlock
  SavedBadShunned
  BookedOrSaved
  RetiredOnlyIfWorn
  CapacityCovered
