CONSTANTS
  Tags = {t1, t2, t3, t4}
  Entries = {e1, e2}
  Dies = {d1}
  Blocks = {b1}
  PAGES_PER_BLOCK = 2
  Values = {x1, x2}
  ERASED = ERASED
  NONE = NONE
  DrainedBeforeReuse = TRUE
SPECIFICATION DepSpec
SYMMETRY DepSymmetry
INVARIANTS
  RunsAsIssued
  AtRestAsIssued
  OneUserPerEntry
  WaitsCanEnd
