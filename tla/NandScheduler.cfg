CONSTANTS
  USER_WAYS = 3
  RETRY_LIMIT = 1
  QueueBound = 1
  Workload <- MCWorkload
  NONE = NONE
SPECIFICATION SchedFairSpec
INVARIANTS
  WaysOnTheirLists
  EndedHasRun
  RetriesExact
PROPERTY
  NoWayStuck
