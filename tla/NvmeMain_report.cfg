CONSTANTS
  NHOSTS = 2
  NOPS = 4
  Config <- MCConfig
  ALIGN = 2
  TAGS = 2
  QueueIds = {q1}
  RST_LIMIT = 1
  Builds = {"simulator"}
  BoardCommands <- MCBoardCommands
  NSZE = 12
  NVME_BLOCKS_PER_SLICE = 2
  POOL = 3
SPECIFICATION FairMainSpec
INVARIANT HostWritesCounted
