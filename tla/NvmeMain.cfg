CONSTANTS
  NHOSTS = 2
  NOPS = 7
  Config <- MCConfig
  ALIGN = 2
  TAGS = 2
  QueueIds = {q1}
  RST_LIMIT = 1
  Builds = {"board", "simulator"}
  BoardCommands <- MCBoardCommands
  NSZE = 12
  NVME_BLOCKS_PER_SLICE = 2
  POOL = 3
SPECIFICATION FairMainSpec
INVARIANTS
  CreditsExact
  JobsConserved
  QueuesClosed
PROPERTIES
  SimulationEnds
  EnableHonoured
  CommandsEnd
