CONSTANTS
  Directions = {Rx, Tx}
  Slots = {c1, c2}
  Reqs = {1, 2, 3}
  NVME_BLOCKS_PER_SLICE = 2
  FIFO_SIZE = 4
  COUNT_SIZE = 3
  IoCommands <- MCIoCommands
  NSZE = 5
  NONE = NONE
SPECIFICATION DmaSpec
SYMMETRY DmaSymmetry
INVARIANTS
  DoneExact
  InsideNameSpace
PROPERTIES
  ReleasedWhenDone
  EndsFullyMoved
