CONSTANTS
  Count = 3
  Slices = {0, 1, 3, 6}
  p1 = p1
  x1 = x1
  x2 = x2
  Parts = {p1, p2}
  Values = {x1, x2}
  Writes <- MCWrites
  Unset = Unset
  NONE = NONE
SPECIFICATION BufferSpec
INVARIANTS
  ChainsExact
  LastWriteKept
PROPERTY
  ImplementsLru
