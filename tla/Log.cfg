CONSTANTS
  Procs = {p1, p2}
  Blocks = {b1, b2, b3}
  Values = {v0, v1}
  Blank = v0
  None = none
  OpBlocks = 2
  MAXOPBLOCKS = 3
  LOGSIZE = 6
  size = 6
  inodestart = b1
SYMMETRY Symmetry
SPECIFICATION Spec
INVARIANTS
  QuietIsDurable
  BeginNoLostWakeup
PROPERTIES
  CommitsAreAtomic
