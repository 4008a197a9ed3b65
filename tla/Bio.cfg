CONSTANTS
  p1 = p1
  p2 = p2
  Procs = {p1, p2}
  NBUF = 2
  Blocks = {1, 2, 3}
  Values = {v0, v1}
  Blank = v0
  Nobody = nobody
  DiskErrors = {FALSE}
  MaxHold <- TwoAndOne
  MaxDirty = 1
  Written = {1, 3}
SPECIFICATION FairSpec
CHECK_DEADLOCK FALSE
INVARIANTS
  RefcntExact
  CleanMatchesDisk
PROPERTIES
  BlocksHeldAlone
  BreadReturns
