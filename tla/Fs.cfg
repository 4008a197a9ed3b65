CONSTANTS
  p1 = p1
  p2 = p2
  Procs = {p1, p2}
  Nobody = nobody
  NINODES = 7
  FSSIZE = 13
  NMETA = 1
  NDIRECT = 1
  NINDIRECT = 2
  BSIZE = 2
  NINODE = 5
  MaxChunk = 2
  Programs <- OneProgram
  Scripts <- MixedScripts
SPECIFICATION Spec
CHECK_DEADLOCK FALSE
INVARIANTS
  CommittedIsConsistent
  CacheCoherent
  RefsExact
  OnlyDropsDeadlock
