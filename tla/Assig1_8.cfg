CONSTANTS
  p0 = p0
  p1 = p1
  p2 = p2
  Procs = {p0, p1, p2}
  Parent = p0
  c_ids <- MCChildren
  type = 1
  Msgs <- MCMsgs
  Junk = junk
  Free = free
  NUM_MSG = 5
  MAX_SIG = 3
  DestLists <- MCDests
  Calls <- ProgCalls
  MaxPending = 4
  MaxSignals = 2
SPECIFICATION SpecProg
INVARIANTS
  VarianceUsesMean
  EachChildOnce
  RecvNoLostWakeup
  StopsOnlyAtMissedMean
PROPERTIES
  UnicastFifo
CHECK_DEADLOCK FALSE
