CONSTANTS
  p1 = p1
  p2 = p2
  p3 = p3
  Procs = {p1, p2}
  Msgs = {m1, m2}
  Junk = junk
  Free = free
  NUM_MSG = 3
  MAX_SIG = 3
  DestLists <- TwoDests
  Calls <- MixedCalls
  CallSets <- MixedCallSets
  MaxPending = 1
  MaxSignals = 2
SYMMETRY Symmetry
SPECIFICATION MCSpec
CHECK_DEADLOCK FALSE
INVARIANTS
  TypeOK
  PauseNoLostWakeup
  RunsOnOneCpu
PROPERTIES
  MulticastFifo
  ZombieStays
