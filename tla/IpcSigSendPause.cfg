CONSTANTS
  p1 = p1
  p2 = p2
  p3 = p3
  Procs = {p1, p2, p3}
  Msgs = {m1}
  Junk = junk
  Free = free
  NUM_MSG = 3
  MAX_SIG = 3
  DestLists <- OneDest
  Calls <- SigSendCalls
  CallSets <- SigSendCallSets
  MaxPending = 1
  MaxSignals = 2
SPECIFICATION MCSpec
CHECK_DEADLOCK FALSE
INVARIANTS
  PauseNoLostWakeup
