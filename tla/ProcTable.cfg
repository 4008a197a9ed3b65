CONSTANTS
  Slots = {i, a, b, c}
  Nobody = nobody
  initproc = i
  NCPU = 2
  KillPids = {3}
  MaxPid = 4
SPECIFICATION FairSpec
INVARIANTS
  StackNotShared
  WaitNoLostWakeup
  KilledNotAsleep
PROPERTIES
  OrphansReaped
