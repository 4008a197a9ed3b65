CONSTANTS
  Readers = {r1, r2}
  Writers = {w1}
  Bytes = {b1, b2}
  Junk = junk
  Free = free
  PIPESIZE = 2
  UINT = 4
  ReadSizes = {2}
  WriteSizes = {1, 3}
  Killable = {r1, w1}
SPECIFICATION FairSpec
CHECK_DEADLOCK FALSE
INVARIANTS
  PipeNoLostWakeup
  NotUsedAfterFree
PROPERTIES
  PipeFifo
  ClosedEndsCall
