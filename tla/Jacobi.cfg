CONSTANTS
  N = 7
  P = 3
  L = 1
  PipeUnits = 7
SPECIFICATION Spec
CHECK_DEADLOCK FALSE
INVARIANTS
  RowsOfOneRound
  ResultIsSequential
PROPERTIES
  Terminates
