CONSTANTS
  Top = 12
  Main = 100
  Handler = 200
  SigretCode = 300
  Words = {0, 1}
  MaxDepth = 2
  MaxPending = 1
SPECIFICATION FairSpec
INVARIANTS
  FrameIntact
PROPERTIES
  ContextRestored
  SignalsHandled
