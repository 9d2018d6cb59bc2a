SPECIFICATION Spec
CHECK_DEADLOCK FALSE
CONSTANTS
  N = 2
  Main = Main
  Others = {}
INVARIANT JoinedMeansDead
PROPERTY WaitStopReturns
