SPECIFICATION Spec
CONSTANTS
  Timers = {t1, t2}
  NoTimer = NoTimer
  MaxId = 2
  Intervals = {0, 2}
  MaxLag = 1
  MaxCalls = 1
  CallbackOps <- OwnTimerOps
  OwnTimerOnly = TRUE
INVARIANT KeyIsCurrent
INVARIANT StoppedIsDisarmed
INVARIANT IdPartition
PROPERTY WorkingFires
