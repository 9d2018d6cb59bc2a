SPECIFICATION Spec
CHECK_DEADLOCK FALSE
CONSTANTS
  c1 = c1
  Tasks = {k1, k2}
  Clients = {c1}
  Workers = {w1, w2}
  Nobody = Nobody
  Delays = {1}
  Pushers <- PushedOrSlot
  SlotTasks = {k2}
  Spurious = FALSE
  MaxSpawns = 1
INVARIANT RunsOnce
INVARIANT CancelledInTimeNeverRuns
INVARIANT JoinDrainsDue
PROPERTY JoinReturns
PROPERTY CallsReturn
PROPERTY TasksTaken
