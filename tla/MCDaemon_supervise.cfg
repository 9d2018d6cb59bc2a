SPECIFICATION Spec
CHECK_DEADLOCK FALSE
CONSTANTS
  Sessions = {s1, s2}
  AutoRestart = {s1}
  MaxErrors = 2
  MaxFd = 2
  MaxCommands = 1
  MaxForkFails = 1
  Unkillable = FALSE
INVARIANT ProcessesOwned
 
PROPERTY CrashedRestarts
PROPERTY CrashLoopEnds
