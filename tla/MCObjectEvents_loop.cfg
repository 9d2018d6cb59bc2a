SPECIFICATION Spec
CONSTANTS
  a = a
  b = b
  Root = r
  Loop = loop
  Drain = drain
  Objects = {r, a, b}
  Parent <- Chain
  Producers = {p1}
  Events = {e1, e2, e3}
  Capacity = 2
  Targets = {r}
  Kinds = {"post", "invoke"}
  TimerOwners = {b}
INVARIANT NoSleepOnWork
PROPERTY EventsRun
PROPERTY InvokeReturns
