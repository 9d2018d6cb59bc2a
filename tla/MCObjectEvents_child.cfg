SPECIFICATION Spec
CONSTANTS
  a = a
  b = b
  Root = r
  Loop = loop
  Drain = drain
  Objects = {r, a}
  Parent <- Flat
  Producers = {p1, p2}
  Events = {e1, e2}
  Capacity = 2
  Targets = {r, a}
  Kinds = {"post", "emit", "invoke"}
  TimerOwners = {a}
INVARIANT TypeOK
INVARIANT TriggeringMeansScheduled
PROPERTY ImplementsFifo
