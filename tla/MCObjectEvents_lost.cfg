SPECIFICATION Spec
CONSTANTS
  a = a
  b = b
  Root = r
  Loop = loop
  Drain = drain
  Objects = {r, a}
  Parent <- Flat
  Producers = {p1}
  Events = {e1, e2}
  Capacity = 2
  Targets = {a}
  Kinds = {"invoke"}
  TimerOwners = {}
PROPERTY InvokeReturns
