SPECIFICATION Spec
CHECK_DEADLOCK FALSE
CONSTANTS
  c1 = c1
  c2 = c2
  Slots = {c1, c2}
  Func = f
  Disconnectors <- OneAtATime
  Overlap = FALSE
  MaxEmits = 1
INVARIANT NoDeadCall
INVARIANT EndsAgree
PROPERTY QuietAfterCut
PROPERTY CallsEnd
