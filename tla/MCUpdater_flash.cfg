SPECIFICATION Spec
CHECK_DEADLOCK FALSE
CONSTANTS
  Images <- SmallImages
  MaxSlice = 8
  PageSize = 12
  SeqWidth = 8
  BadAnswers = {"flash"}
  LinkFaults = {}
  MaxFaults = 1
  MaxCalls = 0
  MaxLink = 2
INVARIANT FlashFailureQuits
