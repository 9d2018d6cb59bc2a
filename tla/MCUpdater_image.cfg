SPECIFICATION Spec
CHECK_DEADLOCK FALSE
CONSTANTS
  Images <- SmallImages
  MaxSlice = 8
  PageSize = 12
  SeqWidth = 8
  BadAnswers = {"busy", "short", "mismatch", "same", "flash", "failed"}
  LinkFaults = {"lose", "loseQuit", "corrupt", "merge", "reload"}
  MaxFaults = 1
  MaxCalls = 1
  MaxLink = 2
INVARIANT SuccessMeansWritten
INVARIANT NoSpuriousRollback
INVARIANT SlicesFit
PROPERTY UpdateEnds
