SPECIFICATION Spec
CHECK_DEADLOCK FALSE
CONSTANTS
  MaxCache = 5
  MaxFrame = 4
  MinFrame = 2
  ShrinkFactor = 1
  FrameLens = {3, 4}
  MaxFrames = 4
  SliceSize = 3
  NetSize = 3
  MayBreak = TRUE
  MayAge = TRUE
INVARIANT CachesInBounds
INVARIANT NoFalseReject
PROPERTY ImplementsFrameStream
PROPERTY AcceptedArrives
