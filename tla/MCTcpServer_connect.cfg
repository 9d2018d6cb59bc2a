SPECIFICATION Spec
CONSTANTS
  MaxFd = 3
  MaxSocks = 3
  TokenMax = 3
  MaxTries = 3
  Tries <- MCTries
  TimeoutOps = {"none", "connect"}
  IoOps = {"none", "connect"}
  CancelOps = {"none"}
INVARIANT NotifiedOnce
INVARIANT MapsAgree
INVARIANT ChannelsAreCurrent
INVARIANT DescriptorsHeld
PROPERTY ConnectionsKept
PROPERTY ConnectEnds
