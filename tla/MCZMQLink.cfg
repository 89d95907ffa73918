SPECIFICATION FairSpec
CONSTANTS
  Timeouts <- MCTimeouts
  Unset = Unset
  Capacity = 1
  MaxFrames = 3
INVARIANTS
  TypeOK
  SocketIsExclusive
  ConfIsAllOrNothing
PROPERTIES
  IsFairRelay
CHECK_DEADLOCK FALSE
