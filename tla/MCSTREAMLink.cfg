SPECIFICATION FairSpec
CONSTANTS
  Timeouts <- MCTimeouts
  Unset = Unset
  Capacity = 1
  MaxFrames = 5
INVARIANTS
  TypeOK
  MarkerTellsWorker
  CountersCoverFrames
  SentOrDropped
  SinkInOrder
  OneFrameAfterStop
  PollHasTimeout
  SocketIsExclusive
  ConfIsAllOrNothing
PROPERTIES
  QuietAfterStop
  IsFairRelay
  StopFinishes
  FramesAreTaken
CHECK_DEADLOCK FALSE
