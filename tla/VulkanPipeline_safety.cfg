SPECIFICATION Spec
CONSTANTS
  JobCapacity = 1
  FrameCapacity = 1
  PacketCapacity = 1
  AsyncDepth = 2
  Clips <- MCClips
INVARIANTS
  NoFrameDropped
  FinishedComplete
  FramePoolSuffices
  FailureCancels
  TeardownAlone
  NoPtsRejection
  CancelledIsNoCause
PROPERTIES
  SinkSpec
