SPECIFICATION FairSpec
CONSTANTS
  JobCapacity = 1
  FrameCapacity = 1
  PacketCapacity = 1
  AsyncDepth = 2
  Clips <- MCShortClips
PROPERTIES
  CallsReturn
  SubmittedIsEncoded
