SPECIFICATION FairSpec
CONSTANTS
  w1 = w1
  w2 = w2
  Workers <- MCWorkers
  QueueCapacity = 2
  Tasks <- MCTasks
  NumFrames = 4
  ParallelFrames = 2
  Users <- MCWorkers
  NanosPerSecond = 12
  MaxInt = 77
  Videos <- MCVideos
  AudioTracks <- MCAudioTracks
INVARIANTS
  FileIsMerge
  InFlightBounded
  FailureInOrder
  AudioInSync
  AudioAccepted
  DecodersExclusive
PROPERTIES
  ConversionEnds
