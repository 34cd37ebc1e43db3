SPECIFICATION FairSpec
CONSTANTS
  NumSlots = 2
  NumFrames = 5
INVARIANTS
  ImagesIntact
  SlotsTrackGpu
  DrainedAreGood
PROPERTIES
  WaitsEnd
