SPECIFICATION FairSpec
CONSTANTS
  c1 = c1
  c2 = c2
  Contexts <- MCContexts
  MaxInFlight = 4
  Pts <- MCPts
  MaxFrames = 5
INVARIANTS
  MuxedInOrder
  FinishedComplete
  InFlightBounded
  OneDrainer
PROPERTIES
  NoWriteAfterFailure
  SinkSpec
  CallsReturn
  AcceptedIsMuxed
  FirstErrorReported
