SPECIFICATION FairSpec
CONSTANTS
  NumSlots = 2
  MaxCalls = 3
INVARIANTS
  ResultsAreComputed
  NothingLeaked
  PassesRaceFree
PROPERTIES
  CallsReturn
CHECK_DEADLOCK FALSE
