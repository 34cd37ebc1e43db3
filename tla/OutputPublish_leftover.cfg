SPECIFICATION Spec
CONSTANTS
  MaxRuns = 1
INVARIANTS
  PartialRemoved
