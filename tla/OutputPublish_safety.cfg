SPECIFICATION Spec
CONSTANTS
  MaxRuns = 3
INVARIANTS
  PublishedIsValidated
  SuccessIsWhole
  SidecarIsNotAhead
