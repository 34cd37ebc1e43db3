SPECIFICATION Spec
CONSTANTS
  NumSlots = 2
  NumFrames = 2
INVARIANTS
  RetainedUntilFence
