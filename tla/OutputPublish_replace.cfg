SPECIFICATION Spec
CONSTANTS
  MaxRuns = 1
PROPERTIES
  AtomicReplace
