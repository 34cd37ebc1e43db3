SPECIFICATION Spec
CONSTANTS
  MaxFrames = 3
  Configs <- MCConfigs
  Machines <- MCMachines
INVARIANTS
  BackendHonoured
PROPERTIES
  ResourcesFit
  QueueSpec
CHECK_DEADLOCK FALSE
