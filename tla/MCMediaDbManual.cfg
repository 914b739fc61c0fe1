SPECIFICATION Spec
CONSTANTS
  Modes = {"manual"}
  StopOutlivesClient = FALSE
  ReadbackFails = FALSE
  CanExit = FALSE
  MaxEmbyWrites = 2
CHECK_DEADLOCK FALSE
PROPERTY
  WriteOnlyWhileStopped
