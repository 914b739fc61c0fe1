SPECIFICATION Spec
CONSTANTS
  Modes = {"auto"}
  StopOutlivesClient = FALSE
  ReadbackFails = FALSE
  CanExit = TRUE
  MaxEmbyWrites = 2
CHECK_DEADLOCK FALSE
INVARIANT
  ExitLeavesEmbyRunning
