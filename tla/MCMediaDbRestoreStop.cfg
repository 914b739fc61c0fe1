SPECIFICATION Spec
CONSTANTS
  Modes = {"auto"}
  StopOutlivesClient = FALSE
  ReadbackFails = TRUE
  CanExit = FALSE
  MaxEmbyWrites = 2
CHECK_DEADLOCK FALSE
INVARIANT
  EmbyRestarted
