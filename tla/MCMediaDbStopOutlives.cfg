SPECIFICATION Spec
CONSTANTS
  Modes = {"auto"}
  StopOutlivesClient = TRUE
  ReadbackFails = FALSE
  CanExit = FALSE
  MaxEmbyWrites = 2
CHECK_DEADLOCK FALSE
INVARIANT
  EmbyRestarted
