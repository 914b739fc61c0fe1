SPECIFICATION Spec
CONSTANTS
  Modes = {"auto"}
  StopOutlivesClient = FALSE
  ReadbackFails = FALSE
  CanExit = FALSE
  MaxEmbyWrites = 2
CHECK_DEADLOCK FALSE
INVARIANT
  DoneIsVerified
