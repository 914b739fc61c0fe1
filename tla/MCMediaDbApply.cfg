SPECIFICATION FairSpec
CONSTANTS
  Modes = {"auto", "manual"}
  StopOutlivesClient = FALSE
  ReadbackFails = TRUE
  CanExit = TRUE
  MaxEmbyWrites = 2
CHECK_DEADLOCK FALSE
INVARIANTS
  EmbyRestartedButForRestoreStop
PROPERTY
  EmbyComesBack
