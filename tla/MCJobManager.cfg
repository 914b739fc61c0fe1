SPECIFICATION Spec
CONSTANTS
  Jobs = {j1, j2, j3}
  NoJob = NoJob
  QueueCap = 1
  MaxCompletedJobs = 1
  MaxPauses = 1
  Retention = TRUE
SYMMETRY JobSymmetry
CHECK_DEADLOCK FALSE
INVARIANTS
  LiveJobsAreKnown
  CleanExit
  DrainedShutdownReachesAllJobs
PROPERTIES
  ImplementsLifecycle
  PruneKeepsNewest
