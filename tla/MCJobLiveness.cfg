SPECIFICATION FairSpec
CONSTANTS
  Jobs = {j1, j2}
  NoJob = NoJob
  QueueCap = 1
  MaxCompletedJobs = 1
  MaxPauses = 2
  Retention = TRUE
CHECK_DEADLOCK FALSE
INVARIANT
  NoLostWakeup
PROPERTIES
  QueuedJobsEnd
  DrainedShutdownEnds
  StoppedStreamsClose
