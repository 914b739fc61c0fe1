SPECIFICATION Spec
CONSTANTS
  Jobs = {j1, j2}
  NoJob = NoJob
  QueueCap = 1
  MaxCompletedJobs = 1
  MaxPauses = 1
  Retention = TRUE
SYMMETRY JobSymmetry
CHECK_DEADLOCK FALSE
PROPERTY
  StopIsNotAFailure
