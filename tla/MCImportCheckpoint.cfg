SPECIFICATION Spec
CONSTANTS
  Items = {i1}
  Avatars = {a1}
  Targets = {emby1, emby2}
  Packages = {pkg1, pkg2}
  None = None
  SyncInterval = 2
  MaxImports = 3
  MaxCrashes = 1
  MaxWriteErrors = 1
SYMMETRY Symmetry
CHECK_DEADLOCK FALSE
INVARIANTS
  SkippedWasWritten
  RecordedIsResumed
PROPERTY
  CompactionKeepsProgress
