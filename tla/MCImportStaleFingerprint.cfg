SPECIFICATION Spec
CONSTANTS
  Items = {i1}
  Avatars = {a1}
  Targets = {emby1}
  Packages = {pkg1, pkg2}
  None = None
  SyncInterval = 2
  MaxImports = 3
  MaxCrashes = 0
  MaxWriteErrors = 0
SYMMETRY Symmetry
CHECK_DEADLOCK FALSE
INVARIANT
  SkippedContentWasWritten
