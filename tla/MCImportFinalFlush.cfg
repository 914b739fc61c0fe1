SPECIFICATION Spec
CONSTANTS
  Items = {i1, i2}
  Avatars = {a1}
  Targets = {emby1}
  Packages = {pkg}
  None = None
  SyncInterval = 2
  MaxImports = 1
  MaxCrashes = 0
  MaxWriteErrors = 1
SYMMETRY Symmetry
CHECK_DEADLOCK FALSE
PROPERTY
  FinalFlush
