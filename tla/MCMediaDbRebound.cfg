SPECIFICATION MCSpec
CONSTANTS
  Modes = {"auto"}
  StopOutlivesClient = TRUE
  ReadbackFails = TRUE
  CanExit = TRUE
  MaxEmbyWrites = 2
  i1 = i1
  i2 = i2
  n1 = n1
  n2 = n2
  None = None
  Keys = {k1, k2}
  Items = {i1, i2}
  Names = {n1, n2}
  Servers = {s1, s2}
  Schemas = {f1, f2}
  FirstNames <- MCFirstNames
  Keep = 2
  OldBackups = {{}, {2, 3}}
  MaxTime = 3
  MaxImports = 2
  MaxApplies = 1
  MaxChanges = 1
  Parts = {"plan"}
SYMMETRY Symmetry
CHECK_DEADLOCK FALSE
PROPERTY
  BoundStaysBound
