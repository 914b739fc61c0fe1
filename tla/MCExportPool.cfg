SPECIFICATION Spec
CONSTANTS
  Items = {i1, i2}
  Workers = {w1, w2}
  NoItem = NoItem
  Versions = {v1, v2}
  NoVersion = NoVersion
  Options = {people}
  PeopleOptions = {people}
  MaxExports = 2
  MaxFaults = 0
SYMMETRY Symmetry
CHECK_DEADLOCK FALSE
INVARIANTS
  TypeOK
  SkippedWasExported
  CompleteUnlessCancelled
