SPECIFICATION Spec
CONSTANTS
  Items = {i1, i2}
  Workers = {w1}
  NoItem = NoItem
  Versions = {v1, v2}
  NoVersion = NoVersion
  Options = {plain, people}
  PeopleOptions = {people}
  MaxExports = 1
  MaxFaults = 0
SYMMETRY Symmetry
CHECK_DEADLOCK FALSE
INVARIANTS
  CancelLeavesNothing
