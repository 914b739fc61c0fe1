SPECIFICATION Spec
CONSTANTS
  Items = {i1}
  Workers = {w1}
  NoItem = NoItem
  Versions = {v1, v2}
  NoVersion = NoVersion
  Options = {plain, people}
  PeopleOptions = {people}
  MaxExports = 3
  MaxFaults = 1
SYMMETRY Symmetry
CHECK_DEADLOCK FALSE
INVARIANTS
  SkippedWasExported
  ListedIsBacked
  FailureLeavesNothing
PROPERTY
  PublishedIsImmutable
