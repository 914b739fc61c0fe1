SPECIFICATION FairSpec
CONSTANTS
  None = None
  e1 = e1
  e2 = e2
  i1 = i1
  i2 = i2
  i3 = i3
  p1 = p1
  p2 = p2
  Entries = {e1, e2}
  Slug <- MCSlug
  ShortName <- MCShortName
  SeasonTerm <- MCSeasonTerm
  SearchPrefix <- MCSearchPrefix
  Limit <- MCLimit
  Avatar <- MCAvatar
  PersonID <- MCPersonID
  Imports <- MCImports
  NoCaller = NoCaller
  NoKey = NoKey
  NoAnswer = NoAnswer
  Failed = Failed
  GaveUp = GaveUp
CHECK_DEADLOCK FALSE
INVARIANTS
  TargetsAgree
  UnmatchedIsTrue
  ReportIsTrue
PROPERTIES
  StoppedImportWritesNothing
  ImplementsMemo
  TasksEnd
