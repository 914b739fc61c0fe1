SPECIFICATION WebSpec
CONSTANTS
  Clients = {c1, c2}
  Logins = {l1, l2, l3}
  Jobs = {j1, j2}
  u1 = u1
  u2 = u2
  i1 = i1
  i2 = i2
  Urls = {u1, u2}
  Keys = {k1, k2}
  Ids = {i1, i2}
  Slug <- MCSlug
  Tokens = {t1, t2}
  None = None
  Blank = Blank
  Names = {admin, bob}
  Passwords = {p1, p2}
  Admin = admin
  Default = p1
  CoarseClock = FALSE
  MaxSettingsSaves = 2
  MaxVersion = 3
  MaxUsersSaves = 3
  MaxTokens = 1
  MaxFailures = 3
  Window = 5
  CleanupEvery = 2
  MaxTime = 12
  MaxTelegramSaves = 1
  Parts = {"settings", "account", "limiter", "telegram"}
SYMMETRY Symmetry
CHECK_DEADLOCK FALSE
INVARIANTS
  KeysStayHome
  OldCredentialsEnd
  FailuresBounded
  OneMessagePerJob
PROPERTIES
  NoLostUpdate
  ChangesSurvive
