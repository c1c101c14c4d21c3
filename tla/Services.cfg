SPECIFICATION FairSpec
CONSTANTS
  Thread = {t1, t2}
  a1 = a1
  a2 = a2
  b1 = b1
  b2 = b2
  u1 = u1
  u2 = u2
  Auth = {a1, a2}
  Keyless = {}
  Base = {b1, b2}
  Url = {u1, u2}
  Editions <- MCEditions
  NoBase = NoBase
  OwnBase <- MCOwnBase
  Config <- MCConfig
  InitConfig <- MCInitConfig
  MaxVersion = 2
  MaxCalls = 2
  MaxApply = 1
  MaxLines = 4
  MaxPiece = 2
  Settings <- MCSettings
  Instants = {150, 151, 350}
  MaxUsage = 3
  Percent <- MCPercent
  Nothing = Nothing
  Absent = Absent
  Identity <- MCIdentity
  SlugOf <- MCSlugOf
  MaxLimits = 2
  Zone <- MCZone
  HoursPerDay = 2
  DaysPerWeek = 2
  RetentionDays = 1
  MinRecords = 2
  Bucket <- MCBucket
  Length = {7, 8}
  Used = {40, 80, 120}
  MaxRows = 3
  PageLimits = {1, 2}
  Session = {"s1", "s2"}
  Tokens <- MCTokens
  RowLimit = 2
  RowAge = 2
  MaxTick = 4
  MaxStored = 3
INVARIANTS
  AnswersAreItsOwn LevelsAreCurrent
  ErrorOrStream
  DegradedForItsFailures
  StatusTellsQuota BindingIsListed
  ForecastIsExact
  WalkIsComplete
PROPERTIES
  NeverUnregistered ForAuthReturns
  DeliversTheStream StreamsEnd
  TimeOnlyHeals SuccessHeals
  PruningOnlyNeutralises
CHECK_DEADLOCK FALSE
