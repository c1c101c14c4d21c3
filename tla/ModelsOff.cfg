SPECIFICATION CatalogSpec
CONSTANTS
  Thread = {t1, t2}
  a1 = a1
  a2 = a2
  b1 = b1
  b2 = b2
  u1 = u1
  u2 = u2
  Auth = {a1, a2}
  Keyless = {}
  Base = {b1, b2}
  Url = {u1, u2}
  Editions <- MCEditions
  NoBase = NoBase
  OwnBase <- MCOwnBase
  Config <- MCConfig
  InitConfig <- MCInitConfig
  MaxVersion = 2
  MaxCalls = 2
  MaxApply = 1
INVARIANT OffMeansOff
