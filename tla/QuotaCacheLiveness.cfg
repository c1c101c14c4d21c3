SPECIFICATION FairSpec
CONSTANTS
  Caller = {c1, c2}
  Account = {a1}
  Disabled = {}
  Config <- MCConfig
  InitConfig <- MCInitConfig
  MaxTime = 1
  MaxApply = 1
  MaxListErrors = 2
PROPERTY CallsReturn
