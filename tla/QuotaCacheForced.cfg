SPECIFICATION Spec
CONSTANTS
  Caller = {c1, c2}
  Account = {a1}
  Disabled = {}
  Config <- MCConfig
  InitConfig <- MCInitConfig
  MaxTime = 2
  MaxApply = 1
  MaxListErrors = 1
PROPERTY ForcedBypassesCache
