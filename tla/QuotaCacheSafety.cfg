SPECIFICATION Spec
CONSTANTS
  Caller = {c1, c2, c3}
  Account = {a1, a2}
  Disabled = {a2}
  Config <- MCConfig
  InitConfig <- MCInitConfig
  MaxTime = 1
  MaxApply = 1
  MaxListErrors = 1
SYMMETRY Symmetric
INVARIANTS SingleFlight NoLostWakeup FetchBound
PROPERTIES KeepsService AnswersAdvance WaitersShareTheScan
