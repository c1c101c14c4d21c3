SPECIFICATION Spec
CONSTANTS
  Request = {r1, r2}
  s1 = s1
  Session = {s1}
  SessionOf <- MCSessionOf
  Config <- MCConfig
  InitConfig <- MCInitConfig
  MaxTime = 2
  MaxApply = 2
SYMMETRY Symmetric
INVARIANTS OneRowPerRequest RowsAreWhole RowsKeepTheirSession UndisturbedIsCaptured
