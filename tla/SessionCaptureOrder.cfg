SPECIFICATION Spec
CONSTANTS
  Request = {r1, r2}
  s1 = s1
  Session = {s1}
  SessionOf <- MCSessionOf
  Config <- MCConfig
  InitConfig <- MCInitConfig
  MaxTime = 1
  MaxApply = 1
INVARIANT CaptureOrder
