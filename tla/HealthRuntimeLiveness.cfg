SPECIFICATION FairSpec
CONSTANTS
  Host = {h1, h2}
  Reader = {r1}
  Config <- MCConfig
  InitConfig <- MCInitConfig
  MaxOpened = 1
  MaxEvents = 1
PROPERTY LifecycleReturns
