SPECIFICATION Spec
CONSTANTS
  Host = {h1, h2}
  Reader = {r1, r2}
  Config <- MCConfig
  InitConfig <- MCInitConfig
  MaxOpened = 3
  MaxEvents = 2
SYMMETRY Symmetric
INVARIANTS NoUseAfterClose OneDatabase PublishedIsLive EventsConserved
PROPERTY SnapshotsAdvance
