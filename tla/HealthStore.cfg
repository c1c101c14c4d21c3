SPECIFICATION Spec
CONSTANTS
  Account = {a1, a2}
  Class = {x, y}
  Config <- MCConfig
  Deadline = {2}
  ProfileDays = 1
  DayLength = 1
  MaxTime = 3
  MaxEvents = 4
  MaxHistory = 2
  MaxBehind = 1
SYMMETRY Symmetric
INVARIANTS IncidentsInOrder OpenIncidentIsCurrent StateFollowsNewest RowsBounded
PROPERTY ObservationAdvances
