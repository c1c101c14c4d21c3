----------------------------- MODULE WallClock ------------------------------
(* The calendar of a zone whose offset changes once, in half hours since     *)
(* some instant: which hour of which day an instant is, and the way back     *)
(* that Go's time.Date takes.                                                *)
EXTENDS Integers

CONSTANTS
  Zone,         \* [before, after, at]: the UTC offset and its change, in half hours
  HoursPerDay,  \* 24 in the code
  DaysPerWeek   \* days of a cycle of day types; the first one is the weekend

ASSUME WallClockAssumption ==
  /\ Zone \subseteq [before : Int, after : Int, at : Int]
  /\ HoursPerDay \in Nat \ {0} /\ DaysPerWeek \in Nat \ {0}

Offset(z, t) == IF t < z.at THEN z.before ELSE z.after
Wall(z, t) == t + Offset(z, t)

Hour(wall) == wall \div 2
Day(wall) == Hour(wall) \div HoursPerDay
HourStart(wall) == 2 * Hour(wall)
DayStart(day) == 2 * HoursPerDay * day

\* time.Date: the offset in force when the wall time is read as UTC, or else the
\* one at the instant which that gives.
Date(z, wall) ==
  LET utc == wall - Offset(z, wall)
  IN  IF (utc < z.at) = (wall < z.at) THEN utc ELSE wall - Offset(z, utc)

Cell == {"weekday", "weekend"} \X (0..(HoursPerDay - 1))
DayType(day) == IF day % DaysPerWeek = 0 THEN "weekend" ELSE "weekday"

\* The cell of the hour that began at this hour of the wall clock.
CellOf(hour) == <<DayType(hour \div HoursPerDay), hour % HoursPerDay>>

\* bucketFor, dayTypeIndexOf: the day type and the hour that the user saw.
CellAt(z, t) == CellOf(Hour(Wall(z, t)))
=============================================================================
