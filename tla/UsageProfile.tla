---------------------------- MODULE UsageProfile ----------------------------
(* What a provider's usage looks like by the hour (projection.go): the       *)
(* buckets of the last days, one for each hour of the wall clock in which a  *)
(* request succeeded, become rates per occurrence of an hour.  HealthStore   *)
(* has the upsert and the pruning.  Rates are integers over a common scale.  *)
EXTENDS WallClock, FiniteSetsExt

CONSTANTS
  RetentionDays,   \* profileRetentionDays
  MinRecords,      \* projectionMinRecords
  Bucket           \* what a row holds: its tokens, its records, those with tokens

ASSUME UsageProfileAssumption ==
  /\ RetentionDays \in Nat \ {0} /\ MinRecords \in Nat
  /\ Bucket \subseteq [tokens : Nat, seen : Nat, tokened : Nat]

\* The date that many days ago, at this time of the day.
OldestDay(z, now) == Day(Wall(z, Date(z, Wall(z, now) - DayStart(RetentionDays))))

\* profileRetentionStart
RetentionStart(z, now) == Date(z, DayStart(OldestDay(z, now)))

\* Hours of the wall clock that can have a row: by now, and not pruned.  Rows of an
\* older date, which may be there until the next pruning, are left out.
HoursKept(z, now) ==
  LET first == RetentionStart(z, now) - 2 * HoursPerDay
  IN  {h \in {Hour(Wall(z, t)) : t \in first..(now - 1)} :
         h \div HoursPerDay >= OldestDay(z, now)}

Histories(z, now) == UNION {[hours -> Bucket] : hours \in SUBSET HoursKept(z, now)}

AddUp(rows, column, hours) == SumFunctionOnSet([h \in DOMAIN rows |-> rows[h][column]], hours)

\* slotOccurrences: instants from the start of the retention, an hour apart.
SlotOccurrences(z, now) ==
  LET start == RetentionStart(z, now)
      hours == {t \in start..(now - 1) : (t - start) % 2 = 0}
  IN  [c \in Cell |-> Cardinality({t \in hours : CellAt(z, t) = c})]

Scale(occurrences) ==
  LET Times(n, m) == n * m
  IN  FoldFunctionOnSet(Times, 1, occurrences, {c \in Cell : occurrences[c] > 0})

\* buildUsageProfiles: tokens by occurrences, none for an hour that never came, and
\* whether the records suffice (eligible).
Profile(z, now, rows) ==
  LET occurrences == SlotOccurrences(z, now)
      scale == Scale(occurrences)
      tokens(c) == AddUp(rows, "tokens", {h \in DOMAIN rows : CellOf(h) = c})
      seen == AddUp(rows, "seen", DOMAIN rows)
      tokened == AddUp(rows, "tokened", DOMAIN rows)
  IN  [rates |-> [c \in Cell |-> IF occurrences[c] = 0 THEN 0
                                 ELSE tokens(c) * (scale \div occurrences[c])],
       scale |-> scale,
       eligible |-> seen >= MinRecords /\ 2 * tokened >= seen]
=============================================================================
