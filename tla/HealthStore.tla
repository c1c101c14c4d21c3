---------------------------- MODULE HealthStore ----------------------------
(***************************************************************************)
(* The SQLite store of account health (health_store.go).  usage.handle     *)
(* events arrive in any order of their request times, because requests     *)
(* overlap and the event queue is filled when they end.  record commits    *)
(* one transaction and then prunes with separate statements, so a failure  *)
(* or a crash can leave any prefix of the pruning done.                    *)
(***************************************************************************)
EXTENDS Naturals, FiniteSets

CONSTANTS
  Account,       \* auth indices
  Class,         \* failure classes (with their HTTP status)
  Config,        \* lifecycle configurations that write to this database
  Deadline,      \* what a Retry-After may come to
  ProfileDays,   \* profileRetentionDays
  DayLength,     \* clock ticks per calendar day
  MaxTime,       \* bound: the clock
  MaxEvents,     \* bound: events recorded
  MaxHistory,    \* bound: history points saved
  MaxBehind      \* bound: consecutive writes whose pruning fails

Time == 1 .. MaxTime
Null == 0                                   \* SQL NULL, and the zero time.Time

RetentionShape ==
  [incidentRetention : Nat, incidentMaxRows : Nat \ {0},
   historyRetention : Nat, historyMaxRows : Nat \ {0}]

ASSUME StoreAssumption ==
  /\ Config \subseteq RetentionShape        \* decodeLifecycleConfig: at least 100 rows, 1h
  /\ Config # {}
  /\ Deadline \subseteq Nat /\ ProfileDays \in Nat /\ DayLength \in Nat \ {0}
  /\ MaxTime \in Nat \ {0} /\ MaxEvents \in Nat /\ MaxHistory \in Nat /\ MaxBehind \in Nat

VARIABLES
  now,        \* time.Now
  obs,        \* table observations, one row per account (event = Null: no row)
  failures,   \* table failure_events: how many rows per account and time
  incidents,  \* table incidents
  history,    \* table health_history
  buckets,    \* table usage_buckets: requests seen per account and day
  behind,     \* history: writes since the last pruning that ran to its end
  events,     \* history: events recorded
  saved,      \* history: history points saved
  newest      \* history: per account, the latest event time and the outcomes at that time

tables == <<obs, failures, incidents, history, buckets>>
vars   == <<now, tables, behind, events, saved, newest>>

Day(t)      == (t - 1) \div DayLength
Outcome     == {"success", "failure"}
Observation == [class : Class \cup {Null}, failure : Nat, success : Nat, retry : Nat,
                event : Nat, count : Nat]
Incident    == [id : Nat \ {0}, auth : Account, class : Class, opened : Time,
                resolved : Time \cup {Null}]

NoRow    == [class |-> Null, failure |-> Null, success |-> Null, retry |-> Null,
             event |-> Null, count |-> 0]

TypeOK ==
  /\ now \in Time
  /\ obs \in [Account -> Observation]
  /\ failures \in [Account -> [Time -> Nat]]
  /\ incidents \subseteq Incident
  /\ history \subseteq [id : Nat \ {0}, at : Time]
  /\ buckets \in [Account -> [0 .. Day(MaxTime) -> Nat]]
  /\ behind \in Nat
  /\ events \in Nat
  /\ saved \in Nat
  /\ newest \in [Account -> [at : Nat, outcomes : SUBSET Outcome]]

Init ==
  /\ now = 1
  /\ obs = [a \in Account |-> NoRow]
  /\ failures = [a \in Account |-> [t \in Time |-> 0]]
  /\ incidents = {}
  /\ history = {}
  /\ buckets = [a \in Account |-> [d \in 0 .. Day(MaxTime) |-> 0]]
  /\ behind = 0
  /\ events = 0
  /\ saved = 0
  /\ newest = [a \in Account |-> [at |-> Null, outcomes |-> {}]]

-----------------------------------------------------------------------------
(* Pruning.  Operators marked (mutant) are plausible bugs that PROJECT.json   *)
(* substitutes for the definition after them.                                 *)

\* INTEGER PRIMARY KEY without AUTOINCREMENT: one more than the largest id present.
NextId(rows) == CHOOSE n \in 1 .. MaxEvents + MaxHistory + 1 :
                  /\ \A r \in rows : r.id < n
                  /\ n = 1 \/ \E r \in rows : r.id = n - 1

\* ORDER BY id DESC LIMIT max
NewestRows(rows, max) == {r \in rows : Cardinality({q \in rows : q.id > r.id}) < max}

Expired(t, retention) == t + retention < now

PrunedFailures(f, k) ==
  [a \in Account |-> [t \in Time |-> IF Expired(t, k.incidentRetention) THEN 0 ELSE f[a][t]]]

\* COALESCE(resolved_at, opened_at)
Stamp(i) == IF i.resolved = Null THEN i.opened ELSE i.resolved

KeepAllRows(rows, k) == {i \in rows : ~Expired(Stamp(i), k.incidentRetention)}      \* (mutant)
PrunedIncidents(rows, k) ==
  NewestRows({i \in rows : ~Expired(Stamp(i), k.incidentRetention)}, k.incidentMaxRows)

PrunedHistory(rows, k) ==
  NewestRows({h \in rows : ~Expired(h.at, k.historyRetention)}, k.historyMaxRows)

PrunedBuckets(b) ==
  [a \in Account |-> [d \in 0 .. Day(MaxTime) |->
     IF d + ProfileDays < Day(now) THEN 0 ELSE b[a][d]]]

\* A transaction that leaves failure events f, incidents i, history h and buckets
\* b, then the first n of the four DELETE statements.
CommitAndPrune(f, i, h, b, k, n) ==
  /\ n < 4 => behind < MaxBehind
  /\ failures'  = IF n >= 1 THEN PrunedFailures(f, k) ELSE f
  /\ incidents' = IF n >= 2 THEN PrunedIncidents(i, k) ELSE i
  /\ history'   = IF n >= 3 THEN PrunedHistory(h, k) ELSE h
  /\ buckets'   = IF n >= 4 THEN PrunedBuckets(b) ELSE b
  /\ behind'    = IF n >= 4 THEN 0 ELSE behind + 1
  /\ UNCHANGED now

-----------------------------------------------------------------------------
(* record *)

AlwaysNewest(a, at) == TRUE                                               \* (mutant)
\* !event.At.Before(last): an event as old as the newest one counts as newest.  The
\* transaction has written by now and reads with the lock held; were the read to
\* fail all the same, the code would take the event for the newest one.
Newest(a, at) == obs[a].event = Null \/ at >= obs[a].event

\* History of what was recorded.
Remember(a, at, outcome) ==
  /\ events < MaxEvents
  /\ events' = events + 1
  /\ newest' = IF at < newest[a].at THEN newest
               ELSE [newest EXCEPT ![a] =
                       [at |-> at,
                        outcomes |-> {outcome} \cup IF at = @.at THEN @.outcomes ELSE {}]]
  /\ UNCHANGED saved

\* The bucket upsert of a successful request.
Count(b, a, at) == [b EXCEPT ![a][Day(at)] = @ + 1]

SuccessRow(row, at) ==
  [row EXCEPT !.success = at, !.event = at, !.retry = Null, !.count = 0]

ResolveAgain(rows, a, at) ==                                              \* (mutant)
  {IF i.auth = a THEN [i EXCEPT !.resolved = at] ELSE i : i \in rows}
Resolve(rows, a, at) ==
  {IF i.auth = a /\ i.resolved = Null THEN [i EXCEPT !.resolved = at] ELSE i : i \in rows}

RecordSuccess(a, at, k, n) ==
  /\ at <= now
  /\ Newest(a, at)
  /\ Remember(a, at, "success")
  /\ obs' = [obs EXCEPT ![a] = SuccessRow(@, at)]
  /\ CommitAndPrune(failures, Resolve(incidents, a, at), history, Count(buckets, a, at), k, n)

FailureRow(row, at, class, retry) ==
  [row EXCEPT !.class = class, !.failure = at, !.retry = retry, !.event = at, !.count = @ + 1]

Open(rows, a) == {i \in rows : i.auth = a /\ i.resolved = Null}

OpenOrKeep(rows, a, at, class) ==                                         \* (mutant)
  IF Open(rows, a) # {} THEN rows
  ELSE rows \cup {[id |-> NextId(rows), auth |-> a, class |-> class, opened |-> at, resolved |-> Null]}

\* UPDATE the open incident, or INSERT one when no row was affected.
OpenOrUpdate(rows, a, at, class) ==
  IF Open(rows, a) # {}
  THEN {IF i \in Open(rows, a) THEN [i EXCEPT !.class = class] ELSE i : i \in rows}
  ELSE rows \cup {[id |-> NextId(rows), auth |-> a, class |-> class, opened |-> at, resolved |-> Null]}

Fail(f, a, at) == [f EXCEPT ![a][at] = @ + 1]

RecordFailure(a, at, class, retry, k, n) ==
  /\ at <= now
  /\ Newest(a, at)
  /\ Remember(a, at, "failure")
  /\ obs' = [obs EXCEPT ![a] = FailureRow(@, at, class, retry)]
  /\ CommitAndPrune(Fail(failures, a, at), OpenOrUpdate(incidents, a, at, class), history, buckets, k, n)

\* A late event is stored but does not touch the account's row or its incidents.
RecordLateSuccess(a, at, k, n) ==
  /\ at <= now
  /\ ~Newest(a, at)
  /\ Remember(a, at, "success")
  /\ CommitAndPrune(failures, incidents, history, Count(buckets, a, at), k, n)
  /\ UNCHANGED obs

RecordLateFailure(a, at, k, n) ==
  /\ at <= now
  /\ ~Newest(a, at)
  /\ Remember(a, at, "failure")
  /\ CommitAndPrune(Fail(failures, a, at), incidents, history, buckets, k, n)
  /\ UNCHANGED obs

\* saveHistory: the timer saves the snapshot of the latest refresh.
SaveHistory(at, k, n) ==
  /\ at <= now /\ \A h \in history : h.at <= at
  /\ saved < MaxHistory
  /\ saved' = saved + 1
  /\ CommitAndPrune(failures, incidents, history \cup {[id |-> NextId(history), at |-> at]}, buckets, k, n)
  /\ UNCHANGED <<obs, events, newest>>

\* A failed transaction is rolled back: the event or the point is lost, nothing else.
RollBack == UNCHANGED vars

Tick ==
  /\ now < MaxTime
  /\ now' = now + 1
  /\ UNCHANGED <<tables, behind, events, saved, newest>>

\* Retry-After is absent, or comes to a deadline, ahead or long past.
Retry == {Null} \cup Deadline

Next ==
  \/ \E k \in Config, n \in 0 .. 4, at \in Time :
       \/ \E a \in Account :
            \/ RecordSuccess(a, at, k, n) \/ RecordLateSuccess(a, at, k, n)
            \/ \E class \in Class, retry \in Retry : RecordFailure(a, at, class, retry, k, n)
            \/ RecordLateFailure(a, at, k, n)
       \/ SaveHistory(at, k, n)
  \/ RollBack
  \/ Tick

Spec == Init /\ [][Next]_vars

-----------------------------------------------------------------------------
(* observation: what a refresh reads back *)

\* classifyAccountHealth's "unresolved".
Unresolved(o) == o.failure # Null /\ (o.success = Null \/ o.success < o.failure)

-----------------------------------------------------------------------------
(* Properties *)

\* However events are ordered and pruned, an account has at most one open
\* incident: the UPDATE finds it, or the INSERT is the only one.
OneOpenIncident == \A a \in Account : Cardinality(Open(incidents, a)) <= 1

\* The incidents of an account do not overlap and their ids follow their times,
\* although ids are reused after the newest row was pruned: the id cursor of the
\* incidents page walks back in time per account.
IncidentsInOrder ==
  \A i, j \in incidents : i.auth = j.auth /\ i.id < j.id =>
    i.resolved # Null /\ i.opened <= i.resolved /\ i.resolved <= j.opened

\* An open incident describes the failure the account is in: same class, and that
\* failure is the newest event.
OpenIncidentIsCurrent ==
  \A i \in incidents : i.resolved = Null =>
    /\ obs[i.auth].failure = obs[i.auth].event
    /\ obs[i.auth].class = i.class
    /\ i.opened <= obs[i.auth].failure
    /\ obs[i.auth].count > 0

\* Whatever order events arrive in, the account reads as failing exactly when its
\* newest request failed (two requests with the same start time may disagree).
StateFollowsNewest ==
  \A a \in Account :
    /\ obs[a].event = newest[a].at
    /\ Cardinality(newest[a].outcomes) = 1 => (Unresolved(obs[a]) <=> "failure" \in newest[a].outcomes)

\* A success that is the newest event leaves no retry deadline and no open incident.
SuccessClearsFailure ==
  \A a \in Account : obs[a].event # Null /\ obs[a].count = 0 =>
    obs[a].retry = Null /\ Open(incidents, a) = {}

\* The tables stay within the configured rows, but for one row per write whose
\* pruning failed since the last complete one.
RowsBounded ==
  /\ \E k \in Config : Cardinality(incidents) <= k.incidentMaxRows + behind
  /\ \E k \in Config : Cardinality(history) <= k.historyMaxRows + behind

\* An event never moves the account back to an earlier one, and a resolved
\* incident never changes again.
ObservationAdvances ==
  [][/\ \A a \in Account : obs'[a] # obs[a] => obs'[a].event >= obs[a].event
     /\ \A i \in incidents, j \in incidents' :
          i.id = j.id /\ i.auth = j.auth /\ i.opened = j.opened /\ i.resolved # Null => i = j]_vars
=============================================================================
