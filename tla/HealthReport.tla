---------------------------- MODULE HealthReport ----------------------------
(* What GET /v1/health says of one account (health.go, refreshHealth): the   *)
(* host's usage records become events, the store keeps the newest outcome    *)
(* and the failures, and a refresh classifies the account from these, from   *)
(* the host's own flags and from the clock.  The store's transactions are    *)
(* HealthStore's subject; here are the values that it passes on, and the SQL *)
(* comparisons, which compare times as text.  Times are in hundredths of a   *)
(* second, so that a text has no, one or two digits of a fraction.           *)
EXTENDS Integers, FiniteSets, FiniteSetsExt

CONSTANTS
  Settings,     \* failure-window, incident-retention and degraded-failure-threshold
  Instants,     \* what the clock shows, the first at the start
  MaxUsage      \* bound: usage records

ASSUME HealthReportAssumption ==
  /\ Settings \subseteq [window : Nat, retention : Nat, threshold : Nat] /\ Settings # {}
  /\ Instants \subseteq Nat \ {0}
  /\ MaxUsage \in Nat

VARIABLES
  clock,        \* time.Now
  settings,     \* the configuration in force
  row,          \* the account's row in observations
  kept,         \* its rows in failure_events
  ever,         \* every failure recorded (history)
  cutoff,       \* the latest instant up to which failures were pruned (history)
  usages        \* usage records handled

healthVars == <<clock, settings, row, kept, ever, cutoff, usages>>

Unset == 0                                  \* the zero time.Time
Code == {401, 403, 429, 503}                \* 503 for every other status

HealthInit ==
  /\ clock \in Instants /\ \A i \in Instants : clock <= i
  /\ settings \in Settings
  /\ row = [code |-> Unset, failure |-> Unset, success |-> Unset, retry |-> Unset, event |-> Unset]
  /\ kept = {} /\ ever = {} /\ cutoff = Unset /\ usages = 0

\* usage.handle: requests end in any order; Retry-After is absent, a number of
\* seconds counted from the end of the request, or a date, which may be past.
RetryAfter == [kind : {"none"}, amount : {0}] \cup [kind : {"seconds", "date"}, amount : 1..2]
Requested == {Unset} \cup {i \in Instants : i <= clock}
UsageRecord ==
  [failed : {FALSE}, requested : Requested] \cup
  [failed : {TRUE}, code : Code, requested : Requested, latency : {50},
   retryAfter : RetryAfter]

Sanitized(r) ==
  LET at == IF r.requested = Unset THEN clock ELSE r.requested
      amount == 100 * r.retryAfter.amount
  IN  IF ~r.failed THEN [at |-> at, success |-> TRUE]
      ELSE [at |-> at, success |-> FALSE, code |-> r.code,
            retry |-> CASE r.retryAfter.kind = "none" -> Unset
                        [] r.retryAfter.kind = "seconds" -> at + r.latency + amount
                        [] r.retryAfter.kind = "date" -> amount]

KeepDeadline(e) == [row EXCEPT !.success = e.at, !.event = e.at]              \* (mutant)
RowAfterSuccess(e) == [row EXCEPT !.success = e.at, !.event = e.at, !.retry = Unset]
RowAfterFailure(e) ==
  [row EXCEPT !.code = e.code, !.failure = e.at, !.retry = e.retry, !.event = e.at]

\* timeText drops the zeros at the end of a fraction, and "Z" sorts after every
\* digit and the point: 2.51Z is before 2.5Z, and both are before 2Z.
Second(t) == t \div 100
TimeText(t) ==
  1000 * Second(t) + (CASE t % 100 = 0 -> 999
                        [] t % 100 # 0 /\ t % 10 = 0 -> 10 * (t % 100) + 95
                        [] t % 10 # 0 -> 10 * (t % 100))

OldestFailure == clock - settings.retention
KeepNone(failures) == {f \in failures : TimeText(f.at) >= TimeText(clock)}      \* (mutant)
Unexpired(failures) == {f \in failures : TimeText(f.at) >= TimeText(OldestFailure)}

\* prune, which may fail.
Prune(failures) ==
  \/ kept' = failures /\ cutoff' = cutoff
  \/ kept' = Unexpired(failures) /\ cutoff' = Max({cutoff, OldestFailure})

\* An event that is older than the newest one only adds to the failures; pruning
\* follows the transaction.
HandleUsage(r) ==
  /\ usages < MaxUsage
  /\ usages' = usages + 1
  /\ LET e == Sanitized(r)
         new == IF e.success THEN {} ELSE {[number |-> usages, at |-> e.at]}
     IN  /\ row' = CASE e.at < row.event -> row
                     [] e.at >= row.event /\ e.success -> RowAfterSuccess(e)
                     [] e.at >= row.event /\ ~e.success -> RowAfterFailure(e)
         /\ ever' = ever \cup new
         /\ Prune(kept \cup new)
  /\ UNCHANGED <<clock, settings>>

\* The health worker saves a line of the history and prunes.
SaveHistory ==
  /\ Prune(kept)
  /\ UNCHANGED <<clock, settings, row, ever, usages>>

ApplyHealthSettings ==
  /\ settings' \in Settings
  /\ UNCHANGED <<clock, row, kept, ever, cutoff, usages>>

TimePasses ==
  /\ clock' \in Instants /\ clock' > clock
  /\ UNCHANGED <<settings, row, kept, ever, cutoff, usages>>

HealthNext ==
  \/ SaveHistory \/ ApplyHealthSettings \/ TimePasses
  \/ \E r \in UsageRecord : HandleUsage(r)

HealthSpec == HealthInit /\ [][HealthNext]_healthVars

-----------------------------------------------------------------------------
(* refreshHealth: one account *)

\* What the host says of an account when it is listed.
Entry ==
  [disabled : BOOLEAN, unavailable : BOOLEAN, status : {"active", "error", "pending"},
   retry : {Unset} \cup Instants]

\* observation: the failures after the last success, within the window.
WindowStart == clock - settings.window
Counted(failures) ==
  {f \in failures : /\ TimeText(f.at) >= TimeText(WindowStart)
                    /\ row.success = Unset \/ TimeText(f.at) > TimeText(row.success)}
Recent == Cardinality(Counted(kept))

Unanswered == row.failure # Unset /\ row.success < row.failure

Passed(deadline) == deadline # Unset /\ deadline < clock                      \* (mutant)
Ahead(deadline) == deadline > clock

RateLimited(e) ==
  \/ Ahead(e.retry) \/ Ahead(row.retry)
  \/ Unanswered /\ row.code = 429 /\ e.retry = Unset /\ row.retry = Unset

\* classifyAccountHealth: the first state that applies.
AccountState(e) ==
  IF e.disabled THEN "disabled"
  ELSE IF Unanswered /\ row.code = 401 THEN "unauthorized"
  ELSE IF Unanswered /\ row.code = 403 THEN "forbidden"
  ELSE IF RateLimited(e) THEN "rate_limited"
  ELSE IF e.unavailable \/ e.status = "error" THEN "unavailable"
  ELSE IF e.status # "active" THEN "unknown"
  ELSE IF settings.threshold > 0 /\ Recent >= settings.threshold THEN "degraded"
  ELSE "healthy"

Routable(e) == AccountState(e) \in {"degraded", "healthy"}

-----------------------------------------------------------------------------
(* Properties *)

\* A step that tells nothing new of the account.
Quiet ==
  UNCHANGED <<row, usages>> /\ <<clock, settings, kept>>' # <<clock, settings, kept>>

\* Nothing but a new event or a change at the host takes an account out of the
\* pool: as time passes deadlines end and failures age, so that the answer of a
\* cached snapshot never promises more capacity than a new one would; nor does a
\* pruning, or a reconfiguration of the health settings.
TimeOnlyHeals ==
  [][Quiet => \A e \in Entry : Routable(e) => Routable(e)']_healthVars

\* A success that is the account's newest event undoes every sign of trouble that
\* the plugin itself keeps, late failures and their retry deadlines included: with
\* no objection of the host the account is healthy, not merely degraded.  Failures
\* in the second of that success may still be counted, for times compare as text.
SuccessHeals ==
  [][(row' # row /\ ever' = ever /\ \A f \in kept : Second(f.at) # Second(row'.success)) =>
       \A e \in Entry :
         ~e.disabled /\ ~e.unavailable /\ e.status = "active" /\ ~Ahead(e.retry)
         => AccountState(e)' = "healthy"]_healthVars

\* What a refresh counts is what an account is called degraded for: every failure
\* after the start of the window and the last success, unless a pruning under the
\* settings of its day took it, and none from before either.  Times compare as text,
\* yet in the order of the instants but for the second that the start or the success
\* falls in, whatever digits their fractions have.
DegradedForItsFailures ==
  /\ \A f \in ever :
       /\ \A start \in {WindowStart, cutoff} : Second(f.at) > Second(start)
       /\ row.success = Unset \/ Second(f.at) > Second(row.success)
       => f \in Counted(kept)
  /\ \A f \in Counted(kept) :
       Second(f.at) >= Second(WindowStart) /\ Second(f.at) >= Second(row.success)
=============================================================================
