---------------------------- MODULE ReportProofs ----------------------------
(* What the reports promise: the state of an account in GET /v1/health, the  *)
(* status and the binding window of a quota, sessions, pages and alerts, for *)
(* any values of the constants and any answers within them.                  *)
EXTENDS HealthReport, QuotaReport, SessionReport, PageWalk, PoolAlert, Facts,
        FiniteSetTheorems, TLAPS

-----------------------------------------------------------------------------
(* HealthReport *)

RowShape == [code : Nat, failure : Nat, success : Nat, retry : Nat, event : Nat]
FailureShape == [number : Nat, at : Nat]

LEMMA InstantsArePositive == Instants \subseteq Nat /\ Unset \notin Instants /\ Unset \in Nat
BY HealthReportAssumption DEF Unset

\* The newest event is newer than anything that is known of the account.
HealthTypes ==
  /\ clock \in Nat \ {0} /\ usages \in Nat
  /\ settings \in [window : Nat, retention : Nat, threshold : Nat] /\ cutoff \in Int
  /\ row \in RowShape /\ row.failure <= row.event
  /\ ever \subseteq FailureShape /\ kept \subseteq ever
  /\ \A f \in ever : f.number < usages
  /\ \A f \in kept : f.at <= row.event

\* Pruning takes only what is older than its retention, up to a second.
Forgotten == \A f \in ever \ kept : Second(f.at) <= Second(cutoff)

EventShape == [at : Nat \ {0}, success : {TRUE}] \cup
              [at : Nat \ {0}, success : {FALSE}, code : Nat, retry : Nat]

\* A text follows the second, and its digits fit between two seconds.
LEMMA TextOfSecond ==
  ASSUME NEW u \in Int
  PROVE  Second(u) \in Int /\ TimeText(u) \in Int /\ TimeText(u) - 1000 * Second(u) \in 0..999
<1>1. (u % 100 = 0 => u % 10 = 0) /\ (u % 10 = 0 => u % 100 <= 90) /\ u % 100 \in 0..99
  OBVIOUS
<1> DEFINE c == u % 100
           d == u % 10
           z == Second(u)
<1>2. TimeText(u) = 1000 * z + (CASE c = 0 -> 999
                                  [] c # 0 /\ d = 0 -> 10 * c + 95
                                  [] d # 0 -> 10 * c)
  BY DEF TimeText
<1>3. c \in 0..99 /\ z \in Int /\ (c = 0 => d = 0) /\ (d = 0 => c <= 90)
  BY <1>1 DEF Second
<1> HIDE DEF c, d, z
<1>4. CASE c = 0
  BY <1>2, <1>3, <1>4 DEF z
<1>5. CASE c # 0 /\ d = 0
  BY <1>2, <1>3, <1>5 DEF z
<1>6. CASE d # 0
  <2>1. c # 0
    BY <1>3, <1>6
  <2> QED BY <1>2, <1>3, <1>6, <2>1 DEF z
<1> QED BY <1>4, <1>5, <1>6

\* The texts of two times in different seconds are in the order of the times.
LEMMA TextOrder ==
  ASSUME NEW s \in Int, NEW t \in Int
  PROVE  /\ TimeText(s) \in Int /\ Second(s) \in Int
         /\ TimeText(s) < TimeText(t) => Second(s) <= Second(t)
         /\ Second(s) < Second(t) => TimeText(s) < TimeText(t)
         /\ s <= t => Second(s) <= Second(t)
<1>1. \A u \in Int :
        Second(u) \in Int /\ TimeText(u) \in Int /\ TimeText(u) - 1000 * Second(u) \in 0..999
  BY TextOfSecond
<1>2. s <= t => Second(s) <= Second(t)
  BY DEF Second
<1> DEFINE a == TimeText(s)
           b == TimeText(t)
           c == Second(s)
           d == Second(t)
<1>3. c \in Int /\ a \in Int /\ a - 1000 * c \in 0..999
  BY <1>1
<1>4. d \in Int /\ b \in Int /\ b - 1000 * d \in 0..999
  BY <1>1
<1> HIDE DEF a, b, c, d
<1>5. (a < b => c <= d) /\ (c < d => a < b)
  BY <1>3, <1>4
<1> QED BY <1>2, <1>3, <1>4, <1>5 DEF a, b, c, d

LEMMA NotEarlier ==
  ASSUME NEW a \in Int, NEW b \in Int
  PROVE  /\ Max({a, b}) \in Int /\ a <= Max({a, b}) /\ b <= Max({a, b})
<1>1. \E x \in {a, b} : \A y \in {a, b} : x >= y
  <2>1. CASE a <= b
    BY <2>1
  <2>2. CASE b <= a
    BY <2>2
  <2> QED BY <2>1, <2>2
<1>2. Max({a, b}) \in {a, b} /\ \A y \in {a, b} : Max({a, b}) >= y
  BY <1>1, Zenon DEF Max
<1> QED BY <1>2

\* What a pruning does, if it does anything.
LEMMA Pruned ==
  ASSUME HealthTypes, NEW failures \in SUBSET FailureShape, Prune(failures)
  PROVE  /\ kept' \subseteq failures /\ cutoff' \in Int /\ Second(cutoff) <= Second(cutoff')
         /\ \A f \in failures \ kept' : Second(f.at) <= Second(cutoff')
<1>1. cutoff \in Int /\ OldestFailure \in Int
  BY DEF HealthTypes, OldestFailure
<1>2. CASE kept' = failures /\ cutoff' = cutoff
  BY <1>1, <1>2, TextOrder
<1>3. CASE kept' = Unexpired(failures) /\ cutoff' = Max({cutoff, OldestFailure})
  <2>1. /\ cutoff' \in Int /\ cutoff <= cutoff' /\ OldestFailure <= cutoff'
    BY <1>1, <1>3, NotEarlier
  <2>2. Second(cutoff) <= Second(cutoff') /\ Second(OldestFailure) <= Second(cutoff')
    BY <1>1, <2>1, TextOrder
  <2>3. ASSUME NEW f \in failures, f \notin kept' PROVE Second(f.at) <= Second(cutoff')
    <3>1. ~(TimeText(f.at) >= TimeText(OldestFailure))
      BY <1>3, <2>3 DEF Unexpired
    <3>2. f.at \in Int
      BY DEF FailureShape
    <3>3. Second(f.at) <= Second(OldestFailure)
      BY <1>1, <3>1, <3>2, TextOrder
    <3>4. Second(f.at) \in Int /\ Second(OldestFailure) \in Int /\ Second(cutoff') \in Int
      BY <1>1, <2>1, <3>2, TextOrder
    <3> QED BY <2>2, <3>3, <3>4
  <2>4. kept' \subseteq failures
    BY <1>3 DEF Unexpired
  <2> QED BY <2>1, <2>2, <2>3, <2>4
<1> QED BY <1>2, <1>3 DEF Prune

LEMMA EventTypes ==
  ASSUME HealthTypes, NEW r \in UsageRecord
  PROVE  Sanitized(r) \in EventShape
<1> DEFINE at == IF r.requested = Unset THEN clock ELSE r.requested
<1>1. clock \in Nat \ {0} /\ Requested \subseteq Nat
  BY InstantsArePositive DEF HealthTypes, Requested
<1>2. CASE r \in [failed : {FALSE}, requested : Requested]
  <2>1. r.failed \in {FALSE} /\ r.requested \in Requested
    BY <1>2
  <2>2. at \in Nat \ {0}
    BY <1>1, <2>1 DEF Unset
  <2>3. Sanitized(r) = [at |-> at, success |-> TRUE]
    BY <2>1, Zenon DEF Sanitized
  <2> HIDE DEF at
  <2>4. [at |-> at, success |-> TRUE] \in [at : Nat \ {0}, success : {TRUE}]
    BY <2>2, Zenon
  <2> QED BY <2>3, <2>4, Zenon DEF EventShape
<1>3. CASE r \in [failed : {TRUE}, code : Code, requested : Requested, latency : {50},
                  retryAfter : RetryAfter]
  <2>1. r.failed
    BY <1>3
  <2>2. /\ at \in Nat \ {0} /\ r.code \in Nat /\ r.latency \in Nat
        /\ r.retryAfter \in RetryAfter
    <3>1. /\ r.requested \in Requested /\ r.code \in Code /\ r.latency = 50
          /\ r.retryAfter \in RetryAfter
      BY <1>3
    <3>2. at \in Nat \ {0}
      BY <1>1, <3>1 DEF Unset
    <3> QED BY <3>1, <3>2 DEF Code
  <2>3. /\ r.retryAfter.kind \in {"none", "seconds", "date"} /\ r.retryAfter.amount \in Nat
    BY <2>2 DEF RetryAfter
  <2> DEFINE retry == CASE r.retryAfter.kind = "none" -> Unset
                        [] r.retryAfter.kind = "seconds" -> at + r.latency + 100 * r.retryAfter.amount
                        [] r.retryAfter.kind = "date" -> 100 * r.retryAfter.amount
  <2>4. retry \in Nat
    BY <2>2, <2>3 DEF Unset
  <2> HIDE DEF retry
  <2>5. Sanitized(r) = [at |-> at, success |-> FALSE, code |-> r.code, retry |-> retry]
    BY <2>1 DEF Sanitized, retry
  <2> HIDE DEF at
  <2>6. [at |-> at, success |-> FALSE, code |-> r.code, retry |-> retry]
          \in [at : Nat \ {0}, success : {FALSE}, code : Nat, retry : Nat]
    BY <2>2, <2>4, Zenon
  <2> QED BY <2>5, <2>6, Zenon DEF EventShape
<1> QED BY <1>2, <1>3 DEF UsageRecord

\* What handling an event does to the row, and to the failures.
Outdated(e) == e.at < row.event
RowAfter(e) == IF Outdated(e) THEN row
               ELSE IF e.success THEN RowAfterSuccess(e) ELSE RowAfterFailure(e)

LEMMA SuccessRow ==
  ASSUME HealthTypes, NEW e \in EventShape
  PROVE  /\ RowAfterSuccess(e) \in RowShape
         /\ RowAfterSuccess(e).event = e.at /\ RowAfterSuccess(e).success = e.at
         /\ RowAfterSuccess(e).failure = row.failure /\ RowAfterSuccess(e).retry = Unset
<1>1. e.at \in Nat /\ row \in RowShape
  BY DEF HealthTypes, EventShape
<1> QED BY <1>1 DEF RowAfterSuccess, RowShape, Unset

LEMMA FailureRow ==
  ASSUME HealthTypes, NEW e \in EventShape, e.success = FALSE
  PROVE  /\ RowAfterFailure(e) \in RowShape
         /\ RowAfterFailure(e).event = e.at /\ RowAfterFailure(e).failure = e.at
<1>1. e.at \in Nat /\ e.code \in Nat /\ e.retry \in Nat /\ row \in RowShape
  BY DEF HealthTypes, EventShape
<1> QED BY <1>1 DEF RowAfterFailure, RowShape

LEMMA RowSteps ==
  ASSUME HealthTypes, NEW e \in EventShape
  PROVE  /\ RowAfter(e) \in RowShape /\ RowAfter(e).failure <= RowAfter(e).event
         /\ row.event <= RowAfter(e).event /\ e.at <= RowAfter(e).event
<1>1. e.at \in Nat /\ row.event \in Nat /\ row.failure \in Nat /\ row.failure <= row.event
      /\ row \in RowShape /\ e.success \in BOOLEAN
  BY DEF HealthTypes, EventShape, RowShape
<1>2. CASE Outdated(e)
  BY <1>1, <1>2 DEF Outdated, RowAfter
<1>3. CASE ~Outdated(e) /\ e.success
  <2>1. RowAfter(e) = RowAfterSuccess(e)
    BY <1>3, Zenon DEF RowAfter
  <2> QED BY <1>1, <1>3, <2>1, SuccessRow DEF Outdated
<1>4. CASE ~Outdated(e) /\ ~e.success
  <2>1. RowAfter(e) = RowAfterFailure(e) /\ e.success = FALSE
    BY <1>1, <1>4, Zenon DEF RowAfter
  <2>2. /\ RowAfter(e) \in RowShape /\ RowAfter(e).event = e.at /\ RowAfter(e).failure = e.at
    BY <2>1, FailureRow
  <2> QED BY <1>1, <1>4, <2>2 DEF Outdated
<1> QED BY <1>1, <1>2, <1>3, <1>4

\* A handled record in terms of its event.
LEMMA UsageEffect ==
  ASSUME HealthTypes, NEW r \in UsageRecord, HandleUsage(r)
  PROVE  \E e \in EventShape, new \in SUBSET FailureShape :
           /\ e.success => new = {}
           /\ ~e.success => new = {[number |-> usages, at |-> e.at]}
           /\ row' = RowAfter(e) /\ ever' = ever \cup new
           /\ Prune(kept \cup new)
           /\ clock' = clock /\ settings' = settings /\ usages' = usages + 1
<1> DEFINE e == Sanitized(r)
           new == IF e.success THEN {} ELSE {[number |-> usages, at |-> e.at]}
<1>1. e \in EventShape /\ usages \in Nat /\ row.event \in Nat
  BY EventTypes DEF HealthTypes, RowShape
<1>2. e.at \in Nat /\ e.success \in BOOLEAN
  BY <1>1 DEF EventShape
<1>3. /\ row' = CASE e.at < row.event -> row
                   [] e.at >= row.event /\ e.success -> RowAfterSuccess(e)
                   [] e.at >= row.event /\ ~e.success -> RowAfterFailure(e)
      /\ ever' = ever \cup new
      /\ Prune(kept \cup new)
      /\ clock' = clock /\ settings' = settings /\ usages' = usages + 1
  BY DEF HandleUsage
<1> HIDE DEF e
<1>4. row' = RowAfter(e)
  <2>1. CASE e.at < row.event
    <3>1. ~(e.at >= row.event)
      BY <1>1, <1>2, <2>1 DEF HealthTypes
    <3> QED BY <1>3, <2>1, <3>1, Zenon DEF RowAfter, Outdated
  <2>2. CASE e.at >= row.event /\ e.success
    <3>1. ~(e.at < row.event)
      BY <1>1, <1>2, <2>2
    <3> QED BY <1>2, <1>3, <2>2, <3>1, Zenon DEF RowAfter, Outdated
  <2>3. CASE e.at >= row.event /\ ~e.success
    <3>1. ~(e.at < row.event)
      BY <1>1, <1>2, <2>3
    <3> QED BY <1>2, <1>3, <2>3, <3>1, Zenon DEF RowAfter, Outdated
  <2> QED BY <1>1, <1>2, <2>1, <2>2, <2>3
<1>5. new \subseteq FailureShape
  BY <1>1, <1>2 DEF FailureShape
<1>6. (e.success => new = {}) /\ (~e.success => new = {[number |-> usages, at |-> e.at]})
  BY <1>2, Zenon
<1> HIDE DEF new
<1> QED BY <1>1, <1>3, <1>4, <1>5, <1>6, Zenon

\* Failures that were pruned stay so, and later prunings cut off later.
LEMMA StillForgotten ==
  ASSUME HealthTypes, Forgotten, ever' \subseteq FailureShape, cutoff' \in Int,
         NEW new, ever' = ever \cup new, Second(cutoff) <= Second(cutoff'),
         \A f \in (kept \cup new) \ kept' : Second(f.at) <= Second(cutoff')
  PROVE  Forgotten'
<1> SUFFICES ASSUME NEW f \in ever', f \notin kept'
             PROVE  Second(f.at) <= Second(cutoff')
  BY DEF Forgotten, Second
<1>1. CASE f \in kept \cup new
  BY <1>1
<1>2. CASE f \notin kept \cup new
  <2>1. Second(f.at) <= Second(cutoff)
    BY <1>2 DEF Forgotten
  <2>2. f.at \in Int /\ cutoff \in Int
    BY DEF FailureShape, HealthTypes
  <2>3. Second(f.at) \in Int /\ Second(cutoff) \in Int /\ Second(cutoff') \in Int
    BY <2>2, TextOrder
  <2> QED BY <2>1, <2>3
<1> QED BY <1>1, <1>2

\* The failures that are kept are some of those that happened, none is newer than
\* the account's newest event, and what was pruned was older than the retention.
THEOREM HealthInvariant == HealthSpec => [](HealthTypes /\ Forgotten)
<1>1. HealthInit => HealthTypes /\ Forgotten
  BY HealthReportAssumption DEF HealthInit, HealthTypes, Forgotten, RowShape, Unset
<1>2. HealthTypes /\ Forgotten /\ [HealthNext]_healthVars => HealthTypes' /\ Forgotten'
  <2> SUFFICES ASSUME HealthTypes, Forgotten, [HealthNext]_healthVars
               PROVE  HealthTypes' /\ Forgotten'
    OBVIOUS
  <2>1. ASSUME NEW r \in UsageRecord, HandleUsage(r) PROVE HealthTypes' /\ Forgotten'
    <3>1. PICK e \in EventShape, new \in SUBSET FailureShape :
             /\ e.success => new = {}
             /\ ~e.success => new = {[number |-> usages, at |-> e.at]}
             /\ row' = RowAfter(e) /\ ever' = ever \cup new
             /\ Prune(kept \cup new)
             /\ clock' = clock /\ settings' = settings /\ usages' = usages + 1
      BY <2>1, UsageEffect
    <3>2. /\ row' \in RowShape /\ row'.failure <= row'.event
          /\ row.event <= row'.event /\ e.at <= row'.event
      BY <3>1, RowSteps
    <3>3. /\ clock' \in Nat \ {0} /\ usages' \in Nat /\ ever' \subseteq FailureShape
          /\ settings' \in [window : Nat, retention : Nat, threshold : Nat]
      BY <3>1 DEF HealthTypes
    <3>9. /\ kept' \subseteq kept \cup new /\ cutoff' \in Int /\ Second(cutoff) <= Second(cutoff')
          /\ \A f \in (kept \cup new) \ kept' : Second(f.at) <= Second(cutoff')
      <4>1. kept \cup new \in SUBSET FailureShape
        BY DEF HealthTypes
      <4> QED BY <3>1, <4>1, Pruned
    <3>8. \A f \in ever' : f.number < usages'
      <4>1. \A f \in new : f.number = usages
        BY <3>1
      <4> QED BY <3>1, <4>1 DEF HealthTypes, FailureShape
    <3>5. kept' \subseteq ever'
      BY <3>1, <3>9 DEF HealthTypes
    <3>6. \A f \in kept' : f.at <= row'.event
      <4> SUFFICES ASSUME NEW f \in kept' PROVE f.at <= row'.event
        OBVIOUS
      <4>1. row.event \in Nat /\ row'.event \in Nat /\ e.at \in Nat
        BY <3>2 DEF HealthTypes, RowShape, EventShape
      <4>2. CASE f \in kept
        <5>1. f.at \in Nat /\ f.at <= row.event
          BY <4>2 DEF HealthTypes, FailureShape
        <5> QED BY <3>2, <4>1, <5>1
      <4>3. CASE f \in new
        <5>1. f = [number |-> usages, at |-> e.at]
          BY <3>1, <4>3, Zenon
        <5> QED BY <3>2, <5>1
      <4> QED BY <3>9, <4>2, <4>3
    <3>7. Forgotten'
      BY <3>1, <3>3, <3>9, StillForgotten
    <3> QED BY <3>2, <3>3, <3>5, <3>6, <3>7, <3>8, <3>9 DEF HealthTypes
  <2>2. CASE SaveHistory
    <3>1. UNCHANGED <<clock, settings, row, ever, usages>> /\ Prune(kept)
      BY <2>2 DEF SaveHistory
    <3>2. /\ kept' \subseteq kept /\ cutoff' \in Int /\ Second(cutoff) <= Second(cutoff')
          /\ \A f \in kept \ kept' : Second(f.at) <= Second(cutoff')
      <4>1. kept \in SUBSET FailureShape
        BY DEF HealthTypes
      <4> QED BY <3>1, <4>1, Pruned
    <3>3. HealthTypes'
      BY <3>1, <3>2 DEF HealthTypes
    <3>4. Forgotten'
      BY <3>1, <3>2, <3>3, StillForgotten DEF HealthTypes
    <3> QED BY <3>3, <3>4
  <2>3. CASE ApplyHealthSettings \/ TimePasses
    <3>1. /\ UNCHANGED <<row, kept, ever, cutoff, usages>>
          /\ clock' \in Nat \ {0} /\ settings' \in [window : Nat, retention : Nat, threshold : Nat]
      BY <2>3, HealthReportAssumption DEF ApplyHealthSettings, TimePasses, HealthTypes
    <3> QED BY <3>1 DEF HealthTypes, Forgotten, Second
  <2>4. CASE UNCHANGED healthVars
    BY <2>4 DEF healthVars, HealthTypes, Forgotten, Second
  <2> QED BY <2>1, <2>2, <2>3, <2>4 DEF HealthNext
<1> QED BY <1>1, <1>2, PTL DEF HealthSpec

-----------------------------------------------------------------------------
\* The failures that make an account degraded are those after the window's start and
\* the last success, but for what a pruning took, whatever settings were in force.
THEOREM CountedTruly == HealthSpec => []DegradedForItsFailures
<1>1. HealthTypes /\ Forgotten => DegradedForItsFailures
  <2> SUFFICES ASSUME HealthTypes, Forgotten PROVE DegradedForItsFailures
    OBVIOUS
  <2>1. /\ WindowStart \in Int /\ cutoff \in Int /\ row.success \in Nat
        /\ \A f \in ever : f.at \in Int
    BY DEF HealthTypes, FailureShape, RowShape, WindowStart
  <2>2. ASSUME NEW f \in ever,
               \A start \in {WindowStart, cutoff} : Second(f.at) > Second(start),
               row.success = Unset \/ Second(f.at) > Second(row.success)
        PROVE  f \in Counted(kept)
    <3>1. f \in kept
      <4> SUFFICES ASSUME f \notin kept PROVE FALSE
        OBVIOUS
      <4>1. Second(f.at) <= Second(cutoff) /\ Second(f.at) > Second(cutoff)
        BY <2>2 DEF Forgotten
      <4> QED BY <2>1, <4>1, TextOrder
    <3>2. TimeText(f.at) >= TimeText(WindowStart)
      <4>1. Second(f.at) > Second(WindowStart)
        BY <2>2
      <4> QED BY <2>1, <4>1, TextOrder
    <3>3. row.success = Unset \/ TimeText(f.at) > TimeText(row.success)
      BY <2>1, <2>2, TextOrder
    <3> QED BY <3>1, <3>2, <3>3 DEF Counted
  <2>3. ASSUME NEW f \in Counted(kept)
        PROVE  Second(f.at) >= Second(WindowStart) /\ Second(f.at) >= Second(row.success)
    <3>1. /\ f \in kept /\ TimeText(f.at) >= TimeText(WindowStart)
          /\ row.success = Unset \/ TimeText(f.at) > TimeText(row.success)
      BY DEF Counted
    <3>2. f \in ever /\ f.at \in Nat
      BY <3>1 DEF HealthTypes, FailureShape
    <3>3. Second(f.at) >= Second(WindowStart)
      <4>1. /\ Second(f.at) \in Int /\ Second(WindowStart) \in Int
            /\ TimeText(f.at) \in Int /\ TimeText(WindowStart) \in Int
            /\ Second(f.at) < Second(WindowStart) => TimeText(f.at) < TimeText(WindowStart)
        BY <2>1, <3>2, TextOrder
      <4> QED BY <3>1, <4>1
    <3>4. CASE row.success = Unset
      <4>1. row.success <= f.at
        BY <3>2, <3>4 DEF Unset
      <4> QED BY <2>1, <3>2, <3>3, <4>1, TextOrder
    <3>5. CASE TimeText(f.at) > TimeText(row.success)
      BY <2>1, <3>2, <3>3, <3>5, TextOrder
    <3> QED BY <3>1, <3>4, <3>5
  <2> QED BY <2>2, <2>3 DEF DegradedForItsFailures
<1> QED BY <1>1, HealthInvariant, PTL

-----------------------------------------------------------------------------
\* What keeps an account in the pool.
NoObjection(e) ==
  /\ ~e.disabled
  /\ ~(Unanswered /\ row.code \in {401, 403})
  /\ ~RateLimited(e)
  /\ ~e.unavailable /\ e.status = "active"

LEMMA RoutableWhen ==
  ASSUME NEW e
  PROVE  (Routable(e) <=> NoObjection(e)) /\ (Routable(e)' <=> NoObjection(e)')
BY DEF Routable, AccountState, NoObjection

\* As time passes, no account leaves the pool.
THEOREM OnlyHeals == HealthSpec => TimeOnlyHeals
<1>1. HealthTypes /\ [HealthNext]_healthVars
        => [Quiet => \A e \in Entry : Routable(e) => Routable(e)']_healthVars
  <2> SUFFICES ASSUME HealthTypes, HealthNext, Quiet, NEW e \in Entry, Routable(e)
               PROVE  Routable(e)'
    OBVIOUS
  <2>1. ASSUME NEW r \in UsageRecord, HandleUsage(r) PROVE FALSE
    <3>1. usages' = usages + 1 /\ usages \in Nat /\ usages' = usages
      BY <2>1 DEF HandleUsage, HealthTypes, Quiet
    <3> QED BY <3>1
  <2>2. clock \in Nat /\ clock' \in Nat /\ clock' >= clock /\ row' = row
    <3>1. clock \in Nat /\ row' = row
      BY DEF HealthTypes, Quiet
    <3>2. CASE SaveHistory \/ ApplyHealthSettings
      BY <3>1, <3>2 DEF SaveHistory, ApplyHealthSettings
    <3>3. CASE TimePasses
      BY <3>1, <3>3, InstantsArePositive DEF TimePasses
    <3> QED BY <2>1, <3>1, <3>2, <3>3 DEF HealthNext
  <2>3. e.retry \in Nat /\ row.retry \in Nat
    BY InstantsArePositive DEF HealthTypes, RowShape, Entry
  <2>4. RateLimited(e)' => RateLimited(e)
    BY <2>2, <2>3 DEF RateLimited, Ahead, Unanswered
  <2>5. NoObjection(e)
    BY RoutableWhen
  <2>6. NoObjection(e)'
    BY <2>2, <2>4, <2>5 DEF NoObjection, Unanswered
  <2> QED BY <2>6, RoutableWhen
<1> QED BY <1>1, HealthInvariant, PTL DEF HealthSpec, TimeOnlyHeals

\* A success that is the newest event leaves nothing of the plugin's own that could
\* hold the account back.
THEOREM HealsAll == HealthSpec => SuccessHeals
<1> DEFINE Step == row' # row /\ ever' = ever /\ \A f \in kept : Second(f.at) # Second(row'.success)
           Fine(e) == ~e.disabled /\ ~e.unavailable /\ e.status = "active" /\ ~Ahead(e.retry)
<1>1. HealthTypes /\ [HealthNext]_healthVars
        => [Step => \A e \in Entry : Fine(e) => AccountState(e)' = "healthy"]_healthVars
  <2> SUFFICES ASSUME HealthTypes, HealthNext, Step, NEW a \in Entry, Fine(a)
               PROVE  AccountState(a)' = "healthy"
    OBVIOUS
  <2>1. PICK r \in UsageRecord : HandleUsage(r)
    BY DEF HealthNext, TimePasses, SaveHistory, ApplyHealthSettings
  <2>2. PICK e \in EventShape, new \in SUBSET FailureShape :
           /\ e.success => new = {}
           /\ ~e.success => new = {[number |-> usages, at |-> e.at]}
           /\ row' = RowAfter(e) /\ ever' = ever \cup new
           /\ Prune(kept \cup new)
           /\ clock' = clock /\ settings' = settings /\ usages' = usages + 1
    BY <2>1, UsageEffect
  <2>3. /\ e.at \in Nat \ {0} /\ e.success \in BOOLEAN /\ clock \in Nat /\ a.retry \in Nat
        /\ row.event \in Nat /\ row.failure \in Nat /\ row.failure <= row.event
    <3>1. e.at \in Nat \ {0} /\ e.success \in BOOLEAN
      BY DEF EventShape
    <3>2. a.retry \in Nat
      BY InstantsArePositive DEF Entry
    <3>3. /\ clock \in Nat /\ row.event \in Nat /\ row.failure \in Nat
          /\ row.failure <= row.event
      BY DEF HealthTypes, RowShape
    <3> QED BY <3>1, <3>2, <3>3
  <2>4. e.success
    <3> SUFFICES ASSUME ~e.success PROVE FALSE
      OBVIOUS
    <3>1. [number |-> usages, at |-> e.at] \in ever
      BY <2>2, Zenon
    <3>2. usages < usages /\ usages \in Nat
      BY <3>1 DEF HealthTypes
    <3> QED BY <3>2
  <2>5. ~Outdated(e) /\ row' = RowAfterSuccess(e)
    BY <2>2, <2>4, Zenon DEF RowAfter
  <2>6. /\ row'.success = e.at /\ row'.retry = Unset /\ row'.failure = row.failure
        /\ row.event <= e.at
    BY <2>3, <2>5, SuccessRow DEF Outdated
  <2>7. ~Unanswered'
    BY <2>3, <2>6 DEF Unanswered
  <2>8. ~RateLimited(a)'
    BY <2>2, <2>3, <2>6, <2>7 DEF RateLimited, Ahead, Unset
  <2>9. Recent' = 0
    <3>1. ASSUME NEW f \in kept'
          PROVE  ~(row'.success = Unset \/ TimeText(f.at) > TimeText(row'.success))
      <4>1. f \in kept
        <5>1. kept \cup new \in SUBSET FailureShape /\ Prune(kept \cup new)
          BY <2>2 DEF HealthTypes
        <5>2. kept' \subseteq kept \cup new
          BY <5>1, Pruned
        <5> QED BY <2>2, <2>4, <5>2
      <4>2. f.at \in Int /\ f.at <= e.at /\ Second(f.at) # Second(e.at) /\ e.at \in Int
        <5>1. f.at \in Nat /\ f.at <= row.event
          BY <4>1 DEF HealthTypes, FailureShape
        <5>2. Second(f.at) # Second(row'.success)
          BY <4>1
        <5> QED BY <2>3, <2>6, <5>1, <5>2
      <4>3. Second(f.at) \in Int /\ Second(e.at) \in Int /\ Second(f.at) <= Second(e.at)
        BY <4>2, TextOrder
      <4>4. Second(f.at) < Second(e.at)
        BY <4>2, <4>3
      <4>5. TimeText(f.at) < TimeText(e.at) /\ TimeText(f.at) \in Int /\ TimeText(e.at) \in Int
        BY <4>2, <4>4, TextOrder
      <4> QED BY <2>3, <2>6, <4>5 DEF Unset
    <3>2. Counted(kept)' =
            {f \in kept' : /\ TimeText(f.at) >= TimeText(WindowStart')
                           /\ row'.success = Unset \/ TimeText(f.at) > TimeText(row'.success)}
      BY DEF Counted, TimeText, Second
    <3>3. Counted(kept)' = {}
      BY <3>1, <3>2
    <3>4. Recent' = Cardinality({})
      BY <3>3 DEF Recent
    <3> QED BY <3>4, FS_EmptySet
  <2>10. ~(settings'.threshold > 0 /\ Recent' >= settings'.threshold)
    <3>1. settings'.threshold \in Nat
      BY <2>2 DEF HealthTypes
    <3> QED BY <2>9, <3>1
  <2>11. /\ ~a.disabled /\ ~(a.unavailable \/ a.status = "error") /\ a.status = "active"
    OBVIOUS
  <2> QED BY <2>7, <2>8, <2>10, <2>11, Zenon DEF AccountState
<1> QED BY <1>1, HealthInvariant, PTL DEF HealthSpec, SuccessHeals

-----------------------------------------------------------------------------
(* QuotaReport *)

\* Rows that have quota left, or are known at all, exactly when readings say so.
Tells(rows, readings) ==
  /\ (\E entry \in rows : Remains(entry)) <=> (\E r \in readings : Left(r))
  /\ (\E entry \in rows : Observed(entry)) <=> (\E r \in readings : Number(r))

\* Until there is an answer the endpoints asked so far have failed.
StatusInv ==
  /\ tries \in Nat /\ asked \in Seq(Cause \cup {"answer"})
  /\ quota.status = "unread" =>
       /\ asked \in Seq(Cause) /\ Len(asked) = (IF tries = 0 THEN 0 ELSE tries - 1)
       /\ said = {} /\ limits = <<>>
  /\ StatusTellsQuota

LEMMA AccountFields ==
  ASSUME NEW status, NEW error
  PROVE  Account(status, error).status = status /\ Account(status, error).error = error
BY DEF Account

\* What one number becomes.
LEMMA Conversion ==
  ASSUME NEW unit \in {"used", "remaining", "fraction"}, NEW id, NEW n \in Int \cup {Nothing}
  PROVE  /\ Observed(Window(unit, id, n)) <=> Number(Reading(unit, n, 100))
         /\ Remains(Window(unit, id, n)) <=> Left(Reading(unit, n, 100))
<1> USE QuotaReportAssumption
        DEF Observed, Remains, Window, UsedWindow, RemainingWindow, FractionWindow, InversePercent,
            FractionPercent, Clamp, Number, Left, Reading
<1>1. CASE unit = "used"
  BY <1>1
<1>2. CASE unit = "remaining"
  BY <1>2
<1>3. CASE unit = "fraction"
  BY <1>3
<1> QED BY <1>1, <1>2, <1>3

LEMMA FieldNumber ==
  ASSUME NEW ids, NEW fields \in [ids -> Field], NEW id \in Present(ids, fields)
  PROVE  fields[id] \in Int \cup {Nothing}
BY QuotaReportAssumption DEF Field, Present

LEMMA WindowsTell ==
  ASSUME NEW unit \in {"used", "remaining", "fraction"}, NEW ids, NEW fields,
         \A id \in Present(ids, fields) : fields[id] \in Int \cup {Nothing}
  PROVE  Tells(Windows(unit, ids, fields), Readings(unit, ids, fields))
<1>1. ASSUME NEW id \in Present(ids, fields)
      PROVE  /\ Observed(Window(unit, id, fields[id])) <=> Number(Reading(unit, fields[id], 100))
             /\ Remains(Window(unit, id, fields[id])) <=> Left(Reading(unit, fields[id], 100))
  <2> DEFINE n == fields[id]
  <2>1. n \in Int \cup {Nothing}
    BY <1>1
  <2> HIDE DEF n
  <2>2. /\ Observed(Window(unit, id, n)) <=> Number(Reading(unit, n, 100))
        /\ Remains(Window(unit, id, n)) <=> Left(Reading(unit, n, 100))
    BY <2>1, Conversion
  <2> QED BY <2>2 DEF n
<1> QED BY <1>1, Zenon DEF Tells, Windows, Readings

LEMMA ModelsTell ==
  ASSUME NEW ids, NEW fields \in [ids -> Field]
  PROVE  Tells({ModelRow(id, FractionPercent(fields[id])) : id \in Present(ids, fields)},
               Readings("fraction", ids, fields))
<1> DEFINE Row(id) == ModelRow(id, FractionPercent(fields[id]))
<1>1. ASSUME NEW id \in Present(ids, fields)
      PROVE  /\ Observed(Row(id)) <=> Number(Reading("fraction", fields[id], 100))
             /\ Remains(Row(id)) <=> Left(Reading("fraction", fields[id], 100))
  <2>1. fields[id] \in Int \cup {Nothing}
    BY FieldNumber
  <2> QED BY <2>1, QuotaReportAssumption
          DEF Observed, Remains, ModelRow, FractionPercent, Clamp, Number, Left, Reading
<1> HIDE DEF Row
<1>2. Tells({Row(id) : id \in Present(ids, fields)}, Readings("fraction", ids, fields))
  BY <1>1, Zenon DEF Tells, Readings
<1> QED BY <1>2 DEF Row

LEMMA TellsBoth ==
  ASSUME NEW rows, NEW more, NEW readings, NEW others, Tells(rows, readings), Tells(more, others)
  PROVE  Tells(rows \cup more, readings \cup others)
BY Zenon DEF Tells

\* A percentage rounded down is below 100 as long as credits are left.
LEMMA CreditsLeft ==
  ASSUME NEW c \in Int, NEW m \in Nat \ {0}
  PROVE  (c * 100) \div m < 100 <=> c < m
<1> DEFINE q == (c * 100) \div m
<1>1. q \in Int /\ m * q <= c * 100 /\ c * 100 < m * q + m
  OBVIOUS
<1> HIDE DEF q
<1>2. CASE q < 100
  <2>1. m * q + m <= m * 100
    BY <1>1, <1>2
  <2> QED BY <1>1, <1>2, <2>1 DEF q
<1>3. CASE q >= 100
  <2>1. m * q >= m * 100
    BY <1>1, <1>3
  <2> QED BY <1>1, <1>3, <2>1 DEF q
<1> QED BY <1>1, <1>2, <1>3

LEMMA ExtraTells ==
  ASSUME NEW extra \in ExtraUsage
  PROVE  Tells(ExtraWindow(extra), ExtraReading(extra))
<1>1. CASE extra = Nothing \/ extra.limit <= 0
  BY <1>1 DEF Tells, ExtraWindow, ExtraReading
<1>2. CASE ~(extra = Nothing \/ extra.limit <= 0)
  <2> DEFINE c == extra.credits
             m == extra.limit
             q == (c * 100) \div m
             entry == UsedWindow("extra", Clamp(q))
             r == Reading("used", c, m)
  <2>1. c \in Int /\ m \in Nat \ {0}
    BY <1>2 DEF ExtraUsage
  <2>2. q \in Int /\ (q < 100 <=> c < m)
    BY <2>1, CreditsLeft
  <2>3. ExtraWindow(extra) = {entry} /\ ExtraReading(extra) = {r}
    BY <1>2 DEF ExtraWindow, ExtraReading
  <2>4. Observed(entry) /\ (Remains(entry) <=> q < 100)
    <3> HIDE DEF q
    <3> QED BY <2>2, QuotaReportAssumption DEF Observed, Remains, UsedWindow, InversePercent, Clamp
  <2>5. Number(r) /\ (Left(r) <=> c < m)
    BY <2>1, QuotaReportAssumption DEF Number, Left, Reading
  <2> HIDE DEF entry, r, q
  <2> QED BY <2>2, <2>3, <2>4, <2>5 DEF Tells
<1> QED BY <1>1, <1>2

\* The models of limits[] are those that are shown.
LEMMA ScopedTell ==
  ASSUME NEW all, \A i \in DOMAIN all : all[i] \in Limit
  PROVE  Tells(ScopedModels(all),
               {Reading("used", all[i].percent, 100) : i \in {k \in DOMAIN all : Shown(all, k)}})
<1> DEFINE Place == {k \in DOMAIN all : Shown(all, k)}
           Row(i) == ModelRow(ScopedSlug(all[i]), InversePercent(all[i].percent))
<1>1. ScopedModels(all) = {Row(i) : i \in Place}
  BY DEF ScopedModels, Shown, ScopedSlug
<1>2. ASSUME NEW i \in Place
      PROVE  /\ Observed(Row(i)) <=> Number(Reading("used", all[i].percent, 100))
             /\ Remains(Row(i)) <=> Left(Reading("used", all[i].percent, 100))
  <2>1. all[i].percent \in {0, 100, Nothing}
    BY DEF Limit, Shown, Listed
  <2> QED BY <2>1, QuotaReportAssumption
          DEF Observed, Remains, ModelRow, InversePercent, Clamp, Number, Left, Reading
<1> HIDE DEF Row, Place
<1>3. Tells({Row(i) : i \in Place}, {Reading("used", all[i].percent, 100) : i \in Place})
  BY <1>2, Zenon DEF Tells
<1> QED BY <1>1, <1>3 DEF Place

\* An answer whose rows tell what was said, and a status read off them.
LEMMA AnswerStatus ==
  ASSUME StatusInv, Asking, NEW status, NEW windows, NEW models, NEW binding,
         Answer(status, windows, models, binding),
         NEW rows, Tells(rows, Told'),
         status = "available" <=> \E entry \in rows : Remains(entry),
         status = "exhausted" =>
           (\E entry \in rows : Observed(entry)) /\ ~\E entry \in rows : Remains(entry),
         status = "unknown" => ~\E entry \in rows : Observed(entry),
         status \in {"available", "exhausted", "unknown"}
  PROVE  StatusInv' /\ quota'.status = status
<1>1. /\ quota'.status = status /\ quota'.error = NoError /\ tries' = tries
      /\ asked' = Append(asked, "answer")
  BY DEF Answer
<1>2. tries' \in Nat /\ asked' \in Seq(Cause \cup {"answer"})
  BY <1>1 DEF StatusInv
<1>3. /\ quota'.status = "available" => \E r \in Told' : Left(r)
      /\ quota'.status = "exhausted" => (\E r \in Told' : Number(r)) /\ ~\E r \in Told' : Left(r)
      /\ quota'.status = "unknown" => ~\E r \in Told' : Number(r)
  BY <1>1, Zenon DEF Tells
<1>4. StatusTellsQuota'
  BY <1>1, <1>3 DEF StatusTellsQuota
<1> QED BY <1>1, <1>2, <1>4 DEF StatusInv

\* What there is to tell after an answer of windows or models alone.
LEMMA ToldAlone ==
  ASSUME StatusInv, Asking, limits' = limits
  PROVE  Told' = said' /\ limits' = <<>>
<1>1. limits' = <<>>
  BY DEF StatusInv, Asking
<1> QED BY <1>1 DEF Told

LEMMA WindowsAnswerStatus ==
  ASSUME StatusInv, NEW p, NEW unit \in {"used", "remaining", "fraction"}, NEW ids,
         WindowsAnswer(p, unit, ids)
  PROVE  StatusInv' /\ limits' = <<>>
<1>1. PICK fields \in [ids -> Field] :
        LET windows == Windows(unit, ids, fields)
        IN  /\ Answer(StatusFromWindows(windows), windows, {}, "")
            /\ said' = Readings(unit, ids, fields)
  BY DEF WindowsAnswer
<1> DEFINE windows == Windows(unit, ids, fields)
<1>2. Asking /\ limits' = limits
  BY DEF WindowsAnswer
<1>3. Tells(windows, Told') /\ limits' = <<>>
  BY <1>1, <1>2, ToldAlone, FieldNumber, WindowsTell
<1>4. Answer(StatusFromWindows(windows), windows, {}, "")
  BY <1>1
<1> HIDE DEF windows
<1>5. /\ StatusFromWindows(windows) = "available" <=> \E entry \in windows : Remains(entry)
      /\ StatusFromWindows(windows) = "exhausted" =>
           (\E entry \in windows : Observed(entry)) /\ ~\E entry \in windows : Remains(entry)
      /\ StatusFromWindows(windows) = "unknown" => ~\E entry \in windows : Observed(entry)
      /\ StatusFromWindows(windows) \in {"available", "exhausted", "unknown"}
  BY DEF StatusFromWindows, Remains
<1> QED BY <1>2, <1>3, <1>4, <1>5, AnswerStatus

LEMMA PlainAnswer ==
  ASSUME StatusInv,
         CodexAnswers \/ GeminiAnswers \/ CopilotAnswers \/ OpenCodeGoAnswers \/ AntigravityAnswers
  PROVE  StatusInv' /\ limits' = <<>>
<1>1. CASE AntigravityAnswers
  <2>1. PICK fields \in [GeminiIds -> Field] :
          LET models == {ModelRow(id, FractionPercent(fields[id])) : id \in Present(GeminiIds, fields)}
          IN  /\ Answer(StatusFromModels(models), {}, models, "")
              /\ said' = Readings("fraction", GeminiIds, fields)
    BY <1>1 DEF AntigravityAnswers
  <2> DEFINE models == {ModelRow(id, FractionPercent(fields[id])) : id \in Present(GeminiIds, fields)}
  <2>2. Asking /\ limits' = limits
    BY <1>1 DEF AntigravityAnswers
  <2>3. Tells(models, Told') /\ limits' = <<>>
    BY <2>1, <2>2, ToldAlone, ModelsTell
  <2>4. Answer(StatusFromModels(models), {}, models, "")
    BY <2>1
  <2> HIDE DEF models
  <2>5. /\ StatusFromModels(models) = "available" <=> \E entry \in models : Remains(entry)
        /\ StatusFromModels(models) = "exhausted" =>
             (\E entry \in models : Observed(entry)) /\ ~\E entry \in models : Remains(entry)
        /\ StatusFromModels(models) = "unknown" => ~\E entry \in models : Observed(entry)
        /\ StatusFromModels(models) \in {"available", "exhausted", "unknown"}
    BY DEF StatusFromModels, Remains
  <2> QED BY <2>2, <2>3, <2>4, <2>5, AnswerStatus
<1> QED BY <1>1, WindowsAnswerStatus DEF CodexAnswers, GeminiAnswers, CopilotAnswers, OpenCodeGoAnswers

\* Windows, extra usage and models of limits[] together.
LEMMA ClaudeAnswer ==
  ASSUME StatusInv, ClaudeAnswers
  PROVE  StatusInv'
<1>1. PICK fields \in ClaudeFields, all \in BoundedSeq(Limit, MaxLimits), extra \in ExtraUsage :
        LET windows == Windows("used", ClaudeIds, fields) \cup ExtraWindow(extra)
            models == ScopedModels(all)
        IN  /\ Answer(StatusFromClaude(windows, models), windows, models, Binding(all))
            /\ said' = Readings("used", ClaudeIds, fields) \cup ExtraReading(extra)
            /\ limits' = all
  BY DEF ClaudeAnswers
<1> DEFINE windows == Windows("used", ClaudeIds, fields) \cup ExtraWindow(extra)
           models == ScopedModels(all)
           scoped == {Reading("used", all[i].percent, 100) : i \in {k \in DOMAIN all : Shown(all, k)}}
<1>2. Asking
  BY DEF ClaudeAnswers
<1>3. \A id \in Present(ClaudeIds, fields) : fields[id] \in Int \cup {Nothing}
  BY DEF ClaudeFields, ClaudeIds, Present
<1>4. Tells(windows, said')
  BY <1>1, <1>3, WindowsTell, ExtraTells, TellsBoth
<1>5. \A i \in DOMAIN all : all[i] \in Limit
  <2>1. all \in UNION {[1..m -> Limit] : m \in 0..MaxLimits}
    BY Zenon DEF BoundedSeq, SeqOf
  <2> QED BY <2>1
<1>6. Tells(models, scoped)
  BY <1>5, ScopedTell
<1>7. Told' = said' \cup scoped
  BY <1>1 DEF Told, Shown
<1>8. Tells(windows \cup models, Told')
  BY <1>4, <1>6, <1>7, TellsBoth
<1>9. Answer(StatusFromClaude(windows, models), windows, models, Binding(all))
  BY <1>1
<1> HIDE DEF windows, models
<1> DEFINE status == StatusFromClaude(windows, models)
           rows == windows \cup models
<1>10. /\ status = "available" <=> \E entry \in rows : Remains(entry)
       /\ status = "exhausted" => (\E entry \in rows : Observed(entry)) /\ ~\E entry \in rows : Remains(entry)
       /\ status = "unknown" => ~\E entry \in rows : Observed(entry)
       /\ status \in {"available", "exhausted", "unknown"}
  BY DEF StatusFromClaude, Remains
<1> QED BY <1>2, <1>8, <1>9, <1>10, AnswerStatus

LEMMA StatusStep ==
  ASSUME StatusInv, [QuotaNext]_quotaVars
  PROVE  StatusInv'
<1>1. CASE \E p \in Provider, indexed, complete \in BOOLEAN : Read(p, indexed, complete)
  <2>1. PICK p \in Provider, indexed \in BOOLEAN, complete \in BOOLEAN : Read(p, indexed, complete)
    BY <1>1
  <2>2. /\ quota.status = "unread" /\ tries = 0 /\ UNCHANGED <<asked, said, limits>>
        /\ asked \in Seq(Cause) /\ Len(asked) = 0 /\ said = {} /\ limits = <<>>
        /\ \/ quota' = quota /\ tries' = 1
           \/ /\ tries' = 0
              /\ \E error : quota' = Account("error", error) \/ quota' = Account("unsupported", error)
    BY <2>1 DEF Read, StatusInv
  <2>3. asked = <<>>
    BY <2>2
  <2>4. CASE quota' = quota /\ tries' = 1
    BY <2>2, <2>3, <2>4 DEF StatusInv, StatusTellsQuota
  <2>5. CASE /\ tries' = 0
             /\ \E error : quota' = Account("error", error) \/ quota' = Account("unsupported", error)
    <3>1. quota'.status \in {"error", "unsupported"}
      BY <2>5, AccountFields
    <3> QED BY <2>2, <2>3, <2>5, <3>1 DEF StatusInv, StatusTellsQuota
  <2> QED BY <2>2, <2>4, <2>5
<1>2. CASE \E cause \in Cause : EndpointFails(cause)
  <2>1. PICK cause \in Cause : EndpointFails(cause)
    BY <1>2
  <2>2. /\ quota.status = "unread" /\ tries \in Nat /\ tries > 0 /\ lastErr' = cause
        /\ asked \in Seq(Cause) /\ Len(asked) = tries - 1 /\ asked' = Append(asked, cause)
        /\ said' = {} /\ limits' = <<>> /\ credential' = credential
    BY <2>1 DEF EndpointFails, Asking, StatusInv
  <2>3. /\ asked' \in Seq(Cause) /\ Len(asked') = tries /\ asked'[tries] = cause
        /\ asked' # <<>> /\ DOMAIN asked' = 1..tries
    BY <2>2
  <2>4. \A i \in DOMAIN asked' : asked'[i] # "answer"
    BY <2>3 DEF Cause
  <2>5. CASE LastEndpoint
    <3>1. /\ quota' = Account("error", ErrorFrom(credential.provider, cause)) /\ tries' = tries
          /\ tries = Endpoints(credential.provider)
      BY <2>1, <2>2, <2>5 DEF EndpointFails, LastEndpoint
    <3>2. quota'.status = "error" /\ quota'.error = ErrorFrom(credential.provider, cause)
      BY <3>1, AccountFields
    <3>3. StatusTellsQuota'
      BY <2>2, <2>3, <2>4, <3>1, <3>2 DEF StatusTellsQuota, Failed
    <3>4. asked' \in Seq(Cause \cup {"answer"})
      BY <2>3
    <3> QED BY <2>2, <3>1, <3>2, <3>3, <3>4 DEF StatusInv
  <2>6. CASE ~LastEndpoint
    <3>1. quota' = quota /\ tries' = tries + 1
      BY <2>1, <2>6 DEF EndpointFails
    <3>2. StatusTellsQuota'
      BY <2>2, <2>4, <3>1 DEF StatusTellsQuota, Failed
    <3>3. asked' \in Seq(Cause \cup {"answer"})
      BY <2>3
    <3> QED BY <2>2, <2>3, <3>1, <3>2, <3>3 DEF StatusInv
  <2> QED BY <2>5, <2>6
<1>3. CASE CodexAnswers \/ GeminiAnswers \/ CopilotAnswers \/ OpenCodeGoAnswers \/ AntigravityAnswers
  BY <1>3, PlainAnswer
<1>4. CASE ClaudeAnswers
  BY <1>4, ClaudeAnswer
<1>5. CASE ReadNext
  <2>1. /\ quota' = Unread /\ tries' = 0 /\ asked' = <<>> /\ said' = {} /\ limits' = <<>>
    BY <1>5 DEF ReadNext
  <2>2. quota'.status = "unread"
    BY <2>1, AccountFields DEF Unread
  <2> QED BY <2>1, <2>2 DEF StatusInv, StatusTellsQuota
<1>6. CASE UNCHANGED quotaVars
  BY <1>6 DEF quotaVars, StatusInv, StatusTellsQuota, Told, Shown, Failed
<1> QED BY <1>1, <1>2, <1>3, <1>4, <1>5, <1>6 DEF QuotaNext

\* Through every conversion, pair of loops and endpoint, the status is true of the numbers
\* that the provider sent, and an error is that of the last endpoint when none answered.
THEOREM StatusAgrees == QuotaSpec => []StatusTellsQuota
<1>1. QuotaInit => StatusInv
  <2> SUFFICES ASSUME QuotaInit PROVE StatusInv
    OBVIOUS
  <2>1. quota = Account("unread", NoError) /\ tries = 0 /\ asked = <<>> /\ said = {} /\ limits = <<>>
    BY Zenon DEF QuotaInit, Unread
  <2>2. quota.status = "unread"
    BY <2>1, AccountFields, Zenon
  <2> QED BY <2>1, <2>2 DEF StatusInv, StatusTellsQuota
<1>2. StatusInv /\ [QuotaNext]_quotaVars => StatusInv'
  BY StatusStep
<1>3. StatusInv => StatusTellsQuota
  BY DEF StatusInv
<1> QED BY <1>1, <1>2, <1>3, PTL DEF QuotaSpec

\* The models and the binding window are those of the limits that were answered.
LimitsInv ==
  \/ limits = <<>>
  \/ /\ quota.status # "unread"
     /\ \E n \in Nat : limits \in [1..n -> Limit]
     /\ quota.models = ScopedModels(limits) /\ quota.binding = Binding(limits)

\* The first limit that names a window, when it is one that is listed, has a row under its
\* slug: that of the first listed limit with the slug.
LEMMA BindingHasRow ==
  ASSUME NEW n \in Nat, NEW all \in [1..n -> Limit], NEW i \in 1..n,
         FirstNaming(all, i), Listed(all[i])
  PROVE  \E model \in ScopedModels(all) : model.id = Binding(all)
<1>1. Binding(all) = Slug(all[i])
  <2>1. \A k \in 1..n : FirstNaming(all, k) => k = i
    BY DEF FirstNaming
  <2>2. (CHOOSE k \in DOMAIN all : FirstNaming(all, k)) = i
    BY <2>1
  <2>3. \E k \in DOMAIN all : Names(all[k])
    BY DEF FirstNaming
  <2>4. all[i].kind = "weekly_scoped"
    BY DEF Listed
  <2> QED BY <2>2, <2>3, <2>4 DEF Binding, WindowNamed
<1> DEFINE Same == {k \in 1..n : Listed(all[k]) /\ ScopedSlug(all[k]) = ScopedSlug(all[i])}
<1>2. PICK j \in Same : \A k \in Same : j <= k
  <2>1. Same \in SUBSET Nat /\ i \in Same
    OBVIOUS
  <2> HIDE DEF Same
  <2> QED BY <2>1, LeastElement
<1>3. \A k \in 1..(j - 1) : Listed(all[k]) => ScopedSlug(all[k]) # ScopedSlug(all[j])
  BY <1>2
<1> DEFINE model == ModelRow(ScopedSlug(all[j]), InversePercent(all[j].percent))
<1>4. model \in ScopedModels(all)
  BY <1>2, <1>3 DEF ScopedModels
<1>5. model.id = Slug(all[i])
  BY <1>2 DEF ModelRow, ScopedSlug
<1> QED BY <1>1, <1>4, <1>5

\* The id of the binding window is the id of a row that is listed, although two functions
\* with different conditions derive them from limits[].
THEOREM BindingListed == QuotaSpec => []BindingIsListed
<1>1. QuotaInit => LimitsInv
  BY DEF QuotaInit, LimitsInv
<1>2. LimitsInv /\ [QuotaNext]_quotaVars => LimitsInv'
  <2> SUFFICES ASSUME LimitsInv, [QuotaNext]_quotaVars PROVE LimitsInv'
    OBVIOUS
  <2>1. CASE \E p \in Provider, indexed, complete \in BOOLEAN : Read(p, indexed, complete)
    BY <2>1 DEF Read, LimitsInv
  <2>2. CASE \E cause \in Cause : EndpointFails(cause)
    BY <2>2 DEF EndpointFails, Asking, LimitsInv
  <2>3. CASE CodexAnswers \/ GeminiAnswers \/ CopilotAnswers \/ OpenCodeGoAnswers \/ AntigravityAnswers
    BY <2>3 DEF CodexAnswers, GeminiAnswers, CopilotAnswers, OpenCodeGoAnswers, WindowsAnswer,
                AntigravityAnswers, Asking, LimitsInv
  <2>4. CASE ClaudeAnswers
    <3>1. PICK all, windows :
            /\ all \in BoundedSeq(Limit, MaxLimits) /\ limits' = all
            /\ Answer(StatusFromClaude(windows, ScopedModels(all)), windows, ScopedModels(all),
                      Binding(all))
      BY <2>4 DEF ClaudeAnswers
    <3>2. \E n \in Nat : all \in [1..n -> Limit]
      <4>1. all \in UNION {[1..m -> Limit] : m \in 0..MaxLimits}
        BY <3>1, Zenon DEF BoundedSeq, SeqOf
      <4>2. PICK m \in 0..MaxLimits : all \in [1..m -> Limit]
        BY <4>1, Zenon
      <4>3. m \in Nat
        <5>1. MaxLimits \in Nat
          BY QuotaReportAssumption, Zenon
        <5> QED BY <4>2, <5>1
      <4> QED BY <4>2, <4>3, Zenon
    <3>3. quota'.status # "unread"
      BY <3>1 DEF Answer, StatusFromClaude
    <3>4. quota'.models = ScopedModels(all) /\ quota'.binding = Binding(all)
      BY <3>1 DEF Answer
    <3> QED BY <3>1, <3>2, <3>3, <3>4 DEF LimitsInv, ScopedModels, Binding
  <2>5. CASE ReadNext \/ UNCHANGED quotaVars
    BY <2>5 DEF ReadNext, quotaVars, LimitsInv, ScopedModels, Binding
  <2> QED BY <2>1, <2>2, <2>3, <2>4, <2>5 DEF QuotaNext
<1>3. LimitsInv => BindingIsListed
  <2> SUFFICES ASSUME LimitsInv, NEW i \in DOMAIN limits, FirstNaming(limits, i), Listed(limits[i])
               PROVE  \E model \in quota.models : model.id = quota.binding
    BY DEF BindingIsListed
  <2>1. limits # <<>>
    OBVIOUS
  <2>2. PICK n \in Nat : limits \in [1..n -> Limit]
    BY <2>1 DEF LimitsInv
  <2>3. \E model \in ScopedModels(limits) : model.id = Binding(limits)
    BY <2>2, BindingHasRow
  <2> QED BY <2>1, <2>3 DEF LimitsInv
<1> QED BY <1>1, <1>2, <1>3, PTL DEF QuotaSpec

-----------------------------------------------------------------------------
(* SessionReport *)

CapturedRow == [number : Nat, session : Session, at : Int, read : Nat, created : Nat]

\* Rows are numbered apart, and fewer than were inserted.
StoredInv ==
  /\ tick \in Nat /\ inserted \in Nat /\ IsFiniteSet(stored) /\ stored \subseteq CapturedRow
  /\ \A q \in stored : q.number < inserted
  /\ \A q, r \in stored : q.number = r.number => q = r

LEMMA StoredStep ==
  ASSUME StoredInv, [SessionNext]_sessionVars
  PROVE  StoredInv'
<1>1. CASE StoreRow
  <2>1. PICK s \in Session, at \in {tick - 1, tick}, tokens \in Tokens :
          stored' = stored \cup {[number |-> inserted, session |-> s, at |-> at,
                                  read |-> tokens.read, created |-> tokens.created]}
    BY <1>1 DEF StoreRow
  <2> DEFINE fresh == [number |-> inserted, session |-> s, at |-> at,
                     read |-> tokens.read, created |-> tokens.created]
  <2>2. tokens.read \in Nat /\ tokens.created \in Nat /\ at \in Int
    BY SessionReportAssumption DEF StoredInv
  <2>3. fresh \in CapturedRow /\ fresh.number = inserted
    BY <2>2 DEF CapturedRow, StoredInv
  <2>4. IsFiniteSet(stored') /\ stored' = stored \cup {fresh}
    BY <2>1, FS_AddElement DEF StoredInv
  <2>5. tick' = tick /\ inserted' = inserted + 1
    BY <1>1 DEF StoreRow
  <2> HIDE DEF fresh
  <2>6. \A q \in stored' : q.number < inserted'
    BY <2>3, <2>4, <2>5 DEF StoredInv, CapturedRow
  <2>7. \A q, r \in stored' : q.number = r.number => q = r
    BY <2>3, <2>4 DEF StoredInv, CapturedRow
  <2> QED BY <2>3, <2>4, <2>5, <2>6, <2>7 DEF StoredInv
<1>2. CASE PruneRows
  <2>1. stored' \subseteq stored /\ tick' = tick /\ inserted' = inserted
    BY <1>2 DEF PruneRows
  <2>2. IsFiniteSet(stored')
    BY <2>1, FS_Subset DEF StoredInv
  <2> QED BY <2>1, <2>2 DEF StoredInv
<1>3. CASE NextTick \/ UNCHANGED sessionVars
  BY <1>3 DEF NextTick, sessionVars, StoredInv
<1> QED BY <1>1, <1>2, <1>3 DEF SessionNext

THEOREM StoredInvariant == SessionSpec => []StoredInv
<1>1. SessionInit => StoredInv
  BY FS_EmptySet DEF SessionInit, StoredInv
<1>2. StoredInv /\ [SessionNext]_sessionVars => StoredInv'
  BY StoredStep
<1> QED BY <1>1, <1>2, PTL DEF SessionSpec

\* Pruning keeps every row that comes after one it keeps, when the rows are in the order
\* of their times.
LEMMA KeepsTheEnd ==
  ASSUME StoredInv, InOrder, PruneRows, NEW r \in stored', NEW q \in stored, q.number > r.number
  PROVE  q \in stored'
<1> DEFINE young == {p \in stored : NotBefore(p.at, tick - RowAge)}
<1>1. stored' = {p \in young : Cardinality(Later(young, p)) < RowLimit}
  BY DEF PruneRows
<1>2. r \in young /\ r \in CapturedRow /\ q \in CapturedRow /\ tick \in Nat /\ RowAge \in Nat
  BY <1>1, SessionReportAssumption DEF StoredInv
<1>3. q \in young
  <2>1. r.at <= q.at
    BY <1>2 DEF InOrder, CapturedRow
  <2> QED BY <1>2, <2>1 DEF NotBefore, CapturedRow
<1>4. Later(young, q) \subseteq Later(young, r)
  BY <1>2 DEF Later, StoredInv, CapturedRow
<1>5. IsFiniteSet(Later(young, r))
  <2>1. Later(young, r) \subseteq stored
    BY DEF Later
  <2> QED BY <2>1, FS_Subset DEF StoredInv
<1>6. /\ Cardinality(Later(young, q)) <= Cardinality(Later(young, r))
      /\ Cardinality(Later(young, q)) \in Nat /\ Cardinality(Later(young, r)) \in Nat
  <2> HIDE DEF young
  <2> QED BY <1>4, <1>5, FS_Subset, FS_CardinalityType
<1>7. Cardinality(Later(young, q)) < RowLimit
  <2>1. Cardinality(Later(young, r)) < RowLimit
    BY <1>1
  <2> HIDE DEF young
  <2> QED BY <1>6, <2>1, SessionReportAssumption
<1> QED BY <1>1, <1>3, <1>7

\* The row before one is the one with the largest number.
LEMMA PreviousIs ==
  ASSUME NEW rows, NEW r, NEW p \in Earlier(rows, r), rows \subseteq CapturedRow,
         \A q \in Earlier(rows, r) : q.number <= p.number,
         \A q1, q2 \in rows : q1.number = q2.number => q1 = q2
  PROVE  Previous(rows, r) = p
<1>1. \A p2 \in Earlier(rows, r) :
        (\A q \in Earlier(rows, r) : q.number <= p2.number) => p2 = p
  BY DEF Earlier, CapturedRow
<1> QED BY <1>1 DEF Previous

\* A set of rows that is not empty has a last one.
LEMMA LastRow ==
  ASSUME NEW rows, rows \subseteq CapturedRow, rows # {},
         \A q \in rows : q.number < inserted, inserted \in Nat
  PROVE  \E p \in rows : \A q \in rows : q.number <= p.number
<1> DEFINE Gap == {inserted - q.number : q \in rows}
<1>1. Gap \in SUBSET Nat /\ Gap # {}
  BY DEF CapturedRow
<1>2. PICK m \in Gap : \A n \in Gap : m <= n
  <2> HIDE DEF Gap
  <2> QED BY <1>1, LeastElement
<1>3. PICK p \in rows : m = inserted - p.number
  OBVIOUS
<1>4. ASSUME NEW q \in rows PROVE q.number <= p.number
  <2>1. m <= inserted - q.number
    BY <1>2
  <2>2. p.number \in Nat /\ q.number \in Nat
    BY DEF CapturedRow
  <2> QED BY <1>3, <2>1, <2>2
<1> QED BY <1>4

\* A request that still has one before it after pruning is classified as it was.
LEMMA SameClass ==
  ASSUME StoredInv, InOrder, PruneRows, NEW s \in Session, NEW r \in SessionRequests(s)',
         Earlier(SessionRequests(s)', r) # {}
  PROVE  /\ r \in SessionRequests(s)
         /\ Classification(SessionRequests(s)', r) = Classification(SessionRequests(s), r)
<1> DEFINE old == SessionRequests(s)
           new == SessionRequests(s)'
<1>1. stored' \subseteq stored
  BY DEF PruneRows
<1>2. /\ new \subseteq old /\ old \subseteq stored /\ stored \subseteq CapturedRow
      /\ new = {q \in stored' : q.session = s} /\ old = {q \in stored : q.session = s}
  BY <1>1 DEF SessionRequests, StoredInv
<1>3. PICK p \in Earlier(new, r) : \A q \in Earlier(new, r) : q.number <= p.number
  <2>1. /\ Earlier(new, r) \subseteq CapturedRow /\ Earlier(new, r) # {} /\ inserted \in Nat
        /\ \A q \in Earlier(new, r) : q.number < inserted
    BY <1>2 DEF Earlier, StoredInv
  <2> HIDE DEF new
  <2> QED BY <2>1, LastRow
<1>4. p \in new /\ p \in stored' /\ p.number < r.number
  BY <1>2, <1>3 DEF Earlier
<1>5. p \in Earlier(old, r) /\ Earlier(new, r) # {} /\ Earlier(old, r) # {}
  BY <1>2, <1>4 DEF Earlier
<1>6. \A q \in Earlier(old, r) : q.number <= p.number
  <2> SUFFICES ASSUME NEW q \in Earlier(old, r), ~(q.number <= p.number) PROVE FALSE
    OBVIOUS
  <2>1. q \in stored /\ q.session = s /\ q.number < r.number /\ q.number > p.number
    BY <1>2, <1>4 DEF Earlier, CapturedRow
  <2>2. q \in stored'
    BY <1>4, <2>1, KeepsTheEnd
  <2>3. q \in Earlier(new, r)
    BY <1>2, <2>1, <2>2 DEF Earlier
  <2> QED BY <1>3, <2>3
<1>7. Previous(old, r) = p
  <2>1. \A q1, q2 \in old : q1.number = q2.number => q1 = q2
    BY <1>2 DEF StoredInv
  <2> HIDE DEF old
  <2> QED BY <1>2, <1>5, <1>6, <2>1, PreviousIs
<1>8. Previous(new, r) = p
  <2>1. \A q1, q2 \in new : q1.number = q2.number => q1 = q2
    BY <1>2 DEF StoredInv
  <2>2. new \subseteq CapturedRow
    BY <1>2
  <2> HIDE DEF new
  <2> QED BY <1>3, <2>1, <2>2, PreviousIs
<1>9. r \in old
  BY <1>2
<1> QED BY <1>5, <1>7, <1>8, <1>9 DEF Classification

\* Retention never turns a hit into a miss or a miss into a hit, for any sessions, tokens,
\* limits and any rows, as long as they are stored in the order of their times.
THEOREM CutsTheBeginning == SessionSpec => PruningOnlyNeutralises
<1>1. ASSUME StoredInv, [SessionNext]_sessionVars, InOrder, tick' = tick, inserted' = inserted,
             NEW s \in Session, NEW c \in Classes(s)'
      PROVE  c \in Classes(s) \/ c.class = "neutral"
  <2>1. PruneRows \/ UNCHANGED sessionVars
    BY <1>1 DEF SessionNext, StoreRow, NextTick, StoredInv
  <2>2. CASE UNCHANGED sessionVars
    BY <2>2 DEF sessionVars, Classes, SessionRequests
  <2>3. CASE PruneRows
    <3>1. PICK r \in SessionRequests(s)' :
            c = [number |-> r.number, class |-> Classification(SessionRequests(s)', r)]
      BY DEF Classes
    <3>2. CASE Earlier(SessionRequests(s)', r) = {}
      BY <3>1, <3>2 DEF Classification
    <3>3. CASE Earlier(SessionRequests(s)', r) # {}
      BY <1>1, <2>3, <3>1, <3>3, SameClass DEF Classes
    <3> QED BY <3>2, <3>3
  <2> QED BY <2>1, <2>2, <2>3
<1>2. StoredInv /\ [SessionNext]_sessionVars =>
        [InOrder /\ tick' = tick /\ inserted' = inserted =>
           \A s \in Session : \A c \in Classes(s)' :
             c \in Classes(s) \/ c.class = "neutral"]_sessionVars
  BY <1>1
<1> QED BY <1>2, StoredInvariant, PTL DEF SessionSpec, PruningOnlyNeutralises

-----------------------------------------------------------------------------
(* PageWalk *)

TableRow == [id : Nat \ {0}, number : Nat, match : BOOLEAN]
ReaderShape == [kind : {"none", "ids", "indices"}, limit : Nat, cursor : Nat, done : BOOLEAN,
                moved : BOOLEAN]

TableOK ==
  /\ born \in 0..MaxRows /\ IsFiniteSet(table) /\ table \subseteq TableRow
  /\ \A r \in table : r.id <= born /\ r.number < born
  /\ \A q, r \in table : q.id = r.id \/ q.number = r.number => q = r

ReaderOK ==
  /\ reader \in ReaderShape /\ list \subseteq 1..MaxRows
  /\ ~reader.done => reader.limit # 0

\* A walk by ids has returned no row below its cursor, and what stayed and was not
\* returned yet is below it.
IdsOK ==
  reader.kind = "ids" =>
    /\ again = {} /\ \A n \in read : n \in Nat /\ n < born
    /\ reader.done => stayed \subseteq read
    /\ ~reader.done =>
         /\ \A n \in stayed : n \in read \/ \E r \in RowsBefore(reader.cursor) : r.number = n
         /\ \A r \in table : r.number \in read => reader.cursor # 0 /\ r.id >= reader.cursor

\* A walk by indices has returned what lies below its cursor.
IndicesOK ==
  reader.kind = "indices" /\ ~reader.moved =>
    /\ again = {}
    /\ reader.done => read = list
    /\ ~reader.done => read = {a \in list : Index(a) < reader.cursor}

WalkInv == TableOK /\ ReaderOK /\ IdsOK /\ IndicesOK

\* The id given to a new row is larger than all, and at most the number of rows so far.
LEMMA FreeIdIsFree ==
  ASSUME TableOK
  PROVE  /\ FreeId \in Nat \ {0} /\ FreeId <= born + 1
         /\ \A r \in table : r.id < FreeId
<1> DEFINE Over == {n \in 1..(born + 1) : \A r \in table : r.id < n}
           IsFree(n) == /\ \A r \in table : r.id < n
                        /\ n = 1 \/ \E r \in table : r.id = n - 1
<1>0. born \in Nat /\ MaxRows \in Nat /\ born <= MaxRows
  BY PageWalkAssumption DEF TableOK
<1>1. born + 1 \in Over /\ Over \in SUBSET Nat
  BY <1>0 DEF TableOK, TableRow
<1>2. PICK m \in Over : \A n \in Over : m <= n
  <2> HIDE DEF Over
  <2> QED BY <1>1, LeastElement
<1>3. IsFree(m)
  <2>1. CASE m = 1
    BY <1>2, <2>1
  <2>2. CASE m # 1
    <3>1. m - 1 \in 1..(born + 1) /\ m - 1 \notin Over
      BY <1>0, <1>2, <2>2
    <3>2. PICK r \in table : ~(r.id < m - 1)
      BY <3>1
    <3> QED BY <1>2, <3>2 DEF TableOK, TableRow
  <2> QED BY <2>1, <2>2
<1>4. m \in 1..(MaxRows + 1)
  BY <1>0, <1>2
<1>5. IsFree(FreeId) /\ FreeId \in 1..(MaxRows + 1)
  <2>1. FreeId = CHOOSE n \in 1..(MaxRows + 1) : IsFree(n)
    BY DEF FreeId
  <2> HIDE DEF IsFree
  <2> QED BY <1>3, <1>4, <2>1
<1>6. FreeId <= born + 1
  <2>1. CASE FreeId = 1
    BY <1>0, <2>1
  <2>2. CASE FreeId # 1
    <3>1. PICK r \in table : r.id = FreeId - 1
      BY <1>5, <2>2
    <3> QED BY <1>0, <1>5, <3>1 DEF TableOK, TableRow
  <2> QED BY <2>1, <2>2
<1> QED BY <1>5, <1>6

\* The rows of a page, as ORDER BY id DESC LIMIT returns them: they lie above all others,
\* and there are no others when the rows do not exceed the limit.
LEMMA PageFacts ==
  ASSUME NEW rows, rows \subseteq TableRow, IsFiniteSet(rows), NEW limit \in Nat \ {0}
  PROVE  /\ FirstRows(rows, limit) \subseteq rows
         /\ \A p \in FirstRows(rows, limit) : \A r \in rows \ FirstRows(rows, limit) : r.id < p.id
         /\ ~(Cardinality(rows) > limit) => FirstRows(rows, limit) = rows
<1> DEFINE Above(r) == {q \in rows : q.id > r.id}
<1>1. \A r \in rows : IsFiniteSet(Above(r)) /\ Cardinality(Above(r)) \in Nat
  <2> SUFFICES ASSUME NEW r \in rows PROVE IsFiniteSet(Above(r)) /\ Cardinality(Above(r)) \in Nat
    OBVIOUS
  <2>1. Above(r) \subseteq rows
    OBVIOUS
  <2> HIDE DEF Above
  <2> QED BY <2>1, FS_Subset, FS_CardinalityType
<1>2. FirstRows(rows, limit) = {r \in rows : Cardinality(Above(r)) < limit}
  BY DEF FirstRows
<1>3. ASSUME NEW p \in FirstRows(rows, limit), NEW r \in rows \ FirstRows(rows, limit)
      PROVE  r.id < p.id
  <2> SUFFICES ASSUME ~(r.id < p.id) PROVE FALSE
    OBVIOUS
  <2>1. p \in rows /\ Cardinality(Above(p)) < limit /\ ~(Cardinality(Above(r)) < limit)
    BY <1>2
  <2>2. Above(r) \subseteq Above(p)
    BY <2>1 DEF TableRow
  <2>3. Cardinality(Above(r)) <= Cardinality(Above(p))
    <3> HIDE DEF Above
    <3> QED BY <1>1, <2>1, <2>2, FS_Subset
  <2> HIDE DEF Above
  <2> QED BY <1>1, <2>1, <2>3
<1>4. ASSUME ~(Cardinality(rows) > limit), NEW r \in rows PROVE Cardinality(Above(r)) < limit
  <2>1. IsFiniteSet(rows \ {r}) /\ Cardinality(rows \ {r}) = Cardinality(rows) - 1
    BY FS_RemoveElement
  <2>2. Above(r) \subseteq rows \ {r}
    BY DEF TableRow
  <2>3. Cardinality(Above(r)) <= Cardinality(rows \ {r}) /\ Cardinality(rows) \in Nat
    <3> HIDE DEF Above
    <3> QED BY <2>1, <2>2, FS_Subset, FS_CardinalityType
  <2> HIDE DEF Above
  <2> QED BY <1>1, <1>4, <2>1, <2>3
<1> QED BY <1>2, <1>3, <1>4

\* When rows exceed the limit, the next cursor is the smallest id of the page.
LEMMA CursorFacts ==
  ASSUME NEW rows, rows \subseteq TableRow, IsFiniteSet(rows), NEW limit \in Nat \ {0},
         Cardinality(rows) > limit, \A r \in rows : r.id <= born, born \in Nat
  PROVE  /\ NextCursor(rows, limit) \in Nat \ {0}
         /\ \A p \in FirstRows(rows, limit) : NextCursor(rows, limit) <= p.id
         /\ \E p \in FirstRows(rows, limit) : p.id = NextCursor(rows, limit)
         /\ \A r \in rows \ FirstRows(rows, limit) : r.id < NextCursor(rows, limit)
<1> DEFINE ids == {r.id : r \in FirstRows(rows, limit)}
           Gap == {born - r.id : r \in rows}
<1>1. rows # {}
  BY FS_EmptySet
<1>2. Gap \in SUBSET Nat /\ Gap # {}
  BY <1>1 DEF TableRow
<1>3. PICK g \in Gap : \A n \in Gap : g <= n
  <2> HIDE DEF Gap
  <2> QED BY <1>2, LeastElement
<1>4. PICK p \in rows : g = born - p.id
  OBVIOUS
<1>5. {q \in rows : q.id > p.id} = {}
  <2> SUFFICES ASSUME NEW q \in rows, q.id > p.id PROVE FALSE
    OBVIOUS
  <2>1. g <= born - q.id
    BY <1>3
  <2> QED BY <1>4, <2>1 DEF TableRow
<1>6. p \in FirstRows(rows, limit)
  BY <1>5, FS_EmptySet DEF FirstRows
<1>7. ids \in SUBSET Nat /\ ids # {}
  BY <1>6, PageFacts DEF TableRow
<1>8. PICK m \in ids : \A n \in ids : m <= n
  <2> HIDE DEF ids
  <2> QED BY <1>7, LeastElement
<1>9. NextCursor(rows, limit) \in ids /\ \A n \in ids : NextCursor(rows, limit) <= n
  <2>1. NextCursor(rows, limit) = CHOOSE n \in ids : \A k \in ids : n <= k
    BY DEF NextCursor, Smallest
  <2> HIDE DEF ids
  <2> QED BY <1>8, <2>1
<1> QED BY <1>9, PageFacts DEF TableRow

\* Accounts are counted from zero.
LEMMA IndexFacts ==
  ASSUME ReaderOK
  PROVE  /\ Cardinality(list) \in Nat
         /\ \A a \in list : Index(a) \in Nat /\ Index(a) < Cardinality(list)
<1>1. IsFiniteSet(list) /\ list \subseteq Nat
  <2>1. MaxRows \in Nat
    BY PageWalkAssumption
  <2>2. IsFiniteSet(1..MaxRows)
    BY <2>1, FS_Interval
  <2>3. list \subseteq 1..MaxRows
    BY DEF ReaderOK
  <2>4. IsFiniteSet(list)
    BY <2>2, <2>3, FS_Subset
  <2>5. list \subseteq Nat
    BY <2>1, <2>3
  <2> QED BY <2>4, <2>5
<1>2. Cardinality(list) \in Nat
  BY <1>1, FS_CardinalityType
<1>3. ASSUME NEW a \in list PROVE Index(a) \in Nat /\ Index(a) < Cardinality(list)
  <2> DEFINE before == {b \in list : b < a}
  <2>1. IsFiniteSet(list \ {a}) /\ Cardinality(list \ {a}) = Cardinality(list) - 1
    BY <1>1, FS_RemoveElement
  <2>2. before \subseteq list \ {a}
    BY <1>1
  <2>3. /\ Cardinality(before) \in Nat /\ Cardinality(list \ {a}) \in Nat
        /\ Cardinality(before) <= Cardinality(list \ {a})
    <3> HIDE DEF before
    <3> QED BY <2>1, <2>2, FS_Subset, FS_CardinalityType
  <2>4. Index(a) = Cardinality(before)
    BY DEF Index
  <2> QED BY <1>2, <2>1, <2>3, <2>4
<1> QED BY <1>2, <1>3

-----------------------------------------------------------------------------
LEMMA InsertWalk ==
  ASSUME WalkInv, InsertRow
  PROVE  WalkInv'
<1>1. PICK match \in BOOLEAN : table' = table \cup {[id |-> FreeId, number |-> born, match |-> match]}
  BY DEF InsertRow
<1> DEFINE fresh == [id |-> FreeId, number |-> born, match |-> match]
<1>2. /\ born \in Nat /\ born' = born + 1 /\ born' \in 0..MaxRows
      /\ UNCHANGED <<list, reader, read, again, stayed>>
  BY PageWalkAssumption DEF InsertRow, WalkInv, TableOK
<1>3. FreeId \in Nat \ {0} /\ FreeId <= born + 1 /\ \A r \in table : r.id < FreeId
  BY FreeIdIsFree DEF WalkInv
<1>4. fresh \in TableRow /\ fresh.id = FreeId /\ fresh.number = born
  BY <1>2, <1>3 DEF TableRow
<1>5. table' = table \cup {fresh} /\ IsFiniteSet(table')
  BY <1>1, FS_AddElement DEF WalkInv, TableOK
<1> HIDE DEF fresh
<1>6. TableOK'
  BY <1>2, <1>3, <1>4, <1>5 DEF WalkInv, TableOK, TableRow
<1>7. ReaderOK' /\ IndicesOK'
  BY <1>2 DEF WalkInv, ReaderOK, IndicesOK, Index
<1>8. IdsOK'
  <2>1. RowsBefore(reader.cursor) \subseteq RowsBefore(reader.cursor)'
    BY <1>2, <1>5 DEF RowsBefore
  <2>2. reader.kind = "ids" => \A n \in read : n # born /\ n < born'
    BY <1>2 DEF WalkInv, IdsOK
  <2> QED BY <1>2, <1>4, <1>5, <2>1, <2>2 DEF WalkInv, IdsOK
<1> QED BY <1>6, <1>7, <1>8 DEF WalkInv

\* A row goes, or leaves or enters the filter: in either case it did not stay.
LEMMA ChangeWalk ==
  ASSUME WalkInv, PruneRow \/ UpdateRow
  PROVE  WalkInv'
<1>1. PICK r \in table :
        /\ \/ table' = table \ {r}
           \/ table' = (table \ {r}) \cup {[r EXCEPT !.match = ~r.match]}
        /\ stayed' = stayed \ {r.number}
  BY DEF PruneRow, UpdateRow
<1>2. UNCHANGED <<born, list, reader, read, again>>
  BY DEF PruneRow, UpdateRow
<1> DEFINE u == [r EXCEPT !.match = ~r.match]
<1>3. r \in TableRow
  BY DEF WalkInv, TableOK
<1>4. u \in TableRow /\ u.id = r.id /\ u.number = r.number
  <2>1. (~r.match) \in BOOLEAN
    BY Zenon
  <2> QED BY <1>3, <2>1 DEF TableRow
<1>5. (table \ {r}) \subseteq table' /\ table' \subseteq (table \ {r}) \cup {u}
  BY <1>1
<1>6. IsFiniteSet(table')
  <2>1. IsFiniteSet((table \ {r}) \cup {u})
    <3> HIDE DEF u
    <3> QED BY FS_AddElement, FS_RemoveElement DEF WalkInv, TableOK
  <2> HIDE DEF u
  <2> QED BY <1>5, <2>1, FS_Subset
<1> HIDE DEF u
<1>7. TableOK'
  BY <1>2, <1>4, <1>5, <1>6 DEF WalkInv, TableOK
<1>8. ReaderOK' /\ IndicesOK'
  BY <1>2 DEF WalkInv, ReaderOK, IndicesOK, Index
<1>9. IdsOK'
  <2>1. \A q \in RowsBefore(reader.cursor) : q.number # r.number => q \in RowsBefore(reader.cursor)'
    BY <1>2, <1>5 DEF RowsBefore
  <2>2. \A n \in stayed' : n \in stayed /\ n # r.number
    BY <1>1
  <2>3. \A q \in table' : \E t \in table : q.number = t.number /\ q.id = t.id
    BY <1>4, <1>5
  <2> QED BY <1>2, <2>1, <2>2, <2>3 DEF WalkInv, IdsOK
<1> QED BY <1>7, <1>8, <1>9 DEF WalkInv

LEMMA RefreshWalk ==
  ASSUME WalkInv, RefreshList
  PROVE  WalkInv'
<1>1. /\ UNCHANGED <<table, born, read, again, stayed>> /\ list' \subseteq 1..MaxRows
      /\ reader' = [reader EXCEPT !.moved = reader.kind = "indices"]
  BY DEF RefreshList
<1>2. /\ reader' \in ReaderShape /\ reader'.kind = reader.kind /\ reader'.cursor = reader.cursor
      /\ reader'.limit = reader.limit /\ (reader'.done <=> reader.done)
      /\ reader.kind = "indices" => reader'.moved
  <2>1. reader \in ReaderShape /\ (reader.kind = "indices") \in BOOLEAN
    BY Zenon DEF WalkInv, ReaderOK
  <2> QED BY <1>1, <2>1 DEF ReaderShape
<1>3. TableOK' /\ ReaderOK' /\ IndicesOK'
  BY <1>1, <1>2 DEF WalkInv, TableOK, ReaderOK, IndicesOK
<1>4. IdsOK'
  BY <1>1, <1>2 DEF WalkInv, IdsOK, RowsBefore
<1> QED BY <1>3, <1>4 DEF WalkInv

LEMMA StartsWalk ==
  ASSUME WalkInv, NEW kind \in {"ids", "indices"}, NEW limit \in PageLimits, StartWalk(kind, limit)
  PROVE  WalkInv'
<1>1. /\ UNCHANGED <<table, born, list>> /\ read' = {} /\ again' = {}
      /\ reader' = [kind |-> kind, limit |-> limit, cursor |-> 0, done |-> FALSE, moved |-> FALSE]
      /\ stayed' = IF kind = "ids" THEN {r.number : r \in {q \in table : q.match}} ELSE {}
  BY DEF StartWalk
<1>2. /\ reader' \in ReaderShape /\ reader'.limit # 0 /\ reader'.cursor = 0 /\ ~reader'.done
      /\ reader'.kind = kind
  BY <1>1, PageWalkAssumption DEF ReaderShape
<1>3. TableOK' /\ ReaderOK'
  BY <1>1, <1>2 DEF WalkInv, TableOK, ReaderOK
<1>4. IdsOK'
  <2>1. kind = "ids" => \A n \in stayed' : \E r \in RowsBefore(0)' : r.number = n
    BY <1>1 DEF RowsBefore
  <2> QED BY <1>1, <1>2, <2>1 DEF IdsOK
<1>5. IndicesOK'
  <2>1. \A a \in list' : Index(a)' \in Nat
    BY <1>1, IndexFacts DEF WalkInv, Index
  <2>2. {a \in list' : Index(a)' < 0} = {}
    BY <2>1
  <2> QED BY <1>1, <1>2, <2>2 DEF IndicesOK
<1> QED BY <1>3, <1>4, <1>5 DEF WalkInv

LEMMA RowPageWalk ==
  ASSUME WalkInv, RowPage
  PROVE  WalkInv'
<1> DEFINE rows == RowsBefore(reader.cursor)
           page == FirstRows(rows, reader.limit)
<1>1. /\ reader.kind = "ids" /\ ~reader.done /\ UNCHANGED <<table, born, list, stayed>>
      /\ read' = read \cup {r.number : r \in page}
      /\ again' = again \cup (read \cap {r.number : r \in page})
      /\ reader' = IF Cardinality(rows) > reader.limit
                   THEN [reader EXCEPT !.cursor = NextCursor(rows, reader.limit)]
                   ELSE [reader EXCEPT !.done = TRUE]
  BY DEF RowPage, HandOut
<1>2. /\ rows \subseteq table /\ table \subseteq TableRow /\ IsFiniteSet(rows)
      /\ reader \in ReaderShape /\ reader.limit \in Nat \ {0} /\ reader.cursor \in Nat
      /\ born \in Nat /\ \A r \in table : r.id <= born /\ r.number < born
      /\ \A q, r \in table : q.number = r.number => q = r
  <2>1. rows \subseteq table
    BY DEF RowsBefore
  <2>2. reader \in ReaderShape /\ reader.limit # 0
    BY <1>1 DEF WalkInv, ReaderOK
  <2>3. reader.limit \in Nat /\ reader.cursor \in Nat
    BY <2>2 DEF ReaderShape
  <2> QED BY <2>1, <2>2, <2>3, FS_Subset, PageWalkAssumption DEF WalkInv, TableOK
<1>3. /\ page \subseteq rows
      /\ \A p \in page : \A r \in rows \ page : r.id < p.id
      /\ ~(Cardinality(rows) > reader.limit) => page = rows
  <2> HIDE DEF rows
  <2>1. rows \subseteq TableRow /\ IsFiniteSet(rows) /\ reader.limit \in Nat \ {0}
    BY <1>2
  <2> QED BY <2>1, PageFacts
<1>4. /\ again = {} /\ \A n \in read : n \in Nat /\ n < born
      /\ \A n \in stayed : n \in read \/ \E r \in rows : r.number = n
      /\ \A r \in table : r.number \in read => reader.cursor # 0 /\ r.id >= reader.cursor
  BY <1>1 DEF WalkInv, IdsOK
<1>5. again' = {}
  <2>1. \A r \in page : r.number \notin read
    <3>1. \A r \in rows : reader.cursor = 0 \/ r.id < reader.cursor
      BY DEF RowsBefore
    <3> HIDE DEF rows, page
    <3> QED BY <1>2, <1>3, <1>4, <3>1 DEF TableRow
  <2> QED BY <1>1, <1>4, <2>1
<1>6. \A n \in read' : n \in Nat /\ n < born
  BY <1>1, <1>2, <1>3, <1>4 DEF TableRow
<1>7. TableOK'
  BY <1>1 DEF WalkInv, TableOK
<1>8. CASE ~(Cardinality(rows) > reader.limit)
  <2>1. /\ reader' \in ReaderShape /\ reader'.done /\ reader'.kind = "ids"
    <3>1. reader' = [reader EXCEPT !.done = TRUE] /\ TRUE \in BOOLEAN
      BY <1>1, <1>8, Zenon
    <3> QED BY <1>1, <1>2, <3>1 DEF ReaderShape
  <2>2. stayed' \subseteq read'
    BY <1>1, <1>3, <1>4, <1>8
  <2>3. IdsOK'
    BY <1>1, <1>5, <1>6, <2>1, <2>2 DEF IdsOK
  <2>4. ReaderOK' /\ IndicesOK'
    BY <1>1, <2>1 DEF WalkInv, ReaderOK, IndicesOK
  <2> QED BY <1>7, <2>3, <2>4 DEF WalkInv
<1>9. CASE Cardinality(rows) > reader.limit
  <2> DEFINE next == NextCursor(rows, reader.limit)
  <2>1. /\ next \in Nat \ {0} /\ \A p \in page : next <= p.id
        /\ \E p \in page : p.id = next
        /\ \A r \in rows \ page : r.id < next
    <3>1. /\ \A r \in rows : r.id <= born
          /\ rows \subseteq TableRow /\ IsFiniteSet(rows) /\ reader.limit \in Nat \ {0}
          /\ born \in Nat /\ Cardinality(rows) > reader.limit
      BY <1>2, <1>9
    <3> HIDE DEF rows
    <3> QED BY <3>1, CursorFacts
  <2>2. reader' = [reader EXCEPT !.cursor = next]
    BY <1>1, <1>9
  <2> HIDE DEF next
  <2>3. /\ reader' \in ReaderShape /\ reader'.kind = "ids" /\ reader'.cursor = next
        /\ (reader'.done <=> reader.done) /\ reader'.limit = reader.limit
    BY <1>1, <1>2, <2>1, <2>2 DEF ReaderShape
  <2>4. \A n \in stayed : n \in read' \/ \E r \in RowsBefore(reader.cursor)' : r.number = n
    <3> SUFFICES ASSUME NEW n \in stayed, n \notin read'
                 PROVE  \E r \in RowsBefore(reader.cursor)' : r.number = n
      OBVIOUS
    <3>1. PICK r \in rows : r.number = n
      BY <1>1, <1>4
    <3>2. r \in rows \ page
      BY <1>1, <3>1
    <3>3. r.match /\ r \in table /\ r.id < next
      BY <1>2, <2>1, <3>2 DEF RowsBefore
    <3>4. r \in RowsBefore(reader.cursor)'
      BY <1>1, <2>3, <3>3 DEF RowsBefore
    <3> QED BY <3>1, <3>4
  <2>5. \A r \in table : r.number \in read' => next # 0 /\ r.id >= next
    <3> SUFFICES ASSUME NEW r \in table, r.number \in read' PROVE r.id >= next
      BY <2>1
    <3>1. CASE r.number \in read
      <4>1. reader.cursor # 0 /\ r.id >= reader.cursor
        BY <1>4, <3>1
      <4>2. PICK p \in page : p.id = next
        BY <2>1
      <4>3. next < reader.cursor
        <5>1. p \in rows
          BY <1>3
        <5> QED BY <4>1, <4>2, <5>1 DEF RowsBefore
      <4> QED BY <1>2, <2>1, <4>1, <4>3 DEF TableRow
    <3>2. CASE \E p \in page : p.number = r.number
      <4>1. PICK p \in page : p.number = r.number
        BY <3>2
      <4>2. p = r
        BY <1>2, <1>3, <4>1
      <4> QED BY <1>2, <2>1, <4>2 DEF TableRow
    <3> QED BY <1>1, <3>1, <3>2
  <2>6. IdsOK'
    BY <1>1, <1>5, <1>6, <2>3, <2>4, <2>5 DEF IdsOK
  <2>7. ReaderOK' /\ IndicesOK'
    BY <1>1, <2>3 DEF WalkInv, ReaderOK, IndicesOK
  <2> QED BY <1>7, <2>6, <2>7 DEF WalkInv
<1> QED BY <1>8, <1>9

LEMMA IndexPageWalk ==
  ASSUME WalkInv, IndexPage
  PROVE  WalkInv'
<1> DEFINE size == Cardinality(list)
           start == AtMost(reader.cursor, size)
           end == AtMost(start + reader.limit, size)
           page == {a \in list : start <= Index(a) /\ Index(a) < end}
<1>1. /\ reader.kind = "indices" /\ ~reader.done /\ UNCHANGED <<table, born, list, stayed>>
      /\ read' = read \cup page /\ again' = again \cup (read \cap page)
      /\ reader' = IF end < size THEN [reader EXCEPT !.cursor = end]
                   ELSE [reader EXCEPT !.done = TRUE]
  BY DEF IndexPage, HandOut
<1>2. /\ reader \in ReaderShape /\ reader.limit \in Nat /\ reader.cursor \in Nat /\ reader.limit # 0
  BY <1>1 DEF WalkInv, ReaderOK, ReaderShape
<1>3. size \in Nat /\ \A a \in list : Index(a) \in Nat /\ Index(a) < size
  BY IndexFacts DEF WalkInv
<1>4. /\ start \in Nat /\ end \in Nat
      /\ start = reader.cursor \/ (start = size /\ size < reader.cursor)
      /\ end < size => start = reader.cursor /\ end = start + reader.limit
      /\ ~(end < size) => end = size
  <2> HIDE DEF size
  <2> QED BY <1>2, <1>3 DEF AtMost
<1> HIDE DEF size, start, end
<1>5. TableOK' /\ \A a \in list : Index(a)' = Index(a)
  BY <1>1 DEF WalkInv, TableOK, Index
<1>6. ~reader.moved => again = {} /\ read = {a \in list : Index(a) < reader.cursor}
  BY <1>1 DEF WalkInv, IndicesOK
<1>7. ~reader.moved => again' = {}
  BY <1>1, <1>2, <1>3, <1>4, <1>6
<1>8. CASE end < size
  <2>1. reader' = [reader EXCEPT !.cursor = end]
    BY <1>1, <1>8
  <2>2. /\ reader' \in ReaderShape /\ reader'.kind = "indices" /\ reader'.cursor = end
        /\ (reader'.done <=> reader.done) /\ reader'.limit = reader.limit
        /\ (reader'.moved <=> reader.moved)
    BY <1>1, <1>2, <1>4, <2>1 DEF ReaderShape
  <2>3. ~reader.moved => read' = {a \in list : Index(a) < end}
    BY <1>1, <1>2, <1>3, <1>4, <1>6, <1>8
  <2>4. ~reader.moved => read' = {a \in list' : Index(a)' < reader'.cursor}
    BY <1>1, <1>5, <2>2, <2>3
  <2>5. IdsOK' /\ ReaderOK'
    BY <1>1, <2>2 DEF WalkInv, IdsOK, ReaderOK
  <2>6. IndicesOK'
    BY <1>1, <1>7, <2>2, <2>4 DEF IndicesOK
  <2> QED BY <1>5, <2>5, <2>6 DEF WalkInv
<1>9. CASE ~(end < size)
  <2>1. reader' = [reader EXCEPT !.done = TRUE] /\ TRUE \in BOOLEAN
    BY <1>1, <1>9, Zenon
  <2>2. /\ reader' \in ReaderShape /\ reader'.kind = "indices" /\ reader'.done
        /\ (reader'.moved <=> reader.moved)
    BY <1>1, <1>2, <2>1 DEF ReaderShape
  <2>3. ~reader.moved => read' = list
    BY <1>1, <1>2, <1>3, <1>4, <1>6, <1>9
  <2>4. IdsOK' /\ ReaderOK'
    BY <1>1, <2>2 DEF WalkInv, IdsOK, ReaderOK
  <2>5. IndicesOK'
    BY <1>1, <1>7, <2>2, <2>3 DEF IndicesOK
  <2> QED BY <1>5, <2>4, <2>5 DEF WalkInv
<1> QED BY <1>8, <1>9

\* A walk returns no row twice and every matching row that was there all along, for any
\* limit and any number of rows, whatever is inserted, updated and pruned between its pages
\* and although ids come back; so does a walk by index while the list stays.
THEOREM WalksAreComplete == PageSpec => []WalkIsComplete
<1>1. PageInit => WalkInv
  <2> SUFFICES ASSUME PageInit PROVE WalkInv
    OBVIOUS
  <2>1. reader.kind = "none" /\ reader.done /\ reader \in ReaderShape
    <3>1. FALSE \in BOOLEAN /\ TRUE \in BOOLEAN
      BY Zenon
    <3> QED BY <3>1 DEF PageInit, NoReader, ReaderShape
  <2>2. TableOK /\ list = {}
    BY FS_EmptySet, PageWalkAssumption DEF PageInit, TableOK
  <2> QED BY <2>1, <2>2 DEF WalkInv, ReaderOK, IdsOK, IndicesOK
<1>2. WalkInv /\ [PageNext]_pageVars => WalkInv'
  <2>1. WalkInv /\ UNCHANGED pageVars => WalkInv'
    BY DEF pageVars, WalkInv, TableOK, ReaderOK, IdsOK, IndicesOK, RowsBefore, Index
  <2> QED BY <2>1, InsertWalk, ChangeWalk, RefreshWalk, StartsWalk, RowPageWalk, IndexPageWalk
          DEF PageNext
<1>3. WalkInv => WalkIsComplete
  BY DEF WalkInv, IdsOK, IndicesOK, WalkIsComplete
<1> QED BY <1>1, <1>2, <1>3, PTL DEF PageSpec

-----------------------------------------------------------------------------
(* PoolAlert, for every cooldown and every clock: its types, which mark may  *)
(* be pending, and that it implements AlertPromise.                          *)

USE DEF State, Event, None, Never, Off, Idle

-----------------------------------------------------------------------------
(* Types *)

WorkerSpace == [pc : {"off", "idle", "deciding", "posting", "posted"}, event : Event \cup {None}]

LEMMA TypeStep == TypeOK /\ [Next]_vars => TypeOK'
<1> SUFFICES ASSUME TypeOK, [Next]_vars PROVE TypeOK'
  OBVIOUS
<1> USE AlertAssumption DEF TypeOK, AlertAssumption
<1>1. CASE StartRefresh
  BY <1>1 DEF StartRefresh, database
<1>2. CASE EndRefresh
  BY <1>2 DEF EndRefresh, database
<1>3. ASSUME NEW s \in State, UpdateAlertState(s) PROVE TypeOK'
  <2>1. breachPending' \in BOOLEAN
    BY <1>3, Zenon DEF UpdateAlertState, Cancel
  <2>2. recoveryPending' \in BOOLEAN
    BY <1>3, Zenon DEF UpdateAlertState, Cancel
  <2>3. QED
    BY <1>3, <2>1, <2>2 DEF UpdateAlertState
<1>4. CASE QueueSnapshot
  BY <1>4 DEF QueueSnapshot, database
<1>5. CASE TakeSnapshot
  BY <1>5 DEF TakeSnapshot, database
<1>6. CASE Remind
  BY <1>6 DEF Remind, database
<1>7. CASE Decide \/ DecideFails
  BY <1>7 DEF Decide, DecideFails, database, NextEvent
<1>8. CASE PostAccepted
  BY <1>8 DEF PostAccepted, database
<1>9. CASE PostFails
  BY <1>9 DEF PostFails, database
<1>10. CASE RecordDelivery
  <2>1. breachPending' \in BOOLEAN
    BY <1>10, Zenon DEF RecordDelivery
  <2>2. recoveryPending' \in BOOLEAN
    BY <1>10, Zenon DEF RecordDelivery
  <2>3. webhookError' \in BOOLEAN
    BY <1>10, Zenon DEF RecordDelivery
  <2>4. worker' \in WorkerSpace
    BY <1>10 DEF RecordDelivery, WorkerSpace
  <2>5. /\ alertAt' = now
        /\ UNCHANGED <<now, poolBreach, attached, enabled, target, refresher, queue, latest, told>>
    BY <1>10, Zenon DEF RecordDelivery
  <2>6. /\ now' \in Nat /\ alertAt' \in Nat
        /\ attached' \in BOOLEAN /\ enabled' \in BOOLEAN /\ target' \in BOOLEAN
    BY <2>5, Zenon
  <2>7. /\ poolBreach' \in State \cup {None}
        /\ refresher' \in {"idle", "listing", "healthy", "breach"}
        /\ queue' \in State \cup {None}
        /\ latest' \in State \cup {None}
        /\ told' \in Event \cup {None}
    BY <2>5, Zenon
  <2>8. QED
    BY <2>1, <2>2, <2>3, <2>4, <2>6, <2>7, Zenon DEF WorkerSpace
<1>11. CASE RecordFails
  BY <1>11 DEF RecordFails, database
<1>12. CASE Detach
  <2>1. attached' \in BOOLEAN
    BY <1>12, Zenon DEF Detach
  <2>2. UNCHANGED <<now, database, enabled, target, refresher, queue, worker, latest, webhookError,
                    told>>
    BY <1>12 DEF Detach
  <2>3. QED
    BY <2>1, <2>2 DEF database
<1>13. CASE WorkerStops
  BY <1>13 DEF WorkerStops, database
<1>14. ASSUME NEW e \in BOOLEAN, Attach(e) \/ ApplyConfig(e) PROVE TypeOK'
  <2>1. attached' \in BOOLEAN /\ enabled' \in BOOLEAN /\ target' \in BOOLEAN
    BY <1>14, Zenon DEF Attach, ApplyConfig
  <2>2. worker' \in WorkerSpace
    BY <1>14 DEF Attach, ApplyConfig, WorkerSpace
  <2>3. UNCHANGED <<now, database, refresher, queue, latest, webhookError, told>>
    BY <1>14 DEF Attach, ApplyConfig
  <2>4. QED
    BY <2>1, <2>2, <2>3 DEF database, WorkerSpace
<1>15. CASE Crash
  BY <1>15 DEF Crash, database
<1>16. CASE Tick
  BY <1>16 DEF Tick, database, volatile
<1>17. CASE UNCHANGED vars
  BY <1>17 DEF vars, database, volatile
<1>18. QED
  BY <1>1, <1>2, <1>3, <1>4, <1>5, <1>6, <1>7, <1>8, <1>9, <1>10, <1>11, <1>12, <1>13, <1>14,
     <1>15, <1>16, <1>17 DEF Next, Refresh, Worker

LEMMA InitTypes == Init => TypeOK
<1> SUFFICES ASSUME Init PROVE TypeOK
  OBVIOUS
<1>1. breachPending \in BOOLEAN /\ recoveryPending \in BOOLEAN
  BY Zenon DEF Init
<1>2. /\ attached \in BOOLEAN /\ enabled \in BOOLEAN /\ target \in BOOLEAN
      /\ webhookError \in BOOLEAN
  BY Zenon DEF Init
<1>3. now \in Nat /\ alertAt \in Nat
  BY AlertAssumption DEF AlertAssumption, Init
<1>4. /\ poolBreach \in State \cup {None}
      /\ refresher \in {"idle", "listing", "healthy", "breach"}
      /\ queue \in State \cup {None}
      /\ latest \in State \cup {None}
      /\ told \in Event \cup {None}
  BY DEF Init
<1>5. worker \in WorkerSpace
  BY DEF Init, WorkerSpace
<1>6. QED
  BY <1>1, <1>2, <1>3, <1>4, <1>5, Zenon DEF TypeOK, WorkerSpace

\* Every variable keeps its type.
THEOREM TypeCorrect == Spec => []TypeOK
<1>1. Init => TypeOK
  BY InitTypes
<1>2. QED
  BY <1>1, TypeStep, PTL DEF Spec

-----------------------------------------------------------------------------
(* The inductive invariant.  What the worker carries outside webhookOps must *)
(* still make sense when it comes back: an event in flight may be overtaken, *)
(* but then something is owed; otherwise it is the event for the state.      *)

InFlight == worker.pc \in {"posting", "posted"}

AcceptedIsTold == worker.pc = "posted" => told = worker.event

OvertakenIsOwed ==
  InFlight => /\ poolBreach # None
              /\ worker.event \in Event
              /\ ~Owed => worker.event = NextEvent

AlertInv == TypeOK /\ PendingMatchesState /\ AcceptedIsTold /\ OvertakenIsOwed

\* Steps that touch neither the recorded state, nor the worker, nor the receiver.
Elsewhere == UNCHANGED <<poolBreach, breachPending, recoveryPending, worker, told>>

LEMMA ElsewhereSteps ==
  ASSUME \/ StartRefresh \/ EndRefresh \/ QueueSnapshot \/ Detach \/ Tick \/ UNCHANGED vars
         \/ \E e \in BOOLEAN : ApplyConfig(e)
  PROVE  Elsewhere
  BY DEF StartRefresh, EndRefresh, QueueSnapshot, ApplyConfig, Detach, Tick, Elsewhere, vars,
         database, volatile

LEMMA AlertInvStep == AlertInv /\ [Next]_vars => AlertInv'
<1> SUFFICES ASSUME AlertInv, [Next]_vars PROVE AlertInv'
  OBVIOUS
<1>type. TypeOK /\ TypeOK'
  BY TypeStep DEF AlertInv
<1> USE <1>type DEF AlertInv, PendingMatchesState, AcceptedIsTold, OvertakenIsOwed, InFlight, Owed, NextEvent
<1>1. CASE Elsewhere
  BY <1>1, Zenon DEF Elsewhere
<1>2. ASSUME NEW s \in State, UpdateAlertState(s) PROVE AlertInv'
  <2>1. PendingMatchesState'
    BY <1>2, Zenon DEF UpdateAlertState, Cancel
  <2>2. worker' = worker /\ told' = told /\ poolBreach' = s
    BY <1>2 DEF UpdateAlertState
  <2>3. s # None
    OBVIOUS
  <2>4. CASE s = poolBreach
    <3>1. breachPending' = breachPending /\ recoveryPending' = recoveryPending
      BY <1>2, <2>4, Zenon DEF UpdateAlertState
    <3>2. QED
      BY <2>1, <2>2, <2>3, <2>4, <3>1, Zenon
  <2>5. CASE s # poolBreach /\ poolBreach = None
    BY <2>1, <2>2, <2>3, <2>5, Zenon
  <2>6. CASE s # poolBreach /\ poolBreach # None
    <3>1. Owed'
      BY <1>2, <2>6, Zenon DEF UpdateAlertState
    <3>2. QED
      BY <2>1, <2>2, <2>3, <2>6, <3>1, Zenon
  <2>7. QED
    BY <2>4, <2>5, <2>6
<1>3. CASE TakeSnapshot \/ Remind
  <2>1. /\ UNCHANGED <<poolBreach, breachPending, recoveryPending, told>>
        /\ worker'.pc = "deciding"
    BY <1>3 DEF TakeSnapshot, Remind, database, TypeOK
  <2>2. QED
    BY <2>1, Zenon
<1>4. CASE Decide
  <2>1. UNCHANGED <<poolBreach, breachPending, recoveryPending, told>>
    BY <1>4 DEF Decide, database
  <2>2. CASE Due
    <3>1. worker'.pc = "posting" /\ worker'.event = NextEvent
      BY <1>4, <2>2 DEF Decide
    <3>2. poolBreach # None /\ NextEvent \in Event
      BY <2>2 DEF Due
    <3>3. QED
      BY <2>1, <3>1, <3>2
  <2>3. CASE ~Due
    <3>1. worker'.pc = "idle"
      BY <1>4, <2>3 DEF Decide
    <3>2. QED
      BY <2>1, <3>1, Zenon
  <2>4. QED
    BY <2>2, <2>3
<1>5. CASE PostAccepted
  <2>1. /\ UNCHANGED <<poolBreach, breachPending, recoveryPending>>
        /\ worker.pc = "posting"
        /\ worker'.pc = "posted"
        /\ worker'.event = worker.event
        /\ told' = worker.event
    BY <1>5 DEF PostAccepted, database, TypeOK
  <2>2. QED
    BY <2>1, Zenon
<1>6. CASE DecideFails \/ PostFails \/ RecordFails
  <2>1. /\ UNCHANGED <<poolBreach, breachPending, recoveryPending>>
        /\ worker'.pc = "idle"
    BY <1>6 DEF DecideFails, PostFails, RecordFails, database
  <2>2. QED
    BY <2>1, Zenon
<1>7. CASE RecordDelivery
  <2>1. worker'.pc = "idle" /\ poolBreach' = poolBreach
    BY <1>7 DEF RecordDelivery
  <2>2. (breachPending' => breachPending) /\ (recoveryPending' => recoveryPending)
    BY <1>7, Zenon DEF RecordDelivery
  <2>3. QED
    BY <2>1, <2>2, Zenon
<1>8. CASE WorkerStops \/ Crash \/ \E e \in BOOLEAN : Attach(e)
  <2>1. /\ UNCHANGED <<poolBreach, breachPending, recoveryPending>>
        /\ worker'.pc \in {"off", "idle"}
    BY <1>8 DEF WorkerStops, Crash, Attach, database
  <2>2. QED
    BY <2>1
<1>9. QED
  BY <1>1, <1>2, <1>3, <1>4, <1>5, <1>6, <1>7, <1>8, ElsewhereSteps DEF Next, Refresh, Worker

\* The inductive invariant holds.
THEOREM AlertInvariant == Spec => []AlertInv
<1>1. Init => AlertInv
  BY InitTypes DEF Init, AlertInv, PendingMatchesState, AcceptedIsTold, OvertakenIsOwed, InFlight
<1>2. QED
  BY <1>1, AlertInvStep, PTL DEF Spec

\* updateAlertState and recordAlertDelivery never leave a mark for the other state
\* pending, whatever happens between the worker's two transactions.
THEOREM MarksMatchState == Spec => []PendingMatchesState
<1>1. AlertInv => PendingMatchesState
  BY DEF AlertInv
<1>2. QED
  BY <1>1, AlertInvariant, PTL

-----------------------------------------------------------------------------
(* PoolAlert implements AlertPromise *)

Level == IF poolBreach = None THEN "unknown" ELSE poolBreach

LEMMA LevelFacts ==
  ASSUME TypeOK
  PROVE  /\ Level \in {"unknown", "healthy", "breach"}
         /\ Level = "unknown" <=> poolBreach = None
         /\ Level = "breach" <=> poolBreach = "breach"
         /\ Level = "healthy" <=> poolBreach = "healthy"
         /\ Promise!EventFor(Level) = NextEvent
  BY DEF TypeOK, Level, Promise!EventFor, NextEvent

LEMMA PromiseInit == Init => Promise!Init
<1> SUFFICES ASSUME Init PROVE Promise!Init
  OBVIOUS
<1>1. poolBreach = None /\ told = None
  BY DEF Init
<1>2. Owed = FALSE
  BY Zenon DEF Init, Owed
<1>3. QED
  BY <1>1, <1>2 DEF Promise!Init, Level

\* A step that leaves the recorded state, the marks and the receiver alone stutters.
LEMMA PromiseStutter ==
  ASSUME UNCHANGED <<poolBreach, breachPending, recoveryPending, told>>
  PROVE  UNCHANGED Promise!vars
<1>1. Owed' = Owed
  BY Zenon DEF Owed
<1>2. QED
  BY <1>1, Zenon DEF Promise!vars

LEMMA PromiseStep == AlertInv /\ AlertInv' /\ [Next]_vars => [Promise!Next]_(Promise!vars)
<1> SUFFICES ASSUME AlertInv, AlertInv', [Next]_vars
             PROVE  Promise!Next \/ UNCHANGED Promise!vars
  OBVIOUS
<1>type. TypeOK /\ TypeOK'
  BY DEF AlertInv
<1>levels. /\ Promise!EventFor(Level) = NextEvent
           /\ Level \in {"unknown", "healthy", "breach"}
           /\ Level = "unknown" <=> poolBreach = None
  BY <1>type, LevelFacts
<1>owed. Owed \in BOOLEAN /\ Owed' \in BOOLEAN
  BY Zenon DEF Owed
<1>1. CASE Elsewhere
  BY <1>1, PromiseStutter DEF Elsewhere
<1>2. ASSUME NEW s \in State, UpdateAlertState(s) PROVE Promise!Next
  <2>1. told' = told /\ poolBreach' = s
    BY <1>2 DEF UpdateAlertState
  <2>2. Level' = s
    BY <2>1 DEF Level
  <2>3. CASE s = poolBreach
    <3>1. breachPending' = breachPending /\ recoveryPending' = recoveryPending
      BY <1>2, <2>3, Zenon DEF UpdateAlertState
    <3>2. Owed' = Owed
      BY <3>1, Zenon DEF Owed
    <3>3. s = Level
      BY <2>3 DEF Level
    <3>4. Promise!Observe(s)
      BY <2>1, <2>2, <3>2, <3>3, Zenon DEF Promise!Observe, Level
    <3>5. QED
      BY <3>4 DEF Promise!Next
  <2>4. CASE s # poolBreach
    <3>1. s # Level
      BY <2>4 DEF Level
    <3>2. CASE poolBreach = None /\ s = "healthy"
      <4>1. breachPending' = breachPending /\ recoveryPending' = recoveryPending
        BY <1>2, <3>2, Zenon DEF UpdateAlertState
      <4>2. Owed' = FALSE
        BY <4>1, <3>2, Zenon DEF Owed, AlertInv, PendingMatchesState
      <4>3. ("breach" \in {s, Level}) = FALSE
        BY <3>2 DEF Level
      <4>4. Promise!Observe(s)
        BY <2>1, <2>2, <3>1, <4>2, <4>3, Zenon DEF Promise!Observe, Level
      <4>5. QED
        BY <4>4, <3>2 DEF Promise!Next
    <3>3. CASE ~(poolBreach = None /\ s = "healthy")
      <4>1. Owed' = TRUE
        BY <1>2, <2>4, <3>3, Zenon DEF UpdateAlertState, Owed
      <4>2. s = "breach" \/ poolBreach = "breach"
        BY <1>type, <2>4, <3>3 DEF TypeOK
      <4>3. ("breach" \in {s, Level}) = TRUE
        BY <4>2 DEF Level
      <4>4. Promise!Observe(s)
        BY <2>1, <2>2, <3>1, <4>1, <4>3, Zenon DEF Promise!Observe, Level
      <4>5. QED
        BY <4>4 DEF Promise!Next
    <3>4. QED
      BY <3>2, <3>3
  <2>5. QED
    BY <2>3, <2>4
<1>3. CASE PostAccepted \/ PostFails
  <2>1. UNCHANGED <<poolBreach, breachPending, recoveryPending>> /\ told' \in {told, worker.event}
    BY <1>3 DEF PostAccepted, PostFails, database
  <2>2. worker.event \in Event /\ poolBreach # None /\ (~Owed => worker.event = NextEvent)
    BY <1>3, Zenon DEF AlertInv, OvertakenIsOwed, InFlight, PostAccepted, PostFails
  <2>3. Owed' = Owed
    BY <2>1, Zenon DEF Owed
  <2>4. CASE told' = told
    BY <2>1, <2>4, PromiseStutter
  <2>5. CASE told' = worker.event
    <3>1. Promise!Tell(worker.event)
      BY <1>levels, <2>1, <2>2, <2>3, <2>5, Zenon DEF Promise!Tell, Level
    <3>2. QED
      BY <2>2, <3>1, Zenon DEF Promise!Next, Promise!Events
  <2>6. QED
    BY <2>1, <2>4, <2>5
<1>4. CASE RecordDelivery
  <2>1. poolBreach' = poolBreach /\ told' = told
    BY <1>4 DEF RecordDelivery
  <2>2. told = worker.event /\ worker.event \in Event /\ poolBreach # None
    BY <1>4, Zenon DEF RecordDelivery, AlertInv, AcceptedIsTold, OvertakenIsOwed, InFlight
  <2>3. CASE breachPending' = breachPending /\ recoveryPending' = recoveryPending
    BY <2>1, <2>3, PromiseStutter
  <2>4. CASE breachPending /\ ~breachPending'
    <3>1. worker.event = "breach" /\ poolBreach = "breach"
      BY <1>4, <2>4, Zenon DEF RecordDelivery, Clears
    <3>2. ~recoveryPending
      BY <3>1 DEF AlertInv, PendingMatchesState
    <3>3. Owed = TRUE /\ Owed' = FALSE
      <4>1. recoveryPending' => recoveryPending
        BY <1>4, Zenon DEF RecordDelivery
      <4>2. QED
        BY <2>4, <3>2, <4>1, Zenon DEF Owed
    <3>4. told = NextEvent
      BY <2>2, <3>1 DEF NextEvent
    <3>5. Promise!Settle
      BY <1>levels, <2>1, <3>3, <3>4, Zenon DEF Promise!Settle, Level
    <3>6. QED
      BY <3>5 DEF Promise!Next
  <2>5. CASE recoveryPending /\ ~recoveryPending'
    <3>1. worker.event = "recovery" /\ poolBreach = "healthy"
      BY <1>4, <2>5, Zenon DEF RecordDelivery, Clears, AlertInv, PendingMatchesState
    <3>2. ~breachPending
      BY <3>1 DEF AlertInv, PendingMatchesState
    <3>3. Owed = TRUE /\ Owed' = FALSE
      <4>1. breachPending' => breachPending
        BY <1>4, Zenon DEF RecordDelivery
      <4>2. QED
        BY <2>5, <3>2, <4>1, Zenon DEF Owed
    <3>4. told = NextEvent
      BY <2>2, <3>1 DEF NextEvent
    <3>5. Promise!Settle
      BY <1>levels, <2>1, <3>3, <3>4, Zenon DEF Promise!Settle, Level
    <3>6. QED
      BY <3>5 DEF Promise!Next
  <2>6. (breachPending' => breachPending) /\ (recoveryPending' => recoveryPending)
    BY <1>4, Zenon DEF RecordDelivery
  <2>7. /\ breachPending \in BOOLEAN /\ breachPending' \in BOOLEAN
        /\ recoveryPending \in BOOLEAN /\ recoveryPending' \in BOOLEAN
    BY <1>type DEF TypeOK
  <2>8. QED
    BY <2>3, <2>4, <2>5, <2>6, <2>7, Zenon
<1>5. CASE \/ TakeSnapshot \/ Remind \/ Decide \/ DecideFails \/ RecordFails \/ WorkerStops \/ Crash
           \/ \E e \in BOOLEAN : Attach(e)
  <2>1. UNCHANGED <<poolBreach, breachPending, recoveryPending, told>>
    BY <1>5 DEF TakeSnapshot, Remind, Decide, DecideFails, RecordFails, WorkerStops, Crash, Attach,
                database
  <2>2. QED
    BY <2>1, PromiseStutter
<1>6. QED
  BY <1>1, <1>2, <1>3, <1>4, <1>5, ElsewhereSteps DEF Next, Refresh, Worker

\* The worker's unlocked post, the queue of one, restarts and crashes do not break
\* the promise made to the receiver: every step settles, changes or repeats what
\* AlertPromise allows, or is invisible to it.
THEOREM ImplementsPromise == Spec => KeepsPromise
<1>1. AlertInv /\ [Next]_vars => [Promise!Next]_(Promise!vars)
  BY AlertInvStep, PromiseStep
<1>2. QED
  BY <1>1, AlertInvariant, PromiseInit, PTL DEF Spec, Promise!Spec, KeepsPromise

\* When nothing is pending the receiver was last told of the present pool state: a
\* change recorded during a post is still announced.
THEOREM ReceiverInStep == Spec => []ReceiverAgrees
<1> DEFINE BaseInv == poolBreach = None => ~Owed /\ told = None
           Agreement == ReceiverAgrees /\ BaseInv
<1>1. Init => Agreement
  <2> SUFFICES ASSUME Init PROVE Agreement
    OBVIOUS
  <2>1. poolBreach = None /\ told = None
    BY DEF Init
  <2>2. ~Owed
    BY Zenon DEF Init, Owed
  <2>3. QED
    BY <2>1, <2>2 DEF ReceiverAgrees, Promise!ReceiverAgrees
<1>2. Agreement /\ AlertInv /\ AlertInv' /\ [Next]_vars => Agreement'
  <2> SUFFICES ASSUME Agreement, AlertInv, AlertInv', [Next]_vars PROVE Agreement'
    OBVIOUS
  <2>step. Promise!Next \/ UNCHANGED Promise!vars
    BY PromiseStep
  <2>types. /\ Level \in {"unknown", "healthy", "breach"}
            /\ Level' \in {"unknown", "healthy", "breach"}
            /\ Level = "unknown" <=> poolBreach = None
            /\ Level' = "unknown" <=> poolBreach' = None
    BY LevelFacts DEF AlertInv, TypeOK, Level
  <2>agree. ReceiverAgrees <=> (~Owed => \/ Level = "breach" /\ told = "breach"
                                         \/ Level = "healthy" /\ told # "breach"
                                         \/ Level = "unknown" /\ told = "none")
    BY DEF ReceiverAgrees, Promise!ReceiverAgrees, Level
  <2>agreeNext. ReceiverAgrees' <=> (~Owed' => \/ Level' = "breach" /\ told' = "breach"
                                               \/ Level' = "healthy" /\ told' # "breach"
                                               \/ Level' = "unknown" /\ told' = "none")
    BY DEF ReceiverAgrees, Promise!ReceiverAgrees, Level
  <2>1. ASSUME NEW l \in {"healthy", "breach"}, Promise!Observe(l) PROVE Agreement'
    <3>1. Level' = l /\ told' = told
      BY <2>1 DEF Promise!Observe, Level
    <3>2. Owed' = (IF l = Level THEN Owed ELSE "breach" \in {l, Level})
      BY <2>1, Zenon DEF Promise!Observe, Level
    <3>3. CASE l = Level
      BY <2>types, <2>agree, <2>agreeNext, <3>1, <3>2, <3>3
    <3>4. CASE l # Level
      <4>1. Owed' = ("breach" \in {l, Level})
        BY <3>2, <3>4, Zenon
      <4>2. CASE l = "breach" \/ Level = "breach"
        BY <2>types, <2>agreeNext, <3>1, <4>1, <4>2
      <4>3. CASE l = "healthy" /\ Level = "unknown"
        BY <2>types, <2>agreeNext, <3>1, <4>3
      <4>4. QED
        BY <2>types, <3>4, <4>2, <4>3
    <3>5. QED
      BY <3>3, <3>4
  <2>2. ASSUME NEW e \in Event, Promise!Tell(e) PROVE Agreement'
    <3>1. /\ Level # "unknown" /\ Level' = Level /\ told' = e
          /\ ~Owed => e = Promise!EventFor(Level)
      BY <2>2, Zenon DEF Promise!Tell, Level
    <3>2. Owed' = Owed
      BY <2>2, Zenon DEF Promise!Tell
    <3>3. QED
      BY <2>types, <2>agreeNext, <3>1, <3>2 DEF Promise!EventFor
  <2>3. CASE Promise!Settle
    <3>1. Owed /\ told = Promise!EventFor(Level) /\ Level' = Level /\ told' = told
      BY <2>3, Zenon DEF Promise!Settle, Level
    <3>2. Level # "unknown"
      BY <2>types, <3>1, Zenon
    <3>3. QED
      BY <2>types, <2>agreeNext, <3>1, <3>2 DEF Promise!EventFor
  <2>4. CASE UNCHANGED Promise!vars
    <3>1. Level' = Level /\ told' = told /\ Owed' = Owed
      BY <2>4, Zenon DEF Promise!vars, Level
    <3>2. QED
      BY <2>types, <2>agree, <2>agreeNext, <3>1, Zenon
  <2>5. QED
    BY <2>step, <2>1, <2>2, <2>3, <2>4 DEF Promise!Next, Promise!Events
<1>3. Agreement => ReceiverAgrees
  OBVIOUS
<1>4. QED
  BY <1>1, <1>2, <1>3, AlertInvariant, PTL DEF Spec
=============================================================================
