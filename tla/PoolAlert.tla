------------------------------ MODULE PoolAlert ------------------------------
(***************************************************************************)
(* Pool alerts: the refresh of account health records the pool state in    *)
(* the database (updateAlertState) and hands a snapshot to the webhook     *)
(* worker through a queue of one; the worker asks the database what to     *)
(* send (nextAlert), posts it without any lock, and records the delivery.  *)
(* The plugin may be reconfigured, shut down or killed at any point.       *)
(* Refreshes hold healthOps, so there is one at a time; webhookOps makes   *)
(* each database access of this module one step.                           *)
(***************************************************************************)
EXTENDS Naturals

CONSTANTS
  Cooldown,    \* alert-cooldown
  MaxTime      \* bound: the clock

ASSUME AlertAssumption == Cooldown \in Nat /\ MaxTime \in Nat

State  == {"healthy", "breach"}
Event  == {"breach", "recovery"}
None   == "none"

VARIABLES
  now,              \* time.Now, in cooldown ticks
  poolBreach,       \* alert_state pool_breach (None before the first; sets pool_initialized too)
  breachPending,    \* alert_state pool_breach_pending
  recoveryPending,  \* alert_state pool_recovery_pending
  alertAt,          \* alert_state pool_alert_at, Never before the first delivery
  attached,         \* r.healthStore and r.webhookQueue are published
  enabled,          \* r.cfg has a webhook-url
  target,           \* the webhook worker was started with one
  refresher,        \* the refresh that holds healthOps
  queue,            \* the queued snapshot
  worker,           \* where webhookLoop is: its point, snapshot and event
  latest,           \* webhookLoop's latest snapshot
  webhookError,     \* r.webhookError
  told              \* the receiver: the event it got last

database == <<poolBreach, breachPending, recoveryPending, alertAt>>
volatile == <<attached, enabled, target, refresher, queue, worker, latest, webhookError>>
vars     == <<now, database, volatile, told>>

Never == MaxTime + 1
Off   == [pc |-> "off",  event |-> None]
Idle  == [pc |-> "idle", event |-> None]

TypeOK ==
  /\ now \in Nat
  /\ poolBreach \in State \cup {None}
  /\ breachPending \in BOOLEAN
  /\ recoveryPending \in BOOLEAN
  /\ alertAt \in Nat
  /\ attached \in BOOLEAN
  /\ enabled \in BOOLEAN
  /\ target \in BOOLEAN
  /\ refresher \in {"idle", "listing", "healthy", "breach"}
  /\ queue \in State \cup {None}
  /\ worker \in [pc : {"off", "idle", "deciding", "posting", "posted"}, event : Event \cup {None}]
  /\ latest \in State \cup {None}
  /\ webhookError \in BOOLEAN
  /\ told \in Event \cup {None}

Init ==
  /\ now = 0
  /\ poolBreach = None
  /\ breachPending = FALSE
  /\ recoveryPending = FALSE
  /\ alertAt = Never
  /\ attached = FALSE
  /\ enabled = FALSE
  /\ target = FALSE
  /\ refresher = "idle"
  /\ queue = None
  /\ worker = Off
  /\ latest = None
  /\ webhookError = FALSE
  /\ told = None

-----------------------------------------------------------------------------
(* refreshHealth and maybeAlertForStore.  Operators marked (mutant) are       *)
(* plausible bugs that PROJECT.json substitutes for the definition after.     *)

\* The refresh takes the store and the settings of the moment, and lists the host's
\* accounts.  One without a webhook-url has nothing to do with alerts.
StartRefresh ==
  /\ attached /\ enabled
  /\ refresher = "idle"
  /\ refresher' = "listing"
  /\ UNCHANGED <<now, database, attached, enabled, target, queue, worker, latest, webhookError, told>>

\* A failed listing or a failed transaction: nothing is recorded.
EndRefresh ==
  /\ refresher = "listing"
  /\ refresher' = "idle"
  /\ UNCHANGED <<now, database, attached, enabled, target, queue, worker, latest, webhookError, told>>

\* A change of state cancels the announcement of the opposite one.
Cancel(pending) == FALSE

\* updateAlertState: the baseline is silent when it is healthy.
UpdateAlertState(s) ==
  /\ refresher = "listing"
  /\ refresher' = s
  /\ poolBreach' = s
  /\ IF s = poolBreach \/ (poolBreach = None /\ s = "healthy")
     THEN UNCHANGED <<breachPending, recoveryPending>>
     ELSE IF s = "breach"
     THEN breachPending' = TRUE /\ recoveryPending' = Cancel(recoveryPending)
     ELSE recoveryPending' = TRUE /\ breachPending' = Cancel(breachPending)
  /\ UNCHANGED <<now, alertAt, attached, enabled, target, queue, worker, latest, webhookError, told>>

\* queueWebhookSnapshot: the newest snapshot replaces a queued one; there is no
\* queue any more when a reconfiguration got between.
QueueSnapshot ==
  /\ refresher \in State
  /\ queue' = IF attached THEN refresher ELSE queue
  /\ refresher' = "idle"
  /\ UNCHANGED <<now, database, attached, enabled, target, worker, latest, webhookError, told>>

-----------------------------------------------------------------------------
(* webhookLoop and deliverPendingAlert *)

TakeSnapshot ==
  /\ worker.pc = "idle"
  /\ queue # None
  /\ latest' = queue
  /\ queue' = None
  /\ worker' = [worker EXCEPT !.pc = "deciding"]
  /\ UNCHANGED <<now, database, attached, enabled, target, refresher, webhookError, told>>

\* The reminder ticker.
Remind ==
  /\ worker.pc = "idle"
  /\ latest # None
  /\ worker' = [worker EXCEPT !.pc = "deciding"]
  /\ UNCHANGED <<now, database, attached, enabled, target, refresher, queue, latest, webhookError, told>>

ForgetRecovery ==                                                         \* (mutant)
  poolBreach = "breach" /\ (breachPending \/ alertAt = Never \/ now >= alertAt + Cooldown)
\* nextAlert: is there an event to deliver?
Due ==
  \/ poolBreach = "healthy" /\ recoveryPending
  \/ poolBreach = "breach" /\ (breachPending \/ alertAt = Never \/ now >= alertAt + Cooldown)

NextEvent == IF poolBreach = "breach" THEN "breach" ELSE "recovery"

Decide ==
  /\ worker.pc = "deciding"
  /\ worker' = IF Due THEN [pc |-> "posting", event |-> NextEvent] ELSE Idle
  /\ UNCHANGED <<now, database, attached, enabled, target, refresher, queue, latest, webhookError, told>>

\* nextAlert cannot read the database.
DecideFails ==
  /\ worker.pc = "deciding"
  /\ worker' = Idle
  /\ UNCHANGED <<now, database, attached, enabled, target, refresher, queue, latest, webhookError, told>>

\* postWebhook: a 2xx answer came back.
PostAccepted ==
  /\ worker.pc = "posting" /\ target
  /\ worker' = [worker EXCEPT !.pc = "posted"]
  /\ told' = worker.event
  /\ UNCHANGED <<now, database, attached, enabled, target, refresher, queue, latest, webhookError>>

\* A refused, timed-out or cancelled request; the receiver may have got it all the
\* same, if there is one.
PostFails ==
  /\ worker.pc = "posting"
  /\ worker' = Idle
  /\ webhookError' = TRUE
  /\ told' \in {told} \cup (IF target THEN {worker.event} ELSE {})
  /\ UNCHANGED <<now, database, attached, enabled, target, refresher, queue, latest>>

ClearAll(event, which) == TRUE                                            \* (mutant)
\* UPDATE ... WHERE name = ... AND pool_breach = ...: which pending mark is cleared.
Clears(event, which) ==
  /\ event = which
  /\ poolBreach = (IF event = "breach" THEN "breach" ELSE "healthy")

RecordDelivery ==
  /\ worker.pc = "posted"
  /\ worker' = Idle
  /\ alertAt' = now
  /\ breachPending' = (breachPending /\ ~Clears(worker.event, "breach"))
  /\ recoveryPending' = (recoveryPending /\ ~Clears(worker.event, "recovery"))
  /\ webhookError' = FALSE
  /\ UNCHANGED <<now, poolBreach, attached, enabled, target, refresher, queue, latest, told>>

\* recordAlertDelivery's transaction fails.
RecordFails ==
  /\ worker.pc = "posted"
  /\ worker' = Idle
  /\ UNCHANGED <<now, database, attached, enabled, target, refresher, queue, latest, webhookError, told>>

-----------------------------------------------------------------------------
(* configureHealth, as far as alerts see it; process death *)

\* applyConfig replaces the settings before configureHealth stops anything.
ApplyConfig(e) ==
  /\ enabled' = e
  /\ UNCHANGED <<now, database, attached, target, refresher, queue, worker, latest, webhookError, told>>

\* The fields are unpublished and the worker told to stop.
Detach ==
  /\ attached
  /\ attached' = FALSE
  /\ UNCHANGED <<now, database, enabled, target, refresher, queue, worker, latest, webhookError, told>>

WorkerStops ==
  /\ ~attached
  /\ worker.pc = "idle"
  /\ worker' = Off
  /\ queue' = None
  /\ latest' = None
  /\ UNCHANGED <<now, database, attached, enabled, target, refresher, webhookError, told>>

\* The old store is closed under healthOps, a new one opened and published; the
\* settings of this reconfiguration need no longer be the last ones.
Attach(e) ==
  /\ ~attached
  /\ worker.pc = "off"
  /\ refresher = "idle"
  /\ attached' = TRUE
  /\ target' = e
  /\ worker' = Idle
  /\ UNCHANGED <<now, database, enabled, refresher, queue, latest, webhookError, told>>

\* The process dies: only the database is left.
Crash ==
  /\ attached' = FALSE
  /\ refresher' = "idle"
  /\ queue' = None
  /\ worker' = Off
  /\ latest' = None
  /\ webhookError' = FALSE
  /\ UNCHANGED <<now, database, enabled, target, told>>

Tick ==
  /\ now < MaxTime
  /\ now' = now + 1
  /\ UNCHANGED <<database, volatile, told>>

-----------------------------------------------------------------------------
Refresh == StartRefresh \/ EndRefresh \/ (\E s \in State : UpdateAlertState(s)) \/ QueueSnapshot
Worker  == TakeSnapshot \/ Remind \/ Decide \/ DecideFails \/ PostAccepted \/ PostFails \/ RecordDelivery
           \/ RecordFails \/ WorkerStops
Next    == Refresh \/ Worker \/ Detach \/ (\E e \in BOOLEAN : ApplyConfig(e) \/ Attach(e))
           \/ Crash \/ Tick

Spec == Init /\ [][Next]_vars

\* Goroutines and timers run: the health loop keeps refreshing and often enough
\* succeeds, the worker keeps working, and the receiver often enough accepts and
\* the database answers and commits.
FairSpec ==
  /\ Spec
  /\ WF_vars(Refresh) /\ WF_vars(Worker)
  /\ SF_vars(\E s \in State : UpdateAlertState(s))
  /\ SF_vars(Decide) /\ SF_vars(PostAccepted) /\ SF_vars(RecordDelivery)

-----------------------------------------------------------------------------
(* Properties *)

Owed == breachPending \/ recoveryPending

Promise == INSTANCE AlertPromise WITH
  level <- IF poolBreach = None THEN "unknown" ELSE poolBreach,
  owed  <- Owed,
  told  <- told

\* With its queue of one, its unlocked posts, failed requests, restarts and crashes,
\* the plugin still keeps the alert promise.
KeepsPromise == Promise!Spec

\* Not owing anything, the receiver has been told of the present state: a recovery
\* recorded while a breach was being posted is not lost.
ReceiverAgrees == Promise!ReceiverAgrees

\* At most one announcement is pending, and it is the one for the recorded state.
PendingMatchesState ==
  /\ breachPending => poolBreach = "breach"
  /\ recoveryPending => poolBreach = "healthy"

\* "`recovery` immediately when the pool returns below thresholds" (README.md), and
\* breaches alike: what is pending is delivered or overtaken by the opposite change,
\* unless the plugin goes down or alerting is switched off.
AnnouncedInTheEnd ==
  /\ breachPending ~> ~breachPending \/ ~(attached /\ enabled /\ target)
  /\ recoveryPending ~> ~recoveryPending \/ ~(attached /\ enabled /\ target)

\* "Pending state is cleared only after a successful webhook response, so failed
\* deliveries retry." (health_store.go, above updateAlertState)
PendingClearedByDelivery ==
  [][(breachPending /\ ~breachPending') \/ (recoveryPending /\ ~recoveryPending')
       => worker.pc = "posted"]_vars
=============================================================================
