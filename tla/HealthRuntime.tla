---------------------------- MODULE HealthRuntime ----------------------------
(***************************************************************************)
(* The lifecycle of the health monitor (health_runtime.go, runtime.go):    *)
(* applyConfig and shutdown stop the old health loop and webhook worker,   *)
(* drain the event queue, close the database, and open and start the next  *)
(* one, while usage events are enqueued and management requests refresh.   *)
(* healthLifecycle serializes the lifecycle calls, healthOps every refresh *)
(* with the closing of the database, r.mu each critical section (a step).  *)
(* Databases are numbered in the order they are opened.  The status page's *)
(* error texts, and r.healthRefreshing (only ever set and read while       *)
(* healthOps is held, so its waiting branch is never taken), are left out. *)
(***************************************************************************)
EXTENDS Naturals, FiniteSets

CONSTANTS
  Host,       \* host threads that make lifecycle calls
  Reader,     \* management requests that refresh account health
  Config,     \* configurations: is database-path set, usage-queue-size
  InitConfig, \* defaultConfig()
  MaxOpened,  \* bound: databases opened
  MaxEvents   \* bound: usage events

ASSUME RuntimeAssumption ==
  /\ Config \subseteq [database : BOOLEAN, queueSize : Nat \ {0}]
  /\ InitConfig \in Config
  /\ MaxOpened \in Nat /\ MaxEvents \in Nat
  /\ IsFiniteSet(Host) /\ IsFiniteSet(Reader)
  /\ "free" \notin Host \cup Reader /\ "loop" \notin Reader

VARIABLES
  cfg,         \* r.cfg
  closed,      \* r.closed
  store,       \* r.healthStore, with its queue and channels (None: nil)
  snapshot,    \* r.healthSnapshot: the database it was computed from (None: zero)
  open,        \* databases that are open
  opened,      \* databases opened so far
  call,        \* each host thread's lifecycle call
  lifecycle,   \* the holder of healthLifecycle
  ops,         \* the holder of healthOps: a reader or "loop"
  reader,      \* each reader's point and the database it took
  loop,        \* the health loop of each database
  worker,      \* the webhook worker of each database
  stopLoop,    \* databases whose healthStop is closed
  stopWorker,  \* databases whose webhookStop is closed
  queue,       \* the event queue of each database: its length and capacity
  tally        \* history: events sent, recorded, failed to record, dropped

Db   == 1 .. MaxOpened
None == 0
Free == "free"

hostVars  == <<call, lifecycle>>
loopVars  == <<loop, worker, stopLoop, stopWorker>>
vars      == <<cfg, closed, store, snapshot, open, opened, hostVars, ops, reader, loopVars, queue, tally>>

CallPoints == {"idle", "waiting", "stopping", "stopped", "drained", "closed", "opened", "published"}
Call       == [pc : CallPoints, reopen : BOOLEAN, cfg : Config, old : Db \cup {None}]
NoCall     == [pc |-> "idle", reopen |-> FALSE, cfg |-> InitConfig, old |-> None]
LoopPoints == {"none", "select", "recording", "refresh", "refreshing", "saving", "done"}
Readers    == [pc : {"idle", "refreshing"}, db : Db \cup {None}]

TypeOK ==
  /\ cfg \in Config
  /\ closed \in BOOLEAN
  /\ store \in Db \cup {None}
  /\ snapshot \in Db \cup {None}
  /\ open \subseteq Db
  /\ opened \in 0 .. MaxOpened
  /\ call \in [Host -> Call]
  /\ lifecycle \in Host \cup {Free}
  /\ ops \in Reader \cup {"loop", Free}
  /\ reader \in [Reader -> Readers]
  /\ loop \in [Db -> LoopPoints]
  /\ worker \in [Db -> {"none", "select", "delivering", "done"}]
  /\ stopLoop \subseteq Db /\ stopWorker \subseteq Db
  /\ queue \in [Db -> [length : Nat, capacity : Nat]]
  /\ tally \in [sent : Nat, recorded : Nat, failed : Nat, dropped : Nat]

Init ==
  /\ cfg = InitConfig
  /\ closed = FALSE
  /\ store = None
  /\ snapshot = None
  /\ open = {}
  /\ opened = 0
  /\ call = [h \in Host |-> NoCall]
  /\ lifecycle = Free
  /\ ops = Free
  /\ reader = [r \in Reader |-> [pc |-> "idle", db |-> None]]
  /\ loop = [d \in Db |-> "none"]
  /\ worker = [d \in Db |-> "none"]
  /\ stopLoop = {}
  /\ stopWorker = {}
  /\ queue = [d \in Db |-> [length |-> 0, capacity |-> 0]]
  /\ tally = [sent |-> 0, recorded |-> 0, failed |-> 0, dropped |-> 0]

-----------------------------------------------------------------------------
(* Lifecycle calls.  Operators marked (mutant) are plausible bugs that        *)
(* PROJECT.json substitutes for the definition after them.                    *)

\* applyConfig, first critical section (the quota snapshot is QuotaCache's).
ApplyConfig(h, k) ==
  /\ call[h].pc = "idle"
  /\ opened < MaxOpened
  /\ cfg' = k
  /\ closed' = FALSE
  /\ call' = [call EXCEPT ![h] = [pc |-> "waiting", reopen |-> TRUE, cfg |-> k, old |-> None]]
  /\ UNCHANGED <<store, snapshot, open, opened, lifecycle, ops, reader, loopVars, queue, tally>>

Shutdown(h) ==
  /\ call[h].pc = "idle"
  /\ call' = [call EXCEPT ![h] = [pc |-> "waiting", reopen |-> FALSE, cfg |-> cfg, old |-> None]]
  /\ UNCHANGED <<cfg, closed, store, snapshot, open, opened, lifecycle, ops, reader, loopVars, queue, tally>>

NoLifecycleLock == TRUE                                                   \* (mutant)
LifecycleFree == lifecycle = Free

KeepPublished == store                                                    \* (mutant)
Unpublished == None

NotShutDown == ~closed

SignalNobody(d) == {}                                                     \* (mutant)
\* Whose stop channel is closed: nobody's when there was no database.
Signal(d) == {d} \ {None}

\* Take healthLifecycle, unpublish everything, close healthStop.  configureHealth
\* also resets the snapshot and notes whether the plugin is shut down by now;
\* shutdown marks it so.
Unpublish(h) ==
  /\ call[h].pc = "waiting"
  /\ LifecycleFree
  /\ lifecycle' = h
  /\ store' = Unpublished
  /\ IF call[h].reopen
     THEN snapshot' = None /\ UNCHANGED closed
     ELSE closed' = TRUE /\ UNCHANGED snapshot
  /\ stopLoop' = stopLoop \cup Signal(store)
  /\ call' = [call EXCEPT ![h].pc = "stopping", ![h].old = store,
                          ![h].reopen = @ /\ NotShutDown /\ call[h].cfg.database]
  /\ UNCHANGED <<cfg, open, opened, ops, reader, loop, worker, stopWorker, queue, tally>>

\* <-done, then webhookCancel and close(webhookStop).
LoopStopped(h) ==
  /\ call[h].pc = "stopping"
  /\ call[h].old # None => loop[call[h].old] = "done"
  /\ stopWorker' = stopWorker \cup Signal(call[h].old)
  /\ call' = [call EXCEPT ![h].pc = "stopped"]
  /\ UNCHANGED <<cfg, closed, store, snapshot, open, opened, lifecycle, ops, reader, loop, worker, stopLoop, queue, tally>>

LeaveQueue(d, n) == tally' = tally                                        \* (mutant)
CountDropped(d, n) == tally' = [tally EXCEPT !.dropped = @ + n]

\* <-webhookDone, then the queue is drained and its events count as dropped.
Drain(h) ==
  LET old == call[h].old IN
  /\ call[h].pc = "stopped"
  /\ old # None => worker[old] = "done"
  /\ call' = [call EXCEPT ![h].pc = "drained"]
  /\ IF old = None THEN UNCHANGED <<queue, tally>>
     ELSE CountDropped(old, queue[old].length) /\ queue' = [queue EXCEPT ![old].length = 0]
  /\ UNCHANGED <<cfg, closed, store, snapshot, open, opened, lifecycle, ops, reader, loopVars>>

CloseAtOnce == TRUE                                                       \* (mutant)
\* healthOps: no refresh or stored listing is using the database.
OpsFree == ops = Free

Close(h) ==
  /\ call[h].pc = "drained"
  /\ OpsFree
  /\ open' = open \ {call[h].old}
  /\ IF call[h].reopen
     THEN call' = [call EXCEPT ![h].pc = "closed"] /\ UNCHANGED lifecycle
     ELSE call' = [call EXCEPT ![h] = NoCall] /\ lifecycle' = Free
  /\ UNCHANGED <<cfg, closed, store, snapshot, opened, ops, reader, loopVars, queue, tally>>

OpenFails(h) ==
  /\ call[h].pc = "closed"
  /\ call' = [call EXCEPT ![h] = NoCall]
  /\ lifecycle' = Free
  /\ UNCHANGED <<cfg, closed, store, snapshot, open, opened, ops, reader, loopVars, queue, tally>>

OpenStore(h) ==
  /\ call[h].pc = "closed"
  /\ opened < MaxOpened
  /\ opened' = opened + 1
  /\ open' = open \cup {opened'}
  /\ call' = [call EXCEPT ![h].pc = "opened", ![h].old = opened']
  /\ UNCHANGED <<cfg, closed, store, snapshot, lifecycle, ops, reader, loopVars, queue, tally>>

\* The critical section that publishes the database and its queue.  It checks r.closed
\* once more; only shutdown sets that, and it needs healthLifecycle.
Publish(h) ==
  LET d == call[h].old IN
  /\ call[h].pc = "opened"
  /\ IF NotShutDown
     THEN /\ store' = d
          /\ queue' = [queue EXCEPT ![d] = [length |-> 0, capacity |-> call[h].cfg.queueSize]]
          /\ call' = [call EXCEPT ![h].pc = "published"]
          /\ UNCHANGED <<open, lifecycle>>
     ELSE /\ open' = open \ {d}
          /\ call' = [call EXCEPT ![h] = NoCall]
          /\ lifecycle' = Free
          /\ UNCHANGED <<store, queue>>
  /\ UNCHANGED <<cfg, closed, snapshot, opened, ops, reader, loopVars, tally>>

StartLoops(h) ==
  LET d == call[h].old IN
  /\ call[h].pc = "published"
  /\ loop' = [loop EXCEPT ![d] = "select"]
  /\ worker' = [worker EXCEPT ![d] = "select"]
  /\ call' = [call EXCEPT ![h] = NoCall]
  /\ lifecycle' = Free
  /\ UNCHANGED <<cfg, closed, store, snapshot, open, opened, ops, reader, stopLoop, stopWorker, queue, tally>>

-----------------------------------------------------------------------------
(* usage.handle: enqueueUsage, one critical section *)

Enqueue ==
  /\ tally.sent < MaxEvents
  /\ IF store # None /\ ~closed /\ queue[store].length < queue[store].capacity
     THEN /\ queue' = [queue EXCEPT ![store].length = @ + 1]
          /\ tally' = [tally EXCEPT !.sent = @ + 1]
     ELSE /\ tally' = [tally EXCEPT !.sent = @ + 1, !.dropped = @ + 1]
          /\ UNCHANGED queue
  /\ UNCHANGED <<cfg, closed, store, snapshot, open, opened, hostVars, ops, reader, loopVars>>

-----------------------------------------------------------------------------
(* healthLoop and webhookLoop of database d *)

At(d, from, to) == loop[d] = from /\ loop' = [loop EXCEPT ![d] = to]

HasEvent(d) == queue[d].length > 0

TakeEvent(d) ==
  /\ At(d, "select", "recording")
  /\ HasEvent(d)
  /\ queue' = [queue EXCEPT ![d].length = @ - 1]
  /\ UNCHANGED <<cfg, closed, store, snapshot, open, opened, hostVars, ops, reader, worker, stopLoop, stopWorker, tally>>

\* store.record, without healthOps; a recorded event is followed by a refresh.
Record(d) ==
  /\ At(d, "recording", "refresh")
  /\ tally' = [tally EXCEPT !.recorded = @ + 1]
  /\ UNCHANGED <<cfg, closed, store, snapshot, open, opened, hostVars, ops, reader, worker, stopLoop, stopWorker, queue>>

RecordFails(d) ==
  /\ At(d, "recording", "select")
  /\ tally' = [tally EXCEPT !.failed = @ + 1]
  /\ UNCHANGED <<cfg, closed, store, snapshot, open, opened, hostVars, ops, reader, worker, stopLoop, stopWorker, queue>>

RefreshTick(d) ==
  /\ At(d, "select", "refresh")
  /\ UNCHANGED <<cfg, closed, store, snapshot, open, opened, hostVars, ops, reader, worker, stopLoop, stopWorker, queue, tally>>

\* The loop's refresh takes whatever database is published, which is none when the
\* loop is being stopped.
LoopRefresh(d) ==
  /\ OpsFree
  /\ IF store = None
     THEN At(d, "refresh", "select") /\ UNCHANGED ops
     ELSE At(d, "refresh", "refreshing") /\ ops' = "loop"
  /\ UNCHANGED <<cfg, closed, store, snapshot, open, opened, hostVars, reader, worker, stopLoop, stopWorker, queue, tally>>

\* The snapshot is replaced, or the listing or a query failed.
LoopRefreshed(d) ==
  /\ At(d, "refreshing", "select")
  /\ ops' = Free
  /\ snapshot' \in {snapshot, d}
  /\ UNCHANGED <<cfg, closed, store, open, opened, hostVars, reader, worker, stopLoop, stopWorker, queue, tally>>

\* The history timer saves the snapshot, if there is one, to the loop's database.
HistoryTick(d) ==
  /\ At(d, "select", "saving")
  /\ snapshot # None
  /\ UNCHANGED <<cfg, closed, store, snapshot, open, opened, hostVars, ops, reader, worker, stopLoop, stopWorker, queue, tally>>

Saved(d) ==
  /\ At(d, "saving", "select")
  /\ UNCHANGED <<cfg, closed, store, snapshot, open, opened, hostVars, ops, reader, worker, stopLoop, stopWorker, queue, tally>>

LoopReturns(d) ==
  /\ d \in stopLoop
  /\ At(d, "select", "done")
  /\ UNCHANGED <<cfg, closed, store, snapshot, open, opened, hostVars, ops, reader, worker, stopLoop, stopWorker, queue, tally>>

\* The worker's iterations (modelled in PoolAlert) use the database as well.
Deliver(d) ==
  /\ \/ worker[d] = "select" /\ worker' = [worker EXCEPT ![d] = "delivering"]
     \/ worker[d] = "delivering" /\ worker' = [worker EXCEPT ![d] = "select"]
  /\ UNCHANGED <<cfg, closed, store, snapshot, open, opened, hostVars, ops, reader, loop, stopLoop, stopWorker, queue, tally>>

WorkerReturns(d) ==
  /\ d \in stopWorker
  /\ worker[d] = "select"
  /\ worker' = [worker EXCEPT ![d] = "done"]
  /\ UNCHANGED <<cfg, closed, store, snapshot, open, opened, hostVars, ops, reader, loop, stopLoop, stopWorker, queue, tally>>

-----------------------------------------------------------------------------
(* refreshHealth of a management request (stored listings hold healthOps too) *)

\* Without a database or with a fresh snapshot the request is answered at once and
\* nothing changes; otherwise it keeps healthOps while the host lists its accounts.
ReaderRefresh(r) ==
  /\ reader[r].pc = "idle"
  /\ OpsFree
  /\ store # None
  /\ ops' = r
  /\ reader' = [reader EXCEPT ![r] = [pc |-> "refreshing", db |-> store]]
  /\ UNCHANGED <<cfg, closed, store, snapshot, open, opened, hostVars, loopVars, queue, tally>>

ReaderRefreshed(r) ==
  /\ reader[r].pc = "refreshing"
  /\ ops' = Free
  /\ snapshot' \in {snapshot, reader[r].db}
  /\ reader' = [reader EXCEPT ![r] = [pc |-> "idle", db |-> None]]
  /\ UNCHANGED <<cfg, closed, store, open, opened, hostVars, loopVars, queue, tally>>

-----------------------------------------------------------------------------
HostStep(h) == Unpublish(h) \/ LoopStopped(h) \/ Drain(h) \/ Close(h) \/ OpenFails(h) \/ OpenStore(h)
               \/ Publish(h) \/ StartLoops(h)
LoopStep(d) == TakeEvent(d) \/ Record(d) \/ RecordFails(d) \/ RefreshTick(d) \/ LoopRefresh(d)
               \/ LoopRefreshed(d) \/ HistoryTick(d) \/ Saved(d) \/ LoopReturns(d)

Next ==
  \/ \E h \in Host : HostStep(h) \/ Shutdown(h) \/ \E k \in Config : ApplyConfig(h, k)
  \/ \E d \in Db : LoopStep(d) \/ Deliver(d) \/ WorkerReturns(d)
  \/ \E r \in Reader : ReaderRefresh(r) \/ ReaderRefreshed(r)
  \/ Enqueue

Spec == Init /\ [][Next]_vars

\* Goroutines run and the calls they make return; Go's mutexes are starvation-free,
\* and a select whose stop channel is ready does not pass it over for ever.
FairSpec ==
  /\ Spec
  /\ \A h \in Host : WF_vars(HostStep(h)) /\ SF_vars(Unpublish(h)) /\ SF_vars(Close(h))
  /\ \A d \in Db : /\ WF_vars(LoopStep(d)) /\ SF_vars(LoopRefresh(d)) /\ SF_vars(LoopReturns(d))
                   /\ WF_vars(Deliver(d)) /\ SF_vars(WorkerReturns(d))
  /\ \A r \in Reader : WF_vars(ReaderRefreshed(r))

-----------------------------------------------------------------------------
(* Properties *)

Live(d) == loop[d] \notin {"none", "done"} \/ worker[d] \notin {"none", "done"}

\* Nothing uses a database that has been closed: not the loop, which records without
\* healthOps, nor the worker, nor a request whose refresh began before the change.
NoUseAfterClose ==
  /\ \A d \in Db : Live(d) => d \in open
  /\ \A r \in Reader : reader[r].pc = "refreshing" => reader[r].db \in open

\* "configureHealth serializes stop, drain, close, open, and start": there are never
\* two open databases, and a running loop's refresh works on its own one.
OneDatabase ==
  /\ Cardinality(open) <= 1
  /\ \A d \in Db : loop[d] = "refreshing" /\ store # None => store = d

\* "A queue is only visible while its owner loop and database are live": what is
\* published is open, not being stopped, and running or about to.
PublishedIsLive ==
  store # None =>
    /\ store \in open
    /\ store \notin stopLoop \cup stopWorker
    /\ loop[store] # "none" \/ \E h \in Host : call[h].pc = "published" /\ call[h].old = store

\* Every usage event is recorded, failed, dropped and counted, queued, or in the hands
\* of the loop: a reconfiguration loses none silently.
Waiting(d) == queue[d].length + IF loop[d] = "recording" THEN 1 ELSE 0
Total[n \in Db \cup {None}] == IF n = 0 THEN 0 ELSE Waiting(n) + Total[n - 1]
EventsConserved == tally.sent = tally.recorded + tally.failed + tally.dropped + Total[MaxOpened]

\* A snapshot computed from an older database never replaces one from a newer one.
SnapshotsAdvance == [][snapshot' # None => snapshot' >= snapshot]_vars

\* Every lifecycle call returns, although it waits for the loop, the worker, and
\* whoever holds healthOps.
LifecycleReturns == \A h \in Host : call[h].pc # "idle" ~> call[h].pc = "idle"
=============================================================================
