------------------------- MODULE HealthRuntimeProofs -------------------------
(***************************************************************************)
(* The lifecycle of the health monitor, for any number of host threads,    *)
(* requests, configurations and databases.  The inductive invariant says   *)
(* what the holder of healthLifecycle has done so far and what is open     *)
(* while nobody holds it.                                                  *)
(***************************************************************************)
EXTENDS HealthRuntime, Facts, FiniteSetTheorems, TLAPS

WorkerPoints == {"none", "select", "delivering", "done"}
Queue == [length : Nat, capacity : Nat]
Tally == [sent : Nat, recorded : Nat, failed : Nat, dropped : Nat]

Types ==
  /\ cfg \in Config /\ closed \in BOOLEAN
  /\ store \in Db \cup {None} /\ snapshot \in Db \cup {None}
  /\ open \subseteq Db /\ opened \in 0 .. MaxOpened
  /\ call \in [Host -> Call] /\ lifecycle \in Host \cup {Free}
  /\ ops \in Reader \cup {"loop", Free} /\ reader \in [Reader -> Readers]
  /\ loop \in [Db -> LoopPoints] /\ worker \in [Db -> WorkerPoints]
  /\ stopLoop \subseteq Db /\ stopWorker \subseteq Db
  /\ queue \in [Db -> Queue] /\ tally \in Tally

LEMMA TypesAgree == (TypeOK <=> Types) /\ (TypeOK' <=> Types')
BY DEF TypeOK, Types, WorkerPoints, Queue, Tally

LEMMA CallFields ==
  ASSUME NEW p \in CallPoints, NEW b \in BOOLEAN, NEW k \in Config, NEW d \in Db \cup {None}
  PROVE  [pc |-> p, reopen |-> b, cfg |-> k, old |-> d] \in Call
BY DEF Call

LEMMA NoCallFields == NoCall \in Call /\ NoCall.pc = "idle"
<1>1. FALSE \in BOOLEAN /\ "idle" \in CallPoints
  BY Zenon DEF CallPoints
<1>2. NoCall \in Call
  BY <1>1, CallFields, RuntimeAssumption DEF NoCall
<1> QED BY <1>2 DEF NoCall

\* Only the point of a call moves.
LEMMA CallMoves ==
  ASSUME call \in [Host -> Call], NEW h \in Host, NEW p \in CallPoints,
         call' = [call EXCEPT ![h].pc = p]
  PROVE  /\ call' \in [Host -> Call]
         /\ call'[h].pc = p /\ call'[h].old = call[h].old /\ call'[h].reopen = call[h].reopen
         /\ call'[h].cfg = call[h].cfg
         /\ \A g \in Host \ {h} : call'[g] = call[g]
BY DEF Call

LEMMA CallEnds ==
  ASSUME call \in [Host -> Call], NEW h \in Host, NEW c \in Call, call' = [call EXCEPT ![h] = c]
  PROVE  /\ call' \in [Host -> Call] /\ call'[h] = c
         /\ \A g \in Host \ {h} : call'[g] = call[g]
OBVIOUS

\* What Unpublish makes of the call: it remembers the database it took.
LEMMA CallTakes ==
  ASSUME Types, NEW h \in Host, Unpublish(h)
  PROVE  /\ call' \in [Host -> Call]
         /\ call'[h].pc = "stopping" /\ call'[h].old = store
         /\ \A g \in Host \ {h} : call'[g] = call[g]
<1> DEFINE b == call[h].reopen /\ NotShutDown /\ call[h].cfg.database
<1>1. call \in [Host -> Call] /\ store \in Db \cup {None}
  BY DEF Types
<1>2. b \in BOOLEAN
  BY Zenon
<1>3. call' = [call EXCEPT ![h].pc = "stopping", ![h].old = store, ![h].reopen = b]
  BY DEF Unpublish
<1> HIDE DEF b
<1>4. "stopping" \in CallPoints
  BY DEF CallPoints
<1> QED BY <1>1, <1>2, <1>3, <1>4 DEF Call

-----------------------------------------------------------------------------
LEMMA HostTypes ==
  ASSUME Types, NEW h \in Host, HostStep(h)
  PROVE  Types'
<1>0. call \in [Host -> Call] /\ call[h] \in Call /\ call[h].old \in Db \cup {None}
      /\ call[h].cfg \in Config
  BY DEF Types, Call
<1>1. CASE Unpublish(h)
  <2>1. TRUE \in BOOLEAN /\ FALSE \in BOOLEAN
    BY Zenon
  <2>2. closed' \in BOOLEAN
    BY <1>1, <2>1 DEF hostVars, loopVars, Unpublish, Types
  <2>3. stopLoop' \subseteq Db /\ snapshot' \in Db \cup {None} /\ store' \in Db \cup {None}
    BY <1>1 DEF hostVars, loopVars, Unpublish, Signal, Unpublished, Types
  <2> QED BY <1>1, <2>2, <2>3, CallTakes DEF hostVars, loopVars, Unpublish, Types
<1>2. CASE LoopStopped(h)
  <2>1. call' \in [Host -> Call] /\ stopWorker' \subseteq Db
    BY <1>0, <1>2, CallMoves DEF hostVars, loopVars, LoopStopped, Signal, CallPoints, Types
  <2> QED BY <1>2, <2>1 DEF hostVars, loopVars, LoopStopped, Types
<1>3. CASE Drain(h)
  <2>1. call' \in [Host -> Call]
    BY <1>0, <1>3, CallMoves DEF Drain, CallPoints
  <2>2. queue' \in [Db -> Queue]
    BY <1>0, <1>3 DEF Drain, Types, Queue
  <2>3. tally' \in Tally
    <3>1. CASE call[h].old = None
      BY <1>3, <3>1 DEF Drain, Types
    <3>2. CASE call[h].old # None
      <4>1. queue[call[h].old].length \in Nat
        BY <1>0, <3>2 DEF Types, Queue
      <4>2. tally' = [tally EXCEPT !.dropped = @ + queue[call[h].old].length]
        BY <1>3, <3>2 DEF Drain, CountDropped
      <4> QED BY <4>1, <4>2 DEF Types, Tally
    <3> QED BY <3>1, <3>2
  <2> QED BY <1>3, <2>1, <2>2, <2>3 DEF hostVars, loopVars, Drain, Types
<1>4. CASE Close(h)
  <2>1. call' \in [Host -> Call] /\ lifecycle' \in Host \cup {Free}
    BY <1>0, <1>4, CallMoves, CallEnds, NoCallFields DEF hostVars, loopVars, Close, CallPoints, Types
  <2> QED BY <1>4, <2>1 DEF hostVars, loopVars, Close, Types
<1>5. CASE OpenFails(h)
  <2>1. call' \in [Host -> Call]
    BY <1>0, <1>5, CallEnds, NoCallFields DEF OpenFails
  <2> QED BY <1>5, <2>1 DEF hostVars, loopVars, OpenFails, Types
<1>6. CASE OpenStore(h)
  <2>1. opened' \in Db /\ opened' \in 0 .. MaxOpened
    BY <1>6, RuntimeAssumption DEF hostVars, loopVars, OpenStore, Types, Db
  <2>2. call' \in [Host -> Call]
    BY <1>0, <1>6, <2>1 DEF OpenStore, Call, CallPoints
  <2> QED BY <1>6, <2>1, <2>2 DEF hostVars, loopVars, OpenStore, Types
<1>7. CASE Publish(h)
  <2>1. call' \in [Host -> Call]
    BY <1>0, <1>7, CallMoves, CallEnds, NoCallFields DEF Publish, CallPoints
  <2>2. queue' \in [Db -> Queue]
    BY <1>0, <1>7, RuntimeAssumption DEF hostVars, loopVars, Publish, Types, Queue
  <2>3. lifecycle' \in Host \cup {Free} /\ store' \in Db \cup {None} /\ open' \subseteq Db
    BY <1>0, <1>7 DEF hostVars, loopVars, Publish, Types
  <2> QED BY <1>7, <2>1, <2>2, <2>3 DEF hostVars, loopVars, Publish, Types
<1>8. CASE StartLoops(h)
  <2>1. call' \in [Host -> Call]
    BY <1>0, <1>8, CallEnds, NoCallFields DEF StartLoops
  <2>2. loop' \in [Db -> LoopPoints] /\ worker' \in [Db -> WorkerPoints]
    BY <1>8 DEF hostVars, loopVars, StartLoops, Types, LoopPoints, WorkerPoints
  <2> QED BY <1>8, <2>1, <2>2 DEF hostVars, loopVars, StartLoops, Types
<1> QED BY <1>1, <1>2, <1>3, <1>4, <1>5, <1>6, <1>7, <1>8 DEF HostStep

LEMMA LoopTypes ==
  ASSUME Types, NEW d \in Db, LoopStep(d) \/ Deliver(d) \/ WorkerReturns(d)
  PROVE  Types'
<1>1. ASSUME TakeEvent(d) \/ Record(d) \/ RecordFails(d) PROVE Types'
  <2>1. loop' \in [Db -> LoopPoints]
    BY <1>1 DEF hostVars, loopVars, TakeEvent, Record, RecordFails, At, Types, LoopPoints
  <2>2. queue' \in [Db -> Queue]
    BY <1>1 DEF hostVars, loopVars, TakeEvent, Record, RecordFails, HasEvent, Types, Queue
  <2>3. tally' \in Tally
    BY <1>1 DEF hostVars, loopVars, TakeEvent, Record, RecordFails, Types, Tally
  <2> QED BY <1>1, <2>1, <2>2, <2>3 DEF hostVars, loopVars, TakeEvent, Record, RecordFails, Types
<1>2. ASSUME RefreshTick(d) \/ HistoryTick(d) \/ Saved(d) \/ LoopReturns(d) PROVE Types'
  BY <1>2 DEF hostVars, loopVars, RefreshTick, HistoryTick, Saved, LoopReturns, At, Types, LoopPoints
<1>3. ASSUME LoopRefresh(d) \/ LoopRefreshed(d) PROVE Types'
  <2>1. /\ loop' \in [Db -> LoopPoints] /\ ops' \in Reader \cup {"loop", Free}
        /\ snapshot' \in Db \cup {None}
    BY <1>3 DEF hostVars, loopVars, LoopRefresh, LoopRefreshed, At, Types, LoopPoints
  <2> QED BY <1>3, <2>1 DEF hostVars, loopVars, LoopRefresh, LoopRefreshed, Types
<1>4. ASSUME Deliver(d) \/ WorkerReturns(d) PROVE Types'
  <2>1. worker' \in [Db -> WorkerPoints]
    BY <1>4 DEF Deliver, WorkerReturns, Types, WorkerPoints
  <2> QED BY <1>4, <2>1 DEF hostVars, loopVars, Deliver, WorkerReturns, Types
<1> QED BY <1>1, <1>2, <1>3, <1>4 DEF LoopStep

LEMMA OtherTypes ==
  ASSUME Types,
         \/ \E h \in Host : Shutdown(h) \/ \E k \in Config : ApplyConfig(h, k)
         \/ \E r \in Reader : ReaderRefresh(r) \/ ReaderRefreshed(r)
         \/ Enqueue \/ UNCHANGED vars
  PROVE  Types'
<1>1. ASSUME NEW h \in Host, Shutdown(h) PROVE Types'
  <2>1. FALSE \in BOOLEAN /\ "waiting" \in CallPoints /\ cfg \in Config /\ None \in Db \cup {None}
    BY Zenon DEF Types, CallPoints
  <2>2. call' \in [Host -> Call]
    BY <1>1, <2>1, CallFields, CallEnds DEF hostVars, loopVars, Shutdown, Types
  <2> QED BY <1>1, <2>2 DEF hostVars, loopVars, Shutdown, Types
<1>2. ASSUME NEW h \in Host, NEW k \in Config, ApplyConfig(h, k) PROVE Types'
  <2>1. TRUE \in BOOLEAN /\ FALSE \in BOOLEAN /\ "waiting" \in CallPoints /\ None \in Db \cup {None}
    BY Zenon DEF CallPoints
  <2>2. call' \in [Host -> Call]
    BY <1>2, <2>1, CallFields, CallEnds DEF hostVars, loopVars, ApplyConfig, Types
  <2>3. closed' \in BOOLEAN
    BY <1>2, <2>1 DEF ApplyConfig
  <2> QED BY <1>2, <2>2, <2>3 DEF hostVars, loopVars, ApplyConfig, Types
<1>3. ASSUME NEW r \in Reader, ReaderRefresh(r) \/ ReaderRefreshed(r) PROVE Types'
  <2>1. reader' \in [Reader -> Readers]
    BY <1>3 DEF hostVars, loopVars, ReaderRefresh, ReaderRefreshed, Readers, Types
  <2>2. snapshot' \in Db \cup {None} /\ ops' \in Reader \cup {"loop", Free}
    BY <1>3 DEF hostVars, loopVars, ReaderRefresh, ReaderRefreshed, Readers, Types
  <2> QED BY <1>3, <2>1, <2>2 DEF hostVars, loopVars, ReaderRefresh, ReaderRefreshed, Types
<1>4. CASE Enqueue
  <2>1. queue' \in [Db -> Queue]
    BY <1>4 DEF Enqueue, Types, Queue
  <2>2. tally' \in Tally
    <3>1. CASE tally' = [tally EXCEPT !.sent = @ + 1]
      BY <3>1 DEF Types, Tally
    <3>2. CASE tally' = [tally EXCEPT !.sent = @ + 1, !.dropped = @ + 1]
      <4>1. tally \in Tally /\ tally.sent + 1 \in Nat /\ tally.dropped + 1 \in Nat
        BY DEF Types, Tally
      <4>2. tally' = [tally EXCEPT !.sent = tally.sent + 1, !.dropped = tally.dropped + 1]
        BY <3>2, Zenon
      <4> QED BY <4>1, <4>2 DEF Tally
    <3> QED BY <1>4, <3>1, <3>2 DEF Enqueue
  <2> QED BY <1>4, <2>1, <2>2 DEF Enqueue, Types, hostVars, loopVars
<1>5. CASE UNCHANGED vars
  BY <1>5 DEF vars, hostVars, loopVars, Types
<1> QED BY <1>1, <1>2, <1>3, <1>4, <1>5

\* Every variable keeps its type.
THEOREM TypeCorrect == Spec => []TypeOK
<1>1. Init => TypeOK
  <2> SUFFICES ASSUME Init PROVE TypeOK
    OBVIOUS
  <2>1. FALSE \in BOOLEAN
    BY Zenon
  <2>2. closed \in BOOLEAN /\ call \in [Host -> Call]
    BY <2>1, NoCallFields DEF Init
  <2> QED BY <2>2, RuntimeAssumption DEF Init, TypeOK, Readers, LoopPoints
<1>2. TypeOK /\ [Next]_vars => TypeOK'
  <2> SUFFICES ASSUME Types, [Next]_vars PROVE TypeOK'
    BY TypesAgree
  <2>1. ASSUME NEW h \in Host, HostStep(h) PROVE TypeOK'
    BY <2>1, HostTypes, TypesAgree
  <2>2. ASSUME NEW d \in Db, LoopStep(d) \/ Deliver(d) \/ WorkerReturns(d) PROVE TypeOK'
    BY <2>2, LoopTypes, TypesAgree
  <2>3. CASE \/ \E h \in Host : Shutdown(h) \/ \E k \in Config : ApplyConfig(h, k)
             \/ \E r \in Reader : ReaderRefresh(r) \/ ReaderRefreshed(r)
             \/ Enqueue \/ UNCHANGED vars
    BY <2>3, OtherTypes, TypesAgree
  <2> QED BY <2>1, <2>2, <2>3 DEF Next
<1> QED BY <1>1, <1>2, PTL DEF Spec

-----------------------------------------------------------------------------
\* A database whose loop and worker were never started or told to stop.
Fresh(d) ==
  loop[d] = "none" /\ worker[d] = "none" /\ d \notin stopLoop /\ d \notin stopWorker

Only(d) == {d} \ {None}

\* What is open, published and running at each point of the call that holds healthLifecycle.
PhaseOK(c) ==
  /\ c.pc \in {"stopping", "stopped", "drained"} => store = None /\ open = Only(c.old)
  /\ c.pc \in {"stopped", "drained"} /\ c.old # None => loop[c.old] = "done"
  /\ c.pc = "drained" /\ c.old # None => worker[c.old] = "done"
  /\ c.pc = "closed" => store = None /\ open = {} /\ ops = Free
  /\ c.pc = "opened" => store = None /\ ops = Free
  /\ c.pc = "published" => store = c.old
  /\ c.pc \in {"opened", "published"} => c.old \in Db /\ open = {c.old} /\ Fresh(c.old)

Holding == \A h \in Host : lifecycle = h <=> call[h].pc \notin {"idle", "waiting"}
Phases == \A h \in Host : PhaseOK(call[h])
Resting == lifecycle = Free => open = Only(store)
\* The open database is the last one that was opened; the next ones are untouched.
Numbered ==
  /\ open \subseteq {opened} /\ snapshot <= opened
  /\ \A d \in Db : d > opened => Fresh(d)
Lives == \A d \in Db : Live(d) => d \in open
Refreshing ==
  /\ \A r \in Reader : reader[r].pc = "refreshing" => ops = r /\ reader[r].db \in open
  /\ \A d \in Db : loop[d] = "refreshing" => ops = "loop"

RuntimeInv == Holding /\ Phases /\ Resting /\ Numbered /\ Lives /\ Refreshing /\ PublishedIsLive

LEMMA Free1 == Free \notin Host /\ Free \notin Reader /\ Free # "loop" /\ "loop" \notin Reader
BY RuntimeAssumption DEF Free

\* Only the holder of healthLifecycle is past "waiting".
LEMMA Others ==
  ASSUME Types, RuntimeInv, NEW h \in Host, lifecycle \in {h, Free}
  PROVE  \A g \in Host \ {h} : call[g].pc \in {"idle", "waiting"}
BY Free1 DEF RuntimeInv, Holding, Types

LEMMA IdlePhase ==
  ASSUME NEW h \in Host, call'[h].pc \in {"idle", "waiting"}
  PROVE  PhaseOK(call[h])'
BY DEF PhaseOK

LEMMA CallTypes ==
  ASSUME Types, NEW h \in Host
  PROVE  /\ call \in [Host -> Call] /\ call[h] \in Call
         /\ call[h].old \in Db \cup {None} /\ call[h].pc \in CallPoints
BY DEF Types, Call

\* A step of the holder that keeps the lock: only its own phase is to be shown.
LEMMA StepsOn ==
  ASSUME Types, RuntimeInv, NEW h \in Host, lifecycle \in {h, Free}, lifecycle' = h,
         call'[h].pc \notin {"idle", "waiting"}, PhaseOK(call[h])',
         \A g \in Host \ {h} : call'[g] = call[g]
  PROVE  Holding' /\ Phases' /\ Resting'
<1>1. \A g \in Host \ {h} : call'[g].pc \in {"idle", "waiting"}
  BY Others
<1>2. Holding'
  BY <1>1 DEF Holding
<1>3. Phases'
  <2> SUFFICES ASSUME NEW g \in Host PROVE PhaseOK(call[g])'
    BY DEF Phases
  <2>1. CASE g = h
    BY <2>1
  <2>2. CASE g # h
    BY <2>2, <1>1, IdlePhase
  <2> QED BY <2>1, <2>2
<1>4. Resting'
  BY Free1 DEF Resting
<1> QED BY <1>2, <1>3, <1>4

\* The holder's last step: what is open must be what is published.
LEMMA Releases ==
  ASSUME Types, RuntimeInv, NEW h \in Host, lifecycle = h, lifecycle' = Free,
         call'[h] = NoCall, open' = Only(store'), \A g \in Host \ {h} : call'[g] = call[g]
  PROVE  Holding' /\ Phases' /\ Resting'
<1>1. \A g \in Host : call'[g].pc \in {"idle", "waiting"}
  <2>1. \A g \in Host \ {h} : call'[g].pc \in {"idle", "waiting"}
    BY Others
  <2> QED BY <2>1, NoCallFields
<1>2. Holding'
  BY <1>1, Free1 DEF Holding
<1>3. Phases'
  <2> SUFFICES ASSUME NEW g \in Host PROVE PhaseOK(call[g])'
    BY DEF Phases
  <2> QED BY <1>1, IdlePhase
<1>4. Resting'
  BY DEF Resting, Only
<1> QED BY <1>2, <1>3, <1>4

-----------------------------------------------------------------------------
\* Nothing but the calls, the lock and who holds it: what the rest of the invariant reads.
LEMMA Steady ==
  ASSUME RuntimeInv, UNCHANGED <<open, opened, snapshot, store, ops, reader, loopVars>>
  PROVE  Numbered' /\ Lives' /\ Refreshing'
BY DEF RuntimeInv, Numbered, Lives, Refreshing, Live, Fresh, loopVars

LEMMA UnpublishStep ==
  ASSUME Types, RuntimeInv, NEW h \in Host, Unpublish(h)
  PROVE  RuntimeInv'
<1>1. /\ lifecycle = Free /\ lifecycle' = h /\ store' = None
      /\ stopLoop' = stopLoop \cup Only(store) /\ snapshot' \in {snapshot, None}
      /\ UNCHANGED <<open, opened, ops, reader, loop, worker, stopWorker>>
  BY DEF Unpublish, LifecycleFree, Unpublished, Signal, Only
<1>2. /\ call'[h].pc = "stopping" /\ call'[h].old = store
      /\ \A g \in Host \ {h} : call'[g] = call[g]
  BY CallTakes, TypesAgree
<1>3. PhaseOK(call[h])'
  BY <1>1, <1>2 DEF PhaseOK, RuntimeInv, Resting, Only
<1>4. Holding' /\ Phases' /\ Resting'
  BY <1>1, <1>2, <1>3, StepsOn
<1>5. Numbered'
  <2>1. store # None => store <= opened
    BY DEF RuntimeInv, PublishedIsLive, Numbered, Types
  <2>2. snapshot' <= opened /\ opened \in Nat
    BY <1>1 DEF RuntimeInv, Numbered, Types, None
  <2>3. \A d \in Db : d > opened => d \notin Only(store)
    BY <2>1, <2>2 DEF Only, Db, Types
  <2> QED BY <1>1, <2>2, <2>3 DEF RuntimeInv, Numbered, Fresh
<1>6. Lives' /\ Refreshing'
  BY <1>1 DEF RuntimeInv, Lives, Live, Refreshing
<1>7. PublishedIsLive'
  BY <1>1 DEF PublishedIsLive
<1> QED BY <1>4, <1>5, <1>6, <1>7 DEF RuntimeInv

LEMMA HolderFacts ==
  ASSUME Types, RuntimeInv, NEW h \in Host, call[h].pc \notin {"idle", "waiting"}
  PROVE  lifecycle = h /\ PhaseOK(call[h]) /\ opened \in Nat
BY DEF RuntimeInv, Holding, Phases, Types

LEMMA LoopStoppedStep ==
  ASSUME Types, RuntimeInv, NEW h \in Host, LoopStopped(h)
  PROVE  RuntimeInv'
<1>1. /\ call[h].pc = "stopping"
      /\ call[h].old # None => loop[call[h].old] = "done"
      /\ stopWorker' = stopWorker \cup Only(call[h].old)
      /\ call' = [call EXCEPT ![h].pc = "stopped"]
      /\ UNCHANGED <<store, snapshot, open, opened, lifecycle, ops, reader, loop, worker, stopLoop>>
  BY DEF LoopStopped, Signal, Only
<1>2. /\ lifecycle = h /\ PhaseOK(call[h]) /\ opened \in Nat
      /\ store = None /\ open = Only(call[h].old)
  <2>1. lifecycle = h /\ PhaseOK(call[h]) /\ opened \in Nat
    BY <1>1, HolderFacts
  <2> QED BY <1>1, <2>1 DEF PhaseOK
<1>3. /\ call'[h].pc = "stopped" /\ call'[h].old = call[h].old
      /\ \A g \in Host \ {h} : call'[g] = call[g]
  BY <1>1, CallTypes, CallMoves DEF CallPoints
<1>4. PhaseOK(call[h])'
  <2>1. /\ call'[h].pc = "stopped" /\ store' = None /\ open' = Only(call'[h].old)
        /\ call'[h].old # None => loop'[call'[h].old] = "done"
    BY <1>1, <1>2, <1>3
  <2> QED BY <2>1 DEF PhaseOK
<1>5. Holding' /\ Phases' /\ Resting'
  BY <1>1, <1>2, <1>3, <1>4, StepsOn
<1>6. Numbered'
  <2>1. \A d \in Db : d > opened => d \notin Only(call[h].old)
    BY <1>2 DEF RuntimeInv, Numbered, Db
  <2> QED BY <1>1, <2>1 DEF RuntimeInv, Numbered, Fresh
<1>7. Lives' /\ Refreshing'
  BY <1>1 DEF RuntimeInv, Lives, Live, Refreshing
<1>8. PublishedIsLive'
  BY <1>1, <1>2 DEF PublishedIsLive
<1> QED BY <1>5, <1>6, <1>7, <1>8 DEF RuntimeInv

LEMMA DrainStep ==
  ASSUME Types, RuntimeInv, NEW h \in Host, Drain(h)
  PROVE  RuntimeInv'
<1>1. /\ call[h].pc = "stopped"
      /\ call[h].old # None => worker[call[h].old] = "done"
      /\ call' = [call EXCEPT ![h].pc = "drained"] /\ UNCHANGED loopVars
      /\ UNCHANGED <<store, snapshot, open, opened, lifecycle, ops, reader, loop, worker, stopLoop, stopWorker>>
  BY DEF Drain, loopVars
<1>2. /\ lifecycle = h /\ store = None /\ open = Only(call[h].old)
      /\ call[h].old # None => loop[call[h].old] = "done"
  <2>1. lifecycle = h /\ PhaseOK(call[h]) /\ opened \in Nat
    BY <1>1, HolderFacts
  <2> QED BY <1>1, <2>1 DEF PhaseOK
<1>3. /\ call'[h].pc = "drained" /\ call'[h].old = call[h].old
      /\ \A g \in Host \ {h} : call'[g] = call[g]
  BY <1>1, CallTypes, CallMoves DEF CallPoints
<1>4. PhaseOK(call[h])'
  <2>1. /\ call'[h].pc = "drained" /\ store' = None /\ open' = Only(call'[h].old)
        /\ call'[h].old # None => loop'[call'[h].old] = "done" /\ worker'[call'[h].old] = "done"
    BY <1>1, <1>2, <1>3
  <2> QED BY <2>1 DEF PhaseOK
<1>5. Holding' /\ Phases' /\ Resting'
  BY <1>1, <1>2, <1>3, <1>4, StepsOn
<1>6. PublishedIsLive'
  BY <1>1, <1>2 DEF PublishedIsLive
<1> QED BY <1>1, <1>5, <1>6, Steady DEF RuntimeInv

\* The database is closed only when its loop and worker have returned and nobody
\* holds healthOps.
LEMMA CloseStep ==
  ASSUME Types, RuntimeInv, NEW h \in Host, Close(h)
  PROVE  RuntimeInv'
<1>1. /\ call[h].pc = "drained" /\ ops = Free /\ open' = open \ {call[h].old}
      /\ UNCHANGED <<store, snapshot, opened, ops, reader, loop, worker, stopLoop, stopWorker>>
  BY DEF Close, OpsFree, loopVars
<1>2. /\ lifecycle = h /\ PhaseOK(call[h]) /\ store = None /\ open = Only(call[h].old)
      /\ call[h].old # None => loop[call[h].old] = "done" /\ worker[call[h].old] = "done"
  BY <1>1, HolderFacts DEF PhaseOK
<1>3. open' = {}
  BY <1>1, <1>2 DEF Only
<1>4. Holding' /\ Phases' /\ Resting'
  <2>1. CASE call[h].reopen
    <3>1. call' = [call EXCEPT ![h].pc = "closed"] /\ lifecycle' = h
      BY <1>2, <2>1 DEF Close
    <3>2. call'[h].pc = "closed" /\ \A g \in Host \ {h} : call'[g] = call[g]
      BY <3>1, CallTypes, CallMoves DEF CallPoints
    <3>3. PhaseOK(call[h])'
      BY <1>1, <1>2, <1>3, <3>2 DEF PhaseOK
    <3> QED BY <1>2, <3>1, <3>2, <3>3, StepsOn
  <2>2. CASE ~call[h].reopen
    <3>1. call' = [call EXCEPT ![h] = NoCall] /\ lifecycle' = Free
      BY <2>2 DEF Close
    <3>2. call'[h] = NoCall /\ \A g \in Host \ {h} : call'[g] = call[g]
      BY <3>1, CallTypes, CallEnds, NoCallFields
    <3>3. open' = Only(store')
      BY <1>1, <1>2, <1>3 DEF Only
    <3> QED BY <1>2, <3>1, <3>2, <3>3, Releases
  <2> QED BY <2>1, <2>2
<1>5. Numbered'
  BY <1>1, <1>3 DEF RuntimeInv, Numbered, Fresh
<1>6. Lives'
  <2>1. \A d \in Db : Live(d) => d = call[h].old /\ d # None
    BY <1>2 DEF RuntimeInv, Lives, Only
  <2>2. \A d \in Db : ~Live(d)
    BY <1>2, <2>1 DEF Live
  <2> QED BY <1>1, <2>2 DEF Lives, Live
<1>7. Refreshing'
  BY <1>1, Free1 DEF RuntimeInv, Refreshing
<1>8. PublishedIsLive'
  BY <1>1, <1>2 DEF PublishedIsLive
<1> QED BY <1>4, <1>5, <1>6, <1>7, <1>8 DEF RuntimeInv

LEMMA OpenFailsStep ==
  ASSUME Types, RuntimeInv, NEW h \in Host, OpenFails(h)
  PROVE  RuntimeInv'
<1>1. /\ call[h].pc = "closed" /\ call' = [call EXCEPT ![h] = NoCall] /\ lifecycle' = Free
      /\ UNCHANGED <<open, opened, snapshot, store, ops, reader, loopVars>>
  BY DEF OpenFails
<1>2. lifecycle = h /\ store = None /\ open = {}
  BY <1>1, HolderFacts DEF PhaseOK
<1>3. call'[h] = NoCall /\ \A g \in Host \ {h} : call'[g] = call[g]
  BY <1>1, CallTypes, CallEnds, NoCallFields
<1>4. open' = Only(store')
  BY <1>1, <1>2 DEF Only
<1>5. Holding' /\ Phases' /\ Resting'
  BY <1>1, <1>2, <1>3, <1>4, Releases
<1>6. PublishedIsLive'
  BY <1>1, <1>2 DEF PublishedIsLive
<1> QED BY <1>1, <1>5, <1>6, Steady DEF RuntimeInv

LEMMA OpenStoreStep ==
  ASSUME Types, RuntimeInv, NEW h \in Host, OpenStore(h)
  PROVE  RuntimeInv'
<1>1. /\ call[h].pc = "closed" /\ opened < MaxOpened /\ opened' = opened + 1
      /\ open' = open \cup {opened'}
      /\ call' = [call EXCEPT ![h].pc = "opened", ![h].old = opened']
      /\ UNCHANGED <<store, snapshot, lifecycle, ops, reader, loop, worker, stopLoop, stopWorker>>
  BY DEF OpenStore, loopVars
<1>2. /\ lifecycle = h /\ store = None /\ open = {} /\ ops = Free /\ opened \in Nat
  BY <1>1, HolderFacts DEF PhaseOK
<1>3. open' = {opened'} /\ opened' \in Db /\ opened' > opened
  BY <1>1, <1>2, RuntimeAssumption DEF Db
<1>4. /\ call'[h].pc = "opened" /\ call'[h].old = opened'
      /\ \A g \in Host \ {h} : call'[g] = call[g]
  BY <1>1, <1>3, CallTypes DEF Call
<1>5. Fresh(opened')
  BY <1>3 DEF RuntimeInv, Numbered
<1>6. PhaseOK(call[h])'
  <2>1. /\ call'[h].pc = "opened" /\ store' = None /\ ops' = Free /\ call'[h].old \in Db
        /\ open' = {call'[h].old}
    BY <1>1, <1>2, <1>3, <1>4
  <2>2. Fresh(call[h].old)'
    BY <1>1, <1>4, <1>5 DEF Fresh
  <2> QED BY <2>1, <2>2 DEF PhaseOK
<1>7. Holding' /\ Phases' /\ Resting'
  BY <1>1, <1>2, <1>4, <1>6, StepsOn
<1>8. Numbered'
  <2>1. snapshot' <= opened' /\ \A d \in Db : d > opened' => d > opened
    BY <1>1, <1>2, <1>3 DEF RuntimeInv, Numbered, Db, Types, None
  <2> QED BY <1>1, <1>3, <2>1 DEF RuntimeInv, Numbered, Fresh
<1>9. Lives' /\ Refreshing'
  BY <1>1, <1>2 DEF RuntimeInv, Lives, Live, Refreshing
<1>10. PublishedIsLive'
  BY <1>1, <1>2 DEF PublishedIsLive
<1> QED BY <1>7, <1>8, <1>9, <1>10 DEF RuntimeInv

LEMMA PublishStep ==
  ASSUME Types, RuntimeInv, NEW h \in Host, Publish(h)
  PROVE  RuntimeInv'
<1> DEFINE d == call[h].old
<1>1. /\ call[h].pc = "opened"
      /\ UNCHANGED <<snapshot, opened, ops, reader, loop, worker, stopLoop, stopWorker>>
      /\ UNCHANGED loopVars
  BY DEF Publish, loopVars
<1>2. /\ lifecycle = h /\ store = None /\ ops = Free
      /\ d \in Db /\ open = {d} /\ Fresh(d)
  BY <1>1, HolderFacts DEF PhaseOK
<1>3. CASE NotShutDown
  <2>1. /\ store' = d /\ call' = [call EXCEPT ![h].pc = "published"]
        /\ UNCHANGED <<open, lifecycle>>
    BY <1>3 DEF Publish
  <2>2. /\ call'[h].pc = "published" /\ call'[h].old = d
        /\ \A g \in Host \ {h} : call'[g] = call[g]
    BY <2>1, CallTypes, CallMoves DEF CallPoints
  <2>3. PhaseOK(call[h])'
    BY <1>1, <1>2, <2>1, <2>2 DEF PhaseOK, Fresh
  <2>4. Holding' /\ Phases' /\ Resting'
    BY <1>2, <2>1, <2>2, <2>3, StepsOn
  <2>5. Numbered' /\ Lives' /\ Refreshing'
    BY <1>1, <2>1 DEF RuntimeInv, Numbered, Lives, Live, Refreshing, Fresh
  <2>6. PublishedIsLive'
    BY <1>1, <1>2, <2>1, <2>2 DEF PublishedIsLive, Fresh
  <2> QED BY <2>4, <2>5, <2>6 DEF RuntimeInv
<1>4. CASE ~NotShutDown
  <2>1. /\ open' = open \ {d} /\ call' = [call EXCEPT ![h] = NoCall] /\ lifecycle' = Free
        /\ store' = store
    BY <1>4 DEF Publish
  <2>2. call'[h] = NoCall /\ \A g \in Host \ {h} : call'[g] = call[g]
    BY <2>1, CallTypes, CallEnds, NoCallFields
  <2>3. open' = {} /\ open' = Only(store')
    BY <1>2, <2>1 DEF Only
  <2>4. Holding' /\ Phases' /\ Resting'
    BY <1>2, <2>1, <2>2, <2>3, Releases
  <2>5. Numbered'
    BY <1>1, <2>3 DEF RuntimeInv, Numbered, Fresh
  <2>6. Lives' /\ Refreshing'
    <3>1. \A e \in Db : ~Live(e)
      BY <1>2 DEF RuntimeInv, Lives, Live, Fresh
    <3>2. \A r \in Reader : reader[r].pc # "refreshing"
      BY <1>2, Free1 DEF RuntimeInv, Refreshing
    <3>3. \A e \in Db : loop[e] # "refreshing"
      BY <3>1 DEF Live
    <3> QED BY <1>1, <3>1, <3>2, <3>3 DEF Lives, Live, Refreshing
  <2>7. PublishedIsLive'
    BY <1>2, <2>1 DEF PublishedIsLive
  <2> QED BY <2>4, <2>5, <2>6, <2>7 DEF RuntimeInv
<1> QED BY <1>3, <1>4

LEMMA StartLoopsStep ==
  ASSUME Types, RuntimeInv, NEW h \in Host, StartLoops(h)
  PROVE  RuntimeInv'
<1> DEFINE d == call[h].old
<1>1. /\ call[h].pc = "published" /\ loop' = [loop EXCEPT ![d] = "select"]
      /\ worker' = [worker EXCEPT ![d] = "select"]
      /\ call' = [call EXCEPT ![h] = NoCall] /\ lifecycle' = Free
      /\ UNCHANGED <<store, snapshot, open, opened, ops, reader, stopLoop, stopWorker>>
  BY DEF StartLoops
<1>2. lifecycle = h /\ store = d /\ d \in Db /\ open = {d} /\ Fresh(d) /\ opened \in Nat
  BY <1>1, HolderFacts DEF PhaseOK
<1>3. call'[h] = NoCall /\ \A g \in Host \ {h} : call'[g] = call[g]
  BY <1>1, CallTypes, CallEnds, NoCallFields
<1>4. d # None
  BY <1>2 DEF Db, None
<1>5. Holding' /\ Phases' /\ Resting'
  <2>1. open' = Only(store')
    BY <1>1, <1>2, <1>4 DEF Only
  <2> QED BY <1>1, <1>2, <1>3, <2>1, Releases
<1>6. loop'[d] = "select" /\ \A e \in Db \ {d} : loop'[e] = loop[e] /\ worker'[e] = worker[e]
  BY <1>1, <1>2 DEF Types
<1>7. Numbered'
  <2>1. d = opened
    BY <1>2 DEF RuntimeInv, Numbered
  <2>2. \A e \in Db : e > opened => e # d
    BY <1>2, <2>1 DEF Db
  <2> QED BY <1>1, <1>6, <2>2 DEF RuntimeInv, Numbered, Fresh
<1>8. Lives' /\ Refreshing'
  BY <1>1, <1>2, <1>6 DEF RuntimeInv, Lives, Live, Refreshing
<1>9. PublishedIsLive'
  BY <1>1, <1>2, <1>6 DEF PublishedIsLive, Fresh
<1> QED BY <1>5, <1>7, <1>8, <1>9 DEF RuntimeInv

-----------------------------------------------------------------------------
LEMMA CallStep ==
  ASSUME Types, RuntimeInv, NEW h \in Host,
         Shutdown(h) \/ \E k \in Config : ApplyConfig(h, k)
  PROVE  RuntimeInv'
<1>1. PICK c : /\ call[h].pc = "idle" /\ call' = [call EXCEPT ![h] = c] /\ c.pc = "waiting"
               /\ UNCHANGED <<open, opened, snapshot, store, lifecycle, ops, reader, loopVars>>
  BY DEF Shutdown, ApplyConfig
<1>2. call'[h] = c /\ \A g \in Host \ {h} : call'[g] = call[g]
  BY <1>1, CallTypes
<1>3. UNCHANGED <<loop, worker, stopLoop, stopWorker>>
  BY <1>1 DEF loopVars
<1>4. Holding'
  BY <1>1, <1>2 DEF RuntimeInv, Holding
<1>5. Phases'
  <2> SUFFICES ASSUME NEW g \in Host PROVE PhaseOK(call[g])'
    BY DEF Phases
  <2>1. CASE g = h
    BY <1>1, <1>2, <2>1, IdlePhase
  <2>2. CASE g # h
    <3>1. PhaseOK(call[g]) /\ call'[g] = call[g]
      BY <1>2, <2>2 DEF RuntimeInv, Phases
    <3> QED BY <1>1, <1>3, <3>1 DEF PhaseOK, Fresh
  <2> QED BY <2>1, <2>2
<1>6. Resting'
  BY <1>1 DEF RuntimeInv, Resting
<1>7. PublishedIsLive'
  <2> SUFFICES ASSUME store # None PROVE PublishedIsLive'
    BY <1>1 DEF PublishedIsLive
  <2>1. ASSUME NEW g \in Host, call[g].pc = "published", call[g].old = store
        PROVE  call'[g].pc = "published" /\ call'[g].old = store
    BY <1>1, <1>2, <2>1
  <2> QED BY <1>1, <1>3, <2>1 DEF RuntimeInv, PublishedIsLive
<1> QED BY <1>1, <1>4, <1>5, <1>6, <1>7, Steady DEF RuntimeInv

\* What a live loop or worker cannot be, and where its database stands.
LEMMA LiveFacts ==
  ASSUME Types, RuntimeInv, NEW d \in Db, Live(d)
  PROVE  open = {d} /\ d = opened /\ opened \in Nat /\ (store # None => store = d)
<1>1. d \in open /\ open \subseteq {opened} /\ opened \in Nat
  BY DEF RuntimeInv, Lives, Numbered, Types
<1>2. store # None => store \in open
  BY DEF RuntimeInv, PublishedIsLive
<1> QED BY <1>1, <1>2

\* A move of a live loop or worker, under any change of the queue or the counts: its
\* host cannot be past waiting for it, and nothing else reads it.
LEMMA Moves ==
  ASSUME Types, RuntimeInv, NEW d \in Db, Live(d),
         UNCHANGED <<store, open, opened, hostVars, stopLoop, stopWorker>>,
         \/ /\ loop[d] \notin {"none", "done"} /\ worker' = worker
            /\ \E to \in LoopPoints \ {"none"} : loop' = [loop EXCEPT ![d] = to]
         \/ /\ worker[d] \notin {"none", "done"} /\ loop' = loop
            /\ \E to \in WorkerPoints \ {"none"} : worker' = [worker EXCEPT ![d] = to],
         snapshot' \in {snapshot, d}, ops' # ops => store # None \/ ops' = Free
  PROVE  /\ Holding' /\ Phases' /\ Resting' /\ Numbered' /\ Lives' /\ PublishedIsLive'
<1>0. /\ loop \in [Db -> LoopPoints] /\ worker \in [Db -> WorkerPoints]
      /\ UNCHANGED <<call, lifecycle>>
  BY DEF Types, hostVars
<1>1. /\ \A e \in Db \ {d} : loop'[e] = loop[e] /\ worker'[e] = worker[e]
      /\ loop[d] = "none" <=> loop'[d] = "none"
      /\ worker[d] = "none" <=> worker'[d] = "none"
      /\ loop[d] = "done" => loop'[d] = "done"
      /\ worker[d] = "done" => worker'[d] = "done"
  BY <1>0
<1>2. \A e \in Db : /\ Fresh(e) <=> Fresh(e)'
                    /\ loop[e] = "done" => loop'[e] = "done"
                    /\ worker[e] = "done" => worker'[e] = "done"
  BY <1>1 DEF Fresh
<1>3. open = {d} /\ d = opened /\ opened \in Nat
  BY LiveFacts
<1>4. Holding' /\ Resting'
  BY <1>0 DEF RuntimeInv, Holding, Resting
<1>5. Phases'
  <2> SUFFICES ASSUME NEW g \in Host PROVE PhaseOK(call[g])'
    BY DEF Phases
  <2>1. PhaseOK(call[g]) /\ call[g].old \in Db \cup {None} /\ call' = call
    BY <1>0, CallTypes DEF RuntimeInv, Phases
  <2>2. /\ call[g].old # None => (loop[call[g].old] = "done" => loop'[call[g].old] = "done")
        /\ call[g].old # None => (worker[call[g].old] = "done" => worker'[call[g].old] = "done")
    BY <1>2, <2>1
  <2>3. call[g].old \in Db /\ Fresh(call[g].old) => Fresh(call[g].old)'
    BY <1>2, <2>1 DEF Fresh
  <2>4. call[g].pc # "closed"
    BY <1>3, <2>1 DEF PhaseOK
  <2>5. call[g].pc = "opened" => store = None /\ ops = Free
    BY <2>1 DEF PhaseOK
  <2> QED BY <2>1, <2>2, <2>3, <2>4, <2>5 DEF PhaseOK
<1>6. Numbered'
  BY <1>2, <1>3 DEF RuntimeInv, Numbered
<1>7. Lives'
  BY <1>1, <1>3 DEF RuntimeInv, Lives, Live
<1>8. PublishedIsLive'
  BY <1>0, <1>1 DEF RuntimeInv, PublishedIsLive, Types
<1> QED BY <1>4, <1>5, <1>6, <1>7, <1>8

LEMMA LoopMoves ==
  ASSUME Types, RuntimeInv, NEW d \in Db, LoopStep(d) \/ Deliver(d) \/ WorkerReturns(d)
  PROVE  RuntimeInv'
<1>0. loop \in [Db -> LoopPoints] /\ worker \in [Db -> WorkerPoints]
  BY DEF Types
<1>1. ASSUME \/ TakeEvent(d) \/ Record(d) \/ RecordFails(d) \/ RefreshTick(d)
             \/ HistoryTick(d) \/ Saved(d) \/ LoopReturns(d)
      PROVE  RuntimeInv'
  <2>1. PICK to \in LoopPoints \ {"none", "refreshing"} :
          /\ loop[d] \notin {"none", "done"} /\ loop' = [loop EXCEPT ![d] = to]
          /\ UNCHANGED <<store, open, opened, hostVars, stopLoop, stopWorker, worker, snapshot, ops,
                         reader>>
    BY <1>1 DEF TakeEvent, Record, RecordFails, RefreshTick, HistoryTick, Saved, LoopReturns, At,
                LoopPoints
  <2>2. Live(d)
    BY <2>1 DEF Live
  <2>3. /\ Holding' /\ Phases' /\ Resting' /\ Numbered' /\ Lives' /\ PublishedIsLive'
    BY <2>1, <2>2, Moves
  <2>4. Refreshing'
    BY <1>0, <2>1 DEF RuntimeInv, Refreshing
  <2> QED BY <2>3, <2>4 DEF RuntimeInv
<1>2. ASSUME LoopRefresh(d) PROVE RuntimeInv'
  <2>1. PICK to \in LoopPoints \ {"none"} :
          /\ loop[d] = "refresh" /\ loop' = [loop EXCEPT ![d] = to] /\ ops = Free
          /\ \/ to # "refreshing" /\ ops' = ops
             \/ store # None /\ ops' = "loop"
          /\ UNCHANGED <<store, open, opened, hostVars, stopLoop, stopWorker, worker, snapshot, reader>>
    BY <1>2 DEF LoopRefresh, At, LoopPoints, OpsFree
  <2>2. Live(d)
    BY <2>1 DEF Live
  <2>3. /\ Holding' /\ Phases' /\ Resting' /\ Numbered' /\ Lives' /\ PublishedIsLive'
    BY <2>1, <2>2, Moves
  <2>4. Refreshing'
    BY <1>0, <2>1, Free1 DEF RuntimeInv, Refreshing
  <2> QED BY <2>3, <2>4 DEF RuntimeInv
<1>3. ASSUME LoopRefreshed(d) PROVE RuntimeInv'
  <2>1. /\ loop[d] = "refreshing" /\ loop' = [loop EXCEPT ![d] = "select"] /\ ops' = Free
        /\ snapshot' \in {snapshot, d}
        /\ UNCHANGED <<store, open, opened, hostVars, stopLoop, stopWorker, worker, reader>>
    BY <1>3 DEF LoopRefreshed, At
  <2>2. Live(d) /\ "select" \in LoopPoints \ {"none"}
    BY <2>1 DEF Live, LoopPoints
  <2>3. /\ Holding' /\ Phases' /\ Resting' /\ Numbered' /\ Lives' /\ PublishedIsLive'
    BY <2>1, <2>2, Moves
  <2>4. Refreshing'
    <3>1. ops = "loop" /\ \A e \in Db \ {d} : loop[e] # "refreshing"
      <4>1. ASSUME NEW e \in Db \ {d}, loop[e] = "refreshing" PROVE FALSE
        BY <2>2, <4>1, LiveFacts DEF Live
      <4> QED BY <2>1, <4>1 DEF RuntimeInv, Refreshing
    <3> QED BY <1>0, <2>1, <3>1, Free1 DEF RuntimeInv, Refreshing
  <2> QED BY <2>3, <2>4 DEF RuntimeInv
<1>4. ASSUME Deliver(d) \/ WorkerReturns(d) PROVE RuntimeInv'
  <2>1. PICK to \in WorkerPoints \ {"none"} :
          /\ worker[d] \notin {"none", "done"} /\ worker' = [worker EXCEPT ![d] = to]
          /\ UNCHANGED <<store, open, opened, hostVars, stopLoop, stopWorker, loop, snapshot, ops,
                         reader>>
    BY <1>4 DEF Deliver, WorkerReturns, WorkerPoints
  <2>2. Live(d)
    BY <2>1 DEF Live
  <2>3. /\ Holding' /\ Phases' /\ Resting' /\ Numbered' /\ Lives' /\ PublishedIsLive'
    BY <2>1, <2>2, Moves
  <2>4. Refreshing'
    BY <2>1 DEF RuntimeInv, Refreshing
  <2> QED BY <2>3, <2>4 DEF RuntimeInv
<1> QED BY <1>1, <1>2, <1>3, <1>4 DEF LoopStep

LEMMA ReaderStep ==
  ASSUME Types, RuntimeInv, NEW r \in Reader, ReaderRefresh(r) \/ ReaderRefreshed(r)
  PROVE  RuntimeInv'
<1>0. /\ reader \in [Reader -> Readers] /\ opened \in Nat
      /\ UNCHANGED <<store, open, opened, hostVars, loopVars>>
      /\ UNCHANGED <<call, lifecycle, loop, worker, stopLoop, stopWorker>>
  BY DEF Types, ReaderRefresh, ReaderRefreshed, hostVars, loopVars
<1>1. /\ snapshot' <= opened
      /\ \/ store # None
         \/ ops' = Free
  <2>1. ASSUME ReaderRefreshed(r) PROVE reader[r].db \in open /\ ops' = Free
    BY <2>1 DEF ReaderRefreshed, RuntimeInv, Refreshing
  <2>2. snapshot <= opened /\ (reader[r].db \in open => reader[r].db = opened)
    BY DEF RuntimeInv, Numbered
  <2>3. ASSUME ReaderRefresh(r) PROVE store # None /\ snapshot' = snapshot
    BY <2>3 DEF ReaderRefresh
  <2>4. ASSUME ReaderRefreshed(r) PROVE snapshot' \in {snapshot, reader[r].db}
    BY <2>4 DEF ReaderRefreshed
  <2> QED BY <1>0, <2>1, <2>2, <2>3, <2>4
<1>2. Holding' /\ Resting' /\ PublishedIsLive' /\ Lives'
  BY <1>0 DEF RuntimeInv, Holding, Resting, PublishedIsLive, Lives, Live
<1>3. Phases'
  BY <1>0, <1>1 DEF RuntimeInv, Phases, PhaseOK, Fresh
<1>4. Numbered'
  BY <1>0, <1>1 DEF RuntimeInv, Numbered, Fresh
<1>5. Refreshing'
  <2>1. CASE ReaderRefresh(r)
    <3>1. /\ ops = Free /\ ops' = r /\ store # None
          /\ reader' = [reader EXCEPT ![r] = [pc |-> "refreshing", db |-> store]]
      BY <2>1 DEF ReaderRefresh, OpsFree
    <3>2. store \in open /\ \A q \in Reader : reader[q].pc # "refreshing"
      BY <3>1, Free1 DEF RuntimeInv, Refreshing, PublishedIsLive
    <3>3. \A d \in Db : loop[d] # "refreshing"
      BY <3>1, Free1 DEF RuntimeInv, Refreshing
    <3> QED BY <1>0, <3>1, <3>2, <3>3 DEF Refreshing
  <2>2. CASE ReaderRefreshed(r)
    <3>1. /\ reader[r].pc = "refreshing" /\ ops = r
          /\ reader' = [reader EXCEPT ![r] = [pc |-> "idle", db |-> None]]
      BY <2>2 DEF ReaderRefreshed, RuntimeInv, Refreshing
    <3>2. \A q \in Reader \ {r} : reader[q].pc # "refreshing"
      BY <3>1 DEF RuntimeInv, Refreshing
    <3>3. \A d \in Db : loop[d] # "refreshing"
      BY <3>1, Free1 DEF RuntimeInv, Refreshing
    <3> QED BY <1>0, <3>1, <3>2, <3>3 DEF Refreshing
  <2> QED BY <2>1, <2>2
<1> QED BY <1>2, <1>3, <1>4, <1>5 DEF RuntimeInv

LEMMA QuietStep ==
  ASSUME RuntimeInv, Enqueue \/ UNCHANGED vars
  PROVE  RuntimeInv'
<1>1. /\ UNCHANGED <<open, opened, snapshot, store, ops, reader, loopVars>>
      /\ UNCHANGED <<call, lifecycle, loop, worker, stopLoop, stopWorker>>
  BY DEF Enqueue, vars, hostVars, loopVars
<1>2. Holding' /\ Resting' /\ PublishedIsLive'
  BY <1>1 DEF RuntimeInv, Holding, Resting, PublishedIsLive
<1>3. Phases'
  BY <1>1 DEF RuntimeInv, Phases, PhaseOK, Fresh
<1> QED BY <1>1, <1>2, <1>3, Steady DEF RuntimeInv

-----------------------------------------------------------------------------
LEMMA HostMoves ==
  ASSUME Types, RuntimeInv, NEW h \in Host, HostStep(h)
  PROVE  RuntimeInv'
BY UnpublishStep, LoopStoppedStep, DrainStep, CloseStep, OpenFailsStep, OpenStoreStep, PublishStep,
   StartLoopsStep DEF HostStep

\* The inductive invariant: what the holder of healthLifecycle has stopped, closed and
\* opened so far, and who may be using the open database meanwhile.
THEOREM RuntimeInvariant == Spec => [](Types /\ RuntimeInv)
<1>1. Init => Types /\ RuntimeInv
  <2> SUFFICES ASSUME Init PROVE Types /\ RuntimeInv
    OBVIOUS
  <2>1. Types
    <3>1. FALSE \in BOOLEAN
      BY Zenon
    <3>2. closed \in BOOLEAN /\ call \in [Host -> Call]
      BY <3>1, NoCallFields DEF Init
    <3> QED BY <3>2, RuntimeAssumption DEF Init, Types, Readers, LoopPoints, WorkerPoints, Queue, Tally
  <2>2. \A h \in Host : call[h].pc = "idle"
    BY NoCallFields DEF Init
  <2>3. Holding /\ Phases
    BY <2>2, Free1 DEF Init, Holding, Phases, PhaseOK
  <2>4. Resting /\ Numbered /\ PublishedIsLive
    BY DEF Init, Resting, Only, Numbered, Fresh, PublishedIsLive, None
  <2>5. Lives /\ Refreshing
    BY DEF Init, Lives, Live, Refreshing
  <2> QED BY <2>1, <2>3, <2>4, <2>5 DEF RuntimeInv
<1>2. Types /\ RuntimeInv /\ [Next]_vars => RuntimeInv'
  <2> SUFFICES ASSUME Types, RuntimeInv, [Next]_vars PROVE RuntimeInv'
    OBVIOUS
  <2>1. ASSUME NEW h \in Host, HostStep(h) \/ Shutdown(h) \/ \E k \in Config : ApplyConfig(h, k)
        PROVE  RuntimeInv'
    BY <2>1, HostMoves, CallStep
  <2>2. ASSUME NEW d \in Db, LoopStep(d) \/ Deliver(d) \/ WorkerReturns(d) PROVE RuntimeInv'
    BY <2>2, LoopMoves
  <2>3. ASSUME NEW r \in Reader, ReaderRefresh(r) \/ ReaderRefreshed(r) PROVE RuntimeInv'
    BY <2>3, ReaderStep
  <2>4. CASE Enqueue \/ UNCHANGED vars
    BY <2>4, QuietStep
  <2> QED BY <2>1, <2>2, <2>3, <2>4 DEF Next
<1>3. TypeOK <=> Types
  BY TypesAgree
<1> QED BY <1>1, <1>2, <1>3, TypeCorrect, PTL DEF Spec

\* Nothing uses a database that has been closed, whatever the loop, the worker and the
\* requests were doing when the plugin was reconfigured.
THEOREM NoLateUse == Spec => []NoUseAfterClose
<1>1. RuntimeInv => NoUseAfterClose
  BY DEF RuntimeInv, Lives, Refreshing, NoUseAfterClose
<1> QED BY <1>1, RuntimeInvariant, PTL

\* Lifecycle calls never leave two open databases, and a loop refreshes its own one.
THEOREM AtMostOne == Spec => []OneDatabase
<1> SUFFICES Types /\ RuntimeInv => OneDatabase
  BY RuntimeInvariant, PTL
<1> SUFFICES ASSUME Types, RuntimeInv PROVE OneDatabase
  OBVIOUS
<1>1. Cardinality({opened}) = 1 /\ IsFiniteSet({opened})
  BY FS_Singleton
<1>2. open \subseteq {opened}
  BY DEF RuntimeInv, Numbered
<1>3. Cardinality(open) <= 1
  BY <1>1, <1>2, FS_Subset
<1>4. ASSUME NEW d \in Db, loop[d] = "refreshing", store # None PROVE store = d
  BY <1>4, LiveFacts DEF Live
<1> QED BY <1>3, <1>4 DEF OneDatabase

\* A published database is open, not being stopped, and running or about to run.
THEOREM Published == Spec => []PublishedIsLive
<1>1. RuntimeInv => PublishedIsLive
  BY DEF RuntimeInv
<1> QED BY <1>1, RuntimeInvariant, PTL

\* A refresh that was in flight during a reconfiguration never puts the snapshot of an
\* older database over that of a newer one.
THEOREM NeverOlder == Spec => SnapshotsAdvance
<1>1. Types /\ RuntimeInv /\ [Next]_vars => [snapshot' # None => snapshot' >= snapshot]_vars
  <2> SUFFICES ASSUME Types, RuntimeInv, [Next]_vars, snapshot' # None PROVE snapshot' >= snapshot
    OBVIOUS
  <2>0. snapshot \in Nat /\ snapshot <= opened /\ opened \in Nat
    BY DEF RuntimeInv, Numbered, Types, Db, None
  <2>1. ASSUME NEW d \in Db, LoopRefreshed(d) PROVE snapshot' \in {snapshot, opened}
    <3>1. Live(d)
      BY <2>1 DEF LoopRefreshed, At, Live
    <3> QED BY <2>1, <3>1, LiveFacts DEF LoopRefreshed
  <2>2. ASSUME NEW r \in Reader, ReaderRefreshed(r) PROVE snapshot' \in {snapshot, opened}
    <3>1. reader[r].db \in {opened}
      BY <2>2 DEF ReaderRefreshed, RuntimeInv, Refreshing, Numbered
    <3> QED BY <2>2, <3>1 DEF ReaderRefreshed
  <2>3. ASSUME NEW h \in Host, HostStep(h) PROVE snapshot' = snapshot
    <3>1. CASE Unpublish(h)
      BY <3>1 DEF Unpublish
    <3>2. ASSUME LoopStopped(h) \/ Drain(h) \/ Close(h) PROVE snapshot' = snapshot
      BY <3>2 DEF LoopStopped, Drain, Close
    <3>3. ASSUME OpenFails(h) \/ OpenStore(h) \/ Publish(h) \/ StartLoops(h)
          PROVE  snapshot' = snapshot
      BY <3>3 DEF OpenFails, OpenStore, Publish, StartLoops
    <3> QED BY <2>3, <3>1, <3>2, <3>3 DEF HostStep
  <2>4. ASSUME NEW d \in Db, LoopStep(d) \/ Deliver(d) \/ WorkerReturns(d), ~LoopRefreshed(d)
        PROVE  snapshot' = snapshot
    <3>1. ASSUME TakeEvent(d) \/ Record(d) \/ RecordFails(d) \/ RefreshTick(d)
          PROVE  snapshot' = snapshot
      BY <3>1 DEF TakeEvent, Record, RecordFails, RefreshTick
    <3>2. ASSUME LoopRefresh(d) \/ HistoryTick(d) \/ Saved(d) \/ LoopReturns(d)
          PROVE  snapshot' = snapshot
      BY <3>2 DEF LoopRefresh, HistoryTick, Saved, LoopReturns
    <3>3. ASSUME Deliver(d) \/ WorkerReturns(d) PROVE snapshot' = snapshot
      BY <3>3 DEF Deliver, WorkerReturns
    <3> QED BY <2>4, <3>1, <3>2, <3>3 DEF LoopStep
  <2>5. ASSUME \/ \E h \in Host : Shutdown(h) \/ \E k \in Config : ApplyConfig(h, k)
               \/ \E r \in Reader : ReaderRefresh(r)
               \/ Enqueue \/ UNCHANGED vars
        PROVE  snapshot' = snapshot
    BY <2>5 DEF Shutdown, ApplyConfig, ReaderRefresh, Enqueue, vars
  <2>6. snapshot' \in {snapshot, opened}
    <3>1. ASSUME NEW h \in Host, HostStep(h) \/ Shutdown(h) \/ \E k \in Config : ApplyConfig(h, k)
          PROVE  snapshot' = snapshot
      BY <3>1, <2>3, <2>5
    <3>2. ASSUME NEW d \in Db, LoopStep(d) \/ Deliver(d) \/ WorkerReturns(d)
          PROVE  snapshot' \in {snapshot, opened}
      BY <3>2, <2>1, <2>4
    <3>3. ASSUME NEW r \in Reader, ReaderRefresh(r) \/ ReaderRefreshed(r)
          PROVE  snapshot' \in {snapshot, opened}
      BY <3>3, <2>2, <2>5
    <3>4. ASSUME Enqueue \/ UNCHANGED vars PROVE snapshot' = snapshot
      BY <3>4, <2>5
    <3> QED BY <3>1, <3>2, <3>3, <3>4 DEF Next
  <2> QED BY <2>0, <2>6
<1> QED BY <1>1, RuntimeInvariant, PTL DEF Spec, SnapshotsAdvance

-----------------------------------------------------------------------------
(* Every usage event is accounted for *)

\* A queue holds events only while its database is open, and none once it was drained.
Queued ==
  /\ \A d \in Db : queue[d].length # 0 => d \in open
  /\ \A h \in Host :
       call[h].pc \in {"drained", "opened"} /\ call[h].old # None => queue[call[h].old].length = 0

\* What waits, waits for the database that was opened last.
Held == IF opened = 0 THEN 0 ELSE Waiting(opened)
Counted == tally.sent = tally.recorded + tally.failed + tally.dropped + Held
CountInv == Queued /\ Counted

LEMMA Waits ==
  ASSUME Types, NEW d \in Db
  PROVE  /\ queue[d].length \in Nat /\ Waiting(d) \in Nat
         /\ loop[d] # "recording" => Waiting(d) = queue[d].length
         /\ loop[d] = "recording" => Waiting(d) = queue[d].length + 1
BY DEF Types, Queue, Waiting

\* Nothing waits for a database that is not open.
LEMMA NoneWait ==
  ASSUME Types, RuntimeInv, Queued, NEW d \in Db, d \notin open
  PROVE  Waiting(d) = 0
<1>1. queue[d].length = 0 /\ loop[d] # "recording"
  BY DEF Queued, RuntimeInv, Lives, Live
<1> QED BY <1>1, Waits

LEMMA OpenedDb ==
  ASSUME Types
  PROVE  opened \in Nat /\ (opened # 0 => opened \in Db) /\ 0 \notin Db
BY RuntimeAssumption DEF Types, Db

\* Steps that neither touch a queue nor a count, and take no event out of a loop's hands.
LEMMA NotCounted ==
  ASSUME Types, Types', RuntimeInv, CountInv, UNCHANGED <<open, opened, queue, tally>>,
         \A d \in Db : loop[d] = "recording" <=> loop'[d] = "recording",
         \A h \in Host : call'[h].pc \in {"drained", "opened"} => call'[h] = call[h]
  PROVE  CountInv'
<1>1. Queued'
  BY DEF CountInv, Queued
<1>2. Held' = Held
  BY OpenedDb DEF Held, Waiting
<1> QED BY <1>1, <1>2 DEF CountInv, Counted

LEMMA HostCounts ==
  ASSUME Types, Types', RuntimeInv, CountInv, NEW h \in Host, HostStep(h)
  PROVE  CountInv'
<1>0. /\ call \in [Host -> Call] /\ call[h].old \in Db \cup {None} /\ call[h].pc \in CallPoints
      /\ opened \in Nat /\ 0 \notin Db
  BY CallTypes, OpenedDb
<1>1. CASE Unpublish(h)
  <2>1. call'[h].pc = "stopping" /\ \A g \in Host \ {h} : call'[g] = call[g]
    BY <1>1, CallTakes
  <2>2. UNCHANGED <<open, opened, queue, tally, loop>>
    BY <1>1 DEF Unpublish
  <2> QED BY <2>1, <2>2, NotCounted
<1>2. CASE LoopStopped(h)
  <2>1. call'[h].pc = "stopped" /\ \A g \in Host \ {h} : call'[g] = call[g]
    BY <1>0, <1>2, CallMoves DEF LoopStopped, CallPoints
  <2>2. UNCHANGED <<open, opened, queue, tally, loop>>
    BY <1>2 DEF LoopStopped
  <2> QED BY <2>1, <2>2, NotCounted
<1>3. CASE Drain(h)
  <2> DEFINE old == call[h].old
  <2>1. /\ call'[h].pc = "drained" /\ call'[h].old = old
        /\ \A g \in Host \ {h} : call'[g] = call[g]
    BY <1>0, <1>3, CallMoves DEF Drain, CallPoints
  <2>2. call[h].pc = "stopped" /\ UNCHANGED <<open, opened, loop>>
    BY <1>3 DEF Drain, loopVars
  <2>3. open = Only(old) /\ open \subseteq {opened} /\ (old # None => loop[old] = "done")
    BY <2>2, HolderFacts DEF PhaseOK, RuntimeInv, Numbered
  <2>4. \A g \in Host \ {h} : call'[g].pc \notin {"drained", "opened"}
    <3>1. lifecycle = h
      BY <2>2, HolderFacts
    <3> QED BY <2>1, <3>1, Others
  <2>5. CASE old = None
    <3>1. UNCHANGED <<queue, tally>>
      BY <1>3, <2>5 DEF Drain
    <3>2. Held' = Held
      BY <2>2, <3>1, OpenedDb DEF Held, Waiting
    <3> QED BY <2>1, <2>2, <2>4, <2>5, <3>1, <3>2 DEF CountInv, Queued, Counted
  <2>6. CASE old # None
    <3>1. /\ old \in Db /\ old = opened
          /\ tally' = [tally EXCEPT !.dropped = @ + queue[old].length]
          /\ queue' = [queue EXCEPT ![old].length = 0]
      BY <1>0, <1>3, <2>3, <2>6 DEF Drain, CountDropped, Only
    <3>2. queue'[old].length = 0 /\ \A d \in Db \ {old} : queue'[d] = queue[d]
      BY <3>1 DEF Types, Queue
    <3>3. Held = queue[old].length /\ Held' = 0
      BY <1>0, <2>2, <2>3, <2>6, <3>1, <3>2 DEF Held, Waiting, Types, Queue
    <3>4. /\ tally'.sent = tally.sent /\ tally'.recorded = tally.recorded
          /\ tally'.failed = tally.failed /\ tally'.dropped = tally.dropped + queue[old].length
      BY <3>1 DEF Types, Tally
    <3>5. Counted'
      <4>1. queue[old].length \in Nat
        BY <3>1 DEF Types, Queue
      <4> QED BY <3>3, <3>4, <4>1 DEF CountInv, Counted, Types, Tally
    <3>6. Queued'
      BY <2>1, <2>2, <2>4, <3>2 DEF CountInv, Queued
    <3> QED BY <3>5, <3>6 DEF CountInv
  <2> QED BY <2>5, <2>6
<1>4. CASE Close(h)
  <2>1. /\ call[h].pc = "drained" /\ open' = open \ {call[h].old}
        /\ UNCHANGED <<opened, loop, queue, tally>>
    BY <1>4 DEF Close, loopVars
  <2>2. \A g \in Host : call'[g].pc \in {"drained", "opened"} => call'[g] = call[g]
    <3>1. call'[h].pc \in {"idle", "closed"} /\ \A g \in Host \ {h} : call'[g] = call[g]
      BY <1>0, <1>4, CallMoves, CallEnds, NoCallFields DEF Close, CallPoints
    <3> QED BY <3>1
  <2>3. call[h].old # None => queue[call[h].old].length = 0
    BY <2>1 DEF CountInv, Queued
  <2>4. Queued'
    BY <1>0, <2>1, <2>2, <2>3 DEF CountInv, Queued, None
  <2>5. Held' = Held
    BY <2>1, OpenedDb DEF Held, Waiting
  <2> QED BY <2>1, <2>4, <2>5 DEF CountInv, Counted
<1>5. CASE OpenFails(h)
  <2>1. call'[h].pc = "idle" /\ \A g \in Host \ {h} : call'[g] = call[g]
    BY <1>0, <1>5, CallEnds, NoCallFields DEF OpenFails
  <2>2. UNCHANGED <<open, opened, queue, tally, loop>>
    BY <1>5 DEF OpenFails, loopVars
  <2> QED BY <2>1, <2>2, NotCounted
<1>6. CASE OpenStore(h)
  <2>1. /\ call[h].pc = "closed" /\ opened < MaxOpened
        /\ opened' = opened + 1 /\ open' = open \cup {opened'}
        /\ call' = [call EXCEPT ![h].pc = "opened", ![h].old = opened']
        /\ UNCHANGED <<loop, queue, tally>>
    BY <1>6 DEF OpenStore, loopVars
  <2>2. open = {}
    BY <2>1, HolderFacts DEF PhaseOK
  <2>3. opened' \in Db /\ opened' # 0
    BY <1>0, <2>1, RuntimeAssumption DEF Db
  <2>4. call'[h].old = opened' /\ \A g \in Host \ {h} : call'[g] = call[g]
    BY <1>0, <2>1, <2>3 DEF Call
  <2>5. Waiting(opened') = 0 /\ (opened # 0 => Waiting(opened) = 0)
    BY <1>0, <2>2, <2>3, NoneWait, OpenedDb DEF CountInv
  <2>6. Held = 0 /\ Held' = 0
    BY <1>0, <2>1, <2>3, <2>5 DEF Held, Waiting
  <2>7. queue[opened'].length = 0
    BY <2>2, <2>3 DEF CountInv, Queued
  <2>8. Queued'
    BY <2>1, <2>4, <2>7 DEF CountInv, Queued
  <2> QED BY <2>1, <2>6, <2>8 DEF CountInv, Counted
<1>7. CASE Publish(h)
  <2> DEFINE d == call[h].old
  <2>1. call[h].pc = "opened" /\ UNCHANGED <<opened, loop, tally>>
    BY <1>7 DEF Publish, loopVars
  <2>2. d \in Db /\ open = {d} /\ d = opened
    BY <2>1, HolderFacts DEF PhaseOK, RuntimeInv, Numbered
  <2>3. queue[d].length = 0
    BY <1>0, <2>1, <2>2 DEF CountInv, Queued, None
  <2>4. \A g \in Host : call'[g].pc \notin {"drained", "opened"}
    <3>1. lifecycle = h
      BY <2>1, HolderFacts
    <3>2. call'[h].pc \in {"idle", "published"} /\ \A g \in Host \ {h} : call'[g] = call[g]
      BY <1>0, <1>7, CallMoves, CallEnds, NoCallFields DEF Publish, CallPoints
    <3> QED BY <3>1, <3>2, Others
  <2>5. queue' \in [Db -> Queue] /\ queue'[d].length = 0 /\ \A e \in Db \ {d} : queue'[e] = queue[e]
    BY <1>7, <2>2, <2>3 DEF Publish, Types
  <2>6. Queued'
    <3>1. \A e \in Db : queue'[e].length # 0 => e \in open /\ e # d
      BY <2>5 DEF CountInv, Queued
    <3> QED BY <2>2, <2>4, <3>1 DEF Queued
  <2>7. Held' = Held
    BY <2>1, <2>2, <2>3, <2>5 DEF Held, Waiting
  <2> QED BY <2>1, <2>6, <2>7 DEF CountInv, Counted
<1>8. CASE StartLoops(h)
  <2> DEFINE d == call[h].old
  <2>1. /\ call[h].pc = "published" /\ loop' = [loop EXCEPT ![d] = "select"]
        /\ UNCHANGED <<open, opened, queue, tally>>
    BY <1>8 DEF StartLoops
  <2>2. d \in Db /\ loop[d] = "none"
    BY <2>1, HolderFacts DEF PhaseOK, Fresh
  <2>3. \A e \in Db : loop[e] = "recording" <=> loop'[e] = "recording"
    BY <2>1, <2>2 DEF Types
  <2>4. call'[h].pc = "idle" /\ \A g \in Host \ {h} : call'[g] = call[g]
    BY <1>0, <1>8, CallEnds, NoCallFields DEF StartLoops
  <2> QED BY <2>1, <2>3, <2>4, NotCounted
<1> QED BY <1>1, <1>2, <1>3, <1>4, <1>5, <1>6, <1>7, <1>8 DEF HostStep

LEMMA LoopCounts ==
  ASSUME Types, Types', RuntimeInv, CountInv, NEW d \in Db,
         LoopStep(d) \/ Deliver(d) \/ WorkerReturns(d)
  PROVE  CountInv'
<1>0. UNCHANGED <<open, opened, call>> /\ opened \in Nat /\ 0 \notin Db
  <2>1. UNCHANGED <<open, opened, hostVars>>
    BY DEF LoopStep, TakeEvent, Record, RecordFails, RefreshTick, LoopRefresh, LoopRefreshed,
           HistoryTick, Saved, LoopReturns, Deliver, WorkerReturns
  <2> QED BY <2>1, OpenedDb DEF hostVars
<1>1. CASE TakeEvent(d)
  <2>1. /\ loop[d] = "select" /\ loop' = [loop EXCEPT ![d] = "recording"]
        /\ queue[d].length > 0 /\ queue' = [queue EXCEPT ![d].length = @ - 1] /\ tally' = tally
    BY <1>1 DEF TakeEvent, At, HasEvent
  <2>2. d \in open /\ d = opened
    BY <2>1, LiveFacts DEF Live
  <2>3. /\ queue[d].length \in Nat /\ queue'[d].length = queue[d].length - 1
        /\ loop'[d] = "recording" /\ \A e \in Db \ {d} : queue'[e] = queue[e]
    BY <2>1 DEF Types, Queue
  <2>4. Held' = Held
    BY <1>0, <2>1, <2>2, <2>3 DEF Held, Waiting
  <2>5. Queued'
    <3>1. \A h \in Host : call[h].pc \in {"drained", "opened"} => call[h].old # d
      BY <2>1 DEF CountInv, Queued, None, Db
    <3> QED BY <1>0, <2>2, <2>3, <3>1, CallTypes DEF CountInv, Queued
  <2> QED BY <2>1, <2>4, <2>5 DEF CountInv, Counted
<1>2. ASSUME Record(d) \/ RecordFails(d) PROVE CountInv'
  <2>1. PICK to \in {"refresh", "select"} :
          /\ loop[d] = "recording" /\ loop' = [loop EXCEPT ![d] = to] /\ queue' = queue
    BY <1>2 DEF Record, RecordFails, At
  <2>2. d = opened
    BY <2>1, LiveFacts DEF Live
  <2>3. loop'[d] # "recording" /\ queue[d].length \in Nat
    BY <2>1 DEF Types, Queue
  <2>4. Held = queue[d].length + 1 /\ Held' = queue[d].length
    BY <1>0, <2>1, <2>2, <2>3 DEF Held, Waiting
  <2>5. /\ tally'.sent = tally.sent /\ tally'.dropped = tally.dropped
        /\ tally'.recorded + tally'.failed = tally.recorded + tally.failed + 1
    BY <1>2 DEF Record, RecordFails, Types, Tally
  <2>6. Queued'
    BY <1>0, <2>1 DEF CountInv, Queued
  <2> QED BY <2>3, <2>4, <2>5, <2>6 DEF CountInv, Counted, Types, Tally
<1>3. CASE ~(TakeEvent(d) \/ Record(d) \/ RecordFails(d))
  <2>1. /\ UNCHANGED <<queue, tally>>
        /\ \/ loop' = loop
           \/ \E from, to \in LoopPoints \ {"recording"} :
                loop[d] = from /\ loop' = [loop EXCEPT ![d] = to]
    BY <1>3 DEF LoopStep, RefreshTick, LoopRefresh, LoopRefreshed, HistoryTick, Saved, LoopReturns,
                Deliver, WorkerReturns, At, LoopPoints
  <2>2. \A e \in Db : loop[e] = "recording" <=> loop'[e] = "recording"
    BY <2>1 DEF Types
  <2> QED BY <1>0, <2>1, <2>2, NotCounted
<1> QED BY <1>1, <1>2, <1>3

LEMMA EnqueueCounts ==
  ASSUME Types, Types', RuntimeInv, CountInv, Enqueue
  PROVE  CountInv'
<1>0. UNCHANGED <<open, opened, call, loop>> /\ opened \in Nat /\ 0 \notin Db
  BY OpenedDb DEF Enqueue, hostVars, loopVars
<1>1. CASE queue' = queue /\ tally' = [tally EXCEPT !.sent = @ + 1, !.dropped = @ + 1]
  <2>1. Held' = Held /\ Queued'
    BY <1>0, <1>1, OpenedDb DEF CountInv, Held, Waiting, Queued
  <2>2. Held \in Nat
    BY Waits, OpenedDb DEF Held
  <2>3. /\ tally'.sent = tally.sent + 1 /\ tally'.dropped = tally.dropped + 1
        /\ tally'.recorded = tally.recorded /\ tally'.failed = tally.failed
    BY <1>1 DEF Types, Tally
  <2> QED BY <2>1, <2>2, <2>3 DEF CountInv, Counted, Types, Tally
<1>2. CASE /\ store # None /\ queue' = [queue EXCEPT ![store].length = @ + 1]
           /\ tally' = [tally EXCEPT !.sent = @ + 1]
  <2>1. store \in Db /\ store \in open /\ store = opened
    BY <1>2 DEF Types, RuntimeInv, PublishedIsLive, Numbered
  <2>2. /\ queue[store].length \in Nat /\ queue'[store].length = queue[store].length + 1
        /\ \A e \in Db \ {store} : queue'[e] = queue[e]
    BY <1>2, <2>1 DEF Types, Queue
  <2>3. Held \in Nat /\ Held' = Held + 1
    BY <1>0, <2>1, <2>2 DEF Held, Waiting
  <2>4. Queued'
    <3>1. \A h \in Host : call[h].pc \notin {"drained", "opened"}
      <4> SUFFICES ASSUME NEW h \in Host, call[h].pc \in {"drained", "opened"} PROVE FALSE
        OBVIOUS
      <4>1. PhaseOK(call[h])
        BY HolderFacts
      <4> QED BY <1>2, <4>1 DEF PhaseOK
    <3> QED BY <1>0, <2>1, <2>2, <3>1 DEF CountInv, Queued
  <2>5. /\ tally'.sent = tally.sent + 1 /\ tally'.dropped = tally.dropped
        /\ tally'.recorded = tally.recorded /\ tally'.failed = tally.failed
    BY <1>2 DEF Types, Tally
  <2> QED BY <2>3, <2>4, <2>5 DEF CountInv, Counted, Types, Tally
<1> QED BY <1>1, <1>2 DEF Enqueue

LEMMA CallCounts ==
  ASSUME Types, Types', RuntimeInv, CountInv,
         \/ \E h \in Host : Shutdown(h) \/ \E k \in Config : ApplyConfig(h, k)
         \/ \E r \in Reader : ReaderRefresh(r) \/ ReaderRefreshed(r)
         \/ UNCHANGED vars
  PROVE  CountInv'
<1>1. UNCHANGED <<open, opened, queue, tally, loop>>
  BY DEF Shutdown, ApplyConfig, ReaderRefresh, ReaderRefreshed, vars, loopVars
<1>2. ASSUME NEW h \in Host, Shutdown(h) \/ \E k \in Config : ApplyConfig(h, k)
      PROVE  CountInv'
  <2>1. PICK c : /\ call[h].pc = "idle" /\ call' = [call EXCEPT ![h] = c] /\ c.pc = "waiting"
                 /\ UNCHANGED <<open, opened, loopVars>>
    BY <1>2 DEF Shutdown, ApplyConfig
  <2>2. call'[h].pc = "waiting" /\ \A g \in Host \ {h} : call'[g] = call[g]
    BY <2>1, CallTypes
  <2> QED BY <1>1, <2>2, NotCounted
<1>3. ASSUME call' = call PROVE CountInv'
  BY <1>1, <1>3, NotCounted
<1> QED BY <1>2, <1>3 DEF ReaderRefresh, ReaderRefreshed, vars, hostVars

LEMMA CountInvariant == Spec => []CountInv
<1>1. Init => CountInv
  BY NoCallFields DEF Init, CountInv, Queued, Counted, Held
<1>2. Types /\ Types' /\ RuntimeInv /\ CountInv /\ [Next]_vars => CountInv'
  <2> SUFFICES ASSUME Types, Types', RuntimeInv, CountInv, [Next]_vars PROVE CountInv'
    OBVIOUS
  <2> QED BY HostCounts, LoopCounts, EnqueueCounts, CallCounts DEF Next
<1> QED BY <1>1, <1>2, RuntimeInvariant, PTL DEF Spec

-----------------------------------------------------------------------------
\* The total over the databases, when events wait for the last opened one only: the sum
\* is a function with that value from there on, and the recursion has no other solution.
LEMMA TotalIsHeld ==
  ASSUME Types, RuntimeInv, CountInv
  PROVE  Total[MaxOpened] = Held
<1> DEFINE S == Db \cup {None}
           Sum(f) == f = [n \in S |-> IF n = 0 THEN 0 ELSE Waiting(n) + f[n - 1]]
           held == [n \in S |-> IF opened # 0 /\ n >= opened THEN Waiting(opened) ELSE 0]
<1>1. /\ opened \in 0 .. MaxOpened /\ MaxOpened \in Nat /\ S = 0 .. MaxOpened
      /\ (opened # 0 => opened \in Db)
  BY RuntimeAssumption DEF Types, Db, None
<1>2. \A n \in Db : Waiting(n) \in Nat /\ (n # opened => Waiting(n) = 0)
  <2>1. \A n \in Db : n # opened => n \notin open
    BY DEF RuntimeInv, Numbered
  <2> QED BY <2>1, Waits, NoneWait DEF CountInv
<1>3. Sum(held)
  <2>1. ASSUME NEW n \in S
        PROVE  held[n] = IF n = 0 THEN 0 ELSE Waiting(n) + held[n - 1]
    <3>1. n \in Nat /\ (n # 0 => n \in Db /\ n - 1 \in S)
      BY <1>1 DEF Db
    <3>2. CASE n = 0 \/ opened = 0
      BY <1>1, <1>2, <3>1, <3>2
    <3>3. CASE n # 0 /\ opened # 0 /\ n < opened
      BY <1>1, <1>2, <3>1, <3>3
    <3>4. CASE n # 0 /\ opened # 0 /\ n = opened
      BY <1>1, <1>2, <3>1, <3>4
    <3>5. CASE n # 0 /\ opened # 0 /\ n > opened
      <4>1. n - 1 >= opened
        BY <1>1, <3>1, <3>5
      <4> QED BY <1>1, <1>2, <3>1, <3>5, <4>1
    <3> QED BY <1>1, <3>1, <3>2, <3>3, <3>4, <3>5
  <2> HIDE DEF S
  <2> QED BY <2>1
<1>4. Sum(Total)
  <2>1. Total = CHOOSE f : Sum(f)
    BY DEF Total
  <2> HIDE DEF Sum, held
  <2> QED BY <1>3, <2>1, Zenon
<1>5. Total[MaxOpened] = held[MaxOpened]
  <2> DEFINE Wrong == {n \in S : Total[n] # held[n]}
  <2>1. ASSUME Wrong # {} PROVE FALSE
    <3>1. Wrong \in SUBSET Nat
      BY <1>1
    <3>2. PICK m \in Wrong : \A n \in Wrong : m <= n
      <4> HIDE DEF Wrong
      <4> QED BY <2>1, <3>1, LeastElement
    <3>3. m \in S /\ m \in Nat /\ Total[m] # held[m]
      BY <3>1
    <3>4. /\ Total[m] = IF m = 0 THEN 0 ELSE Waiting(m) + Total[m - 1]
          /\ held[m] = IF m = 0 THEN 0 ELSE Waiting(m) + held[m - 1]
      <4> HIDE DEF held, S
      <4> QED BY <1>3, <1>4, <3>3
    <3>5. m # 0 /\ m - 1 \in S /\ m - 1 < m
      BY <1>1, <3>3, <3>4
    <3>6. Total[m - 1] # held[m - 1]
      BY <3>3, <3>4, <3>5
    <3>7. m <= m - 1
      BY <3>2, <3>5, <3>6
    <3> QED BY <3>3, <3>7
  <2> QED BY <1>1, <2>1
<1> QED BY <1>1, <1>5 DEF Held

\* Every usage event is recorded, failed, dropped and counted, queued, or in the hands of
\* the loop, across any number of reconfigurations and shutdowns.
THEOREM NothingLost == Spec => []EventsConserved
<1>1. Types /\ RuntimeInv /\ CountInv => EventsConserved
  BY TotalIsHeld DEF CountInv, Counted, EventsConserved
<1> QED BY <1>1, RuntimeInvariant, CountInvariant, PTL
=============================================================================
