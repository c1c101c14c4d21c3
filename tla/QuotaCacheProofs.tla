-------------------------- MODULE QuotaCacheProofs --------------------------
(***************************************************************************)
(* Theorems about QuotaCache, for any callers, accounts, configurations    *)
(* and bounds.  The inductive invariant is built in layers: the types, the *)
(* single flight, and what a flight and the snapshot may carry.            *)
(***************************************************************************)
EXTENDS QuotaCache, Functions, FiniteSetTheorems, TLAPS

\* Every variable keeps its type, whatever the host and the callers do.
THEOREM TypeCorrect == Spec => []TypeOK
<1>a. NoFlight \in Flight /\ NoRequest \in Request
  BY CacheAssumption DEF NoFlight, NoFetch, NoRequest, Flight, Request, FetchState
<1>1. Init => TypeOK
  <2> SUFFICES ASSUME Init PROVE TypeOK
    OBVIOUS
  <2>1. hasSnapshot \in BOOLEAN /\ refreshing \in BOOLEAN /\ closed \in BOOLEAN
    BY Zenon DEF Init
  <2>2. /\ now \in Nat /\ gen \in Nat /\ listErrors \in Nat
        /\ snapshot \in [at : Nat, gen : Nat] /\ answer \in [kind : Kinds, at : Nat]
    BY DEF Init, Kinds
  <2>3. /\ cfg \in Config /\ pc \in [Caller -> Points] /\ force \in [Caller -> BOOLEAN]
        /\ flight \in [Caller -> Flight] /\ request \in [Caller -> Request]
    BY <1>a, CacheAssumption DEF Init, Points
  <2> QED BY <2>1, <2>2, <2>3 DEF TypeOK
<1>2. TypeOK /\ [Next]_vars => TypeOK'
  <2> SUFFICES ASSUME TypeOK, [Next]_vars PROVE TypeOK'
    OBVIOUS
  <2> USE DEF TypeOK, cacheVars, callerVars, Points, InFlight, Kinds
  <2>b. ASSUME NEW c \in Caller, NEW kind \in Kinds, NEW at \in Nat, Return(c, kind, at)
        PROVE  flight' \in [Caller -> Flight] /\ request' \in [Caller -> Request]
               /\ answer' \in [kind : Kinds, at : Nat]
    BY <1>a, <2>b DEF Return, Request
  <2>1. ASSUME NEW c \in Caller, NEW f \in BOOLEAN, Call(c, f) PROVE TypeOK'
    BY <2>1 DEF Call, Request
  <2>2. ASSUME NEW c \in Caller, Refuse(c) PROVE TypeOK'
    BY <2>2, <2>b DEF Refuse
  <2>3. ASSUME NEW c \in Caller, ServeCached(c) PROVE TypeOK'
    BY <2>3, <2>b DEF ServeCached
  <2>4. ASSUME NEW c \in Caller, StartRefresh(c) PROVE TypeOK'
    BY <2>4 DEF StartRefresh, Flight, NoFetch, FetchState
  <2>5. ASSUME NEW c \in Caller, JoinRefresh(c) PROVE TypeOK'
    BY <2>5 DEF JoinRefresh, Request
  <2>6. ASSUME NEW c \in Caller, ListAuth(c) PROVE TypeOK'
    <3>1. PICK listed \in SUBSET Account :
            flight' = [flight EXCEPT ![c].fetch = [a \in Account |->
                         IF a \in Selected(listed, flight[c].cfg) THEN "queued" ELSE "none"]]
      BY <2>6 DEF ListAuth
    <3>2. [a \in Account |->
             IF a \in Selected(listed, flight[c].cfg) THEN "queued" ELSE "none"] \in [Account -> FetchState]
      BY DEF FetchState
    <3>3. flight' \in [Caller -> Flight]
      BY <3>1, <3>2 DEF Flight
    <3> QED BY <2>6, <3>3 DEF ListAuth
  <2>7. ASSUME NEW c \in Caller, ListFails(c) PROVE TypeOK'
    BY <2>7 DEF ListFails
  <2>8. ASSUME NEW c \in Caller, NEW a \in Account, StartFetch(c, a) \/ EndFetch(c, a) PROVE TypeOK'
    <3>1. PICK s \in {"running", "done"} : flight' = [flight EXCEPT ![c].fetch[a] = s]
      BY <2>8 DEF StartFetch, EndFetch
    <3>2. flight[c].fetch \in [Account -> FetchState] /\ s \in FetchState
      BY DEF Flight, FetchState
    <3>3. [flight[c].fetch EXCEPT ![a] = s] \in [Account -> FetchState]
      BY <3>2
    <3>4. [flight[c] EXCEPT !.fetch = [flight[c].fetch EXCEPT ![a] = s]] \in Flight
      BY <3>3 DEF Flight
    <3>5. flight' \in [Caller -> Flight]
      BY <3>1, <3>4
    <3> QED BY <2>8, <3>5 DEF StartFetch, EndFetch
  <2>9. ASSUME NEW c \in Caller, Assemble(c) PROVE TypeOK'
    BY <2>9 DEF Assemble, GeneratedAt, Flight
  <2>10. ASSUME NEW c \in Caller, Publish(c) PROVE TypeOK'
    BY <2>10, <2>b DEF Publish, Broadcast, Flight
  <2>11. ASSUME NEW c \in Caller, RefreshFails(c) PROVE TypeOK'
    BY <2>11, <2>b DEF RefreshFails, Broadcast
  <2>12. ASSUME NEW k \in Config, ApplyConfig(k) PROVE TypeOK'
    <3>1. hasSnapshot' \in BOOLEAN /\ closed' \in BOOLEAN
      BY <2>12, Zenon DEF ApplyConfig, DropSnapshot
    <3> QED BY <2>12, <3>1 DEF ApplyConfig
  <2>13. CASE Shutdown
    BY <2>13 DEF Shutdown, Broadcast
  <2>14. CASE Tick
    BY <2>14 DEF Tick
  <2>15. CASE UNCHANGED vars
    BY <2>15 DEF vars
  <2> QED
    BY <2>1, <2>2, <2>3, <2>4, <2>5, <2>6, <2>7, <2>8, <2>9, <2>10, <2>11,
       <2>12, <2>13, <2>14, <2>15 DEF Next, Step
<1> QED BY <1>1, <1>2, PTL DEF Spec

-----------------------------------------------------------------------------
\* What a step may do to the program points and to r.refreshing: a caller moves
\* outside a flight, begins one, moves inside it, or ends it and wakes everybody.
Moves(c, from, to) ==
  /\ pc[c] \in from
  /\ \E p \in to : pc' = [pc EXCEPT ![c] = p]
  /\ UNCHANGED refreshing

Begins(c) ==
  /\ pc[c] = "loop" /\ ~refreshing
  /\ pc' = [pc EXCEPT ![c] = "listing"] /\ refreshing'

Joins(c) ==
  /\ pc[c] = "loop" /\ refreshing
  /\ pc' = [pc EXCEPT ![c] = "waiting"] /\ UNCHANGED refreshing

Ends(c) ==
  /\ pc[c] \in InFlight
  /\ pc' = [d \in Caller |-> IF d = c THEN "idle" ELSE IF pc[d] = "waiting" THEN "loop" ELSE pc[d]]
  /\ ~refreshing'

Wakes ==
  /\ pc' = [d \in Caller |-> IF pc[d] = "waiting" THEN "loop" ELSE pc[d]]
  /\ UNCHANGED refreshing

LEMMA FlightSteps ==
  ASSUME TypeOK, [Next]_vars
  PROVE  \/ \E c \in Caller :
              \/ Moves(c, {"idle", "loop"}, {"idle", "loop"})
              \/ Moves(c, InFlight, InFlight)
              \/ Begins(c) \/ Joins(c) \/ Ends(c)
         \/ Wakes
         \/ UNCHANGED <<pc, refreshing>>
<1> DEFINE Goal == \/ \E c \in Caller :
                         \/ Moves(c, {"idle", "loop"}, {"idle", "loop"})
                         \/ Moves(c, InFlight, InFlight)
                         \/ Begins(c) \/ Joins(c) \/ Ends(c)
                   \/ Wakes
                   \/ UNCHANGED <<pc, refreshing>>
<1> USE DEF cacheVars, callerVars
<1>1. ASSUME NEW c \in Caller, (\E f \in BOOLEAN : Call(c, f)) \/ Refuse(c) \/ ServeCached(c)
      PROVE  Moves(c, {"idle", "loop"}, {"idle", "loop"})
  BY <1>1 DEF Call, Refuse, ServeCached, Moves
<1>2. ASSUME NEW c \in Caller, StartRefresh(c) PROVE Begins(c)
  BY <1>2, Zenon DEF StartRefresh, MayStart, Begins
<1>3. ASSUME NEW c \in Caller, JoinRefresh(c) PROVE Joins(c)
  BY <1>3, Zenon DEF JoinRefresh, MayStart, Joins
<1>4. ASSUME NEW c \in Caller, ListAuth(c) \/ ListFails(c) \/ Assemble(c)
      PROVE  Moves(c, InFlight, InFlight)
  BY <1>4 DEF ListAuth, ListFails, Assemble, Moves, InFlight
<1>5. ASSUME NEW c \in Caller, NEW a \in Account, StartFetch(c, a) \/ EndFetch(c, a)
      PROVE  UNCHANGED <<pc, refreshing>>
  BY <1>5 DEF StartFetch, EndFetch
<1>6. ASSUME NEW c \in Caller, Publish(c) \/ RefreshFails(c) PROVE Ends(c)
  BY <1>6 DEF Publish, RefreshFails, Broadcast, Ends, InFlight, TypeOK
<1>7. ASSUME Shutdown PROVE Wakes
  BY <1>7 DEF Shutdown, Broadcast, Wakes
<1>8. ASSUME (\E k \in Config : ApplyConfig(k)) \/ Tick \/ UNCHANGED vars
      PROVE  UNCHANGED <<pc, refreshing>>
  BY <1>8 DEF ApplyConfig, Tick, vars
<1> HIDE DEF cacheVars, callerVars
<1>9. Goal
  BY <1>1, <1>2, <1>3, <1>4, <1>5, <1>6, <1>7, <1>8 DEF Next, Step
<1> QED BY <1>9

FlightInv == SingleFlight /\ NoLostWakeup

LEMMA FlightInvStep == TypeOK /\ FlightInv /\ [Next]_vars => FlightInv'
<1> SUFFICES ASSUME TypeOK, FlightInv, [Next]_vars PROVE FlightInv'
  OBVIOUS
<1> USE DEF FlightInv, SingleFlight, NoLostWakeup, InFlight, TypeOK
<1>1. ASSUME NEW c \in Caller, Moves(c, {"idle", "loop"}, {"idle", "loop"}) PROVE FlightInv'
  BY <1>1 DEF Moves
<1>2. ASSUME NEW c \in Caller, Moves(c, InFlight, InFlight) PROVE FlightInv'
  BY <1>2 DEF Moves
<1>3. ASSUME NEW c \in Caller, Begins(c) PROVE FlightInv'
  BY <1>3 DEF Begins
<1>4. ASSUME NEW c \in Caller, Joins(c) PROVE FlightInv'
  BY <1>4 DEF Joins
<1>5. ASSUME NEW c \in Caller, Ends(c) PROVE FlightInv'
  BY <1>5 DEF Ends
<1>6. ASSUME Wakes PROVE FlightInv'
  BY <1>6 DEF Wakes
<1>7. ASSUME UNCHANGED <<pc, refreshing>> PROVE FlightInv'
  BY <1>7
<1> QED BY <1>1, <1>2, <1>3, <1>4, <1>5, <1>6, <1>7, FlightSteps

LEMMA FlightInvariant == Spec => [](TypeOK /\ FlightInv)
<1>1. Init => FlightInv
  BY DEF Init, FlightInv, SingleFlight, NoLostWakeup, InFlight
<1> QED BY <1>1, TypeCorrect, FlightInvStep, PTL DEF Spec

\* However many callers there are, at most one of them is scanning, and
\* r.refreshing says so: getSnapshot never starts a second scan.
THEOREM OneFlight == Spec => []SingleFlight
BY FlightInvariant, PTL DEF FlightInv

\* However many callers wait on r.cond, a refresh that will wake them is under way.
THEOREM WaitersAreExpected == Spec => []NoLostWakeup
BY FlightInvariant, PTL DEF FlightInv

-----------------------------------------------------------------------------
\* Time runs forward through the cache: answers are no newer than the snapshot,
\* the snapshot no newer than a scan about to replace it, nor than the clock.
AgeInv ==
  /\ snapshot.at <= now
  /\ answer.at <= snapshot.at
  /\ \A c \in Caller : pc[c] = "scanned" => snapshot.at <= flight[c].at /\ flight[c].at <= now

\* Every step keeps AgeInv and moves neither the snapshot nor the answers back.
LEMMA AgeStep ==
  TypeOK /\ FlightInv /\ AgeInv /\ [Next]_vars
    => AgeInv' /\ snapshot'.at >= snapshot.at /\ answer'.at >= answer.at
<1> DEFINE Goal == AgeInv' /\ snapshot'.at >= snapshot.at /\ answer'.at >= answer.at
<1> SUFFICES ASSUME TypeOK, FlightInv, AgeInv, [Next]_vars PROVE Goal
  OBVIOUS
<1> USE DEF AgeInv, cacheVars, callerVars
<1>t. /\ now \in Nat /\ snapshot.at \in Nat /\ answer.at \in Nat
      /\ pc \in [Caller -> Points] /\ flight \in [Caller -> Flight]
      /\ \A c \in Caller : flight[c].at \in Nat
  BY DEF TypeOK, Flight
<1>1. ASSUME NEW c \in Caller, NEW f \in BOOLEAN, Call(c, f) PROVE Goal
  BY <1>1, <1>t DEF Call
<1>2. ASSUME NEW c \in Caller, Refuse(c) \/ ServeCached(c) PROVE Goal
  BY <1>2, <1>t DEF Refuse, ServeCached, Return
<1>3. ASSUME NEW c \in Caller, StartRefresh(c) PROVE Goal
  BY <1>3, <1>t DEF StartRefresh
<1>4. ASSUME NEW c \in Caller, JoinRefresh(c) \/ ListFails(c) PROVE Goal
  BY <1>4, <1>t DEF JoinRefresh, ListFails
<1>5. ASSUME NEW c \in Caller, ListAuth(c) PROVE Goal
  BY <1>5, <1>t DEF ListAuth
<1>6. ASSUME NEW c \in Caller, NEW a \in Account, StartFetch(c, a) \/ EndFetch(c, a) PROVE Goal
  BY <1>6, <1>t DEF StartFetch, EndFetch
<1>7. ASSUME NEW c \in Caller, Assemble(c) PROVE Goal
  <2>1. \A d \in Caller : flight'[d].at = IF d = c THEN now ELSE flight[d].at
    BY <1>7, <1>t DEF Assemble, GeneratedAt, Flight
  <2> QED BY <1>7, <1>t, <2>1 DEF Assemble
<1>8. ASSUME NEW c \in Caller, Publish(c) PROVE Goal
  <2>1. snapshot.at <= flight[c].at /\ flight[c].at <= now
    BY <1>8 DEF Publish
  <2>2. snapshot'.at = flight[c].at /\ answer'.at = flight[c].at /\ now' = now
    BY <1>8 DEF Publish, Return
  <2>3. \A d \in Caller : pc'[d] # "scanned"
    BY <1>8, <1>t DEF Publish, Broadcast, FlightInv, SingleFlight, InFlight
  <2> QED BY <1>t, <2>1, <2>2, <2>3
<1>9. ASSUME NEW c \in Caller, RefreshFails(c) PROVE Goal
  <2>1. snapshot' = snapshot /\ answer'.at = answer.at /\ now' = now
    BY <1>9 DEF RefreshFails, Return
  <2>2. \A d \in Caller : pc'[d] = "scanned" => FALSE
    BY <1>9, <1>t DEF RefreshFails, Broadcast, FlightInv, SingleFlight, InFlight
  <2> QED BY <1>t, <2>1, <2>2
<1>10. ASSUME NEW k \in Config, ApplyConfig(k) PROVE Goal
  BY <1>10, <1>t DEF ApplyConfig
<1>11. ASSUME Shutdown PROVE Goal
  <2>1. \A d \in Caller : pc'[d] = "scanned" => pc[d] = "scanned"
    BY <1>11, <1>t DEF Shutdown, Broadcast
  <2> QED BY <1>11, <1>t, <2>1 DEF Shutdown
<1>12. ASSUME Tick \/ UNCHANGED vars PROVE Goal
  BY <1>12, <1>t DEF Tick, vars
<1> HIDE DEF Goal, AgeInv, cacheVars, callerVars
<1> QED BY <1>1, <1>2, <1>3, <1>4, <1>5, <1>6, <1>7, <1>8, <1>9, <1>10, <1>11, <1>12 DEF Next, Step

LEMMA AgeInvariant == Spec => [](TypeOK /\ FlightInv /\ AgeInv)
<1>1. Init => AgeInv
  BY DEF Init, AgeInv
<1> QED BY <1>1, FlightInvariant, AgeStep, PTL DEF Spec

\* A published snapshot is never replaced by an older one: with a single flight
\* no slow scan can overtake a later one.
THEOREM SnapshotsNeverGoBack == Spec => SnapshotsAdvance
<1>1. TypeOK /\ FlightInv /\ AgeInv /\ [Next]_vars
        => [snapshot' # snapshot => snapshot'.at >= snapshot.at]_vars
  BY AgeStep
<1> QED BY <1>1, AgeInvariant, PTL DEF Spec, SnapshotsAdvance

\* Reads are monotone across all callers: no answer is older than an earlier one.
THEOREM AnswersNeverGoBack == Spec => AnswersAdvance
<1>1. TypeOK /\ FlightInv /\ AgeInv /\ [Next]_vars => [answer'.at >= answer.at]_vars
  BY AgeStep
<1> QED BY <1>1, AgeInvariant, PTL DEF Spec, AnswersAdvance

-----------------------------------------------------------------------------
\* What is served was published under the configuration generation in force.
THEOREM ReconfigureInvalidates == Spec => []NoServeAcrossReconfigure
<1> USE DEF NoServeAcrossReconfigure, cacheVars, callerVars
<1>1. Init => NoServeAcrossReconfigure
  BY DEF Init
<1>2. NoServeAcrossReconfigure /\ [Next]_vars => NoServeAcrossReconfigure'
  <2> SUFFICES ASSUME NoServeAcrossReconfigure, [Next]_vars PROVE NoServeAcrossReconfigure'
    OBVIOUS
  <2>1. ASSUME NEW c \in Caller, NEW f \in BOOLEAN, Call(c, f)
        PROVE  NoServeAcrossReconfigure'
    BY <2>1 DEF Call
  <2>2. ASSUME NEW c \in Caller, Refuse(c) \/ ServeCached(c) \/ StartRefresh(c) \/ JoinRefresh(c)
        PROVE  NoServeAcrossReconfigure'
    BY <2>2 DEF Refuse, ServeCached, StartRefresh, JoinRefresh
  <2>3. ASSUME NEW c \in Caller, ListAuth(c) \/ ListFails(c) \/ Assemble(c) \/ RefreshFails(c)
        PROVE  NoServeAcrossReconfigure'
    BY <2>3 DEF ListAuth, ListFails, Assemble, RefreshFails
  <2>4. ASSUME NEW c \in Caller, NEW a \in Account, StartFetch(c, a) \/ EndFetch(c, a)
        PROVE  NoServeAcrossReconfigure'
    BY <2>4 DEF StartFetch, EndFetch
  <2>5. ASSUME NEW c \in Caller, Publish(c) PROVE NoServeAcrossReconfigure'
    BY <2>5 DEF Publish
  <2>6. ASSUME NEW k \in Config, ApplyConfig(k) PROVE NoServeAcrossReconfigure'
    BY <2>6, Zenon DEF ApplyConfig, DropSnapshot
  <2>7. ASSUME Shutdown \/ Tick \/ UNCHANGED vars PROVE NoServeAcrossReconfigure'
    BY <2>7 DEF Shutdown, Tick, vars
  <2> QED BY <2>1, <2>2, <2>3, <2>4, <2>5, <2>6, <2>7 DEF Next, Step
<1> QED BY <1>1, <1>2, PTL DEF Spec

-----------------------------------------------------------------------------
\* The semaphore holds for each flight, and nothing is fetched outside a flight.
FetchInv ==
  \A c \in Caller :
    /\ pc[c] # "fetching" => Running(c) = {}
    /\ Cardinality(Running(c)) <= flight[c].cfg.maxConcurrency

LEMMA RunningFinite ==
  ASSUME NEW c \in Caller
  PROVE  IsFiniteSet(Running(c)) /\ Cardinality(Running(c)) \in Nat
<1>1. Running(c) \in SUBSET Account
  BY DEF Running
<1> QED BY <1>1, CacheAssumption, FS_Subset, FS_CardinalityType

LEMMA LimitPositive ==
  ASSUME TypeOK, NEW c \in Caller
  PROVE  flight[c].cfg.maxConcurrency \in Nat \ {0}
BY CacheAssumption DEF TypeOK, Flight, ConfigShape

\* A caller whose flight has nothing running satisfies both parts.
LEMMA NothingRunning ==
  ASSUME TypeOK', NEW c \in Caller, Running(c)' = {}
  PROVE  /\ pc'[c] # "fetching" => Running(c)' = {}
         /\ Cardinality(Running(c)') <= flight'[c].cfg.maxConcurrency
<1>1. flight'[c].cfg.maxConcurrency \in Nat \ {0}
  BY CacheAssumption DEF TypeOK, Flight, ConfigShape
<1> QED BY <1>1, FS_EmptySet

LEMMA FetchInvStep == TypeOK /\ TypeOK' /\ FetchInv /\ [Next]_vars => FetchInv'
<1> SUFFICES ASSUME TypeOK, TypeOK', FetchInv, [Next]_vars,
                    NEW d \in Caller
             PROVE  /\ pc'[d] # "fetching" => Running(d)' = {}
                    /\ Cardinality(Running(d)') <= flight'[d].cfg.maxConcurrency
  BY DEF FetchInv
<1> DEFINE Goal == /\ pc'[d] # "fetching" => Running(d)' = {}
                   /\ Cardinality(Running(d)') <= flight'[d].cfg.maxConcurrency
<1> USE DEF cacheVars, callerVars
<1>t. /\ pc \in [Caller -> Points] /\ flight \in [Caller -> Flight]
      /\ pc[d] # "fetching" => Running(d) = {}
      /\ Cardinality(Running(d)) <= flight[d].cfg.maxConcurrency
  BY DEF TypeOK, FetchInv
<1>same. ASSUME flight'[d] = flight[d], pc'[d] # "fetching" => pc[d] # "fetching" PROVE Goal
  BY <1>same, <1>t DEF Running
<1>none. ASSUME \A a \in Account : flight'[d].fetch[a] # "running" PROVE Goal
  BY <1>none, NothingRunning DEF Running
<1>1. ASSUME NEW c \in Caller, NEW f \in BOOLEAN, Call(c, f) PROVE Goal
  BY <1>1, <1>t, <1>same DEF Call
<1>ret. ASSUME NEW c \in Caller, NEW kind, NEW at, Return(c, kind, at), d = c PROVE Goal
  BY <1>ret, <1>t, <1>none DEF Return, NoFlight, NoFetch
<1>2. ASSUME NEW c \in Caller, Refuse(c) \/ ServeCached(c) PROVE Goal
  <2>1. CASE d = c
    BY <1>2, <1>ret, <2>1 DEF Refuse, ServeCached
  <2>2. CASE d # c
    BY <1>2, <1>t, <1>same, <2>2 DEF Refuse, ServeCached, Return
  <2> QED BY <2>1, <2>2
<1>3. ASSUME NEW c \in Caller, StartRefresh(c) PROVE Goal
  <2>1. CASE d = c
    BY <1>3, <1>t, <1>none, <2>1 DEF StartRefresh, NoFetch
  <2>2. CASE d # c
    BY <1>3, <1>t, <1>same, <2>2 DEF StartRefresh
  <2> QED BY <2>1, <2>2
<1>4. ASSUME NEW c \in Caller, JoinRefresh(c) \/ ListFails(c) PROVE Goal
  BY <1>4, <1>t, <1>same DEF JoinRefresh, ListFails
<1>5. ASSUME NEW c \in Caller, ListAuth(c) PROVE Goal
  <2>1. CASE d = c
    <3>1. \A a \in Account : flight'[d].fetch[a] # "running"
      BY <1>5, <1>t, <2>1 DEF ListAuth, Flight
    <3> QED BY <3>1, <1>none
  <2>2. CASE d # c
    BY <1>5, <1>t, <1>same, <2>2 DEF ListAuth
  <2> QED BY <2>1, <2>2
<1>6. ASSUME NEW c \in Caller, NEW a \in Account, StartFetch(c, a) PROVE Goal
  <2>1. CASE d = c
    <3>1. flight'[d].cfg = flight[d].cfg /\ Running(d)' = Running(d) \cup {a} /\ pc'[d] = "fetching"
      BY <1>6, <1>t, <2>1 DEF StartFetch, Running, Flight
    <3>f. IsFiniteSet(Running(d)) /\ Cardinality(Running(d)) \in Nat
      BY RunningFinite
    <3>2. Cardinality(Running(d) \cup {a}) \in {Cardinality(Running(d)), Cardinality(Running(d)) + 1}
      BY <3>f, FS_AddElement
    <3>3. Cardinality(Running(d) \cup {a}) \in Nat
      BY <3>2, <3>f
    <3>4. Cardinality(Running(d)) < flight[d].cfg.maxConcurrency
      BY <1>6, <2>1 DEF StartFetch
    <3> QED BY <3>1, <3>2, <3>3, <3>4, <3>f, LimitPositive
  <2>2. CASE d # c
    BY <1>6, <1>t, <1>same, <2>2 DEF StartFetch
  <2> QED BY <2>1, <2>2
<1>7. ASSUME NEW c \in Caller, NEW a \in Account, EndFetch(c, a) PROVE Goal
  <2>1. CASE d = c
    <3>1. flight'[d].cfg = flight[d].cfg /\ Running(d)' = Running(d) \ {a} /\ pc'[d] = "fetching"
      BY <1>7, <1>t, <2>1 DEF EndFetch, Running, Flight
    <3>f. IsFiniteSet(Running(d)) /\ Cardinality(Running(d)) \in Nat
      BY RunningFinite
    <3>2. Cardinality(Running(d) \ {a}) \in {Cardinality(Running(d)), Cardinality(Running(d)) - 1}
      BY <3>f, FS_RemoveElement
    <3> QED BY <3>1, <3>2, <3>f, <1>t, LimitPositive
  <2>2. CASE d # c
    BY <1>7, <1>t, <1>same, <2>2 DEF EndFetch
  <2> QED BY <2>1, <2>2
<1>8. ASSUME NEW c \in Caller, Assemble(c) PROVE Goal
  <2>1. CASE d = c
    BY <1>8, <1>t, <1>none, <2>1 DEF Assemble, Flight
  <2>2. CASE d # c
    BY <1>8, <1>t, <1>same, <2>2 DEF Assemble
  <2> QED BY <2>1, <2>2
<1>9. ASSUME NEW c \in Caller, Publish(c) \/ RefreshFails(c) PROVE Goal
  <2>1. CASE d = c
    BY <1>9, <1>ret, <2>1 DEF Publish, RefreshFails
  <2>2. CASE d # c
    BY <1>9, <1>t, <1>same, <2>2 DEF Publish, RefreshFails, Return, Broadcast
  <2> QED BY <2>1, <2>2
<1>10. ASSUME NEW k \in Config, ApplyConfig(k) PROVE Goal
  BY <1>10, <1>same DEF ApplyConfig
<1>11. ASSUME Shutdown PROVE Goal
  BY <1>11, <1>t, <1>same DEF Shutdown, Broadcast
<1>12. ASSUME Tick \/ UNCHANGED vars PROVE Goal
  BY <1>12, <1>same DEF Tick, vars
<1> HIDE DEF Goal, cacheVars, callerVars
<1>13. Goal
  BY <1>1, <1>2, <1>3, <1>4, <1>5, <1>6, <1>7, <1>8, <1>9, <1>10, <1>11, <1>12 DEF Next, Step
<1> QED BY <1>13 DEF Goal

\* Only the one flight fetches, so its semaphore bounds what the whole plugin
\* asks of the providers at a time.
LEMMA OneFlightBounds == TypeOK /\ SingleFlight /\ FetchInv => FetchBound
<1> SUFFICES ASSUME TypeOK, SingleFlight, FetchInv, NEW c \in Caller, pc[c] = "fetching"
             PROVE  Cardinality({p \in Caller \X Account : flight[p[1]].fetch[p[2]] = "running"})
                      <= flight[c].cfg.maxConcurrency
  BY DEF FetchBound
<1> DEFINE All == {p \in Caller \X Account : flight[p[1]].fetch[p[2]] = "running"}
           tag == [a \in Running(c) |-> <<c, a>>]
<1>1. ASSUME NEW d \in Caller, NEW a \in Account, flight[d].fetch[a] = "running"
      PROVE  d = c /\ a \in Running(c)
  BY <1>1 DEF SingleFlight, FetchInv, Running, InFlight
<1>2. tag \in Surjection(Running(c), All)
  <2>1. \A a \in Running(c) : <<c, a>> \in All
    BY DEF Running
  <2>2. \A p \in All : \E a \in Running(c) : p = <<c, a>>
    BY <1>1
  <2> QED BY <2>1, <2>2 DEF Surjection
<1>3. Cardinality(All) <= Cardinality(Running(c)) /\ Cardinality(All) \in Nat
  <2> HIDE DEF All, tag
  <2> QED BY <1>2, RunningFinite, FS_Surjection, FS_CardinalityType
<1> QED BY <1>3, RunningFinite, LimitPositive DEF FetchInv

\* The plugin never has more upstream fetches under way than the configuration
\* of its current scan allows.
THEOREM FetchesBounded == Spec => []FetchBound
<1>1. Init => FetchInv
  <2> SUFFICES ASSUME Init, NEW c \in Caller
               PROVE  /\ Running(c) = {}
                      /\ Cardinality(Running(c)) <= flight[c].cfg.maxConcurrency
    BY DEF FetchInv
  <2>1. Running(c) = {}
    BY DEF Init, Running, NoFlight, NoFetch
  <2>2. flight[c].cfg.maxConcurrency \in Nat \ {0}
    BY CacheAssumption DEF Init, NoFlight, ConfigShape
  <2> QED BY <2>1, <2>2, FS_EmptySet
<1> QED BY <1>1, TypeCorrect, OneFlight, FetchInvStep, OneFlightBounds, PTL DEF Spec

-----------------------------------------------------------------------------
\* A caller that waited has lost its force flag by the time it loops again.
WaitedInv ==
  \A c \in Caller :
    request[c].waited => pc[c] # "idle" /\ (pc[c] = "loop" => ~force[c])

LEMMA WaitedStep == TypeOK /\ WaitedInv /\ [Next]_vars => WaitedInv'
<1> SUFFICES ASSUME TypeOK, WaitedInv, [Next]_vars PROVE WaitedInv'
  OBVIOUS
<1> USE DEF cacheVars, callerVars
<1>t. /\ pc \in [Caller -> Points] /\ request \in [Caller -> Request]
      /\ force \in [Caller -> BOOLEAN]
  BY DEF TypeOK
<1>n. NoRequest.waited = FALSE
  BY DEF NoRequest
<1>1. ASSUME NEW c \in Caller, NEW f \in BOOLEAN, Call(c, f) PROVE WaitedInv'
  <2>1. /\ pc[c] = "idle" /\ \A d \in Caller \ {c} : pc'[d] = pc[d] /\ force'[d] = force[d]
        /\ \A d \in Caller : request'[d].waited = request[d].waited
    BY <1>1, <1>t DEF Call, Request
  <2> QED BY <2>1 DEF WaitedInv
<1>2. ASSUME NEW c \in Caller, NEW kind, NEW at, Return(c, kind, at),
             \A d \in Caller \ {c} :
               \/ pc'[d] = pc[d] /\ force'[d] = force[d]
               \/ pc'[d] = "loop" /\ ~force'[d]
      PROVE  WaitedInv'
  <2>1. \A d \in Caller : request'[d].waited => d # c /\ pc[d] # "idle" /\ request[d].waited
    <3> SUFFICES ASSUME NEW d \in Caller, request'[d].waited
                 PROVE  d # c /\ pc[d] # "idle" /\ request[d].waited
      OBVIOUS
    <3> DEFINE b == request[d].scanned \/ kind = "scanned"
    <3>1. request'[d] = IF d = c \/ pc[d] = "idle" THEN NoRequest
                        ELSE [request[d] EXCEPT !.scanned = b]
      BY <1>2 DEF Return
    <3> HIDE DEF b
    <3>2. [request[d] EXCEPT !.scanned = b].waited = request[d].waited
      BY <1>t DEF Request
    <3> QED BY <1>n, <3>1, <3>2
  <2> QED BY <1>2, <2>1 DEF WaitedInv
<1>3. ASSUME NEW c \in Caller, Refuse(c) \/ ServeCached(c) PROVE WaitedInv'
  <2>1. \A d \in Caller \ {c} : pc'[d] = pc[d] /\ force'[d] = force[d]
    BY <1>3, <1>t DEF Refuse, ServeCached
  <2> QED BY <1>2, <1>3, <2>1 DEF Refuse, ServeCached
<1>4. ASSUME NEW c \in Caller, Publish(c) \/ RefreshFails(c) PROVE WaitedInv'
  <2>1. /\ pc' = [d \in Caller |-> IF [pc EXCEPT ![c] = "idle"][d] = "waiting" THEN "loop"
                                   ELSE [pc EXCEPT ![c] = "idle"][d]]
        /\ force' = [d \in Caller |-> /\ [force EXCEPT ![c] = FALSE][d]
                                      /\ [pc EXCEPT ![c] = "idle"][d] # "waiting"]
    BY <1>4 DEF Publish, RefreshFails, Broadcast
  <2>2. \A d \in Caller \ {c} : /\ pc'[d] = IF pc[d] = "waiting" THEN "loop" ELSE pc[d]
                                /\ force'[d] = (force[d] /\ pc[d] # "waiting")
    BY <1>t, <2>1
  <2>3. \A d \in Caller \ {c} : \/ pc'[d] = pc[d] /\ force'[d] = force[d]
                                \/ pc'[d] = "loop" /\ ~force'[d]
    BY <1>t, <2>2
  <2> QED BY <1>2, <1>4, <2>3 DEF Publish, RefreshFails
<1>5. ASSUME NEW c \in Caller, JoinRefresh(c) PROVE WaitedInv'
  <2>1. /\ pc'[c] = "waiting" /\ force' = force
        /\ \A d \in Caller \ {c} : pc'[d] = pc[d] /\ request'[d] = request[d]
    BY <1>5, <1>t DEF JoinRefresh
  <2> QED BY <2>1 DEF WaitedInv
<1>6. ASSUME NEW c \in Caller, StartRefresh(c) \/ ListAuth(c) \/ ListFails(c) \/ Assemble(c)
      PROVE  WaitedInv'
  <2>1. /\ pc'[c] \notin {"idle", "loop"} /\ request' = request /\ force' = force
        /\ \A d \in Caller \ {c} : pc'[d] = pc[d]
    BY <1>6, <1>t DEF StartRefresh, ListAuth, ListFails, Assemble
  <2> QED BY <2>1 DEF WaitedInv
<1>7. ASSUME NEW c \in Caller, NEW a \in Account, StartFetch(c, a) \/ EndFetch(c, a)
      PROVE  WaitedInv'
  BY <1>7 DEF StartFetch, EndFetch, WaitedInv
<1>8. CASE Shutdown
  <2>1. /\ request' = request
        /\ \A d \in Caller : /\ pc'[d] = IF pc[d] = "waiting" THEN "loop" ELSE pc[d]
                             /\ force'[d] = (force[d] /\ pc[d] # "waiting")
    BY <1>8, <1>t DEF Shutdown, Broadcast
  <2> QED BY <2>1 DEF WaitedInv
<1>9. CASE (\E k \in Config : ApplyConfig(k)) \/ Tick \/ UNCHANGED vars
  BY <1>9 DEF ApplyConfig, Tick, vars, WaitedInv
<1> QED BY <1>1, <1>3, <1>4, <1>5, <1>6, <1>7, <1>8, <1>9 DEF Next, Step

\* A caller that waited for a scan is served by it, and starts one of its own only when
\* no fresh snapshot is there: concurrent requests share the upstream fetch.
THEOREM WaitersShare == Spec => WaitersShareTheScan
<1>1. Init => WaitedInv
  BY DEF Init, WaitedInv, NoRequest
<1>2. TypeOK /\ WaitedInv /\ [Next]_vars
        => [\A c \in Caller :
              request[c].waited /\ Fresh => ~(pc[c] = "loop" /\ pc'[c] = "listing")]_vars
  <2> SUFFICES ASSUME TypeOK, WaitedInv, [Next]_vars, NEW c \in Caller, request[c].waited, Fresh,
                      pc[c] = "loop", pc'[c] = "listing"
               PROVE  FALSE
    OBVIOUS
  <2>1. pc \in [Caller -> Points] /\ ~force[c]
    BY DEF TypeOK, WaitedInv
  <2>2. ASSUME NEW d \in Caller, StartRefresh(d) PROVE FALSE
    BY <2>1, <2>2 DEF StartRefresh
  <2>3. ASSUME NEW d \in Caller,
               \/ \E f \in BOOLEAN : Call(d, f)
               \/ Refuse(d) \/ ServeCached(d) \/ JoinRefresh(d) \/ ListAuth(d) \/ ListFails(d)
               \/ Assemble(d) \/ \E a \in Account : StartFetch(d, a) \/ EndFetch(d, a)
        PROVE  FALSE
    BY <2>1, <2>3 DEF Call, Refuse, ServeCached, JoinRefresh, ListAuth, ListFails, Assemble,
                      StartFetch, EndFetch
  <2>4. ASSUME NEW d \in Caller, Publish(d) \/ RefreshFails(d) PROVE FALSE
    BY <2>1, <2>4 DEF Publish, RefreshFails, Broadcast
  <2>5. CASE Shutdown
    BY <2>1, <2>5 DEF Shutdown, Broadcast
  <2>6. CASE (\E k \in Config : ApplyConfig(k)) \/ Tick \/ UNCHANGED vars
    BY <2>6 DEF ApplyConfig, Tick, vars, callerVars
  <2> QED BY <2>2, <2>3, <2>4, <2>5, <2>6 DEF Next, Step
<1> QED BY <1>1, <1>2, WaitedStep, TypeCorrect, PTL DEF Spec, WaitersShareTheScan
-----------------------------------------------------------------------------
\* The refinement.  Nobody insists before asking.
IdleInv == \A c \in Caller : pc[c] = "idle" => ~force[c]

\* What each step does to what the service knows.
Same == UNCHANGED <<now, cfg, closed, Asking, Insisting, Scanning, Scanned, Published, answer>>

LEMMA IdleStep == TypeOK /\ IdleInv /\ [Next]_vars => IdleInv'
<1> SUFFICES ASSUME TypeOK, IdleInv, [Next]_vars PROVE IdleInv'
  OBVIOUS
<1> USE DEF IdleInv, cacheVars, callerVars
<1>t. pc \in [Caller -> Points] /\ force \in [Caller -> BOOLEAN]
  BY DEF TypeOK
<1>1. ASSUME NEW c \in Caller, NEW f \in BOOLEAN, Call(c, f) PROVE IdleInv'
  BY <1>1, <1>t DEF Call
<1>2. ASSUME NEW c \in Caller, Refuse(c) \/ ServeCached(c) PROVE IdleInv'
  BY <1>2, <1>t DEF Refuse, ServeCached
<1>3. ASSUME NEW c \in Caller,
             StartRefresh(c) \/ JoinRefresh(c) \/ ListAuth(c) \/ ListFails(c) \/ Assemble(c)
      PROVE  IdleInv'
  BY <1>3, <1>t DEF StartRefresh, JoinRefresh, ListAuth, ListFails, Assemble
<1>4. ASSUME NEW c \in Caller, NEW a \in Account, StartFetch(c, a) \/ EndFetch(c, a) PROVE IdleInv'
  BY <1>4 DEF StartFetch, EndFetch
<1>5. ASSUME NEW c \in Caller, Publish(c) \/ RefreshFails(c) PROVE IdleInv'
  <2>1. \A d \in Caller : pc'[d] = "idle" => d = c \/ pc[d] = "idle"
    BY <1>5, <1>t DEF Publish, RefreshFails, Broadcast
  <2>2. ~force'[c] /\ \A d \in Caller : force'[d] => force[d]
    BY <1>5, <1>t DEF Publish, RefreshFails, Broadcast
  <2> QED BY <2>1, <2>2
<1>6. CASE Shutdown
  <2>1. \A d \in Caller : (pc'[d] = "idle" => pc[d] = "idle") /\ (force'[d] => force[d])
    BY <1>6, <1>t DEF Shutdown, Broadcast
  <2> QED BY <2>1
<1>7. CASE (\E k \in Config : ApplyConfig(k)) \/ Tick \/ UNCHANGED vars
  BY <1>7 DEF ApplyConfig, Tick, vars
<1> QED BY <1>1, <1>2, <1>3, <1>4, <1>5, <1>6, <1>7 DEF Next, Step

\* The steps of the cache as steps of the service.
LEMMA ServiceStep ==
  TypeOK /\ SingleFlight /\ IdleInv /\ [Next]_vars => [Service!Next]_(Service!vars)
<1> SUFFICES ASSUME TypeOK, SingleFlight, IdleInv, [Next]_vars
             PROVE  Service!Next \/ UNCHANGED Service!vars
  OBVIOUS
<1> DEFINE Goal == Service!Next \/ UNCHANGED Service!vars
<1> USE DEF cacheVars, callerVars
<1>t. /\ pc \in [Caller -> Points] /\ force \in [Caller -> BOOLEAN]
      /\ flight \in [Caller -> Flight] /\ hasSnapshot \in BOOLEAN /\ closed \in BOOLEAN
      /\ snapshot \in [at : Nat, gen : Nat]
  BY DEF TypeOK
<1>s. Same => Goal
  <2> SUFFICES ASSUME Same PROVE UNCHANGED Service!vars
    OBVIOUS
  <2>1. cfg'.ttl = cfg.ttl /\ (~closed)' = ~closed
    BY DEF Same
  <2> QED BY <2>1 DEF Same, Service!vars
<1>1. ASSUME NEW c \in Caller, NEW f \in BOOLEAN, Call(c, f) PROVE Service!Ask(c)
  <2>1. c \notin Asking /\ Asking' = Asking \cup {c}
    BY <1>1, <1>t DEF Call, Asking
  <2>2. Insisting' \in {Insisting, Insisting \cup {c}}
    <3>1. c \notin Insisting
      BY <1>1 DEF Call, IdleInv, Insisting
    <3>2. CASE f
      BY <1>1, <1>t, <3>2 DEF Call, Insisting
    <3>3. CASE ~f
      BY <1>1, <1>t, <3>1, <3>3 DEF Call, Insisting
    <3> QED BY <3>2, <3>3
  <2>3. Scanning' = Scanning /\ Scanned' = Scanned
    BY <1>1, <1>t DEF Call, Scanning, Scanned, InFlight
  <2>4. UNCHANGED <<now, cfg, closed, Published, answer>>
    BY <1>1 DEF Call, Published
  <2> HIDE DEF cacheVars, callerVars
  <2> QED BY <2>1, <2>2, <2>3, <2>4, Zenon DEF Service!Ask
<1>r. ASSUME NEW c \in Caller, NEW kind, NEW at, Return(c, kind, at), pc'[c] = "idle",
             \A d \in Caller \ {c} : pc'[d] = "idle" <=> pc[d] = "idle"
      PROVE  Service!Answer(c, kind, at)
  <2>1. answer' = [kind |-> kind, at |-> at]
    BY <1>r DEF Return
  <2>2. Asking' = Asking \ {c}
    BY <1>r DEF Asking
  <2> QED BY <2>1, <2>2, Zenon DEF Service!Answer
<1>2. ASSUME NEW c \in Caller, Refuse(c) PROVE Service!Refuse(c)
  <2>1. c \in Asking \ Scanning
    BY <1>2 DEF Refuse, Asking, Scanning, InFlight
  <2>2. ~(~closed) /\ UNCHANGED <<now, cfg, closed, Published>>
    BY <1>2 DEF Refuse, Open, Published
  <2>3. Service!Answer(c, "canceled", answer.at)
    BY <1>2, <1>t, <1>r DEF Refuse
  <2>4. Insisting' = Insisting \ {c}
    BY <1>2, <1>t DEF Refuse, Insisting
  <2>5. Scanning' = Scanning /\ Scanned' = Scanned
    BY <1>2, <1>t DEF Refuse, Return, Scanning, Scanned, InFlight
  <2> HIDE DEF cacheVars, callerVars
  <2> QED BY <2>1, <2>2, <2>3, <2>4, <2>5, Zenon DEF Service!Refuse
<1>f. Fresh <=> Service!Fresh
  BY DEF Fresh, Service!Fresh, Published
<1>3. ASSUME NEW c \in Caller, ServeCached(c) PROVE Service!ServeCached(c)
  <2>1. c \in Asking \ (Scanning \cup Insisting)
    BY <1>3 DEF ServeCached, Asking, Scanning, InFlight, Insisting
  <2>2. ~closed /\ Service!Fresh /\ UNCHANGED <<now, cfg, closed, Published>>
    BY <1>3, <1>f DEF ServeCached, Open, Published
  <2>3. Service!Answer(c, "cached", Published.at)
    <3>1. Return(c, "cached", Published.at)
      BY <1>3 DEF ServeCached, Published
    <3> QED BY <1>3, <1>t, <1>r, <3>1 DEF ServeCached
  <2>4. Insisting' = Insisting
    BY <1>3 DEF ServeCached, Insisting
  <2>5. Scanning' = Scanning /\ Scanned' = Scanned
    BY <1>3, <1>t DEF ServeCached, Return, Scanning, Scanned, InFlight
  <2> HIDE DEF cacheVars, callerVars
  <2> QED BY <2>1, <2>2, <2>3, <2>4, <2>5, Zenon DEF Service!ServeCached
<1>4. ASSUME NEW c \in Caller, StartRefresh(c) PROVE Service!Begin(c)
  <2>1. c \in Asking /\ ~closed
    BY <1>4 DEF StartRefresh, Asking, Open
  <2>2. Scanning = {} /\ Scanning' = {c}
    <3>1. Scanning = {}
      BY <1>4 DEF StartRefresh, MayStart, SingleFlight, Scanning
    <3> QED BY <1>4, <1>t, <3>1 DEF StartRefresh, Scanning, InFlight
  <2>3. c \in Insisting \/ ~Service!Fresh
    BY <1>4, <1>f DEF StartRefresh, Insisting
  <2>4. Asking' = Asking /\ Insisting' = Insisting /\ Scanned' = Scanned
    BY <1>4, <1>t DEF StartRefresh, Asking, Insisting, Scanned
  <2>5. UNCHANGED <<now, cfg, closed, Published, answer>>
    BY <1>4 DEF StartRefresh, Published
  <2> HIDE DEF cacheVars, callerVars
  <2> QED BY <2>1, <2>2, <2>3, <2>4, <2>5, Zenon DEF Service!Begin
<1>5. ASSUME NEW c \in Caller, JoinRefresh(c) \/ ListAuth(c) \/ ListFails(c) PROVE Same
  <2>1. Asking' = Asking /\ Insisting' = Insisting /\ Scanning' = Scanning
    BY <1>5, <1>t DEF JoinRefresh, ListAuth, ListFails, Asking, Insisting, Scanning, InFlight
  <2>2. Scanned' = Scanned
    <3>1. \A d \in Caller : (pc'[d] = "scanned" <=> pc[d] = "scanned")
                            /\ (pc[d] = "scanned" => flight'[d] = flight[d])
      BY <1>5, <1>t DEF JoinRefresh, ListAuth, ListFails
    <3> QED BY <3>1 DEF Scanned
  <2>3. UNCHANGED <<now, cfg, closed, Published, answer>>
    BY <1>5 DEF JoinRefresh, ListAuth, ListFails, Published
  <2> QED BY <2>1, <2>2, <2>3 DEF Same
<1>6. ASSUME NEW c \in Caller, NEW a \in Account, StartFetch(c, a) \/ EndFetch(c, a) PROVE Same
  <2>1. Scanned' = Scanned
    <3>1. \A d \in Caller : pc'[d] = pc[d] /\ flight'[d].at = flight[d].at
      BY <1>6, <1>t DEF StartFetch, EndFetch, Flight
    <3> QED BY <3>1 DEF Scanned
  <2>2. UNCHANGED <<now, cfg, closed, Asking, Insisting, Scanning, Published, answer>>
    BY <1>6 DEF StartFetch, EndFetch, Asking, Insisting, Scanning, Published
  <2> QED BY <2>1, <2>2 DEF Same
<1>7. ASSUME NEW c \in Caller, Assemble(c) PROVE Service!EndScan
  <2>1. c \in Scanning /\ Scanning' = Scanning
    BY <1>7, <1>t DEF Assemble, Scanning, InFlight
  <2>2. Scanned = {} /\ Scanned' = {now}
    <3>1. \A d \in Caller : pc[d] # "scanned" /\ (pc'[d] = "scanned" <=> d = c)
      BY <1>7, <1>t DEF Assemble, SingleFlight, InFlight
    <3>2. flight'[c].at = now
      BY <1>7, <1>t DEF Assemble, GeneratedAt, Flight
    <3> QED BY <3>1, <3>2 DEF Scanned
  <2>3. Asking' = Asking /\ Insisting' = Insisting
    BY <1>7, <1>t DEF Assemble, Asking, Insisting
  <2>4. UNCHANGED <<now, cfg, closed, Published, answer>>
    BY <1>7 DEF Assemble, Published
  <2> HIDE DEF cacheVars, callerVars
  <2>5. Scanning # {}
    BY <2>1
  <2> QED BY <2>1, <2>2, <2>3, <2>4, <2>5, Zenon DEF Service!EndScan
<1>e. ASSUME NEW c \in Caller, Publish(c) \/ RefreshFails(c)
      PROVE  /\ c \in Scanning /\ Scanning' = {} /\ Scanned' = {}
             /\ Service!Contented(c) /\ pc'[c] = "idle"
             /\ \A d \in Caller \ {c} : pc'[d] = "idle" <=> pc[d] = "idle"
  <2>1. /\ pc[c] \in InFlight /\ pc'[c] = "idle" /\ ~force'[c]
        /\ \A d \in Caller \ {c} : /\ pc'[d] = IF pc[d] = "waiting" THEN "loop" ELSE pc[d]
                                   /\ force'[d] => force[d]
    BY <1>e, <1>t DEF Publish, RefreshFails, Broadcast, InFlight
  <2>2. \A d \in Caller \ {c} : pc[d] \notin InFlight
    BY <2>1 DEF SingleFlight
  <2>3. c \in Scanning /\ Scanning' = {} /\ Scanned' = {}
    BY <2>1, <2>2 DEF Scanning, Scanned, InFlight
  <2>4. Insisting' \in SUBSET (Insisting \ {c})
    BY <2>1 DEF Insisting
  <2> QED BY <2>1, <2>3, <2>4 DEF Service!Contented
<1>8. ASSUME NEW c \in Caller, Publish(c) PROVE Service!Publish(c)
  <2> DEFINE at == flight[c].at
  <2>1. at \in Scanned
    BY <1>8 DEF Publish, Scanned
  <2>2. Published' = [at |-> at, valid |-> TRUE]
    BY <1>8, Zenon DEF Publish, Published
  <2>3. Service!Answer(c, "scanned", at)
    <3>1. Return(c, "scanned", at)
      BY <1>8 DEF Publish
    <3> QED BY <1>8, <1>e, <1>r, <3>1
  <2>4. UNCHANGED <<now, cfg, closed>>
    BY <1>8 DEF Publish
  <2> HIDE DEF cacheVars, callerVars, at
  <2> QED BY <1>8, <1>e, <2>1, <2>2, <2>3, <2>4, Zenon DEF Service!Publish
<1>9. ASSUME NEW c \in Caller, RefreshFails(c) PROVE Service!Fail(c)
  <2>1. Scanned = {}
    BY <1>9 DEF RefreshFails, Scanned, SingleFlight, InFlight
  <2>2. Service!Answer(c, "failed", answer.at)
    <3>1. Return(c, "failed", answer.at)
      BY <1>9 DEF RefreshFails
    <3> QED BY <1>9, <1>e, <1>r, <3>1
  <2>3. UNCHANGED <<now, cfg, closed, Published>>
    BY <1>9 DEF RefreshFails, Published
  <2> HIDE DEF cacheVars, callerVars
  <2> QED BY <1>9, <1>e, <2>1, <2>2, <2>3, Zenon DEF Service!Fail
<1>10. ASSUME NEW k \in Config, ApplyConfig(k)
       PROVE  \E t \in {x.ttl : x \in Config} : Service!Reconfigure(t)
  <2>1. /\ cfg' = k /\ (~closed)' = TRUE /\ now' = now /\ answer' = answer
        /\ Asking' = Asking /\ Insisting' = Insisting /\ Scanning' = Scanning /\ Scanned' = Scanned
    BY <1>10 DEF ApplyConfig, Asking, Insisting, Scanning, Scanned
  <2>2. Published' = [at |-> Published.at, valid |-> FALSE]
    <3>1. hasSnapshot' = FALSE /\ snapshot' = snapshot
      BY <1>10 DEF ApplyConfig, DropSnapshot
    <3>2. Published.at = snapshot.at
      BY DEF Published
    <3> QED BY <3>1, <3>2, Zenon DEF Published
  <2>3. Service!Reconfigure(k.ttl)
    BY <2>1, <2>2, Zenon DEF Service!Reconfigure
  <2> QED BY <2>3
<1>11. ASSUME Shutdown PROVE Service!Close
  <2>1. \A d \in Caller : /\ pc'[d] = IF pc[d] = "waiting" THEN "loop" ELSE pc[d]
                          /\ force'[d] => force[d]
    BY <1>11, <1>t DEF Shutdown, Broadcast
  <2>2. Insisting' \in SUBSET Insisting
    BY <2>1 DEF Insisting
  <2>3. Asking' = Asking /\ Scanning' = Scanning /\ Scanned' = Scanned
    BY <1>11, <1>t, <2>1 DEF Shutdown, Asking, Scanning, Scanned, InFlight
  <2>4. (~closed)' = FALSE /\ UNCHANGED <<now, cfg, Published, answer>>
    BY <1>11 DEF Shutdown, Published
  <2> HIDE DEF cacheVars, callerVars
  <2> QED BY <2>2, <2>3, <2>4, Zenon DEF Service!Close
<1>12. ASSUME Tick PROVE Service!Tick
  <2>1. /\ now' = now + 1 /\ UNCHANGED <<cfg, closed, answer>>
        /\ UNCHANGED <<Asking, Insisting, Scanning, Scanned, Published>>
    BY <1>12 DEF Tick, Asking, Insisting, Scanning, Scanned, Published
  <2> HIDE DEF cacheVars, callerVars
  <2> QED BY <2>1, Zenon DEF Service!Tick
<1>13. ASSUME UNCHANGED vars PROVE Same
  BY <1>13 DEF vars, Same, Asking, Insisting, Scanning, Scanned, Published
<1> HIDE DEF cacheVars, callerVars
<1>14. ASSUME NEW c \in Caller,
              Service!Ask(c) \/ Service!Refuse(c) \/ Service!ServeCached(c) \/ Service!Begin(c)
              \/ Service!Publish(c) \/ Service!Fail(c)
       PROVE  Goal
  BY <1>14, Zenon DEF Service!Next
<1>15. ASSUME Service!EndScan \/ Service!Close \/ Service!Tick
              \/ \E t \in {x.ttl : x \in Config} : Service!Reconfigure(t)
       PROVE  Goal
  BY <1>15, Zenon DEF Service!Next
<1> HIDE DEF Goal
<1>16. ASSUME NEW c \in Caller, Step(c) PROVE Goal
  BY <1>s, <1>2, <1>3, <1>4, <1>5, <1>6, <1>7, <1>8, <1>9, <1>14, <1>15, <1>16, Zenon DEF Step
<1>17. Goal
  BY <1>s, <1>1, <1>10, <1>11, <1>12, <1>13, <1>14, <1>15, <1>16, Zenon DEF Next
<1> QED BY <1>17 DEF Goal

\* The cache implements the service, for any callers, accounts, configurations and
\* bounds: getSnapshot's waiting and the scan's fetches are invisible, and every other
\* step is one the service may take.
THEOREM ImplementsService == Spec => KeepsService
<1>1. Init => Service!Init
  <2> SUFFICES ASSUME Init PROVE Service!Init
    OBVIOUS
  <2>1. Asking = {} /\ Insisting = {} /\ Scanning = {} /\ Scanned = {}
    BY DEF Init, Asking, Insisting, Scanning, Scanned, InFlight
  <2>2. Published = [at |-> 0, valid |-> FALSE]
    BY Zenon DEF Init, Published
  <2>3. now = 0 /\ cfg.ttl = InitConfig.ttl /\ (~closed) = TRUE /\ answer = [kind |-> "none", at |-> 0]
    BY Zenon DEF Init
  <2> QED BY <2>1, <2>2, <2>3, Zenon DEF Service!Init
<1>2. Init => IdleInv
  BY DEF Init, IdleInv
<1> QED BY <1>1, <1>2, TypeCorrect, OneFlight, IdleStep, ServiceStep, PTL
        DEF Spec, KeepsService, Service!Spec
=============================================================================
