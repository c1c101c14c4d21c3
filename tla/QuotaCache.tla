----------------------------- MODULE QuotaCache -----------------------------
(***************************************************************************)
(* The quota snapshot cache of the root plugin (runtime.go): management    *)
(* requests call getSnapshot concurrently, a stale or forced read starts   *)
(* one refresh that scans every account through a semaphore, the others    *)
(* wait on r.cond.  The host may reconfigure the plugin or shut it down at *)
(* any moment.  r.mu protects the shared fields and is released during the *)
(* scan, so each critical section is one action.                           *)
(***************************************************************************)
EXTENDS Naturals, FiniteSets

CONSTANTS
  Caller,       \* goroutines that serve management requests
  Account,      \* auth entries the host may list (with an auth index, not runtime-only)
  Disabled,     \* those of them the host marks disabled
  Config,       \* configurations the host may apply
  InitConfig,   \* defaultConfig(), in force before the first registration
  MaxTime,      \* bound: clock ticks
  MaxApply,     \* bound: applied configurations
  MaxListErrors \* bound: failed host.listAuth calls

ConfigShape == [ttl : Nat \ {0}, maxConcurrency : Nat \ {0}, includeDisabled : BOOLEAN]

ASSUME CacheAssumption ==
  /\ Disabled \subseteq Account
  /\ IsFiniteSet(Account)
  /\ IsFiniteSet(Caller)
  /\ Config \subseteq ConfigShape        \* decodeLifecycleConfig: cache-ttl >= 1m, 1 <= max-concurrency
  /\ InitConfig \in Config
  /\ MaxTime \in Nat /\ MaxApply \in Nat /\ MaxListErrors \in Nat

VARIABLES
  now,          \* time.Now
  cfg,          \* r.cfg
  snapshot,     \* r.snapshot
  hasSnapshot,  \* r.hasSnapshot
  refreshing,   \* r.refreshing
  closed,       \* r.closed
  pc,           \* where each caller is in getSnapshot
  force,        \* the caller's force argument, cleared after a wait
  flight,       \* the caller's refresh: configuration copied, generated_at, fetches
  gen,          \* history: configurations applied so far
  request,      \* history: was the caller's request forced, has it waited, was a scan published since
  answer,       \* history: the last answer, and generated_at of the last good one
  listErrors    \* host.listAuth failures so far

cacheVars   == <<cfg, snapshot, hasSnapshot, refreshing, closed>>
callerVars  == <<pc, force, flight, request, answer>>
vars        == <<now, cacheVars, callerVars, gen, listErrors>>

FetchState  == {"none", "queued", "running", "done"}
InFlight    == {"listing", "fetching", "failed", "scanned"}
Points      == {"idle", "loop", "waiting"} \cup InFlight
Kinds       == {"none", "canceled", "failed", "scanned", "cached"}

NoFetch     == [a \in Account |-> "none"]
NoFlight    == [cfg |-> InitConfig, at |-> 0, fetch |-> NoFetch]
NoRequest   == [forced |-> FALSE, waited |-> FALSE, scanned |-> FALSE]

Flight      == [cfg : Config, at : Nat, fetch : [Account -> FetchState]]
Request     == [forced : BOOLEAN, waited : BOOLEAN, scanned : BOOLEAN]

TypeOK ==
  /\ now \in Nat
  /\ cfg \in Config
  /\ snapshot \in [at : Nat, gen : Nat]
  /\ hasSnapshot \in BOOLEAN
  /\ refreshing \in BOOLEAN
  /\ closed \in BOOLEAN
  /\ pc \in [Caller -> Points]
  /\ force \in [Caller -> BOOLEAN]
  /\ flight \in [Caller -> Flight]
  /\ gen \in Nat
  /\ request \in [Caller -> Request]
  /\ answer \in [kind : Kinds, at : Nat]
  /\ listErrors \in Nat

Init ==
  /\ now = 0
  /\ cfg = InitConfig
  /\ snapshot = [at |-> 0, gen |-> 0]
  /\ hasSnapshot = FALSE
  /\ refreshing = FALSE
  /\ closed = FALSE
  /\ pc = [c \in Caller |-> "idle"]
  /\ force = [c \in Caller |-> FALSE]
  /\ flight = [c \in Caller |-> NoFlight]
  /\ gen = 0
  /\ request = [c \in Caller |-> NoRequest]
  /\ answer = [kind |-> "none", at |-> 0]
  /\ listErrors = 0

-----------------------------------------------------------------------------
(* getSnapshot: the loop under r.mu.  Operators marked (mutant) are plausible *)
(* bugs that PROJECT.json substitutes for the definition after them.          *)

\* A snapshot may be served while its age is below the TTL now in force.
Fresh == hasSnapshot /\ now - snapshot.at < cfg.ttl

\* getSnapshot returns to caller c: its locals are gone.
Return(c, kind, at) ==
  /\ flight' = [flight EXCEPT ![c] = NoFlight]
  /\ request' = [d \in Caller |->
       IF d = c \/ pc[d] = "idle" THEN NoRequest
       ELSE [request[d] EXCEPT !.scanned = @ \/ kind = "scanned"]]
  /\ answer' = [kind |-> kind, at |-> at]

\* A management request arrives and contends for r.mu.
Call(c, f) ==
  /\ pc[c] = "idle"
  /\ pc' = [pc EXCEPT ![c] = "loop"]
  /\ force' = [force EXCEPT ![c] = f]
  /\ request' = [request EXCEPT ![c].forced = f]
  /\ UNCHANGED <<now, cacheVars, flight, answer, gen, listErrors>>

Open == ~closed

Refuse(c) ==
  /\ pc[c] = "loop"
  /\ ~Open
  /\ pc' = [pc EXCEPT ![c] = "idle"]
  /\ force' = [force EXCEPT ![c] = FALSE]
  /\ Return(c, "canceled", answer.at)
  /\ UNCHANGED <<now, cacheVars, gen, listErrors>>

ServeCached(c) ==
  /\ pc[c] = "loop"
  /\ Open
  /\ ~force[c] /\ Fresh
  /\ pc' = [pc EXCEPT ![c] = "idle"]
  /\ Return(c, "cached", snapshot.at)
  /\ UNCHANGED <<now, cacheVars, force, gen, listErrors>>

AnyoneMayStart == TRUE                                            \* (mutant)
MayStart == ~refreshing

\* Nobody is refreshing: this caller does, with a copy of the configuration.
StartRefresh(c) ==
  /\ pc[c] = "loop"
  /\ Open
  /\ force[c] \/ ~Fresh
  /\ MayStart
  /\ refreshing' = TRUE
  /\ pc' = [pc EXCEPT ![c] = "listing"]
  /\ flight' = [flight EXCEPT ![c] = [cfg |-> cfg, at |-> 0, fetch |-> NoFetch]]
  /\ UNCHANGED <<now, cfg, snapshot, hasSnapshot, closed, force, request, answer, gen, listErrors>>

\* Somebody is: cond.Wait releases r.mu.
JoinRefresh(c) ==
  /\ pc[c] = "loop"
  /\ Open
  /\ force[c] \/ ~Fresh
  /\ ~MayStart
  /\ pc' = [pc EXCEPT ![c] = "waiting"]
  /\ request' = [request EXCEPT ![c].waited = TRUE]
  /\ UNCHANGED <<now, cacheVars, force, flight, answer, gen, listErrors>>

BroadcastNobody(p, f) == pc' = p /\ force' = f                    \* (mutant)
BroadcastKeepsForce(p, f) ==                                      \* (mutant)
  /\ pc' = [c \in Caller |-> IF p[c] = "waiting" THEN "loop" ELSE p[c]]
  /\ force' = f

\* cond.Broadcast, given the program points and force flags otherwise reached: a
\* woken caller loops with force = false.
Broadcast(p, f) ==
  /\ pc' = [c \in Caller |-> IF p[c] = "waiting" THEN "loop" ELSE p[c]]
  /\ force' = [c \in Caller |-> f[c] /\ p[c] # "waiting"]

-----------------------------------------------------------------------------
(* refresh: outside r.mu *)

\* The entries a scan covers: disabled ones only when the configuration says so.
Selected(listed, k) == {a \in listed : a \in Disabled => k.includeDisabled}

\* The host lists whatever auth entries exist by now.
ListAuth(c) ==
  /\ pc[c] = "listing"
  /\ \E listed \in SUBSET Account :
       flight' = [flight EXCEPT ![c].fetch =
                    [a \in Account |-> IF a \in Selected(listed, flight[c].cfg) THEN "queued" ELSE "none"]]
  /\ pc' = [pc EXCEPT ![c] = "fetching"]
  /\ UNCHANGED <<now, cacheVars, force, request, answer, gen, listErrors>>

ListFails(c) ==
  /\ pc[c] = "listing"
  /\ listErrors < MaxListErrors
  /\ listErrors' = listErrors + 1
  /\ pc' = [pc EXCEPT ![c] = "failed"]
  /\ UNCHANGED <<now, cacheVars, force, flight, request, answer, gen>>

Running(c) == {a \in Account : flight[c].fetch[a] = "running"}

\* One goroutine per account; the semaphore admits MaxConcurrency of them.
StartFetch(c, a) ==
  /\ pc[c] = "fetching"
  /\ flight[c].fetch[a] = "queued"
  /\ Cardinality(Running(c)) < flight[c].cfg.maxConcurrency
  /\ flight' = [flight EXCEPT ![c].fetch[a] = "running"]
  /\ UNCHANGED <<now, cacheVars, pc, force, request, answer, gen, listErrors>>

\* An account that fails is an account with an error, never a failed refresh.
EndFetch(c, a) ==
  /\ pc[c] = "fetching"
  /\ flight[c].fetch[a] = "running"
  /\ flight' = [flight EXCEPT ![c].fetch[a] = "done"]
  /\ UNCHANGED <<now, cacheVars, pc, force, request, answer, gen, listErrors>>

GeneratedAt == now

\* wg.Wait returned: the response gets its generated_at.
Assemble(c) ==
  /\ pc[c] = "fetching"
  /\ \A a \in Account : flight[c].fetch[a] \in {"none", "done"}
  /\ flight' = [flight EXCEPT ![c].at = GeneratedAt]
  /\ pc' = [pc EXCEPT ![c] = "scanned"]
  /\ UNCHANGED <<now, cacheVars, force, request, answer, gen, listErrors>>

-----------------------------------------------------------------------------
(* getSnapshot: after the refresh, under r.mu again *)

Publish(c) ==
  /\ pc[c] = "scanned"
  /\ snapshot' = [at |-> flight[c].at, gen |-> gen]
  /\ hasSnapshot' = TRUE
  /\ refreshing' = FALSE
  /\ Broadcast([pc EXCEPT ![c] = "idle"], [force EXCEPT ![c] = FALSE])
  /\ Return(c, "scanned", flight[c].at)
  /\ UNCHANGED <<now, cfg, closed, gen, listErrors>>

RefreshFails(c) ==
  /\ pc[c] = "failed"
  /\ refreshing' = FALSE
  /\ Broadcast([pc EXCEPT ![c] = "idle"], [force EXCEPT ![c] = FALSE])
  /\ Return(c, "failed", answer.at)
  /\ UNCHANGED <<now, cfg, snapshot, hasSnapshot, closed, gen, listErrors>>

-----------------------------------------------------------------------------
(* Lifecycle calls of the host, and time *)

KeepSnapshot == hasSnapshot                                       \* (mutant)
DropSnapshot == FALSE

\* plugin.register and plugin.reconfigure; configureHealth is modelled in HealthRuntime.
ApplyConfig(k) ==
  /\ gen < MaxApply
  /\ gen' = gen + 1
  /\ cfg' = k
  /\ hasSnapshot' = DropSnapshot
  /\ closed' = FALSE
  /\ UNCHANGED <<now, snapshot, refreshing, callerVars, listErrors>>

\* plugin.shutdown, the part getSnapshot can see.
Shutdown ==
  /\ ~closed
  /\ closed' = TRUE
  /\ Broadcast(pc, force)
  /\ UNCHANGED <<now, cfg, snapshot, hasSnapshot, refreshing, flight, request, answer, gen, listErrors>>

Tick ==
  /\ now < MaxTime
  /\ now' = now + 1
  /\ UNCHANGED <<cacheVars, callerVars, gen, listErrors>>

-----------------------------------------------------------------------------
Step(c) ==
  \/ Refuse(c) \/ ServeCached(c) \/ StartRefresh(c) \/ JoinRefresh(c)
  \/ ListAuth(c) \/ ListFails(c) \/ Assemble(c) \/ Publish(c) \/ RefreshFails(c)
  \/ \E a \in Account : StartFetch(c, a) \/ EndFetch(c, a)

Next ==
  \/ \E c \in Caller : Step(c) \/ \E f \in BOOLEAN : Call(c, f)
  \/ \E k \in Config : ApplyConfig(k)
  \/ Shutdown
  \/ Tick

Spec == Init /\ [][Next]_vars

\* Goroutines are scheduled and host callbacks return; nobody is obliged to
\* call, reconfigure or shut down, and the clock may stand still.
FairSpec == Spec /\ \A c \in Caller : WF_vars(Step(c))

-----------------------------------------------------------------------------
(* Properties *)

\* "Deduplicates concurrent refreshes" (README.md): r.refreshing is set exactly
\* while one caller is between StartRefresh and its second critical section.
SingleFlight ==
  /\ \A c, d \in Caller : pc[c] \in InFlight /\ pc[d] \in InFlight => c = d
  /\ refreshing <=> \E c \in Caller : pc[c] \in InFlight

\* No wakeup is lost: a caller parked on r.cond always has a refresh ahead of it
\* whose end will broadcast, whatever shutdowns and reconfigurations happened.
NoLostWakeup == \A c \in Caller : pc[c] = "waiting" => refreshing

\* The semaphore is made per refresh, so the bound on concurrent upstream
\* fetches of the whole plugin rests on the single flight.
FetchBound ==
  \A c \in Caller : pc[c] = "fetching" =>
    Cardinality({p \in Caller \X Account : flight[p[1]].fetch[p[2]] = "running"})
      <= flight[c].cfg.maxConcurrency

\* applyConfig drops the snapshot: what may be served was published after the
\* last reconfiguration (though possibly scanned under the previous one).
NoServeAcrossReconfigure == hasSnapshot => snapshot.gen = gen

\* What the service of docs/api.md knows of the cache: locks, waiting and single
\* fetches are left out.
Asking == {c \in Caller : pc[c] # "idle"}
Insisting == {c \in Caller : force[c]}
Scanning == {c \in Caller : pc[c] \in InFlight}
Scanned == {flight[c].at : c \in {d \in Caller : pc[d] = "scanned"}}
Published == [at |-> snapshot.at, valid |-> hasSnapshot]

Service == INSTANCE QuotaService WITH
  Ttl <- {k.ttl : k \in Config}, InitTtl <- InitConfig.ttl,
  clock <- now, ttl <- cfg.ttl, open <- ~closed, asking <- Asking, insisting <- Insisting,
  scanning <- Scanning, scanned <- Scanned, published <- Published

\* Every answer is the end of a scan that the caller began after it asked, or a snapshot
\* below the TTL in force and published since the last reconfiguration, or an error.
KeepsService == Service!Spec

\* Published snapshots never go back in time.
SnapshotsAdvance == [][snapshot' # snapshot => snapshot'.at >= snapshot.at]_vars

\* Monotone reads: a good answer is never older than one given before, to
\* whatever caller.
AnswersAdvance == [][answer'.at >= answer.at]_vars

\* "Concurrent callers during a refresh share a single upstream fetch"
\* (docs/api.md): a caller that waited never scans while a fresh snapshot is there.
WaitersShareTheScan ==
  [][\A c \in Caller :
       request[c].waited /\ Fresh => ~(pc[c] = "loop" /\ pc'[c] = "listing")]_vars

\* Every request is answered: waiters are woken, and neither failed refreshes,
\* nor a shutdown or a reconfiguration in between, leave one behind.
CallsReturn == \A c \in Caller : pc[c] # "idle" ~> pc[c] = "idle"

\* "`refresh=true` bypasses cache freshness" (docs/api.md): a forced request is
\* not answered from a snapshot that was already cached when it was made.
ForcedBypassesCache ==
  [][\A c \in Caller :
       request[c].forced /\ pc'[c] = "idle" /\ answer'.kind = "cached"
       => request[c].scanned]_vars
=============================================================================
