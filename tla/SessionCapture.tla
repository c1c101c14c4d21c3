--------------------------- MODULE SessionCapture ---------------------------
(***************************************************************************)
(* The session-cache plugin (sessioncache/): it observes responses, keeps  *)
(* per-request state of streams in memory, and stores one row per finished *)
(* Anthropic request.  r.mu protects the map of streams and the choice of  *)
(* the store; rows are built under it and written after it is released, so *)
(* a row and its table meet later, in any order and perhaps never.         *)
(***************************************************************************)
EXTENDS Naturals, FiniteSets

CONSTANTS
  Request,    \* proxied requests; the host delivers one request's chunks in order
  Session,    \* session identities extractSessionID finds
  SessionOf,  \* the session of each request
  Config,     \* configurations: retention, maxRows, stream-state TTL
  InitConfig, \* defaultConfig()
  MaxTime,    \* bound: the clock
  MaxApply    \* bound: configurations applied

Unknown == "unknown"

ASSUME CaptureAssumption ==
  /\ SessionOf \in [Request -> Session \cup {Unknown}] /\ Unknown \notin Session
  /\ Config \subseteq [retention : Nat \ {0}, maxRows : Nat \ {0}, ttl : Nat \ {0}]
  /\ InitConfig \in Config
  /\ MaxTime \in Nat /\ MaxApply \in Nat

VARIABLES
  now,      \* time.Now
  cfg,      \* r.cfg
  store,    \* r.store: which opening of the database, None when nil
  opened,   \* openings so far
  applied,  \* configurations applied so far
  streams,  \* r.streams
  rows,     \* table requests
  lastId,   \* its AUTOINCREMENT counter
  overdue,  \* history: how far rows may exceed maxRows, by what was inserted since a prune worked
  thread,   \* per request: the handler's point, and the row, store and settings it carries
  sent,     \* per request: stream events delivered (message_start, message_delta, message_stop)
  fate      \* history: per request, what happened to its capture

vars == <<now, cfg, store, opened, applied, streams, rows, lastId, overdue, thread, sent, fate>>

None     == 0
Events   == 3                     \* 1 message_start, 2 message_delta, 3 message_stop
NoStream == [session |-> Unknown, started |-> FALSE, output |-> FALSE, last |-> 0, held |-> FALSE]
NoRow    == [session |-> Unknown, at |-> 0, output |-> FALSE]
Unborn   == [pc |-> "new", row |-> NoRow, store |-> None, cfg |-> InitConfig]

Stream == [session : Session \cup {Unknown}, started : BOOLEAN, output : BOOLEAN, last : Nat, held : BOOLEAN]
Capture == [session : Session \cup {Unknown}, at : Nat, output : BOOLEAN]
Thread == [pc : {"new", "streaming", "built", "inserting", "pruning", "done"},
           row : Capture, store : Nat, cfg : Config]
Stored == [id : Nat \ {0}, request : Request, row : Capture]

TypeOK ==
  /\ now \in Nat
  /\ cfg \in Config
  /\ store \in Nat
  /\ opened \in Nat /\ applied \in Nat
  /\ streams \in [Request -> Stream]
  /\ rows \subseteq Stored
  /\ lastId \in Nat /\ overdue \in Nat
  /\ thread \in [Request -> Thread]
  /\ sent \in [Request -> 0 .. Events]
  /\ fate \in [Request -> {"intact", "stored", "disturbed", "torn"}]

Init ==
  /\ now = 0
  /\ cfg = InitConfig
  /\ store = None
  /\ opened = 0
  /\ applied = 0
  /\ streams = [r \in Request |-> NoStream]
  /\ rows = {}
  /\ lastId = 0
  /\ overdue = 0
  /\ thread = [r \in Request |-> Unborn]
  /\ sent = [r \in Request |-> 0]
  /\ fate = [r \in Request |-> "intact"]

-----------------------------------------------------------------------------
(* handleStreamChunk.  Operators marked (mutant) are plausible bugs that      *)
(* PROJECT.json substitutes for the definition after them.                    *)

\* evictStaleStreamsLocked: every dispatch drops the streams silent for longer than the
\* TTL.  Its default for a TTL of zero is never used: the parsed and the default
\* configuration are positive.
Evict(s) == [r \in Request |-> IF s[r].held /\ now - s[r].last > cfg.ttl THEN NoStream ELSE s[r]]

\* Requests whose state is there in s but not in t.
Lost(s, t) == {r \in Request : s[r].held /\ ~t[r].held}

Disturb(f, S) == [r \in Request |-> IF r \in S /\ f[r] = "intact" THEN "disturbed" ELSE f[r]]

NamesLater(r) == Unknown                                                  \* (mutant)
\* extractSessionID of the original request and its headers.
Identity(r) == SessionOf[r]

\* The header-init chunk opens the state, with the session of the original request.
HeaderChunk(r) ==
  /\ thread[r].pc = "new"
  /\ thread' = [thread EXCEPT ![r].pc = "streaming"]
  /\ streams' = [Evict(streams) EXCEPT ![r] =
       [session |-> Identity(r), started |-> FALSE, output |-> FALSE, last |-> now, held |-> TRUE]]
  /\ fate' = Disturb(fate, Lost(streams, Evict(streams)))
  /\ UNCHANGED <<now, cfg, store, opened, applied, rows, lastId, overdue, sent>>

\* The header-init chunk never came (the plugin was loaded meanwhile).
MissHeader(r) ==
  /\ thread[r].pc = "new"
  /\ thread' = [thread EXCEPT ![r].pc = "streaming"]
  /\ fate' = Disturb(fate, {r})
  /\ UNCHANGED <<now, cfg, store, opened, applied, streams, rows, lastId, overdue, sent>>

\* A chunk for a request without state opens one in the unknown session.
StateFor(s, r) == IF s[r].held THEN s[r] ELSE [NoStream EXCEPT !.held = TRUE]

FoldLast(state, r, n) ==                                                  \* (mutant)
  [state EXCEPT !.started = @ \/ n = 1, !.output = @ \/ n = 2, !.last = now]
\* applyStreamEventsLocked, for the events after sent[r] up to n: a start and a delta
\* fill the state in.
Fold(state, r, n) ==
  [state EXCEPT !.started = @ \/ (sent[r] < 1 /\ n >= 1),
                !.output  = @ \/ (sent[r] < 2 /\ n >= 2),
                !.last    = now]

CommitUnstarted(state) == TRUE                                            \* (mutant)
\* message_stop commits a row only if this state saw the start.
Commits(state) == state.started

NoDelete(state) == state                                                  \* (mutant)
\* message_stop deletes the state.
Forget(state) == NoStream

\* A payload chunk brings the next whole events of the stream (none for a ping or [DONE]),
\* or its message_stop again; one chunk holds message_stop once at most.
PayloadChunk(r, n, again) ==
  LET kept    == Evict(streams)
      state   == Fold(StateFor(kept, r), r, n)
      stopped == n = Events /\ (sent[r] < Events \/ again)
      lost    == Lost(streams, kept)
  IN
  /\ thread[r].pc = "streaming"
  /\ n \in sent[r] .. Events /\ (again => sent[r] = Events)
  /\ sent' = [sent EXCEPT ![r] = n]
  /\ streams' = [kept EXCEPT ![r] = IF stopped THEN Forget(state) ELSE state]
  /\ fate' = Disturb(fate, lost)
  /\ thread' = IF stopped /\ Commits(state)
               THEN [thread EXCEPT ![r] =
                      [pc |-> "inserting",
                       row |-> [session |-> state.session, at |-> now, output |-> state.output],
                       store |-> store, cfg |-> cfg]]
               ELSE thread
  /\ UNCHANGED <<now, cfg, store, opened, applied, rows, lastId, overdue>>

\* parseSSEData reads every chunk from its own first byte, so an event whose data line
\* is cut by the end of a chunk is in neither chunk; both refresh the state.
CutLine(r) ==
  LET kept == Evict(streams) IN
  /\ thread[r].pc = "streaming"
  /\ sent[r] < Events
  /\ sent' = [sent EXCEPT ![r] = @ + 1]
  /\ streams' = [kept EXCEPT ![r] = Fold(StateFor(kept, r), r, sent[r])]
  /\ fate' = [Disturb(fate, Lost(streams, kept)) EXCEPT ![r] = "torn"]
  /\ UNCHANGED <<now, cfg, store, opened, applied, rows, lastId, overdue, thread>>

-----------------------------------------------------------------------------
(* handleResponseIntercept: anthropicRow without any lock, then record *)

Intercept(r) ==
  /\ thread[r].pc = "new"
  /\ thread' = [thread EXCEPT ![r].pc = "built",
                  ![r].row = [session |-> Identity(r), at |-> now, output |-> TRUE]]
  /\ sent' = [sent EXCEPT ![r] = Events]
  /\ UNCHANGED <<now, cfg, store, opened, applied, streams, rows, lastId, overdue, fate>>

TakeStore(r) ==
  /\ thread[r].pc = "built"
  /\ thread' = [thread EXCEPT ![r].pc = "inserting", ![r].store = store, ![r].cfg = cfg]
  /\ UNCHANGED <<now, cfg, store, opened, applied, streams, rows, lastId, overdue, sent, fate>>

-----------------------------------------------------------------------------
(* persistRow, outside r.mu: errors are swallowed *)

Usable(r) == thread[r].store # None /\ thread[r].store = store

Insert(r) ==
  /\ thread[r].pc = "inserting"
  /\ Usable(r)
  /\ lastId' = lastId + 1
  /\ rows' = rows \cup {[id |-> lastId', request |-> r, row |-> thread[r].row]}
  /\ overdue' = overdue + 1
  /\ thread' = [thread EXCEPT ![r].pc = "pruning"]
  /\ fate' = [fate EXCEPT ![r] = IF @ = "intact" THEN "stored" ELSE @]
  /\ UNCHANGED <<now, cfg, store, opened, applied, streams, sent>>

\* There was no database, or it has been closed since, or the statement failed.
InsertFails(r) ==
  /\ thread[r].pc = "inserting"
  /\ thread' = [thread EXCEPT ![r].pc = "pruning"]
  /\ fate' = Disturb(fate, {r})
  /\ UNCHANGED <<now, cfg, store, opened, applied, streams, rows, lastId, overdue, sent>>

\* The newest maxRows rows (by id) among those within the retention.
Kept(t, k) ==
  LET young == {i \in t : i.row.at + k.retention >= now}
  IN  {i \in young : Cardinality({j \in young : j.id > i.id}) < k.maxRows}

Answered(r) == thread' = [thread EXCEPT ![r] = [Unborn EXCEPT !.pc = "done"]]

PersistPrune(r) ==
  /\ thread[r].pc = "pruning"
  /\ Usable(r)
  /\ rows' = Kept(rows, thread[r].cfg)
  /\ overdue' = 0
  /\ Answered(r)
  /\ UNCHANGED <<now, cfg, store, opened, applied, streams, lastId, sent, fate>>

PruneFails(r) ==
  /\ thread[r].pc = "pruning"
  /\ Answered(r)
  /\ UNCHANGED <<now, cfg, store, opened, applied, streams, rows, lastId, overdue, sent, fate>>

\* The handler answers and the stream's thread is ready for a trailing chunk.
Trailing(r) ==
  /\ thread[r].pc = "done"
  /\ thread' = [thread EXCEPT ![r].pc = "streaming"]
  /\ UNCHANGED <<now, cfg, store, opened, applied, streams, rows, lastId, overdue, sent, fate>>

-----------------------------------------------------------------------------
(* Lifecycle *)

\* Streams in flight are forgotten, and so are rows built for the closed store.
Interrupted == {r \in Request : streams[r].held \/ thread[r].pc = "inserting"}

\* applyConfig prunes at once under the possibly tightened settings.
PruneOnApply(t, k) == Kept(t, k)

ApplyConfig(k, opens, prunes) ==
  /\ applied < MaxApply
  /\ applied' = applied + 1
  /\ cfg' = k
  /\ streams' = [r \in Request |-> NoStream]
  /\ fate' = Disturb(fate, Interrupted)
  /\ IF opens THEN opened' = opened + 1 /\ store' = opened' ELSE store' = None /\ UNCHANGED opened
  /\ IF opens /\ prunes
     THEN rows' = PruneOnApply(rows, k) /\ overdue' = 0
     ELSE rows' = rows /\ overdue' = Cardinality(rows)
  /\ UNCHANGED <<now, lastId, thread, sent>>

Shutdown ==
  /\ store' = None
  /\ streams' = [r \in Request |-> NoStream]
  /\ fate' = Disturb(fate, Interrupted)
  /\ UNCHANGED <<now, cfg, opened, applied, rows, lastId, overdue, thread, sent>>

Tick ==
  /\ now < MaxTime
  /\ now' = now + 1
  /\ UNCHANGED <<cfg, store, opened, applied, streams, rows, lastId, overdue, thread, sent, fate>>

-----------------------------------------------------------------------------
Next ==
  \/ \E r \in Request :
       \/ HeaderChunk(r) \/ MissHeader(r) \/ CutLine(r)
       \/ \E n \in 0 .. Events, again \in BOOLEAN : PayloadChunk(r, n, again)
       \/ Intercept(r) \/ TakeStore(r)
       \/ Insert(r) \/ InsertFails(r) \/ PersistPrune(r) \/ PruneFails(r) \/ Trailing(r)
  \/ \E k \in Config, opens, prunes \in BOOLEAN : ApplyConfig(k, opens, prunes)
  \/ Shutdown
  \/ Tick

Spec == Init /\ [][Next]_vars

-----------------------------------------------------------------------------
(* Properties *)

\* A request is stored at most once, whatever chunks trail its stream.
OneRowPerRequest == \A i, j \in rows : i.request = j.request => i = j

\* A stored or carried row is whole: it has the counts of message_start and of
\* message_delta, although the state that collects them can be evicted and a fallback
\* opened in the middle of the stream.  Only a line cut by the end of a chunk can cost it
\* its message_delta.
RowsAreWhole ==
  /\ \A i \in rows : i.row.output \/ fate[i.request] = "torn"
  /\ \A r \in Request : thread[r].pc \in {"inserting", "pruning"} =>
       thread[r].row.output \/ fate[r] = "torn"

\* A row is filed under its own session; it lands in "unknown" only if the stream's
\* first state was lost before message_start.
RowsKeepTheirSession ==
  \A i \in rows : \/ i.row.session = SessionOf[i.request]
                  \/ i.row.session = Unknown /\ fate[i.request] \in {"disturbed", "torn"}

\* No silent loss: a finished request that no eviction, reconfiguration, failed statement
\* or cut line disturbed is stored or about to be.
UndisturbedIsCaptured ==
  \A r \in Request : sent[r] = Events /\ fate[r] = "intact" =>
    thread[r].pc \in {"built", "inserting"}

\* "Every stored row of one session in capture order" (sessionRequests): rows come
\* back by id, which is to be the order of their capture times.
CaptureOrder ==
  \A i, j \in rows : i.row.session = j.row.session /\ i.id < j.id => i.row.at <= j.row.at
=============================================================================
