------------------------ MODULE SessionCaptureProofs ------------------------
(***************************************************************************)
(* What the session-cache plugin stores, for any requests, sessions,       *)
(* configurations and bounds.  The inductive invariant follows one request *)
(* from its header to its row: what its stream state knows, by the events  *)
(* that were delivered, and when its capture counts as disturbed.          *)
(***************************************************************************)
EXTENDS SessionCapture, FiniteSetTheorems, TLAPS

Points == {"new", "streaming", "built", "inserting", "pruning", "done"}
Fates == {"intact", "stored", "disturbed", "torn"}

\* Steps of the stream state, as facts about its fields.
LEMMA FoldFields ==
  ASSUME NEW s \in Stream, NEW r, NEW n, now \in Nat
  PROVE  /\ Fold(s, r, n) \in Stream
         /\ Fold(s, r, n).session = s.session /\ Fold(s, r, n).held = s.held
         /\ Fold(s, r, n).started <=> (s.started \/ (sent[r] < 1 /\ n >= 1))
         /\ Fold(s, r, n).output <=> (s.output \/ (sent[r] < 2 /\ n >= 2))
<1> DEFINE st == s.started \/ (sent[r] < 1 /\ n >= 1)
           ou == s.output \/ (sent[r] < 2 /\ n >= 2)
<1>1. st \in BOOLEAN /\ ou \in BOOLEAN
  BY Zenon
<1>2. Fold(s, r, n) = [s EXCEPT !.started = st, !.output = ou, !.last = now]
  BY DEF Fold
<1> HIDE DEF st, ou
<1>3. /\ Fold(s, r, n) \in Stream
      /\ Fold(s, r, n).session = s.session /\ Fold(s, r, n).held = s.held
      /\ Fold(s, r, n).started = st /\ Fold(s, r, n).output = ou
  BY <1>1, <1>2 DEF Stream
<1> QED BY <1>3, Zenon DEF st, ou

LEMMA Fields ==
  ASSUME NEW s \in Stream
  PROVE  /\ s.session \in Session \cup {Unknown} /\ s.started \in BOOLEAN
         /\ s.output \in BOOLEAN /\ s.held \in BOOLEAN
BY DEF Stream

LEMMA NoStreamFields ==
  /\ NoStream \in Stream /\ NoStream.session = Unknown /\ ~NoStream.started
  /\ ~NoStream.output /\ ~NoStream.held
BY DEF NoStream, Stream

LEMMA HeldFields ==
  ASSUME NEW s \in Stream, NEW b \in BOOLEAN
  PROVE  LET t == [s EXCEPT !.held = b]
         IN  /\ t \in Stream /\ t.held = b
             /\ t.session = s.session /\ t.started = s.started /\ t.output = s.output
BY DEF Stream

LEMMA StateForFields ==
  ASSUME NEW s \in [Request -> Stream], NEW r \in Request
  PROVE  /\ StateFor(s, r) \in Stream /\ StateFor(s, r).held
         /\ s[r].held => StateFor(s, r) = s[r]
         /\ ~s[r].held => StateFor(s, r).session = Unknown /\ ~StateFor(s, r).started
                          /\ ~StateFor(s, r).output
<1>1. CASE s[r].held
  <2>1. StateFor(s, r) = s[r]
    BY <1>1, Zenon DEF StateFor
  <2> QED BY <1>1, <2>1
<1>2. CASE ~s[r].held
  <2>1. StateFor(s, r) = [NoStream EXCEPT !.held = TRUE]
    BY <1>2, Zenon DEF StateFor
  <2>2. TRUE \in BOOLEAN
    BY Zenon
  <2> DEFINE t == [NoStream EXCEPT !.held = TRUE]
  <2>3. /\ t \in Stream /\ t.held = TRUE /\ t.session = NoStream.session
        /\ t.started = NoStream.started /\ t.output = NoStream.output
    BY <2>2, NoStreamFields, HeldFields
  <2> HIDE DEF t
  <2>4. StateFor(s, r) = t
    BY <2>1, Zenon DEF t
  <2> QED BY <1>2, <2>3, <2>4, NoStreamFields, Zenon
<1> QED BY <1>1, <1>2

LEMMA EvictEach ==
  ASSUME NEW s \in [Request -> Stream]
  PROVE  /\ Evict(s) \in [Request -> Stream]
         /\ \A q \in Request : Evict(s)[q] \in {s[q], NoStream}
BY NoStreamFields DEF Evict

LEMMA DisturbEach ==
  ASSUME NEW f \in [Request -> Fates], NEW S \in SUBSET Request
  PROVE  /\ Disturb(f, S) \in [Request -> Fates]
         /\ \A q \in Request :
              Disturb(f, S)[q] = IF q \in S /\ f[q] = "intact" THEN "disturbed" ELSE f[q]
BY DEF Disturb, Fates

LEMMA UnbornFields ==
  /\ Unborn \in Thread /\ Unborn.pc = "new"
  /\ [Unborn EXCEPT !.pc = "done"] \in Thread /\ [Unborn EXCEPT !.pc = "done"].pc = "done"
<1>1. NoRow \in Capture
  BY DEF NoRow, Capture
<1>2. Unborn \in Thread /\ Unborn.pc = "new"
  BY <1>1, CaptureAssumption DEF Unborn, Thread, None
<1> QED BY <1>2 DEF Thread

\* Every variable keeps its type.
THEOREM TypeCorrect == Spec => [](TypeOK /\ IsFiniteSet(rows))
<1>0. IsFiniteSet(rows) /\ [Next]_vars => IsFiniteSet(rows)'
  <2> SUFFICES ASSUME IsFiniteSet(rows), [Next]_vars PROVE IsFiniteSet(rows')
    OBVIOUS
  <2>1. CASE rows' \subseteq rows
    BY <2>1, FS_Subset
  <2>2. ASSUME NEW r \in Request, Insert(r) PROVE IsFiniteSet(rows')
    BY <2>2, FS_AddElement DEF Insert
  <2>3. (\E r \in Request : Insert(r)) \/ rows' \subseteq rows
    <3>1. ASSUME NEW r \in Request,
                 \/ HeaderChunk(r) \/ MissHeader(r) \/ Intercept(r) \/ TakeStore(r)
                 \/ InsertFails(r) \/ PersistPrune(r) \/ PruneFails(r) \/ Trailing(r)
                 \/ CutLine(r)
          PROVE  rows' \subseteq rows
      BY <3>1 DEF HeaderChunk, MissHeader, Intercept, TakeStore, InsertFails, PersistPrune,
                  PruneFails, Trailing, CutLine, Kept
    <3>2. ASSUME NEW r \in Request, NEW n \in 0 .. Events, NEW again \in BOOLEAN,
                 PayloadChunk(r, n, again)
          PROVE  rows' \subseteq rows
      BY <3>2 DEF PayloadChunk
    <3>3. ASSUME NEW k \in Config, NEW opens \in BOOLEAN, NEW prunes \in BOOLEAN,
                 ApplyConfig(k, opens, prunes)
          PROVE  rows' \subseteq rows
      BY <3>3 DEF ApplyConfig, PruneOnApply, Kept
    <3>4. CASE Shutdown \/ Tick \/ UNCHANGED vars
      BY <3>4 DEF Shutdown, Tick, vars
    <3> QED BY <3>1, <3>2, <3>3, <3>4 DEF Next
  <2> QED BY <2>1, <2>2, <2>3
<1>1. Init => TypeOK
  <2>1. ASSUME Init PROVE streams \in [Request -> Stream] /\ thread \in [Request -> Thread]
    BY <2>1, NoStreamFields, UnbornFields DEF Init
  <2>2. ASSUME Init PROVE /\ now \in Nat /\ cfg \in Config /\ store \in Nat /\ opened \in Nat
                          /\ applied \in Nat /\ rows \subseteq Stored /\ lastId \in Nat
                          /\ overdue \in Nat /\ sent \in [Request -> 0 .. Events]
                          /\ fate \in [Request -> {"intact", "stored", "disturbed", "torn"}]
    BY <2>2, CaptureAssumption DEF Init, None, Events
  <2> QED BY <2>1, <2>2 DEF TypeOK
<1>2. TypeOK /\ IsFiniteSet(rows) /\ [Next]_vars => TypeOK'
  <2> SUFFICES ASSUME TypeOK, IsFiniteSet(rows), [Next]_vars PROVE TypeOK'
    OBVIOUS
  <2>0. fate \in [Request -> Fates] /\ streams \in [Request -> Stream] /\ now \in Nat
        /\ thread \in [Request -> Thread]
    BY DEF TypeOK, Fates
  <2>1. ASSUME NEW r \in Request, HeaderChunk(r) PROVE TypeOK'
    <3> DEFINE s == [session |-> Identity(r), started |-> FALSE, output |-> FALSE, last |-> now,
                     held |-> TRUE]
    <3>1. s \in Stream
      BY <2>0, CaptureAssumption DEF Identity, Stream
    <3>2. streams' = [Evict(streams) EXCEPT ![r] = s]
      BY <2>1 DEF HeaderChunk
    <3> HIDE DEF s
    <3>3. streams' \in [Request -> Stream]
      BY <2>0, <3>1, <3>2, EvictEach
    <3>4. fate' \in [Request -> Fates]
      BY <2>0, <2>1, DisturbEach DEF HeaderChunk, Lost
    <3>5. thread' \in [Request -> Thread]
      BY <2>0, <2>1 DEF HeaderChunk, Thread
    <3> QED BY <2>1, <3>3, <3>4, <3>5 DEF HeaderChunk, TypeOK, Fates
  <2>2. ASSUME NEW r \in Request, MissHeader(r) PROVE TypeOK'
    <3>1. fate' \in [Request -> Fates] /\ thread' \in [Request -> Thread]
      BY <2>0, <2>2, DisturbEach DEF MissHeader, Thread
    <3> QED BY <2>2, <3>1 DEF MissHeader, TypeOK, Fates
  <2>3. ASSUME NEW r \in Request, NEW n \in 0 .. Events, NEW again \in BOOLEAN,
               PayloadChunk(r, n, again)
        PROVE  TypeOK'
    <3> DEFINE kept == Evict(streams)
               state == Fold(StateFor(kept, r), r, n)
               carried == [pc |-> "inserting",
                           row |-> [session |-> state.session, at |-> now, output |-> state.output],
                           store |-> store, cfg |-> cfg]
    <3>1. kept \in [Request -> Stream] /\ state \in Stream
      BY <2>0, EvictEach, StateForFields, FoldFields
    <3>2. /\ streams' \in {[kept EXCEPT ![r] = NoStream], [kept EXCEPT ![r] = state]}
          /\ thread' \in {[thread EXCEPT ![r] = carried], thread}
          /\ fate' = Disturb(fate, Lost(streams, kept))
          /\ sent' = [sent EXCEPT ![r] = n]
      BY <2>3 DEF PayloadChunk, Forget
    <3> HIDE DEF kept, state
    <3>3. streams' \in [Request -> Stream]
      BY <3>1, <3>2, NoStreamFields
    <3>4. carried \in Thread
      BY <2>0, <3>1, Fields DEF TypeOK, Thread, Capture
    <3> HIDE DEF carried
    <3>5. thread' \in [Request -> Thread]
      BY <2>0, <3>2, <3>4
    <3>6. fate' \in [Request -> Fates]
      BY <2>0, <3>2, DisturbEach DEF Lost
    <3>7. sent' \in [Request -> 0 .. Events]
      BY <3>2 DEF TypeOK
    <3> QED BY <2>3, <3>3, <3>5, <3>6, <3>7 DEF PayloadChunk, TypeOK, Fates
  <2>15. ASSUME NEW r \in Request, CutLine(r) PROVE TypeOK'
    <3> DEFINE kept == Evict(streams)
               state == Fold(StateFor(kept, r), r, sent[r])
               hurt == Disturb(fate, Lost(streams, kept))
    <3>1. kept \in [Request -> Stream] /\ state \in Stream
      BY <2>0, EvictEach, StateForFields, FoldFields
    <3>2. hurt \in [Request -> Fates]
      BY <2>0, DisturbEach DEF Lost
    <3>3. /\ streams' = [kept EXCEPT ![r] = state] /\ fate' = [hurt EXCEPT ![r] = "torn"]
          /\ sent' = [sent EXCEPT ![r] = @ + 1] /\ sent[r] < Events
      BY <2>15 DEF CutLine
    <3> HIDE DEF kept, state, hurt
    <3>4. streams' \in [Request -> Stream] /\ fate' \in [Request -> Fates]
      BY <3>1, <3>2, <3>3 DEF Fates
    <3>5. sent' \in [Request -> 0 .. Events]
      BY <3>3 DEF TypeOK, Events
    <3> QED BY <2>15, <3>4, <3>5 DEF CutLine, TypeOK, Fates
  <2>4. ASSUME NEW r \in Request, Intercept(r) PROVE TypeOK'
    <3> DEFINE row == [session |-> Identity(r), at |-> now, output |-> TRUE]
    <3>a. Identity(r) \in Session \cup {Unknown}
      BY CaptureAssumption DEF Identity
    <3>b. TRUE \in BOOLEAN
      BY Zenon
    <3>1. row \in Capture
      BY <2>0, <3>a, <3>b, Zenon DEF Capture
    <3>2. thread' = [thread EXCEPT ![r].pc = "built", ![r].row = row]
      BY <2>4 DEF Intercept
    <3> HIDE DEF row
    <3>3. thread' \in [Request -> Thread]
      BY <2>0, <3>1, <3>2 DEF Thread
    <3>4. sent' \in [Request -> 0 .. Events]
      BY <2>4 DEF Intercept, Events, TypeOK
    <3> QED BY <2>4, <3>3, <3>4 DEF Intercept, TypeOK
  <2>5. ASSUME NEW r \in Request, TakeStore(r) PROVE TypeOK'
    <3>1. store \in Nat /\ cfg \in Config
      BY DEF TypeOK
    <3>2. thread' \in [Request -> Thread]
      BY <2>0, <2>5, <3>1 DEF TakeStore, Thread
    <3> QED BY <2>5, <3>2 DEF TakeStore, TypeOK
  <2>6. ASSUME NEW r \in Request, Insert(r) PROVE TypeOK'
    <3>1. lastId' \in Nat \ {0} /\ thread[r].row \in Capture /\ overdue' \in Nat
      BY <2>6 DEF Insert, TypeOK, Thread
    <3>2. rows' \subseteq Stored
      BY <2>6, <3>1 DEF Insert, TypeOK, Stored
    <3>3. thread' \in [Request -> Thread]
      BY <2>0, <2>6 DEF Insert, Thread
    <3>4. fate' \in [Request -> Fates]
      BY <2>0, <2>6 DEF Insert, Fates
    <3> QED BY <2>6, <3>1, <3>2, <3>3, <3>4 DEF Insert, TypeOK, Fates
  <2>7. ASSUME NEW r \in Request, InsertFails(r) PROVE TypeOK'
    <3>1. fate' \in [Request -> Fates] /\ thread' \in [Request -> Thread]
      BY <2>0, <2>7, DisturbEach DEF InsertFails, Thread
    <3> QED BY <2>7, <3>1 DEF InsertFails, TypeOK, Fates
  <2>8. ASSUME NEW r \in Request, PersistPrune(r) PROVE TypeOK'
    BY <2>8, UnbornFields DEF PersistPrune, Answered, Kept, TypeOK
  <2>9. ASSUME NEW r \in Request, PruneFails(r) PROVE TypeOK'
    BY <2>9, UnbornFields DEF PruneFails, Answered, TypeOK
  <2>10. ASSUME NEW r \in Request, Trailing(r) PROVE TypeOK'
    BY <2>10 DEF Trailing, TypeOK, Thread
  <2>11. ASSUME NEW k \in Config, NEW opens \in BOOLEAN, NEW prunes \in BOOLEAN,
                ApplyConfig(k, opens, prunes)
         PROVE  TypeOK'
    <3>1. fate' \in [Request -> Fates] /\ streams' \in [Request -> Stream]
      BY <2>0, <2>11, DisturbEach, NoStreamFields DEF ApplyConfig, Interrupted
    <3>2. opened' \in Nat /\ store' \in Nat
      BY <2>11 DEF ApplyConfig, TypeOK, None
    <3>3. rows' \subseteq rows
      BY <2>11 DEF ApplyConfig, PruneOnApply, Kept
    <3>a. overdue' \in {0, Cardinality(rows)}
      BY <2>11 DEF ApplyConfig
    <3>4. overdue' \in Nat
      BY <3>a, FS_CardinalityType
    <3>5. cfg' \in Config /\ applied' \in Nat /\ UNCHANGED <<now, lastId, thread, sent>>
      BY <2>11 DEF ApplyConfig, TypeOK
    <3> QED BY <3>1, <3>2, <3>3, <3>4, <3>5 DEF TypeOK, Fates
  <2>12. CASE Shutdown
    <3>1. fate' \in [Request -> Fates] /\ streams' \in [Request -> Stream]
      BY <2>0, <2>12, DisturbEach, NoStreamFields DEF Shutdown, Interrupted
    <3> QED BY <2>12, <3>1 DEF Shutdown, TypeOK, Fates, None
  <2>13. CASE Tick
    BY <2>13 DEF Tick, TypeOK
  <2>14. CASE UNCHANGED vars
    BY <2>14 DEF vars, TypeOK
  <2> QED BY <2>1, <2>2, <2>3, <2>4, <2>5, <2>6, <2>7, <2>8, <2>9, <2>10, <2>11, <2>12,
             <2>13, <2>14, <2>15 DEF Next
<1>3. Init => IsFiniteSet(rows)
  BY FS_EmptySet DEF Init
<1> QED BY <1>0, <1>1, <1>2, <1>3, PTL DEF Spec

-----------------------------------------------------------------------------
Harmed == {"disturbed", "torn"}

\* A session is the request's own, or unknown for a request that was harmed.
SessionOK(r, session, f) == session = SessionOf[r] \/ (session = Unknown /\ f \in Harmed)

\* Only a cut line can cost a row its message_delta.
OutputOK(output, f) == output \/ f = "torn"

\* What holds of a request with the stream state s, the handler t, n events
\* delivered and the fate f.
LocalOK(r, s, t, n, f) ==
  /\ t.pc = "new" => n = 0 /\ ~s.held
  /\ t.pc \in {"built", "inserting", "pruning", "done"} => n = Events /\ ~s.started
  /\ s.started => s.held /\ n >= 1 /\ (n < Events \/ f = "torn")
  /\ s.started /\ n >= 2 => OutputOK(s.output, f)
  /\ s.held /\ (n < Events \/ s.started) => SessionOK(r, s.session, f)
  /\ t.pc = "streaming" /\ n < Events /\ f \notin Harmed => s.held /\ (n >= 1 => s.started)
  /\ t.pc \in {"built", "inserting", "pruning"}
       => OutputOK(t.row.output, f) /\ SessionOK(r, t.row.session, f)
  /\ n = Events /\ f = "intact" => t.pc \in {"built", "inserting"}
  /\ f = "stored" => n = Events

LocalsOK == \A r \in Request : LocalOK(r, streams[r], thread[r], sent[r], fate[r])

Finished == {"pruning", "done", "streaming"}

\* A delivered request whose handler will store no other row.
Closed(n, t, s) == n = Events /\ t.pc \in Finished /\ ~s.started

RowsOK ==
  \A i \in rows :
    /\ Closed(sent[i.request], thread[i.request], streams[i.request])
    /\ OutputOK(i.row.output, fate[i.request])
    /\ SessionOK(i.request, i.row.session, fate[i.request])

CaptureInv == LocalsOK /\ RowsOK /\ OneRowPerRequest

Disturbed(f) == IF f = "intact" THEN "disturbed" ELSE f

\* Nothing makes good what a request has lost.
NoBetter(f, g) == (f \in Harmed => g \in Harmed) /\ (f = "torn" => g = "torn")

LEMMA WorseOK ==
  ASSUME NEW r, NEW f, NEW g, NoBetter(f, g), NEW session, NEW output
  PROVE  /\ SessionOK(r, session, f) => SessionOK(r, session, g)
         /\ OutputOK(output, f) => OutputOK(output, g)
BY Zenon DEF NoBetter, SessionOK, OutputOK

LEMMA DisturbedWorse ==
  ASSUME NEW f, NEW g \in {f, Disturbed(f)}
  PROVE  NoBetter(f, g)
BY DEF NoBetter, Disturbed, Harmed

\* A request whose state is lost counts as disturbed, and nothing else changes for it.
LEMMA Losing ==
  ASSUME NEW r, NEW s \in Stream, NEW t, NEW n, NEW f \in Fates, LocalOK(r, s, t, n, f),
         NEW x \in {s, NoStream}, NEW g \in {f, Disturbed(f)},
         x = NoStream /\ s.held => g = Disturbed(f)
  PROVE  LocalOK(r, x, t, n, g)
<1>1. /\ SessionOK(r, s.session, f) => SessionOK(r, s.session, g)
      /\ OutputOK(s.output, f) => OutputOK(s.output, g)
  BY DisturbedWorse, WorseOK
<1>2. /\ SessionOK(r, t.row.session, f) => SessionOK(r, t.row.session, g)
      /\ OutputOK(t.row.output, f) => OutputOK(t.row.output, g)
  BY DisturbedWorse, WorseOK
<1>3. /\ g = "intact" => f = "intact"
      /\ g = "stored" => f = "stored"
      /\ f \in Harmed => g \in Harmed
      /\ f = "torn" => g = "torn"
  BY DEF Disturbed, Fates, Harmed
<1>4. CASE x = s
  BY <1>1, <1>2, <1>3, <1>4, Zenon DEF LocalOK
<1>5. CASE x = NoStream /\ ~s.held
  <2>1. ~x.held /\ ~x.started
    BY <1>5, NoStreamFields, Zenon
  <2> QED BY <1>2, <1>3, <1>5, <2>1, Zenon DEF LocalOK
<1>6. CASE x = NoStream /\ s.held
  <2>1. ~x.held /\ ~x.started
    BY <1>6, NoStreamFields, Zenon
  <2>2. g \in Harmed \/ g = "stored"
    BY <1>6 DEF Disturbed, Fates, Harmed
  <2>3. g = "stored" => n = Events
    BY <1>3, Zenon DEF LocalOK
  <2>4. n = Events => ~(n < Events)
    BY DEF Events
  <2>5. g = "intact" => FALSE
    BY <1>6 DEF Disturbed
  <2> QED BY <1>2, <1>3, <2>1, <2>2, <2>3, <2>4, <2>5, Zenon DEF LocalOK
<1> QED BY <1>4, <1>5, <1>6, Zenon

\* A payload chunk, from what its eviction left: k is the state, b the state to fold
\* the events into, s what comes of it.
LEMMA PayloadLocal ==
  ASSUME NEW r, NEW k \in Stream, NEW b \in Stream, NEW s \in Stream, NEW t, NEW f \in Fates,
         NEW m \in 0 .. Events, NEW n \in m .. Events,
         LocalOK(r, k, t, m, f), t.pc = "streaming",
         b.held, k.held => b = k,
         ~k.held => b.session = Unknown /\ ~b.started /\ ~b.output,
         s.session = b.session, s.held = b.held,
         s.started <=> (b.started \/ (m < 1 /\ n >= 1)),
         s.output <=> (b.output \/ (m < 2 /\ n >= 2))
  PROVE  /\ s.started /\ m = Events => k.started
         /\ s.started /\ n >= 2 => OutputOK(s.output, f)
         /\ m < Events \/ s.started => SessionOK(r, s.session, f)
         /\ n = Events /\ f = "intact" => s.started
         /\ ~(n = Events /\ m < Events) => LocalOK(r, s, t, n, f)
<1>a. m \in Nat /\ n \in Nat /\ m <= n /\ n <= 3 /\ Events = 3
  BY DEF Events
<1>0. /\ k.started => k.held /\ m >= 1 /\ (m < Events \/ f = "torn")
      /\ k.started /\ m >= 2 => OutputOK(k.output, f)
      /\ k.held /\ (m < Events \/ k.started) => SessionOK(r, k.session, f)
      /\ m < Events /\ f \notin Harmed => k.held /\ (m >= 1 => k.started)
      /\ ~(m = Events /\ f = "intact")
      /\ f = "stored" => m = Events
  BY DEF LocalOK
<1>b. b.started => k.started /\ b = k
  BY <1>0, Zenon
<1>c. s.started => k.started \/ m < Events
  BY <1>a, <1>b
<1>1. s.started /\ m = Events => k.started
  BY <1>a, <1>c
<1>2. s.started /\ n >= 2 => OutputOK(s.output, f)
  BY <1>a, <1>0, <1>b DEF OutputOK
<1>3. m < Events \/ s.started => SessionOK(r, s.session, f)
  <2>1. CASE k.held
    BY <1>0, <1>c, <2>1, Zenon
  <2>2. CASE ~k.held
    BY <1>0, <1>c, <2>2, Zenon DEF SessionOK
  <2> QED BY <2>1, <2>2
<1>4. n = Events /\ f = "intact" => s.started
  BY <1>a, <1>0, <1>b DEF Harmed
<1>5. ASSUME ~(n = Events /\ m < Events) PROVE LocalOK(r, s, t, n, f)
  <2>1. n = Events => m = Events
    BY <1>a, <1>5
  <2>2. s.started => s.held /\ n >= 1 /\ (n < Events \/ f = "torn")
    BY <1>a, <1>0, <1>b, <1>1, <2>1
  <2>3. n < Events => m < Events
    BY <1>a
  <2>4. n < Events /\ f \notin Harmed => s.held /\ (n >= 1 => s.started)
    BY <1>a, <1>0, <2>3
  <2>5. /\ n = Events /\ f = "intact" => FALSE
        /\ f = "stored" => n = Events
    BY <1>a, <1>0, <2>1
  <2> QED BY <1>2, <1>3, <2>2, <2>3, <2>4, <2>5, Zenon DEF LocalOK
<1> QED BY <1>1, <1>2, <1>3, <1>4, <1>5

\* A chunk that ends inside a line: the event is counted as delivered and is in no state.
LEMMA CutLocal ==
  ASSUME NEW r, NEW k \in Stream, NEW s \in Stream, NEW t, NEW f, NEW m \in 0 .. Events,
         LocalOK(r, k, t, m, f), t.pc = "streaming", m < Events,
         s.held, k.held => s.session = k.session, ~k.held => s.session = Unknown,
         s.started => k.started
  PROVE  LocalOK(r, s, t, m + 1, "torn")
<1>1. m \in Nat /\ m + 1 >= 1
  BY DEF Events
<1>2. SessionOK(r, s.session, "torn")
  BY Zenon DEF LocalOK, SessionOK, Harmed
<1>3. "torn" \in Harmed /\ OutputOK(s.output, "torn")
  BY DEF Harmed, OutputOK
<1>4. "torn" # "intact" /\ "torn" # "stored"
  OBVIOUS
<1> QED BY <1>1, <1>2, <1>3, <1>4, Zenon DEF LocalOK

\* What any step may do to a request that is not its own.
Untouched(q) ==
  /\ sent'[q] = sent[q] /\ thread'[q] = thread[q]
  /\ streams'[q] \in {streams[q], NoStream}
  /\ fate'[q] \in {fate[q], Disturbed(fate[q])}
  /\ streams'[q] = NoStream /\ streams[q].held => fate'[q] = Disturbed(fate[q])

LEMMA UntouchedOK ==
  ASSUME TypeOK, LocalsOK, NEW q \in Request, Untouched(q)
  PROVE  LocalOK(q, streams'[q], thread'[q], sent'[q], fate'[q])
<1>1. /\ streams[q] \in Stream /\ fate[q] \in Fates
      /\ LocalOK(q, streams[q], thread[q], sent[q], fate[q])
  BY DEF TypeOK, LocalsOK, Fates
<1>2. LocalOK(q, streams'[q], thread[q], sent[q], fate'[q])
  BY <1>1, Losing DEF Untouched
<1> QED BY <1>2 DEF Untouched

\* Rows are only removed; a closed request stays closed, a harmed one harmed.
LEMMA RowsKept ==
  ASSUME TypeOK, RowsOK, OneRowPerRequest, rows' \subseteq rows,
         \A q \in Request :
           /\ Closed(sent[q], thread[q], streams[q])
                => Closed(sent'[q], thread'[q], streams'[q])
           /\ NoBetter(fate[q], fate'[q])
  PROVE  RowsOK' /\ OneRowPerRequest'
<1>1. OneRowPerRequest'
  BY DEF OneRowPerRequest
<1>2. \A i \in rows : i.request \in Request
  BY DEF TypeOK, Stored
<1>3. RowsOK'
  <2> SUFFICES ASSUME NEW i \in rows'
               PROVE  /\ Closed(sent'[i.request], thread'[i.request], streams'[i.request])
                      /\ OutputOK(i.row.output, fate'[i.request])
                      /\ SessionOK(i.request, i.row.session, fate'[i.request])
    BY DEF RowsOK, Closed, OutputOK, SessionOK
  <2>1. /\ i \in rows /\ i.request \in Request
    BY <1>2
  <2>2. /\ Closed(sent[i.request], thread[i.request], streams[i.request])
        /\ OutputOK(i.row.output, fate[i.request])
        /\ SessionOK(i.request, i.row.session, fate[i.request])
    BY <2>1 DEF RowsOK
  <2> QED BY <2>1, <2>2, WorseOK
<1> QED BY <1>1, <1>3

\* Evicting states disturbs the requests that lose one.
LEMMA EvictOthers ==
  ASSUME TypeOK, fate' = Disturb(fate, Lost(streams, Evict(streams)))
  PROVE  /\ fate' \in [Request -> Fates]
         /\ \A q \in Request :
              /\ Evict(streams)[q] \in {streams[q], NoStream}
              /\ fate'[q] \in {fate[q], Disturbed(fate[q])}
              /\ Evict(streams)[q] = NoStream /\ streams[q].held => fate'[q] = Disturbed(fate[q])
<1> DEFINE kept == Evict(streams)
           S == Lost(streams, kept)
<1>0. streams \in [Request -> Stream] /\ fate \in [Request -> Fates] /\ S \in SUBSET Request
  BY DEF TypeOK, Fates, Lost
<1>1. \A q \in Request : kept[q] \in {streams[q], NoStream}
  BY <1>0, EvictEach
<1>2. /\ fate' \in [Request -> Fates]
      /\ \A q \in Request :
           fate'[q] = IF q \in S /\ fate[q] = "intact" THEN "disturbed" ELSE fate[q]
  BY <1>0, DisturbEach
<1>3. ASSUME NEW q \in Request, kept[q] = NoStream, streams[q].held
      PROVE  q \in S
  BY <1>3, NoStreamFields, Zenon DEF Lost
<1> HIDE DEF S, kept
<1>4. ASSUME NEW q \in Request
      PROVE  /\ fate'[q] \in {fate[q], Disturbed(fate[q])}
             /\ q \in S => fate'[q] = Disturbed(fate[q])
  BY <1>2 DEF Disturbed
<1> QED BY <1>1, <1>2, <1>3, <1>4 DEF kept

\* A lifecycle call forgets every state and disturbs those it interrupts.
LEMMA ForgetAll ==
  ASSUME TypeOK, streams' = [r \in Request |-> NoStream], fate' = Disturb(fate, Interrupted),
         UNCHANGED <<thread, sent>>, NEW q \in Request
  PROVE  Untouched(q)
<1>0. fate \in [Request -> Fates] /\ Interrupted \in SUBSET Request
  BY DEF TypeOK, Fates, Interrupted
<1>1. fate'[q] = IF q \in Interrupted /\ fate[q] = "intact" THEN "disturbed" ELSE fate[q]
  BY <1>0, DisturbEach
<1>2. fate'[q] \in {fate[q], Disturbed(fate[q])}
  BY <1>1 DEF Disturbed
<1>3. q \in Interrupted => fate'[q] = Disturbed(fate[q])
  BY <1>1 DEF Disturbed
<1>4. streams[q].held => q \in Interrupted
  BY Zenon DEF Interrupted
<1>5. streams'[q] = NoStream
  OBVIOUS
<1> QED BY <1>2, <1>3, <1>4, <1>5 DEF Untouched

LEMMA UntouchedKept ==
  ASSUME TypeOK, NEW q \in Request, Untouched(q)
  PROVE  /\ Closed(sent[q], thread[q], streams[q]) => Closed(sent'[q], thread'[q], streams'[q])
         /\ NoBetter(fate[q], fate'[q])
<1>1. streams'[q].started => streams[q].started
  BY NoStreamFields, Zenon DEF Untouched
<1>2. NoBetter(fate[q], fate'[q])
  BY DisturbedWorse DEF Untouched
<1> QED BY <1>1, <1>2, Zenon DEF Untouched, Closed

\* A step that changes one request in the allowed way and leaves the others alone.
LEMMA OneRequest ==
  ASSUME TypeOK, CaptureInv, NEW r \in Request,
         \A q \in Request \ {r} : Untouched(q),
         LocalOK(r, streams'[r], thread'[r], sent'[r], fate'[r]),
         rows' \subseteq rows,
         Closed(sent[r], thread[r], streams[r]) => Closed(sent'[r], thread'[r], streams'[r]),
         NoBetter(fate[r], fate'[r])
  PROVE  CaptureInv'
<1>1. LocalsOK'
  <2> SUFFICES ASSUME NEW q \in Request
               PROVE  LocalOK(q, streams'[q], thread'[q], sent'[q], fate'[q])
    BY DEF LocalsOK, LocalOK, SessionOK, OutputOK
  <2>1. CASE q = r
    BY <2>1
  <2>2. CASE q # r
    BY <2>2, UntouchedOK DEF CaptureInv
  <2> QED BY <2>1, <2>2
<1>2. ASSUME NEW q \in Request
      PROVE  /\ Closed(sent[q], thread[q], streams[q])
                  => Closed(sent'[q], thread'[q], streams'[q])
             /\ NoBetter(fate[q], fate'[q])
  <2>1. CASE q = r
    BY <2>1
  <2>2. CASE q # r
    BY <2>2, UntouchedKept
  <2> QED BY <2>1, <2>2
<1> QED BY <1>1, <1>2, RowsKept DEF CaptureInv

-----------------------------------------------------------------------------
LEMMA HeaderChunkStep ==
  ASSUME TypeOK, CaptureInv, NEW r \in Request, HeaderChunk(r)
  PROVE  CaptureInv'
<1> DEFINE s == [session |-> Identity(r), started |-> FALSE, output |-> FALSE, last |-> now,
                 held |-> TRUE]
<1>1. /\ thread[r].pc = "new" /\ thread' = [thread EXCEPT ![r].pc = "streaming"]
      /\ streams' = [Evict(streams) EXCEPT ![r] = s]
      /\ fate' = Disturb(fate, Lost(streams, Evict(streams)))
      /\ rows' = rows /\ sent' = sent
  BY DEF HeaderChunk
<1>2. s.session = SessionOf[r] /\ s.held = TRUE /\ s.started = FALSE
  BY DEF Identity
<1> HIDE DEF s
<1>3. Evict(streams) \in [Request -> Stream] /\ thread \in [Request -> Thread]
  BY EvictEach DEF TypeOK
<1>4. streams'[r] = s /\ \A q \in Request \ {r} : streams'[q] = Evict(streams)[q]
  BY <1>1, <1>3
<1>5. thread'[r] = [thread[r] EXCEPT !.pc = "streaming"] /\ thread'[r].pc = "streaming"
      /\ \A q \in Request \ {r} : thread'[q] = thread[q]
  BY <1>1, <1>3 DEF Thread
<1>6. \A q \in Request \ {r} : Untouched(q)
  BY <1>1, <1>4, <1>5, EvictOthers DEF Untouched
<1>7. /\ sent[r] = 0 /\ fate'[r] \in {fate[r], Disturbed(fate[r])} /\ fate[r] \in Fates
      /\ fate[r] # "stored"
  <2>1. LocalOK(r, streams[r], thread[r], sent[r], fate[r])
    BY DEF CaptureInv, LocalsOK
  <2>2. sent[r] = 0
    BY <1>1, <2>1, Zenon DEF LocalOK
  <2>3. fate[r] # "stored"
    BY <2>1, <2>2 DEF LocalOK, Events
  <2> QED BY <1>1, <2>2, <2>3, EvictOthers DEF TypeOK, Fates
<1>8. LocalOK(r, streams'[r], thread'[r], sent'[r], fate'[r])
  <2>1. /\ sent'[r] = 0 /\ fate'[r] # "stored" /\ thread'[r].pc = "streaming"
        /\ streams'[r].held /\ ~streams'[r].started /\ streams'[r].session = SessionOf[r]
    BY <1>1, <1>2, <1>4, <1>5, <1>7 DEF Disturbed
  <2> QED BY <2>1 DEF LocalOK, Events, SessionOK
<1>9. NoBetter(fate[r], fate'[r])
  BY <1>7, DisturbedWorse
<1>10. ~Closed(sent[r], thread[r], streams[r])
  BY <1>7 DEF Events, Closed
<1> QED BY <1>1, <1>6, <1>8, <1>9, <1>10, OneRequest

LEMMA MissHeaderStep ==
  ASSUME TypeOK, CaptureInv, NEW r \in Request, MissHeader(r)
  PROVE  CaptureInv'
<1>1. /\ thread[r].pc = "new" /\ thread' = [thread EXCEPT ![r].pc = "streaming"]
      /\ fate' = Disturb(fate, {r}) /\ rows' = rows /\ sent' = sent /\ streams' = streams
  BY DEF MissHeader
<1>2. thread \in [Request -> Thread] /\ fate \in [Request -> Fates] /\ streams \in [Request -> Stream]
  BY DEF TypeOK, Fates
<1>3. \A q \in Request :
        fate'[q] = IF q \in {r} /\ fate[q] = "intact" THEN "disturbed" ELSE fate[q]
  BY <1>1, <1>2, DisturbEach
<1>4. thread'[r].pc = "streaming" /\ \A q \in Request \ {r} : thread'[q] = thread[q]
  BY <1>1, <1>2 DEF Thread
<1>5. \A q \in Request \ {r} : Untouched(q)
  <2> SUFFICES ASSUME NEW q \in Request \ {r} PROVE Untouched(q)
    OBVIOUS
  <2>1. fate'[q] = fate[q] /\ streams'[q] = streams[q]
    BY <1>1, <1>3
  <2>2. streams'[q] = NoStream => ~streams[q].held
    BY <2>1, NoStreamFields, Zenon
  <2> QED BY <1>1, <1>4, <2>1, <2>2 DEF Untouched
<1>6. LocalOK(r, streams[r], thread[r], sent[r], fate[r])
  BY DEF CaptureInv, LocalsOK
<1>7. sent[r] = 0 /\ ~streams[r].held
  BY <1>1, <1>6, Zenon DEF LocalOK
<1>8. fate'[r] \in Harmed /\ NoBetter(fate[r], fate'[r])
  BY <1>2, <1>3, <1>6, <1>7 DEF LocalOK, Fates, Events, Harmed, NoBetter
<1>9. ~streams[r].started
  BY <1>6, <1>7, Zenon DEF LocalOK
<1>10. LocalOK(r, streams'[r], thread'[r], sent'[r], fate'[r])
  BY <1>1, <1>4, <1>7, <1>8, <1>9 DEF LocalOK, Events, Harmed
<1>11. ~Closed(sent[r], thread[r], streams[r])
  BY <1>7 DEF Events, Closed
<1> QED BY <1>1, <1>5, <1>8, <1>10, <1>11, OneRequest

LEMMA PayloadChunkStep ==
  ASSUME TypeOK, CaptureInv, NEW r \in Request, NEW n \in 0 .. Events, NEW again \in BOOLEAN,
         PayloadChunk(r, n, again)
  PROVE  CaptureInv'
<1> DEFINE kept == Evict(streams)
           b == StateFor(kept, r)
           s == Fold(b, r, n)
           stopped == n = Events /\ (sent[r] < Events \/ again)
           carried == [pc |-> "inserting",
                       row |-> [session |-> s.session, at |-> now, output |-> s.output],
                       store |-> store, cfg |-> cfg]
<1>1. /\ thread[r].pc = "streaming" /\ sent[r] <= n /\ sent' = [sent EXCEPT ![r] = n]
      /\ streams' = [kept EXCEPT ![r] = IF stopped THEN NoStream ELSE s]
      /\ fate' = Disturb(fate, Lost(streams, kept))
      /\ thread' = IF stopped /\ s.started THEN [thread EXCEPT ![r] = carried] ELSE thread
      /\ rows' = rows
  BY DEF PayloadChunk, Forget, Commits
<1>2. /\ kept \in [Request -> Stream] /\ thread \in [Request -> Thread] /\ now \in Nat
      /\ sent \in [Request -> 0 .. Events] /\ kept[r] \in Stream /\ thread[r] \in Thread
  BY EvictEach DEF TypeOK
<1>3. kept[r].held => b = kept[r]
  BY <1>2, StateForFields
<1>3a. b \in Stream /\ b.held /\ (~kept[r].held => b.session = Unknown /\ ~b.started /\ ~b.output)
  BY <1>2, StateForFields
<1> HIDE DEF b
<1>4. /\ s \in Stream /\ s.session = b.session /\ s.held = b.held
      /\ s.started <=> (b.started \/ (sent[r] < 1 /\ n >= 1))
      /\ s.output <=> (b.output \/ (sent[r] < 2 /\ n >= 2))
  BY <1>2, <1>3a, FoldFields
<1>5. /\ fate' \in [Request -> Fates]
      /\ \A q \in Request :
              /\ kept[q] \in {streams[q], NoStream}
              /\ fate'[q] \in {fate[q], Disturbed(fate[q])}
              /\ kept[q] = NoStream /\ streams[q].held => fate'[q] = Disturbed(fate[q])
  BY <1>1, EvictOthers
<1> HIDE DEF s, kept
<1>6. LocalOK(r, kept[r], thread[r], sent[r], fate'[r]) /\ fate'[r] \in Fates
  <2>1. /\ streams[r] \in Stream /\ fate[r] \in Fates
        /\ LocalOK(r, streams[r], thread[r], sent[r], fate[r])
    BY DEF CaptureInv, LocalsOK, TypeOK, Fates
  <2> QED BY <1>5, <2>1, Losing
<1>7. sent[r] \in 0 .. Events /\ n \in sent[r] .. Events
  BY <1>1, <1>2 DEF Events
<1>8. /\ s.started /\ sent[r] = Events => kept[r].started
      /\ s.started /\ n >= 2 => OutputOK(s.output, fate'[r])
      /\ sent[r] < Events \/ s.started => SessionOK(r, s.session, fate'[r])
      /\ n = Events /\ fate'[r] = "intact" => s.started
      /\ ~(n = Events /\ sent[r] < Events) => LocalOK(r, s, thread[r], n, fate'[r])
  <2>1. PICK k, t, m, f : k = kept[r] /\ t = thread[r] /\ m = sent[r] /\ f = fate'[r]
    OBVIOUS
  <2>2. /\ k \in Stream /\ t.pc = "streaming" /\ LocalOK(r, k, t, m, f) /\ f \in Fates
        /\ m \in 0 .. Events /\ n \in m .. Events
    BY <1>1, <1>2, <1>6, <1>7, <2>1
  <2>3. /\ b \in Stream /\ b.held /\ (k.held => b = k)
        /\ ~k.held => b.session = Unknown /\ ~b.started /\ ~b.output
    BY <1>3, <1>3a, <2>1
  <2>4. /\ s \in Stream /\ s.session = b.session /\ s.held = b.held
        /\ s.started <=> (b.started \/ (m < 1 /\ n >= 1))
        /\ s.output <=> (b.output \/ (m < 2 /\ n >= 2))
    BY <1>4, <2>1
  <2>5. /\ s.started /\ m = Events => k.started
        /\ s.started /\ n >= 2 => OutputOK(s.output, f)
        /\ m < Events \/ s.started => SessionOK(r, s.session, f)
        /\ n = Events /\ f = "intact" => s.started
        /\ ~(n = Events /\ m < Events) => LocalOK(r, s, t, n, f)
    BY <2>2, <2>3, <2>4, PayloadLocal, ZenonT(120)
  <2> QED BY <2>1, <2>5
<1>9. /\ streams'[r] = (IF stopped THEN NoStream ELSE s) /\ sent'[r] = n
      /\ \A q \in Request \ {r} : streams'[q] = kept[q] /\ sent'[q] = sent[q]
  BY <1>1, <1>2
<1>10. \A q \in Request \ {r} : thread'[q] = thread[q]
  BY <1>1, <1>2
<1> HIDE DEF stopped
<1>11. \A q \in Request \ {r} : Untouched(q)
  BY <1>5, <1>9, <1>10 DEF Untouched
<1>12. NoBetter(fate[r], fate'[r]) /\ (kept[r].started => streams[r].started)
  BY <1>5, DisturbedWorse, NoStreamFields, Zenon
<1>13. CASE stopped /\ s.started
  <2>1. thread'[r] = carried
    BY <1>1, <1>2, <1>13
  <2>2. /\ thread'[r].pc = "inserting" /\ thread'[r].row.session = s.session
        /\ thread'[r].row.output = s.output
    BY <2>1
  <2>3. n = Events /\ n >= 2 /\ ~Closed(sent[r], thread[r], streams[r])
    BY <1>7, <1>8, <1>12, <1>13 DEF stopped, Events, Closed
  <2>4. OutputOK(thread'[r].row.output, fate'[r]) /\ SessionOK(r, thread'[r].row.session, fate'[r])
    BY <1>8, <1>13, <2>2, <2>3, Zenon
  <2>5. streams'[r] = NoStream
    BY <1>9, <1>13
  <2>6. LocalOK(r, streams'[r], thread'[r], sent'[r], fate'[r])
    BY <1>9, <2>2, <2>3, <2>4, <2>5, NoStreamFields DEF LocalOK
  <2> QED BY <1>1, <1>11, <1>12, <2>3, <2>6, OneRequest
<1>14. CASE ~(stopped /\ s.started)
  <2>1. thread' = thread
    BY <1>1, <1>14, Zenon
  <2>2. ASSUME stopped PROVE LocalOK(r, streams'[r], thread'[r], sent'[r], fate'[r])
    <3>1. n = Events /\ streams'[r] = NoStream /\ ~s.started
      BY <1>9, <1>14, <2>2 DEF stopped
    <3>2. fate'[r] # "intact"
      BY <1>8, <3>1
    <3> QED BY <1>1, <1>9, <2>1, <3>1, <3>2, NoStreamFields DEF LocalOK
  <2>3. ASSUME ~stopped PROVE LocalOK(r, streams'[r], thread'[r], sent'[r], fate'[r])
    <3>1. ~(n = Events /\ sent[r] < Events) /\ streams'[r] = s
      BY <1>9, <2>3 DEF stopped
    <3> QED BY <1>8, <1>9, <2>1, <3>1
  <2>4. LocalOK(r, streams'[r], thread'[r], sent'[r], fate'[r])
    BY <2>2, <2>3
  <2>5. /\ sent[r] = Events => sent'[r] = Events
        /\ sent[r] = Events /\ streams'[r].started => streams[r].started
    BY <1>7, <1>8, <1>9, <1>12, NoStreamFields DEF Events
  <2>6. Closed(sent[r], thread[r], streams[r]) => Closed(sent'[r], thread'[r], streams'[r])
    BY <2>1, <2>5, Zenon DEF Closed
  <2> QED BY <1>1, <1>11, <1>12, <2>4, <2>6, OneRequest
<1> QED BY <1>13, <1>14

LEMMA CutLineStep ==
  ASSUME TypeOK, CaptureInv, NEW r \in Request, CutLine(r)
  PROVE  CaptureInv'
<1> DEFINE kept == Evict(streams)
           b == StateFor(kept, r)
           s == Fold(b, r, sent[r])
           hurt == Disturb(fate, Lost(streams, kept))
<1>1. /\ thread[r].pc = "streaming" /\ sent[r] < Events /\ sent' = [sent EXCEPT ![r] = @ + 1]
      /\ streams' = [kept EXCEPT ![r] = s] /\ fate' = [hurt EXCEPT ![r] = "torn"]
      /\ UNCHANGED <<thread, rows>>
  BY DEF CutLine
<1>2. /\ kept \in [Request -> Stream] /\ kept[r] \in Stream /\ now \in Nat
      /\ sent \in [Request -> 0 .. Events] /\ streams \in [Request -> Stream]
      /\ fate \in [Request -> Fates] /\ sent[r] \in Nat
  BY EvictEach DEF TypeOK, Fates, Events
<1>3. /\ b \in Stream /\ b.held /\ (kept[r].held => b = kept[r])
      /\ ~kept[r].held => b.session = Unknown /\ ~b.started
  BY <1>2, StateForFields
<1> HIDE DEF b
<1>4. /\ s \in Stream /\ s.session = b.session /\ s.held = b.held
      /\ s.started <=> (b.started \/ (sent[r] < 1 /\ sent[r] >= 1))
  <2>1. b \in Stream /\ now \in Nat
    BY <1>2, <1>3
  <2>2. PICK m : m = sent[r]
    OBVIOUS
  <2>3. /\ Fold(b, r, m) \in Stream
        /\ Fold(b, r, m).session = b.session /\ Fold(b, r, m).held = b.held
        /\ Fold(b, r, m).started <=> (b.started \/ (sent[r] < 1 /\ m >= 1))
    BY <2>1, FoldFields
  <2> QED BY <2>2, <2>3
<1>5. s.started <=> b.started
  BY <1>2, <1>4
<1>6. \A q \in Request : kept[q] \in {streams[q], NoStream}
  BY <1>2, EvictEach
<1>7. /\ hurt \in [Request -> Fates]
      /\ \A q \in Request : hurt[q] =
           IF q \in Lost(streams, kept) /\ fate[q] = "intact" THEN "disturbed" ELSE fate[q]
  BY <1>2, DisturbEach DEF Lost
<1>8. \A q \in Request : kept[q] = NoStream /\ streams[q].held => q \in Lost(streams, kept)
  BY NoStreamFields, Zenon DEF Lost
<1> HIDE DEF s, hurt, kept
<1>9. /\ streams'[r] = s /\ fate'[r] = "torn" /\ sent'[r] = sent[r] + 1 /\ thread'[r] = thread[r]
  BY <1>1, <1>2, <1>7
<1>10. \A q \in Request \ {r} : Untouched(q)
  <2> SUFFICES ASSUME NEW q \in Request \ {r} PROVE Untouched(q)
    OBVIOUS
  <2>1. /\ streams'[q] = kept[q] /\ fate'[q] = hurt[q] /\ sent'[q] = sent[q]
        /\ thread'[q] = thread[q]
    BY <1>1, <1>2, <1>7
  <2>2. hurt[q] \in {fate[q], Disturbed(fate[q])}
    BY <1>7 DEF Disturbed
  <2>3. kept[q] = NoStream /\ streams[q].held => hurt[q] = Disturbed(fate[q])
    BY <1>7, <1>8 DEF Disturbed
  <2> QED BY <1>6, <2>1, <2>2, <2>3 DEF Untouched
<1>11. LocalOK(r, kept[r], thread[r], sent[r], hurt[r])
  <2>1. /\ streams[r] \in Stream /\ fate[r] \in Fates
        /\ LocalOK(r, streams[r], thread[r], sent[r], fate[r])
    BY <1>2 DEF CaptureInv, LocalsOK
  <2>2. hurt[r] \in {fate[r], Disturbed(fate[r])}
    BY <1>7 DEF Disturbed
  <2>3. kept[r] = NoStream /\ streams[r].held => hurt[r] = Disturbed(fate[r])
    BY <1>7, <1>8 DEF Disturbed
  <2> QED BY <1>6, <2>1, <2>2, <2>3, Losing
<1>12. LocalOK(r, s, thread[r], sent[r] + 1, "torn")
  BY <1>1, <1>2, <1>3, <1>4, <1>5, <1>11, CutLocal
<1>13. LocalOK(r, streams'[r], thread'[r], sent'[r], fate'[r])
  BY <1>9, <1>12
<1>14. ~Closed(sent[r], thread[r], streams[r])
  BY <1>1, <1>2 DEF Closed, Events
<1>15. NoBetter(fate[r], fate'[r])
  BY <1>9 DEF NoBetter, Harmed
<1> QED BY <1>1, <1>10, <1>13, <1>14, <1>15, OneRequest

LEMMA StillUntouched ==
  ASSUME NEW q \in Request, sent'[q] = sent[q], thread'[q] = thread[q], streams'[q] = streams[q],
         fate'[q] = fate[q]
  PROVE  Untouched(q)
<1>1. streams'[q] = NoStream => ~streams[q].held
  BY NoStreamFields, Zenon
<1> QED BY <1>1 DEF Untouched

\* What is known of a request from its handler's point.
LEMMA LocalFacts ==
  ASSUME TypeOK, CaptureInv, NEW r \in Request
  PROVE  /\ LocalOK(r, streams[r], thread[r], sent[r], fate[r])
         /\ thread[r].pc = "new" => sent[r] # Events /\ ~streams[r].started
         /\ thread[r].pc \in {"built", "inserting", "pruning", "done"}
              => sent[r] = Events /\ ~streams[r].started
         /\ fate[r] \in Fates /\ thread[r] \in Thread /\ thread \in [Request -> Thread]
<1>1. LocalOK(r, streams[r], thread[r], sent[r], fate[r])
  BY DEF CaptureInv, LocalsOK
<1>2. /\ fate[r] \in Fates /\ thread[r] \in Thread /\ thread \in [Request -> Thread]
  BY DEF TypeOK, Fates
<1>3. /\ thread[r].pc = "new" => sent[r] = 0 /\ ~streams[r].held
      /\ thread[r].pc \in {"built", "inserting", "pruning", "done"}
           => sent[r] = Events /\ ~streams[r].started
      /\ streams[r].started => streams[r].held
  BY <1>1, Zenon DEF LocalOK
<1>4. 0 # Events
  BY DEF Events
<1>5. thread[r].pc = "new" => sent[r] # Events /\ ~streams[r].started
  BY <1>3, <1>4
<1>6. thread[r].pc \in {"built", "inserting", "pruning", "done"}
        => sent[r] = Events /\ ~streams[r].started
  BY <1>3, <1>4
<1> QED BY <1>1, <1>2, <1>5, <1>6

\* A step within one handler: no stream state and no other request is touched.
LEMMA QuietStep ==
  ASSUME TypeOK, CaptureInv, NEW r \in Request, NEW t \in Thread,
         thread' = [thread EXCEPT ![r] = t], UNCHANGED <<streams, fate>>,
         \A q \in Request \ {r} : sent'[q] = sent[q],
         LocalOK(r, streams[r], t, sent'[r], fate[r]),
         rows' \subseteq rows,
         Closed(sent[r], thread[r], streams[r]) => Closed(sent'[r], t, streams[r])
  PROVE  CaptureInv'
<1>1. thread'[r] = t /\ \A q \in Request \ {r} : thread'[q] = thread[q]
  BY LocalFacts
<1>2. \A q \in Request \ {r} : Untouched(q)
  BY <1>1, StillUntouched
<1>3. LocalOK(r, streams'[r], thread'[r], sent'[r], fate'[r])
  BY <1>1
<1>4. Closed(sent[r], thread[r], streams[r]) => Closed(sent'[r], thread'[r], streams'[r])
  BY <1>1
<1>5. NoBetter(fate[r], fate'[r])
  BY DEF NoBetter
<1> QED BY <1>2, <1>3, <1>4, <1>5, OneRequest

\* A step that belongs to no request.
LEMMA NoRequest ==
  ASSUME TypeOK, CaptureInv, \A q \in Request : Untouched(q), rows' \subseteq rows
  PROVE  CaptureInv'
<1>1. LocalsOK'
  <2> SUFFICES ASSUME NEW q \in Request
               PROVE  LocalOK(q, streams'[q], thread'[q], sent'[q], fate'[q])
    BY DEF LocalsOK, LocalOK, SessionOK, OutputOK
  <2> QED BY UntouchedOK DEF CaptureInv
<1>2. ASSUME NEW q \in Request
      PROVE  /\ Closed(sent[q], thread[q], streams[q])
                  => Closed(sent'[q], thread'[q], streams'[q])
             /\ NoBetter(fate[q], fate'[q])
  BY UntouchedKept
<1> QED BY <1>1, <1>2, RowsKept DEF CaptureInv

LEMMA InterceptStep ==
  ASSUME TypeOK, CaptureInv, NEW r \in Request, Intercept(r)
  PROVE  CaptureInv'
<1> DEFINE row == [session |-> Identity(r), at |-> now, output |-> TRUE]
           t == [thread[r] EXCEPT !.pc = "built", !.row = row]
<1>1. /\ thread[r].pc = "new" /\ thread' = [thread EXCEPT ![r] = t]
      /\ sent' = [sent EXCEPT ![r] = Events] /\ UNCHANGED <<streams, fate, rows>>
  <2>1. thread' = [thread EXCEPT ![r].pc = "built", ![r].row = row]
    BY DEF Intercept
  <2>2. [thread EXCEPT ![r].pc = "built", ![r].row = row] = [thread EXCEPT ![r] = t]
    BY LocalFacts DEF Thread
  <2> QED BY <2>1, <2>2 DEF Intercept
<1>2. row.output = TRUE /\ row.session = SessionOf[r]
  BY DEF Identity
<1>3. row \in Capture
  <2>1. TRUE \in BOOLEAN
    BY Zenon
  <2>2. Identity(r) \in Session \cup {Unknown} /\ now \in Nat
    BY CaptureAssumption DEF Identity, TypeOK
  <2> QED BY <2>1, <2>2, Zenon DEF Capture
<1> HIDE DEF row
<1>4. t \in Thread /\ t.pc = "built" /\ t.row = row
  BY <1>3, LocalFacts DEF Thread
<1> HIDE DEF t
<1>5. sent'[r] = Events /\ \A q \in Request \ {r} : sent'[q] = sent[q]
  BY <1>1 DEF TypeOK
<1>6. LocalOK(r, streams[r], t, sent'[r], fate[r])
  <2>2. ~streams[r].started /\ ~(Events < Events)
    BY <1>1, LocalFacts DEF Events
  <2>3. OutputOK(t.row.output, fate[r]) /\ SessionOK(r, t.row.session, fate[r])
    BY <1>2, <1>4 DEF OutputOK, SessionOK
  <2> QED BY <1>4, <1>5, <2>2, <2>3 DEF LocalOK
<1>7. ~Closed(sent[r], thread[r], streams[r])
  BY <1>1, LocalFacts DEF Closed
<1> QED BY <1>1, <1>4, <1>5, <1>6, <1>7, QuietStep

LEMMA TakeStoreStep ==
  ASSUME TypeOK, CaptureInv, NEW r \in Request, TakeStore(r)
  PROVE  CaptureInv'
<1> DEFINE t == [thread[r] EXCEPT !.pc = "inserting", !.store = store, !.cfg = cfg]
<1>1. /\ thread[r].pc = "built" /\ UNCHANGED <<streams, fate, rows, sent>>
      /\ thread' = [thread EXCEPT ![r] = t]
  BY LocalFacts DEF TakeStore, Thread
<1>2. t \in Thread /\ t.pc = "inserting" /\ t.row = thread[r].row
  BY LocalFacts DEF Thread, TypeOK
<1> HIDE DEF t
<1>3. LocalOK(r, streams[r], t, sent'[r], fate[r])
  BY <1>1, <1>2, LocalFacts DEF LocalOK
<1>4. ~Closed(sent[r], thread[r], streams[r])
  BY <1>1 DEF Finished, Closed
<1> QED BY <1>1, <1>2, <1>3, <1>4, QuietStep

LEMMA AnsweredStep ==
  ASSUME TypeOK, CaptureInv, NEW r \in Request, PersistPrune(r) \/ PruneFails(r)
  PROVE  CaptureInv'
<1> DEFINE t == [Unborn EXCEPT !.pc = "done"]
<1>1. /\ thread[r].pc = "pruning" /\ UNCHANGED <<streams, fate, sent>>
      /\ thread' = [thread EXCEPT ![r] = t]
  BY DEF PersistPrune, PruneFails, Answered
<1>2. rows' \subseteq rows
  BY DEF PersistPrune, PruneFails, Kept
<1>3. t \in Thread /\ t.pc = "done"
  BY UnbornFields
<1> HIDE DEF t
<1>4. LocalOK(r, streams[r], t, sent'[r], fate[r])
  <2>1. sent[r] = Events /\ ~streams[r].started /\ ~(Events < Events)
    BY <1>1, LocalFacts DEF Events
  <2>2. fate[r] # "intact"
    BY <1>1, <2>1, LocalFacts DEF LocalOK
  <2> QED BY <1>1, <1>3, <2>1, <2>2 DEF LocalOK
<1>5. Closed(sent[r], thread[r], streams[r]) => Closed(sent'[r], t, streams[r])
  BY <1>1, <1>3 DEF Finished, Closed
<1> QED BY <1>1, <1>2, <1>3, <1>4, <1>5, QuietStep

LEMMA TrailingStep ==
  ASSUME TypeOK, CaptureInv, NEW r \in Request, Trailing(r)
  PROVE  CaptureInv'
<1> DEFINE t == [thread[r] EXCEPT !.pc = "streaming"]
<1>1. /\ thread[r].pc = "done" /\ UNCHANGED <<streams, fate, rows, sent>>
      /\ thread' = [thread EXCEPT ![r] = t]
  BY LocalFacts DEF Trailing, Thread
<1>2. t \in Thread /\ t.pc = "streaming"
  BY LocalFacts DEF Thread
<1> HIDE DEF t
<1>3. LocalOK(r, streams[r], t, sent'[r], fate[r])
  <2>1. sent[r] = Events /\ ~streams[r].started /\ ~(Events < Events)
    BY <1>1, LocalFacts DEF Events
  <2>2. fate[r] # "intact"
    BY <1>1, <2>1, LocalFacts DEF LocalOK
  <2> QED BY <1>1, <1>2, <2>1, <2>2 DEF LocalOK
<1>4. Closed(sent[r], thread[r], streams[r]) => Closed(sent'[r], t, streams[r])
  BY <1>1, <1>2 DEF Finished, Closed
<1> QED BY <1>1, <1>2, <1>3, <1>4, QuietStep

LEMMA InsertFailsStep ==
  ASSUME TypeOK, CaptureInv, NEW r \in Request, InsertFails(r)
  PROVE  CaptureInv'
<1>1. /\ thread[r].pc = "inserting" /\ thread' = [thread EXCEPT ![r].pc = "pruning"]
      /\ fate' = Disturb(fate, {r}) /\ UNCHANGED <<streams, rows, sent>>
  BY DEF InsertFails
<1>2. fate \in [Request -> Fates] /\ thread \in [Request -> Thread]
  BY DEF TypeOK, Fates
<1>3. \A q \in Request :
        fate'[q] = IF q \in {r} /\ fate[q] = "intact" THEN "disturbed" ELSE fate[q]
  BY <1>1, <1>2, DisturbEach
<1>4. /\ thread'[r].pc = "pruning" /\ thread'[r].row = thread[r].row
      /\ \A q \in Request \ {r} : thread'[q] = thread[q]
  BY <1>1, <1>2 DEF Thread
<1>5. \A q \in Request \ {r} : Untouched(q)
  BY <1>1, <1>3, <1>4, StillUntouched
<1>6. LocalOK(r, streams'[r], thread'[r], sent'[r], fate'[r])
  <2>1. sent[r] = Events /\ ~streams[r].started /\ ~(Events < Events)
    BY <1>1, LocalFacts DEF Events
  <2>2. OutputOK(thread[r].row.output, fate[r]) /\ SessionOK(r, thread[r].row.session, fate[r])
    BY <1>1, LocalFacts DEF LocalOK
  <2>3. fate'[r] # "intact" /\ NoBetter(fate[r], fate'[r])
    BY <1>3 DEF NoBetter, Harmed
  <2>4. OutputOK(thread[r].row.output, fate'[r]) /\ SessionOK(r, thread[r].row.session, fate'[r])
    BY <2>2, <2>3, WorseOK
  <2> QED BY <1>1, <1>4, <2>1, <2>2, <2>3, <2>4 DEF LocalOK
<1>7. NoBetter(fate[r], fate'[r])
  BY <1>3 DEF NoBetter, Harmed
<1>8. ~Closed(sent[r], thread[r], streams[r])
  BY <1>1 DEF Finished, Closed
<1> QED BY <1>1, <1>5, <1>6, <1>7, <1>8, OneRequest

\* The one step that adds a row: its request has none yet, because the handlers of
\* stored requests are past their insert.
LEMMA InsertStep ==
  ASSUME TypeOK, CaptureInv, NEW r \in Request, Insert(r)
  PROVE  CaptureInv'
<1> DEFINE new == [id |-> lastId', request |-> r, row |-> thread[r].row]
<1>1. /\ thread[r].pc = "inserting" /\ thread' = [thread EXCEPT ![r].pc = "pruning"]
      /\ fate' = [fate EXCEPT ![r] = IF @ = "intact" THEN "stored" ELSE @]
      /\ rows' = rows \cup {new} /\ UNCHANGED <<streams, sent>>
  BY DEF Insert
<1>2. fate \in [Request -> Fates] /\ thread \in [Request -> Thread]
  BY DEF TypeOK, Fates
<1>3. /\ fate'[r] = IF fate[r] = "intact" THEN "stored" ELSE fate[r]
      /\ \A q \in Request \ {r} : fate'[q] = fate[q]
  BY <1>1, <1>2
<1>4. /\ thread'[r].pc = "pruning" /\ thread'[r].row = thread[r].row
      /\ \A q \in Request \ {r} : thread'[q] = thread[q]
  BY <1>1, <1>2 DEF Thread
<1>5. \A q \in Request \ {r} : Untouched(q)
  BY <1>1, <1>3, <1>4, StillUntouched
<1>6. sent[r] = Events /\ ~streams[r].started /\ ~(Events < Events)
  BY <1>1, LocalFacts DEF Events
<1>7. OutputOK(thread[r].row.output, fate'[r]) /\ SessionOK(r, thread[r].row.session, fate'[r])
  <2>1. OutputOK(thread[r].row.output, fate[r]) /\ SessionOK(r, thread[r].row.session, fate[r])
    BY <1>1, LocalFacts DEF LocalOK
  <2>2. NoBetter(fate[r], fate'[r])
    BY <1>3 DEF NoBetter, Harmed
  <2> QED BY <2>1, <2>2, WorseOK
<1>8. LocalOK(r, streams'[r], thread'[r], sent'[r], fate'[r])
  <2>1. fate'[r] # "intact"
    BY <1>3
  <2> QED BY <1>1, <1>4, <1>6, <1>7, <2>1 DEF LocalOK
<1>9. LocalsOK'
  <2> SUFFICES ASSUME NEW q \in Request
               PROVE  LocalOK(q, streams'[q], thread'[q], sent'[q], fate'[q])
    BY DEF LocalsOK, LocalOK, SessionOK, OutputOK
  <2>1. CASE q = r
    BY <1>8, <2>1
  <2>2. CASE q # r
    BY <1>5, <2>2, UntouchedOK DEF CaptureInv
  <2> QED BY <2>1, <2>2
<1>10. \A i \in rows : i.request \in Request \ {r}
  BY <1>1 DEF CaptureInv, RowsOK, TypeOK, Stored, Finished, Closed
<1>11. new.request = r /\ new.row = thread[r].row
  OBVIOUS
<1> HIDE DEF new
<1>12. RowsOK'
  <2> SUFFICES ASSUME NEW i \in rows'
               PROVE  /\ Closed(sent'[i.request], thread'[i.request], streams'[i.request])
                      /\ OutputOK(i.row.output, fate'[i.request])
                      /\ SessionOK(i.request, i.row.session, fate'[i.request])
    BY DEF RowsOK, Closed, OutputOK, SessionOK
  <2>1. CASE i = new
    BY <1>1, <1>4, <1>6, <1>7, <1>11, <2>1 DEF Finished, Closed
  <2>2. CASE i \in rows
    <3>1. i.request \in Request \ {r}
      BY <1>10, <2>2
    <3> QED BY <1>1, <1>3, <1>4, <2>2, <3>1 DEF CaptureInv, RowsOK
  <2> QED BY <1>1, <2>1, <2>2
<1>13. OneRowPerRequest'
  BY <1>1, <1>10, <1>11 DEF CaptureInv, OneRowPerRequest
<1> QED BY <1>9, <1>12, <1>13 DEF CaptureInv

\* Reconfiguring and shutting down forget every stream; the clock touches nothing.
LEMMA LifecycleStep ==
  ASSUME TypeOK, CaptureInv,
         \/ \E k \in Config, opens, prunes \in BOOLEAN : ApplyConfig(k, opens, prunes)
         \/ Shutdown \/ Tick \/ UNCHANGED vars
  PROVE  CaptureInv'
<1>1. rows' \subseteq rows
  BY DEF ApplyConfig, PruneOnApply, Kept, Shutdown, Tick, vars
<1>2. CASE (\E k \in Config, opens, prunes \in BOOLEAN : ApplyConfig(k, opens, prunes)) \/ Shutdown
  <2>1. /\ streams' = [r \in Request |-> NoStream] /\ fate' = Disturb(fate, Interrupted)
        /\ UNCHANGED <<thread, sent>>
    BY <1>2 DEF ApplyConfig, Shutdown
  <2>2. \A q \in Request : Untouched(q)
    BY <2>1, ForgetAll
  <2> QED BY <1>1, <2>2, NoRequest
<1>3. CASE Tick \/ UNCHANGED vars
  <2>1. UNCHANGED <<streams, fate, thread, sent>>
    BY <1>3 DEF Tick, vars
  <2>2. \A q \in Request : Untouched(q)
    BY <2>1, StillUntouched
  <2> QED BY <1>1, <2>2, NoRequest
<1> QED BY <1>2, <1>3

LEMMA CaptureInit == Init => CaptureInv
<1> SUFFICES ASSUME Init PROVE CaptureInv
  OBVIOUS
<1>1. RowsOK /\ OneRowPerRequest
  BY DEF Init, RowsOK, OneRowPerRequest
<1>2. ASSUME NEW r \in Request PROVE LocalOK(r, streams[r], thread[r], sent[r], fate[r])
  <2>1. /\ streams[r] = NoStream /\ thread[r] = Unborn /\ sent[r] = 0 /\ fate[r] = "intact"
    BY DEF Init
  <2>2. Unborn.pc = "new" /\ 0 # Events
    BY UnbornFields DEF Events
  <2> QED BY <2>1, <2>2, NoStreamFields DEF LocalOK
<1> QED BY <1>1, <1>2 DEF CaptureInv, LocalsOK

\* The inductive invariant: by the events delivered and the handler's point, what a
\* request's state knows, and that a stored request's handler is past its insert.
THEOREM CaptureInvariant == Spec => []CaptureInv
<1>1. TypeOK /\ CaptureInv /\ [Next]_vars => CaptureInv'
  <2> SUFFICES ASSUME TypeOK, CaptureInv, [Next]_vars PROVE CaptureInv'
    OBVIOUS
  <2>1. ASSUME NEW r \in Request, HeaderChunk(r) \/ MissHeader(r) \/ CutLine(r) PROVE CaptureInv'
    BY <2>1, HeaderChunkStep, MissHeaderStep, CutLineStep
  <2>2. ASSUME NEW r \in Request, NEW n \in 0 .. Events, NEW again \in BOOLEAN,
               PayloadChunk(r, n, again)
        PROVE  CaptureInv'
    BY <2>2, PayloadChunkStep
  <2>3. ASSUME NEW r \in Request,
               \/ Intercept(r) \/ TakeStore(r) \/ Insert(r) \/ InsertFails(r)
               \/ PersistPrune(r) \/ PruneFails(r) \/ Trailing(r)
        PROVE  CaptureInv'
    BY <2>3, InterceptStep, TakeStoreStep, InsertStep, InsertFailsStep, AnsweredStep, TrailingStep
  <2>4. CASE \/ \E k \in Config, opens, prunes \in BOOLEAN : ApplyConfig(k, opens, prunes)
             \/ Shutdown \/ Tick \/ UNCHANGED vars
    BY <2>4, LifecycleStep
  <2> QED BY <2>1, <2>2, <2>3, <2>4 DEF Next
<1> QED BY <1>1, CaptureInit, TypeCorrect, PTL DEF Spec

\* A request is stored at most once, whatever chunks trail its stream.
THEOREM StoredOnce == Spec => []OneRowPerRequest
<1>1. CaptureInv => OneRowPerRequest
  BY DEF CaptureInv
<1> QED BY <1>1, CaptureInvariant, PTL

\* No row misses the counts of message_start or message_delta, although the state that
\* collects them can be evicted in the middle of the stream, unless a chunk ended inside
\* one of the request's lines.
THEOREM Whole == Spec => []RowsAreWhole
<1>1. CaptureInv => RowsAreWhole
  BY Zenon DEF CaptureInv, RowsOK, LocalsOK, LocalOK, OutputOK, RowsAreWhole
<1> QED BY <1>1, CaptureInvariant, PTL

\* A row is filed under its own session, or under "unknown" when its first state was lost.
THEOREM OwnSession == Spec => []RowsKeepTheirSession
<1>1. CaptureInv => RowsKeepTheirSession
  BY Zenon DEF CaptureInv, RowsOK, SessionOK, Harmed, RowsKeepTheirSession
<1> QED BY <1>1, CaptureInvariant, PTL

\* No silent loss: what nothing disturbed is stored or about to be.
THEOREM NoSilentLoss == Spec => []UndisturbedIsCaptured
<1>1. CaptureInv => UndisturbedIsCaptured
  BY Zenon DEF CaptureInv, LocalsOK, LocalOK, UndisturbedIsCaptured
<1> QED BY <1>1, CaptureInvariant, PTL
=============================================================================
