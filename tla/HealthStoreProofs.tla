-------------------------- MODULE HealthStoreProofs --------------------------
(***************************************************************************)
(* Theorems about HealthStore for any accounts, failure classes,           *)
(* configurations and bounds.  The heart is IncidentsGood: what the open   *)
(* and resolved incidents have to do with the ids and with the row of      *)
(* their account.  It survives deletions, so pruning, whole or in part, is *)
(* one lemma, and each kind of event one more.                             *)
(***************************************************************************)
EXTENDS HealthStore, Facts, FiniteSetTheorems, TLAPS

-----------------------------------------------------------------------------
(* Row ids *)

\* NextId is larger than every id of the table, and at most one larger than any bound
\* of them.
LEMMA NextIdFresh ==
  ASSUME NEW rows, NEW bound \in Nat, bound <= MaxEvents + MaxHistory,
         \A r \in rows : r.id \in Nat \ {0} /\ r.id <= bound
  PROVE  /\ NextId(rows) \in Nat \ {0} /\ NextId(rows) <= bound + 1
         /\ \A r \in rows : r.id < NextId(rows)
<1> USE StoreAssumption DEF StoreAssumption
<1> DEFINE Above == {n \in 1 .. bound + 1 : \A r \in rows : r.id < n}
           Next1(n) == /\ \A r \in rows : r.id < n
                       /\ n = 1 \/ \E r \in rows : r.id = n - 1
<1>1. bound + 1 \in Above
  OBVIOUS
<1>2. PICK m \in Above : \A n \in Above : m <= n
  <2>1. Above \in SUBSET Nat
    OBVIOUS
  <2> HIDE DEF Above
  <2> QED BY <1>1, <2>1, LeastElement
<1>3. Next1(m)
  <2>1. CASE m = 1
    BY <2>1
  <2>2. CASE m # 1
    <3>1. m - 1 \in 1 .. bound + 1 /\ m - 1 \notin Above
      BY <1>2, <2>2
    <3>2. PICK r \in rows : ~(r.id < m - 1)
      BY <3>1
    <3> QED BY <3>2
  <2> QED BY <2>1, <2>2
<1>4. m \in 1 .. MaxEvents + MaxHistory + 1
  OBVIOUS
<1>5. NextId(rows) \in 1 .. MaxEvents + MaxHistory + 1 /\ Next1(NextId(rows))
  <2>1. NextId(rows) = CHOOSE n \in 1 .. MaxEvents + MaxHistory + 1 : Next1(n)
    BY DEF NextId
  <2> HIDE DEF Next1
  <2> QED BY <1>3, <1>4, <2>1
<1> QED BY <1>5

-----------------------------------------------------------------------------
(* The incidents and the rows of their accounts.  Null is 0 and lies before every *)
(* time, so an account without a row is one whose newest event is Null.          *)

InOrder(I) ==
  \A i, j \in I : i.auth = j.auth /\ i.id < j.id =>
    i.resolved # Null /\ i.opened <= i.resolved /\ i.resolved <= j.opened

\* No incident opens or is resolved after its account's newest event.
Dated(I, o) ==
  \A i \in I : /\ i.opened <= o[i.auth].event /\ i.resolved <= o[i.auth].event
               /\ i.resolved = Null \/ i.opened <= i.resolved

Current(I, o) ==
  \A i \in I : i.resolved = Null =>
    /\ o[i.auth].failure = o[i.auth].event
    /\ o[i.auth].class = i.class
    /\ i.opened <= o[i.auth].failure
    /\ o[i.auth].count > 0

Numbered(I, e) ==
  /\ \A i \in I : i.id <= e
  /\ \A i, j \in I : i.id = j.id => i = j

IncidentsGood(I, o, e) ==
  /\ I \subseteq Incident
  /\ IsFiniteSet(I)
  /\ InOrder(I) /\ Dated(I, o) /\ Current(I, o) /\ Numbered(I, e)

LEMMA IncidentTypes ==
  ASSUME NEW i \in Incident
  PROVE  /\ i.id \in Nat \ {0} /\ i.auth \in Account /\ i.class \in Class
         /\ i.opened \in Nat \ {0} /\ i.resolved \in Nat
  BY StoreAssumption DEF StoreAssumption, Incident, Time, Null

\* Deleting incidents spoils nothing.
LEMMA GoodSubset ==
  ASSUME NEW I, NEW J \in SUBSET I, NEW o, NEW e, IncidentsGood(I, o, e)
  PROVE  IncidentsGood(J, o, e)
<1>1. IsFiniteSet(J)
  BY FS_Subset DEF IncidentsGood
<1> QED BY <1>1 DEF IncidentsGood, InOrder, Dated, Current, Numbered

\* Nor does counting one more event.
LEMMA GoodLater ==
  ASSUME NEW I, NEW o, NEW e \in Nat, IncidentsGood(I, o, e)
  PROVE  IncidentsGood(I, o, e + 1)
<1>1. ASSUME NEW i \in I PROVE i.id <= e + 1
  BY IncidentTypes DEF IncidentsGood, Numbered
<1> QED BY <1>1 DEF IncidentsGood, Numbered

\* A newest success resolves what is open.
LEMMA GoodResolve ==
  ASSUME NEW I, NEW o \in [Account -> Observation], NEW e, IncidentsGood(I, o, e),
         NEW a \in Account, NEW at \in Time, o[a].event <= at
  PROVE  /\ IncidentsGood(Resolve(I, a, at), [o EXCEPT ![a] = SuccessRow(@, at)], e)
         /\ Open(Resolve(I, a, at), a) = {}
<1> DEFINE p == [o EXCEPT ![a] = SuccessRow(@, at)]
           J == Resolve(I, a, at)
           closed(i) == IF i.auth = a /\ i.resolved = Null THEN [i EXCEPT !.resolved = at] ELSE i
<1>at. at \in Nat \ {0}
  BY StoreAssumption DEF StoreAssumption, Time
<1>p. /\ p[a].event = at /\ o[a].event \in Nat
      /\ \A b \in Account : b # a => p[b] = o[b]
  BY DEF SuccessRow, Observation
<1>1. ASSUME NEW i \in I
      PROVE  /\ i \in Incident /\ closed(i) \in Incident
             /\ closed(i).id = i.id /\ closed(i).auth = i.auth
             /\ closed(i).class = i.class /\ closed(i).opened = i.opened
             /\ closed(i).resolved = IF i.auth = a /\ i.resolved = Null THEN at ELSE i.resolved
  <2>1. i \in Incident
    BY DEF IncidentsGood
  <2> QED BY <2>1 DEF Incident
<1>2. ASSUME NEW x \in J PROVE \E i \in I : x = closed(i)
  BY DEF Resolve
<1>3. IsFiniteSet(J)
  <2> DEFINE f == [i \in I |-> closed(i)]
  <2>1. f \in Surjection(I, J)
    <3> HIDE DEF closed
    <3>1. J = {closed(i) : i \in I}
      BY DEF Resolve, closed
    <3> QED BY <3>1 DEF Surjection
  <2> HIDE DEF f
  <2> QED BY <2>1, FS_Surjection DEF IncidentsGood
<1> HIDE DEF closed
<1>4. InOrder(J)
  <2> SUFFICES ASSUME NEW x \in J, NEW y \in J, x.auth = y.auth, x.id < y.id
               PROVE  x.resolved # Null /\ x.opened <= x.resolved /\ x.resolved <= y.opened
    BY DEF InOrder
  <2>1. PICK i \in I, j \in I : x = closed(i) /\ y = closed(j)
    BY <1>2
  <2>2. i.resolved # Null /\ i.opened <= i.resolved /\ i.resolved <= j.opened
    BY <1>1, <2>1 DEF IncidentsGood, InOrder
  <2> QED BY <1>1, <2>1, <2>2
<1>5. Dated(J, p)
  <2> SUFFICES ASSUME NEW x \in J
               PROVE  /\ x.opened <= p[x.auth].event /\ x.resolved <= p[x.auth].event
                      /\ x.resolved = Null \/ x.opened <= x.resolved
    BY DEF Dated
  <2>1. PICK i \in I : x = closed(i)
    BY <1>2
  <2>2. i.opened <= o[i.auth].event /\ i.resolved <= o[i.auth].event /\ i.auth \in Account
        /\ i.opened \in Nat /\ i.resolved \in Nat /\ (i.resolved = Null \/ i.opened <= i.resolved)
    BY <1>1, IncidentTypes DEF IncidentsGood, Dated
  <2>3. CASE i.auth = a
    BY <2>1, <2>2, <2>3, <1>1, <1>p, <1>at
  <2>4. CASE i.auth # a
    BY <2>1, <2>2, <2>4, <1>1, <1>p
  <2> QED BY <2>3, <2>4
<1>6. ASSUME NEW x \in J, x.resolved = Null
      PROVE  x.auth # a /\ x \in I
  BY <1>1, <1>2, <1>6, <1>at DEF closed, Null
<1>7. Current(J, p)
  <2> SUFFICES ASSUME NEW x \in J, x.resolved = Null
               PROVE  /\ p[x.auth].failure = p[x.auth].event
                      /\ p[x.auth].class = x.class
                      /\ x.opened <= p[x.auth].failure
                      /\ p[x.auth].count > 0
    BY DEF Current
  <2>1. x \in I /\ x.auth # a /\ x.auth \in Account
    BY <1>6, IncidentTypes DEF IncidentsGood
  <2> QED BY <2>1, <1>p DEF IncidentsGood, Current
<1>8. Numbered(J, e)
  <2>1. ASSUME NEW x \in J PROVE x.id <= e
    BY <1>1, <1>2 DEF IncidentsGood, Numbered
  <2>2. ASSUME NEW x \in J, NEW y \in J, x.id = y.id PROVE x = y
    <3>1. PICK i \in I, j \in I : x = closed(i) /\ y = closed(j)
      BY <1>2
    <3>2. i.id = j.id
      BY <3>1, <2>2, <1>1
    <3>3. i = j
      BY <3>2 DEF IncidentsGood, Numbered
    <3> QED BY <3>1, <3>3
  <2> QED BY <2>1, <2>2 DEF Numbered
<1>9. J \subseteq Incident
  BY <1>1, <1>2
<1>10. Open(J, a) = {}
  BY <1>6 DEF Open
<1> QED BY <1>3, <1>4, <1>5, <1>7, <1>8, <1>9, <1>10 DEF IncidentsGood

\* A newest failure keeps the account's open incident and gives it the class, or
\* opens one with a fresh id.
LEMMA GoodFail ==
  ASSUME NEW I, NEW o \in [Account -> Observation], NEW e \in Nat, IncidentsGood(I, o, e),
         e <= MaxEvents, NEW a \in Account, NEW at \in Time, o[a].event <= at,
         NEW class \in Class, NEW retry
  PROVE  IncidentsGood(OpenOrUpdate(I, a, at, class),
                       [o EXCEPT ![a] = FailureRow(@, at, class, retry)], e + 1)
<1> DEFINE p == [o EXCEPT ![a] = FailureRow(@, at, class, retry)]
           J == OpenOrUpdate(I, a, at, class)
<1>at. at \in Nat \ {0}
  BY StoreAssumption DEF StoreAssumption, Time
<1>p. /\ p[a].event = at /\ p[a].failure = at /\ p[a].class = class /\ p[a].count > 0
      /\ o[a].event \in Nat
      /\ \A b \in Account : b # a => p[b] = o[b]
  BY DEF FailureRow, Observation
<1>i. ASSUME NEW i \in I
      PROVE  /\ i \in Incident /\ i.auth \in Account /\ i.opened \in Nat /\ i.resolved \in Nat
             /\ i.id \in Nat \ {0} /\ i.id <= e /\ o[i.auth].event \in Nat
             /\ i.opened <= p[i.auth].event /\ i.resolved <= p[i.auth].event
             /\ i.resolved = Null \/ i.opened <= i.resolved
  <2>1. i \in Incident /\ i.auth \in Account /\ i.opened \in Nat /\ i.resolved \in Nat
        /\ i.id \in Nat \ {0}
    BY IncidentTypes DEF IncidentsGood
  <2>2. o[i.auth].event \in Nat
    BY <2>1 DEF Observation
  <2>3. i.opened <= o[i.auth].event /\ i.resolved <= o[i.auth].event
        /\ (i.resolved = Null \/ i.opened <= i.resolved) /\ i.id <= e
    BY DEF IncidentsGood, Dated, Numbered
  <2>4. CASE i.auth = a
    BY <2>1, <2>2, <2>3, <2>4, <1>p, <1>at
  <2>5. CASE i.auth # a
    BY <2>1, <2>2, <2>3, <2>5, <1>p
  <2> QED BY <2>4, <2>5
<1>c. ASSUME NEW i \in I, i.resolved = Null, i.auth # a
      PROVE  /\ p[i.auth].failure = p[i.auth].event /\ p[i.auth].class = i.class
             /\ i.opened <= p[i.auth].failure /\ p[i.auth].count > 0
  BY <1>c, <1>i, <1>p DEF IncidentsGood, Current
<1>1. CASE Open(I, a) # {}
  <2> DEFINE changed(i) == IF i \in Open(I, a) THEN [i EXCEPT !.class = class] ELSE i
  <2>1. J = {changed(i) : i \in I}
    BY <1>1 DEF OpenOrUpdate
  <2>2. ASSUME NEW i \in I
        PROVE  /\ changed(i) \in Incident
               /\ changed(i).id = i.id /\ changed(i).auth = i.auth
               /\ changed(i).opened = i.opened /\ changed(i).resolved = i.resolved
               /\ changed(i).class = IF i \in Open(I, a) THEN class ELSE i.class
    <3>1. i \in Incident
      BY <1>i
    <3> QED BY <3>1 DEF Incident
  <2> HIDE DEF changed
  <2>3. ASSUME NEW x \in J PROVE \E i \in I : x = changed(i)
    BY <2>1
  <2>4. IsFiniteSet(J)
    <3> DEFINE f == [i \in I |-> changed(i)]
    <3>1. f \in Surjection(I, J)
      BY <2>1 DEF Surjection
    <3> HIDE DEF f
    <3> QED BY <3>1, FS_Surjection DEF IncidentsGood
  <2>5. InOrder(J)
    <3> SUFFICES ASSUME NEW x \in J, NEW y \in J, x.auth = y.auth, x.id < y.id
                 PROVE  x.resolved # Null /\ x.opened <= x.resolved /\ x.resolved <= y.opened
      BY DEF InOrder
    <3>1. PICK i \in I, j \in I : x = changed(i) /\ y = changed(j)
      BY <2>3
    <3>2. i.resolved # Null /\ i.opened <= i.resolved /\ i.resolved <= j.opened
      BY <2>2, <3>1 DEF IncidentsGood, InOrder
    <3> QED BY <2>2, <3>1, <3>2
  <2>6. Dated(J, p)
    BY <2>2, <2>3, <1>i DEF Dated
  <2>7. Current(J, p)
    <3> SUFFICES ASSUME NEW x \in J, x.resolved = Null
                 PROVE  /\ p[x.auth].failure = p[x.auth].event
                        /\ p[x.auth].class = x.class
                        /\ x.opened <= p[x.auth].failure
                        /\ p[x.auth].count > 0
      BY DEF Current
    <3>1. PICK i \in I : x = changed(i)
      BY <2>3
    <3>2. CASE i.auth = a
      <4>1. i \in Open(I, a)
        BY <2>2, <3>1, <3>2 DEF Open
      <4> QED BY <2>2, <3>1, <3>2, <4>1, <1>i, <1>p
    <3>3. CASE i.auth # a
      <4>1. i \notin Open(I, a)
        BY <3>3 DEF Open
      <4> QED BY <2>2, <3>1, <3>3, <4>1, <1>c
    <3> QED BY <3>2, <3>3
  <2>8. Numbered(J, e + 1)
    <3>1. ASSUME NEW x \in J PROVE x.id <= e + 1
      BY <2>2, <2>3, <1>i
    <3>2. ASSUME NEW x \in J, NEW y \in J, x.id = y.id PROVE x = y
      <4>1. PICK i \in I, j \in I : x = changed(i) /\ y = changed(j)
        BY <2>3
      <4>2. i.id = j.id
        BY <2>2, <3>2, <4>1
      <4>3. i = j
        BY <4>2 DEF IncidentsGood, Numbered
      <4> QED BY <4>1, <4>3
    <3> QED BY <3>1, <3>2 DEF Numbered
  <2>9. J \subseteq Incident
    BY <2>2, <2>3
  <2> QED BY <2>4, <2>5, <2>6, <2>7, <2>8, <2>9 DEF IncidentsGood
<1>2. CASE Open(I, a) = {}
  <2> DEFINE r == [id |-> NextId(I), auth |-> a, class |-> class, opened |-> at, resolved |-> Null]
  <2>1. J = I \cup {r}
    BY <1>2 DEF OpenOrUpdate
  <2>2. r.id \in Nat \ {0} /\ r.id <= e + 1 /\ \A i \in I : i.id < r.id
    <3>1. e <= MaxEvents + MaxHistory
      BY StoreAssumption DEF StoreAssumption
    <3> QED BY <1>i, <3>1, NextIdFresh
  <2>3. r \in Incident /\ r.auth = a /\ r.class = class /\ r.opened = at /\ r.resolved = Null
    BY <2>2 DEF Incident
  <2> HIDE DEF r
  <2>4. ASSUME NEW i \in I, i.auth = a PROVE i.resolved # Null
    BY <1>2, <2>4 DEF Open
  <2>5. IsFiniteSet(J)
    BY <2>1, FS_AddElement DEF IncidentsGood
  <2>6. InOrder(J)
    <3> SUFFICES ASSUME NEW x \in J, NEW y \in J, x.auth = y.auth, x.id < y.id
                 PROVE  x.resolved # Null /\ x.opened <= x.resolved /\ x.resolved <= y.opened
      BY DEF InOrder
    <3>1. x \in I
      BY <1>i, <2>1, <2>2
    <3>2. CASE y \in I
      BY <3>1, <3>2 DEF IncidentsGood, InOrder
    <3>3. CASE y = r
      BY <1>i, <1>p, <2>3, <2>4, <3>1, <3>3
    <3> QED BY <2>1, <3>2, <3>3
  <2>7. Dated(J, p)
    <3>1. r.opened <= p[r.auth].event /\ r.resolved <= p[r.auth].event
      BY <1>p, <1>at, <2>3 DEF Null
    <3> QED BY <1>i, <2>1, <2>3, <3>1 DEF Dated
  <2>8. Current(J, p)
    <3>1. ASSUME NEW i \in I, i.resolved = Null PROVE i.auth # a
      BY <2>4, <3>1
    <3>2. /\ p[r.auth].failure = p[r.auth].event /\ p[r.auth].class = r.class
          /\ r.opened <= p[r.auth].failure /\ p[r.auth].count > 0
      BY <1>p, <1>at, <2>3
    <3> QED BY <1>c, <2>1, <3>1, <3>2 DEF Current
  <2>9. Numbered(J, e + 1)
    BY <1>i, <2>1, <2>2 DEF Numbered, IncidentsGood
  <2>10. J \subseteq Incident
    BY <1>i, <2>1, <2>3
  <2> QED BY <2>5, <2>6, <2>7, <2>8, <2>9, <2>10 DEF IncidentsGood
<1> QED BY <1>1, <1>2

-----------------------------------------------------------------------------
(* Pruning *)

\* The history points, at most the number saved and with ids of their own.
HistoryGood(H, s) ==
  /\ H \subseteq [id : Nat \ {0}, at : Time]
  /\ IsFiniteSet(H)
  /\ Numbered(H, s)

\* Keeping the newest rows keeps no more than asked for.
LEMMA NewestRowsBounded ==
  ASSUME NEW rows, IsFiniteSet(rows), NEW max \in Nat \ {0},
         \A r \in rows : r.id \in Nat,
         \A q, r \in rows : q.id = r.id => q = r
  PROVE  /\ IsFiniteSet(NewestRows(rows, max))
         /\ Cardinality(NewestRows(rows, max)) <= max
<1> DEFINE J == NewestRows(rows, max)
           Above(r) == {q \in rows : q.id > r.id}
           Ids == {r.id : r \in J}
<1>1. J \subseteq rows
  BY DEF NewestRows
<1>2. IsFiniteSet(J) /\ Cardinality(J) \in Nat
  BY <1>1, FS_Subset, FS_CardinalityType
<1>3. CASE J = {}
  BY <1>3, FS_EmptySet
<1>4. CASE J # {}
  <2>1. PICK m \in Ids : \A n \in Ids : m <= n
    <3>1. Ids \in SUBSET Nat /\ Ids # {}
      BY <1>1, <1>4
    <3> HIDE DEF Ids
    <3> QED BY <3>1, LeastElement
  <2>2. PICK r \in J : r.id = m
    OBVIOUS
  <2>3. IsFiniteSet(Above(r)) /\ Cardinality(Above(r)) \in Nat
    <3>1. Above(r) \subseteq rows
      OBVIOUS
    <3> HIDE DEF Above
    <3> QED BY <3>1, FS_Subset, FS_CardinalityType
  <2>4. Cardinality(Above(r)) < max
    BY <2>2 DEF NewestRows
  <2>5. J \subseteq Above(r) \cup {r}
    <3>1. ASSUME NEW q \in J, q # r PROVE q.id > r.id
      <4>1. q \in rows /\ r \in rows /\ q.id \in Nat /\ r.id \in Nat
        BY <1>1, <2>2
      <4>2. m <= q.id
        BY <2>1
      <4>3. q.id # r.id
        BY <3>1, <4>1
      <4> QED BY <2>2, <4>1, <4>2, <4>3
    <3> QED BY <1>1, <3>1
  <2>6. r \notin Above(r)
    BY <1>1, <2>2
  <2> HIDE DEF Above, J
  <2>7. /\ IsFiniteSet(Above(r) \cup {r})
        /\ Cardinality(Above(r) \cup {r}) = Cardinality(Above(r)) + 1
    BY <2>3, <2>6, FS_AddElement
  <2>8. Cardinality(J) <= Cardinality(Above(r) \cup {r})
    BY <2>5, <2>7, FS_Subset
  <2>9. Cardinality(J) <= max
    BY <1>2, <2>3, <2>4, <2>7, <2>8
  <2> QED BY <1>2, <2>9 DEF J
<1> QED BY <1>3, <1>4

\* What any prefix of the pruning leaves: good tables, and as many rows as RowsBounded
\* allows when the transaction added at most one to each.
LEMMA PruneKeeps ==
  ASSUME NEW f \in [Account -> [Time -> Nat]], NEW i, NEW h,
         NEW b \in [Account -> [0 .. Day(MaxTime) -> Nat]],
         NEW o, NEW e \in Nat, NEW s \in Nat, NEW k \in Config, NEW n \in 0 .. 4,
         IncidentsGood(i, o, e), HistoryGood(h, s), behind \in Nat,
         CommitAndPrune(f, i, h, b, k, n)
  PROVE  /\ failures' \in [Account -> [Time -> Nat]]
         /\ buckets' \in [Account -> [0 .. Day(MaxTime) -> Nat]]
         /\ behind' \in Nat /\ now' = now
         /\ incidents' \subseteq i /\ history' \subseteq h
         /\ IncidentsGood(incidents', o, e)
         /\ HistoryGood(history', s)
         /\ behind' = behind + 1 \/ Cardinality(incidents') <= k.incidentMaxRows
         /\ behind' = behind + 1 \/ Cardinality(history') <= k.historyMaxRows
<1>k. k.incidentMaxRows \in Nat \ {0} /\ k.historyMaxRows \in Nat \ {0}
  BY StoreAssumption DEF StoreAssumption, RetentionShape
<1>1. failures' \in [Account -> [Time -> Nat]]
  BY DEF CommitAndPrune, PrunedFailures
<1>2. buckets' \in [Account -> [0 .. Day(MaxTime) -> Nat]]
  BY DEF CommitAndPrune, PrunedBuckets
<1>3. behind' \in Nat /\ now' = now /\ (n < 4 => behind' = behind + 1)
  BY DEF CommitAndPrune
<1>4. incidents' \subseteq i /\ history' \subseteq h
  BY DEF CommitAndPrune, PrunedIncidents, PrunedHistory, NewestRows
<1>5. IncidentsGood(incidents', o, e)
  BY <1>4, GoodSubset
<1>6. HistoryGood(history', s)
  <2>1. IsFiniteSet(history')
    BY <1>4, FS_Subset DEF HistoryGood
  <2> QED BY <1>4, <2>1 DEF HistoryGood, Numbered
<1>7. CASE n = 4
  <2> DEFINE x == {r \in i : ~Expired(Stamp(r), k.incidentRetention)}
             y == {r \in h : ~Expired(r.at, k.historyRetention)}
  <2>1. x \subseteq i /\ y \subseteq h
    OBVIOUS
  <2>2. incidents' = NewestRows(x, k.incidentMaxRows) /\ history' = NewestRows(y, k.historyMaxRows)
    BY <1>7 DEF CommitAndPrune, PrunedIncidents, PrunedHistory
  <2> HIDE DEF x, y
  <2>3. IncidentsGood(x, o, e)
    BY <2>1, GoodSubset
  <2>4. /\ IsFiniteSet(x) /\ \A r \in x : r.id \in Nat
        /\ \A q, r \in x : q.id = r.id => q = r
    BY <2>3, IncidentTypes DEF IncidentsGood, Numbered
  <2>5. IsFiniteSet(y)
    BY <2>1, FS_Subset DEF HistoryGood
  <2>6. /\ \A r \in y : r.id \in Nat
        /\ \A q, r \in y : q.id = r.id => q = r
    BY <2>1 DEF HistoryGood, Numbered
  <2> QED BY <1>k, <2>2, <2>4, <2>5, <2>6, NewestRowsBounded, <1>1, <1>2, <1>3, <1>4, <1>5, <1>6
<1>8. CASE n # 4
  BY <1>8, <1>1, <1>2, <1>3, <1>4, <1>5, <1>6
<1> QED BY <1>7, <1>8

\* A transaction that adds at most one row to each table keeps RowsBounded.
LEMMA PruneBounds ==
  ASSUME NEW f \in [Account -> [Time -> Nat]], NEW i, NEW h,
         NEW b \in [Account -> [0 .. Day(MaxTime) -> Nat]],
         NEW o, NEW e \in Nat, NEW s \in Nat, NEW k \in Config, NEW n \in 0 .. 4,
         IncidentsGood(i, o, e), HistoryGood(h, s), behind \in Nat,
         CommitAndPrune(f, i, h, b, k, n), RowsBounded,
         IsFiniteSet(incidents), Cardinality(i) <= Cardinality(incidents) + 1,
         IsFiniteSet(history), Cardinality(h) <= Cardinality(history) + 1
  PROVE  RowsBounded'
<1>1. /\ behind' \in Nat
      /\ incidents' \subseteq i /\ history' \subseteq h
      /\ behind' = behind + 1 \/ Cardinality(incidents') <= k.incidentMaxRows
      /\ behind' = behind + 1 \/ Cardinality(history') <= k.historyMaxRows
  BY PruneKeeps
<1>2. /\ Cardinality(incidents') \in Nat /\ Cardinality(incidents') <= Cardinality(i)
      /\ Cardinality(history') \in Nat /\ Cardinality(history') <= Cardinality(h)
      /\ Cardinality(i) \in Nat /\ Cardinality(h) \in Nat
      /\ Cardinality(incidents) \in Nat /\ Cardinality(history) \in Nat
  <2>1. IsFiniteSet(i) /\ IsFiniteSet(h)
    BY DEF IncidentsGood, HistoryGood
  <2>2. IsFiniteSet(incidents') /\ Cardinality(incidents') <= Cardinality(i)
    BY <1>1, <2>1, FS_Subset
  <2>3. IsFiniteSet(history') /\ Cardinality(history') <= Cardinality(h)
    BY <1>1, <2>1, FS_Subset
  <2> QED BY <2>1, <2>2, <2>3, FS_CardinalityType
<1>3. \A c \in Config : c.incidentMaxRows \in Nat /\ c.historyMaxRows \in Nat
  BY StoreAssumption DEF StoreAssumption, RetentionShape
<1>4. \E c \in Config : Cardinality(incidents') <= c.incidentMaxRows + behind'
  <2>1. PICK c \in Config : Cardinality(incidents) <= c.incidentMaxRows + behind
    BY DEF RowsBounded
  <2>2. CASE behind' = behind + 1
    BY <1>2, <1>3, <2>1, <2>2
  <2>3. CASE Cardinality(incidents') <= k.incidentMaxRows
    BY <1>1, <1>2, <1>3, <2>3
  <2> QED BY <1>1, <2>2, <2>3
<1>5. \E c \in Config : Cardinality(history') <= c.historyMaxRows + behind'
  <2>1. PICK c \in Config : Cardinality(history) <= c.historyMaxRows + behind
    BY DEF RowsBounded
  <2>2. CASE behind' = behind + 1
    BY <1>2, <1>3, <2>1, <2>2
  <2>3. CASE Cardinality(history') <= k.historyMaxRows
    BY <1>1, <1>2, <1>3, <2>3
  <2> QED BY <1>1, <2>2, <2>3
<1> QED BY <1>4, <1>5 DEF RowsBounded

-----------------------------------------------------------------------------
(* One event *)

\* A resolved incident of I is unchanged in J.
KeepsResolved(I, J) == \A i \in I, j \in J : i.id = j.id /\ i.resolved # Null => i = j

LEMMA ResolveKeeps ==
  ASSUME NEW I, NEW o, NEW e, IncidentsGood(I, o, e), NEW a \in Account, NEW at \in Time
  PROVE  /\ KeepsResolved(I, Resolve(I, a, at))
         /\ Cardinality(Resolve(I, a, at)) <= Cardinality(I)
<1> DEFINE J == Resolve(I, a, at)
           closed(i) == IF i.auth = a /\ i.resolved = Null THEN [i EXCEPT !.resolved = at] ELSE i
<1>1. ASSUME NEW i \in I PROVE closed(i).id = i.id /\ (i.resolved # Null => closed(i) = i)
  <2>1. i \in Incident
    BY DEF IncidentsGood
  <2> QED BY <2>1 DEF Incident
<1>2. J = {closed(i) : i \in I}
  BY DEF Resolve
<1> HIDE DEF closed
<1>3. KeepsResolved(I, J)
  BY <1>1, <1>2 DEF KeepsResolved, IncidentsGood, Numbered
<1>4. Cardinality(J) <= Cardinality(I)
  <2> DEFINE f == [i \in I |-> closed(i)]
  <2>1. f \in Surjection(I, J)
    BY <1>2 DEF Surjection
  <2> HIDE DEF f
  <2> QED BY <2>1, FS_Surjection DEF IncidentsGood
<1> QED BY <1>3, <1>4

LEMMA FailKeeps ==
  ASSUME NEW I, NEW o, NEW e \in Nat, IncidentsGood(I, o, e), e <= MaxEvents,
         NEW a \in Account, NEW at \in Time, NEW class \in Class
  PROVE  /\ KeepsResolved(I, OpenOrUpdate(I, a, at, class))
         /\ Cardinality(OpenOrUpdate(I, a, at, class)) <= Cardinality(I) + 1
<1> DEFINE J == OpenOrUpdate(I, a, at, class)
<1>f. IsFiniteSet(I) /\ Cardinality(I) \in Nat
  BY FS_CardinalityType DEF IncidentsGood
<1>1. CASE Open(I, a) # {}
  <2> DEFINE changed(i) == IF i \in Open(I, a) THEN [i EXCEPT !.class = class] ELSE i
  <2>1. ASSUME NEW i \in I PROVE changed(i).id = i.id /\ (i.resolved # Null => changed(i) = i)
    <3>1. i \in Incident
      BY DEF IncidentsGood
    <3> QED BY <3>1 DEF Incident, Open
  <2>2. J = {changed(i) : i \in I}
    BY <1>1 DEF OpenOrUpdate
  <2> HIDE DEF changed
  <2>3. KeepsResolved(I, J)
    BY <2>1, <2>2 DEF KeepsResolved, IncidentsGood, Numbered
  <2>4. IsFiniteSet(J) /\ Cardinality(J) <= Cardinality(I)
    <3> DEFINE f == [i \in I |-> changed(i)]
    <3>1. f \in Surjection(I, J)
      BY <2>2 DEF Surjection
    <3> HIDE DEF f
    <3> QED BY <1>f, <3>1, FS_Surjection
  <2>5. Cardinality(J) \in Nat
    BY <2>4, FS_CardinalityType
  <2> QED BY <1>f, <2>3, <2>4, <2>5
<1>2. CASE Open(I, a) = {}
  <2> DEFINE r == [id |-> NextId(I), auth |-> a, class |-> class, opened |-> at, resolved |-> Null]
  <2>1. J = I \cup {r}
    BY <1>2 DEF OpenOrUpdate
  <2>2. \A i \in I : i.id \in Nat /\ i.id < r.id
    <3>1. e <= MaxEvents + MaxHistory
      BY StoreAssumption DEF StoreAssumption
    <3>2. \A i \in I : i.id \in Nat \ {0} /\ i.id <= e
      BY IncidentTypes DEF IncidentsGood, Numbered
    <3> QED BY <3>1, <3>2, NextIdFresh
  <2> HIDE DEF r
  <2>3. KeepsResolved(I, J)
    BY <2>1, <2>2 DEF KeepsResolved, IncidentsGood, Numbered
  <2>4. r \notin I
    BY <2>2
  <2>5. Cardinality(J) = Cardinality(I) + 1
    BY <1>f, <2>1, <2>4, FS_AddElement
  <2> QED BY <1>f, <2>3, <2>5
<1> QED BY <1>1, <1>2

Newests == [at : Nat, outcomes : SUBSET Outcome]

\* The row of an account and what was recorded of it agree on the newest event and on
\* how it ended; a row without failures in a row has no retry deadline.
RowGood(r, w) ==
  /\ r.event = w.at
  /\ r.success <= r.event /\ r.failure <= r.event
  /\ "success" \in w.outcomes <=> r.event # Null /\ r.success = r.event
  /\ "failure" \in w.outcomes <=> r.event # Null /\ r.failure = r.event
  /\ r.count = 0 => r.retry = Null

RowsGood == \A a \in Account : RowGood(obs[a], newest[a])

\* What the history remembers of one event.
LEMMA Remembered ==
  ASSUME NEW a \in Account, NEW at \in Time, NEW outcome \in Outcome,
         newest \in [Account -> Newests], events \in Nat, Remember(a, at, outcome)
  PROVE  /\ events < MaxEvents /\ events' = events + 1 /\ events' \in Nat /\ saved' = saved
         /\ newest' \in [Account -> Newests]
         /\ \A b \in Account : b # a => newest'[b] = newest[b]
         /\ at < newest[a].at => newest' = newest
         /\ at = newest[a].at => /\ newest'[a].at = at
                                 /\ newest'[a].outcomes = {outcome} \cup newest[a].outcomes
         /\ at > newest[a].at => /\ newest'[a].at = at
                                 /\ newest'[a].outcomes = {outcome}
<1>at. at \in Nat \ {0}
  BY StoreAssumption DEF StoreAssumption, Time
<1>1. newest[a] \in Newests /\ newest[a].at \in Nat /\ newest[a].outcomes \subseteq Outcome
  BY DEF Newests
<1>2. events < MaxEvents /\ events' = events + 1 /\ events' \in Nat /\ saved' = saved
  BY DEF Remember
<1>3. CASE at < newest[a].at
  <2>1. newest' = newest
    BY <1>3 DEF Remember
  <2> QED BY <1>at, <1>1, <1>2, <1>3, <2>1
<1>4. CASE ~(at < newest[a].at)
  <2> DEFINE w == [at |-> at, outcomes |-> {outcome} \cup IF at = newest[a].at
                                                          THEN newest[a].outcomes ELSE {}]
  <2>1. newest' = [newest EXCEPT ![a] = w]
    BY <1>4 DEF Remember
  <2>2. w \in Newests
    BY <1>at, <1>1 DEF Newests
  <2>3. newest' \in [Account -> Newests] /\ newest'[a] = w
        /\ \A b \in Account : b # a => newest'[b] = newest[b]
    <3> HIDE DEF w
    <3> QED BY <2>1, <2>2
  <2> QED BY <1>at, <1>1, <1>2, <1>4, <2>3
<1> QED BY <1>3, <1>4

\* The row after a newest success.
LEMMA SuccessRowGood ==
  ASSUME NEW a \in Account, NEW at \in Time, obs \in [Account -> Observation],
         newest \in [Account -> Newests], events \in Nat, RowsGood, Newest(a, at),
         Remember(a, at, "success"), obs' = [obs EXCEPT ![a] = SuccessRow(@, at)]
  PROVE  /\ obs' \in [Account -> Observation] /\ RowsGood'
         /\ obs[a].event <= at
<1>at. at \in Nat \ {0}
  BY StoreAssumption DEF StoreAssumption, Time
<1>1. /\ obs[a] \in Observation /\ obs[a].event \in Nat /\ obs[a].success \in Nat
      /\ obs[a].failure \in Nat
  BY DEF Observation
<1>2. obs[a].event <= at
  BY <1>at, <1>1 DEF Newest, Null
<1>3. SuccessRow(obs[a], at) \in Observation
  BY <1>at, <1>1 DEF SuccessRow, Observation, Null
<1>4. obs' \in [Account -> Observation] /\ obs'[a] = SuccessRow(obs[a], at)
      /\ \A b \in Account : b # a => obs'[b] = obs[b]
  BY <1>3
<1>5. /\ obs'[a].event = at /\ obs'[a].success = at /\ obs'[a].failure = obs[a].failure
      /\ obs'[a].retry = Null
  BY <1>1, <1>4 DEF SuccessRow, Observation
<1>6. RowGood(obs[a], newest[a])
  BY DEF RowsGood
<1>7. newest[a].at = obs[a].event
  BY <1>6 DEF RowGood
<1>8. "success" \in Outcome /\ "failure" \in Outcome
  BY DEF Outcome
<1>9. /\ \A b \in Account : b # a => newest'[b] = newest[b]
      /\ newest'[a].at = at /\ "success" \in newest'[a].outcomes
      /\ "failure" \in newest'[a].outcomes <=> at = obs[a].event /\ "failure" \in newest[a].outcomes
  <2>1. CASE at = obs[a].event
    BY <1>7, <1>8, <2>1, Remembered
  <2>2. CASE at > obs[a].event
    BY <1>1, <1>7, <1>8, <1>at, <2>2, Remembered
  <2> QED BY <1>1, <1>2, <1>at, <2>1, <2>2
<1>10. RowGood(obs'[a], newest'[a])
  <2>1. /\ obs'[a].event = newest'[a].at
        /\ obs'[a].success <= obs'[a].event /\ obs'[a].failure <= obs'[a].event
    BY <1>1, <1>2, <1>5, <1>6, <1>9, <1>at DEF RowGood
  <2>2. "success" \in newest'[a].outcomes <=> obs'[a].event # Null /\ obs'[a].success = obs'[a].event
    BY <1>5, <1>9, <1>at DEF Null
  <2>3. "failure" \in newest'[a].outcomes <=> obs'[a].event # Null /\ obs'[a].failure = obs'[a].event
    <3>1. "failure" \in newest[a].outcomes <=> obs[a].event # Null /\ obs[a].failure = obs[a].event
      BY <1>6 DEF RowGood
    <3>2. obs[a].failure <= obs[a].event
      BY <1>6 DEF RowGood
    <3>3. obs[a].failure = at <=> at = obs[a].event /\ obs[a].failure = obs[a].event
      BY <1>1, <1>2, <1>at, <3>2
    <3> QED BY <1>5, <1>9, <1>at, <3>1, <3>3 DEF Null
  <2> QED BY <1>5, <2>1, <2>2, <2>3 DEF RowGood
<1>11. RowsGood'
  BY <1>4, <1>9, <1>10 DEF RowsGood
<1> QED BY <1>2, <1>4, <1>11

\* The row of a failure is one.
LEMMA FailureRowType ==
  ASSUME NEW r \in Observation, NEW class \in Class, NEW at \in Nat, NEW retry \in Nat
  PROVE  FailureRow(r, at, class, retry) \in Observation
<1>1. r.count + 1 \in Nat /\ class \in Class \cup {Null}
  BY DEF Observation
<1> QED BY <1>1 DEF Observation, FailureRow

\* The row after a newest failure.
LEMMA FailureRowGood ==
  ASSUME NEW a \in Account, NEW at \in Time, NEW class \in Class, NEW retry \in Retry,
         obs \in [Account -> Observation],
         newest \in [Account -> Newests], events \in Nat, RowsGood, Newest(a, at),
         Remember(a, at, "failure"), obs' = [obs EXCEPT ![a] = FailureRow(@, at, class, retry)]
  PROVE  /\ obs' \in [Account -> Observation] /\ RowsGood'
         /\ obs[a].event <= at
<1>at. at \in Nat \ {0} /\ retry \in Nat
  BY StoreAssumption DEF StoreAssumption, Time, Retry, Null
<1>1. /\ obs[a] \in Observation /\ obs[a].event \in Nat /\ obs[a].success \in Nat
      /\ obs[a].failure \in Nat /\ obs[a].count \in Nat
  BY DEF Observation
<1>2. obs[a].event <= at
  BY <1>at, <1>1 DEF Newest, Null
<1>3. FailureRow(obs[a], at, class, retry) \in Observation
  <2> at \in Nat /\ retry \in Nat
    BY <1>at
  <2> QED BY <1>1, FailureRowType
<1>4. obs' \in [Account -> Observation] /\ obs'[a] = FailureRow(obs[a], at, class, retry)
      /\ \A b \in Account : b # a => obs'[b] = obs[b]
  BY <1>3
<1>5. /\ obs'[a].event = at /\ obs'[a].failure = at /\ obs'[a].success = obs[a].success
      /\ obs'[a].count # 0
  BY <1>1, <1>4 DEF FailureRow, Observation
<1>6. RowGood(obs[a], newest[a])
  BY DEF RowsGood
<1>7. newest[a].at = obs[a].event
  BY <1>6 DEF RowGood
<1>8. "success" \in Outcome /\ "failure" \in Outcome
  BY DEF Outcome
<1>9. /\ \A b \in Account : b # a => newest'[b] = newest[b]
      /\ newest'[a].at = at /\ "failure" \in newest'[a].outcomes
      /\ "success" \in newest'[a].outcomes <=> at = obs[a].event /\ "success" \in newest[a].outcomes
  <2>1. CASE at = obs[a].event
    BY <1>7, <1>8, <2>1, Remembered
  <2>2. CASE at > obs[a].event
    BY <1>1, <1>7, <1>8, <1>at, <2>2, Remembered
  <2> QED BY <1>1, <1>2, <1>at, <2>1, <2>2
<1>10. RowGood(obs'[a], newest'[a])
  <2>1. /\ obs'[a].event = newest'[a].at
        /\ obs'[a].success <= obs'[a].event /\ obs'[a].failure <= obs'[a].event
    BY <1>1, <1>2, <1>5, <1>6, <1>9, <1>at DEF RowGood
  <2>2. "failure" \in newest'[a].outcomes <=> obs'[a].event # Null /\ obs'[a].failure = obs'[a].event
    BY <1>5, <1>9, <1>at DEF Null
  <2>3. "success" \in newest'[a].outcomes <=> obs'[a].event # Null /\ obs'[a].success = obs'[a].event
    <3>1. "success" \in newest[a].outcomes <=> obs[a].event # Null /\ obs[a].success = obs[a].event
      BY <1>6 DEF RowGood
    <3>2. obs[a].success <= obs[a].event
      BY <1>6 DEF RowGood
    <3>3. obs[a].success = at <=> at = obs[a].event /\ obs[a].success = obs[a].event
      BY <1>1, <1>2, <1>at, <3>2
    <3> QED BY <1>5, <1>9, <1>at, <3>1, <3>3 DEF Null
  <2> QED BY <1>5, <2>1, <2>2, <2>3 DEF RowGood
<1>11. RowsGood'
  BY <1>4, <1>9, <1>10 DEF RowsGood
<1> QED BY <1>2, <1>4, <1>11

-----------------------------------------------------------------------------
(* The inductive invariant *)

HealthInv ==
  /\ TypeOK
  /\ IncidentsGood(incidents, obs, events)
  /\ HistoryGood(history, saved)
  /\ events <= MaxEvents /\ saved <= MaxHistory
  /\ RowsGood
  /\ RowsBounded

\* What ObservationAdvances says of one step.
Advances ==
  /\ \A a \in Account : obs'[a] # obs[a] => obs'[a].event >= obs[a].event
  /\ \A i \in incidents, j \in incidents' :
       i.id = j.id /\ i.auth = j.auth /\ i.opened = j.opened /\ i.resolved # Null => i = j

LEMMA HealthInit == Init => HealthInv
<1> SUFFICES ASSUME Init PROVE HealthInv
  OBVIOUS
<1> USE StoreAssumption DEF StoreAssumption
<1>1. obs \in [Account -> Observation]
  BY DEF Init, NoRow, Observation, Null
<1>2. newest \in [Account -> Newests]
  BY DEF Init, Newests, Null
<1>3. failures \in [Account -> [Time -> Nat]] /\ buckets \in [Account -> [0 .. Day(MaxTime) -> Nat]]
  BY DEF Init
<1>4. now \in Time /\ behind \in Nat /\ events \in Nat /\ saved \in Nat
      /\ incidents = {} /\ history = {}
  BY DEF Init, Time
<1>5. TypeOK
  BY <1>1, <1>2, <1>3, <1>4 DEF TypeOK, Newests
<1>6. IncidentsGood(incidents, obs, events) /\ HistoryGood(history, saved)
  BY <1>4, FS_EmptySet DEF IncidentsGood, HistoryGood, InOrder, Dated, Current, Numbered
<1>7. RowsGood
  BY DEF Init, RowsGood, RowGood, NoRow, Null
<1>8. RowsBounded
  <2>1. PICK k \in Config : TRUE
    OBVIOUS
  <2>2. k.incidentMaxRows \in Nat /\ k.historyMaxRows \in Nat
    BY DEF RetentionShape
  <2>3. Cardinality(incidents) = 0 /\ Cardinality(history) = 0 /\ behind = 0
    BY <1>4, FS_EmptySet DEF Init
  <2> QED BY <2>2, <2>3 DEF RowsBounded
<1>9. events <= MaxEvents /\ saved <= MaxHistory
  BY DEF Init
<1> QED BY <1>5, <1>6, <1>7, <1>8, <1>9 DEF HealthInv

\* The invariant from its parts, when only what a step wrote is known.
LEMMA Assembled ==
  ASSUME now' \in Time, obs' \in [Account -> Observation],
         failures' \in [Account -> [Time -> Nat]],
         buckets' \in [Account -> [0 .. Day(MaxTime) -> Nat]],
         behind' \in Nat, events' \in Nat, saved' \in Nat, newest' \in [Account -> Newests],
         IncidentsGood(incidents', obs', events'), HistoryGood(history', saved'),
         events' <= MaxEvents, saved' <= MaxHistory, RowsGood', RowsBounded'
  PROVE  HealthInv'
<1>1. incidents' \subseteq Incident /\ history' \subseteq [id : Nat \ {0}, at : Time]
  BY DEF IncidentsGood, HistoryGood
<1>2. TypeOK'
  BY <1>1 DEF TypeOK, Newests
<1> QED BY <1>2 DEF HealthInv

\* Any transaction that keeps the incidents good and adds one row at most.
LEMMA Committed ==
  ASSUME HealthInv,
         NEW f \in [Account -> [Time -> Nat]], NEW i, NEW h,
         NEW b \in [Account -> [0 .. Day(MaxTime) -> Nat]],
         NEW k \in Config, NEW n \in 0 .. 4, CommitAndPrune(f, i, h, b, k, n),
         obs' \in [Account -> Observation], newest' \in [Account -> Newests], RowsGood',
         events' \in Nat, events' <= MaxEvents, saved' \in Nat, saved' <= MaxHistory,
         IncidentsGood(i, obs', events'), HistoryGood(h, saved'),
         Cardinality(i) <= Cardinality(incidents) + 1,
         Cardinality(h) <= Cardinality(history) + 1,
         KeepsResolved(incidents, i),
         \A a \in Account : obs'[a] # obs[a] => obs'[a].event >= obs[a].event
  PROVE  HealthInv' /\ Advances
<1>1. behind \in Nat /\ now \in Time /\ IsFiniteSet(incidents) /\ IsFiniteSet(history) /\ RowsBounded
  BY DEF HealthInv, TypeOK, IncidentsGood, HistoryGood
<1>2. /\ failures' \in [Account -> [Time -> Nat]]
      /\ buckets' \in [Account -> [0 .. Day(MaxTime) -> Nat]]
      /\ behind' \in Nat /\ now' = now
      /\ incidents' \subseteq i
      /\ IncidentsGood(incidents', obs', events')
      /\ HistoryGood(history', saved')
  BY <1>1, PruneKeeps
<1>3. RowsBounded'
  BY <1>1, PruneBounds
<1>4. HealthInv'
  BY <1>1, <1>2, <1>3, Assembled
<1>5. Advances
  BY <1>2 DEF Advances, KeepsResolved
<1> QED BY <1>4, <1>5

\* An unchanged table keeps its resolved incidents.
LEMMA SameKeeps ==
  ASSUME HealthInv
  PROVE  /\ KeepsResolved(incidents, incidents)
         /\ Cardinality(incidents) \in Nat /\ Cardinality(history) \in Nat
  BY FS_CardinalityType DEF HealthInv, IncidentsGood, HistoryGood, Numbered, KeepsResolved

LEMMA OneMore ==
  ASSUME NEW D, NEW g \in [D -> Nat], NEW d
  PROVE  [g EXCEPT ![d] = @ + 1] \in [D -> Nat]
<1>1. CASE d \in D
  <2>1. g[d] + 1 \in Nat
    BY <1>1
  <2> QED BY <2>1
<1>2. CASE d \notin D
  <2>1. [g EXCEPT ![d] = @ + 1] = g
    BY <1>2
  <2> QED BY <2>1
<1> QED BY <1>1, <1>2

\* The tables an event writes to have their types.
LEMMA CountedTypes ==
  ASSUME TypeOK, NEW a \in Account, NEW at \in Time
  PROVE  /\ Fail(failures, a, at) \in [Account -> [Time -> Nat]]
         /\ Count(buckets, a, at) \in [Account -> [0 .. Day(MaxTime) -> Nat]]
<1>1. failures \in [Account -> [Time -> Nat]] /\ buckets \in [Account -> [0 .. Day(MaxTime) -> Nat]]
  BY DEF TypeOK
<1>2. Fail(failures, a, at) \in [Account -> [Time -> Nat]]
  BY <1>1 DEF Fail
<1>3. Count(buckets, a, at) \in [Account -> [0 .. Day(MaxTime) -> Nat]]
  <2> DEFINE d == Day(at)
             D == 0 .. Day(MaxTime)
             row == [buckets[a] EXCEPT ![d] = @ + 1]
  <2>1. row \in [D -> Nat]
    <3>1. buckets[a] \in [D -> Nat]
      BY <1>1
    <3> HIDE DEF d, D
    <3> QED BY <3>1, OneMore
  <2>2. Count(buckets, a, at) = [buckets EXCEPT ![a] = row]
    BY DEF Count
  <2> HIDE DEF row
  <2> QED BY <1>1, <2>1, <2>2
<1> QED BY <1>2, <1>3

LEMMA StepSuccess ==
  ASSUME HealthInv, NEW a \in Account, NEW at \in Time, NEW k \in Config, NEW n \in 0 .. 4,
         RecordSuccess(a, at, k, n)
  PROVE  HealthInv' /\ Advances
<1> DEFINE i == Resolve(incidents, a, at)
           b == Count(buckets, a, at)
<1>1. /\ obs \in [Account -> Observation] /\ newest \in [Account -> Newests]
      /\ failures \in [Account -> [Time -> Nat]] /\ b \in [Account -> [0 .. Day(MaxTime) -> Nat]]
      /\ events \in Nat /\ saved \in Nat /\ saved <= MaxHistory
      /\ RowsGood /\ IncidentsGood(incidents, obs, events) /\ HistoryGood(history, saved)
  BY CountedTypes DEF HealthInv, TypeOK, Newests
<1>2. /\ Newest(a, at) /\ Remember(a, at, "success")
      /\ obs' = [obs EXCEPT ![a] = SuccessRow(@, at)]
      /\ CommitAndPrune(failures, i, history, b, k, n)
  BY DEF RecordSuccess
<1>3. /\ events < MaxEvents /\ events' = events + 1 /\ events' \in Nat /\ saved' = saved
      /\ newest' \in [Account -> Newests]
  BY <1>1, <1>2, Remembered DEF Outcome
<1>4. obs' \in [Account -> Observation] /\ RowsGood' /\ obs[a].event <= at
  BY <1>1, <1>2, SuccessRowGood
<1>5. IncidentsGood(i, obs', events')
  <2>1. IncidentsGood(i, obs', events)
    BY <1>1, <1>2, <1>4, GoodResolve
  <2> QED BY <1>1, <1>3, <2>1, GoodLater
<1>6. HistoryGood(history, saved') /\ events' <= MaxEvents /\ saved' \in Nat /\ saved' <= MaxHistory
  BY <1>1, <1>3, StoreAssumption DEF StoreAssumption
<1>7. /\ KeepsResolved(incidents, i)
      /\ Cardinality(i) <= Cardinality(incidents) + 1
      /\ Cardinality(history) <= Cardinality(history) + 1
  <2>1. KeepsResolved(incidents, i) /\ Cardinality(i) <= Cardinality(incidents)
    BY <1>1, ResolveKeeps
  <2>2. Cardinality(i) \in Nat
    BY <1>5, FS_CardinalityType DEF IncidentsGood
  <2> QED BY <2>1, <2>2, SameKeeps
<1>8. ASSUME NEW x \in Account, obs'[x] # obs[x] PROVE obs'[x].event >= obs[x].event
  <2>1. x = a
    BY <1>1, <1>2, <1>8
  <2>2. obs'[a].event = at /\ obs[a].event \in Nat /\ at \in Nat
    BY <1>1, <1>2 DEF SuccessRow, Observation, Time
  <2> QED BY <1>4, <2>1, <2>2
<1> HIDE DEF i, b
<1> QED BY <1>1, <1>2, <1>3, <1>4, <1>5, <1>6, <1>7, <1>8, Committed

LEMMA StepFailure ==
  ASSUME HealthInv, NEW a \in Account, NEW at \in Time, NEW class \in Class,
         NEW retry \in Retry, NEW k \in Config, NEW n \in 0 .. 4,
         RecordFailure(a, at, class, retry, k, n)
  PROVE  HealthInv' /\ Advances
<1> DEFINE i == OpenOrUpdate(incidents, a, at, class)
           f == Fail(failures, a, at)
<1>1. /\ obs \in [Account -> Observation] /\ newest \in [Account -> Newests]
      /\ f \in [Account -> [Time -> Nat]] /\ buckets \in [Account -> [0 .. Day(MaxTime) -> Nat]]
      /\ events \in Nat /\ saved \in Nat /\ saved <= MaxHistory
      /\ RowsGood /\ IncidentsGood(incidents, obs, events) /\ HistoryGood(history, saved)
  BY CountedTypes DEF HealthInv, TypeOK, Newests
<1>2. /\ Newest(a, at) /\ Remember(a, at, "failure")
      /\ obs' = [obs EXCEPT ![a] = FailureRow(@, at, class, retry)]
      /\ CommitAndPrune(f, i, history, buckets, k, n)
  BY DEF RecordFailure
<1>3. /\ events < MaxEvents /\ events' = events + 1 /\ events' \in Nat /\ saved' = saved
      /\ newest' \in [Account -> Newests]
  BY <1>1, <1>2, Remembered DEF Outcome
<1>4. obs' \in [Account -> Observation] /\ RowsGood' /\ obs[a].event <= at
  BY <1>1, <1>2, FailureRowGood
<1>5. events <= MaxEvents /\ events' <= MaxEvents
  BY <1>1, <1>3, StoreAssumption DEF StoreAssumption
<1>6. IncidentsGood(i, obs', events')
  BY <1>1, <1>2, <1>3, <1>4, <1>5, GoodFail
<1>7. HistoryGood(history, saved') /\ saved' \in Nat /\ saved' <= MaxHistory
  BY <1>1, <1>3
<1>8. /\ KeepsResolved(incidents, i)
      /\ Cardinality(i) <= Cardinality(incidents) + 1
      /\ Cardinality(history) <= Cardinality(history) + 1
  <2>1. KeepsResolved(incidents, i) /\ Cardinality(i) <= Cardinality(incidents) + 1
    BY <1>1, <1>5, FailKeeps
  <2> QED BY <2>1, SameKeeps
<1>9. ASSUME NEW x \in Account, obs'[x] # obs[x] PROVE obs'[x].event >= obs[x].event
  <2>1. x = a
    BY <1>1, <1>2, <1>9
  <2>2. obs'[a].event = at /\ obs[a].event \in Nat /\ at \in Nat
    BY <1>1, <1>2 DEF FailureRow, Observation, Time
  <2> QED BY <1>4, <2>1, <2>2
<1> HIDE DEF i, f
<1> QED BY <1>1, <1>2, <1>3, <1>4, <1>5, <1>6, <1>7, <1>8, <1>9, Committed

\* A late event of either outcome: the rows and the incidents are as before.
LEMMA StepLate ==
  ASSUME HealthInv, NEW a \in Account, NEW at \in Time, NEW outcome \in Outcome,
         NEW f \in [Account -> [Time -> Nat]],
         NEW b \in [Account -> [0 .. Day(MaxTime) -> Nat]],
         NEW k \in Config, NEW n \in 0 .. 4,
         ~Newest(a, at), Remember(a, at, outcome),
         CommitAndPrune(f, incidents, history, b, k, n), UNCHANGED obs
  PROVE  HealthInv' /\ Advances
<1>1. /\ obs \in [Account -> Observation] /\ newest \in [Account -> Newests]
      /\ events \in Nat /\ saved \in Nat /\ saved <= MaxHistory
      /\ RowsGood /\ IncidentsGood(incidents, obs, events) /\ HistoryGood(history, saved)
  BY DEF HealthInv, TypeOK, Newests
<1>2. /\ events < MaxEvents /\ events' = events + 1 /\ events' \in Nat /\ saved' = saved
      /\ newest' \in [Account -> Newests]
      /\ at < newest[a].at => newest' = newest
  BY <1>1, Remembered
<1>3. newest' = newest
  <2>1. obs[a].event = newest[a].at
    BY <1>1 DEF RowsGood, RowGood
  <2>2. at < obs[a].event
    <3>1. obs[a].event \in Nat /\ at \in Nat
      BY <1>1 DEF Observation, Time
    <3> QED BY <3>1 DEF Newest
  <2> QED BY <1>2, <2>1, <2>2
<1>4. RowsGood' /\ obs' \in [Account -> Observation]
  BY <1>1, <1>3 DEF RowsGood
<1>5. IncidentsGood(incidents, obs', events') /\ HistoryGood(history, saved')
      /\ saved' \in Nat /\ saved' <= MaxHistory
  BY <1>1, <1>2, GoodLater
<1>6. events' <= MaxEvents
  BY <1>1, <1>2, StoreAssumption DEF StoreAssumption
<1>7. /\ KeepsResolved(incidents, incidents)
      /\ Cardinality(incidents) <= Cardinality(incidents) + 1
      /\ Cardinality(history) <= Cardinality(history) + 1
  BY SameKeeps
<1> QED BY <1>2, <1>4, <1>5, <1>6, <1>7, Committed

LEMMA StepHistory ==
  ASSUME HealthInv, NEW at \in Time, NEW k \in Config, NEW n \in 0 .. 4, SaveHistory(at, k, n)
  PROVE  HealthInv' /\ Advances
<1> DEFINE r == [id |-> NextId(history), at |-> at]
           h == history \cup {r}
<1>1. /\ obs \in [Account -> Observation] /\ newest \in [Account -> Newests]
      /\ failures \in [Account -> [Time -> Nat]]
      /\ buckets \in [Account -> [0 .. Day(MaxTime) -> Nat]]
      /\ events \in Nat /\ saved \in Nat /\ events <= MaxEvents
      /\ RowsGood /\ IncidentsGood(incidents, obs, events) /\ HistoryGood(history, saved)
  BY DEF HealthInv, TypeOK, Newests
<1>2. /\ saved < MaxHistory /\ saved' = saved + 1 /\ obs' = obs /\ events' = events /\ newest' = newest
      /\ CommitAndPrune(failures, incidents, h, buckets, k, n)
  BY DEF SaveHistory
<1>3. saved' \in Nat /\ saved' <= MaxHistory /\ saved <= MaxEvents + MaxHistory
  BY <1>1, <1>2, StoreAssumption DEF StoreAssumption
<1>4. \A q \in history : q.id \in Nat \ {0} /\ q.id <= saved
  BY <1>1 DEF HistoryGood, Numbered
<1>5. r.id \in Nat \ {0} /\ r.id <= saved + 1 /\ r.at = at /\ \A q \in history : q.id < r.id
  BY <1>1, <1>3, <1>4, NextIdFresh
<1>6. r \in [id : Nat \ {0}, at : Time]
  BY <1>5
<1> HIDE DEF r
<1>7. HistoryGood(h, saved')
  <2>1. IsFiniteSet(h)
    BY <1>1, FS_AddElement DEF HistoryGood
  <2>2. Numbered(h, saved')
    BY <1>1, <1>2, <1>4, <1>5 DEF HistoryGood, Numbered
  <2> QED BY <1>1, <1>6, <2>1, <2>2 DEF HistoryGood
<1>8. /\ KeepsResolved(incidents, incidents)
      /\ Cardinality(incidents) <= Cardinality(incidents) + 1
      /\ Cardinality(h) <= Cardinality(history) + 1
  <2>1. r \notin history
    BY <1>4, <1>5
  <2>2. Cardinality(h) = Cardinality(history) + 1
    BY <1>1, <2>1, FS_AddElement DEF HistoryGood
  <2> QED BY <2>2, SameKeeps
<1>9. obs' \in [Account -> Observation] /\ newest' \in [Account -> Newests] /\ RowsGood'
      /\ events' \in Nat /\ events' <= MaxEvents /\ IncidentsGood(incidents, obs', events')
  BY <1>1, <1>2 DEF RowsGood
<1> HIDE DEF h
<1> QED BY <1>1, <1>2, <1>3, <1>7, <1>8, <1>9, Committed

LEMMA HealthStep == HealthInv /\ [Next]_vars => HealthInv' /\ (Advances \/ UNCHANGED vars)
<1> SUFFICES ASSUME HealthInv, [Next]_vars PROVE HealthInv' /\ (Advances \/ UNCHANGED vars)
  OBVIOUS
<1>1. CASE UNCHANGED vars
  BY <1>1 DEF vars, tables, HealthInv, TypeOK, RowsGood, RowsBounded
<1>2. ASSUME NEW k \in Config, NEW n \in 0 .. 4, NEW at \in Time, NEW a \in Account,
             RecordSuccess(a, at, k, n)
      PROVE  HealthInv' /\ Advances
  BY <1>2, StepSuccess
<1>3. ASSUME NEW k \in Config, NEW n \in 0 .. 4, NEW at \in Time, NEW a \in Account,
             RecordLateSuccess(a, at, k, n)
      PROVE  HealthInv' /\ Advances
  <2>1. /\ failures \in [Account -> [Time -> Nat]]
        /\ Count(buckets, a, at) \in [Account -> [0 .. Day(MaxTime) -> Nat]]
    BY CountedTypes DEF HealthInv, TypeOK
  <2> QED BY <1>3, <2>1, StepLate DEF RecordLateSuccess, Outcome
<1>4. ASSUME NEW k \in Config, NEW n \in 0 .. 4, NEW at \in Time, NEW a \in Account,
             NEW class \in Class, NEW retry \in Retry, RecordFailure(a, at, class, retry, k, n)
      PROVE  HealthInv' /\ Advances
  BY <1>4, StepFailure
<1>5. ASSUME NEW k \in Config, NEW n \in 0 .. 4, NEW at \in Time, NEW a \in Account,
             RecordLateFailure(a, at, k, n)
      PROVE  HealthInv' /\ Advances
  <2>1. /\ buckets \in [Account -> [0 .. Day(MaxTime) -> Nat]]
        /\ Fail(failures, a, at) \in [Account -> [Time -> Nat]]
    BY CountedTypes DEF HealthInv, TypeOK
  <2> QED BY <1>5, <2>1, StepLate DEF RecordLateFailure, Outcome
<1>6. ASSUME NEW k \in Config, NEW n \in 0 .. 4, NEW at \in Time, SaveHistory(at, k, n)
      PROVE  HealthInv' /\ Advances
  BY <1>6, StepHistory
<1>7. CASE Tick
  <2>1. /\ now' \in Time
        /\ UNCHANGED <<obs, failures, incidents, history, buckets, behind, events, saved, newest>>
    BY <1>7, StoreAssumption DEF Tick, tables, Time, HealthInv, TypeOK, StoreAssumption
  <2>2. HealthInv'
    BY <2>1 DEF HealthInv, TypeOK, RowsGood, RowsBounded
  <2>3. Advances
    BY <2>1, SameKeeps DEF Advances, KeepsResolved
  <2> QED BY <2>2, <2>3
<1>8. CASE RollBack
  BY <1>1, <1>8 DEF RollBack
<1> QED BY <1>1, <1>2, <1>3, <1>4, <1>5, <1>6, <1>7, <1>8 DEF Next

LEMMA HealthAlways == Spec => []HealthInv
<1>1. HealthInv /\ [Next]_vars => HealthInv'
  BY HealthStep
<1> QED BY HealthInit, <1>1, PTL DEF Spec

-----------------------------------------------------------------------------
(* Theorems *)

\* The tables, the clock and the history always have their types: in particular every
\* id handed out is positive and every resolution time is one of the clock's.
THEOREM TypeCorrect == Spec => []TypeOK
<1>1. HealthInv => TypeOK
  BY DEF HealthInv
<1> QED BY HealthAlways, <1>1, PTL

\* record opens an incident only when its UPDATE found none, so an account never has two.
THEOREM OneOpen == Spec => []OneOpenIncident
<1>1. HealthInv => OneOpenIncident
  <2> SUFFICES ASSUME HealthInv, NEW a \in Account PROVE Cardinality(Open(incidents, a)) <= 1
    BY DEF OneOpenIncident
  <2>1. ASSUME NEW i \in Open(incidents, a), NEW j \in Open(incidents, a) PROVE i = j
    <3>1. i \in incidents /\ j \in incidents /\ i.auth = j.auth /\ i.resolved = Null /\ j.resolved = Null
      BY DEF Open
    <3>2. i.id \in Nat /\ j.id \in Nat
      BY <3>1, IncidentTypes DEF HealthInv, IncidentsGood
    <3>3. ~(i.id < j.id) /\ ~(j.id < i.id)
      BY <3>1 DEF HealthInv, IncidentsGood, InOrder
    <3>4. i.id = j.id
      BY <3>2, <3>3
    <3> QED BY <3>1, <3>4 DEF HealthInv, IncidentsGood, Numbered
  <2>2. CASE Open(incidents, a) = {}
    BY <2>2, FS_EmptySet
  <2>3. CASE Open(incidents, a) # {}
    <3>1. PICK i \in Open(incidents, a) : TRUE
      BY <2>3
    <3>2. Open(incidents, a) = {i}
      BY <2>1, <3>1
    <3> QED BY <3>2, FS_Singleton
  <2> QED BY <2>2, <2>3
<1> QED BY HealthAlways, <1>1, PTL

\* The incidents of an account do not overlap and follow their ids, whatever was pruned
\* in between and however often an id was reused.
THEOREM OrderedIncidents == Spec => []IncidentsInOrder
<1>1. HealthInv => IncidentsInOrder
  BY DEF HealthInv, IncidentsGood, InOrder, IncidentsInOrder
<1> QED BY HealthAlways, <1>1, PTL

\* An open incident has the class of the account's newest event, which is a failure.
THEOREM CurrentIncident == Spec => []OpenIncidentIsCurrent
<1>1. HealthInv => OpenIncidentIsCurrent
  BY DEF HealthInv, IncidentsGood, Current, OpenIncidentIsCurrent
<1> QED BY HealthAlways, <1>1, PTL

\* Whatever the order of arrival, an account reads as failing exactly when its newest
\* request failed.
THEOREM StateFollows == Spec => []StateFollowsNewest
<1>1. HealthInv => StateFollowsNewest
  <2> SUFFICES ASSUME HealthInv, NEW a \in Account
               PROVE  /\ obs[a].event = newest[a].at
                      /\ Cardinality(newest[a].outcomes) = 1 =>
                           (Unresolved(obs[a]) <=> "failure" \in newest[a].outcomes)
    BY DEF StateFollowsNewest
  <2>1. RowGood(obs[a], newest[a])
    BY DEF HealthInv, RowsGood
  <2>2. /\ newest[a].outcomes \subseteq Outcome /\ newest[a].at \in Nat
        /\ obs[a].event \in Nat /\ obs[a].success \in Nat /\ obs[a].failure \in Nat
    BY DEF HealthInv, TypeOK, Observation
  <2>3. ASSUME Cardinality(newest[a].outcomes) = 1
        PROVE  Unresolved(obs[a]) <=> "failure" \in newest[a].outcomes
    <3>1. IsFiniteSet(newest[a].outcomes)
      <4>1. IsFiniteSet({"success"}) /\ IsFiniteSet({"success"} \cup {"failure"})
        BY FS_Singleton, FS_AddElement
      <4>2. newest[a].outcomes \subseteq {"success"} \cup {"failure"}
        BY <2>2 DEF Outcome
      <4> QED BY <4>1, <4>2, FS_Subset
    <3>2. PICK x : newest[a].outcomes = {x}
      BY <2>3, <3>1, FS_Singleton
    <3>3. x = "success" \/ x = "failure"
      BY <2>2, <3>2 DEF Outcome
    <3>4. CASE x = "success"
      <4>1. "success" \in newest[a].outcomes /\ "failure" \notin newest[a].outcomes
        BY <3>2, <3>4
      <4> QED BY <2>1, <2>2, <4>1 DEF RowGood, Unresolved, Null
    <3>5. CASE x = "failure"
      <4>1. "failure" \in newest[a].outcomes /\ "success" \notin newest[a].outcomes
        BY <3>2, <3>5
      <4> QED BY <2>1, <2>2, <4>1 DEF RowGood, Unresolved, Null
    <3> QED BY <3>3, <3>4, <3>5
  <2> QED BY <2>1, <2>3 DEF RowGood
<1> QED BY HealthAlways, <1>1, PTL

\* A success that is the newest event leaves no retry deadline and no open incident.
THEOREM SuccessClears == Spec => []SuccessClearsFailure
<1>1. HealthInv => SuccessClearsFailure
  <2> SUFFICES ASSUME HealthInv, NEW a \in Account, obs[a].count = 0
               PROVE  obs[a].retry = Null /\ Open(incidents, a) = {}
    BY DEF SuccessClearsFailure
  <2>1. obs[a].retry = Null
    BY DEF HealthInv, RowsGood, RowGood
  <2>2. Open(incidents, a) = {}
    BY DEF HealthInv, IncidentsGood, Current, Open
  <2> QED BY <2>1, <2>2
<1> QED BY HealthAlways, <1>1, PTL

\* Since the last complete pruning the tables grew by one row per write at most, so
\* failing DELETE statements never cost more than they were many.
THEOREM BoundedRows == Spec => []RowsBounded
<1>1. HealthInv => RowsBounded
  BY DEF HealthInv
<1> QED BY HealthAlways, <1>1, PTL

\* No event takes an account back to an earlier one, and no step rewrites a resolved
\* incident, though its id may be given to a new one once it is gone.
THEOREM Advancing == Spec => ObservationAdvances
<1>1. HealthInv /\ [Next]_vars =>
        [/\ \A a \in Account : obs'[a] # obs[a] => obs'[a].event >= obs[a].event
         /\ \A i \in incidents, j \in incidents' :
              i.id = j.id /\ i.auth = j.auth /\ i.opened = j.opened /\ i.resolved # Null => i = j]_vars
  BY HealthStep DEF Advances
<1> QED BY HealthAlways, <1>1, PTL DEF Spec, ObservationAdvances
=============================================================================
