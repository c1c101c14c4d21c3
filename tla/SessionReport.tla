---------------------------- MODULE SessionReport ---------------------------
(* What the session endpoints make of the captured rows (sessioncache/       *)
(* store.go, detail.go): the hit or miss of each request, decided when it is *)
(* read from the rows that retention has left.  A tick is half a second; how *)
(* rows come to be stored is SessionCapture's subject.                       *)
EXTENDS Integers, FiniteSets

CONSTANTS
  Session,      \* session ids
  Tokens,       \* cache tokens that requests read and create
  RowLimit, RowAge,   \* retention-max-rows and retention
  MaxTick,      \* bound: the clock
  MaxStored     \* bound: rows stored

ASSUME SessionReportAssumption ==
  /\ Tokens \subseteq [read : Nat, created : Nat] /\ RowLimit \in Nat \ {0} /\ RowAge \in Nat
  /\ MaxTick \in Nat \ {0} /\ MaxStored \in Nat

VARIABLES
  tick,         \* time.Now
  stored,       \* table requests; a row's number orders it as its id does
  inserted      \* rows stored so far

sessionVars == <<tick, stored, inserted>>

SessionInit == tick = 1 /\ stored = {} /\ inserted = 0

\* Rows are stamped when their request ends and may be inserted a little later.
StoreRow ==
  /\ inserted < MaxStored
  /\ inserted' = inserted + 1
  /\ \E s \in Session, at \in {tick - 1, tick}, tokens \in Tokens :
       stored' = stored \cup {[number |-> inserted, session |-> s, at |-> at,
                                read |-> tokens.read, created |-> tokens.created]}
  /\ UNCHANGED tick

TextKey(t) == IF t % 2 = 0 THEN t + 1 ELSE t - 1
AsText(t, cutoff) == TextKey(t) >= TextKey(cutoff)                        \* (mutant)
NotBefore(t, cutoff) == t >= cutoff

Later(rows, r) == {q \in rows : q.number > r.number}
Earlier(rows, r) == {q \in rows : q.number < r.number}

\* prune: ORDER BY id DESC LIMIT RowLimit, of the rows that are young enough; julianday
\* compares the instants and not their text.
PruneRows ==
  /\ LET young == {r \in stored : NotBefore(r.at, tick - RowAge)}
     IN  stored' = {r \in young : Cardinality(Later(young, r)) < RowLimit}
  /\ UNCHANGED <<tick, inserted>>

NextTick == tick < MaxTick /\ tick' = tick + 1 /\ UNCHANGED <<stored, inserted>>

SessionNext == StoreRow \/ PruneRows \/ NextTick

SessionSpec == SessionInit /\ [][SessionNext]_sessionVars

-----------------------------------------------------------------------------
(* detail.go *)

SessionRequests(s) == {r \in stored : r.session = s}

Previous(rows, r) ==
  CHOOSE p \in Earlier(rows, r) : \A q \in Earlier(rows, r) : q.number <= p.number

\* classifyRows: what the request read against what the one before it left in the cache.
Classification(rows, r) ==
  IF Earlier(rows, r) = {} THEN "neutral"
  ELSE IF r.read < Previous(rows, r).read + Previous(rows, r).created THEN "miss" ELSE "hit"

\* Each request's class by its row's number.
Classes(s) ==
  {[number |-> r.number, class |-> Classification(SessionRequests(s), r)] :
     r \in SessionRequests(s)}

-----------------------------------------------------------------------------
(* Properties *)

InOrder == \A q, r \in stored : q.number < r.number => q.at <= r.at

\* Retention cuts the beginning of a session and never a request out of its middle:
\* a request that was a hit or a miss is still the same after pruning, or it is the
\* first one left and neutral.
PruningOnlyNeutralises ==
  [][InOrder /\ tick' = tick /\ inserted' = inserted =>
       \A s \in Session : \A c \in Classes(s)' :
         c \in Classes(s) \/ c.class = "neutral"]_sessionVars
=============================================================================
