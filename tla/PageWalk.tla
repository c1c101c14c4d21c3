------------------------------ MODULE PageWalk ------------------------------
(* Reading a long list page by page (runtime.go, health_runtime.go,          *)
(* health_store.go).  Quota, accounts and health are paged by an index into  *)
(* the filtered list; incidents and history by the smallest row id that was  *)
(* returned.  Between two pages the list may be replaced by a refresh, and   *)
(* rows come and go in the tables; an id may come back for another row.      *)
EXTENDS Naturals, FiniteSets

CONSTANTS
  MaxRows,      \* bound: rows ever inserted, and accounts
  PageLimits    \* limits that readers ask for

ASSUME PageWalkAssumption == MaxRows \in Nat /\ PageLimits \subseteq Nat \ {0}

VARIABLES
  table,        \* rows of incidents or of history: their id, their number, their match
  born,         \* rows inserted so far
  list,         \* the accounts of the snapshot that match the filter, by their rank
  reader,       \* a walk: its kind, limit, cursor and whether it has ended
  read,         \* rows or accounts it has returned
  again,        \* those it has returned more than once (history)
  stayed        \* those that were there to be read since the walk began (history)

pageVars == <<table, born, list, reader, read, again, stayed>>

NoReader == [kind |-> "none", limit |-> 0, cursor |-> 0, done |-> TRUE, moved |-> FALSE]

PageInit ==
  /\ table = {} /\ born = 0
  /\ list = {}
  /\ reader = NoReader
  /\ read = {} /\ again = {} /\ stayed = {}

-----------------------------------------------------------------------------
(* The world *)

FreeId == CHOOSE n \in 1..(MaxRows + 1) :
            (\A r \in table : r.id < n) /\ (n = 1 \/ \E r \in table : r.id = n - 1)

InsertRow ==
  /\ born < MaxRows
  /\ born' = born + 1
  /\ \E match \in BOOLEAN :
       table' = table \cup {[id |-> FreeId, number |-> born, match |-> match]}
  /\ UNCHANGED <<list, reader, read, again, stayed>>

\* Retention and row limits, of which a row's times decide: any row may go.
PruneRow ==
  /\ \E r \in table :
       /\ table' = table \ {r}
       /\ stayed' = stayed \ {r.number}
  /\ UNCHANGED <<born, list, reader, read, again>>

\* An open incident is updated and enters or leaves the filter.
UpdateRow ==
  /\ \E r \in table :
       /\ table' = (table \ {r}) \cup {[r EXCEPT !.match = ~r.match]}
       /\ stayed' = stayed \ {r.number}
  /\ UNCHANGED <<born, list, reader, read, again>>

\* A new snapshot, in the same order: accounts move up and down as others leave
\* and come.
RefreshList ==
  /\ list' \in SUBSET (1..MaxRows) \ {list}
  /\ reader' = [reader EXCEPT !.moved = reader.kind = "indices"]
  /\ UNCHANGED <<table, born, read, again, stayed>>

-----------------------------------------------------------------------------
(* Pages *)

StartWalk(kind, limit) ==
  /\ reader.done
  /\ reader' = [kind |-> kind, limit |-> limit, cursor |-> 0, done |-> FALSE, moved |-> FALSE]
  /\ read' = {} /\ again' = {}
  /\ stayed' = IF kind = "ids" THEN {r.number : r \in {q \in table : q.match}} ELSE {}
  /\ UNCHANGED <<table, born, list>>

HandOut(page) ==
  /\ read' = read \cup page
  /\ again' = again \cup (read \cap page)

\* WHERE id < before
RowsBefore(before) == {r \in table : r.match /\ (before = 0 \/ r.id < before)}

\* ORDER BY id DESC LIMIT limit: the rows that fewer than that many precede.
FirstRows(rows, limit) == {r \in rows : Cardinality({q \in rows : q.id > r.id}) < limit}

\* The id of the page's last row, or of the one after it.
Smallest(ids) == CHOOSE n \in ids : \A m \in ids : n <= m
FirstOfNext(rows, limit) == Smallest({r.id : r \in FirstRows(rows, limit + 1)})   \* (mutant)
NextCursor(rows, limit) == Smallest({r.id : r \in FirstRows(rows, limit)})

\* One row more than the limit is read, to know whether there is a next page.
RowPage ==
  /\ reader.kind = "ids" /\ ~reader.done
  /\ LET rows == RowsBefore(reader.cursor)
         more == Cardinality(rows) > reader.limit
     IN  /\ HandOut({r.number : r \in FirstRows(rows, reader.limit)})
         /\ reader' = IF more THEN [reader EXCEPT !.cursor = NextCursor(rows, reader.limit)]
                      ELSE [reader EXCEPT !.done = TRUE]
  /\ UNCHANGED <<table, born, list, stayed>>

AtMost(n, bound) == IF n > bound THEN bound ELSE n

\* The index of an account in the list.
Index(a) == Cardinality({b \in list : b < a})

\* A cursor past the end gives an empty page without a next one.
IndexPage ==
  /\ reader.kind = "indices" /\ ~reader.done
  /\ LET start == AtMost(reader.cursor, Cardinality(list))
         end == AtMost(start + reader.limit, Cardinality(list))
     IN  /\ HandOut({a \in list : start <= Index(a) /\ Index(a) < end})
         /\ reader' = IF end < Cardinality(list) THEN [reader EXCEPT !.cursor = end]
                      ELSE [reader EXCEPT !.done = TRUE]
  /\ UNCHANGED <<table, born, list, stayed>>

PageNext ==
  \/ InsertRow \/ PruneRow \/ UpdateRow \/ RefreshList
  \/ \E kind \in {"ids", "indices"}, limit \in PageLimits : StartWalk(kind, limit)
  \/ RowPage \/ IndexPage

PageSpec == PageInit /\ [][PageNext]_pageVars

-----------------------------------------------------------------------------
(* Properties *)

\* A walk over incidents or history returns no row twice, and every matching row
\* that was there from its first page to its last, whatever is inserted and pruned
\* between the pages.  A walk over a list does the same for the accounts, unless the
\* list was replaced meanwhile.
WalkIsComplete ==
  /\ reader.kind = "ids" =>
       again = {} /\ (reader.done => stayed \subseteq read)
  /\ reader.kind = "indices" /\ ~reader.moved =>
       again = {} /\ (reader.done => read = list)
=============================================================================
