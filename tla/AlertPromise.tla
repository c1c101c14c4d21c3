---------------------------- MODULE AlertPromise ----------------------------
(***************************************************************************)
(* What pool alerts promise the receiver of the webhook (README.md, "Pool  *)
(* alerts"), without queues, workers, restarts or failed requests: the     *)
(* plugin knows a level, may owe the receiver the event for it, and a debt *)
(* is settled only by that event having arrived last.                      *)
(***************************************************************************)
VARIABLES
  level,  \* the pool state last recorded
  owed,   \* the event for level still has to be sent
  told    \* the event the receiver got last

vars == <<level, owed, told>>

Levels == {"unknown", "healthy", "breach"}
Events == {"breach", "recovery"}

EventFor(l) == IF l = "breach" THEN "breach" ELSE "recovery"

TypeOK ==
  /\ level \in Levels
  /\ owed \in BOOLEAN
  /\ told \in Events \cup {"none"}

Init ==
  /\ level = "unknown"
  /\ owed = FALSE
  /\ told = "none"

\* A changed level is owed to the receiver; a first healthy level is not news.
Observe(l) ==
  /\ level' = l
  /\ owed' = IF l = level THEN owed ELSE "breach" \in {l, level}
  /\ UNCHANGED told

\* An event arrives: while something is owed it may be the wrong one, overtaken by
\* the pool; otherwise it repeats the event for the level.
Tell(e) ==
  /\ level # "unknown"
  /\ ~owed => e = EventFor(level)
  /\ told' = e
  /\ UNCHANGED <<level, owed>>

Settle ==
  /\ owed
  /\ told = EventFor(level)
  /\ owed' = FALSE
  /\ UNCHANGED <<level, told>>

Next ==
  \/ \E l \in {"healthy", "breach"} : Observe(l)
  \/ \E e \in Events : Tell(e)
  \/ Settle

Spec == Init /\ [][Next]_vars

-----------------------------------------------------------------------------
\* When nothing is owed the receiver's last event says what the pool is: breach,
\* or recovery, or nothing if it was never told of a breach.
ReceiverAgrees ==
  ~owed => \/ level = "breach" /\ told = "breach"
           \/ level = "healthy" /\ told # "breach"
           \/ level = "unknown" /\ told = "none"
=============================================================================
