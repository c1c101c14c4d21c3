---------------------------- MODULE QuotaService ----------------------------
(***************************************************************************)
(* What the quota endpoint promises its callers (docs/api.md), without     *)
(* locks, waiting, accounts and their fetches: whoever asks is given the   *)
(* result of a scan of its own, or the last one while it is younger than   *)
(* the TTL in force, or an error; there is one scan at a time.             *)
(***************************************************************************)
EXTENDS Naturals

CONSTANTS
  Caller,
  Ttl,        \* values of cache-ttl
  InitTtl

VARIABLES
  clock,
  ttl,
  open,       \* the plugin has not been shut down
  asking,     \* callers that have not been answered
  insisting,  \* those of them that are not content with the cache
  scanning,   \* the caller that scans, if any
  scanned,    \* the time its scan ended, if it has
  published,  \* when the last scan was made, and whether it may be served
  answer      \* the last answer, and the time of the last good one

vars == <<clock, ttl, open, asking, insisting, scanning, scanned, published, answer>>

Init ==
  /\ clock = 0 /\ ttl = InitTtl /\ open = TRUE
  /\ asking = {} /\ insisting = {} /\ scanning = {} /\ scanned = {}
  /\ published = [at |-> 0, valid |-> FALSE]
  /\ answer = [kind |-> "none", at |-> 0]

Fresh == published.valid /\ clock - published.at < ttl

\* Somebody asks, insisting (refresh=true) or not.
Ask(c) ==
  /\ c \notin asking
  /\ asking' = asking \cup {c}
  /\ insisting' \in {insisting, insisting \cup {c}}
  /\ UNCHANGED <<clock, ttl, open, scanning, scanned, published, answer>>

Answer(c, kind, at) ==
  /\ asking' = asking \ {c}
  /\ answer' = [kind |-> kind, at |-> at]

Refuse(c) ==
  /\ c \in asking \ scanning
  /\ ~open
  /\ Answer(c, "canceled", answer.at)
  /\ insisting' = insisting \ {c}
  /\ UNCHANGED <<clock, ttl, open, scanning, scanned, published>>

ServeCached(c) ==
  /\ c \in asking \ (scanning \cup insisting)
  /\ open /\ Fresh
  /\ Answer(c, "cached", published.at)
  /\ UNCHANGED <<clock, ttl, open, insisting, scanning, scanned, published>>

\* Only who insists scans while the cache is fresh.
Begin(c) ==
  /\ c \in asking /\ scanning = {}
  /\ open
  /\ c \in insisting \/ ~Fresh
  /\ scanning' = {c}
  /\ UNCHANGED <<clock, ttl, open, asking, insisting, scanned, published, answer>>

EndScan ==
  /\ scanning # {} /\ scanned = {}
  /\ scanned' = {clock}
  /\ UNCHANGED <<clock, ttl, open, asking, insisting, scanning, published, answer>>

\* Those who waited for the scan are content with what is cached now.
Contented(c) == insisting' \in SUBSET (insisting \ {c})

Publish(c) ==
  /\ c \in scanning
  /\ \E at \in scanned :
       published' = [at |-> at, valid |-> TRUE] /\ Answer(c, "scanned", at)
  /\ scanning' = {} /\ scanned' = {}
  /\ Contented(c)
  /\ UNCHANGED <<clock, ttl, open>>

Fail(c) ==
  /\ c \in scanning /\ scanned = {}
  /\ scanning' = {}
  /\ Answer(c, "failed", answer.at)
  /\ Contented(c)
  /\ UNCHANGED <<clock, ttl, open, scanned, published>>

Reconfigure(t) ==
  /\ ttl' = t /\ open' = TRUE
  /\ published' = [at |-> published.at, valid |-> FALSE]
  /\ UNCHANGED <<clock, asking, insisting, scanning, scanned, answer>>

\* Who waited is refused, whether or not it insists.
Close ==
  /\ open' = FALSE
  /\ insisting' \in SUBSET insisting
  /\ UNCHANGED <<clock, ttl, asking, scanning, scanned, published, answer>>

Tick ==
  /\ clock' = clock + 1
  /\ UNCHANGED <<ttl, open, asking, insisting, scanning, scanned, published, answer>>

Next ==
  \/ \E c \in Caller :
       Ask(c) \/ Refuse(c) \/ ServeCached(c) \/ Begin(c) \/ Publish(c) \/ Fail(c)
  \/ EndScan
  \/ \E t \in Ttl : Reconfigure(t)
  \/ Close \/ Tick

Spec == Init /\ [][Next]_vars
=============================================================================
