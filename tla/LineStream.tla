----------------------------- MODULE LineStream -----------------------------
(* What a streamed answer promises the client, whatever pieces its text      *)
(* arrives in: the events are delivered in their order, none twice and none  *)
(* invented, and a stream that ends without an error has delivered them all. *)
EXTENDS Naturals, Sequences

VARIABLES
  sent,      \* events the provider has sent, numbered
  out,       \* events the client has received
  verdict    \* "open", "ok" or "error"

promised == <<sent, out, verdict>>

Init == sent = 0 /\ out = <<>> /\ verdict = "open"

Send ==
  /\ verdict = "open"
  /\ sent' \in Nat /\ sent' >= sent
  /\ UNCHANGED <<out, verdict>>

Deliver ==
  /\ verdict = "open" /\ Len(out) < sent
  /\ out' = Append(out, Len(out) + 1)
  /\ UNCHANGED <<sent, verdict>>

End ==
  /\ verdict = "open"
  /\ verdict' = "ok" /\ Len(out) = sent
  /\ UNCHANGED <<sent, out>>

Fail ==
  /\ verdict = "open"
  /\ verdict' = "error"
  /\ UNCHANGED <<sent, out>>

Next == Send \/ Deliver \/ End \/ Fail

Spec == Init /\ [][Next]_promised
=============================================================================
