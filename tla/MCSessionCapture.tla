-------------------------- MODULE MCSessionCapture --------------------------
(* Small instances of SessionCapture for TLC: all requests in one session, so *)
(* that their rows meet.                                                      *)
EXTENDS SessionCapture, TLC

CONSTANT s1
MCSessionOf == [r \in Request |-> s1]
MCInitConfig == [retention |-> 1, maxRows |-> 2, ttl |-> 1]
MCConfig == {MCInitConfig, [retention |-> 1, maxRows |-> 1, ttl |-> 2]}

Symmetric == Permutations(Request)
=============================================================================
