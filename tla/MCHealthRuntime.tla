--------------------------- MODULE MCHealthRuntime ---------------------------
(* Small instances of HealthRuntime for TLC. *)
EXTENDS HealthRuntime, TLC

MCInitConfig == [database |-> FALSE, queueSize |-> 1]
MCConfig == {MCInitConfig, [database |-> TRUE, queueSize |-> 2]}

Symmetric == Permutations(Host) \cup Permutations(Reader)
=============================================================================
