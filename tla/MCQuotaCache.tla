---------------------------- MODULE MCQuotaCache ----------------------------
(* Small instances of QuotaCache for TLC. *)
EXTENDS QuotaCache, TLC

MCInitConfig == [ttl |-> 1, maxConcurrency |-> 1, includeDisabled |-> TRUE]
MCConfig == {MCInitConfig, [ttl |-> 2, maxConcurrency |-> 2, includeDisabled |-> FALSE]}

Symmetric == Permutations(Caller) \cup Permutations(Account \ Disabled)
=============================================================================
