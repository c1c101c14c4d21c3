---------------------------- MODULE MCModelCatalog ---------------------------
(* Two credentials, one with a base URL of its own, two provider URLs, and a *)
(* registry with a mirror, whose second edition has the tag of the           *)
(* registry's but other levels.                                              *)
EXTENDS ModelCatalog, TLC

CONSTANTS a1, a2, b1, b2, u1, u2

MCOwnBase == a1 :> NoBase @@ a2 :> b2
MCInitConfig == [base |-> b1, pinned |-> FALSE, metadata |-> u1]
MCConfig ==
  {MCInitConfig, [base |-> b2, pinned |-> FALSE, metadata |-> Off],
   [base |-> b1, pinned |-> TRUE, metadata |-> u2]}

MCEditions ==
  u1 :> <<[etag |-> 1, levels |-> 1], [etag |-> 2, levels |-> 2]>> @@
  u2 :> <<[etag |-> 1, levels |-> 1], [etag |-> 2, levels |-> 3]>>
=============================================================================
