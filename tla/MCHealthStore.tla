---------------------------- MODULE MCHealthStore ----------------------------
(* A small instance of HealthStore for TLC: tables of one and two rows, so that *)
(* retention and row limits both bite.                                          *)
EXTENDS HealthStore, TLC

MCConfig ==
  {[incidentRetention |-> 1, incidentMaxRows |-> 2, historyRetention |-> 1, historyMaxRows |-> 1]}

Symmetric == Permutations(Account) \cup Permutations(Class)
=============================================================================
