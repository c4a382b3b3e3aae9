---------------------------- MODULE MCBusReport ----------------------------
(* The bus on a small instance, with the counters line read beside it.      *)
EXTENDS BusReport, TLC

CONSTANTS p1, p2

TwoProducers == {p1, p2}
Symmetric    == Permutations(Producers)
=============================================================================
