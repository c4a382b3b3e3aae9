----------------------------- MODULE MCEventBus -----------------------------
(* The event bus on small instances. *)
EXTENDS EventBus, TLC

CONSTANTS p1, p2

TwoProducers == {p1, p2}

Symmetric == Permutations(Producers)
=============================================================================
