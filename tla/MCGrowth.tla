------------------------------ MODULE MCGrowth ------------------------------
(* One repository, two files, Polis instances that come and go. *)
EXTENDS Growth, TLC

CONSTANTS a, b, i1, i2

Symmetric == Permutations(Path) \cup Permutations(Process)
=============================================================================
