------------------------------ MODULE MCCorpus ------------------------------
(* Two processes that share one corpus file. *)
EXTENDS Corpus, TLC

Symmetric == Permutations(Instance) \cup Permutations(Session)
=============================================================================
