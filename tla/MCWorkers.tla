----------------------------- MODULE MCWorkers ------------------------------
(* Two threads, two subagents of one workflow run and a plain subagent.      *)
EXTENDS Workers, TLC
CONSTANTS a, b, w1, w2, w3, r1

MCHome == w1 :> a @@ w2 :> a @@ w3 :> b
MCRunOf == w1 :> r1 @@ w2 :> r1 @@ w3 :> NoRun
=============================================================================
