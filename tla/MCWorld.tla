------------------------------ MODULE MCWorld -------------------------------
(* Small instances of World for TLC.  A unit of time is ten seconds.         *)
EXTENDS World, TLC

MCRanges == {<<1, 4>>, <<3, 6>>}
OneRange == {<<1, 4>>}
NoRanges == {}

(* No operation on claims, links or calls in flight reads a status, a mark   *)
(* or a file: a run about claims does not tell states apart by these.        *)
ClaimsView == <<now, claims, pending, links, patch>>

(* No operation reads the history variables finished and patch: a run that   *)
(* states nothing about them does not tell states apart by them.             *)
MarksView == <<now, status, active, wrote, files, claims, pending, pins, dones, links>>

Interchangeable == Permutations(Thread) \cup Permutations(Call) \cup Permutations(Path)
=============================================================================
