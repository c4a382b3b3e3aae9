----------------------------- MODULE Territory ------------------------------
(***************************************************************************)
(* The territory of one thread (polis-world/src/territory.rs): weighted,   *)
(* decaying evidence of the directories it works in, the district that the *)
(* evidence agrees on, and the claim that follows it with hysteresis.      *)
(*                                                                         *)
(* A directory is the sequence of its components.  A unit of time is one   *)
(* half-life and a unit of weight the least a kernel may have, so that a   *)
(* weight that is a power of two decays exactly.  Kernels, bandwidth and   *)
(* the centre of mass are geometry and left out: no claim depends on them. *)
(***************************************************************************)
EXTENDS Integers, Sequences, SequencesExt

CONSTANTS
  Place,          \* the directories that observations name (claim_of)
  Rank,           \* their order, which breaks ties between equal weights
  Confirmations,  \* DRIFT_CONFIRMATIONS
  MinDepth,       \* MIN_CLAIM_DEPTH
  MinEvidence,    \* MIN_OBSERVATIONS
  Recent          \* OBSERVATION_WINDOW

ASSUME TerritoryAssumption ==
  /\ Place \subseteq Seq(STRING)
  /\ Rank \in [Place -> Nat]
  /\ Confirmations \in Nat /\ MinDepth \in Nat
  /\ MinEvidence \in Nat /\ MinEvidence > 1   \* one observation agrees with nothing
  /\ Recent \in Nat \ {0}

NoClaim == <<"no claim">>
Never == -1

\* Territory::default.
Nowhere == [evidence |-> <<>>, claim |-> NoClaim, outside_streak |-> 0, last_decay |-> Never]

-----------------------------------------------------------------------------
(* What the evidence agrees on. *)

Mass(evidence, members) == FoldSet(LAMBDA i, sum : sum + evidence[i].weight, 0, members)

\* The order of the trim: by weight, then by path, then as they came.
Lighter(evidence, i, j) ==
  LET a == evidence[i]  b == evidence[j]
  IN  \/ a.weight < b.weight
      \/ a.weight = b.weight /\ Rank[a.path] < Rank[b.path]
      \/ a.weight = b.weight /\ a.path = b.path /\ i < j

\* A fifth of the evidence, by count, but never below what can agree.
Trimmed(n) == LET fifth == n \div 5
              IN  IF fifth <= n - MinEvidence THEN fifth ELSE n - MinEvidence

Retained(evidence) ==
  {i \in DOMAIN evidence :
     Cardinality({j \in DOMAIN evidence : Lighter(evidence, j, i)}) >= Trimmed(Len(evidence))}

\* Territory::convergence: the ancestor of what is retained, if it is deep enough
\* and holds the mass of the whole.
Converged(evidence) ==
  IF Len(evidence) < MinEvidence THEN NoClaim
  ELSE LET ancestor == LongestCommonPrefix({evidence[i].path : i \in Retained(evidence)})
           inside   == {i \in DOMAIN evidence : IsPrefix(ancestor, evidence[i].path)}
       IN  IF /\ Len(ancestor) >= MinDepth
              /\ 10 * Mass(evidence, inside) > 7 * Mass(evidence, DOMAIN evidence)
           THEN ancestor ELSE NoClaim

-----------------------------------------------------------------------------
(* The operations. *)

\* A weight after so many half-lives.
HalfLives(weight, span) ==
  LET left[k \in 0..span] == IF k = 0 THEN weight ELSE left[k - 1] \div 2
  IN  left[span]

\* Faded evidence joins what is left of what came before it, unless it is below the floor.
Joins(left, e, span) ==
  LET weight == HalfLives(e.weight, span)
  IN  IF weight > 0 THEN Append(left, [e EXCEPT !.weight = weight]) ELSE left

Fading(evidence, span) ==
  LET left[i \in 0..Len(evidence)] == IF i = 0 THEN <<>> ELSE Joins(left[i - 1], evidence[i], span)
  IN  left[Len(evidence)]

\* Territory::decay.  With nothing left to claim the thread is unplaced again.
Decay(t, at) ==
  CASE t.last_decay = Never -> [t EXCEPT !.last_decay = at]
    [] t.last_decay # Never /\ at <= t.last_decay -> t
    [] OTHER ->
         LET left == Fading(t.evidence, at - t.last_decay)
         IN  IF left = <<>> THEN [Nowhere EXCEPT !.last_decay = at]
             ELSE [t EXCEPT !.evidence = left, !.last_decay = at]

\* One directory holds the other.
SameDistrict(a, b) == IsPrefix(a, b) \/ IsPrefix(b, a)

\* Territory::refresh_claim: wider or narrower at once, elsewhere when confirmed.
RefreshClaim(t) ==
  LET candidate == Converged(t.evidence)
      moves == \/ SameDistrict(candidate, t.claim)
               \/ t.outside_streak >= Confirmations
  IN  CASE candidate \in {NoClaim, t.claim} -> t
        [] candidate \notin {NoClaim, t.claim} /\ t.claim = NoClaim -> [t EXCEPT !.claim = candidate]
        [] candidate \notin {NoClaim, t.claim} /\ t.claim # NoClaim ->
             IF moves THEN [t EXCEPT !.claim = candidate, !.outside_streak = 0] ELSE t

\* The streak is kept against the claim as it stands before the observation.
Streak(t, path) ==
  CASE t.claim = NoClaim -> t.outside_streak
    [] t.claim # NoClaim /\ IsPrefix(t.claim, path) -> 0
    [] t.claim # NoClaim /\ ~IsPrefix(t.claim, path) -> t.outside_streak + 1

\* Territory::observe.  A tool without a path signal has no weight.
Observe(t, path, weight, at) ==
  IF weight = 0 THEN t
  ELSE LET faded == Decay(t, at)
           grown == Append(faded.evidence, [path |-> path, weight |-> weight])
           window == IF Len(grown) > Recent THEN Tail(grown) ELSE grown
       IN  RefreshClaim([faded EXCEPT !.evidence = window,
                                      !.outside_streak = Streak(faded, path)])
=============================================================================
