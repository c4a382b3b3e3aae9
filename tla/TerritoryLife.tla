--------------------------- MODULE TerritoryLife ----------------------------
(***************************************************************************)
(* A territory over the life of its thread: observations, which may arrive *)
(* late, and the ticks of the world, in any order.                         *)
(***************************************************************************)
EXTENDS Territory

CONSTANTS
  Weight,   \* what an observation may weigh
  Instant   \* when it may be observed, and the world tick

VARIABLES
  territory,
  seen,    \* the directories observed, with a weight (history)
  since    \* how many when the present claim was made (history)

lifeVars == <<territory, seen, since>>

LifeInit == territory = Nowhere /\ seen = <<>> /\ since = 0

Keeping == since' = IF territory'.claim = territory.claim THEN since ELSE Len(seen')

Observes(path, weight, at) ==
  /\ territory' = Observe(territory, path, weight, at)
  /\ seen' = IF weight = 0 THEN seen ELSE Append(seen, path)
  /\ Keeping

Ticks(at) == territory' = Decay(territory, at) /\ UNCHANGED seen /\ Keeping

LifeNext == \E at \in Instant : Ticks(at) \/ \E path \in Place, weight \in Weight : Observes(path, weight, at)

LifeSpec == LifeInit /\ [][LifeNext]_lifeVars

-----------------------------------------------------------------------------
\* The claim has moved to a district apart from it, and what that takes.
Apart == /\ territory.claim # NoClaim /\ territory.claim' \notin {NoClaim, territory.claim}
         /\ ~SameDistrict(territory.claim, territory.claim')
SustainedOutside ==
  /\ Len(seen') >= since + Confirmations
  /\ \A i \in (Len(seen') - Confirmations + 1)..Len(seen') : ~IsPrefix(territory.claim, seen'[i])

\* "Move only on sustained evidence": a claim gives way to a district apart from it
\* only when the last Confirmations observations, all made under that claim, were
\* outside it; neither decay nor late observations shorten the wait (refresh_claim).
MovesOnSustainedEvidence == [][Apart => SustainedOutside]_lifeVars

\* A claim is deep enough to be a district, and a thread without a claim has no
\* streak: what it observed unplaced does not count against its first claim.
ClaimIsDistrict ==
  /\ territory.claim # NoClaim => Len(territory.claim) >= MinDepth
  /\ territory.claim = NoClaim => territory.outside_streak = 0
=============================================================================
