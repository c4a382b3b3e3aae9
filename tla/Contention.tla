----------------------------- MODULE Contention -----------------------------
(***************************************************************************)
(* The claim table of polis-world/src/contention.rs as operators on a set  *)
(* of write claims.  A claim says that a thread means to write a logical   *)
(* path; the same file in two checkouts is one path, so claims of two      *)
(* agents on different branches collide here.  Who inside the thread made  *)
(* the claim is left out, as is the position of a claim in its vector: a   *)
(* hit is the unordered pair of its two claims.                            *)
(***************************************************************************)
EXTENDS Integers, FiniteSets

CONSTANTS
  Thread,     \* the main agents
  Path,       \* logical paths
  Worktree,   \* checkouts of the repository
  Branch,     \* the names a record can give a branch, Detached among them
  Detached,   \* the branch name of a detached head: "HEAD"
  NoBranch,   \* the claim names no branch
  TTL         \* how long a claim stays live

ASSUME DetachedIsReported == Detached \in Branch
ASSUME NoBranchIsNoName == NoBranch \notin Branch
ASSUME TTLAssumption == TTL \in Nat

\* A line range is a pair <<first, last>>; the empty tuple is "not known".
NoLines == <<>>

Claims == [thread : Thread, path : Path, worktree : Worktree,
           branch : Branch \cup {NoBranch}, lines : {NoLines} \cup (Nat \X Nat), at : Int]

NamedBranch(raw) == IF raw = Detached THEN NoBranch ELSE raw

NewClaim(t, p, w, raw, lines, at) ==
  [thread |-> t, path |-> p, worktree |-> w, branch |-> NamedBranch(raw), lines |-> lines, at |-> at]

\* A mutant: the age of a claim is taken the wrong way round.
LiveBackwards(claims, when) == {c \in claims : c.at - when <= TTL}

Live(claims, when) == {c \in claims : when - c.at <= TTL}

ClaimsOn(claims, p) == {c \in claims : c.path = p}

\* A mutant: the table does not look for the thread's own slot.
RegisterAnother(claims, claim) ==
  {c \in claims : c.path # claim.path} \cup {claim} \cup
  Live(ClaimsOn(claims, claim.path), claim.at)

\* ClaimTable::claim drops the expired claims of that one path, as of the new
\* claim's own instant, and replaces the claim the thread already holds there.
Register(claims, claim) ==
  {c \in claims : c.path # claim.path} \cup {claim} \cup
  {c \in Live(ClaimsOn(claims, claim.path), claim.at) : c.thread # claim.thread}

Release(claims, t, p) == {c \in claims : ~(c.thread = t /\ c.path = p)}

\* A mutant: a save frees the path whoever holds it.
ReleaseAll(claims, p) == {c \in claims : c.path # p}

\* A file system event frees the claim of a path only one thread holds.
ReleaseSole(claims, p) ==
  IF Cardinality(ClaimsOn(claims, p)) = 1 THEN {c \in claims : c.path # p} ELSE claims

-----------------------------------------------------------------------------
SameBranch(a, b) == a.worktree = b.worktree /\ a.branch = b.branch

Overlap(a, b) == /\ a.lines # NoLines /\ b.lines # NoLines
                 /\ a.lines[1] <= b.lines[2] /\ b.lines[1] <= a.lines[2]

\* Only writes are ever stored, so the Low tier of a read probe is not here.
Tier(a, b) == IF ~SameBranch(a, b) THEN "Medium"
              ELSE IF Overlap(a, b) THEN "Critical" ELSE "High"

Contend(a, b) == a.path = b.path /\ a.thread # b.thread

Hits(claims, when) ==
  LET live == Live(claims, when) IN
  {[pair |-> {x[1], x[2]}, tier |-> Tier(x[1], x[2])] :
      x \in {y \in live \X live : Contend(y[1], y[2])}}
=============================================================================
