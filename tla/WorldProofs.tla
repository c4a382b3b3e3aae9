---------------------------- MODULE WorldProofs -----------------------------
(***************************************************************************)
(* Theorems about World for every set of threads, paths and calls and for  *)
(* all delays.  The claim table is treated first: a step of the world      *)
(* either registers one claim, whose lines are not known, or only removes  *)
(* claims, and then never both sides of a live collision.                  *)
(***************************************************************************)
EXTENDS World, TLAPS, FiniteSetTheorems

-----------------------------------------------------------------------------
\* Type correctness.

LEMMA EventsAreInstants ==
  ASSUME NEW at, Observed(at), now \in Instant
  PROVE  at \in Instant /\ now' \in Instant /\ at <= now'
BY TimesAssumption DEF Observed, Later, Instant

LEMMA NewClaimType ==
  ASSUME NEW t \in Thread, NEW p \in Path, NEW w \in Worktree, NEW raw \in Branch \cup {NoBranch},
         NEW lines \in {NoLines} \cup (Nat \X Nat), NEW at \in Instant
  PROVE  /\ NewClaim(t, p, w, raw, lines, at) \in Claims
         /\ NewClaim(t, p, w, raw, lines, at).thread = t
         /\ NewClaim(t, p, w, raw, lines, at).path = p
         /\ NewClaim(t, p, w, raw, lines, at).lines = lines
         /\ NewClaim(t, p, w, raw, lines, at).at = at
BY TimesAssumption DEF NewClaim, NamedBranch, Claims, Instant

LEMMA TableTypes ==
  ASSUME NEW table \in SUBSET Claims
  PROVE  /\ \A c \in Claims : Register(table, c) \in SUBSET Claims
         /\ \A t, p : Release(table, t, p) \in SUBSET Claims
         /\ \A p : ReleaseSole(table, p) \in SUBSET Claims
         /\ \A at : Live(table, at) \in SUBSET Claims
         /\ \A at : \A l \in Hits(table, at) :
              l.pair \subseteq Claims /\ l.tier \in {"Medium", "High", "Critical"}
<1>1. \A c \in Claims : Register(table, c) \in SUBSET Claims
  BY DEF Register, Live, ClaimsOn
<1>2. \A t, p : Release(table, t, p) \in SUBSET Claims
  BY DEF Release
<1>3. \A p : ReleaseSole(table, p) \in SUBSET Claims
  BY DEF ReleaseSole
<1>4. \A at : Live(table, at) \in SUBSET Claims
  BY DEF Live
<1>5. \A at : \A l \in Hits(table, at) :
        l.pair \subseteq Claims /\ l.tier \in {"Medium", "High", "Critical"}
  BY <1>4 DEF Hits, Tier
<1> QED BY <1>1, <1>2, <1>3, <1>4, <1>5

LEMMA LandedType ==
  ASSUME TypeOK, NEW call \in pending, NEW lines \in {{}} \cup {{r} : r \in Ranges},
         NEW at \in Instant, Landed(call, lines, at)
  PROVE  claims' \subseteq Claims /\ patch' \subseteq Claims
<1>1. call \in PendingCalls /\ lines \subseteq Ranges
  BY DEF TypeOK
<1>2. call.thread \in Thread /\ call.path \subseteq Path /\ call.worktree \in Worktree
  BY <1>1 DEF PendingCalls, NoPath
<1>3. patch' \subseteq Claims
  <2>1. \A p \in call.path, r \in lines : NewClaim(call.thread, p, call.worktree, NoBranch, r, at) \in Claims
    BY <1>1, <1>2, NewClaimType, RangesAssumption
  <2> QED BY <2>1 DEF Landed
<1>4. claims \in SUBSET Claims
  BY DEF TypeOK
<1>5. \A c \in patch' : Register(claims, c) \subseteq Claims
  BY <1>3, <1>4, TableTypes
<1>6. claims' \subseteq claims \cup UNION {Register(claims, c) : c \in patch'}
  BY DEF Landed
<1> QED BY <1>3, <1>4, <1>5, <1>6

LEMMA TouchType ==
  ASSUME NEW f \in FileStates, NEW at \in Instant
  PROVE  Touch(f, at) \in FileStates
BY DEF Touch, FileStates

LEMMA FilesType ==
  ASSUME TypeOK, NEW p \in Path, NEW at \in Instant
  PROVE  /\ [files EXCEPT ![p].present = TRUE] \in [Path -> FileStates]
         /\ [files EXCEPT ![p] = Touch(@, at)] \in [Path -> FileStates]
<1>1. files[p] \in FileStates /\ [files[p] EXCEPT !.present = TRUE] \in FileStates
  BY DEF TypeOK, FileStates
<1>2. Touch(files[p], at) \in FileStates
  BY <1>1, TouchType
<1> QED BY <1>1, <1>2 DEF TypeOK

LEMMA RaiseDecisionType ==
  ASSUME TypeOK, NEW t \in Thread, NEW s \in Source, NEW at \in Instant
  PROVE  RaiseDecision(t, s, at) \subseteq [thread : Thread, source : Source, since : Instant]
BY DEF TypeOK, RaiseDecision

LEMMA WritesType ==
  ASSUME TypeOK, NEW t \in Thread, NEW p \in Path, NEW at \in Instant, Writes(t, p, at)
  PROVE  files' \in [Path -> FileStates] /\ wrote' \in [Thread -> SUBSET Path]
BY FilesType DEF TypeOK, Writes

LEMMA StatusType ==
  ASSUME TypeOK, NEW t \in Thread, NEW at \in Instant, NEW marked
  PROVE  /\ Working(t, marked, at) => status' \in [Thread -> Statuses] /\ active' \in [Thread -> Instant \cup {Never}]
         /\ Seen(t, at) => status' \in [Thread -> Statuses] /\ active' \in [Thread -> Instant \cup {Never}]
         /\ \A s \in Statuses : Set(t, s, at) =>
              status' \in [Thread -> Statuses] /\ active' \in [Thread -> Instant \cup {Never}]
BY DEF TypeOK, Working, Seen, Set, Enter, Statuses

LEMMA RememberType ==
  ASSUME TypeOK, NEW call \in PendingCalls, Remember(call)
  PROVE  pending' \subseteq PendingCalls
BY DEF TypeOK, Remember

\* A finish keeps the Done marks typed, whatever it says of the tests.
LEMMA DoneType ==
  ASSUME dones \subseteq [thread : Thread, verified : BOOLEAN, since : Instant],
         NEW t \in Thread, NEW verified \in BOOLEAN, NEW at \in Instant
  PROVE  RaiseDone(t, verified, at) \subseteq [thread : Thread, verified : BOOLEAN, since : Instant]
BY DEF RaiseDone

LEMMA InitType == Init => TypeOK
BY TimesAssumption DEF Init, TypeOK, Instant, Statuses, FileStates, Absent, Never, NoPatch

LEMMA NextType == TypeOK /\ [Next]_vars => TypeOK'
<1> SUFFICES ASSUME TypeOK, [Next]_vars PROVE TypeOK'
  OBVIOUS
<1> USE EventsAreInstants
<1>a. now \in Instant
  BY DEF TypeOK
<1>1. CASE UNCHANGED vars
  BY <1>1 DEF TypeOK, vars, core, marks
<1>2. ASSUME NEW t \in Thread, NEW at \in Instant, Activity(t, at) PROVE TypeOK'
  BY <1>2, <1>a, StatusType DEF TypeOK, Activity, marks, NoPatch
<1>3. ASSUME NEW t \in Thread, NEW at \in Instant, FirstSight(t, at) PROVE TypeOK'
  BY <1>3, <1>a, StatusType DEF TypeOK, FirstSight, marks, NoPatch
<1>4. ASSUME NEW t \in Thread, NEW at \in Instant, Answered(t, at) PROVE TypeOK'
  BY <1>4, <1>a, StatusType DEF TypeOK, Answered, ResolveDecisions, NoPatch
<1>5. ASSUME NEW t \in Thread, NEW at \in Instant, BlockedOnUser(t, at) PROVE TypeOK'
  BY <1>5, <1>a, StatusType DEF TypeOK, BlockedOnUser, ResolveDecisions, NoPatch
<1>6. ASSUME NEW t \in Thread, NEW at \in Instant, FinishThread(t, at) PROVE TypeOK'
  <2>1. IsVerified(t) \in BOOLEAN
    BY DEF IsVerified
  <2>2. RaiseDone(t, IsVerified(t), at) \subseteq [thread : Thread, verified : BOOLEAN, since : Instant]
    BY <2>1, DoneType DEF TypeOK
  <2>3. now' \in Instant /\ status' \in [Thread -> Statuses] /\ active' \in [Thread -> Instant \cup {Never}]
    BY <1>6, <1>a, StatusType DEF FinishThread, Statuses
  <2> QED BY <1>6, <2>2, <2>3 DEF TypeOK, FinishThread, ResolveDecisions, NoPatch
<1>7. ASSUME NEW t \in Thread, NEW at \in Instant, StopFailure(t, at) PROVE TypeOK'
  BY <1>7, <1>a DEF TypeOK, StopFailure, marks, Statuses, NoPatch
<1>8. ASSUME NEW t \in Thread, NEW s \in Source, NEW at \in Instant, NeedsDecision(t, s, at) PROVE TypeOK'
  <2>1. now' \in Instant /\ pins' \subseteq [thread : Thread, source : Source, since : Instant]
    BY <1>8, <1>a, RaiseDecisionType DEF NeedsDecision
  <2>2. status' \in [Thread -> Statuses] /\ active' \in [Thread -> Instant \cup {Never}]
    BY <1>8, StatusType DEF NeedsDecision, Statuses
  <2> QED BY <1>8, <2>1, <2>2 DEF TypeOK, NeedsDecision, NoPatch
<1>9. ASSUME NEW t \in Thread, NEW p \in Path, NEW at \in Instant, AtMention(t, p, at) PROVE TypeOK'
  <2>1. now' \in Instant /\ files' \in [Path -> FileStates]
    BY <1>9, <1>a, FilesType DEF AtMention
  <2>2. status' \in [Thread -> Statuses] /\ active' \in [Thread -> Instant \cup {Never}]
    BY <1>9 DEF AtMention, TypeOK, Enter, Statuses
  <2> QED BY <1>9, <2>1, <2>2 DEF TypeOK, AtMention, marks, NoPatch
<1>10. ASSUME NEW t \in Thread, NEW p \in Path, NEW at \in Instant, ReadFile(t, p, at) PROVE TypeOK'
  <2>1. now' \in Instant /\ files' \in [Path -> FileStates]
    BY <1>10, <1>a, FilesType DEF ReadFile
  <2> QED BY <1>10, <2>1, StatusType DEF TypeOK, ReadFile, marks, NoPatch
<1>11. ASSUME NEW t \in Thread, NEW p \in Path, NEW settled \in BOOLEAN, NEW at \in Instant, OtelEdit(t, p, settled, at) PROVE TypeOK'
  <2>1. now' \in Instant /\ claims' \subseteq Claims
    BY <1>11, <1>a, TableTypes DEF OtelEdit, TypeOK
  <2> QED BY <1>11, <2>1, StatusType, WritesType DEF TypeOK, OtelEdit, marks, NoPatch
<1>12. ASSUME NEW t \in Thread, NEW p \in Path, NEW w \in Worktree, NEW raw \in Branch \cup {NoBranch}, NEW at \in Instant, PreToolUse(t, p, w, raw, at) PROVE TypeOK'
  <2>1. now' \in Instant /\ claims' \subseteq Claims
    <3>1. NewClaim(t, p, w, raw, NoLines, at) \in Claims
      BY NewClaimType
    <3> QED BY <1>12, <1>a, <3>1, TableTypes DEF PreToolUse, TypeOK
  <2> QED BY <1>12, <2>1, StatusType, WritesType DEF TypeOK, PreToolUse, marks, NoPatch
<1>13. ASSUME NEW t \in Thread, NEW p \in Path, NEW w \in Worktree, NEW raw \in Branch \cup {NoBranch}, NEW id \in Call, NEW at \in Instant, AssistantEdit(t, p, w, raw, id, at) PROVE TypeOK'
  <2>1. [call |-> id, thread |-> t, path |-> {p}, worktree |-> w, test |-> FALSE, started |-> at] \in PendingCalls
    BY <1>13 DEF PendingCalls, NoPath
  <2>2. now' \in Instant /\ claims' \subseteq Claims
    <3>1. NewClaim(t, p, w, raw, NoLines, at) \in Claims
      BY NewClaimType
    <3> QED BY <1>13, <1>a, <3>1, TableTypes DEF AssistantEdit, TypeOK
  <2> QED BY <1>13, <2>2, <2>1, RememberType, StatusType, WritesType DEF TypeOK, AssistantEdit, marks, NoPatch
<1>14. ASSUME NEW t \in Thread, NEW w \in Worktree, NEW id \in Call, NEW at \in Instant, AssistantTest(t, w, id, at) PROVE TypeOK'
  <2>1. [call |-> id, thread |-> t, path |-> NoPath, worktree |-> w, test |-> TRUE, started |-> at] \in PendingCalls
    BY <1>14 DEF PendingCalls, NoPath
  <2> QED BY <1>14, <1>a, <2>1, StatusType, RememberType DEF TypeOK, AssistantTest, marks, NoPatch
<1>15. ASSUME NEW call \in pending, NEW failed \in BOOLEAN, NEW lines \in {{}} \cup {{r} : r \in Ranges}, NEW at \in Instant, Settle(call, failed, lines, at) PROVE TypeOK'
  <2>1. call.thread \in Thread
    BY DEF TypeOK, PendingCalls
  <2>2. MarkVerified(call.thread, at) \in [Path -> FileStates]
    BY DEF TypeOK, MarkVerified, FileStates
  <2> QED BY <1>15, <1>a, <2>1, <2>2, StatusType, LandedType DEF TypeOK, Settle, marks
<1>16. ASSUME NEW p \in Path, NEW at \in Instant, FsWrite(p, at) PROVE TypeOK'
  <2>1. now' \in Instant /\ files' \in [Path -> FileStates]
    BY <1>16, <1>a, FilesType DEF FsWrite
  <2>2. claims' \subseteq Claims
    BY <1>16, TableTypes DEF FsWrite, TypeOK
  <2> QED BY <1>16, <2>1, <2>2 DEF TypeOK, FsWrite, marks, NoPatch
<1>17. ASSUME NEW p \in Path, NEW at \in Instant, FsRemove(p, at) PROVE TypeOK'
  <2>1. now' \in Instant /\ files' \in [Path -> FileStates]
    BY <1>17, <1>a, FilesType DEF FsRemove
  <2> QED BY <1>17, <2>1 DEF TypeOK, FsRemove, marks, NoPatch
<1>18. ASSUME NEW from \in Path, NEW to \in Path, NEW at \in Instant, FsRename(from, to, at) PROVE TypeOK'
  <2>1. files \in [Path -> FileStates] /\ at \in Instant
    BY <1>18, <1>a DEF TypeOK, FsRename
  <2>2. Touch(IF files[from].present THEN files[from] ELSE files[to], at) \in FileStates
    BY <2>1, TouchType
  <2>3. Absent \in FileStates
    BY DEF Absent, FileStates
  <2>4. files' \in [Path -> FileStates]
    BY <1>18, <2>1, <2>2, <2>3 DEF FsRename
  <2> QED BY <1>18, <1>a, <2>4 DEF TypeOK, FsRename, marks, NoPatch
<1>19. ASSUME NEW at \in Instant, Tick(at) PROVE TypeOK'
  <2>1. now' \in Instant /\ claims' \subseteq Claims
    BY <1>19, TableTypes DEF Tick, TypeOK
  <2>2. \A l \in links' : l.pair \subseteq Claims /\ l.tier \in {"Medium", "High", "Critical"}
    BY <1>19, <2>1, TableTypes DEF Tick
  <2>3. status' \in [Thread -> Statuses]
    BY <1>19 DEF Tick, TypeOK, Statuses
  <2> QED BY <1>19, <2>1, <2>2, <2>3 DEF TypeOK, Tick, NoPatch
<1> HIDE EventsAreInstants
<1> QED BY <1>1, <1>2, <1>3, <1>4, <1>5, <1>6, <1>7, <1>8, <1>9, <1>10, <1>11, <1>12, <1>13, <1>14, <1>15, <1>16, <1>17, <1>18, <1>19 DEF Next

\* Every variable keeps its type, and every instant stays within the bounds, for
\* any number of threads, files, calls and marks.
THEOREM TypeCorrect == Spec => []TypeOK
BY InitType, NextType, PTL DEF Spec

-----------------------------------------------------------------------------
\* What a step can do to the pins, the Done marks, the links and the calls in
\* flight: four lists that are each short, read off the actions one by one.

MarkMoves ==
  /\ \/ pins' = pins
     \/ \E t \in Thread : pins' = ResolveDecisions(t)
     \/ \E t \in Thread, s \in Source, at \in Instant : pins' = RaiseDecision(t, s, at)
  /\ \/ dones' = dones
     \/ \E t \in Thread, at \in Instant : FinishThread(t, at)
     \/ \E at \in Instant : dones' = {m \in dones : ~Spent(m, at)}
  /\ \/ links' = links
     \/ \E at \in Instant : links' = Hits(claims', at)
  /\ \/ pending' = pending
     \/ \E call \in pending : pending' = pending \ {call}
     \/ \E call \in PendingCalls : Remember(call)

LEMMA MarkSteps == [Next]_vars => MarkMoves
<1> SUFFICES ASSUME [Next]_vars PROVE MarkMoves
  OBVIOUS
<1>1. CASE UNCHANGED vars
  BY <1>1 DEF MarkMoves, vars, marks
<1>2. ASSUME NEW t \in Thread, NEW at \in Instant, Activity(t, at) PROVE MarkMoves
  BY <1>2 DEF MarkMoves, Activity, marks
<1>3. ASSUME NEW t \in Thread, NEW at \in Instant, FirstSight(t, at) PROVE MarkMoves
  BY <1>3 DEF MarkMoves, FirstSight, marks
<1>4. ASSUME NEW t \in Thread, NEW at \in Instant, Answered(t, at) PROVE MarkMoves
  BY <1>4 DEF MarkMoves, Answered, marks
<1>5. ASSUME NEW t \in Thread, NEW at \in Instant, BlockedOnUser(t, at) PROVE MarkMoves
  BY <1>5 DEF MarkMoves, BlockedOnUser, marks
<1>6. ASSUME NEW t \in Thread, NEW at \in Instant, FinishThread(t, at) PROVE MarkMoves
  BY <1>6 DEF MarkMoves, FinishThread, marks
<1>7. ASSUME NEW t \in Thread, NEW at \in Instant, StopFailure(t, at) PROVE MarkMoves
  BY <1>7 DEF MarkMoves, StopFailure, marks
<1>8. ASSUME NEW t \in Thread, NEW s \in Source, NEW at \in Instant, NeedsDecision(t, s, at) PROVE MarkMoves
  BY <1>8 DEF MarkMoves, NeedsDecision, marks
<1>9. ASSUME NEW t \in Thread, NEW p \in Path, NEW at \in Instant, AtMention(t, p, at) PROVE MarkMoves
  BY <1>9 DEF MarkMoves, AtMention, marks
<1>10. ASSUME NEW t \in Thread, NEW p \in Path, NEW at \in Instant, ReadFile(t, p, at) PROVE MarkMoves
  BY <1>10 DEF MarkMoves, ReadFile, marks
<1>11. ASSUME NEW t \in Thread, NEW p \in Path, NEW settled \in BOOLEAN, NEW at \in Instant, OtelEdit(t, p, settled, at) PROVE MarkMoves
  BY <1>11 DEF MarkMoves, OtelEdit, marks
<1>12. ASSUME NEW t \in Thread, NEW p \in Path, NEW w \in Worktree, NEW raw \in Branch \cup {NoBranch}, NEW at \in Instant, PreToolUse(t, p, w, raw, at) PROVE MarkMoves
  BY <1>12 DEF MarkMoves, PreToolUse, marks
<1>13. ASSUME NEW t \in Thread, NEW p \in Path, NEW w \in Worktree, NEW raw \in Branch \cup {NoBranch},
            NEW id \in Call, NEW at \in Instant, AssistantEdit(t, p, w, raw, id, at) PROVE MarkMoves
  <2>1. [call |-> id, thread |-> t, path |-> {p}, worktree |-> w, test |-> FALSE, started |-> at] \in PendingCalls
    BY DEF PendingCalls, NoPath
  <2> QED BY <1>13, <2>1 DEF MarkMoves, AssistantEdit, marks
<1>14. ASSUME NEW t \in Thread, NEW w \in Worktree, NEW id \in Call, NEW at \in Instant, AssistantTest(t, w, id, at) PROVE MarkMoves
  <2>1. [call |-> id, thread |-> t, path |-> NoPath, worktree |-> w, test |-> TRUE, started |-> at] \in PendingCalls
    BY DEF PendingCalls, NoPath
  <2> QED BY <1>14, <2>1 DEF MarkMoves, AssistantTest, marks
<1>15. ASSUME NEW call \in pending, NEW failed \in BOOLEAN, NEW lines \in {{}} \cup {{r} : r \in Ranges},
            NEW at \in Instant, Settle(call, failed, lines, at) PROVE MarkMoves
  BY <1>15 DEF MarkMoves, Settle, marks
<1>16. ASSUME NEW p \in Path, NEW at \in Instant, FsWrite(p, at) PROVE MarkMoves
  BY <1>16 DEF MarkMoves, FsWrite, marks
<1>17. ASSUME NEW p \in Path, NEW at \in Instant, FsRemove(p, at) PROVE MarkMoves
  BY <1>17 DEF MarkMoves, FsRemove, marks
<1>18. ASSUME NEW from \in Path, NEW to \in Path, NEW at \in Instant, FsRename(from, to, at) PROVE MarkMoves
  BY <1>18 DEF MarkMoves, FsRename, marks
<1>19. ASSUME NEW at \in Instant, Tick(at) PROVE MarkMoves
  BY <1>19 DEF MarkMoves, Tick, marks
<1> QED BY <1>1, <1>2, <1>3, <1>4, <1>5, <1>6, <1>7, <1>8, <1>9, <1>10, <1>11, <1>12, <1>13, <1>14, <1>15, <1>16, <1>17, <1>18, <1>19 DEF Next

-----------------------------------------------------------------------------
\* The marks.

\* An answer takes down all the pins of one thread and none of another's, and a
\* pin goes no other way (fn resolve).
THEOREM AnswersWhole == Spec => AnswersAreWhole
<1>1. [Next]_vars => [pins \subseteq pins' \/ \E t \in Thread : pins' = {m \in pins : m.thread # t}]_vars
  BY MarkSteps DEF MarkMoves, ResolveDecisions, RaiseDecision
<1> QED BY <1>1, PTL DEF Spec, AnswersAreWhole

\* A mark that needs review stays up at its own date until its thread finishes
\* with every file tested, for any thresholds and any number of threads.
THEOREM ReviewPersists == Spec => UnverifiedPersists
<1> DEFINE Kept(m) == \E n \in dones' :
                         /\ n.thread = m.thread /\ n.since = m.since
                         /\ n.verified => status'[m.thread] = "Done" /\ IsVerified(m.thread)
           Keeps == \A m \in dones : ~m.verified => Kept(m)
<1>1. TypeOK /\ [Next]_vars => [Keeps]_vars
  <2> SUFFICES ASSUME TypeOK, [Next]_vars, NEW m \in dones, ~m.verified PROVE Kept(m)
    OBVIOUS
  <2>1. CASE dones' = dones
    BY <2>1
  <2>2. ASSUME NEW t \in Thread, NEW at \in Instant, FinishThread(t, at) PROVE Kept(m)
    <3>1. dones' = RaiseDone(t, IsVerified(t), at) /\ status'[t] = "Done"
      BY <2>2 DEF FinishThread, Set, TypeOK
    <3>2. CASE m.thread # t
      <4>1. m \in dones'
        BY <3>1, <3>2 DEF RaiseDone
      <4> QED BY <4>1
    <3>3. CASE m.thread = t
      <4>1. IsVerified(t) \in BOOLEAN
        BY DEF IsVerified
      <4> DEFINE v == IsVerified(t)
                 n == [m EXCEPT !.verified = v]
      <4> HIDE DEF v
      <4>2. m \in [thread : Thread, verified : BOOLEAN, since : Instant] /\ v \in BOOLEAN
        BY <4>1 DEF TypeOK, v
      <4>3. n.thread = m.thread /\ n.since = m.since /\ n.verified = v
        BY <4>2
      <4>4. dones' = {IF k.thread = t THEN [k EXCEPT !.verified = v] ELSE k : k \in dones}
        BY <3>1, <3>3 DEF RaiseDone, v
      <4>5. n \in dones'
        BY <4>4, <3>3
      <4>6. v => status'[m.thread] = "Done" /\ IsVerified(m.thread)
        BY <3>1, <3>3 DEF v
      <4> HIDE DEF n
      <4> QED BY <4>3, <4>5, <4>6
    <3> QED BY <3>2, <3>3
  <2>3. CASE \E at \in Instant : dones' = {k \in dones : ~Spent(k, at)}
    BY <2>3 DEF Spent
  <2> QED BY <2>1, <2>2, <2>3, MarkSteps DEF MarkMoves
<1> QED BY <1>1, TypeCorrect, PTL DEF Spec, UnverifiedPersists

\* The table of calls in flight never outgrows its cap and holds a call once,
\* for any cap: an eviction takes exactly one call.
THEOREM PendingStaysBounded == Spec => []PendingBounded
<1> DEFINE Inv == IsFiniteSet(pending) /\ PendingBounded
<1>1. Init => Inv
  BY FS_EmptySet, PendingCapAssumption DEF Init, PendingBounded
<1>2. Inv /\ [Next]_vars => Inv'
  <2> SUFFICES ASSUME Inv, [Next]_vars PROVE Inv'
    OBVIOUS
  <2>0. Cardinality(pending) \in Nat /\ PendingCap \in Nat /\ PendingCap > 0
    BY FS_CardinalityType, PendingCapAssumption
  <2>1. ASSUME NEW rest \in SUBSET pending, NEW call, call \notin rest,
               Cardinality(rest) < PendingCap, \A c \in rest : c.call # call.call,
               pending' = rest \cup {call}
        PROVE  Inv'
    <3>1. IsFiniteSet(rest) /\ Cardinality(rest) \in Nat
      BY FS_Subset, FS_CardinalityType
    <3>2. IsFiniteSet(pending') /\ Cardinality(pending') = Cardinality(rest) + 1
      BY <2>1, <3>1, FS_AddElement
    <3>3. \A c, d \in pending' : c.call = d.call => c = d
      BY <2>1 DEF PendingBounded
    <3> QED BY <2>0, <2>1, <3>1, <3>2, <3>3 DEF PendingBounded
  <2>2. CASE pending' = pending
    BY <2>2 DEF PendingBounded
  <2>3. ASSUME NEW call \in pending, pending' = pending \ {call} PROVE Inv'
    <3>1. IsFiniteSet(pending') /\ Cardinality(pending') <= Cardinality(pending)
      BY <2>3, FS_Subset, FS_RemoveElement, FS_CardinalityType
    <3>2. Cardinality(pending') \in Nat
      BY <3>1, FS_CardinalityType
    <3> QED BY <2>0, <2>3, <3>1, <3>2 DEF PendingBounded
  <2>4. ASSUME NEW call \in PendingCalls, Remember(call) PROVE Inv'
    <3>1. PICK evicted \in IF Cardinality(pending) >= PendingCap
                           THEN {{c} : c \in Oldest(pending)} ELSE {{}} :
                 pending' = {c \in pending \ evicted : c.call # call.call} \cup {call}
      BY <2>4 DEF Remember
    <3> DEFINE rest == {c \in pending \ evicted : c.call # call.call}
    <3>2. Cardinality(pending \ evicted) < PendingCap /\ IsFiniteSet(pending \ evicted)
      <4>1. CASE Cardinality(pending) >= PendingCap
        <5>1. PICK c \in pending : evicted = {c}
          BY <3>1, <4>1 DEF Oldest
        <5>2. IsFiniteSet(pending \ {c}) /\ Cardinality(pending \ {c}) = Cardinality(pending) - 1
          BY FS_RemoveElement
        <5> QED BY <2>0, <5>1, <5>2 DEF PendingBounded
      <4>2. CASE ~(Cardinality(pending) >= PendingCap)
        <5>1. pending \ evicted = pending
          BY <3>1, <4>2
        <5> QED BY <2>0, <4>2, <5>1
      <4> QED BY <4>1, <4>2
    <3>3. rest \in SUBSET pending /\ Cardinality(rest) <= Cardinality(pending \ evicted)
      BY <3>2, FS_Subset
    <3>4. Cardinality(rest) \in Nat /\ Cardinality(pending \ evicted) \in Nat
      BY <3>2, <3>3, FS_Subset, FS_CardinalityType
    <3>5. Cardinality(rest) < PendingCap
      BY <2>0, <3>2, <3>3, <3>4
    <3> QED BY <2>1, <3>1, <3>3, <3>5
  <2> QED BY <2>2, <2>3, <2>4, MarkSteps DEF MarkMoves
<1> QED BY <1>1, <1>2, PTL DEF Spec

-----------------------------------------------------------------------------
\* The status of a pinned thread.

\* fn working asks for the marks that are up when it runs, and entering a thread
\* changes only the status of a thread that was not there.
LEMMA StatusKeepsPins ==
  ASSUME TypeOK, PinnedNeverActive, NEW t \in Thread, NEW at \in Instant,
         \/ pins' \subseteq pins /\ (Working(t, pins, at) \/ Working(t, pins', at) \/ Seen(t, at))
         \/ pins' = pins /\ status' = [status EXCEPT ![t] = Enter(t)]
  PROVE  PinnedNeverActive'
<1>1. \A m \in pins : m.thread \in Thread /\ status[m.thread] \in {"Waiting", "Idle"}
  BY DEF TypeOK, PinnedNeverActive
<1>2. SUFFICES ASSUME NEW m \in pins' PROVE status'[m.thread] \in {"Waiting", "Idle"}
  BY DEF PinnedNeverActive
<1>3. m \in pins
  BY <1>2
<1>4. status \in [Thread -> Statuses]
  BY DEF TypeOK
<1>5. CASE m.thread # t
  BY <1>1, <1>3, <1>4, <1>5 DEF Working, Set, Seen
<1>6. CASE m.thread = t
  BY <1>1, <1>2, <1>3, <1>4, <1>6 DEF Working, Set, Seen, Enter, DecisionsOf
<1> QED BY <1>5, <1>6

LEMMA PinnedStep == TypeOK /\ PinnedNeverActive /\ [Next]_vars => PinnedNeverActive'
<1> SUFFICES ASSUME TypeOK, PinnedNeverActive, [Next]_vars PROVE PinnedNeverActive'
  OBVIOUS
<1>a. status \in [Thread -> Statuses] /\ \A m \in pins : m.thread \in Thread
  BY DEF TypeOK
<1>1. CASE UNCHANGED vars
  BY <1>1 DEF PinnedNeverActive, vars, core, marks
<1>2. ASSUME NEW t \in Thread, NEW at \in Instant, Activity(t, at) PROVE PinnedNeverActive'
  BY <1>2, StatusKeepsPins DEF Activity, marks
<1>3. ASSUME NEW t \in Thread, NEW at \in Instant, FirstSight(t, at) PROVE PinnedNeverActive'
  BY <1>3, StatusKeepsPins DEF FirstSight, marks
<1>4. ASSUME NEW t \in Thread, NEW at \in Instant, Answered(t, at) PROVE PinnedNeverActive'
  BY <1>4, StatusKeepsPins DEF Answered, ResolveDecisions
<1>5. ASSUME NEW t \in Thread, NEW at \in Instant, BlockedOnUser(t, at) PROVE PinnedNeverActive'
  BY <1>5, StatusKeepsPins DEF BlockedOnUser, marks, ResolveDecisions
<1>6. ASSUME NEW t \in Thread, NEW at \in Instant, FinishThread(t, at) PROVE PinnedNeverActive'
  BY <1>6, <1>a DEF FinishThread, Set, ResolveDecisions, PinnedNeverActive
<1>7. ASSUME NEW t \in Thread, NEW at \in Instant, StopFailure(t, at) PROVE PinnedNeverActive'
  BY <1>7, <1>a DEF StopFailure, marks, PinnedNeverActive
<1>8. ASSUME NEW t \in Thread, NEW s \in Source, NEW at \in Instant, NeedsDecision(t, s, at) PROVE PinnedNeverActive'
  BY <1>8, <1>a DEF NeedsDecision, Set, RaiseDecision, PinnedNeverActive
<1>9. ASSUME NEW t \in Thread, NEW p \in Path, NEW at \in Instant, AtMention(t, p, at) PROVE PinnedNeverActive'
  BY <1>9, StatusKeepsPins DEF AtMention, marks
<1>10. ASSUME NEW t \in Thread, NEW p \in Path, NEW at \in Instant, ReadFile(t, p, at) PROVE PinnedNeverActive'
  BY <1>10, StatusKeepsPins DEF ReadFile, marks
<1>11. ASSUME NEW t \in Thread, NEW p \in Path, NEW settled \in BOOLEAN, NEW at \in Instant, OtelEdit(t, p, settled, at) PROVE PinnedNeverActive'
  BY <1>11, StatusKeepsPins DEF OtelEdit, marks
<1>12. ASSUME NEW t \in Thread, NEW p \in Path, NEW w \in Worktree, NEW raw \in Branch \cup {NoBranch}, NEW at \in Instant, PreToolUse(t, p, w, raw, at) PROVE PinnedNeverActive'
  BY <1>12, StatusKeepsPins DEF PreToolUse, marks
<1>13. ASSUME NEW t \in Thread, NEW p \in Path, NEW w \in Worktree, NEW raw \in Branch \cup {NoBranch},
            NEW id \in Call, NEW at \in Instant, AssistantEdit(t, p, w, raw, id, at) PROVE PinnedNeverActive'
  BY <1>13, StatusKeepsPins DEF AssistantEdit, marks
<1>14. ASSUME NEW t \in Thread, NEW w \in Worktree, NEW id \in Call, NEW at \in Instant, AssistantTest(t, w, id, at) PROVE PinnedNeverActive'
  BY <1>14, StatusKeepsPins DEF AssistantTest, marks
<1>15. ASSUME NEW call \in pending, NEW failed \in BOOLEAN, NEW lines \in {{}} \cup {{r} : r \in Ranges},
            NEW at \in Instant, Settle(call, failed, lines, at) PROVE PinnedNeverActive'
  <2>1. call.thread \in Thread
    BY DEF TypeOK, PendingCalls
  <2> QED BY <1>15, <2>1, StatusKeepsPins DEF Settle, marks
<1>16. ASSUME NEW p \in Path, NEW at \in Instant, FsWrite(p, at) PROVE PinnedNeverActive'
  BY <1>16 DEF FsWrite, marks, PinnedNeverActive
<1>17. ASSUME NEW p \in Path, NEW at \in Instant, FsRemove(p, at) PROVE PinnedNeverActive'
  BY <1>17 DEF FsRemove, marks, PinnedNeverActive
<1>18. ASSUME NEW from \in Path, NEW to \in Path, NEW at \in Instant, FsRename(from, to, at) PROVE PinnedNeverActive'
  BY <1>18 DEF FsRename, marks, PinnedNeverActive
<1>19. ASSUME NEW at \in Instant, Tick(at) PROVE PinnedNeverActive'
  BY <1>19, <1>a DEF Tick, Silent, PinnedNeverActive
<1> QED BY <1>1, <1>2, <1>3, <1>4, <1>5, <1>6, <1>7, <1>8, <1>9, <1>10, <1>11, <1>12, <1>13, <1>14, <1>15, <1>16, <1>17, <1>18, <1>19 DEF Next

\* A thread the operator is asked about never looks as if it went on by itself,
\* whichever channels report on it and in whatever order.
THEOREM PinnedNeverLooksActive == Spec => []PinnedNeverActive
<1>1. Init => PinnedNeverActive
  BY DEF Init, PinnedNeverActive
<1> QED BY <1>1, PinnedStep, TypeCorrect, PTL DEF Spec

-----------------------------------------------------------------------------
\* The claim table.  A step registers one claim of unknown lines, made no later
\* than the clock and as the last activity of its thread, or it only removes
\* claims, never both sides of a collision that is live at the new instant.

Registers == \E c \in Claims : /\ c.lines = NoLines /\ c.at <= now' /\ c.at = active'[c.thread]
                               /\ claims' = Register(claims, c)

Removes ==
  /\ claims' \subseteq claims
  /\ \A a, b \in Live(claims, now') : Contend(a, b) => a \in claims' \/ b \in claims'

\* Removing the claim of one thread on one path leaves the other side.
LEMMA ReleaseLeavesOther ==
  ASSUME NEW t, NEW P, claims' = {c \in claims : ~(c.thread = t /\ c.path \in P)}
  PROVE  Removes
BY DEF Removes, Live, Contend

LEMMA SoleLeavesOther ==
  ASSUME IsFiniteSet(claims), NEW p, claims' = ReleaseSole(claims, p)
  PROVE  Removes
<1>1. CASE Cardinality(ClaimsOn(claims, p)) = 1
  <2>1. IsFiniteSet(ClaimsOn(claims, p))
    BY FS_Subset DEF ClaimsOn
  <2>2. PICK x : ClaimsOn(claims, p) = {x}
    BY <1>1, <2>1, FS_Singleton
  <2>3. \A a, b \in claims : a.path = p /\ b.path = p => a = b
    BY <2>2 DEF ClaimsOn
  <2>4. claims' = {c \in claims : c.path # p}
    BY <1>1 DEF ReleaseSole
  <2> QED BY <2>3, <2>4 DEF Removes, Live, Contend
<1>2. CASE Cardinality(ClaimsOn(claims, p)) # 1
  BY <1>2 DEF ReleaseSole, Removes, Live
<1> QED BY <1>1, <1>2

\* A result first gives the claim its lines and then lets it go; what else the
\* registration dropped had expired by the result's own instant.
LEMMA LandedLeavesOther ==
  ASSUME TypeOK, NEW call \in pending, NEW lines \in {{}} \cup {{r} : r \in Ranges},
         NEW at \in Instant, at <= now', now' \in Instant, Landed(call, lines, at)
  PROVE  Removes
<1>1. call.thread \in Thread /\ (call.path = {} \/ \E p \in Path : call.path = {p}) /\ call.worktree \in Worktree
  BY DEF TypeOK, PendingCalls, NoPath
<1> DEFINE mine(c) == c.thread = call.thread /\ c.path \in call.path
           exact == {NewClaim(call.thread, p, call.worktree, NoBranch, r, at) : p \in call.path, r \in lines}
           table == IF exact = {} THEN claims ELSE UNION {Register(claims, c) : c \in exact}
<1>2. claims' = {c \in table : ~mine(c)}
  BY DEF Landed
<1>3. CASE exact = {}
  BY <1>2, <1>3, ReleaseLeavesOther
<1>4. CASE exact # {}
  <2>1. PICK p \in call.path, r \in lines : TRUE
    BY <1>4
  <2>2. call.path = {p} /\ lines = {r}
    BY <1>1, <2>1
  <2> DEFINE new == NewClaim(call.thread, p, call.worktree, NoBranch, r, at)
  <2>3. exact = {new}
    BY <2>2
  <2>4. new.thread = call.thread /\ new.path = p /\ new.at = at
    BY DEF NewClaim
  <2> HIDE DEF new, exact
  <2>5. claims' = {c \in Register(claims, new) : ~mine(c)}
    BY <1>2, <2>3
  <2>6. claims' \subseteq claims
    BY <2>2, <2>4, <2>5 DEF Register, Live, ClaimsOn
  <2>7. ASSUME NEW c \in Live(claims, now'), ~mine(c) PROVE c \in claims'
    <3>1. c \in claims /\ c.at \in Int /\ now' - c.at <= TTL
      BY <2>7 DEF Live, TypeOK, Claims
    <3>2. at - c.at <= TTL
      BY <3>1, TTLAssumption, TimesAssumption DEF Instant
    <3> QED BY <2>2, <2>4, <2>5, <2>7, <3>1, <3>2 DEF Register, Live, ClaimsOn
  <2>8. ASSUME NEW a \in Live(claims, now'), NEW b \in Live(claims, now'), Contend(a, b)
        PROVE  a \in claims' \/ b \in claims'
    BY <2>7, <2>8 DEF Contend
  <2> QED BY <2>6, <2>8 DEF Removes
<1> QED BY <1>3, <1>4

LEMMA ClaimSteps == TypeOK /\ IsFiniteSet(claims) /\ [Next]_vars => Registers \/ Removes
<1> SUFFICES ASSUME TypeOK, IsFiniteSet(claims), [Next]_vars PROVE Registers \/ Removes
  OBVIOUS
<1> USE EventsAreInstants
<1>a. now \in Instant /\ NoLines \in {NoLines} \cup (Nat \X Nat)
  BY DEF TypeOK
<1>b. claims' = claims => Removes
  BY DEF Removes, Live
<1>1. CASE UNCHANGED vars
  BY <1>1, <1>b DEF vars
<1>2. ASSUME NEW t \in Thread, NEW at \in Instant, Activity(t, at) PROVE Registers \/ Removes
  BY <1>2, <1>b DEF Activity
<1>3. ASSUME NEW t \in Thread, NEW at \in Instant, FirstSight(t, at) PROVE Registers \/ Removes
  BY <1>3, <1>b DEF FirstSight
<1>4. ASSUME NEW t \in Thread, NEW at \in Instant, Answered(t, at) PROVE Registers \/ Removes
  BY <1>4, <1>b DEF Answered
<1>5. ASSUME NEW t \in Thread, NEW at \in Instant, BlockedOnUser(t, at) PROVE Registers \/ Removes
  BY <1>5, <1>b DEF BlockedOnUser
<1>6. ASSUME NEW t \in Thread, NEW at \in Instant, FinishThread(t, at) PROVE Registers \/ Removes
  BY <1>6, <1>b DEF FinishThread
<1>7. ASSUME NEW t \in Thread, NEW at \in Instant, StopFailure(t, at) PROVE Registers \/ Removes
  BY <1>7, <1>b DEF StopFailure
<1>8. ASSUME NEW t \in Thread, NEW s \in Source, NEW at \in Instant, NeedsDecision(t, s, at) PROVE Registers \/ Removes
  BY <1>8, <1>b DEF NeedsDecision
<1>9. ASSUME NEW t \in Thread, NEW p \in Path, NEW at \in Instant, AtMention(t, p, at) PROVE Registers \/ Removes
  BY <1>9, <1>b DEF AtMention
<1>10. ASSUME NEW t \in Thread, NEW p \in Path, NEW at \in Instant, ReadFile(t, p, at) PROVE Registers \/ Removes
  BY <1>10, <1>b DEF ReadFile
<1>11. ASSUME NEW t \in Thread, NEW p \in Path, NEW settled \in BOOLEAN, NEW at \in Instant, OtelEdit(t, p, settled, at) PROVE Registers \/ Removes
  <2>1. CASE settled
    <3>1. claims' = {c \in claims : ~(c.thread = t /\ c.path \in {p})}
      BY <1>11, <2>1 DEF OtelEdit, Release
    <3> QED BY <3>1, ReleaseLeavesOther
  <2>2. CASE ~settled
    BY <1>11, <1>b, <2>2 DEF OtelEdit
  <2> QED BY <2>1, <2>2
<1>12. ASSUME NEW t \in Thread, NEW p \in Path, NEW w \in Worktree, NEW raw \in Branch \cup {NoBranch}, NEW at \in Instant, PreToolUse(t, p, w, raw, at) PROVE Registers \/ Removes
  <2>1. NewClaim(t, p, w, raw, NoLines, at) \in Claims
        /\ NewClaim(t, p, w, raw, NoLines, at).lines = NoLines
        /\ NewClaim(t, p, w, raw, NoLines, at).thread = t
        /\ NewClaim(t, p, w, raw, NoLines, at).at = at
    BY <1>a, NewClaimType
  <2>2. Observed(at) /\ claims' = Register(claims, NewClaim(t, p, w, raw, NoLines, at))
    BY <1>12 DEF PreToolUse
  <2>3. at <= now'
    BY <1>a, <2>2
  <2>4. active'[t] = at
    BY <1>12 DEF PreToolUse, Working, Set, TypeOK
  <2> QED BY <2>1, <2>2, <2>3, <2>4 DEF Registers
<1>13. ASSUME NEW t \in Thread, NEW p \in Path, NEW w \in Worktree, NEW raw \in Branch \cup {NoBranch},
            NEW id \in Call, NEW at \in Instant, AssistantEdit(t, p, w, raw, id, at) PROVE Registers \/ Removes
  <2>1. NewClaim(t, p, w, raw, NoLines, at) \in Claims
        /\ NewClaim(t, p, w, raw, NoLines, at).lines = NoLines
        /\ NewClaim(t, p, w, raw, NoLines, at).thread = t
        /\ NewClaim(t, p, w, raw, NoLines, at).at = at
    BY <1>a, NewClaimType
  <2>2. Observed(at) /\ claims' = Register(claims, NewClaim(t, p, w, raw, NoLines, at))
    BY <1>13 DEF AssistantEdit
  <2>3. at <= now'
    BY <1>a, <2>2
  <2>4. active'[t] = at
    BY <1>13 DEF AssistantEdit, Working, Set, TypeOK
  <2> QED BY <2>1, <2>2, <2>3, <2>4 DEF Registers
<1>14. ASSUME NEW t \in Thread, NEW w \in Worktree, NEW id \in Call, NEW at \in Instant, AssistantTest(t, w, id, at) PROVE Registers \/ Removes
  BY <1>14, <1>b DEF AssistantTest
<1>15. ASSUME NEW call \in pending, NEW failed \in BOOLEAN, NEW lines \in {{}} \cup {{r} : r \in Ranges},
            NEW at \in Instant, Settle(call, failed, lines, at) PROVE Registers \/ Removes
  BY <1>15, <1>a, LandedLeavesOther DEF Settle
<1>16. ASSUME NEW p \in Path, NEW at \in Instant, FsWrite(p, at) PROVE Registers \/ Removes
  BY <1>16, SoleLeavesOther DEF FsWrite
<1>17. ASSUME NEW p \in Path, NEW at \in Instant, FsRemove(p, at) PROVE Registers \/ Removes
  BY <1>17, <1>b DEF FsRemove
<1>18. ASSUME NEW from \in Path, NEW to \in Path, NEW at \in Instant, FsRename(from, to, at) PROVE Registers \/ Removes
  BY <1>18, <1>b DEF FsRename
<1>19. ASSUME NEW at \in Instant, Tick(at) PROVE Registers \/ Removes
  BY <1>19 DEF Tick, Removes, Live
<1> HIDE EventsAreInstants
<1> QED BY <1>1, <1>2, <1>3, <1>4, <1>5, <1>6, <1>7, <1>8, <1>9, <1>10, <1>11, <1>12, <1>13, <1>14, <1>15, <1>16, <1>17, <1>18, <1>19 DEF Next

\* What holds of the table in every state: it is finite, a thread holds one claim
\* on a path, and no claim that is kept knows its lines.
TableInv ==
  /\ IsFiniteSet(claims)
  /\ \A a, b \in claims : a.thread = b.thread /\ a.path = b.path => a = b
  /\ \A c \in claims : c.lines = NoLines

LEMMA TableStep == TypeOK /\ TableInv /\ [Next]_vars => TableInv'
<1> SUFFICES ASSUME TypeOK, TableInv, [Next]_vars PROVE TableInv'
  OBVIOUS
<1>1. CASE Registers
  <2>1. PICK c \in Claims : c.lines = NoLines /\ claims' = Register(claims, c)
    BY <1>1 DEF Registers
  <2>2. IsFiniteSet(claims \cup {c})
    BY FS_AddElement DEF TableInv
  <2>3. claims' \subseteq claims \cup {c}
    BY <2>1 DEF Register, Live, ClaimsOn
  <2>4. IsFiniteSet(claims')
    BY <2>2, <2>3, FS_Subset
  <2> QED BY <2>1, <2>4 DEF TableInv, Register, Live, ClaimsOn
<1>2. CASE Removes
  <2>1. claims' \subseteq claims
    BY <1>2 DEF Removes
  <2>2. IsFiniteSet(claims')
    BY <2>1, FS_Subset DEF TableInv
  <2> QED BY <2>1, <2>2 DEF TableInv
<1> QED BY <1>1, <1>2, ClaimSteps DEF TableInv

LEMMA TableHolds == Spec => [](TypeOK /\ TableInv)
<1>1. Init => TableInv
  BY FS_EmptySet DEF Init, TableInv
<1> QED BY <1>1, TableStep, TypeCorrect, PTL DEF Spec

\* The guard of a save: no step, of any of the eighteen, takes both sides of a
\* live collision off its path (fn release_sole_claim, fn settle).
THEOREM OneSideStays == Spec => OneSideAtATime
<1> DEFINE Stays == \A a, b \in Live(claims, now') :
                      Contend(a, b) =>
                        \E c \in claims' : c.path = a.path /\ c.thread \in {a.thread, b.thread}
<1>1. TypeOK /\ TableInv /\ [Next]_vars => [Stays]_vars
  <2> SUFFICES ASSUME TypeOK, TableInv, [Next]_vars,
                      NEW a \in Live(claims, now'), NEW b \in Live(claims, now'), Contend(a, b)
               PROVE  \E c \in claims' : c.path = a.path /\ c.thread \in {a.thread, b.thread}
    OBVIOUS
  <2>1. CASE Registers
    <3>1. PICK c \in Claims : c.at <= now' /\ claims' = Register(claims, c)
      BY <2>1 DEF Registers
    <3>2. CASE a.path # c.path
      BY <3>1, <3>2 DEF Register, Live
    <3>3. CASE a.path = c.path
      <4>1. PICK x \in {a, b} : x.thread # c.thread
        BY DEF Contend
      <4>2. x \in claims /\ x.path = c.path /\ x.at \in Int /\ now' - x.at <= TTL
        BY <3>3, <4>1 DEF Contend, Live, TypeOK, Claims
      <4>3. now' \in Int /\ c.at \in Int
        BY NextType, TimesAssumption DEF TypeOK, Instant, Claims
      <4>4. c.at - x.at <= TTL
        BY <3>1, <4>2, <4>3, TTLAssumption
      <4>5. x \in claims'
        BY <3>1, <4>1, <4>2, <4>4 DEF Register, Live, ClaimsOn
      <4> QED BY <4>1, <4>2, <4>5, <3>3
    <3> QED BY <3>2, <3>3
  <2>2. CASE Removes
    BY <2>2 DEF Removes, Contend
  <2> QED BY <2>1, <2>2, ClaimSteps DEF TableInv
<1> QED BY <1>1, TableHolds, PTL DEF Spec, OneSideAtATime

-----------------------------------------------------------------------------
\* The links, which a tick recomputes from the table.

LinkInv ==
  /\ \A l \in links : \E a, b \in l.pair : a.thread # b.thread /\ l.pair = {a, b}
  /\ \A l \in links : l.tier # "Critical"
  /\ \A k, l \in links : k.pair = l.pair => k = l

LEMMA HitsOfTable ==
  ASSUME NEW table, \A c \in table : c.lines = NoLines, NEW at
  PROVE  /\ \A l \in Hits(table, at) : \E a, b \in l.pair : a.thread # b.thread /\ l.pair = {a, b}
         /\ \A l \in Hits(table, at) : l.tier # "Critical"
         /\ \A k, l \in Hits(table, at) : k.pair = l.pair => k = l
<1>1. \A l \in Hits(table, at) :
        \E a, b \in table : Contend(a, b) /\ l = [pair |-> {a, b}, tier |-> Tier(a, b)]
  BY DEF Hits, Live
<1>2. \A a, b \in table : Tier(a, b) = IF SameBranch(a, b) THEN "High" ELSE "Medium"
  BY DEF Tier, Overlap
<1>3. \A a, b : SameBranch(a, b) <=> SameBranch(b, a)
  BY DEF SameBranch
<1>4. ASSUME NEW k \in Hits(table, at), NEW l \in Hits(table, at), k.pair = l.pair PROVE k = l
  <2>1. PICK a, b \in table : k = [pair |-> {a, b}, tier |-> Tier(a, b)]
    BY <1>1
  <2>2. PICK c, d \in table : l = [pair |-> {c, d}, tier |-> Tier(c, d)]
    BY <1>1
  <2>3. {a, b} = {c, d}
    BY <1>4, <2>1, <2>2
  <2>4. (a = c /\ b = d) \/ (a = d /\ b = c)
    BY <2>3
  <2>5. Tier(a, b) = Tier(c, d)
    BY <1>2, <1>3, <2>4
  <2> QED BY <2>1, <2>2, <2>3, <2>5
<1> QED BY <1>1, <1>2, <1>4 DEF Contend

LEMMA LinkStep == TypeOK /\ TableInv /\ LinkInv /\ [Next]_vars => LinkInv'
<1> SUFFICES ASSUME TypeOK, TableInv, LinkInv, [Next]_vars PROVE LinkInv'
  OBVIOUS
<1>1. CASE links' = links
  BY <1>1 DEF LinkInv
<1>2. ASSUME NEW at \in Instant, links' = Hits(claims', at) PROVE LinkInv'
  <2>1. \A c \in claims' : c.lines = NoLines
    BY TableStep DEF TableInv
  <2> QED BY <1>2, <2>1, HitsOfTable DEF LinkInv
<1> QED BY <1>1, <1>2, MarkSteps DEF MarkMoves

LEMMA LinksHold == Spec => []LinkInv
<1>1. Init => LinkInv
  BY DEF Init, LinkInv
<1> QED BY <1>1, LinkStep, TableHolds, PTL DEF Spec

\* One claim per thread and path, and a link always joins two threads, for any
\* number of threads, paths, checkouts and branches.
THEOREM OneClaimEach == Spec => []OneClaimPerThread
<1>1. TableInv /\ LinkInv => OneClaimPerThread
  BY DEF TableInv, LinkInv, OneClaimPerThread
<1> QED BY <1>1, TableHolds, LinksHold, PTL

\* No link ever says "clobbering now", whatever ranges the results report.
THEOREM NeverCritical == Spec => []NoLinkIsCritical
<1>1. LinkInv => NoLinkIsCritical
  BY DEF LinkInv, NoLinkIsCritical
<1> QED BY <1>1, LinksHold, PTL

\* Raising a Done mark rewrites the one the thread has.
LEMMA RaiseDoneOnce ==
  ASSUME dones \subseteq [thread : Thread, verified : BOOLEAN, since : Instant],
         \A m, n \in dones : m.thread = n.thread => m = n,
         NEW t \in Thread, NEW v \in BOOLEAN, NEW at \in Instant
  PROVE  \A m, n \in RaiseDone(t, v, at) : m.thread = n.thread => m = n
BY DEF RaiseDone

\* The attention layer says a thing once, for any number of threads and sources.
THEOREM SaidOnce == Spec => []OneMarkPerSubject
<1> DEFINE Once == /\ \A m, n \in pins : m.thread = n.thread /\ m.source = n.source => m = n
                   /\ \A m, n \in dones : m.thread = n.thread => m = n
<1>1. Init => Once
  BY DEF Init
<1>2. TypeOK /\ Once /\ [Next]_vars => Once'
  <2> SUFFICES ASSUME TypeOK, Once, [Next]_vars PROVE Once'
    OBVIOUS
  <2>1. \A m, n \in pins' : m.thread = n.thread /\ m.source = n.source => m = n
    BY MarkSteps DEF MarkMoves, ResolveDecisions, RaiseDecision
  <2>2. \A m, n \in dones' : m.thread = n.thread => m = n
    <3>1. ASSUME NEW t \in Thread, NEW at \in Instant, FinishThread(t, at)
          PROVE  \A m, n \in dones' : m.thread = n.thread => m = n
      <4>1. dones' = RaiseDone(t, IsVerified(t), at)
        BY <3>1 DEF FinishThread
      <4>2. IsVerified(t) \in BOOLEAN
        BY DEF IsVerified
      <4> HIDE DEF Once
      <4>3. Once /\ dones \subseteq [thread : Thread, verified : BOOLEAN, since : Instant]
        BY DEF TypeOK
      <4> QED BY <4>1, <4>2, <4>3, RaiseDoneOnce DEF Once
    <3> QED BY <3>1, MarkSteps DEF MarkMoves
  <2> QED BY <2>1, <2>2
<1>3. Once /\ LinkInv => OneMarkPerSubject
  BY DEF LinkInv, OneMarkPerSubject
<1> QED BY <1>1, <1>2, <1>3, TypeCorrect, LinksHold, PTL DEF Spec

-----------------------------------------------------------------------------
\* What fades by time.  A claim and a Done mark are no younger than the last
\* activity of their thread, up to the lateness of an event.

AgeInv ==
  /\ \A c \in claims : c.at <= now /\ c.at <= active[c.thread] + Skew
  /\ \A m \in dones : m.since <= now /\ m.since <= active[m.thread] + Skew

\* The clock of a thread's activity moves to the instant of an event, which is at
\* most Skew behind the world's.
Stirs == /\ now <= now'
         /\ \A t \in Thread : active'[t] = active[t] \/ active'[t] >= now - Skew

LEMMA Stirring ==
  ASSUME TypeOK, NEW t \in Thread, NEW at \in Instant, Observed(at),
         active' = active \/ active' = [active EXCEPT ![t] = at]
  PROVE  Stirs
<1>1. now <= now' /\ at >= now - Skew
  BY TimesAssumption DEF Observed, Later, Instant, TypeOK
<1> QED BY <1>1 DEF Stirs, TypeOK

LEMMA ActivitySteps == TypeOK /\ [Next]_vars => Stirs
<1> SUFFICES ASSUME TypeOK, [Next]_vars PROVE Stirs
  OBVIOUS
<1>a. now \in Instant
  BY DEF TypeOK
<1>b. ASSUME NEW at \in Instant, Observed(at), active' = active PROVE Stirs
  BY <1>a, <1>b, TimesAssumption DEF Stirs, Observed, Later, Instant
<1>1. CASE UNCHANGED vars
  BY <1>1, <1>a DEF Stirs, vars, core, Instant
<1>2. ASSUME NEW t \in Thread, NEW at \in Instant, Activity(t, at) PROVE Stirs
  BY <1>2, Stirring DEF Activity, Working, Set
<1>3. ASSUME NEW t \in Thread, NEW at \in Instant, FirstSight(t, at) PROVE Stirs
  BY <1>3, Stirring DEF FirstSight, Seen
<1>4. ASSUME NEW t \in Thread, NEW at \in Instant, Answered(t, at) PROVE Stirs
  BY <1>4, Stirring DEF Answered, Working, Set
<1>5. ASSUME NEW t \in Thread, NEW at \in Instant, BlockedOnUser(t, at) PROVE Stirs
  BY <1>5, Stirring DEF BlockedOnUser, Seen
<1>6. ASSUME NEW t \in Thread, NEW at \in Instant, FinishThread(t, at) PROVE Stirs
  BY <1>6, Stirring DEF FinishThread, Set
<1>7. ASSUME NEW t \in Thread, NEW at \in Instant, StopFailure(t, at) PROVE Stirs
  BY <1>7, Stirring DEF StopFailure
<1>8. ASSUME NEW t \in Thread, NEW s \in Source, NEW at \in Instant, NeedsDecision(t, s, at) PROVE Stirs
  BY <1>8, Stirring DEF NeedsDecision, Set
<1>9. ASSUME NEW t \in Thread, NEW p \in Path, NEW at \in Instant, AtMention(t, p, at) PROVE Stirs
  BY <1>9, Stirring DEF AtMention
<1>10. ASSUME NEW t \in Thread, NEW p \in Path, NEW at \in Instant, ReadFile(t, p, at) PROVE Stirs
  BY <1>10, Stirring DEF ReadFile, Working, Set
<1>11. ASSUME NEW t \in Thread, NEW p \in Path, NEW settled \in BOOLEAN, NEW at \in Instant, OtelEdit(t, p, settled, at) PROVE Stirs
  BY <1>11, Stirring DEF OtelEdit, Working, Set
<1>12. ASSUME NEW t \in Thread, NEW p \in Path, NEW w \in Worktree, NEW raw \in Branch \cup {NoBranch}, NEW at \in Instant, PreToolUse(t, p, w, raw, at) PROVE Stirs
  BY <1>12, Stirring DEF PreToolUse, Working, Set
<1>13. ASSUME NEW t \in Thread, NEW p \in Path, NEW w \in Worktree, NEW raw \in Branch \cup {NoBranch},
            NEW id \in Call, NEW at \in Instant, AssistantEdit(t, p, w, raw, id, at) PROVE Stirs
  BY <1>13, Stirring DEF AssistantEdit, Working, Set
<1>14. ASSUME NEW t \in Thread, NEW w \in Worktree, NEW id \in Call, NEW at \in Instant, AssistantTest(t, w, id, at) PROVE Stirs
  BY <1>14, Stirring DEF AssistantTest, Working, Set
<1>15. ASSUME NEW call \in pending, NEW failed \in BOOLEAN, NEW lines \in {{}} \cup {{r} : r \in Ranges},
            NEW at \in Instant, Settle(call, failed, lines, at) PROVE Stirs
  <2>1. call.thread \in Thread
    BY DEF TypeOK, PendingCalls
  <2> QED BY <1>15, <2>1, Stirring DEF Settle, Seen
<1>16. ASSUME NEW p \in Path, NEW at \in Instant, FsWrite(p, at) PROVE Stirs
  BY <1>16, <1>b DEF FsWrite
<1>17. ASSUME NEW p \in Path, NEW at \in Instant, FsRemove(p, at) PROVE Stirs
  BY <1>17, <1>b DEF FsRemove
<1>18. ASSUME NEW from \in Path, NEW to \in Path, NEW at \in Instant, FsRename(from, to, at) PROVE Stirs
  BY <1>18, <1>b DEF FsRename
<1>19. ASSUME NEW at \in Instant, Tick(at) PROVE Stirs
  BY <1>19 DEF Tick, Stirs
<1> QED BY <1>1, <1>2, <1>3, <1>4, <1>5, <1>6, <1>7, <1>8, <1>9, <1>10, <1>11, <1>12, <1>13, <1>14, <1>15, <1>16, <1>17, <1>18, <1>19 DEF Next

LEMMA AgeStep == TypeOK /\ TableInv /\ AgeInv /\ [Next]_vars => AgeInv'
<1> SUFFICES ASSUME TypeOK, TableInv, AgeInv, [Next]_vars PROVE AgeInv'
  OBVIOUS
<1>1. TypeOK' /\ Stirs
  BY NextType, ActivitySteps
<1>2. now \in Int /\ now' \in Int /\ Skew \in Nat /\ now <= now'
  BY <1>1, TimesAssumption DEF TypeOK, Instant, Stirs
<1>3. \A t \in Thread : active[t] \in Int /\ active'[t] \in Int
  BY <1>1, TimesAssumption DEF TypeOK, Instant, Never
\* What was old enough stays old enough.
<1>4. ASSUME NEW t \in Thread, NEW at \in Int, at <= now, at <= active[t] + Skew
      PROVE  at <= now' /\ at <= active'[t] + Skew
  BY <1>1, <1>2, <1>3, <1>4 DEF Stirs
<1>5. \A c \in claims' : c.at <= now' /\ c.at <= active'[c.thread] + Skew
  <2>1. \A c \in claims : c.at \in Int /\ c.thread \in Thread
    BY DEF TypeOK, Claims
  <2>2. \A c \in claims : c.at <= now' /\ c.at <= active'[c.thread] + Skew
    BY <1>4, <2>1 DEF AgeInv
  <2>3. CASE Registers
    <3>1. PICK c \in Claims : /\ c.at <= now' /\ c.at = active'[c.thread]
                              /\ claims' = Register(claims, c)
      BY <2>3 DEF Registers
    <3>2. c.thread \in Thread
      BY DEF Claims
    <3>3. c.at <= active'[c.thread] + Skew
      BY <1>2, <1>3, <3>1, <3>2
    <3>4. claims' \subseteq claims \cup {c}
      BY <3>1 DEF Register, Live, ClaimsOn
    <3> QED BY <2>2, <3>1, <3>3, <3>4
  <2>4. CASE Removes
    BY <2>2, <2>4 DEF Removes
  <2> QED BY <2>3, <2>4, ClaimSteps DEF TableInv
<1>6. \A m \in dones' : m.since <= now' /\ m.since <= active'[m.thread] + Skew
  <2>1. \A m \in dones : m.since \in Int /\ m.thread \in Thread
    BY TimesAssumption DEF TypeOK, Instant
  <2>2. \A m \in dones : m.since <= now' /\ m.since <= active'[m.thread] + Skew
    BY <1>4, <2>1 DEF AgeInv
  <2>3. ASSUME NEW t \in Thread, NEW at \in Instant, FinishThread(t, at)
        PROVE  \A m \in dones' : m.since <= now' /\ m.since <= active'[m.thread] + Skew
    <3>1. dones' = RaiseDone(t, IsVerified(t), at) /\ active'[t] = at /\ Observed(at)
      BY <2>3 DEF FinishThread, Set, TypeOK
    <3>2. at <= now' /\ at <= active'[t] + Skew
      BY <1>2, <1>3, <3>1, EventsAreInstants DEF TypeOK
    <3>3. ASSUME NEW m \in dones'
          PROVE  \/ m.thread = t /\ m.since = at
                 \/ \E k \in dones : m.thread = k.thread /\ m.since = k.since
      <4> DEFINE v == IsVerified(t)
      <4>1. \A k \in dones : [k EXCEPT !.verified = v].thread = k.thread
                           /\ [k EXCEPT !.verified = v].since = k.since
        BY DEF TypeOK
      <4>2. dones' = RaiseDone(t, v, at)
        BY <3>1
      <4> HIDE DEF v
      <4>3. CASE \E k \in dones : k.thread = t
        <5>1. PICK k \in dones : m = IF k.thread = t THEN [k EXCEPT !.verified = v] ELSE k
          BY <3>3, <4>2, <4>3 DEF RaiseDone
        <5> QED BY <4>1, <5>1
      <4>4. CASE ~\E k \in dones : k.thread = t
        <5>1. m \in dones \/ m = [thread |-> t, verified |-> v, since |-> at]
          BY <3>3, <4>2, <4>4 DEF RaiseDone
        <5> QED BY <5>1
      <4> QED BY <4>3, <4>4
    <3> QED BY <2>2, <3>2, <3>3
  <2>4. CASE \E at \in Instant : dones' = {m \in dones : ~Spent(m, at)}
    BY <2>2, <2>4
  <2> QED BY <2>2, <2>3, <2>4, MarkSteps DEF MarkMoves
<1> QED BY <1>5, <1>6 DEF AgeInv

\* A single tick past every threshold leaves nothing that fades by time, for any
\* thresholds, any lateness and any number of threads.
THEOREM OneTick == Spec => OneTickSettles
<1> DEFINE Settles == \A at \in Instant : Tick(at) /\ (\A t \in Thread : LongSilent(t, at)) => Quiet'
<1>1. Init => AgeInv
  BY DEF Init, AgeInv
<1>2. TypeOK /\ AgeInv /\ [Next]_vars => [Settles]_vars
  <2> SUFFICES ASSUME TypeOK, AgeInv, NEW at \in Instant, Tick(at), \A t \in Thread : LongSilent(t, at)
               PROVE  Quiet'
    OBVIOUS
  <2>1. /\ \A t \in Thread : active[t] \in Int
        /\ at \in Int /\ TTL \in Nat /\ {IdleAfter, FullWeight, Decay, Skew} \subseteq Nat
    BY TTLAssumption, TimesAssumption DEF TypeOK, Instant, Never
  <2>2. \A t \in Thread : /\ at - active[t] > TTL + Skew /\ at - active[t] > IdleAfter + Skew
                          /\ at - active[t] > FullWeight + Skew
                          /\ at - active[t] > FullWeight + Decay + Skew
    BY DEF LongSilent
  <2>3. claims' = {}
    <3>1. \A c \in claims : c.at \in Int /\ c.thread \in Thread /\ c.at <= active[c.thread] + Skew
      BY DEF TypeOK, Claims, AgeInv
    <3>2. \A c \in claims : ~(at - c.at <= TTL)
      BY <2>1, <2>2, <3>1
    <3> QED BY <3>2 DEF Tick, Live
  <2>4. links' = {}
    BY <2>3 DEF Tick, Hits, Live
  <2>5. \A m \in dones' : ~m.verified
    <3>1. \A m \in dones : m.since \in Int /\ m.thread \in Thread /\ m.since <= active[m.thread] + Skew
      BY TimesAssumption DEF TypeOK, Instant, AgeInv
    <3>2. \A m \in dones : at - m.since > FullWeight /\ at - m.since >= FullWeight + Decay
      BY <2>1, <2>2, <3>1
    <3> QED BY <3>2 DEF Tick, Spent
  <2>6. \A t \in Thread : status'[t] # "Working"
    <3>1. \A t \in Thread : at - active[t] > IdleAfter
      BY <2>1, <2>2
    <3> QED BY <3>1 DEF Tick, Silent
  <2> QED BY <2>3, <2>4, <2>5, <2>6 DEF Quiet
<1> QED BY <1>1, <1>2, AgeStep, TableHolds, PTL DEF Spec, OneTickSettles

=============================================================================
