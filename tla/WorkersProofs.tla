--------------------------- MODULE WorkersProofs ----------------------------
(***************************************************************************)
(* Theorems about Workers for every set of threads, workers and runs.      *)
(* Every message either attaches its worker to its own session with some   *)
(* evidence, or parks it, or makes a run known; where a worker stands is   *)
(* then a matter of which messages were heard.                             *)
(***************************************************************************)
EXTENDS Workers, TLAPS, FiniteSetTheorems

Levels == Unknown..RecordAgentId

Stronger(a, b) == IF a > b THEN a ELSE b

\* The worker is in its session, by the stronger of what is held and "how".
Attaches(w, how) ==
  \E m \in Members : m.how = Stronger(how, team[Home[w]][w].how) /\ AttachWorker(Home[w], w, m)

\* The evidence that each kind of message may carry.
Carries(kind, how) ==
  \/ kind \in {"Hook", "Stop"} /\ how = RecordAgentId
  \/ kind = "Record" /\ how \in {WorkflowRun, RecordAgentId}
  \/ kind = "BareRecord" /\ how \in {TranscriptFile, WorkflowRun}
  \/ kind \in {"Launched", "Completed"} /\ how = SpawnToolUse
  \/ kind \in {"Started", "Result"} /\ how = WorkflowRun

\* The parking list is what the journals left there, and a known run names the
\* session of all its workers.
ParkInv ==
  /\ IsFiniteSet(parked)
  /\ \A u \in parked : u.run = RunOf[u.worker]
  /\ \A w \in Worker : RunOf[w] \in Run => runs[RunOf[w]] \subseteq {Home[w]}

Inv == TypeOK /\ ParkInv /\ PlacedOrParked

-----------------------------------------------------------------------------
\* What the helpers return.

LEMMA MemberUpdates ==
  \A m \in Members, r \in Run \cup {NoRun}, b \in BOOLEAN :
    /\ [m EXCEPT !.running = b] \in Members /\ [m EXCEPT !.running = b].how = m.how
    /\ [m EXCEPT !.run = r] \in Members /\ [m EXCEPT !.run = r].how = m.how
    /\ [m EXCEPT !.run = r, !.running = b] \in Members /\ [m EXCEPT !.run = r, !.running = b].how = m.how
BY DEF Members

LEMMA JoinedFacts ==
  ASSUME NEW m \in Members, NEW how \in Levels
  PROVE  Joined(m, how) \in Members /\ Joined(m, how).how = Stronger(how, m.how)
<1> DEFINE h == Upgrade(m.how, how)
           on == IF m.how = Unknown THEN TRUE ELSE m.running
<1>1. m.how \in Levels /\ m.running \in BOOLEAN
  BY DEF Members, Levels
<1>2. h = Stronger(how, m.how) /\ h \in Levels
  BY <1>1 DEF Upgrade, Stronger
<1>3. on \in BOOLEAN
  BY <1>1, Zenon
<1>4. Joined(m, how) = [m EXCEPT !.how = h, !.running = on]
  BY DEF Joined
<1> HIDE DEF h, on
<1>5. \A x \in Levels, b \in BOOLEAN :
        [m EXCEPT !.how = x, !.running = b] \in Members /\ [m EXCEPT !.how = x, !.running = b].how = x
  BY DEF Members, Levels
<1>6. [m EXCEPT !.how = h, !.running = on] \in Members /\ [m EXCEPT !.how = h, !.running = on].how = h
  BY <1>2, <1>3, <1>5, Zenon
<1> QED BY <1>2, <1>4, <1>6, Zenon

LEMMA LevelFacts ==
  /\ {Unknown, TranscriptFile, WorkflowRun, SpawnToolUse, RecordAgentId} \subseteq Levels
  /\ \A a \in Levels : a \in Int /\ 0 <= a /\ a <= 4
BY DEF Levels, Unknown, TranscriptFile, WorkflowRun, SpawnToolUse, RecordAgentId

LEMMA HeardType ==
  ASSUME heard \subseteq Messages, NEW w \in Worker, NEW kind, Hear(kind, w)
  PROVE  heard' \subseteq Messages
<1> DEFINE Of(v) == [kind : KindsOf(v), worker : {v}]
<1>1. [kind |-> kind, worker |-> w] \in Of(w)
  BY DEF Hear
<1>2. Of(w) \subseteq Messages
  <2> HIDE DEF Of
  <2>1. Of(w) \subseteq UNION {Of(v) : v \in Worker}
    BY Zenon
  <2> QED BY <2>1 DEF Messages, Of
<1> HIDE DEF Of
<1>3. [kind |-> kind, worker |-> w] \in Messages
  BY <1>1, <1>2, Zenon
<1> QED BY <1>3 DEF Hear

\* What is said of a worker grows with its messages and with nothing else.
LEMMA SaidGrows ==
  ASSUME NEW w \in Worker, NEW kind, Hear(kind, w)
  PROVE  \A v \in Worker, kinds \in SUBSET Kinds :
           Said(v, kinds)' <=> Said(v, kinds) \/ (v = w /\ kind \in kinds)
BY DEF Hear, Said

-----------------------------------------------------------------------------
\* What a message does.

\* It attaches its worker, or parks it, or makes a run known.
Places ==
  \E w \in Worker, kind \in Kinds, how \in Levels :
    Hear(kind, w) /\ Carries(kind, how) /\ Attaches(w, how) /\ UNCHANGED runs

Parks ==
  \E w \in Worker, kind \in {"Started", "Result"} :
    /\ Hear(kind, w) /\ runs[RunOf[w]] = {} /\ ThreadsOf(w) = {}
    /\ Park(w, RunOf[w]) /\ UNCHANGED <<team, runs>>

LEMMA MemberOfTeam ==
  ASSUME TypeOK, NEW w \in Worker
  PROVE  Home[w] \in Thread /\ team[Home[w]][w] \in Members /\ RunOf[w] \in Run \cup {NoRun}
BY HomeAssumption, RunOfAssumption DEF TypeOK

LEMMA JournalSteps ==
  ASSUME Inv, NEW w \in Worker, NEW finished \in BOOLEAN, Journal(w, finished)
  PROVE  Places \/ Parks
<1> DEFINE kind == IF finished THEN "Result" ELSE "Started"
<1>1. kind \in {"Started", "Result"} /\ kind \in Kinds /\ Hear(kind, w) /\ UNCHANGED runs
  BY DEF Journal, Kinds
<1> HIDE DEF kind
<1>2. RunOf[w] \in Run
  BY <1>1, MemberOfTeam DEF Hear, KindsOf, Inv
<1>3. CASE Placements(w) = {} /\ Park(w, RunOf[w]) /\ UNCHANGED team
  BY <1>1, <1>3 DEF Parks, Placements
<1>4. ASSUME NEW t \in Placements(w),
             AttachWorker(t, w, [Joined(team[t][w], WorkflowRun) EXCEPT !.run = RunOf[w], !.running = ~finished])
      PROVE  Places
  <2>1. t = Home[w]
    BY <1>2 DEF Placements, Inv, ParkInv, PlacedOrParked
  <2> DEFINE old == team[Home[w]][w]
             b == ~finished
             m == [Joined(old, WorkflowRun) EXCEPT !.run = RunOf[w], !.running = b]
  <2>2. old \in Members /\ RunOf[w] \in Run \cup {NoRun} /\ b \in BOOLEAN /\ WorkflowRun \in Levels
    BY MemberOfTeam, LevelFacts DEF Inv
  <2>3. AttachWorker(Home[w], w, m)
    BY <1>4, <2>1
  <2> HIDE DEF old, b
  <2>4. Joined(old, WorkflowRun) \in Members /\ Joined(old, WorkflowRun).how = Stronger(WorkflowRun, old.how)
    BY <2>2, JoinedFacts
  <2>5. m \in Members /\ m.how = Stronger(WorkflowRun, old.how)
    BY <2>2, <2>4, MemberUpdates, Zenon
  <2>6. Attaches(w, WorkflowRun)
    BY <2>3, <2>5 DEF Attaches, old
  <2> QED BY <1>1, <2>2, <2>6 DEF Places, Carries
<1> QED BY <1>3, <1>4 DEF Journal

LEMMA Steps ==
  Inv /\ [Next]_vars => Places \/ Parks \/ (\E r \in Run : WorkflowResult(r)) \/ UNCHANGED vars
<1> SUFFICES ASSUME Inv, Next
             PROVE  Places \/ Parks \/ \E r \in Run : WorkflowResult(r)
  OBVIOUS
<1>a. \A w \in Worker : team[Home[w]][w] \in Members /\ RunOf[w] \in Run \cup {NoRun}
  BY MemberOfTeam DEF Inv
<1>1. ASSUME NEW w \in Worker, HookOf(w) PROVE Places
  <2>1. Attaches(w, RecordAgentId)
    BY <1>1, <1>a, JoinedFacts, LevelFacts DEF HookOf, Attaches
  <2>2. Hear("Hook", w) /\ UNCHANGED runs /\ "Hook" \in Kinds
    BY <1>1 DEF HookOf, Kinds
  <2> QED BY <2>1, <2>2, LevelFacts DEF Places, Carries
<1>2. ASSUME NEW w \in Worker, StopOf(w) PROVE Places
  <2> DEFINE old == team[Home[w]][w]
  <2>1. old \in Members /\ RecordAgentId \in Levels
    BY <1>a, LevelFacts
  <2>2. AttachWorker(Home[w], w, [Joined(old, RecordAgentId) EXCEPT !.running = FALSE])
    BY <1>2 DEF StopOf
  <2> HIDE DEF old
  <2>3. Joined(old, RecordAgentId) \in Members /\ Joined(old, RecordAgentId).how = Stronger(RecordAgentId, old.how)
    BY <2>1, JoinedFacts
  <2>4. /\ [Joined(old, RecordAgentId) EXCEPT !.running = FALSE] \in Members
        /\ [Joined(old, RecordAgentId) EXCEPT !.running = FALSE].how = Stronger(RecordAgentId, old.how)
    <3>1. NoRun \in Run \cup {NoRun} /\ FALSE \in BOOLEAN
      OBVIOUS
    <3> QED BY <2>3, <3>1, MemberUpdates, Zenon
  <2>5. Attaches(w, RecordAgentId)
    BY <2>2, <2>4 DEF Attaches, old
  <2>6. Hear("Stop", w) /\ UNCHANGED runs /\ "Stop" \in Kinds
    BY <1>2 DEF StopOf, Kinds
  <2> QED BY <2>1, <2>5, <2>6 DEF Places, Carries
<1>3. ASSUME NEW w \in Worker, NEW own \in BOOLEAN, RecordOf(w, own) PROVE Places
  <2> DEFINE old == team[Home[w]][w]
             how == Evidence(w, own)
             kind == IF own THEN "Record" ELSE "BareRecord"
  <2>1. old \in Members /\ how \in Levels /\ Carries(kind, how) /\ kind \in Kinds
    BY <1>a, LevelFacts DEF Evidence, Carries, Kinds
  <2>2. /\ AttachWorker(Home[w], w, [Joined(old, how) EXCEPT !.run = RunOf[w]])
        /\ Hear(kind, w) /\ UNCHANGED runs
    BY <1>3 DEF RecordOf
  <2> HIDE DEF old, how, kind
  <2>3. Joined(old, how) \in Members /\ Joined(old, how).how = Stronger(how, old.how)
    BY <2>1, JoinedFacts
  <2>4. /\ [Joined(old, how) EXCEPT !.run = RunOf[w]] \in Members
        /\ [Joined(old, how) EXCEPT !.run = RunOf[w]].how = Stronger(how, old.how)
    <3>1. FALSE \in BOOLEAN
      OBVIOUS
    <3> QED BY <1>a, <2>3, <3>1, MemberUpdates, Zenon
  <2>5. Attaches(w, how)
    BY <2>2, <2>4 DEF Attaches, old
  <2> QED BY <2>1, <2>2, <2>5 DEF Places
<1>4. ASSUME NEW w \in Worker, NEW completed \in BOOLEAN, SpawnResult(w, completed) PROVE Places
  <2> DEFINE old == team[Home[w]][w]
             b == ~completed
             kind == IF completed THEN "Completed" ELSE "Launched"
  <2>1. old \in Members /\ SpawnToolUse \in Levels /\ Carries(kind, SpawnToolUse) /\ kind \in Kinds /\ b \in BOOLEAN
    BY <1>a, LevelFacts DEF Carries, Kinds
  <2>2. /\ AttachWorker(Home[w], w, [Joined(old, SpawnToolUse) EXCEPT !.running = b])
        /\ Hear(kind, w) /\ UNCHANGED runs
    BY <1>4 DEF SpawnResult
  <2> HIDE DEF old, b, kind
  <2>3. Joined(old, SpawnToolUse) \in Members /\ Joined(old, SpawnToolUse).how = Stronger(SpawnToolUse, old.how)
    BY <2>1, JoinedFacts
  <2>4. /\ [Joined(old, SpawnToolUse) EXCEPT !.running = b] \in Members
        /\ [Joined(old, SpawnToolUse) EXCEPT !.running = b].how = Stronger(SpawnToolUse, old.how)
    <3>1. NoRun \in Run \cup {NoRun}
      OBVIOUS
    <3> QED BY <2>1, <2>3, <3>1, MemberUpdates, Zenon
  <2>5. Attaches(w, SpawnToolUse)
    BY <2>2, <2>4 DEF Attaches, old
  <2> QED BY <2>1, <2>2, <2>5 DEF Places
<1>5. ASSUME NEW w \in Worker, NEW b \in BOOLEAN, Journal(w, b) PROVE Places \/ Parks
  BY <1>5, JournalSteps
<1> QED BY <1>1, <1>2, <1>3, <1>4, <1>5 DEF Next

\* Run r becomes known as one of the session of w: its parked workers join that
\* session, and they alone.
Adopts(r, w) ==
  /\ RunOf[w] = r
  /\ runs' = [runs EXCEPT ![r] = {Home[w]}]
  /\ parked' = {u \in parked : u.run # r}
  /\ counted' = IF parked' # parked THEN Cardinality(parked') ELSE counted
  /\ team' \in [Thread -> [Worker -> Members]]
  /\ \A t \in Thread, v \in Worker :
       \/ team'[t][v] = team[t][v] /\ ~(t = Home[w] /\ \E u \in parked : u.worker = v /\ u.run = r)
       \/ t = Home[v] /\ RunOf[v] = r /\ team[t][v].how = Unknown /\ team'[t][v].how = WorkflowRun
  /\ heard' = heard \cup {[kind |-> "Workflow", run |-> r]}
  /\ [kind |-> "Workflow", run |-> r] \in Messages

LEMMA AdoptFacts ==
  ASSUME Inv, NEW r \in Run, WorkflowResult(r)
  PROVE  \E w \in Worker : Adopts(r, w)
<1>1. PICK w \in Worker : RunOf[w] = r /\ runs' = [runs EXCEPT ![r] = {Home[w]}] /\ Adopt(r, Home[w])
  BY DEF WorkflowResult
<1> DEFINE adopted == {u.worker : u \in {v \in parked : v.run = r}}
           joined(v) == [Joined(team[Home[w]][v], WorkflowRun) EXCEPT !.run = r]
<1>2. \A u \in parked : u.worker \in adopted <=> u.run = r
  BY DEF Inv, PlacedOrParked
<1>3. parked' = {u \in parked : u.worker \notin adopted}
      /\ counted' = (IF adopted # {} THEN Cardinality(parked') ELSE counted)
      /\ team' = [team EXCEPT ![Home[w]] = [v \in Worker |->
                    IF v \in adopted THEN joined(v) ELSE team[Home[w]][v]]]
  BY <1>1 DEF Adopt
<1>4. \A v \in adopted : /\ v \in Worker /\ RunOf[v] = r /\ Home[v] = Home[w]
                         /\ team[Home[w]][v] \in Members /\ team[Home[w]][v].how = Unknown
  <2> TAKE v \in adopted
  <2>1. PICK u \in parked : u.worker = v /\ u.run = r
    OBVIOUS
  <2>2. v \in Worker /\ RunOf[v] = r
    BY <2>1 DEF Inv, ParkInv, TypeOK
  <2>3. Home[v] = Home[w]
    BY <1>1, <2>2, RunHasOneParent, NoRunAssumption
  <2>4. ThreadsOf(v) = {} /\ Home[w] \in Thread
    BY <2>1, <1>1, MemberOfTeam DEF Inv, PlacedOrParked
  <2> QED BY <2>2, <2>3, <2>4, MemberOfTeam DEF ThreadsOf, Held, Inv
<1>5. \A v \in adopted : joined(v) \in Members /\ joined(v).how = WorkflowRun
  <2> TAKE v \in adopted
  <2> DEFINE old == team[Home[w]][v]
  <2>1. old \in Members /\ old.how = Unknown /\ WorkflowRun \in Levels
    BY <1>4, LevelFacts
  <2> HIDE DEF old
  <2>2. Joined(old, WorkflowRun) \in Members /\ Joined(old, WorkflowRun).how = WorkflowRun
    BY <2>1, JoinedFacts DEF Stronger, Unknown, WorkflowRun
  <2>3. r \in Run \cup {NoRun} /\ FALSE \in BOOLEAN
    OBVIOUS
  <2>4. /\ [Joined(old, WorkflowRun) EXCEPT !.run = r] \in Members
        /\ [Joined(old, WorkflowRun) EXCEPT !.run = r].how = WorkflowRun
    BY <2>2, <2>3, MemberUpdates, Zenon
  <2> QED BY <2>4 DEF old
<1>6. Home[w] \in Thread /\ team \in [Thread -> [Worker -> Members]]
  BY MemberOfTeam DEF Inv, TypeOK
<1> HIDE DEF joined, adopted
<1>7. /\ team' \in [Thread -> [Worker -> Members]]
      /\ \A t \in Thread, v \in Worker :
           team'[t][v] = IF t = Home[w] /\ v \in adopted THEN joined(v) ELSE team[t][v]
  BY <1>3, <1>4, <1>5, <1>6
<1>8. \A t \in Thread, v \in Worker :
        \/ team'[t][v] = team[t][v] /\ ~(t = Home[w] /\ \E u \in parked : u.worker = v /\ u.run = r)
        \/ t = Home[v] /\ RunOf[v] = r /\ team[t][v].how = Unknown /\ team'[t][v].how = WorkflowRun
  BY <1>2, <1>4, <1>5, <1>7
<1>9. parked' = {u \in parked : u.run # r}
  BY <1>2, <1>3
<1>10. adopted # {} <=> parked' # parked
  BY <1>2, <1>3 DEF adopted
<1>11. heard' = heard \cup {[kind |-> "Workflow", run |-> r]} /\ [kind |-> "Workflow", run |-> r] \in Messages
  BY DEF WorkflowResult
<1>12. counted' = IF parked' # parked THEN Cardinality(parked') ELSE counted
  BY <1>3, <1>10
<1>13. Adopts(r, w)
  BY <1>1, <1>7, <1>8, <1>9, <1>11, <1>12 DEF Adopts
<1> QED BY <1>13

LEMMA CarriesSome == \A kind, how : Carries(kind, how) => how \in Levels /\ how # Unknown
BY LevelFacts DEF Carries, Unknown, TranscriptFile, WorkflowRun, SpawnToolUse, RecordAgentId

LEMMA AttachFacts ==
  ASSUME Inv, NEW w \in Worker, NEW how \in Levels, Attaches(w, how)
  PROVE  /\ parked' = {u \in parked : u.worker # w}
         /\ counted' = IF parked' # parked THEN Cardinality(parked') ELSE counted
         /\ team' \in [Thread -> [Worker -> Members]]
         /\ \A t \in Thread, v \in Worker :
              team'[t][v].how = IF t = Home[w] /\ v = w THEN Stronger(how, team[t][v].how)
                                ELSE team[t][v].how
<1>1. PICK m \in Members : m.how = Stronger(how, team[Home[w]][w].how) /\ AttachWorker(Home[w], w, m)
  BY DEF Attaches
<1>2. team' = [team EXCEPT ![Home[w]][w] = m] /\ Unpark(w)
  BY <1>1 DEF AttachWorker
<1>3. Home[w] \in Thread /\ team \in [Thread -> [Worker -> Members]]
  BY MemberOfTeam DEF Inv, TypeOK
<1>4. /\ team' \in [Thread -> [Worker -> Members]]
      /\ \A t \in Thread, v \in Worker :
           team'[t][v] = IF t = Home[w] /\ v = w THEN m ELSE team[t][v]
  BY <1>2, <1>3
<1>5. \A t \in Thread, v \in Worker :
        team'[t][v].how = IF t = Home[w] /\ v = w THEN Stronger(how, team[t][v].how)
                          ELSE team[t][v].how
  BY <1>1, <1>4
<1> QED BY <1>2, <1>4, <1>5 DEF Unpark

LEMMA ParkFacts ==
  ASSUME Inv, NEW w \in Worker, NEW r, Park(w, r)
  PROVE  /\ IsFiniteSet(parked') /\ counted' = Cardinality(parked') /\ counted' \in Nat
         /\ parked' = {u \in parked : u.worker # w} \cup {[worker |-> w, run |-> r]}
<1> DEFINE rest == {u \in parked : u.worker # w}
<1>1. IsFiniteSet(rest)
  BY FS_Subset DEF Inv, ParkInv
<1>2. parked' = rest \cup {[worker |-> w, run |-> r]} /\ counted' = Cardinality(parked')
  BY DEF Park
<1>3. IsFiniteSet(parked')
  BY <1>1, <1>2, FS_AddElement
<1>4. Cardinality(parked') \in Nat
  BY <1>3, FS_CardinalityType
<1> QED BY <1>2, <1>3, <1>4

LEMMA FewerParked ==
  ASSUME Inv, parked' \subseteq parked,
         counted' = IF parked' # parked THEN Cardinality(parked') ELSE counted
  PROVE  IsFiniteSet(parked') /\ counted' \in Nat /\ (CountIsCurrent => CountIsCurrent')
<1>1. IsFiniteSet(parked')
  BY FS_Subset DEF Inv, ParkInv
<1>2. Cardinality(parked') \in Nat
  BY <1>1, FS_CardinalityType
<1> QED BY <1>1, <1>2 DEF Inv, TypeOK, CountIsCurrent

-----------------------------------------------------------------------------
\* The invariant.

LEMMA InitInv == Init => Inv /\ CountIsCurrent
<1> SUFFICES ASSUME Init PROVE Inv /\ CountIsCurrent
  OBVIOUS
<1>1. NoMember \in Members /\ NoMember.how = Unknown
  BY DEF NoMember, Members, Unknown, RecordAgentId
<1>2. TypeOK
  BY <1>1 DEF Init, TypeOK
<1>3. \A t \in Thread, w \in Worker : ~Held(t, w)
  BY <1>1 DEF Init, Held
<1>4. ParkInv
  BY FS_EmptySet DEF Init, ParkInv
<1>5. PlacedOrParked
  BY <1>3 DEF Init, PlacedOrParked, ThreadsOf
<1> QED BY <1>2, <1>4, <1>5, FS_EmptySet DEF Inv, CountIsCurrent, Init

LEMMA PlacesInv == Inv /\ Places => Inv' /\ (CountIsCurrent => CountIsCurrent')
<1> SUFFICES ASSUME Inv, Places PROVE Inv' /\ (CountIsCurrent => CountIsCurrent')
  OBVIOUS
<1>1. PICK w \in Worker, kind \in Kinds, how \in Levels :
        Hear(kind, w) /\ Carries(kind, how) /\ Attaches(w, how) /\ UNCHANGED runs
  BY DEF Places
<1>2. parked' = {u \in parked : u.worker # w} /\ team' \in [Thread -> [Worker -> Members]]
  BY <1>1, AttachFacts
<1>3. IsFiniteSet(parked') /\ counted' \in Nat /\ (CountIsCurrent => CountIsCurrent')
  BY <1>1, <1>2, AttachFacts, FewerParked
<1>4. heard' \subseteq Messages
  BY <1>1, HeardType DEF Inv, TypeOK
<1>5. TypeOK'
  BY <1>1, <1>2, <1>3, <1>4 DEF Inv, TypeOK
<1>6. ParkInv'
  BY <1>1, <1>2, <1>3 DEF Inv, ParkInv
<1>7. \A t \in Thread, v \in Worker : ~(t = Home[w] /\ v = w) => (Held(t, v)' <=> Held(t, v))
  BY <1>1, AttachFacts DEF Held
<1>8. PlacedOrParked'
  BY <1>2, <1>7 DEF Inv, PlacedOrParked, ThreadsOf, TypeOK
<1> QED BY <1>3, <1>5, <1>6, <1>8 DEF Inv

LEMMA ParksInv == Inv /\ Parks => Inv' /\ CountIsCurrent'
<1> SUFFICES ASSUME Inv, Parks PROVE Inv' /\ CountIsCurrent'
  OBVIOUS
<1>1. PICK w \in Worker, kind \in {"Started", "Result"} :
        /\ Hear(kind, w) /\ runs[RunOf[w]] = {} /\ ThreadsOf(w) = {}
        /\ Park(w, RunOf[w]) /\ UNCHANGED <<team, runs>>
  BY DEF Parks
<1>2. RunOf[w] \in Run
  BY <1>1, MemberOfTeam DEF Hear, KindsOf, Inv
<1>3. /\ IsFiniteSet(parked') /\ counted' = Cardinality(parked') /\ counted' \in Nat
      /\ parked' = {u \in parked : u.worker # w} \cup {[worker |-> w, run |-> RunOf[w]]}
  BY <1>1, ParkFacts
<1>4. heard' \subseteq Messages
  BY <1>1, HeardType DEF Inv, TypeOK
<1>5. TypeOK'
  BY <1>1, <1>2, <1>3, <1>4 DEF Inv, TypeOK
<1>6. ParkInv'
  BY <1>1, <1>3 DEF Inv, ParkInv
<1>7. PlacedOrParked'
  BY <1>1, <1>3 DEF Inv, PlacedOrParked, ThreadsOf, Held
<1> QED BY <1>3, <1>5, <1>6, <1>7 DEF Inv, CountIsCurrent

LEMMA AdoptsInv ==
  ASSUME Inv, NEW r \in Run, NEW w \in Worker, Adopts(r, w)
  PROVE  Inv' /\ (CountIsCurrent => CountIsCurrent')
<1>1. IsFiniteSet(parked') /\ counted' \in Nat /\ (CountIsCurrent => CountIsCurrent')
  BY FewerParked DEF Adopts
<1>2. Home[w] \in Thread
  BY MemberOfTeam DEF Inv
<1>3. TypeOK'
  BY <1>1, <1>2 DEF Inv, TypeOK, Adopts
<1>4. \A v \in Worker : RunOf[v] = r => Home[v] = Home[w]
  BY RunHasOneParent, NoRunAssumption DEF Adopts
<1>5. ParkInv'
  BY <1>1, <1>4 DEF Inv, ParkInv, Adopts, TypeOK
<1>6. ASSUME NEW u \in parked' PROVE ThreadsOf(u.worker)' = {}
  <2>1. u \in parked /\ u.run # r /\ u.worker \in Worker /\ RunOf[u.worker] # r
    BY <1>6 DEF Adopts, Inv, ParkInv, TypeOK
  <2>2. \A t \in Thread : team'[t][u.worker] = team[t][u.worker]
    BY <2>1 DEF Adopts
  <2> QED BY <2>1, <2>2 DEF Inv, PlacedOrParked, ThreadsOf, Held
<1>7. ASSUME NEW v \in Worker PROVE ThreadsOf(v)' \subseteq {Home[v]}
  <2>1. \A t \in Thread : team'[t][v] = team[t][v] \/ t = Home[v]
    BY DEF Adopts
  <2> QED BY <2>1 DEF Inv, PlacedOrParked, ThreadsOf, Held
<1>8. PlacedOrParked'
  BY <1>6, <1>7 DEF Inv, PlacedOrParked, Adopts
<1> QED BY <1>1, <1>3, <1>5, <1>8 DEF Inv

LEMMA NextInv == Inv /\ CountIsCurrent /\ [Next]_vars => Inv' /\ CountIsCurrent'
<1> SUFFICES ASSUME Inv, CountIsCurrent, [Next]_vars PROVE Inv' /\ CountIsCurrent'
  OBVIOUS
<1>1. CASE UNCHANGED vars
  BY <1>1 DEF vars, Inv, TypeOK, ParkInv, PlacedOrParked, ThreadsOf, Held, CountIsCurrent
<1>2. ASSUME NEW r \in Run, WorkflowResult(r) PROVE Inv' /\ CountIsCurrent'
  BY <1>2, AdoptFacts, AdoptsInv
<1> QED BY <1>1, <1>2, Steps, PlacesInv, ParksInv

LEMMA InvHolds == Spec => [](Inv /\ CountIsCurrent)
BY InitInv, NextInv, PTL DEF Spec

\* Every variable keeps its type, for any workers, threads and runs.
THEOREM TypeCorrect == Spec => []TypeOK
<1>1. Inv => TypeOK
  BY DEF Inv
<1> QED BY <1>1, InvHolds, PTL

\* A worker is never both placed and parked, and never in a session other than
\* its own, in whatever order four channels report on it.
THEOREM PlacedOnce == Spec => []PlacedOrParked
<1>1. Inv => PlacedOrParked
  BY DEF Inv
<1> QED BY <1>1, InvHolds, PTL

\* The health line counts exactly the workers that are parked.
THEOREM CountCorrect == Spec => []CountIsCurrent
BY InvHolds, PTL

\* Evidence only gets stronger (upgrade_attribution), in every thread.
THEOREM EvidenceOnlyGrows == Spec => EvidenceGrows
<1> DEFINE Grows == \A t \in Thread, w \in Worker : team'[t][w].how >= team[t][w].how
<1>1. Inv /\ [Next]_vars => [Grows]_vars
  <2> SUFFICES ASSUME Inv, [Next]_vars, NEW t \in Thread, NEW v \in Worker, ~UNCHANGED vars
               PROVE  team'[t][v].how >= team[t][v].how
    OBVIOUS
  <2>1. team[t][v].how \in Int /\ 0 <= team[t][v].how
    BY DEF Inv, TypeOK, Members, Unknown, RecordAgentId
  <2>2. ASSUME Places PROVE team'[t][v].how >= team[t][v].how
    <3>1. PICK w \in Worker, how \in Levels : Attaches(w, how)
      BY <2>2 DEF Places
    <3>2. team'[t][v].how = (IF t = Home[w] /\ v = w THEN Stronger(how, team[t][v].how) ELSE team[t][v].how)
      BY <3>1, AttachFacts
    <3>3. how \in Int
      BY LevelFacts
    <3> QED BY <2>1, <3>2, <3>3 DEF Stronger
  <2>3. ASSUME Parks PROVE team'[t][v].how >= team[t][v].how
    BY <2>1, <2>3 DEF Parks
  <2>4. ASSUME NEW r \in Run, WorkflowResult(r) PROVE team'[t][v].how >= team[t][v].how
    <3>1. PICK w \in Worker : Adopts(r, w)
      BY <2>4, AdoptFacts
    <3>2. team'[t][v] = team[t][v] \/ (team[t][v].how = Unknown /\ team'[t][v].how = WorkflowRun)
      BY <3>1 DEF Adopts
    <3> QED BY <2>1, <3>2 DEF Unknown, WorkflowRun
  <2> QED BY <2>2, <2>3, <2>4, Steps
<1> QED BY <1>1, InvHolds, PTL DEF Spec, EvidenceGrows

-----------------------------------------------------------------------------
\* Where a worker stands follows from what was said of it.

StandingOf(w) ==
  LET how == team[Home[w]][w].how IN
  /\ Said(w, {"Hook", "Stop"}) => how = RecordAgentId
  /\ how = RecordAgentId => Said(w, {"Hook", "Stop", "Record"})
  /\ Said(w, {"Launched", "Completed"}) => how >= SpawnToolUse
  /\ Said(w, {"Record", "BareRecord"}) => how >= TranscriptFile
  /\ Said(w, {"Started", "Result"}) =>
       \/ how >= TranscriptFile
       \/ runs[RunOf[w]] = {} /\ [worker |-> w, run |-> RunOf[w]] \in parked

LEMMA KindSets ==
  {{"Hook", "Stop"}, {"Hook", "Stop", "Record"}, {"Launched", "Completed"},
   {"Record", "BareRecord"}, {"Started", "Result"}} \subseteq SUBSET Kinds
BY DEF Kinds

LEMMA HowType ==
  ASSUME Inv, NEW v \in Worker
  PROVE  team[Home[v]][v].how \in Levels /\ team[Home[v]][v].how \in 0..4
BY MemberOfTeam DEF Inv, Members, Levels, Unknown, RecordAgentId

\* A message about somebody else changes nothing said of v, and nothing of it
\* that the standing of v reads.
LEMMA OthersStand ==
  ASSUME NEW v \in Worker, StandingOf(v),
         \A kinds \in SUBSET Kinds : Said(v, kinds)' <=> Said(v, kinds),
         team'[Home[v]][v].how = team[Home[v]][v].how,
         runs'[RunOf[v]] = runs[RunOf[v]],
         \A u \in parked : u.worker = v => u \in parked'
  PROVE  StandingOf(v)'
BY KindSets DEF StandingOf

LEMMA PlacesStand ==
  ASSUME Inv, Places, NEW v \in Worker, StandingOf(v)
  PROVE  StandingOf(v)'
<1>1. PICK w \in Worker, kind \in Kinds, how \in Levels :
        Hear(kind, w) /\ Carries(kind, how) /\ Attaches(w, how) /\ UNCHANGED runs
  BY DEF Places
<1>2. \A kinds \in SUBSET Kinds : Said(v, kinds)' <=> Said(v, kinds) \/ (v = w /\ kind \in kinds)
  BY <1>1, SaidGrows
<1>3. Home[v] \in Thread
  BY MemberOfTeam DEF Inv
<1>4. CASE v # w
  <2>1. team'[Home[v]][v].how = team[Home[v]][v].how
    BY <1>1, <1>3, <1>4, AttachFacts
  <2>2. \A u \in parked : u.worker = v => u \in parked'
    BY <1>1, <1>4, AttachFacts
  <2> QED BY <1>1, <1>2, <1>4, <2>1, <2>2, OthersStand
<1>5. CASE v = w
  <2> DEFINE old == team[Home[v]][v].how
             new == team'[Home[v]][v].how
  <2>1. new = Stronger(how, old)
    BY <1>1, <1>3, <1>5, AttachFacts
  <2>2. old \in 0..4 /\ how \in 0..4 /\ how # 0
    BY <1>1, HowType, CarriesSome DEF Levels, Unknown, RecordAgentId
  <2> HIDE DEF old, new
  <2>3. new >= old /\ new >= how /\ (new = old \/ new = how) /\ new \in 0..4
    BY <2>1, <2>2 DEF Stronger
  <2> USE DEF TranscriptFile, WorkflowRun, SpawnToolUse, RecordAgentId
  <2>4. ASSUME Said(v, {"Hook", "Stop"})' PROVE new = RecordAgentId
    <3>1. Said(v, {"Hook", "Stop"}) => old = 4
      BY DEF StandingOf, old
    <3>2. kind \in {"Hook", "Stop"} => how = 4
      BY <1>1 DEF Carries
    <3> QED BY <1>2, <1>5, <2>3, <2>2, <2>4, <3>1, <3>2, KindSets
  <2>5. ASSUME new = RecordAgentId PROVE Said(v, {"Hook", "Stop", "Record"})'
    <3>1. old = 4 => Said(v, {"Hook", "Stop", "Record"})
      BY DEF StandingOf, old
    <3>2. how = 4 => kind \in {"Hook", "Stop", "Record"}
      BY <1>1 DEF Carries
    <3> QED BY <1>2, <1>5, <2>3, <2>5, <3>1, <3>2, KindSets
  <2>6. ASSUME Said(v, {"Launched", "Completed"})' PROVE new >= SpawnToolUse
    <3>1. Said(v, {"Launched", "Completed"}) => old >= 3
      BY DEF StandingOf, old
    <3>2. kind \in {"Launched", "Completed"} => how = 3
      BY <1>1 DEF Carries
    <3>3. Said(v, {"Launched", "Completed"}) \/ kind \in {"Launched", "Completed"}
      BY <1>2, <1>5, <2>6, KindSets
    <3> QED BY <2>2, <2>3, <3>1, <3>2, <3>3
  <2>7. new >= TranscriptFile
    BY <2>2, <2>3
  <2> QED BY <2>4, <2>5, <2>6, <2>7 DEF StandingOf, new
<1> QED BY <1>4, <1>5

LEMMA ParksStand ==
  ASSUME Inv, Parks, NEW v \in Worker, StandingOf(v)
  PROVE  StandingOf(v)'
<1>1. PICK w \in Worker, kind \in {"Started", "Result"} :
        /\ Hear(kind, w) /\ runs[RunOf[w]] = {} /\ ThreadsOf(w) = {}
        /\ Park(w, RunOf[w]) /\ UNCHANGED <<team, runs>>
  BY DEF Parks
<1>2. \A kinds \in SUBSET Kinds : Said(v, kinds)' <=> Said(v, kinds) \/ (v = w /\ kind \in kinds)
  BY <1>1, SaidGrows
<1>3. parked' = {u \in parked : u.worker # w} \cup {[worker |-> w, run |-> RunOf[w]]}
  BY <1>1, ParkFacts
<1>4. CASE v # w
  <2>1. \A u \in parked : u.worker = v => u \in parked'
    BY <1>3, <1>4
  <2> QED BY <1>1, <1>2, <1>4, <2>1, OthersStand
<1>5. CASE v = w
  <2>1. \A kinds \in {{"Hook", "Stop"}, {"Hook", "Stop", "Record"}, {"Launched", "Completed"},
                      {"Record", "BareRecord"}} : Said(v, kinds)' <=> Said(v, kinds)
    BY <1>1, <1>2, KindSets
  <2>2. runs'[RunOf[v]] = {} /\ [worker |-> v, run |-> RunOf[v]] \in parked'
    BY <1>1, <1>3, <1>5
  <2>3. UNCHANGED team
    BY <1>1
  <2> QED BY <2>1, <2>2, <2>3 DEF StandingOf
<1> QED BY <1>4, <1>5

LEMMA AdoptsStand ==
  ASSUME Inv, NEW r \in Run, NEW w \in Worker, Adopts(r, w), NEW v \in Worker, StandingOf(v)
  PROVE  StandingOf(v)'
<1>1. \A kinds \in SUBSET Kinds : Said(v, kinds)' <=> Said(v, kinds)
  <2>1. heard' = heard \cup {[kind |-> "Workflow", run |-> r]}
    BY DEF Adopts
  <2>2. \A k \in Kinds : [kind |-> k, worker |-> v] # [kind |-> "Workflow", run |-> r]
    BY DEF Kinds
  <2> QED BY <2>1, <2>2 DEF Said
<1>2. Home[v] \in Thread /\ runs \in [Run -> SUBSET Thread]
  BY MemberOfTeam DEF Inv, TypeOK
<1> DEFINE old == team[Home[v]][v].how
           new == team'[Home[v]][v].how
<1>3. CASE \E u \in parked : u.worker = v /\ u.run = r
  <2>1. RunOf[v] = r /\ Home[v] = Home[w]
    BY <1>3, RunHasOneParent, NoRunAssumption DEF Inv, ParkInv, Adopts
  <2>2. old = 0 /\ new = 2
    BY <1>2, <1>3, <2>1 DEF Adopts, Unknown, WorkflowRun
  <2> HIDE DEF old, new
  <2>3. ~Said(v, {"Hook", "Stop"}) /\ ~Said(v, {"Launched", "Completed"})
    BY <2>2 DEF StandingOf, old, RecordAgentId, SpawnToolUse
  <2> QED BY <1>1, <2>2, <2>3, KindSets DEF StandingOf, new, RecordAgentId, SpawnToolUse, TranscriptFile
<1>4. CASE ~ \E u \in parked : u.worker = v /\ u.run = r
  <2>1. \A u \in parked : u.worker = v => u \in parked'
    BY <1>4 DEF Adopts
  <2>2. CASE RunOf[v] # r
    <3>1. new = old /\ runs'[RunOf[v]] = runs[RunOf[v]]
      <4>1. new = old
        BY <1>2, <2>2 DEF Adopts
      <4>2. runs'[RunOf[v]] = runs[RunOf[v]]
        BY <1>2, <2>2 DEF Adopts
      <4> QED BY <4>1, <4>2
    <3> QED BY <1>1, <2>1, <3>1, OthersStand
  <2>3. CASE RunOf[v] = r
    <3>1. [worker |-> v, run |-> RunOf[v]] \notin parked
      BY <1>4, <2>3
    <3>2. Home[v] = Home[w]
      BY <2>3, RunHasOneParent, NoRunAssumption DEF Adopts
    <3>3. new = old \/ (old = 0 /\ new = 2)
      BY <1>2 DEF Adopts, Unknown, WorkflowRun
    <3> HIDE DEF old, new
    <3>4. Said(v, {"Started", "Result"}) => old >= TranscriptFile
      BY <3>1 DEF StandingOf, old
    <3>5. CASE new = old
      BY <1>1, <3>4, <3>5, KindSets DEF StandingOf, new, old
    <3>6. CASE old = 0 /\ new = 2
      <4>1. ~Said(v, {"Hook", "Stop"}) /\ ~Said(v, {"Launched", "Completed"})
        BY <3>6 DEF StandingOf, old, RecordAgentId, SpawnToolUse
      <4> QED BY <1>1, <3>6, <4>1, KindSets DEF StandingOf, new, RecordAgentId, SpawnToolUse, TranscriptFile
    <3> QED BY <3>3, <3>5, <3>6
  <2> QED BY <2>2, <2>3
<1> QED BY <1>3, <1>4

\* The order of the messages does not matter: whatever was said of a worker has
\* its effect, for any number of workers, sessions and runs.
THEOREM EvidencePlaces == Spec => []PlaceFollowsEvidence
<1> DEFINE Stand == \A v \in Worker : StandingOf(v)
<1>1. Init => Stand
  <2> SUFFICES ASSUME Init, NEW v \in Worker PROVE StandingOf(v)
    OBVIOUS
  <2>1. team[Home[v]][v].how = 0
    BY HomeAssumption DEF Init, NoMember, Unknown
  <2>2. \A kinds : ~Said(v, kinds)
    BY DEF Init, Said
  <2> QED BY <2>1, <2>2 DEF StandingOf, RecordAgentId
<1>2. Inv /\ Stand /\ [Next]_vars => Stand'
  <2> SUFFICES ASSUME Inv, Stand, [Next]_vars, NEW v \in Worker PROVE StandingOf(v)'
    OBVIOUS
  <2>1. CASE UNCHANGED vars
    BY <2>1 DEF vars, StandingOf, Said
  <2>2. ASSUME NEW r \in Run, WorkflowResult(r) PROVE StandingOf(v)'
    BY <2>2, AdoptFacts, AdoptsStand
  <2> QED BY <2>1, <2>2, Steps, PlacesStand, ParksStand
<1>3. Stand => PlaceFollowsEvidence
  BY DEF StandingOf, PlaceFollowsEvidence
<1> QED BY <1>1, <1>2, <1>3, InvHolds, PTL DEF Spec

=============================================================================
