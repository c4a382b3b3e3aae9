------------------------------ MODULE Workers -------------------------------
(***************************************************************************)
(* How polis-world places subagents: which thread a worker belongs to, on  *)
(* what evidence, and whether it still runs.  The evidence reaches the     *)
(* world over channels that do not wait for each other: hooks and OTel     *)
(* records carry the worker's id, its transcript is tailed from disk, its  *)
(* parent's transcript tells of its launch, and a workflow's journal names *)
(* it by run.  A message is applied once; the messages of one source keep  *)
(* their order, those of different sources may be applied in any order.    *)
(*                                                                         *)
(* A worker belongs to one session and at most one workflow run: Home and  *)
(* RunOf say which, and only the messages know.                            *)
(***************************************************************************)
EXTENDS Integers, FiniteSets

CONSTANTS
  Thread, Worker, Run,
  NoRun,   \* not part of a workflow
  Home,    \* the session of each worker
  RunOf,   \* the workflow run of each worker, or NoRun
  Offered  \* the kinds of message the session's channels carry

ASSUME NoRunAssumption == NoRun \notin Run
ASSUME HomeAssumption == Home \in [Worker -> Thread]
ASSUME RunOfAssumption == RunOf \in [Worker -> Run \cup {NoRun}]
\* A run is one Workflow call of one thread.
ASSUME RunHasOneParent == \A v, w \in Worker : RunOf[v] = RunOf[w] /\ RunOf[v] # NoRun => Home[v] = Home[w]
ASSUME WorkerIsFinite == IsFiniteSet(Worker)

VARIABLES
  team,     \* Thread::workers: what each thread holds about each worker
  parked,   \* World::unattributed: the worker and the run it was named in
  counted,  \* Health::unattributed_workers
  runs,     \* World::workflow_runs: the thread of each known run
  heard     \* the messages applied so far

vars == <<team, parked, counted, runs, heard>>

\* WorkerAttribution::strength
Unknown == 0
TranscriptFile == 1
WorkflowRun == 2
SpawnToolUse == 3
RecordAgentId == 4

\* A worker is held by a thread from its first attachment, when the evidence is
\* stronger than Unknown.
Members == [how : Unknown..RecordAgentId, running : BOOLEAN, run : Run \cup {NoRun}]
NoMember == [how |-> Unknown, running |-> FALSE, run |-> NoRun]
Held(t, w) == team[t][w].how # Unknown

Kinds == {"Hook", "Stop", "Record", "BareRecord", "Launched", "Completed", "Started", "Result"}

\* What can be said of a worker: a plain subagent is launched by an Agent call,
\* a workflow subagent has a journal.
KindsOf(w) ==
  Offered \cap ({"Hook", "Stop", "Record", "BareRecord"} \cup
                IF RunOf[w] = NoRun THEN {"Launched", "Completed"} ELSE {"Started", "Result"})

Messages == UNION {[kind : KindsOf(w), worker : {w}] : w \in Worker}
            \cup [kind : {"Workflow"} \cap Offered, run : {RunOf[w] : w \in Worker} \ {NoRun}]

\* One source keeps its order ...
Before == [k \in Kinds |-> CASE k = "Stop" -> {"Hook"} [] k = "Result" -> {"Started"}
                             [] OTHER -> {}]

\* ... and a call has one result: "async_launched" or "completed", never both.
Instead == [k \in Kinds |-> CASE k = "Launched" -> {"Completed"} [] k = "Completed" -> {"Launched"}
                              [] OTHER -> {}]

Init ==
  /\ team = [t \in Thread |-> [w \in Worker |-> NoMember]]
  /\ parked = {} /\ counted = 0
  /\ runs = [r \in Run |-> {}]
  /\ heard = {}

Hear(kind, w) ==
  /\ kind \in KindsOf(w)
  /\ [kind |-> kind, worker |-> w] \notin heard
  /\ \A k \in Before[kind] : [kind |-> k, worker |-> w] \in heard
  /\ \A k \in Instead[kind] : [kind |-> k, worker |-> w] \notin heard
  /\ heard' = heard \cup {[kind |-> kind, worker |-> w]}

-----------------------------------------------------------------------------
\* A mutant: the last evidence wins.
LastEvidence(held, how) == how

\* upgrade_attribution: a weaker link never replaces a stronger one.
Upgrade(held, how) == IF how > held THEN how ELSE held

\* worker_entry: a worker not held before starts out running.
Joined(m, how) ==
  [m EXCEPT !.how = Upgrade(@, how), !.running = IF m.how = Unknown THEN TRUE ELSE @]

\* A mutant: placing a worker leaves it on the parking list.
StaysParked(w) == UNCHANGED <<parked, counted>>

\* attach_worker takes a worker off the parking list.
Unpark(w) ==
  /\ parked' = {u \in parked : u.worker # w}
  /\ counted' = IF parked' # parked THEN Cardinality(parked') ELSE counted

AttachWorker(t, w, m) == Unpark(w) /\ team' = [team EXCEPT ![t][w] = m]

\* park_unattributed
Park(w, run) ==
  /\ parked' = {u \in parked : u.worker # w} \cup {[worker |-> w, run |-> run]}
  /\ counted' = Cardinality(parked')

-----------------------------------------------------------------------------
\* Any hook of a subagent, SubagentStart among them, and any OTel record of one.
HookOf(w) ==
  /\ Hear("Hook", w)
  /\ AttachWorker(Home[w], w, Joined(team[Home[w]][w], RecordAgentId))
  /\ UNCHANGED runs

\* finish_worker: SubagentStop, the Stop of a worker, subagent_completed.
StopOf(w) ==
  /\ Hear("Stop", w)
  /\ AttachWorker(Home[w], w, [Joined(team[Home[w]][w], RecordAgentId) EXCEPT !.running = FALSE])
  /\ UNCHANGED runs

\* worker_of: a record of the worker's own transcript, with its id in the record
\* or only in the file's name.  A known run overrides either.
Evidence(w, own) ==
  IF RunOf[w] # NoRun /\ runs[RunOf[w]] # {} THEN WorkflowRun
  ELSE IF own THEN RecordAgentId ELSE TranscriptFile

RecordOf(w, own) ==
  /\ Hear(IF own THEN "Record" ELSE "BareRecord", w)
  /\ AttachWorker(Home[w], w, [Joined(team[Home[w]][w], Evidence(w, own)) EXCEPT !.run = RunOf[w]])
  /\ UNCHANGED runs

\* spawn_from_result: only "completed" finishes a worker.
SpawnResult(w, completed) ==
  /\ Hear(IF completed THEN "Completed" ELSE "Launched", w)
  /\ AttachWorker(Home[w], w, [Joined(team[Home[w]][w], SpawnToolUse) EXCEPT !.running = ~completed])
  /\ UNCHANGED runs

\* A mutant: the run is noted and nobody is adopted.
AdoptNobody(r, t) == UNCHANGED <<team, parked, counted>>

\* adopt_workflow_run: every worker parked under the run joins its thread.
Adopt(r, t) ==
  LET adopted == {u.worker : u \in {v \in parked : v.run = r}} IN
  /\ parked' = {u \in parked : u.worker \notin adopted}
  /\ counted' = IF adopted # {} THEN Cardinality(parked') ELSE counted
  /\ team' = [team EXCEPT ![t] = [w \in Worker |->
                IF w \in adopted THEN [Joined(@[w], WorkflowRun) EXCEPT !.run = r] ELSE @[w]]]

\* The result of the parent's Workflow call: now the run has a thread.
WorkflowResult(r) ==
  /\ [kind |-> "Workflow", run |-> r] \in Messages \ heard
  /\ heard' = heard \cup {[kind |-> "Workflow", run |-> r]}
  /\ \E w \in Worker : RunOf[w] = r /\ runs' = [runs EXCEPT ![r] = {Home[w]}] /\ Adopt(r, Home[w])

\* thread_of_worker: whoever holds the worker already.
ThreadsOf(w) == {t \in Thread : Held(t, w)}

\* journal: the run table first, then the worker's own transcript, else park.
Placements(w) == IF runs[RunOf[w]] # {} THEN runs[RunOf[w]] ELSE ThreadsOf(w)

Journal(w, finished) ==
  /\ Hear(IF finished THEN "Result" ELSE "Started", w)
  /\ \/ /\ Placements(w) = {}
        /\ Park(w, RunOf[w])
        /\ UNCHANGED team
     \/ \E t \in Placements(w) :
          AttachWorker(t, w, [Joined(team[t][w], WorkflowRun) EXCEPT !.run = RunOf[w], !.running = ~finished])
  /\ UNCHANGED runs

Next ==
  \/ \E w \in Worker :
       \/ HookOf(w)
       \/ StopOf(w)
       \/ \E b \in BOOLEAN : RecordOf(w, b) \/ SpawnResult(w, b) \/ Journal(w, b)
  \/ \E r \in Run : WorkflowResult(r)

Spec == Init /\ [][Next]_vars

-----------------------------------------------------------------------------
TypeOK ==
  /\ team \in [Thread -> [Worker -> Members]]
  /\ parked \subseteq [worker : Worker, run : Run]
  /\ counted \in Nat
  /\ runs \in [Run -> SUBSET Thread]
  /\ heard \subseteq Messages

\* A worker is placed or parked, never both; if placed, in its own session, so
\* no thread's territory is fed with another thread's evidence.
PlacedOrParked ==
  /\ \A u \in parked : ThreadsOf(u.worker) = {}
  /\ \A u, v \in parked : u.worker = v.worker => u = v
  /\ \A w \in Worker : ThreadsOf(w) \subseteq {Home[w]}

Said(w, kinds) == \E k \in kinds : [kind |-> k, worker |-> w] \in heard

\* Where a worker stands follows from what was said of it, in whatever order:
\* its own id in a hook is the strongest evidence, and only an id counts as one;
\* a launch or a transcript places it; a journal places it as soon as the
\* parent of its run is known, by the later of the two (adopt_workflow_run).
PlaceFollowsEvidence ==
  \A w \in Worker :
    LET how == team[Home[w]][w].how IN
    /\ Said(w, {"Hook", "Stop"}) => how = RecordAgentId
    /\ how = RecordAgentId => Said(w, {"Hook", "Stop", "Record"})
    /\ Said(w, {"Launched", "Completed"}) => how >= SpawnToolUse
    /\ Said(w, {"Record", "BareRecord"}) => how >= TranscriptFile
    /\ Said(w, {"Started", "Result"}) =>
         \/ how >= TranscriptFile
         \/ runs[RunOf[w]] = {} /\ [worker |-> w, run |-> RunOf[w]] \in parked

\* The health line counts the workers that are unplaced now.
CountIsCurrent == counted = Cardinality(parked)

\* Evidence for a worker's place only ever gets stronger.
EvidenceGrows ==
  [][\A t \in Thread, w \in Worker : team'[t][w].how >= team[t][w].how]_vars

-----------------------------------------------------------------------------
\* "Parking and adopting is what makes the attribution order-independent", and
\* only an explicit signal ends a worker: once it has come, it is not forgotten.
FinishedIsRemembered ==
  \A w \in Worker : Said(w, {"Stop", "Completed", "Result"}) => ~team[Home[w]][w].running

=============================================================================
