------------------------------- MODULE World --------------------------------
(***************************************************************************)
(* The live world of polis-world: what a sequence of events from the four  *)
(* channels makes of the threads, the files, the claims and the attention  *)
(* layer.  One action is one event applied by World::apply, or one         *)
(* World::tick.                                                            *)
(*                                                                         *)
(* Events carry the instant they were observed.  The channels stamp their  *)
(* events on threads of their own, so an event may reach the world a       *)
(* little late (Skew); the world's clock never runs backwards.             *)
(*                                                                         *)
(* The attention vector is kept as three sets, one per kind of mark: pins  *)
(* (needs decision), dones and links (contention).  Workers and their      *)
(* attribution are in module Workers; titles, trails, diff counts,         *)
(* territories and health counters are left out.                           *)
(***************************************************************************)
EXTENDS Contention

CONSTANTS
  Call,        \* tool_use ids
  Source,      \* what can ask for a decision
  Ranges,      \* line ranges a structuredPatch can report
  PendingCap,  \* most calls remembered in flight
  IdleAfter,   \* silence after which a working thread is idle
  FullWeight,  \* how long a verified Done mark holds full weight
  Decay,       \* how long it then takes to fade
  Skew,        \* how late an event may be applied
  LastEvent,   \* bound on the instants of events
  MaxTime      \* bound on the clock

ASSUME PendingCapAssumption == PendingCap \in Nat \ {0}
ASSUME TimesAssumption == /\ {IdleAfter, FullWeight, Decay, Skew, LastEvent, MaxTime} \subseteq Nat
                           /\ LastEvent <= MaxTime
ASSUME RangesAssumption == Ranges \subseteq Nat \X Nat

VARIABLES
  now,       \* World::now
  status,    \* each thread's status; "Unseen" before its first record
  active,    \* Thread::last_activity
  wrote,     \* the paths with writes in Thread::visits
  files,     \* FileState: present, last_touched, last_verified
  claims,    \* the claim table
  pending,   \* calls whose result is still out
  pins,      \* the NeedsDecision marks
  dones,     \* the Done marks
  links,     \* the Contention marks, as of the last tick
  finished,  \* history: when each thread last finished
  patch      \* history: the claim the last event upgraded with its line range

core == <<now, status, active>>
marks == <<pins, dones, links>>
vars == <<core, wrote, files, claims, pending, marks, finished, patch>>

Never == -1          \* no instant: before every event
NoPath == {}         \* a call that names no file
NoPatch == {}

Instant == 0..MaxTime
Statuses == {"Unseen", "Working", "Waiting", "Idle", "Done"}
FileStates == [present : BOOLEAN, touched : Instant \cup {Never}, verified : Instant \cup {Never}]
Absent == [present |-> FALSE, touched |-> Never, verified |-> Never]
PendingCalls == [call : Call, thread : Thread, path : {NoPath} \cup {{p} : p \in Path},
                 worktree : Worktree, test : BOOLEAN, started : Instant]

Init ==
  /\ now = 0
  /\ status = [t \in Thread |-> "Unseen"]
  /\ active = [t \in Thread |-> Never]
  /\ wrote = [t \in Thread |-> {}]
  /\ files = [p \in Path |-> Absent]
  /\ claims = {} /\ pending = {}
  /\ pins = {} /\ dones = {} /\ links = {}
  /\ finished = [t \in Thread |-> Never]
  /\ patch = NoPatch

-----------------------------------------------------------------------------
\* What the handlers share.

Later(a, b) == IF a >= b THEN a ELSE b

\* World::apply: the event happened at "at", at most Skew before the clock.
Observed(at) == /\ at \in 0..LastEvent /\ at >= now - Skew
                /\ now' = Later(now, at)

Enter(t) == IF status[t] = "Unseen" THEN "Working" ELSE status[t]

\* thread_entry and nothing more: a thread is created on first sight.
Seen(t, at) ==
  /\ status' = [status EXCEPT ![t] = Enter(t)]
  /\ active' = IF status[t] = "Unseen" THEN [active EXCEPT ![t] = at] ELSE active

\* The status changes and the activity clock moves.
Set(t, s, at) ==
  /\ status' = [status EXCEPT ![t] = s]
  /\ active' = [active EXCEPT ![t] = at]

DecisionsOf(marked, t) == {m \in marked : m.thread = t}

\* A mutant: activity clears the wait.
WorkingRegardless(t, marked, at) == Set(t, "Working", at)

\* fn working: blocked while a decision mark of the thread is up.
Working(t, marked, at) ==
  Set(t, IF DecisionsOf(marked, t) # {} THEN "Waiting" ELSE "Working", at)

Touch(f, at) == [f EXCEPT !.present = TRUE, !.touched = at]

FileVerified(f) == f.verified # Never /\ f.touched # Never /\ f.verified >= f.touched

IsVerified(t) == \A p \in wrote[t] : FileVerified(files[p])

\* observe and record_file of a mutating tool call.
Writes(t, p, at) ==
  /\ files' = [files EXCEPT ![p] = Touch(@, at)]
  /\ wrote' = [wrote EXCEPT ![t] = @ \cup {p}]

Oldest(calls) == {c \in calls : \A d \in calls : c.started <= d.started}

\* insert_pending: a full table first gives up its oldest call.
Remember(call) ==
  \E evicted \in IF Cardinality(pending) >= PendingCap
                 THEN {{c} : c \in Oldest(pending)} ELSE {{}} :
    pending' = {c \in pending \ evicted : c.call # call.call} \cup {call}

\* A mutant: an answer takes down one question of several.
ResolveOne(t) ==
  IF DecisionsOf(pins, t) = {} THEN pins ELSE pins \ {CHOOSE m \in DecisionsOf(pins, t) : TRUE}

ResolveDecisions(t) == {m \in pins : m.thread # t}

RaiseDone(t, verified, at) ==
  IF \E m \in dones : m.thread = t
  THEN {IF m.thread = t THEN [m EXCEPT !.verified = verified] ELSE m : m \in dones}
  ELSE dones \cup {[thread |-> t, verified |-> verified, since |-> at]}

RaiseDecision(t, s, at) ==
  IF \E m \in pins : m.thread = t /\ m.source = s
  THEN pins ELSE pins \cup {[thread |-> t, source |-> s, since |-> at]}

-----------------------------------------------------------------------------
\* The events.  "at" is when the event was observed.

\* A prompt, a session start, an interaction: activity that names no file.
Activity(t, at) ==
  /\ Observed(at) /\ Working(t, pins, at)
  /\ patch' = NoPatch
  /\ UNCHANGED <<wrote, files, claims, pending, marks, finished>>

\* A record that only makes its thread known.
FirstSight(t, at) ==
  /\ status[t] = "Unseen"
  /\ Observed(at) /\ Seen(t, at)
  /\ patch' = NoPatch
  /\ UNCHANGED <<wrote, files, claims, pending, marks, finished>>

\* An attachment pins a file with "@": the thread was active, its status stays.
AtMention(t, p, at) ==
  /\ Observed(at)
  /\ status' = [status EXCEPT ![t] = Enter(t)]
  /\ active' = [active EXCEPT ![t] = at]
  /\ files' = [files EXCEPT ![p].present = TRUE]
  /\ patch' = NoPatch
  /\ UNCHANGED <<wrote, claims, pending, marks, finished>>

\* A tool call that only reads: the claim table is probed, nothing is stored.
ReadFile(t, p, at) ==
  /\ Observed(at) /\ Working(t, pins, at)
  /\ files' = [files EXCEPT ![p].present = TRUE]
  /\ patch' = NoPatch
  /\ UNCHANGED <<wrote, claims, pending, marks, finished>>

\* The PreToolUse hook of an edit: the claim is made before the write.
PreToolUse(t, p, w, raw, at) ==
  /\ Observed(at) /\ Working(t, pins, at) /\ Writes(t, p, at)
  /\ claims' = Register(claims, NewClaim(t, p, w, raw, NoLines, at))
  /\ patch' = NoPatch
  /\ UNCHANGED <<pending, marks, finished>>

\* The assistant record of an edit: the same claim, and the call is remembered.
AssistantEdit(t, p, w, raw, id, at) ==
  /\ Observed(at) /\ Working(t, pins, at) /\ Writes(t, p, at)
  /\ claims' = Register(claims, NewClaim(t, p, w, raw, NoLines, at))
  /\ Remember([call |-> id, thread |-> t, path |-> {p}, worktree |-> w,
               test |-> FALSE, started |-> at])
  /\ patch' = NoPatch
  /\ UNCHANGED <<marks, finished>>

\* The assistant record of a shell command that runs the tests.
AssistantTest(t, w, id, at) ==
  /\ Observed(at) /\ Working(t, pins, at)
  /\ Remember([call |-> id, thread |-> t, path |-> NoPath, worktree |-> w,
               test |-> TRUE, started |-> at])
  /\ patch' = NoPatch
  /\ UNCHANGED <<wrote, files, claims, marks, finished>>

\* mark_verified: every file the thread ever wrote, as of the result.
MarkVerified(t, at) ==
  [p \in Path |-> IF p \in wrote[t] THEN [files[p] EXCEPT !.present = TRUE, !.verified = at]
                  ELSE files[p]]

\* A result with a structuredPatch upgrades the claim to its line range; every
\* result, with or without one, then releases the claim: the write has landed.
Landed(call, lines, at) ==
  LET exact == {NewClaim(call.thread, p, call.worktree, NoBranch, r, at) :
                   p \in call.path, r \in lines}
      upgraded == UNION {Register(claims, c) : c \in exact}
      table == IF exact = {} THEN claims ELSE upgraded
  IN /\ claims' = {c \in table : ~(c.thread = call.thread /\ c.path \in call.path)}
     /\ patch' = exact

\* The user record that carries a call's result.  A user record is not activity.
Settle(call, failed, lines, at) ==
  /\ failed => lines = {}
  /\ Observed(at) /\ Seen(call.thread, at)
  /\ pending' = pending \ {call}
  /\ Landed(call, lines, at)
  /\ files' = IF call.test /\ ~failed THEN MarkVerified(call.thread, at) ELSE files
  /\ UNCHANGED <<wrote, marks, finished>>

\* Channel A reports a finished edit: activity, a write, and the claim goes.
OtelEdit(t, p, settled, at) ==
  /\ Observed(at) /\ Working(t, pins, at) /\ Writes(t, p, at)
  /\ claims' = IF settled THEN Release(claims, t, p) ELSE claims
  /\ patch' = NoPatch
  /\ UNCHANGED <<pending, marks, finished>>

\* Channel C: a file appeared or changed on disk, nobody knows by whose hand.
FsWrite(p, at) ==
  /\ Observed(at)
  /\ files' = [files EXCEPT ![p] = Touch(@, at)]
  /\ claims' = ReleaseSole(claims, p)
  /\ patch' = NoPatch
  /\ UNCHANGED <<status, active, wrote, pending, marks, finished>>

FsRemove(p, at) ==
  /\ Observed(at)
  /\ files' = [files EXCEPT ![p] = Touch(@, at)]
  /\ patch' = NoPatch
  /\ UNCHANGED <<status, active, wrote, claims, pending, marks, finished>>

\* The state of the file moves with it, and nothing stays at the old path.
FsRename(from, to, at) ==
  /\ from # to
  /\ Observed(at)
  /\ files' = [files EXCEPT ![to] = Touch(IF files[from].present THEN files[from] ELSE @, at),
                            ![from] = Absent]
  /\ patch' = NoPatch
  /\ UNCHANGED <<status, active, wrote, claims, pending, marks, finished>>

\* A permission request, an elicitation, an idle teammate, a notification.
NeedsDecision(t, s, at) ==
  /\ Observed(at) /\ Set(t, "Waiting", at)
  /\ pins' = RaiseDecision(t, s, at)
  /\ patch' = NoPatch
  /\ UNCHANGED <<wrote, files, claims, pending, dones, links, finished>>

\* tool_decision on Channel A, or the ElicitationResult hook.
Answered(t, at) ==
  /\ Observed(at)
  /\ pins' = ResolveDecisions(t)
  /\ Working(t, pins', at)
  /\ patch' = NoPatch
  /\ UNCHANGED <<wrote, files, claims, pending, dones, links, finished>>

\* The span that measured the wait, exported after the wait was over.
BlockedOnUser(t, at) ==
  /\ Observed(at) /\ Seen(t, at)
  /\ pins' = ResolveDecisions(t)
  /\ patch' = NoPatch
  /\ UNCHANGED <<wrote, files, claims, pending, dones, links, finished>>

\* SessionEnd, or the Stop of a main agent.
FinishThread(t, at) ==
  /\ Observed(at) /\ Set(t, "Done", at)
  /\ pins' = ResolveDecisions(t)
  /\ dones' = RaiseDone(t, IsVerified(t), at)
  /\ finished' = [finished EXCEPT ![t] = at]
  /\ patch' = NoPatch
  /\ UNCHANGED <<wrote, files, claims, pending, links>>

\* The turn ended on an API error: quiet, not done.
StopFailure(t, at) ==
  /\ Observed(at)
  /\ status' = [status EXCEPT ![t] = "Idle"]
  /\ active' = IF status[t] = "Unseen" THEN [active EXCEPT ![t] = at] ELSE active
  /\ patch' = NoPatch
  /\ UNCHANGED <<wrote, files, claims, pending, marks, finished>>

Silent(t, when) == status[t] = "Working" /\ when - active[t] > IdleAfter

\* A mutant: every Done mark fades.
SpentAlways(m, when) == when - m.since > FullWeight /\ when - m.since >= FullWeight + Decay

Spent(m, when) ==
  m.verified /\ when - m.since > FullWeight /\ when - m.since >= FullWeight + Decay

\* World::tick, once per frame of a replay or at the end of a seek.
Tick(at) ==
  /\ at \in Instant /\ at >= now
  /\ now' = at
  /\ claims' = Live(claims, at)
  /\ status' = [t \in Thread |-> IF Silent(t, at) THEN "Idle" ELSE status[t]]
  /\ links' = Hits(claims', at)
  /\ dones' = {m \in dones : ~Spent(m, at)}
  /\ patch' = NoPatch
  /\ UNCHANGED <<active, wrote, files, pending, pins, finished>>

Next ==
  \/ \E at \in Instant : Tick(at)
  \/ \E t \in Thread, at \in Instant :
       \/ Activity(t, at)
       \/ FirstSight(t, at)
       \/ Answered(t, at)
       \/ BlockedOnUser(t, at)
       \/ FinishThread(t, at)
       \/ StopFailure(t, at)
  \/ \E t \in Thread, s \in Source, at \in Instant : NeedsDecision(t, s, at)
  \/ \E t \in Thread, p \in Path, at \in Instant :
       \/ AtMention(t, p, at)
       \/ ReadFile(t, p, at)
       \/ \E settled \in BOOLEAN : OtelEdit(t, p, settled, at)
  \/ \E t \in Thread, p \in Path, w \in Worktree, raw \in Branch \cup {NoBranch}, at \in Instant :
       \/ PreToolUse(t, p, w, raw, at)
       \/ \E id \in Call : AssistantEdit(t, p, w, raw, id, at)
  \/ \E t \in Thread, w \in Worktree, id \in Call, at \in Instant : AssistantTest(t, w, id, at)
  \/ \E call \in pending, failed \in BOOLEAN, lines \in {{}} \cup {{r} : r \in Ranges},
        at \in Instant : Settle(call, failed, lines, at)
  \/ \E p \in Path, at \in Instant : FsWrite(p, at) \/ FsRemove(p, at)
  \/ \E from \in Path, to \in Path, at \in Instant : FsRename(from, to, at)

\* Nothing is assumed of the clock: who applies events also ticks, and a replay
\* stops doing both at the last event of its recording.
Spec == Init /\ [][Next]_vars

-----------------------------------------------------------------------------
\* Safety.

TypeOK ==
  /\ now \in Instant
  /\ status \in [Thread -> Statuses]
  /\ active \in [Thread -> Instant \cup {Never}]
  /\ wrote \in [Thread -> SUBSET Path]
  /\ files \in [Path -> FileStates]
  /\ claims \subseteq Claims
  /\ pending \subseteq PendingCalls
  /\ pins \subseteq [thread : Thread, source : Source, since : Instant]
  /\ dones \subseteq [thread : Thread, verified : BOOLEAN, since : Instant]
  /\ \A l \in links : l.pair \subseteq Claims /\ l.tier \in {"Medium", "High", "Critical"}
  /\ finished \in [Thread -> Instant \cup {Never}]
  /\ patch \subseteq Claims

\* A thread the operator is asked about is never shown as working or as done,
\* whatever other activity its channels report meanwhile (fn working).
PinnedNeverActive == \A m \in pins : status[m.thread] \in {"Waiting", "Idle"}

\* The attention layer says a thing once: one pin per thread and question, one
\* Done mark per thread, one link per pair of claims (fn raise, same_subject).
OneMarkPerSubject ==
  /\ \A m, n \in pins : m.thread = n.thread /\ m.source = n.source => m = n
  /\ \A m, n \in dones : m.thread = n.thread => m = n
  /\ \A k, l \in links : k.pair = l.pair => k = l

\* A thread editing one file over and over holds one claim on it, so it never
\* contends with itself, and a link always joins two threads (ClaimTable::claim).
OneClaimPerThread ==
  /\ \A a, b \in claims : a.thread = b.thread /\ a.path = b.path => a = b
  /\ \A l \in links : \E a, b \in l.pair : a.thread # b.thread /\ l.pair = {a, b}

\* The table of calls in flight stays within its cap and holds a call once.
PendingBounded ==
  /\ Cardinality(pending) <= PendingCap
  /\ \A c, d \in pending : c.call = d.call => c = d

\* No link ever says "clobbering now": a claim learns its line range in the
\* very event that releases it (fn settle).
NoLinkIsCritical == \A l \in links : l.tier # "Critical"

\* No single event erases both sides of a collision that is still live.  A save
\* on disk frees a claim only when nobody else holds the path, because it does
\* not say whose write landed (release_sole_claim).
OneSideAtATime ==
  [][\A a, b \in Live(claims, now') :
        Contend(a, b) =>
          \E c \in claims' : c.path = a.path /\ c.thread \in {a.thread, b.thread}]_vars

\* An answer takes down all the pins of one thread and none of another's, and
\* no pin goes any other way: time never resolves a question.
AnswersAreWhole ==
  [][pins \subseteq pins' \/ \E t \in Thread : pins' = {m \in pins : m.thread # t}]_vars

\* "Needs review" persists: an unverified Done mark never goes and never gets
\* younger; it only turns verified, when its thread finishes again with every
\* file it wrote tested.
UnverifiedPersists ==
  [][\A m \in dones : ~m.verified =>
        \E n \in dones' :
          /\ n.thread = m.thread /\ n.since = m.since
          /\ n.verified => status'[m.thread] = "Done" /\ IsVerified(m.thread)]_vars

\* What needs nobody is gone: no claim or link, no verified mark, no thread shown
\* as working.
Quiet == /\ claims = {} /\ links = {}
         /\ \A m \in dones : ~m.verified
         /\ \A t \in Thread : status[t] # "Working"

\* Every threshold has passed since the thread was last heard of, by any clock.
LongSilent(t, at) == \A delay \in {TTL, IdleAfter, FullWeight, FullWeight + Decay} :
                       at - active[t] > delay + Skew

\* One tick is enough: however events interleaved and however late they came,
\* a single tick at an instant past every threshold leaves nothing that fades
\* by time.  A seek relies on it, which ticks once for any span (World::tick).
OneTickSettles ==
  [][\A at \in Instant : Tick(at) /\ (\A t \in Thread : LongSilent(t, at)) => Quiet']_vars

-----------------------------------------------------------------------------
\* What comments and decisions of the repository say, and the code does not do.

\* "A thread is Waiting exactly while it has a live needs decision mark" (fn
\* working), read from the status to the mark.
WaitingHasPin == \A t \in Thread : status[t] = "Waiting" => DecisionsOf(pins, t) # {}

\* "Done, verified: full weight 20 s, then decays": a verified mark stays at
\* least FullWeight after its thread finished.
VerifiedHoldsWeight ==
  [][\A m \in dones : m.verified /\ DecisionsOf(dones', m.thread) = {} =>
        now' - finished[m.thread] >= FullWeight]_vars

\* "Whether tests ran against the changed files after the change": a file turns
\* verified only through a test that started after its last change.
TestsSawTheChange ==
  [][\A p \in Path : FileVerified(files'[p]) /\ ~FileVerified(files[p]) =>
        \A call \in pending \ pending' : call.test => files[p].touched <= call.started]_vars

\* "Upgrade the claim now that a line range exists": the claim with the range is
\* in the table once the result has been applied.
UpgradeIsKept == patch \subseteq claims

=============================================================================
