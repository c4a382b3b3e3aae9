------------------------------ MODULE FsWatch -------------------------------
(***************************************************************************)
(* Channel C, the filesystem watcher of polis-ingest: a tree of files that *)
(* changes, the notifications of the operating system, the bounded queue   *)
(* that the notify callback fills without ever blocking, and the debounce  *)
(* thread that folds the notifications of a path into one change and emits *)
(* it when the path has been quiet for the window.                         *)
(*                                                                         *)
(* "shown" is what the consumer makes of the emitted events: the files the *)
(* world holds for present (apply.rs, fs).  Instants are kept as ages.     *)
(***************************************************************************)
EXTENDS Integers, Sequences, Functions

CONSTANTS
  Path,         \* the watched paths that are not ignored
  Tracker,      \* notify's tracker of a rename
  Forms,        \* how the platform reports a rename
  Backups,      \* a file may appear where one left and is not reported removed yet
  RawCapacity,  \* FsWatchConfig::raw_capacity
  Window        \* FsWatchConfig::debounce

ASSUME TrackerAssumption == "none" \notin Tracker
ASSUME FormsAssumption == Forms \subseteq {"both", "any", "tracked", "untracked"}
ASSUME WatchAssumption == /\ RawCapacity \in Nat \ {0} /\ Window \in Nat \ {0}
                          /\ Backups \in BOOLEAN

VARIABLES
  disk,     \* the files that exist
  due,      \* tracked renames of which the system has yet to report the second half
  raw,      \* the queue between the notify callback and the debounce thread
  pending,  \* Debouncer::pending: the folded change of a path, and its age
  renames,  \* Debouncer::renames: the first half of a rename, and its age
  shown,    \* the files the consumer holds for present
  guessed,  \* history: the paths that the debouncer had to guess about
  rescan,   \* Shared::rescan; an error sets Shared::degraded beside it
  stopping, \* Shared::stopped
  running   \* the debounce thread runs

queues == <<due, raw>>
flags == <<rescan, stopping, running>>
vars == <<disk, due, raw, pending, renames, shown, guessed, rescan, stopping, running>>

Change == {"Created", "Modified", "Removed"}
None == "none"
Empty == [x \in {} |-> None]

\* A notification about one path, or a rename with both of its ends.  Of a rename
\* that is reported with one usable path, that path is one end or the other
\* (OnlyFrom, OnlyTo): the notification does not say which.
About(kind, p, id) == [kind |-> kind, path |-> p, tracker |-> id]
Both(p, q) == [kind |-> "RenamedBoth", from |-> p, to |-> q]

Init ==
  /\ disk \in SUBSET Path /\ shown = disk /\ guessed = {}
  /\ due = {} /\ raw = <<>> /\ pending = Empty /\ renames = Empty
  /\ rescan = FALSE /\ stopping = FALSE /\ running = TRUE

-----------------------------------------------------------------------------
\* The tree changes, and the callback forwards what the system reports.

\* How many of the messages the queue has room for.
Fitting(messages) == LET room == RawCapacity - Len(raw)
                     IN  IF Len(messages) <= room THEN Len(messages) ELSE room

\* try_send: what does not fit is lost, and the re-scan flag says so.
Forward(messages) ==
  /\ raw' = raw \o SubSeq(messages, 1, Fitting(messages))
  /\ rescan' = (rescan \/ Fitting(messages) < Len(messages))

\* The files that left and are reported as if they might still be there.
Unclear(messages) == {messages[i].path : i \in {j \in DOMAIN messages : messages[j].kind = "OnlyFrom"}}

\* Nothing is asked of the files once a loss is known: they need not change further.
Changes(files, messages) ==
  /\ ~stopping /\ ~rescan
  /\ disk' = files /\ Forward(messages)
  /\ guessed' = guessed \cup Unclear(messages)
  /\ UNCHANGED <<pending, renames, shown, stopping, running>>

\* The directories of a rename are locked until its second half is reported:
\* neither end appears or disappears meanwhile.  Anything else may happen.
Unlocked(p) == \A half \in due : p # half.from /\ p # half.path

\* The tracker's second half is reported, or will be.
Answered(id) == \/ \E half \in due : half.tracker = id
                \/ \E m \in Range(raw) : m.kind = "RenamedTo" /\ m.tracker = id

\* A move out of p is reported by a half that nobody has given up yet.
MovedOut(p) ==
  \/ \E id \in DOMAIN renames : renames[id].from = p /\ ~Answered(id)
  \/ \E m \in Range(raw) : /\ m.kind = "RenamedFrom" /\ m.path = p
                           /\ m.tracker # None /\ ~Answered(m.tracker)

Appears(p) == Unlocked(p) /\ (Backups \/ ~MovedOut(p))

Create(p) == /\ p \notin disk /\ Appears(p) /\ UNCHANGED due
             /\ Changes(disk \cup {p}, <<About("Created", p, None)>>)

\* Also through a descriptor that stayed open over a rename.
Write(p) == /\ p \in disk /\ UNCHANGED due
            /\ Changes(disk, <<About("Modified", p, None)>>)

Delete(p) == /\ p \in disk /\ Unlocked(p) /\ UNCHANGED due
             /\ Changes(disk \ {p}, <<About("Removed", p, None)>>)

\* No rename under way has this tracker.
Fresh(id) == /\ id \notin DOMAIN renames /\ ~Answered(id)
             /\ \A m \in Range(raw) : m.kind = "RenamedFrom" => m.tracker # id

\* A rename inside the tree, onto nothing or onto a file: one event with both ends,
\* an event for each end that does not say which it is, two halves, or two halves
\* of a tracker, which may be reported apart.
Rename(p, q, form, id) ==
  /\ p \in disk /\ p # q /\ Unlocked(p) /\ Appears(q)
  /\ LET files == (disk \ {p}) \cup {q}
     IN  CASE form = "both" -> UNCHANGED due /\ Changes(files, <<Both(p, q)>>)
           [] form = "any" ->
                /\ UNCHANGED due
                /\ Changes(files, <<About("OnlyFrom", p, None), About("OnlyTo", q, None)>>)
           [] form = "untracked" ->
                /\ UNCHANGED due
                /\ Changes(files, <<About("RenamedFrom", p, None), About("RenamedTo", q, None)>>)
           [] form = "tracked" ->
                /\ Fresh(id)
                /\ due' = due \cup {[from |-> p, path |-> q, tracker |-> id]}
                /\ Changes(files, <<About("RenamedFrom", p, id)>>)

\* The second half of a tracked rename is reported; notify may add the whole.
SecondHalf(half) ==
  /\ half \in due /\ due' = due \ {half}
  /\ LET to == About("RenamedTo", half.path, half.tracker)
     IN  Changes(disk, <<to>>) \/ Changes(disk, <<to, Both(half.from, half.path)>>)

\* A file is moved out of the tree, or onto an ignored path: of its rename only
\* this end is usable.
MoveOut(p, form, id) ==
  /\ p \in disk /\ Unlocked(p) /\ UNCHANGED due
  /\ LET left == About("OnlyFrom", p, None)
     IN  CASE form \in {"both", "any"} -> Changes(disk \ {p}, <<left>>)
           [] form = "untracked" -> Changes(disk \ {p}, <<About("RenamedFrom", p, None)>>)
           [] form = "tracked" ->
                /\ Fresh(id)
                /\ \/ Changes(disk \ {p}, <<About("RenamedFrom", p, id)>>)
                   \/ Changes(disk \ {p}, <<About("RenamedFrom", p, id), left>>)

\* A file is moved in from outside the tree, or from an ignored path.
MoveIn(q, form, id) ==
  /\ Appears(q) /\ UNCHANGED due
  /\ LET come == About("OnlyTo", q, None)
     IN  CASE form \in {"both", "any"} -> Changes(disk \cup {q}, <<come>>)
           [] form = "untracked" -> Changes(disk \cup {q}, <<About("RenamedTo", q, None)>>)
           [] form = "tracked" ->
                /\ Fresh(id)
                /\ \/ Changes(disk \cup {q}, <<About("RenamedTo", q, id)>>)
                   \/ Changes(disk \cup {q}, <<About("RenamedTo", q, id), come>>)

\* The system's own queue overflows, or the watcher reports an error.
SystemLoses == UNCHANGED due /\ Changes(disk, <<[kind |-> "Lost"]>>)

\* Time passes: what waits grows older.  A full window is all that counts.
Older(entry) == [entry EXCEPT !.age = IF @ < Window THEN @ + 1 ELSE @]
Ages == /\ \/ \E p \in DOMAIN pending : pending[p].age < Window
           \/ \E id \in DOMAIN renames : renames[id].age < Window
        /\ pending' = [p \in DOMAIN pending |-> Older(pending[p])]
        /\ renames' = [id \in DOMAIN renames |-> Older(renames[id])]
        /\ UNCHANGED <<disk, queues, shown, guessed, flags>>

-----------------------------------------------------------------------------
\* The debouncer, as functions of s = [pending, renames, shown].

Present(change) == change \in {"Created", "Modified"}

\* Two changes of one path inside the window.
Coalesce(existing, incoming) ==
  CASE existing = "Created" /\ incoming = "Modified" -> "Created"
    [] existing = "Created" /\ incoming = "Removed" -> None
    [] existing = "Removed" /\ Present(incoming) -> "Modified"
    [] OTHER -> incoming

\* A mutant: changes that cancel out are held as a change that is none.
MergeHoldsNothing(s, p, incoming) ==
  LET change == IF p \in DOMAIN s.pending THEN Coalesce(s.pending[p].change, incoming) ELSE incoming
  IN  [s EXCEPT !.pending = [r \in DOMAIN @ \cup {p} |->
         IF r = p THEN [change |-> change, age |-> 0] ELSE @[r]]]

Merge(s, p, incoming) ==
  LET change == IF p \in DOMAIN s.pending THEN Coalesce(s.pending[p].change, incoming) ELSE incoming
      kept == [r \in DOMAIN s.pending \ {p} |-> s.pending[r]]
  IN  [s EXCEPT !.pending =
         IF change = None THEN kept
         ELSE [r \in DOMAIN kept \cup {p} |->
                 IF r = p THEN [change |-> change, age |-> 0] ELSE kept[r]]]

\* flush_key of each of these paths: its pending change is emitted.
FlushKeys(s, paths) ==
  LET gone == paths \cap DOMAIN s.pending
  IN  [s EXCEPT !.pending = [p \in DOMAIN s.pending \ gone |-> s.pending[p]],
                !.shown = (@ \ gone) \cup {p \in gone : Present(s.pending[p].change)}]

\* A mutant: what is pending on the ends of a rename waits on.
RelocateOnly(s, p, q) == [s EXCEPT !.shown = (@ \ {p}) \cup {q}]

\* A whole rename: what is pending on its ends is emitted first.
Relocate(s, p, q) ==
  LET flushed == FlushKeys(s, {p, q})
  IN  [flushed EXCEPT !.shown = (@ \ {p}) \cup {q}]

\* ingest_raw, after it has resolved the paths, and Debouncer::record.
Record(s, m) ==
  CASE m.kind = "RenamedBoth" -> Relocate(s, m.from, m.to)
    [] m.kind = "RenamedFrom" /\ m.tracker # None ->
         [s EXCEPT !.renames = [id \in DOMAIN @ \cup {m.tracker} |->
            IF id = m.tracker THEN [from |-> m.path, age |-> 0] ELSE @[id]]]
    [] m.kind = "RenamedFrom" /\ m.tracker = None -> Merge(s, m.path, "Removed")
    [] m.kind = "RenamedTo" /\ m.tracker \in DOMAIN s.renames ->
         LET paired == [s EXCEPT !.renames = [id \in DOMAIN @ \ {m.tracker} |-> @[id]]]
         IN  Relocate(paired, s.renames[m.tracker].from, m.path)
    [] m.kind = "RenamedTo" /\ m.tracker \notin DOMAIN s.renames -> Merge(s, m.path, "Created")
    [] m.kind \in {"OnlyFrom", "OnlyTo"} -> Merge(s, m.path, "Modified")
    [] m.kind \in Change -> Merge(s, m.path, m.kind)
    [] OTHER -> s

\* A second half alone counts as a creation, also where there is a file already.
Mistaken(s, m) ==
  IF /\ m.kind = "RenamedTo" /\ m.tracker \notin DOMAIN s.renames
     /\ IF m.path \in DOMAIN s.pending THEN Present(s.pending[m.path].change) ELSE m.path \in s.shown
  THEN {m.path} ELSE {}

\* A mutant: a path is held one tick past the window.
RipeLate(entries) == {k \in DOMAIN entries : entries[k].age > Window}

Ripe(entries) == {k \in DOMAIN entries : entries[k].age >= Window}

\* A first half is given up: its file is reported removed.
GiveUp(s, ids) ==
  [s EXCEPT !.renames = [id \in DOMAIN @ \ ids |-> @[id]],
            !.shown = @ \ {s.renames[id].from : id \in ids}]

\* Debouncer::flush and flush_all: pending changes first, then the lone halves.
Flush(s) == GiveUp(FlushKeys(s, Ripe(s.pending)), Ripe(s.renames))
FlushAll(s) == GiveUp(FlushKeys(s, DOMAIN s.pending), DOMAIN s.renames)

Debouncer == [pending |-> pending, renames |-> renames, shown |-> shown]
Becomes(s) == pending' = s.pending /\ renames' = s.renames /\ shown' = s.shown

\* The end of an iteration: a thread told to stop emits all it has.
Iterated(s) ==
  /\ \E f \in {Flush(s)} : Becomes(IF stopping THEN FlushAll(f) ELSE f)
  /\ running' = ~stopping
  /\ UNCHANGED <<disk, due, stopping>>

\* One iteration of debounce_loop with a message.
Fold ==
  /\ running /\ raw # <<>>
  /\ raw' = Tail(raw)
  /\ LET m == Head(raw)
     IN  /\ rescan' = (rescan \/ m.kind = "Lost")
         /\ guessed' = guessed \cup Mistaken(Debouncer, m)
         /\ \E s \in {Record(Debouncer, m)} : Iterated(s)

\* One iteration without: recv_timeout ran out, or the queue is disconnected.
Idle ==
  /\ running /\ raw = <<>>
  /\ Ripe(pending) # {} \/ Ripe(renames) # {} \/ stopping
  /\ Iterated(Debouncer)
  /\ UNCHANGED <<raw, guessed, rescan>>

\* FsWatcher::stop.
Stop == /\ ~stopping /\ stopping' = TRUE
        /\ UNCHANGED <<disk, queues, pending, renames, shown, guessed, rescan, running>>

System ==
  \/ \E p \in Path : Create(p) \/ Write(p) \/ Delete(p)
  \/ \E p \in Path, form \in Forms, id \in Tracker :
       \/ MoveOut(p, form, id)
       \/ MoveIn(p, form, id)
       \/ \E q \in Path : Rename(p, q, form, id)
  \/ \E half \in due : SecondHalf(half)
  \/ SystemLoses

Next == System \/ Ages \/ Fold \/ Idle \/ Stop

\* The debounce thread runs and time passes; files need not change.
Spec == Init /\ [][Next]_vars /\ WF_vars(Fold) /\ WF_vars(Idle) /\ WF_vars(Ages)

-----------------------------------------------------------------------------
TypeOK ==
  /\ disk \subseteq Path /\ shown \subseteq Path /\ guessed \subseteq Path
  /\ DOMAIN pending \subseteq Path /\ DOMAIN renames \subseteq Tracker
  /\ \A p \in DOMAIN pending : pending[p] \in [change : Change, age : 0..Window]
  /\ \A id \in DOMAIN renames : renames[id] \in [from : Path, age : 0..Window]
  /\ {rescan, stopping, running} \subseteq BOOLEAN

Settled == due = {} /\ raw = <<>> /\ pending = Empty /\ renames = Empty

\* Once nothing is under way the consumer shows every file that exists, and only
\* files that exist but for those the debouncer had to guess about, unless the
\* watcher reports that it lost something: folding a burst of changes into one,
\* pairing the halves of a rename, also onto a file, and dropping temporary files
\* must keep the net effect (ingest_raw, record, merge, coalesce, flush).
SettledIsTruth ==
  Settled => rescan \/ (disk \subseteq shown /\ shown \ disk \subseteq guessed)

\* "Created and deleted inside one window is a temp file. Net nothing"
\* (fswatch.rs:965): where a removal cancels a pending creation, none is shown.
TempFilesLeaveNothing ==
  [][\A p \in Path :
       (Fold /\ Head(raw) = About("Removed", p, None) /\ p \in DOMAIN pending /\ p \notin DOMAIN pending')
         => p \notin shown']_vars

\* When the system has no more to report, all that was folded is emitted: no change
\* and no half rename stays behind in the debouncer (flush, flush_all).
BurstEnds == <>[](raw = <<>>) => <>[](pending = Empty /\ renames = Empty)
=============================================================================
