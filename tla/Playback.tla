------------------------------ MODULE Playback ------------------------------
(***************************************************************************)
(* A recorded session on screen: the compressed schedule, the transport    *)
(* and the driver of polis-world/src/replay.rs, the frame of               *)
(* polis-app/src/app.rs that moves them, and the snapshot publisher of     *)
(* polis-world/src/snapshot.rs the window reads from.                      *)
(*                                                                         *)
(* The world is kept as what it was told: the events it applied since the  *)
(* last reset, each with the instant its clock then showed.  Of its        *)
(* contents three are kept apart: the files, because the publisher caches  *)
(* them, the adopted checkout, because a reset leaves it alone, and the    *)
(* territory of the recorded thread, because every tick decays it.         *)
(* A frame is one action: one key or none, then the clock if it runs,      *)
(* then the publisher, as in draw_scene.                                   *)
(***************************************************************************)
EXTENDS Territory

CONSTANTS
  Recordings,   \* [session, what, place, weight] : the offset of each event, in ms
                \* and sorted, what it does: "cwd", "touch" (of the checkout), "local",
                \* "other", and the evidence it is of the thread's territory
  Caps,         \* the idle gap caps, in ms; 0: the schedule is never compressed
  Marked,       \* indices whose event is interesting by its kind (classify)
  BurstGap,     \* BURST_GAP
  Unit,         \* parts of a millisecond the clock can stand between
  Strides,      \* parts it moves in one frame: the frame's time by the speed
  Gaps,         \* wall time between two frames
  MinInterval   \* MIN_PUBLISH_INTERVAL

ASSUME PlaybackAssumption ==
  /\ \A r \in Recordings :
       /\ r.session \in Seq(Nat) /\ Len(r.session) > 0
       /\ {DOMAIN r.what, DOMAIN r.place, DOMAIN r.weight} = {DOMAIN r.session}
       /\ r.place \in Seq(Place) /\ r.weight \in Seq(Nat)
       /\ \A i, j \in DOMAIN r.session : i <= j => r.session[i] <= r.session[j]
  /\ Caps \subseteq Nat
  /\ Unit \in Nat \ {0}
  /\ Strides \subseteq Nat \ {0}
  /\ Gaps \subseteq Nat
  /\ MinInterval \in Nat

VARIABLES
  tape,         \* the recording and the cap, fixed once opened
  player,       \* cursor, position, playing and applied of the driver and its clock
  world,        \* told, now, files, adopted, territory; bumped: files changed since
                \* published
  shown,        \* the snapshot in the cell: files and told
  sinceShown    \* wall time since it was stored, up to MinInterval

vars == <<tape, player, world, shown, sinceShown>>

Session == tape.session
Events  == DOMAIN Session
SessionGap(i) == IF i = 1 THEN 0 ELSE Session[i] - Session[i - 1]

-----------------------------------------------------------------------------
(* The schedule. *)

\* Every gap on the playback timeline is capped, which also starts it at the
\* first event; the session timeline is not touched.
Compressed[i \in Events] ==
  (IF i = 1 THEN 0 ELSE Compressed[i - 1]) + Min({SessionGap(i), tape.cap})

Schedule == IF tape.cap = 0 THEN Session ELSE Compressed

Duration == Schedule[Len(Session)]
Due(ms)  == Cardinality({i \in Events : Schedule[i] <= ms})

\* Where a point of the playback timeline is in the session: piecewise linear.
SessionMsAt(ms) ==
  LET i == Due(ms) IN
  IF i = 0 THEN Session[1]
  ELSE IF i = Len(Session) THEN Session[i] + (ms - Schedule[i])
  ELSE Session[i] + (((Session[i + 1] - Session[i]) * (ms - Schedule[i]))
                       \div (Schedule[i + 1] - Schedule[i]))

Interesting(i) == i \in Marked \/ (i > 1 /\ SessionGap(i) >= BurstGap)

-----------------------------------------------------------------------------
(* The world, as far as a replay can disturb it. *)

Later(a, b) == Max({a, b})

\* What one event does to a world: its clock never goes back, a working
\* directory is adopted for good, a path of an unknown checkout is not resolved.
Apply(w, i) ==
  LET now    == Later(w.now, Session[i])
      landed == \/ tape.what[i] = "local"
                \/ tape.what[i] = "touch" /\ w.adopted
  IN [w EXCEPT !.told    = Append(@, <<i, now>>),
               !.now     = now,
               !.adopted = @ \/ tape.what[i] = "cwd",
               !.files   = IF landed THEN @ \cup {i} ELSE @,
               !.territory = IF landed THEN Observe(@, tape.place[i], tape.weight[i], Session[i]) ELSE @,
               !.bumped  = @ \/ landed]

ApplyAll(w, from, to) ==
  LET After[k \in (from - 1)..to] == IF k < from THEN w ELSE Apply(After[k - 1], k)
  IN IF from <= to THEN After[to] ELSE w

\* A mutant: a tick decays the territory for all the time it has been known.
TickAnew(w, ms) ==
  LET now == Later(w.now, SessionMsAt(ms))
  IN [w EXCEPT !.now = now,
               !.territory = IF w.told = <<>> THEN @
                             ELSE [Decay(@, now) EXCEPT !.last_decay = w.territory.last_decay]]

\* A thread exists, and its territory decays, from its first event on.
Tick(w, ms) ==
  LET now == Later(w.now, SessionMsAt(ms))
  IN [w EXCEPT !.now = now, !.territory = IF w.told = <<>> THEN @ ELSE Decay(@, now)]

\* The files go, and with them their generation; the mapper stays.
Cleared(w)      == [w EXCEPT !.told = <<>>, !.now = 0, !.files = {}, !.territory = Nowhere]
ResetQuietly(w) == Cleared(w)
Reset(w)        == [Cleared(w) EXCEPT !.bumped = TRUE]

Fresh == [told |-> <<>>, now |-> 0, files |-> {}, territory |-> Nowhere, adopted |-> FALSE,
          bumped |-> TRUE]

-----------------------------------------------------------------------------
(* The driver.  s is a player with its world: what one frame works on. *)

Ms(p) == p.position \div Unit

ApplyThrough(s, ms) ==
  LET due == Later(s.p.cursor, Due(ms)) IN
  [p |-> [s.p EXCEPT !.cursor = due, !.applied = @ + (due - s.p.cursor)],
   w |-> ApplyAll(s.w, s.p.cursor + 1, due)]

Ticked(s, ms) == [s EXCEPT !.w = Tick(s.w, ms)]
MovedTo(s, ms) == [s EXCEPT !.p.position = ms * Unit]

RewoundKeepingWorld(s) == [p |-> [s.p EXCEPT !.cursor = 0, !.applied = 0], w |-> s.w]
RewoundStillCounting(s) == [p |-> [s.p EXCEPT !.cursor = 0], w |-> Reset(s.w)]
Rewound(s) == [p |-> [s.p EXCEPT !.cursor = 0, !.applied = 0], w |-> Reset(s.w)]

Seek(s, ms) ==
  LET from == IF ms < Ms(s.p) THEN Rewound(s) ELSE s
  IN Ticked(ApplyThrough(MovedTo(from, ms), ms), ms)

Step(s) ==
  IF s.p.cursor = Len(Session) THEN s
  ELSE LET i  == s.p.cursor + 1
           on == [p |-> [s.p EXCEPT !.cursor = i, !.applied = @ + 1], w |-> Apply(s.w, i)]
       IN Ticked(MovedTo(on, Schedule[i]), Schedule[i])

\* The clock keeps the part of a millisecond a slow frame leaves over.
MovedWhole(position, stride) == ((position + stride) \div Unit) * Unit
Moved(position, stride)      == position + stride

Advance(s, stride) ==
  LET to    == Moved(s.p.position, stride)
      limit == Duration * Unit
      ran   == IF to >= limit THEN [s EXCEPT !.p.position = limit, !.p.playing = FALSE]
                              ELSE [s EXCEPT !.p.position = to]
  IN Ticked(ApplyThrough(ran, Ms(ran.p)), Ms(ran.p))

Finished(s) == s.p.cursor = Len(Session)

\* What lies ahead of the cursor.
Ahead(s)       == {i \in Events : i > s.p.cursor /\ Interesting(i)}

\* The previous event's time, for a step back.
Before(s) == {Schedule[i] : i \in {j \in Events : Schedule[j] < Ms(s.p)}}

-----------------------------------------------------------------------------
Init ==
  /\ \E r \in Recordings, c \in Caps : tape = [session |-> r.session, what |-> r.what, place |-> r.place,
                                             weight |-> r.weight, cap |-> c]
  /\ player = [cursor |-> 0, position |-> 0, playing |-> TRUE, applied |-> 0]
  /\ world = [Fresh EXCEPT !.bumped = FALSE]
  /\ shown = [files |-> {}, told |-> <<>>]
  /\ sinceShown = 0

\* SnapshotPublisher::publish: nothing within the interval, else one whole
\* snapshot, with the files of the last one unless their generation moved.
Publish(w) ==
  \E gap \in Gaps :
    IF sinceShown + gap < MinInterval
    THEN /\ sinceShown' = sinceShown + gap
         /\ world' = w
         /\ UNCHANGED shown
    ELSE /\ sinceShown' = 0
         /\ world' = [w EXCEPT !.bumped = FALSE]
         /\ shown' = [files |-> IF w.bumped THEN w.files ELSE shown.files, told |-> w.told]

\* The rest of a frame, from what the keys made of the player and the world.
Frame(s) ==
  \E stride \in Strides :
    LET ran == IF s.p.playing THEN Advance(s, stride) ELSE s
    IN /\ player' = [ran.p EXCEPT !.playing = @ /\ ~Finished(ran)]
       /\ Publish(ran.w)
       /\ UNCHANGED tape

Now    == [p |-> player, w |-> world]
Paused == [Now EXCEPT !.p.playing = FALSE]

Watch           == Frame(Now)
Toggle          == Frame([Now EXCEPT !.p.playing = ~@])
Scrub           == \E ms \in 0..Duration : Frame(Seek(Now, ms))
StepForward     == Frame(Step(Paused))
StepBack        == Frame(Seek(Paused, IF Before(Now) = {} THEN 0 ELSE Max(Before(Now))))
NextInteresting == Ahead(Now) # {} /\ Frame(Seek(Now, Schedule[Min(Ahead(Now))]))

Next == Watch \/ Toggle \/ Scrub \/ StepForward \/ StepBack \/ NextInteresting

\* While the transport plays every frame asks for the next one, so Watch, which
\* nothing else disables, is weakly fair; otherwise a frame is drawn when the operator
\* does something.  Written out, because a frame is costly to evaluate for ENABLED.
FramesFollow == []<>~player.playing \/ []<><<Watch>>_vars

Spec == Init /\ [][Next]_vars /\ FramesFollow

-----------------------------------------------------------------------------
TypeOK ==
  /\ player \in [cursor : 0..Len(Session), position : 0..(Duration * Unit),
                 playing : BOOLEAN, applied : 0..Len(Session)]
  /\ world.told \in Seq(Events \X Nat)
  /\ world.now \in 0..Session[Len(Session)]
  /\ world.files \subseteq Events /\ shown.files \subseteq Events
  /\ world.adopted \in BOOLEAN /\ world.bumped \in BOOLEAN
  /\ sinceShown \in 0..MinInterval

\* Whatever was played, stepped, sought or rewound, the world has been told the
\* first events of the recording, each once, in order, and with its clock at
\* the event's own time: a rebuilt world has aged no further than a played one.
SameHistory ==
  world.told = [i \in 1..player.cursor |-> <<i, Session[i]>>]

\* The scrubber tells the truth: the number of events is that of the world's,
\* its clock stands where the position is in the session, everything before the
\* position has happened and, while it plays, everything at it.
ScrubberHonest ==
  /\ player.applied = Len(world.told)
  /\ world.told # <<>> => world.now = SessionMsAt(Ms(player))
  /\ \A i \in Events :
       /\ i <= player.cursor => Schedule[i] <= Ms(player)
       /\ i > player.cursor /\ player.cursor > 0 =>
            \/ Schedule[i] > Ms(player)
            \/ Schedule[i] = Ms(player) /\ ~player.playing

\* The world that a driver just opened makes of the first k events.
Played(k) == ApplyAll(Fresh, 1, k)

\* A snapshot is of one moment: its files, which may be the previous
\* snapshot's, are those of the world whose threads it shows.
SnapshotWhole == shown.files = Played(Len(shown.told)).files

\* What a thread claims depends on its events and on the instant, not on how often
\* the clock was told: playing decays its territory frame by frame, seeking at once
\* ("do not depend on how chatty the fleet is", says tick).
TerritoryKeepsTime ==
  world.told # <<>> => world.territory = Decay(Played(player.cursor).territory, world.now)

\* A transport left alone stops by itself, at any speed.
PlayEnds == <>[][Watch]_vars => <>[](~player.playing)

\* The same prefix leaves the same files, whether it was played or rebuilt
\* ("the world arrives at the moment in exactly the state it was in", says
\* seek_next_interesting of replay.rs).
FilesFollowHistory == world.files = Played(player.cursor).files
=============================================================================
