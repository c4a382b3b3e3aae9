# A TLA+ model of Polis

Polis watches Claude Code sessions. Four channels report what the agents of a
repository do, a bus brings the reports to one consumer, the consumer folds them
into a `World` of threads, workers, files, claims and attention marks, and a
renderer draws snapshots of that world over a city laid out from the repository.

This directory holds TLA+ modules of the program, TLC configurations that check
them on small instances, and theorems that TLAPS proves for all values of the
constants. `PROJECT.json` lists every run, the mutant of the code that each
property rejects, the source lines every definition stands for, the hazards, the
finding and the theorems.

Run a configuration with `tlc -config World_claims.cfg MCWorld`, and a proof module
with `tlapm WorldProofs.tla`. Paths below are relative to the repository, and
`apply.rs` and the like to the crate of the component.

## 1. Inventory

| component | state it keeps | operations | what is hard | modules |
|---|---|---|---|---|
| **Event bus** `polis-ingest/src/bus.rs` | a bounded crossbeam queue, three arrays of atomic counters | `push` (retry, evict, give up), `recv`, `recv_batch`, `drain`, `stats`, `totals`, dropping sinks | producers evict through their own receiver and race each other and the consumer; nothing is locked | `LossyQueue`, `EventBus`, `BusReport` |
| **World: events, files, claims, attention** `polis-world/src/{apply,lib,contention,attention}.rs` | threads, files, claim table, calls in flight, attention vector, clock | `apply` (one handler per kind of event), `tick`, `reset` | four channels say the same thing in any order and a little late; a call's start and its result are separate events | `Contention`, `World` |
| **World: worker attribution** same files | workers of each thread, parking list, workflow runs | `attach_worker`, `finish_worker`, `park_unattributed`, `adopt_workflow_run`, `journal`, `spawn_from_result` | hooks, telemetry, two transcripts and a journal name a worker in any order | `Workers` |
| **Ingest lifecycle** `polis-ingest/src/lib.rs` | running sources, failed channels, the sink | `start`, `degrade`, `health`, `stop` | a partial start; stopping what has already failed | `Daemons` |
| **Hook listener, endpoint file, hook binary** `polis-ingest/src/{hook_listener,env}.rs`, `polis-hook` | a UDP port, a published endpoint file, a stop flag | bind, publish, receive loop, wake, join, remove | several daemons over time share one file and one default port; crashes leave both behind | `Daemons` |
| **Filesystem watcher** `polis-ingest/src/fswatch.rs` | raw queue, pending changes, half renames | callback, `record`, `merge`, `coalesce`, `flush`, `flush_all` | halves of a rename, bursts, overflow in the OS callback | `FsWatch` (partly) |
| **Transcript tailer** `polis-ingest/src/transcript.rs` | a cursor for each file | discover, measure, read | files grow, tear, shrink, vanish between two steps of a poll | `TranscriptTail` (partly) |
| **Territory** `polis-world/src/territory.rs` | weighted observations, a claimed district, a streak | `observe`, `decay`, `refresh_claim` | hysteresis over decaying, late evidence | `Territory`, `TerritoryLife`, `Playback` (partly) |
| **Replay** `polis-world/src/replay.rs` | schedule, clock, cursor | `advance`, `step`, `seek` | ticks per frame when playing, one when seeking | `Playback` |
| **Snapshot publisher** `polis-world/src/snapshot.rs` | a cell, cached `Arc`s, generations | `publish`, `load` | reuse keyed on generations, rate limit | `Playback` |
| **Growth history** `polis-repo/src/git.rs` | the order of first additions, the touch times, a cache file | `read_cached`, `extend_to_head`, `save` | HEAD and the cache move between two reads; history is rewound, rewritten, merged | `Growth` (partly) |
| **Corpus** `polis-repo/src/corpus.rs` | an SQLite file several processes share, an index in memory | open with a recovery ladder, `record_session`, `prune`, `load_index` | processes prune on stale counts and die between two transactions | `Corpus` (partly) |
| **OTLP receiver and normaliser** `polis-ingest/src/{otlp,normalize}.rs` | HTTP server, last-record instants | serve, drain on shutdown | requests in flight at shutdown | a step each in `Daemons` |
| **Event model, recording** `polis-events/src` | none | parse, rebase, normalise paths | forms of one path | — |
| **Session index, verification commands** `polis-world/src/{sessions,verify}.rs` | a cache keyed by size and mtime; none | `scan`; classify | stale entries | — |
| **Repository: tree, imports, kinds, prose** `polis-repo/src` | none | walk, analyse | — | — |
| **Layout** `polis-layout/src` | settlement, lots, memo caches | accrete, settle, vacate | identity of lots over growth | — |
| **Renderer** `polis-render/src` | none between frames | draw | floating point | — |
| **Application, CLI, doctor** `polis-app/src` | stages of loading, transport | tail, replay, doctor | `drain` and the counters line share a thread | its loops in `EventBus`, `BusReport`, `Playback` |

How they meet: the sources hold clones of the `EventSink` and push from threads of
their own. `polis tail` drains the bus and prints what it gets, with a counters line
between two batches (`commands.rs:179-249`); it applies nothing and ticks nothing. A
replay takes the events of a recording, which the same sources once produced, calls
`World::apply` for those that are due, then `World::tick` once per frame or seek, then
publishes a snapshot that the renderer loads (`replay.rs:600-740`, `app.rs:982`).
Nothing flows back, so a component is checked with its neighbours reduced to what they
may send it: `World` to events of any order and ticks at any instant,
`EventBus` to producers that push, `FsWatch` and `TranscriptTail` to what the
consumer is shown. Compositions: `BusReport` runs beside `EventBus`; `Playback`
joins the schedule, the driver, the frame, the publisher and `Territory`; `Daemons`
joins the lifecycle, the listener and the hook processes.

## 2. The modules

### Bus

`LossyQueue` is the abstract promise: a bounded FIFO that loses from its front, or
refuses the newest, while somebody is pushing; it names no thread, retry or counter.
`EventBus` is `bus.rs`, one action for each atomic operation:

| action | code |
|---|---|
| `Arrive` | `record_arrival` |
| `TrySendOk`, `TrySendFull` | `try_send` |
| `EvictOldest`, `EvictNothing` | `try_recv` on the producer's receiver |
| `CountVictim` | the victim's `dropped` counter |
| `DropNewest` | the path after the retries are spent |
| `DropSink` | the last clone of a channel goes |
| `RecvFirst`, `RecvDisconnected` | the blocking receive that opens `recv_batch` |
| `DrainStart`, `DrainOne`, `DrainFull`, `DrainEnd` | the loop of `drain` |

`pc` is where in `push` a producer stands. `lost`, `delivered` and `cost` are history
variables that no guard reads.

`BusReport` adds the counters line (`tick_counters`): the consumer's thread reads the
queue's length, then the `dropped` counters, then the `received` ones, while producers
run. The counters are `Ordering::Relaxed`, so the module keeps for each thread a *view*:
for each counter the oldest value a load of that thread may still return. A load
returns any value from the view to the current one. A view grows by the thread's own
updates, by what it loads, and by the view of the sender of an event it takes
(`carried`); an update reads the latest value, whatever its ordering. What is assumed of
the memory model is that sending and receiving one slot of the queue are a release and an
acquire, and that one counter's updates have one order; nothing is assumed between two
counters. `arrivals`, `losses` and `heard` are ghosts that say which events a value of a
counter stands for.

### World

`Contention` is the claim table as operators on a set of claims (`contention.rs`).
`World` extends it: one action is one event given to `World::apply`, with everything
the handler calls, or one `World::tick`. An event has the instant `at` it was
observed; it may be applied up to `Skew` late, and the clock is the maximum seen.

| action | code (`apply.rs` unless named) |
|---|---|
| `Activity`, `FirstSight`, `AtMention`, `ReadFile` | handlers that move status, clock or presence only |
| `PreToolUse` | hook: touch, claim |
| `AssistantEdit`, `AssistantTest` | transcript: the same, and `insert_pending` |
| `Settle` | `settle`: upgrade, release, `mark_verified` |
| `OtelEdit` | telemetry's `tool_call` |
| `FsWrite`, `FsRemove`, `FsRename` | `fs`, `release_sole_claim` |
| `NeedsDecision`, `Answered`, `BlockedOnUser` | `needs_decision`, `resolve_decisions` |
| `FinishThread`, `StopFailure` | `finish_thread`, the failed turn |
| `Tick` | `World::tick` (`lib.rs`) |

The attention vector is three sets: `pins`, `dones` and `links`. `finished` and
`patch` are history variables. Titles, diff counts, trails, glyphs and health
counters are left out: no property is about them and no guard modelled here reads
them.

`Workers` is the attribution of subagents, apart from `World` because neither reads
what the other writes. Its environment is a set of messages, each applied once. The
messages of one source keep their order (`Before`), a call has one result
(`Instead`), and the sources are otherwise unordered, as four channels are.
`heard` is the history. Handlers: `HookOf`, `StopOf`, `RecordOf`, `SpawnResult`,
`WorkflowResult`, `Journal`; the evidence levels are those of
`WorkerAttribution::strength`.

### Daemons

A daemon has a main thread (`stage`) and a receive loop (`loop`); a restart is
another daemon. `Start`, `StartChannel`, `StartHooks`, `Publish`, `Started` are
`Ingest::start` in channel order, with `Degrade` for what fails, be it the bind or
what follows it; `Stop`, `StopSource`, `Wake`, `Join`, `Unpublish`, `Remove`, `Stopped`
are `Ingest::stop` and `HookListener::stop`. `Unpublish` reads the endpoint file and
compares the address, `Remove` deletes whatever file is there by then, and other daemons
may take any number of steps between the two. `CheckStop`, `Receive`, `RecvTimeout`, `RecvError` are
`recv_loop`; `Resolve`, `Send`, `Watchdog` are one hook process; `Crash` may happen
anywhere and leaves the endpoint file. The socket lives exactly as long as the loop.
The three other sources are one step to start and one to stop.

The ports that the daemons are told (`port`) are any of `Assignments`, among them the one
where all are told the default. A datagram names its sender, so that a wake can be told
from a hook's event wherever it lands. `overlapped` is a history variable: the daemons
that published while another could still remove the file (it uses the same port, or stood
between `Unpublish` and `Remove`).

### FsWatch

`System` changes the tree and reports it: files are created, written, deleted, renamed
onto nothing or onto another file, moved out of the tree or onto an ignored path, and
moved in. `Forms` are the ways in which notify reports a rename: one event with both ends
(`"both"`), an event for each end that does not say which end it is (`"any"`), two halves
with a tracker, perhaps with the whole after them (`"tracked"`), two halves without
(`"untracked"`). The second half of a tracked rename is a step of its own, and other
changes are reported in between, but none that makes an end of it appear or vanish: the
kernel holds the locks of its directories until then. A rename with one usable path,
which `ingest_raw` turns into a write of that path (`fswatch.rs:1323-1328`), arises from
`"any"`, from moves in and out, and from ignored ends. `SystemLoses` is a loss. `Forward`
is the callback's `try_send` into the bounded queue.

`Fold` and `Idle` are the iterations of `debounce_loop`, over `Record`, `Merge`,
`Relocate`, `Flush` and `FlushAll` as functions of `[pending, renames, shown]`. `shown` is
what the consumer makes of the emitted events. Time is kept as the age of an entry
(`Ages`). The ignore rules and the correlation window are not in the module.

`guessed` is a history variable: the paths about which a notification did not say enough,
namely the end of a rename that left and was reported as an end that might be either, and
a path where a second half without a first was taken for a creation although a file was
there. Such a file may stay shown although it is gone; nothing else may.

### TranscriptTail

A cell of a file stands for a piece of a line. `Appends`, `Truncate` and `Unlink`
are the session; `StartPoll` is the rescan, and `Turn` the file the poll under way is at:
the first in emission order (`rank`) of those it has yet to read. `Vanished`, `Measure`
and `Read` are the halves of `FileTail::poll`, so the session may write between a
measurement and its read. A file deleted in between is still open: `held` is what the
read then finds. `Records` are the lines of a chunk that parse; a fragment, of which a
tail that starts at the end of a half-written file sees one, does not. `known` and
`edition` tell the contents of a rewritten file apart and are read by no guard of the
tailer. An existing session is followed from its beginning or from its end (`Starts`).

### Territory and Playback

`Territory` is `territory.rs` as operators on a record: `Converged`, `Decay`,
`RefreshClaim`, `Streak`, `Observe`. A directory is the sequence of its components.
A unit of time is one half-life and a unit of weight the least a kernel may have, so
that weights that are powers of two decay exactly and the floor at which evidence is
dropped is the floor of the division. Kernels, bandwidth and the centre of mass are
geometry, and no claim depends on them. `TerritoryLife` runs one territory under
observations, which may be late, and ticks, in any order.

`Playback` is a recorded session on screen. A frame is one action: one key or none
(`Watch`, `Toggle`, `Scrub`, `StepForward`, `StepBack`, `NextInteresting`), then
`Advance` if the transport plays, then `Publish`. The world is kept as what it was
told, each event with the instant its clock then showed; of its contents the module
keeps the files, because the publisher caches them, the adopted checkout, because a
reset leaves it alone, and the territory, because every tick decays it. Which events
are interesting by their kind is a parameter (`Marked`).

### Growth and Corpus

`Growth` is `History` in `git.rs`. Commits are numbered by their date, so that a
walk lists a set of them in the order of their numbers. `Add`, `Modify`, `Delete`,
`Merge` and `Checkout` are the repository (an amend or a rebase is a checkout and
commits); `Launch`, `LoadCached`, `LoadStale`, `Extend`, `ReadHead`, `Walk` and
`Save` are `read_cached` in one process, one step for each read of HEAD, walk and
access to the cache; `End` is its death anywhere, `Spoil` a damaged cache.

`Corpus` is the store of `corpus.rs`. A transaction is a step. `Connect`,
`SchemaVersion`, `FindsCorrupt`, `MoveAside`, `MoveSidecars`, `OpenFails` are
`open_or_degraded`: any read up to the end of the first load may find the damage, the
database and its sidecars are renamed in separate steps, and each rename may be refused.
A sidecar left behind has no state: SQLite discards a log beside an empty database. A log
taken from under another process that has the file open is not modelled. `LoadCount` and
`LoadFreqs` the two queries of `load_index`; `RecordSession`, `Prune` and their
failures the rest. A file is named by the order of its creation, so that a process
may hold a file that has been moved aside. `behind` is a history variable: another
process wrote since the index was read, or a load failed.

## 3. What the runs check

| run | module, specification | distinct states | what it shows |
|---|---|---|---|
| `bus_safety` | `MCBusReport`, `ReportSpec` | 1,680,542 | two producers of two events on a one-event bus, drained beside two counters lines: no event vanishes or is duplicated, results honest, the cost of a push bounded, a line never behind what was printed above it, no deadlock |
| `bus_live` | `MCEventBus` | 185,277 | on a two-event bus: `EventBus` implements `LossyQueue`; order per producer, exact counters; a push returns although nothing is assumed of the consumer, and its event is settled by one that runs |
| `world_attention` | `MCWorld` | 252,107 | two threads, one file, two sources of questions, finishes: pins, answers that take every pin of their thread, marks that need review; one tick past every threshold leaves nothing that fades |
| `world_claims` | `MCWorld` | 115,064 | two threads, two calls, two paths, late events: one claim per thread and path, and no event takes both sides of a live collision |
| `workers` | `MCWorkers` | 262,800 | two workers of a workflow run and a plain one, all orders of their messages: placed or parked, evidence has its effect and only grows |
| `fs_watch` | `MCFsWatch` | 1,371,572 | two files created, written, deleted, renamed also onto each other, moved in and out, in all four forms of report, one tracked rename at a time: once all is settled, what is shown is on disk but for guesses, or the re-scan flag is up; nothing stays in the debouncer |
| `transcript` | `MCTranscriptTail` | 172,112 | two transcripts written in pieces, truncated, deleted: every line once and in order, the spawning call first, every complete line in the end |
| `daemons` | `MCDaemons` | 671,367 | two daemons, on two ports or both on the default one, start, degrade, fail, stop and crash: the file follows its writer, no listener counts its own wake, every stop ends |
| `playback` | `MCPlayback` | 463 | three recordings under every transport key: the world is told the same history, the scrubber is honest, a snapshot is of one moment, territories do not depend on the frame rate, playing ends |
| `corpus` | `MCCorpus` | 747,443 | two processes on one file that may be absent, sound, newer or corrupt: the index is what a load would read, only sessions outside the window go, the switch happens once |
| `growth` | `MCGrowth` | 625,365 | two instances read, cache and extend a history that moves under them: it covers exactly its HEAD, and is the fresh one where nothing was merged |
| `growth_merge` | `MCGrowth` | violation | the finding below |

### Finding

`growth_merge` checks `DerivedIsFresh`. A branch whose commits are older than the
cached HEAD is merged; `extend_to_head` folds `previous..head` behind what it has,
so the order of the files and their touch times differ from those a fresh launch
reads. `git.rs:1766-1768` calls exactly this disagreement forbidden.

### Other disagreements met while modelling

Each of these is a statement of a comment, a decision record or a test, written as a
property in the module and refuted by TLC; none has a run of its own. To see one,
give the configuration that property alone, with the change named.

| property | configuration | code | what the code does |
|---|---|---|---|
| `WaitingHasPin` | `World_attention.cfg` | `apply.rs:142` | the span of a wait clears the pins and leaves the thread Waiting |
| `VerifiedHoldsWeight` | `World_attention.cfg` with `LastEvent = 2`, without VIEW | `lib.rs:562` (world) | a second finish keeps the age of the first, so its mark fades at once |
| `TestsSawTheChange` | `World_claims.cfg` without SYMMETRY and VIEW | `apply.rs:1300` | an edit made while the tests ran counts as tested |
| `UpgradeIsKept` | `World_claims.cfg` | `apply.rs:784` | a claim upgraded with its line range is released by the same result |
| `FinishedIsRemembered` | `Workers.cfg` | `apply.rs:982` | the end of a parked worker is forgotten when it is placed |
| `SettledIsTruth` | `FsWatch.cfg`, `Backups = TRUE` | `fswatch.rs:929` | a file created where another was moved out is reported before the lone half is given up, and is then reported removed |
| `TempFilesLeaveNothing` | `FsWatch.cfg` | `fswatch.rs:965` | a file moved in onto another counts as created; deleted inside the window the two cancel out as "a temp file", and the file that was there stays shown |
| `NoTornLine` | `TranscriptTail.cfg`, `Starts = {"End"}` | `transcript.rs:1732` | a tail that starts at the end of a file that ends in half a line gets the other half for a line, and drops it |
| `RemovesOnlyItsOwn` | `Daemons.cfg` | `hook_listener.rs:739` | a daemon on another port publishes after a stopping one has compared the address and before it removes the file: the shutdown deletes the file of the other, against `hook_listener.rs:732-734`; on one port the address does not tell the two apart at all |
| `FilesFollowHistory` | `Playback.cfg`, `Recordings <- Unannounced` | `lib.rs:339` (world) | a reset keeps the adopted checkouts, so a rebuilt world resolves paths that the first play did not |
| `[][here # None /\ here' = None => state[here] = "corrupt"]_vars` | `Corpus.cfg` | `corpus.rs:250` | two processes find one file corrupt; the second moves aside the sound store the first has just created |

The properties that do hold are stated so that they allow for the following, which
comments describe otherwise or do not mention:

- a push that fails over loses both its victims and its own event, where the comment
  at `bus.rs:53-55` says "exactly one"; `PushCostBounded` is the bound that holds;
- a turn that fails with a question open leaves the thread Idle under its pin
  (`apply.rs:359`), hence "Waiting or Idle" in `PinnedNeverActive`;
- a file renamed on disk stays in its thread's writes under the old name, and the
  thread can never be verified again (`apply.rs:423`);
- two detached heads in one checkout count as one branch (`contention.rs:307`), against
  ADR-0018;
- the result of one call releases the claim another call of the same thread still holds
  on the path (`apply.rs:784`), hence "some claim of the two threads" in `OneSideAtATime`;
- a launch acknowledgement tailed after the stop hook makes a finished worker running
  again (`apply.rs:838`); a worker parked by a journal line and then placed by a hook
  forgets its run, and is not adopted when the parent's call is read (`apply.rs:1147`),
  hence "at least the transcript's" in `PlaceFollowsEvidence`; a record that carries its
  own agent id counts as the weaker workflow link once the run is known (`apply.rs:578`);
- a wake may reach the socket of another daemon that has taken the port, and is counted
  there as a foreign datagram; a failed publication leaves the file of a crashed daemon;
- an idle gap cap of zero makes all events of a recording due at once; a step back at the
  first group of events seeks to 0 and leaves it applied if it is due there;
- a claim widens and narrows at once, so a sibling district is reached in two steps
  without confirmation; observations that arrive late weigh in full as of the last tick,
  so `TerritoryKeepsTime` is about recordings, which have none;
- `City::accrete` deals lots anew from the growth settlement: files seated by `City::grow`
  since are dropped and removed ones come back, and a ledger of `LotId`s goes stale.

### Bounds, and why they are enough

- **Bus.** `Capacity` 1 makes every second push overflow; 2 lets a victim have an
  event behind it, which order and refinement need. `EvictRetries` is 2, as in the
  code. Two producers are enough for each to take the slot the other freed, and two
  pushes each for the path on which the retries are spent. Two lines are read, so that the
  second starts from what the first has seen; two producers run between and beside its
  loads. `bus_safety` has one kind of event, `bus_live` two of different channels, without
  which no victim could be charged to the wrong one. Producers are interchangeable in
  `bus_safety`, which has no liveness.
- **World.** A unit of time is ten seconds. `TTL`, `IdleAfter`, `FullWeight` and `Decay`
  are scaled: a property depends on their order relative to events, not on their size.
  `LastEvent` bounds events, `MaxTime` the clock, and exceeds `LastEvent` by enough for
  the delays under test to run out. `PendingCap` is 1, so that the second call evicts.
  Constants a run does not need are empty (no calls in `world_attention`, no questions in
  `world_claims`), which removes the actions that range over them; together the runs take
  every action. `world_claims` tells states apart by `ClaimsView`: no claim operation
  reads a status, a mark or a file, and neither of its properties does, so what the view
  hides has no effect on what it shows. `world_attention` hides only the history variables
  (`MarksView`). Threads, calls and paths are interchangeable; neither run has liveness.
  Two `Source`s give one thread two pins. Because `world_attention` has no calls, no test
  turns a file verified there: a thread is verified when it wrote nothing, and the theorem
  `ReviewPersists` covers the runs with tests.
- **Workers.** Two workers are needed for one to be parked when the other is placed; a
  third in another thread shows that nobody else is touched. Each message is applied
  once, so the run is finite and exhaustive.
- **FsWatch.** Two files are a rename and its target; one tracker is one rename whose
  halves are apart, and it is used again when that one is over (the theorem has any number
  in flight); a queue of two overflows on the third change of a
  burst; a window of one tick separates what is ripe from what is not. Nothing is asked
  of the files after a loss, so they need not change further. `Backups = FALSE` leaves out
  a file that appears where one was moved away and the lone half is not given up yet; with
  it the property fails, see above.
- **TranscriptTail.** Two pieces make a line that can tear, two lines an order; `MaxPoll`
  3 ends a poll inside the second line. One rewrite of each file. The main transcript may
  exist at the start, with any part of its two lines.
- **Daemons.** Two daemons, with channels in a different place of the order for each, one
  hook, two consecutive errors. The two have a port each, or both the default one
  (`Either`), which a stranger may hold.
- **Playback.** The three recordings have events that share a millisecond, a gap longer
  than the cap, a late start, evidence that decays to nothing. The state space is small
  because a player is a function of its position and history; `Strides` 1 and 5 of half
  a millisecond stop inside a millisecond and jump over several.
- **Growth, Corpus.** Three commits (four for the finding, with one process) of two
  files; four ordinals over a window of two sessions, one path, one fault.

### Fairness

- Bus threads are ordinary OS threads: each step of a push that can go on does, so the
  producers have weak fairness in `Spec` (`PushFairness`) while *starting* a push has
  none. The consumer and the end of the channels are fair only where `EventsSettle`
  assumes it (`ConsumerRuns`): the loop of `tail`, and a shutdown.
- `FsWatch`: the debounce thread's iterations, and time. `TranscriptTail`: the tailer's
  loop. `Daemons`: the two threads of a daemon, but nobody has to start or stop one, or
  to send a hook.
- `Playback`: while the transport plays, each frame asks for the next one
  (`FramesFollow`). It is weak fairness of `Watch`, which nothing else disables.
- `World`, `Workers`, `Growth`, `Corpus` need none: their properties are about safety only.
  In particular nothing promises that a world is ticked again: `OneTickSettles` says what
  one tick does, if there is one.

## 4. What is proved

All for every value of the constants, from the assumptions that the modules declare
(TLC evaluates those of each module it runs).

| module | theorem | property |
|---|---|---|
| `EventBusProofs` | `TypeCorrect` | `TypeOK` |
| | `EachEventOnce`, `OrderKept` | `ExactlyOnce`, `PerProducerOrder` |
| | `NoEventVanishes`, `CountersAreExact` | `NothingVanishes`, `CountersExact` |
| | `PushCost`, `PushResult` | `PushCostBounded`, `ResultHonest` |
| | `CapacityKept`, `BatchStaysBounded` | `CapacityRespected`, `BatchBounded` |
| | `BusIsLossyQueue` | `ImplementsLossyQueue` |
| | `LineCovers` (of `BusReport`) | `LineCoversTaken` |
| `WorldProofs` | `TypeCorrect` | `TypeOK` |
| | `PinnedNeverLooksActive`, `AnswersWhole` | `PinnedNeverActive`, `AnswersAreWhole` |
| | `ReviewPersists`, `SaidOnce` | `UnverifiedPersists`, `OneMarkPerSubject` |
| | `PendingStaysBounded`, `OneClaimEach` | `PendingBounded`, `OneClaimPerThread` |
| | `NeverCritical`, `OneSideStays` | `NoLinkIsCritical`, `OneSideAtATime` |
| | `OneTick` | `OneTickSettles` |
| `WorkersProofs` | `TypeCorrect`, `PlacedOnce` | `TypeOK`, `PlacedOrParked` |
| | `EvidencePlaces`, `CountCorrect` | `PlaceFollowsEvidence`, `CountIsCurrent` |
| | `EvidenceOnlyGrows` | `EvidenceGrows` |
| `IngestProofs` | `TypeCorrect` | `TypeOK` of `Daemons`, with the error budget of a loop that goes on |
| | `FileIsItsWriters`, `WakeUncounted` | `FileFollowsWriter`, `WakeNeverCounted` |
| | `TailTyped` (of `TranscriptTail`) | `TailTypes` |
| | `LinesOnce`, `SpawnComesFirst` (of `TranscriptTail`) | `EveryLineOnce`, `SpawnFirst` |
| `CorpusProofs` | `TypeCorrect`, `NewestKept` | `TypeOK`, `KeepsTheNewest` |
| | `SwitchesOnce`, `IndexExact` | `SwitchOnce`, `IndexIsExact` |
| `FsWatchProofs` | `TypeCorrect` | `TypeOK` |
| | `SettledShowsTruth` | `SettledIsTruth` |
| `PlaybackProofs` | `TypeCorrect`, `OneHistory` | `TypeOK`, `SameHistory` |
| | `HonestScrubber` | `ScrubberHonest` |
| | `WholeSnapshots`, `RebuiltFiles` | `SnapshotWhole`, `FilesFollowHistory` |
| | `TerritoryInTime` | `TerritoryKeepsTime` |
| | `ClaimsAreDistricts` (of `TerritoryLife`) | `ClaimIsDistrict` |
| | `MovesWhenSustained` (of `TerritoryLife`) | `MovesOnSustainedEvidence` |
| `GrowthProofs` | `TypeCorrect` | `TypeOK` |
| | `CoversHead`, `LinearFresh` | `CoversItsHead`, `LinearIsFresh` |

A property with a theorem and no run (`CapacityRespected`, `BatchBounded`,
`OneMarkPerSubject`, `PendingBounded`, `NoLinkIsCritical`, `CountIsCurrent`,
`FilesFollowHistory`, the types of `EventBus`, `World`, `Workers`, `Daemons`, `Corpus`,
`Playback` and `Growth`, and all of `TerritoryLife`) needs none: the proof covers the
small instance.

Some theorems have a hypothesis that is more than an assumption of their module.
`SettledShowsTruth` assumes `~Backups`: no file appears where one was moved away as long as
that move may still be given up as a lone half;
`WholeSnapshots`, `RebuiltFiles` and `TerritoryInTime` assume that a recording names its
checkout before it touches a file of it (`RecordingsAnnounce`). In each of these cases section 3 lists the
behaviour that refutes the property without it. `LinesOnce` and `SpawnComesFirst` assume
`LinesFit`, that a line is no longer than what one poll reads: the tailer skips a longer
one, and counts it (`oversize_lines`, `transcript.rs:1787-1790`).

**The bus.** Every step moves at most one event from one place to the next (in flight,
queued, held by an evictor, lost, delivered); `ArriveMoves`, `SendMoves`, `EvictMoves`,
`CountMoves`, `DropMoves` and `TakeMoves` say which. `ExactlyOnce` is not inductive: that
the victim of one producer is not also queued follows only if the queue holds no event
twice, and that a pushed event is new only if sequence numbers on all places are at most
the producer's count. `Accounted` adds both and is inductive; the order theorem is one of
its conjuncts. The counters need in addition that all places are finite, since `received`
is a cardinality. The cost of a push is bounded by the iterations it has finished, plus
one while a victim is uncounted, plus its own event at the end. The refinement maps each
action to one of `LossyQueue` or to a stutter and uses `ExactlyOnce` to show that an
arriving event was not seen before.

**The counters line.** A value of a counter is a prefix of the order in which it was
updated. `Covers` says that a view's prefixes hold the arrivals of the events its owner has
had in hand and the losses it has heard of; `ViewsCover` says it of every thread and of
every event in the queue, for which it is enough that `push` counts an arrival before it
sends. Updates only append, so a prefix stays one; of two prefixes one holds the other, so
two views that are joined cover what either did. A load returns at least the view's value:
that is all `LineCovers` takes from the memory model beside the release and acquire.

**The world.** `MarkSteps` reads off the actions what a step can do to pins, Done marks,
links and calls in flight; the theorems on marks follow from it. `ClaimSteps` does the
same for the claim table: a step registers one claim whose lines are unknown
(`Registers`) or only removes claims, and never both sides of a collision that is live at
the new instant (`Removes`). The hard case is `Landed`, where the registration and the
release of one event must be taken together. `OneClaimPerThread` and `NoLinkIsCritical`
are not inductive, because links are computed from the table at a tick: `TableInv` says of
the table that it is finite (the guard of a save counts the claims on a path), has one
claim per thread and path, and that no claim in it has lines; `LinkInv` carries this over
to the links.

`OneTickSettles` needs `AgeInv`: a claim and a Done mark are no younger than the last
activity of their thread, up to the lateness of an event. A thread long silent by its own
clock has then nothing that another clock would keep.

**The workers.** `Steps` reduces every message to three: it places its worker in its own
session with some evidence, parks it, or makes a run known. `PlacedOrParked` needs
`ParkInv`: a parked entry names the worker's own run, and a known run names the session
of all its workers, since a journal line is placed by the run table alone.

**The daemons.** Types need `NotYet`: a listener that has not been started has no errors
and no stop flag. For `FileFollowsWriter`, `FileInv` says that a daemon about to remove the
file believes it is its own, and that as long as the last writer published when no other
could remove the file, no other can: the others that still own it have other ports and are
not past their comparison. For `WakeNeverCounted`, `Asked` says that a daemon that wakes
has set its flag, `Exclusive` that the bind keeps the listeners of a port apart, and
`Woken` that a wake lies in the buffer of its sender or of one that bound the port after
the sender's socket was gone. None assumes anything of the ports.

**The transcript tailer.** `TailInv` says of a file that was read since it was last written
anew (`Current`) that its cursor is at the end of line `m`, within the file, and that lines
1 to `m` are on the bus (`Fed`). `ReadsLines` is the step: a chunk that starts at the end of
a line gives the lines that follow, all that are complete in it, and the cursor stops after
the last. It rests on `Records` being the list of the ends of lines in the chunk, in order
(`Listing`), and on arithmetic of places and lines (`PlaceAt`, `Multiples`). Of a file that
is not current the invariant must say that it can become so only by shrinking or by being
found anew, and that nothing of its present edition is then on the bus: either nothing was
given, or what was given is still before the cursor, so the tailer cannot find the file
shrunk (`Unnoticed`). A file deleted while open is read once more, but what it gives is of an
older edition (`Deleted`). `SpawnFirst` adds `SpawnInv`: as long as nothing was rewritten or
left behind, once a subagent is followed the spawning call is on the bus, or the poll under
way is at the main transcript, or before it, and will read as far as the call.

**The corpus.** `KeepsTheNewest` is inductive: rows are the last that were given an
ordinal, at least a window of them, so a prune on any count drops only what the window
has left. `SwitchOnce` adds `Backed`: no process counts more sessions than ordinals were
given out in its file, so a process that has learned finds a window of rows at its next
load. `IndexIsExact` is strengthened by `UpToDate`, which follows the index through the
two queries of a load, for every process that is not `behind`.

**The watcher.** What has been reported and not yet emitted is a story about the disk.
`Account` says that the queue tells legal changes, one after the other, from what the
debouncer would have the consumer show if it were emptied now (`View`) to the disk less the
files that a rename under way will bring (`Arrivals`). A notification that is recorded takes
its change from the front of the story and makes it in the view; a flush of anything leaves
the view as it is. Both hold up to `guessed`: the view may show a guessed path more than the
story has (`Fits`), never less, and what is recorded or flushed adds no path that is not
guessed (`Mistaken`, `Near`). The view is more than the folded changes: a first half hides
its file before anything says it is gone. `Halves` keeps that half harmless: a tracker's
halves come in order, and where a file appears any earlier half that left the same path has
been paired before (`Safe`), also if the halves are reported apart. `Ready` is what lets a
flush leave the view alone: but for guesses, a change held as a creation is of a file not
shown, and a change is emitted no later than a half that hides its path. When everything is
empty the view is what is shown, and the story's end is the disk.

**The replay.** `PlaybackInv` holds the player to the schedule: the cursor is the number of
events due at the position, the clock is the session time of the position, parts of a
millisecond included. `Follows` then says of the world that it was told the first `cursor`
events, each at its time, that it has the files they leave, and that until its generation
moves it still has those of the snapshot in the cell. `SnapshotFollows` says the same of the
snapshot. What lands in the world needs `RecordingsAnnounce`: otherwise it depends on a
checkout adopted before a reset, and so do the files and the territory.

`TerritoryKeepsTime` is not inductive: inside a frame the territory is ahead of its last
decay. `Aged` says of it that from the world's clock on it cannot be told from the territory
of `Played(cursor)`: decayed to any later instant, the two are the same. An event keeps that,
because an observation first decays the territory to its own time, which is not before the
clock (`ObserveAlike`); a tick keeps it because a decay to one instant and on to a later one
is a decay to the later (`DecayTwice`). That rests on `FadingTwice`, for any evidence and any
two spans: half-lives add up (`HalfLivesAdd`), and evidence that is below the floor early would
be below it late. At rest nothing is left to decay (`Settled`).

**The growth history.** `Ancestors` and `Fold` are recursive functions of the log; the lemmas
about them are for any log and reach the state only as `Anc(commits, c)` and
`FoldOf(commits, h, S)`. `AncStable` and `FoldStable` say that a further commit changes
nothing of what is there. `Good` says of a history that it has exactly the files and the
touched paths of the ancestors of its head, and is the fresh one where these merge nothing.
`GrowthInv` asks `Good` of every history held and of the cache, and of a process about to
walk that it holds a history of an ancestor of the HEAD it is pinned to; that the cache may
meanwhile be another process's is then of no consequence. The heart is `WalkGood`: the lines
of `previous..head` complete the coverage (`FoldAdds`); where nothing was merged they all come
after those of `previous` (`AncChain`), and a fold in two such parts is the fold of both
(`FoldJoin`). A merge breaks `AncChain` and nothing else, which is the finding.

**The territory.** `LifeInv` says what the streak is: it counts the latest observations,
all outside the claim, all made since it was claimed. It reads nothing of how the evidence
converges. The one case that could pass a streak on, a claim that decays away and is
followed at once by another, is out because one observation agrees with nothing
(`MinEvidence > 1`).

**Recursion.** The provers cannot instantiate the library's induction theorems, whose
parameter is an operator. Where a proof needs induction it takes the set of the numbers where
the claim fails and its least member (`LeastNat`, from `WFMin` and the well-foundedness of
`<` on the naturals). Recursive functions are written as `LET f[k \in 0..n]`, and that there is
such a function is proved the same way before it is unfolded (`AncRun`, `FoldRun`, `RunExists`,
`IterateExists`).

### Only model-checked

Liveness (`PushReturns`, `EventsSettle`, `BurstEnds`, `LinesArrive`,
`StopEnds`, `PlayEnds`) is out of the prover's reach, and so is anything that needs
`ENABLED`. Every invariant and every safety property of a step that a passing run checks has
a theorem. What no proof can say of the code is its arithmetic: a weight is an `f32` there, and
`TerritoryInTime` holds of it up to rounding.

## 5. Not modelled

- **OTLP receiver, normaliser, event model, recording.** A library's HTTP server and
  translations of one data format to another, without state that interleaves.
- **Session index.** A scan with a cache that one command consults and nobody shares.
- **Verification commands, imports, kinds, neighbourhoods, prose, denylist.** Pure
  classification of text; `World` takes an outcome as a Boolean of the call.
- **Tree, manifest, worktrees.** Functions of what is on disk. `World` takes the worktree
  of an event as given; adoption is in `Playback` as far as a reset disturbs it.
- **Layout and renderer.** Computational geometry over floats, out of reach of TLC and
  TLAPS. The memo caches are keyed on digests of their whole input; the deformation limiter
  and the vacancy ledger are not called by the application.
- **Kernels, bandwidth, drift of a territory.** Geometry, and no claim depends on it.
- **Inside modelled components:** trails, diff counts, the display order of marks and the
  health counters of `World`; the ignore rules and the correlation window of the watcher;
  the fields of a transcript record; `set_window` and the parts of a transaction of the
  corpus; the loading stages of the window.

The layers left out are most of the repository's lines (layout, rendering, parsing) and
few of its decisions about order, failure and time.

What would come next: the correlation window of the watcher as an operator checked against
its definition, and `World` with the reset and worktree adoption that `Playback` keeps
abstract.
