------------------------------ MODULE Daemons ------------------------------
\* Daemons of one user that start, stop and crash around one endpoint file, and
\* the hook processes that look for them: Ingest::start and Ingest::stop (lib.rs),
\* the hook listener (hook_listener.rs) and the hook binary (polis-hook/src/main.rs).
\*
\* A daemon has two threads here: the one that starts and stops it (stage) and
\* the receive loop (loop). Time is a step that may be taken. The bytes of a
\* datagram are reduced to who sent it: a hook, or a daemon that wakes its own
\* listener, which does not decode. No stranger sends to the port.
EXTENDS Naturals, Sequences

CONSTANTS
  Daemon,        \* instances of the program; a restart is another instance
  Enabled,       \* the channels of the IngestConfig of each
  Port, Default, \* loopback ports, and the one compiled in
  Assignments,   \* how the daemons may be told the ports they are to use
  Hook, Env,     \* hook processes, and the port in the environment of each
  Fragile,       \* channels that may fail to start, "file" if writing or removing
                 \* the endpoint file may
  MaxErrors,     \* MAX_CONSECUTIVE_ERRORS
  Squatted,      \* ports another program may hold
  MaxErrorSteps  \* bound: the errors of recv_from

NoPort == "none"
Channel == {"otel", "hook", "fs", "transcript"}

ASSUME PortsAssumption ==
  /\ Daemon # {} /\ Hook \cap Daemon = {}
  /\ Default \in Port /\ NoPort \notin Port /\ Squatted \subseteq Port
  /\ Assignments \subseteq [Daemon -> Port] /\ Enabled \in [Daemon -> SUBSET Channel]
  /\ Env \in [Hook -> Port \cup {NoPort}]
ASSUME BoundsAssumption ==
  /\ MaxErrors \in Nat \ {0}
  /\ MaxErrorSteps \in Nat

VARIABLES
  stage,    \* what the main thread does next
  sources,  \* the sources that run, in the order they started
  failed,   \* the channels that were degraded
  told,     \* the ChannelDegraded events put on the bus
  loop,     \* the receive thread: at its head, in recv_from, or ended
  stop,     \* the stop flag
  errors,   \* consecutive errors of recv_from
  reason,   \* stopped_because
  owns,     \* published: this daemon wrote the endpoint file, and has neither removed it
            \* nor found another's in its place
  socket,   \* datagrams in the socket's buffer
  rejected, \* the senders of the datagrams that were counted because they did not decode
  file, writer, \* the port the endpoint file names; who wrote it last
  overlapped,   \* history: who wrote it while another daemon could still remove it
  hook,     \* where a hook process stands, or the port it resolved
  port,     \* the port each daemon was told to use
  squat,    \* ports held by another program
  failures \* what the bound counts
daemonVars == <<stage, sources, failed, told, owns>>
loopVars == <<loop, stop, errors, reason, socket, rejected>>
fileVars == <<file, writer, overlapped>>
vars == <<daemonVars, loopVars, fileVars, hook, port, squat, failures>>

ChannelOrder == [otel |-> 1, hook |-> 2, fs |-> 3, transcript |-> 4]
Stage == {"new", "off", "start", "publish", "up", "stopping", "wake", "join", "unpublish", "remove"}
Datagram == Hook \cup Daemon

Init ==
  /\ stage = [d \in Daemon |-> "new"] /\ sources = [d \in Daemon |-> <<>>]
  /\ failed = [d \in Daemon |-> {}] /\ told = [d \in Daemon |-> {}]
  /\ loop = [d \in Daemon |-> "none"] /\ stop = [d \in Daemon |-> FALSE]
  /\ errors = [d \in Daemon |-> 0] /\ reason = [d \in Daemon |-> "none"]
  /\ owns = [d \in Daemon |-> FALSE] /\ socket = [d \in Daemon |-> <<>>]
  /\ rejected = [d \in Daemon |-> {}]
  /\ file = NoPort /\ writer = (CHOOSE d \in Daemon : TRUE) /\ overlapped = {}
  /\ hook = [h \in Hook |-> "born"]
  /\ port \in Assignments /\ squat \in SUBSET Squatted /\ failures = 0

\* The socket lives exactly as long as the loop, so the loop is the lock.
Listening(d) == loop[d] \in {"head", "recv"}
Bound(p) == p \in squat \/ \E d \in Daemon : Listening(d) /\ port[d] = p

\* A datagram to p lands in the buffer of the socket bound to p, or nowhere.
SocketAfter(p, m) ==
  [d \in Daemon |-> IF Listening(d) /\ port[d] = p THEN Append(socket[d], m) ELSE socket[d]]

----------------------------------------------------------------------------
\* The main thread.

Start(d) ==
  /\ stage[d] = "new" /\ stage' = [stage EXCEPT ![d] = "start"]
  /\ UNCHANGED <<sources, failed, told, owns, loopVars, fileVars, hook, port, squat, failures>>

\* The channels are started in order, each once.
Running(d) == {sources[d][i] : i \in DOMAIN sources[d]}
Upcoming(d) == Enabled[d] \ (Running(d) \cup failed[d])
Starting(d, c) ==
  /\ stage[d] = "start" /\ c \in Upcoming(d)
  /\ \A e \in Upcoming(d) : ChannelOrder[c] <= ChannelOrder[e]

\* degrade: the channel is announced on the bus and kept for health().
Degrade(d, c) ==
  /\ failed' = [failed EXCEPT ![d] = @ \cup {c}] /\ told' = [told EXCEPT ![d] = @ \cup {c}]
  /\ UNCHANGED <<stage, sources, owns, loopVars>>

StartChannel(d, c) ==
  /\ c # "hook" /\ Starting(d, c)
  /\ \/ /\ sources' = [sources EXCEPT ![d] = Append(@, c)]
        /\ UNCHANGED <<stage, failed, told, owns, loopVars>>
     \/ c \in Fragile /\ Degrade(d, c)
  /\ UNCHANGED <<fileVars, hook, port, squat, failures>>

\* start_hooks: the bind is the singleton lock; the loser degrades and writes nothing,
\* and so does a listener whose socket or thread cannot be had.
StartHooks(d) ==
  /\ Starting(d, "hook")
  /\ \/ /\ ~Bound(port[d])
        /\ loop' = [loop EXCEPT ![d] = "head"] /\ socket' = [socket EXCEPT ![d] = <<>>]
        /\ stage' = [stage EXCEPT ![d] = "publish"]
        /\ UNCHANGED <<sources, failed, told, owns, stop, errors, reason, rejected>>
     \/ (Bound(port[d]) \/ "hook" \in Fragile) /\ Degrade(d, "hook")
  /\ UNCHANGED <<fileVars, hook, port, squat, failures>>

\* Another daemon may yet remove what d publishes: it would
\* find its own address there, or has found it in the file that d replaces.
Contested(d) == \E e \in Daemon \ {d} : /\ owns[e] /\ stage[e] # "off"
                                       /\ (port[e] = port[d] \/ stage[e] = "remove")

\* publish_endpoint, after the bind; a failure to write is a warning and no more.
Publish(d) ==
  /\ stage[d] = "publish"
  /\ \/ /\ file' = port[d] /\ writer' = d /\ owns' = [owns EXCEPT ![d] = TRUE]
        /\ overlapped' = IF Contested(d) THEN overlapped \cup {d} ELSE overlapped
     \/ "file" \in Fragile /\ UNCHANGED <<fileVars, owns>>
  /\ stage' = [stage EXCEPT ![d] = "start"]
  /\ sources' = [sources EXCEPT ![d] = Append(@, "hook")]
  /\ UNCHANGED <<failed, told, loopVars, hook, port, squat, failures>>

Started(d) ==
  /\ stage[d] = "start" /\ Upcoming(d) = {}
  /\ stage' = [stage EXCEPT ![d] = "up"]
  /\ UNCHANGED <<sources, failed, told, owns, loopVars, fileVars, hook, port, squat, failures>>

\* Ingest::stop: Shutdown is announced, then the sources are stopped in order.
Stop(d) ==
  /\ stage[d] = "up" /\ stage' = [stage EXCEPT ![d] = "stopping"]
  /\ UNCHANGED <<sources, failed, told, owns, loopVars, fileVars, hook, port, squat, failures>>

StopSource(d) ==
  /\ stage[d] = "stopping" /\ sources[d] # <<>>
  /\ sources' = [sources EXCEPT ![d] = Tail(@)]
  /\ IF Head(sources[d]) = "hook"
       THEN stop' = [stop EXCEPT ![d] = TRUE] /\ stage' = [stage EXCEPT ![d] = "wake"]
       ELSE UNCHANGED <<stop, stage>>
  /\ UNCHANGED <<failed, told, owns, loop, errors, reason, socket, rejected>>
  /\ UNCHANGED <<fileVars, hook, port, squat, failures>>

\* wake: a datagram to our own port, best effort; whoever is bound there gets it.
Wake(d) ==
  /\ stage[d] = "wake" /\ stage' = [stage EXCEPT ![d] = "join"]
  /\ socket' \in {socket, SocketAfter(port[d], d)}
  /\ UNCHANGED <<sources, failed, told, owns, loop, stop, errors, reason, rejected>>
  /\ UNCHANGED <<fileVars, hook, port, squat, failures>>

Join(d) ==
  /\ stage[d] = "join" /\ ~Listening(d)
  /\ reason' = [reason EXCEPT ![d] = IF @ = "none" THEN "shut down" ELSE @]
  /\ stage' = [stage EXCEPT ![d] = "unpublish"]
  /\ UNCHANGED <<sources, failed, told, owns, loop, stop, errors, socket, rejected>>
  /\ UNCHANGED <<fileVars, hook, port, squat, failures>>

\* remove_endpoint_file reads the file and compares the address, and nothing else.
RemovableUnchecked(d) == owns[d] /\ file # NoPort  \* mutant: the address is not compared
Removable(d) == owns[d] /\ file = port[d]
Unpublish(d) ==
  /\ stage[d] = "unpublish"
  /\ IF Removable(d) THEN stage' = [stage EXCEPT ![d] = "remove"] /\ UNCHANGED owns
       ELSE stage' = [stage EXCEPT ![d] = "stopping"] /\ owns' = [owns EXCEPT ![d] = FALSE]
  /\ UNCHANGED <<sources, failed, told, loopVars, fileVars, hook, port, squat, failures>>

\* What is removed is the file that is there by then, whoever wrote it.
Remove(d) ==
  /\ stage[d] = "remove" /\ stage' = [stage EXCEPT ![d] = "stopping"]
  /\ \/ file' = NoPort /\ owns' = [owns EXCEPT ![d] = FALSE]
     \/ "file" \in Fragile /\ UNCHANGED <<file, owns>>
  /\ UNCHANGED <<sources, failed, told, loopVars, writer, overlapped, hook, port, squat, failures>>

Stopped(d) ==
  /\ stage[d] = "stopping" /\ sources[d] = <<>> /\ stage' = [stage EXCEPT ![d] = "off"]
  /\ UNCHANGED <<sources, failed, told, owns, loopVars, fileVars, hook, port, squat, failures>>

\* The process dies: its socket goes, the file stays.
Crash(d) ==
  /\ stage[d] \notin {"new", "off"} /\ stage' = [stage EXCEPT ![d] = "off"]
  /\ loop' = [loop EXCEPT ![d] = "none"] /\ socket' = [socket EXCEPT ![d] = <<>>]
  /\ UNCHANGED <<sources, failed, told, owns, stop, errors, reason, rejected>>
  /\ UNCHANGED <<fileVars, hook, port, squat, failures>>

----------------------------------------------------------------------------
\* recv_loop. Its socket is closed when it returns.

EndLoop(d) == loop' = [loop EXCEPT ![d] = "ended"] /\ socket' = [socket EXCEPT ![d] = <<>>]

CheckStop(d) ==
  /\ loop[d] = "head"
  /\ IF stop[d] THEN EndLoop(d) ELSE loop' = [loop EXCEPT ![d] = "recv"] /\ UNCHANGED socket
  /\ UNCHANGED <<daemonVars, stop, errors, reason, rejected, fileVars, hook, port, squat, failures>>

\* handle_datagram: what does not decode is counted as rejected.
Handle(d, m) == rejected' = [rejected EXCEPT ![d] = IF m \in Hook THEN @ ELSE @ \cup {m}]

\* Mutant: the flag is not read again.
ReceiveUnchecked(d) ==
  /\ loop[d] = "recv" /\ socket[d] # <<>>
  /\ Handle(d, Head(socket[d])) /\ socket' = [socket EXCEPT ![d] = Tail(@)]
  /\ errors' = [errors EXCEPT ![d] = 0] /\ loop' = [loop EXCEPT ![d] = "head"]
  /\ UNCHANGED <<daemonVars, stop, reason, fileVars, hook, port, squat, failures>>

\* The stop flag is read again before anything is decoded.
Receive(d) ==
  /\ loop[d] = "recv" /\ socket[d] # <<>>
  /\ IF stop[d] THEN EndLoop(d) /\ UNCHANGED <<errors, rejected>>
       ELSE /\ Handle(d, Head(socket[d])) /\ socket' = [socket EXCEPT ![d] = Tail(@)]
            /\ errors' = [errors EXCEPT ![d] = 0] /\ loop' = [loop EXCEPT ![d] = "head"]
  /\ UNCHANGED <<daemonVars, stop, reason, fileVars, hook, port, squat, failures>>
\* Mutant: the socket has no read timeout.
RecvBlocks(d) == FALSE

\* A recoverable error, the read timeout among them: the socket is alive.
RecvTimeout(d) ==
  /\ loop[d] = "recv" /\ socket[d] = <<>>
  /\ errors' = [errors EXCEPT ![d] = 0] /\ loop' = [loop EXCEPT ![d] = "head"]
  /\ UNCHANGED <<daemonVars, stop, reason, socket, rejected, fileVars, hook, port, squat, failures>>

\* MAX_CONSECUTIVE_ERRORS in a row end the loop; the endpoint file stays.
RecvError(d) ==
  /\ loop[d] = "recv" /\ failures < MaxErrorSteps /\ failures' = failures + 1
  /\ errors' = [errors EXCEPT ![d] = @ + 1]
  /\ IF errors[d] + 1 >= MaxErrors
       THEN EndLoop(d) /\ reason' = [reason EXCEPT ![d] = "failed"]
       ELSE loop' = [loop EXCEPT ![d] = "head"] /\ UNCHANGED <<socket, reason>>
  /\ UNCHANGED <<daemonVars, stop, rejected, fileVars, hook, port, squat>>

----------------------------------------------------------------------------
\* The hook process.

\* resolve_endpoint: the environment, the file, the port compiled in.
Resolved(h) ==
  IF Env[h] # NoPort THEN Env[h] ELSE IF file # NoPort THEN file ELSE Default
Resolve(h) ==
  /\ hook[h] = "born" /\ hook' = [hook EXCEPT ![h] = Resolved(h)]
  /\ UNCHANGED <<daemonVars, loopVars, fileVars, port, squat, failures>>

\* One datagram, sent once, whatever becomes of it.
Send(h) ==
  /\ hook[h] \in Port /\ socket' = SocketAfter(hook[h], h) /\ hook' = [hook EXCEPT ![h] = "done"]
  /\ UNCHANGED <<daemonVars, loop, stop, errors, reason, rejected, fileVars, port, squat, failures>>

\* The watchdog ends a hook that has not sent by then.
Watchdog(h) ==
  /\ hook[h] # "done" /\ hook' = [hook EXCEPT ![h] = "done"]
  /\ UNCHANGED <<daemonVars, loopVars, fileVars, port, squat, failures>>

Main(d) == \/ StartHooks(d) \/ Publish(d) \/ Started(d) \/ (\E c \in Channel : StartChannel(d, c))
           \/ StopSource(d) \/ Wake(d) \/ Join(d) \/ Unpublish(d) \/ Remove(d) \/ Stopped(d)
Loop(d) == CheckStop(d) \/ Receive(d) \/ RecvTimeout(d)
Next ==
  \/ \E d \in Daemon : Main(d) \/ Start(d) \/ Stop(d) \/ Crash(d) \/ Loop(d) \/ RecvError(d)
  \/ \E h \in Hook : Resolve(h) \/ Send(h) \/ Watchdog(h)

\* Both threads of a daemon are scheduled; nobody has to start or stop one.
Spec == Init /\ [][Next]_vars /\ \A d \in Daemon : WF_vars(Main(d)) /\ WF_vars(Loop(d))

----------------------------------------------------------------------------
\* Properties.

\* Every variable has its type, and a loop that goes on is within its error budget.
TypeOK ==
  /\ \A d \in Daemon : Listening(d) => errors[d] < MaxErrors
  /\ stage \in [Daemon -> Stage] /\ sources \in [Daemon -> Seq(Channel)]
  /\ failed \in [Daemon -> SUBSET Channel] /\ told \in [Daemon -> SUBSET Channel]
  /\ loop \in [Daemon -> {"none", "head", "recv", "ended"}] /\ stop \in [Daemon -> BOOLEAN]
  /\ errors \in [Daemon -> 0..MaxErrors] /\ reason \in [Daemon -> {"none", "failed", "shut down"}]
  /\ owns \in [Daemon -> BOOLEAN] /\ socket \in [Daemon -> Seq(Datagram)]
  /\ rejected \in [Daemon -> SUBSET Daemon]
  /\ file \in Port \cup {NoPort} /\ writer \in Daemon /\ overlapped \in SUBSET Daemon
  /\ hook \in [Hook -> Port \cup {"born", "done"}]
  /\ port \in [Daemon -> Port] /\ squat \in SUBSET Port
  /\ failures \in 0..MaxErrorSteps

\* The endpoint file names the port of the daemon that wrote it last, and is not
\* left behind by one that has looked after it. A daemon that published when no
\* other could still remove the file keeps it as long as it serves, whoever stops
\* meanwhile (the address check of remove_endpoint_file).
FileFollowsWriter ==
  /\ file # NoPort => owns[writer] /\ file = port[writer]
  /\ owns[writer] /\ writer \notin overlapped => file = port[writer]

\* A listener never counts its own wake as a stranger's datagram. A wake that is
\* counted at all came to a later listener of the same port, when the one that
\* sent it had been stopped and its socket was gone (wake, recv_loop).
WakeNeverCounted ==
  \A d \in Daemon : \A e \in rejected[d] : e # d /\ stop[e] /\ ~Listening(e)

\* A stop ends, with the port free, although the wake may be lost.
StopEnds == \A d \in Daemon : stage[d] = "stopping" ~> stage[d] = "off" /\ ~Listening(d)

----------------------------------------------------------------------------
\* What a comment says, and the code does not do.

\* "An operator running a second Polis on --port N must not have its shutdown delete
\* the first one's file": a daemon removes the file it wrote and no other.
RemovesOnlyItsOwn == [][\A d \in Daemon : Remove(d) /\ file' # file => writer = d]_vars
============================================================================
