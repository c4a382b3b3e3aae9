---------------------------- MODULE IngestProofs ----------------------------
(***************************************************************************)
(* Theorems about two parts of polis-ingest: the daemons with their        *)
(* endpoint file (Daemons, for any daemons, ports, hooks and error budget) *)
(* and the transcript tailer (TranscriptTail, for any files, lines and     *)
(* poll size).                                                             *)
(*                                                                         *)
(* The types of the daemons need that a daemon starts its listener only    *)
(* once: until then its receive loop has counted no error and was not      *)
(* asked to stop.  Nothing is assumed of the ports, which may all be one.  *)
(*                                                                         *)
(* A tail's cursor stands at the end of a line and the bus has the lines   *)
(* before it: that is what makes the next chunk start with a whole line.   *)
(* It holds of the files that were read since they were last written anew; *)
(* of the others the invariant says that what they gave, if anything, is   *)
(* still before the cursor.                                                *)
(***************************************************************************)
EXTENDS Daemons, TranscriptTail, TLAPS, WellFoundedInduction

\* The listener of d has not been started, nor given up.
Untouched(d) ==
  \/ stage[d] = "new"
  \/ stage[d] = "start" /\ "hook" \notin Running(d) \cup failed[d]

MainTypes ==
  /\ stage \in [Daemon -> Stage] /\ sources \in [Daemon -> Seq(Channel)]
  /\ failed \in [Daemon -> SUBSET Channel] /\ told \in [Daemon -> SUBSET Channel]
  /\ owns \in [Daemon -> BOOLEAN]

LoopTypes ==
  /\ loop \in [Daemon -> {"none", "head", "recv", "ended"}] /\ stop \in [Daemon -> BOOLEAN]
  /\ errors \in [Daemon -> 0..MaxErrors] /\ reason \in [Daemon -> {"none", "failed", "shut down"}]
  /\ rejected \in [Daemon -> SUBSET Daemon] /\ failures \in 0..MaxErrorSteps

Budget == \A d \in Daemon : Listening(d) => errors[d] < MaxErrors

SocketTypes == socket \in [Daemon -> Seq(Datagram)]

WorldTypes ==
  /\ file \in Port \cup {NoPort} /\ writer \in Daemon /\ overlapped \in SUBSET Daemon
  /\ hook \in [Hook -> Port \cup {"born", "done"}]
  /\ port \in [Daemon -> Port] /\ squat \in SUBSET Port

NotYet == \A d \in Daemon : Untouched(d) => errors[d] = 0 /\ ~stop[d] /\ loop[d] = "none"

LEMMA TypeParts == TypeOK <=> MainTypes /\ LoopTypes /\ Budget /\ SocketTypes /\ WorldTypes
BY DEF TypeOK, MainTypes, LoopTypes, Budget, SocketTypes, WorldTypes

-----------------------------------------------------------------------------
\* Sequences of what runs.

LEMMA MembersAppend ==
  ASSUME NEW S, NEW s \in Seq(S), NEW c \in S
  PROVE  /\ Append(s, c) \in Seq(S)
         /\ {Append(s, c)[i] : i \in DOMAIN Append(s, c)} = {s[i] : i \in DOMAIN s} \cup {c}
<1> DEFINE t == Append(s, c)
<1>1. t \in Seq(S) /\ Len(t) = Len(s) + 1 /\ t[Len(s) + 1] = c /\ \A i \in 1..Len(s) : t[i] = s[i]
  OBVIOUS
<1>2. DOMAIN t = 1..(Len(s) + 1) /\ DOMAIN s = 1..Len(s) /\ Len(s) \in Nat
  BY <1>1
<1> HIDE DEF t
<1>3. {t[i] : i \in 1..(Len(s) + 1)} = {s[i] : i \in 1..Len(s)} \cup {c}
  <2>1. ASSUME NEW i \in 1..(Len(s) + 1) PROVE t[i] \in {s[j] : j \in 1..Len(s)} \cup {c}
    <3>1. i = Len(s) + 1 \/ i \in 1..Len(s)
      BY <1>2
    <3> QED BY <3>1, <1>1
  <2>2. ASSUME NEW i \in 1..Len(s) PROVE s[i] \in {t[j] : j \in 1..(Len(s) + 1)}
    <3>1. i \in 1..(Len(s) + 1) /\ t[i] = s[i]
      BY <1>1, <1>2
    <3> QED BY <3>1
  <2>3. c \in {t[j] : j \in 1..(Len(s) + 1)}
    BY <1>1, <1>2
  <2> QED BY <2>1, <2>2, <2>3
<1> QED BY <1>1, <1>2, <1>3 DEF t

LEMMA TailType ==
  ASSUME NEW S, NEW s \in Seq(S), s # <<>>
  PROVE  Tail(s) \in Seq(S) /\ Head(s) \in S
OBVIOUS

-----------------------------------------------------------------------------
\* Types.

LEMMA InitTypes == Init => TypeOK /\ NotYet
<1> SUFFICES ASSUME Init PROVE TypeOK /\ NotYet
  OBVIOUS
<1>1. writer \in Daemon
  BY PortsAssumption DEF Init
<1> QED BY <1>1, BoundsAssumption, PortsAssumption DEF Init, TypeOK, NotYet, Untouched, Listening, Stage

\* What a step of the main thread, of the loop, of a hook does.
LEMMA NextCases ==
  ASSUME [Next]_vars
  PROVE  \/ \E d \in Daemon :
              \/ Start(d) \/ StartHooks(d) \/ Publish(d) \/ Started(d) \/ Stop(d) \/ StopSource(d)
              \/ Wake(d) \/ Join(d) \/ Unpublish(d) \/ Remove(d) \/ Stopped(d) \/ Crash(d)
              \/ \E c \in Channel : StartChannel(d, c)
         \/ \E d \in Daemon : CheckStop(d) \/ Receive(d) \/ RecvTimeout(d) \/ RecvError(d)
         \/ \E h \in Hook : Resolve(h) \/ Send(h) \/ Watchdog(h)
         \/ UNCHANGED vars
BY DEF Next, Main, Loop

LEMMA PortsStay == [Next]_vars => UNCHANGED port
<1> SUFFICES ASSUME [Next]_vars PROVE UNCHANGED port
  OBVIOUS
<1>1. ASSUME NEW d \in Daemon, \/ Start(d) \/ StartHooks(d) \/ Publish(d) \/ Started(d) \/ Stop(d)
                               \/ StopSource(d) \/ Wake(d) \/ Join(d) \/ Unpublish(d) \/ Remove(d)
                               \/ Stopped(d) \/ Crash(d) \/ \E c \in Channel : StartChannel(d, c)
      PROVE  UNCHANGED port
  BY <1>1 DEF Start, StartHooks, Publish, Started, Stop, StopSource, Wake, Join, Unpublish, Remove,
              Stopped, Crash, StartChannel
<1>2. ASSUME NEW d \in Daemon, CheckStop(d) \/ Receive(d) \/ RecvTimeout(d) \/ RecvError(d)
      PROVE  UNCHANGED port
  BY <1>2 DEF CheckStop, Receive, RecvTimeout, RecvError
<1>3. ASSUME NEW h \in Hook, Resolve(h) \/ Send(h) \/ Watchdog(h) PROVE UNCHANGED port
  BY <1>3 DEF Resolve, Send, Watchdog
<1> QED BY <1>1, <1>2, <1>3, NextCases DEF vars

LEMMA DegradeTypes ==
  ASSUME MainTypes, NEW d \in Daemon, NEW c \in Channel, Degrade(d, c)
  PROVE  MainTypes'
<1>1. failed' = [failed EXCEPT ![d] = failed[d] \cup {c}] /\ told' = [told EXCEPT ![d] = told[d] \cup {c}]
  BY DEF Degrade
<1>2. failed' \in [Daemon -> SUBSET Channel] /\ told' \in [Daemon -> SUBSET Channel]
  BY <1>1 DEF MainTypes
<1> QED BY <1>2 DEF MainTypes, Degrade

LEMMA MainTypesStep == TypeOK /\ [Next]_vars => MainTypes'
<1> SUFFICES ASSUME TypeOK, [Next]_vars PROVE MainTypes'
  OBVIOUS
<1>a. MainTypes
  BY TypeParts
<1>1. ASSUME NEW d \in Daemon, \/ Start(d) \/ Started(d) \/ Stop(d) \/ Wake(d) \/ Join(d)
                               \/ Unpublish(d) \/ Remove(d) \/ Stopped(d) \/ Crash(d)
      PROVE  MainTypes'
  BY <1>1, <1>a DEF MainTypes, Start, Started, Stop, Wake, Join, Unpublish, Remove, Stopped, Crash, Stage
<1>2. ASSUME NEW d \in Daemon, StopSource(d)
      PROVE  MainTypes'
  <2>1. Tail(sources[d]) \in Seq(Channel)
    BY <1>2, <1>a, TailType DEF MainTypes, StopSource
  <2> QED BY <2>1, <1>2, <1>a DEF MainTypes, StopSource, Stage
<1>3. ASSUME NEW d \in Daemon, Publish(d)
      PROVE  MainTypes'
  <2>1. Append(sources[d], "hook") \in Seq(Channel)
    BY <1>a, MembersAppend DEF MainTypes, Channel
  <2>2. owns' \in [Daemon -> BOOLEAN]
    BY <1>3, <1>a DEF MainTypes, Publish
  <2> QED BY <2>1, <2>2, <1>3, <1>a DEF MainTypes, Publish, Stage
<1>4. ASSUME NEW d \in Daemon, NEW c \in Channel, StartChannel(d, c)
      PROVE  MainTypes'
  <2>1. Append(sources[d], c) \in Seq(Channel)
    BY <1>a, MembersAppend DEF MainTypes
  <2>2. CASE sources' = [sources EXCEPT ![d] = Append(@, c)] /\ UNCHANGED <<stage, failed, told, owns>>
    BY <2>1, <2>2, <1>a DEF MainTypes
  <2>3. CASE Degrade(d, c)
    BY <2>3, <1>a, DegradeTypes
  <2> QED BY <1>4, <2>2, <2>3 DEF StartChannel
<1>5. ASSUME NEW d \in Daemon, StartHooks(d)
      PROVE  MainTypes'
  <2>1. CASE stage' = [stage EXCEPT ![d] = "publish"] /\ UNCHANGED <<sources, failed, told, owns>>
    BY <2>1, <1>a DEF MainTypes, Stage
  <2>2. CASE Degrade(d, "hook")
    BY <2>2, <1>a, DegradeTypes DEF Channel
  <2> QED BY <1>5, <2>1, <2>2 DEF StartHooks
<1>6. CASE UNCHANGED daemonVars
  BY <1>6, <1>a DEF MainTypes, daemonVars
<1>7. ASSUME \/ \E d \in Daemon : CheckStop(d) \/ Receive(d) \/ RecvTimeout(d) \/ RecvError(d)
             \/ \E h \in Hook : Resolve(h) \/ Send(h) \/ Watchdog(h)
             \/ UNCHANGED vars
      PROVE  UNCHANGED daemonVars
  BY <1>7 DEF CheckStop, Receive, RecvTimeout, RecvError, Resolve, Send, Watchdog, vars
<1> QED BY <1>1, <1>2, <1>3, <1>4, <1>5, <1>6, <1>7, NextCases


\* Before the listener runs nothing has been counted against it.
LEMMA FreshListener ==
  ASSUME TypeOK, NotYet, NEW d \in Daemon, StartHooks(d)
  PROVE  errors[d] = 0 /\ ~stop[d] /\ loop[d] = "none"
BY DEF StartHooks, Starting, Upcoming, NotYet, Untouched

LEMMA LoopTypesStep == TypeOK /\ NotYet /\ [Next]_vars => LoopTypes' /\ Budget'
<1> SUFFICES ASSUME TypeOK, NotYet, [Next]_vars PROVE LoopTypes' /\ Budget'
  OBVIOUS
<1>a. LoopTypes /\ MainTypes /\ Budget /\ SocketTypes /\ MaxErrors \in Nat \ {0}
  BY TypeParts, BoundsAssumption
<1>1. ASSUME NEW d \in Daemon, \/ Start(d) \/ Publish(d) \/ Started(d) \/ Stop(d)
                               \/ Wake(d) \/ Unpublish(d) \/ Remove(d) \/ Stopped(d)
                               \/ \E c \in Channel : StartChannel(d, c)
      PROVE  UNCHANGED <<loop, stop, errors, reason, rejected, failures>>
  BY <1>1 DEF Start, Publish, Started, Stop, Wake, Unpublish, Remove, Stopped, StartChannel, Degrade, loopVars
<1>2. ASSUME NEW d \in Daemon, StartHooks(d)
      PROVE  LoopTypes' /\ Budget'
  <2>1. loop' \in {loop, [loop EXCEPT ![d] = "head"]} /\ UNCHANGED <<errors, stop, reason, rejected, failures>>
    BY <1>2 DEF StartHooks, Degrade, loopVars
  <2>2. errors[d] = 0
    BY <1>2, FreshListener
  <2>3. LoopTypes'
    BY <2>1, <1>a DEF LoopTypes
  <2>4. \A e \in Daemon \ {d} : loop'[e] = loop[e]
    BY <2>1, <1>a DEF LoopTypes
  <2>5. ASSUME NEW e \in Daemon, Listening(e)' PROVE errors'[e] < MaxErrors
    BY <2>1, <2>2, <2>4, <2>5, <1>a DEF Budget, Listening
  <2> QED BY <2>3, <2>5 DEF Budget
<1>3. ASSUME NEW d \in Daemon, StopSource(d) \/ Join(d)
      PROVE  LoopTypes' /\ Budget'
  <2>1. UNCHANGED <<loop, errors, rejected, failures>>
    BY <1>3 DEF StopSource, Join
  <2>2. stop' \in {stop, [stop EXCEPT ![d] = TRUE]}
    BY <1>3 DEF StopSource, Join
  <2>3. reason' \in [Daemon -> {"none", "failed", "shut down"}]
    BY <1>3, <1>a DEF StopSource, Join, LoopTypes
  <2>4. stop' \in [Daemon -> BOOLEAN]
    BY <2>2, <1>a DEF LoopTypes
  <2> QED BY <2>1, <2>3, <2>4, <1>a DEF LoopTypes, Budget, Listening
\* The other steps count errors, but only a loop that goes on is held to them.
<1>4. ASSUME NEW d \in Daemon, Crash(d) \/ CheckStop(d) \/ Receive(d) \/ RecvTimeout(d) \/ RecvError(d)
      PROVE  LoopTypes' /\ Budget'
  <2>1. CASE Crash(d)
    <3>1. loop' = [loop EXCEPT ![d] = "none"] /\ UNCHANGED <<stop, errors, reason, rejected, failures>>
      BY <2>1 DEF Crash
    <3>2. \A e \in Daemon : loop'[e] = loop[e] \/ ~Listening(e)'
      BY <3>1, <1>a DEF LoopTypes, Listening
    <3> QED BY <3>1, <3>2, <1>a DEF LoopTypes, Budget, Listening
  <2>2. CASE CheckStop(d)
    <3>1. /\ \E v \in {"recv", "ended"} : loop' = [loop EXCEPT ![d] = v]
          /\ UNCHANGED <<stop, errors, reason, rejected, failures>> /\ loop[d] = "head"
      BY <2>2 DEF CheckStop, EndLoop
    <3>2. \A e \in Daemon : Listening(e)' => Listening(e)
      BY <3>1, <1>a DEF LoopTypes, Listening
    <3> QED BY <3>1, <3>2, <1>a DEF LoopTypes, Budget
  <2>3. CASE Receive(d) \/ RecvTimeout(d)
    <3>1. loop' = [loop EXCEPT ![d] = "head"] \/ loop' = [loop EXCEPT ![d] = "ended"]
      BY <2>3 DEF Receive, RecvTimeout, EndLoop
    <3>2. (UNCHANGED errors \/ errors' = [errors EXCEPT ![d] = 0]) /\ UNCHANGED <<stop, reason, failures>> /\ loop[d] = "recv"
      BY <2>3 DEF Receive, RecvTimeout
    <3>3. rejected' \in [Daemon -> SUBSET Daemon]
      <4>1. CASE UNCHANGED rejected
        BY <4>1, <1>a DEF LoopTypes
      <4>2. CASE Receive(d) /\ ~stop[d]
        <5>1. Head(socket[d]) \in Datagram
          BY <4>2, <1>a, TailType DEF Receive, SocketTypes
        <5>2. rejected' = [rejected EXCEPT ![d] = IF Head(socket[d]) \in Hook THEN rejected[d]
                                                  ELSE rejected[d] \cup {Head(socket[d])}]
          BY <4>2 DEF Receive, Handle
        <5>3. rejected \in [Daemon -> SUBSET Daemon]
          BY <1>a DEF LoopTypes
        <5> QED BY <5>1, <5>2, <5>3 DEF Datagram
      <4> QED BY <2>3, <4>1, <4>2 DEF Receive, RecvTimeout
    <3>4. \A e \in Daemon : (Listening(e)' => Listening(e)) /\ errors'[e] \in {0, errors[e]}
      BY <3>1, <3>2, <1>a DEF LoopTypes, Listening
    <3>5. loop' \in [Daemon -> {"none", "head", "recv", "ended"}]
      BY <3>1, <1>a DEF LoopTypes
    <3>6. errors' \in [Daemon -> 0..MaxErrors]
      <4>1. errors \in [Daemon -> 0..MaxErrors]
        BY <1>a DEF LoopTypes
      <4>2. 0 \in 0..MaxErrors
        BY BoundsAssumption
      <4> QED BY <3>2, <4>1, <4>2
    <3>7. Budget'
      BY <3>4, <1>a DEF Budget
    <3> QED BY <3>2, <3>3, <3>5, <3>6, <3>7, <1>a DEF LoopTypes
  <2>4. CASE RecvError(d)
    <3>a. failures' \in 0..MaxErrorSteps
      <4>1. failures < MaxErrorSteps /\ failures' = failures + 1
        BY <2>4 DEF RecvError
      <4>2. failures \in 0..MaxErrorSteps
        BY <1>a DEF LoopTypes
      <4> QED BY <4>1, <4>2, BoundsAssumption
    <3>b. errors' = [errors EXCEPT ![d] = errors[d] + 1] /\ reason' \in {reason, [reason EXCEPT ![d] = "failed"]}
      BY <2>4 DEF RecvError
    <3>1. loop[d] = "recv" /\ UNCHANGED <<stop, rejected>>
      BY <2>4 DEF RecvError
    <3>c. errors[d] \in Nat
      <4>1. errors \in [Daemon -> 0..MaxErrors]
        BY <1>a DEF LoopTypes
      <4> QED BY <4>1
    <3>2. \/ loop' = [loop EXCEPT ![d] = "ended"]
          \/ loop' = [loop EXCEPT ![d] = "head"] /\ errors[d] + 1 < MaxErrors
      BY <2>4, <3>c, <1>a DEF RecvError, EndLoop
    <3>3. errors[d] < MaxErrors
      BY <3>1, <1>a DEF Budget, Listening
    <3>4. LoopTypes'
      <4>1. errors[d] + 1 \in 0..MaxErrors
        BY <3>3, <3>c, <1>a
      <4>2. errors' \in [Daemon -> 0..MaxErrors] /\ reason' \in [Daemon -> {"none", "failed", "shut down"}]
        BY <3>b, <4>1, <1>a DEF LoopTypes
      <4>3. loop' \in [Daemon -> {"none", "head", "recv", "ended"}]
        BY <3>2, <1>a DEF LoopTypes
      <4> QED BY <3>a, <3>1, <4>2, <4>3, <1>a DEF LoopTypes
    <3>5. \A e \in Daemon \ {d} : loop'[e] = loop[e] /\ errors'[e] = errors[e]
      BY <3>b, <3>2, <1>a DEF LoopTypes
    <3>6. Listening(d)' => errors'[d] < MaxErrors
      BY <3>b, <3>2, <1>a DEF LoopTypes, Listening
    <3> QED BY <3>4, <3>5, <3>6, <1>a DEF Budget, Listening
  <2> QED BY <1>4, <2>1, <2>2, <2>3, <2>4
<1>5. ASSUME NEW h \in Hook, Resolve(h) \/ Send(h) \/ Watchdog(h)
      PROVE  UNCHANGED <<loop, stop, errors, reason, rejected, failures>>
  BY <1>5 DEF Resolve, Send, Watchdog, loopVars
<1>6. CASE UNCHANGED <<loop, stop, errors, reason, rejected, failures>>
  BY <1>6, <1>a DEF LoopTypes, Budget, Listening
<1>7. CASE UNCHANGED vars
  BY <1>6, <1>7 DEF vars, loopVars
<1> QED BY <1>1, <1>2, <1>3, <1>4, <1>5, <1>6, <1>7, NextCases

LEMMA SocketTypesStep == TypeOK /\ [Next]_vars => SocketTypes'
<1> SUFFICES ASSUME TypeOK, [Next]_vars PROVE SocketTypes'
  OBVIOUS
<1>a. SocketTypes
  BY TypeParts
<1>b. ASSUME NEW p, NEW m \in Datagram PROVE SocketAfter(p, m) \in [Daemon -> Seq(Datagram)]
  <2>1. \A d \in Daemon : Append(socket[d], m) \in Seq(Datagram)
    BY <1>a DEF SocketTypes
  <2> QED BY <2>1, <1>a DEF SocketTypes, SocketAfter
<1>1. ASSUME NEW d \in Daemon, \/ Start(d) \/ Publish(d) \/ Started(d) \/ Stop(d) \/ StopSource(d) \/ Join(d)
                               \/ Unpublish(d) \/ Remove(d) \/ Stopped(d) \/ RecvTimeout(d)
                               \/ \E c \in Channel : StartChannel(d, c)
      PROVE  UNCHANGED socket
  BY <1>1 DEF Start, Publish, Started, Stop, StopSource, Join, Unpublish, Remove, Stopped, RecvTimeout,
              StartChannel, Degrade, loopVars
<1>2. ASSUME NEW d \in Daemon, StartHooks(d) \/ Crash(d) \/ CheckStop(d) \/ RecvError(d)
      PROVE  socket' \in {socket, [socket EXCEPT ![d] = <<>>]}
  BY <1>2 DEF StartHooks, Crash, CheckStop, RecvError, EndLoop, Degrade, loopVars
<1>3. ASSUME NEW d \in Daemon, Receive(d)
      PROVE  SocketTypes'
  <2>1. Tail(socket[d]) \in Seq(Datagram)
    BY <1>3, <1>a, TailType DEF Receive, SocketTypes
  <2>2. socket' = [socket EXCEPT ![d] = <<>>] \/ socket' = [socket EXCEPT ![d] = Tail(socket[d])]
    <3>1. CASE stop[d]
      BY <1>3, <3>1 DEF Receive, EndLoop
    <3>2. CASE ~stop[d]
      BY <1>3, <3>2 DEF Receive
    <3> QED BY <3>1, <3>2
  <2>3. <<>> \in Seq(Datagram) /\ socket \in [Daemon -> Seq(Datagram)]
    BY <1>a DEF SocketTypes
  <2> QED BY <2>1, <2>2, <2>3 DEF SocketTypes
<1>4. ASSUME NEW d \in Daemon, Wake(d)
      PROVE  SocketTypes'
  BY <1>4, <1>a, <1>b DEF Wake, SocketTypes, Datagram
<1>5. ASSUME NEW h \in Hook, Send(h)
      PROVE  SocketTypes'
  BY <1>5, <1>b DEF Send, SocketTypes, Datagram
<1>6. ASSUME \/ \E h \in Hook : Resolve(h) \/ Watchdog(h)
             \/ UNCHANGED vars
      PROVE  UNCHANGED socket
  BY <1>6 DEF Resolve, Watchdog, vars, loopVars
<1>7. CASE UNCHANGED socket
  BY <1>7, <1>a DEF SocketTypes
<1>8. ASSUME NEW d \in Daemon, socket' = [socket EXCEPT ![d] = <<>>] PROVE SocketTypes'
  BY <1>8, <1>a DEF SocketTypes
<1> QED BY <1>1, <1>2, <1>3, <1>4, <1>5, <1>6, <1>7, <1>8, NextCases

LEMMA WorldTypesStep == TypeOK /\ [Next]_vars => WorldTypes'
<1> SUFFICES ASSUME TypeOK, [Next]_vars PROVE WorldTypes'
  OBVIOUS
<1>a. WorldTypes
  BY TypeParts
<1>1. ASSUME NEW d \in Daemon, \/ Start(d) \/ StartHooks(d) \/ Started(d) \/ Stop(d) \/ StopSource(d) \/ Wake(d)
                               \/ Join(d) \/ Stopped(d) \/ Crash(d) \/ CheckStop(d) \/ Receive(d)
                               \/ RecvTimeout(d) \/ RecvError(d) \/ \E c \in Channel : StartChannel(d, c)
      PROVE  UNCHANGED <<fileVars, hook, port, squat>>
  BY <1>1 DEF Start, StartHooks, Started, Stop, StopSource, Wake, Join, Stopped, Crash, CheckStop, Receive,
              RecvTimeout, RecvError, StartChannel, Degrade
<1>2. ASSUME NEW d \in Daemon, Publish(d) \/ Unpublish(d) \/ Remove(d)
      PROVE  WorldTypes'
  BY <1>2, <1>a, PortsAssumption DEF Publish, Unpublish, Remove, WorldTypes, fileVars
<1>3. ASSUME NEW h \in Hook, Resolve(h)
      PROVE  WorldTypes'
  <2>1. Resolved(h) \in Port
    BY <1>a, PortsAssumption DEF WorldTypes, Resolved
  <2> QED BY <2>1, <1>3, <1>a DEF WorldTypes, Resolve, fileVars
<1>4. ASSUME NEW h \in Hook, Send(h) \/ Watchdog(h)
      PROVE  WorldTypes'
  BY <1>4, <1>a DEF WorldTypes, Send, Watchdog, fileVars
<1>5. CASE UNCHANGED <<fileVars, hook, port, squat>>
  BY <1>5, <1>a DEF WorldTypes, fileVars
<1> QED BY <1>1, <1>2, <1>3, <1>4, <1>5, NextCases DEF vars

LEMMA NotYetStep == TypeOK /\ NotYet /\ [Next]_vars => NotYet'
<1> SUFFICES ASSUME TypeOK, NotYet, [Next]_vars, NEW e \in Daemon, Untouched(e)'
             PROVE  errors'[e] = 0 /\ ~stop'[e] /\ loop'[e] = "none"
  BY DEF NotYet
<1>a. MainTypes /\ LoopTypes
  BY TypeParts
<1>b. ASSUME Untouched(e), UNCHANGED <<errors, stop>>, loop'[e] = loop[e]
      PROVE  errors'[e] = 0 /\ ~stop'[e] /\ loop'[e] = "none"
  BY <1>b DEF NotYet
\* A step of another daemon, of a hook, or of none.
<1>1. CASE /\ stage'[e] = stage[e] /\ sources'[e] = sources[e] /\ failed'[e] = failed[e]
           /\ errors'[e] = errors[e] /\ stop'[e] = stop[e] /\ loop'[e] = loop[e]
  BY <1>1 DEF NotYet, Untouched, Running
<1>2. ASSUME NEW d \in Daemon \ {e},
             \/ Start(d) \/ StartHooks(d) \/ Publish(d) \/ Started(d) \/ Stop(d) \/ StopSource(d)
             \/ Wake(d) \/ Join(d) \/ Unpublish(d) \/ Remove(d) \/ Stopped(d) \/ Crash(d)
             \/ \E c \in Channel : StartChannel(d, c)
      PROVE  /\ stage'[e] = stage[e] /\ sources'[e] = sources[e] /\ failed'[e] = failed[e]
             /\ errors'[e] = errors[e] /\ stop'[e] = stop[e] /\ loop'[e] = loop[e]
  <2>1. CASE Start(d) \/ Started(d) \/ Stop(d) \/ Wake(d) \/ Join(d) \/ Unpublish(d) \/ Remove(d) \/ Stopped(d) \/ Publish(d)
    BY <2>1, <1>a DEF MainTypes, Start, Started, Stop, Wake, Join, Unpublish, Remove, Stopped, Publish, loopVars
  <2>2. CASE StopSource(d)
    BY <2>2, <1>a DEF MainTypes, LoopTypes, StopSource
  <2>3. CASE Crash(d)
    BY <2>3, <1>a DEF MainTypes, LoopTypes, Crash
  <2>4. CASE StartHooks(d)
    BY <2>4, <1>a DEF MainTypes, LoopTypes, StartHooks, Degrade, loopVars
  <2>5. CASE \E c \in Channel : StartChannel(d, c)
    BY <2>5, <1>a DEF MainTypes, StartChannel, Degrade, loopVars
  <2> QED BY <1>2, <2>1, <2>2, <2>3, <2>4, <2>5
<1>3. CASE \E d \in Daemon \ {e} : CheckStop(d) \/ Receive(d) \/ RecvTimeout(d) \/ RecvError(d)
  <2> PICK d \in Daemon \ {e} : CheckStop(d) \/ Receive(d) \/ RecvTimeout(d) \/ RecvError(d)
    BY <1>3
  <2>1. UNCHANGED <<stage, sources, failed, stop>>
    BY DEF CheckStop, Receive, RecvTimeout, RecvError, daemonVars
  <2>2. loop'[e] = loop[e]
    BY <1>a DEF LoopTypes, CheckStop, Receive, RecvTimeout, RecvError, EndLoop
  <2>3. errors'[e] = errors[e]
    BY <1>a DEF LoopTypes, CheckStop, Receive, RecvTimeout, RecvError
  <2> QED BY <1>1, <2>1, <2>2, <2>3
\* Its own loop runs only once it has been started.
<1>4. CASE CheckStop(e) \/ Receive(e) \/ RecvTimeout(e) \/ RecvError(e)
  <2>1. UNCHANGED <<stage, sources, failed>> /\ loop[e] # "none"
    BY <1>4 DEF CheckStop, Receive, RecvTimeout, RecvError, daemonVars
  <2> QED BY <2>1 DEF NotYet, Untouched, Running
<1>5. CASE Start(e)
  BY <1>5, <1>b DEF Start, Untouched, loopVars
<1>6. CASE \/ Started(e) \/ Stop(e) \/ StopSource(e) \/ Wake(e) \/ Join(e) \/ Unpublish(e) \/ Remove(e)
           \/ Stopped(e) \/ Crash(e)
  <2>1. stage'[e] \notin {"new", "start"}
    BY <1>6, <1>a DEF MainTypes, Started, Stop, StopSource, Wake, Join, Unpublish, Remove, Stopped, Crash
  <2> QED BY <2>1 DEF Untouched
<1>7. CASE Publish(e)
  <2>1. sources[e] \in Seq(Channel) /\ sources'[e] = Append(sources[e], "hook") /\ stage'[e] = "start"
    BY <1>7, <1>a DEF MainTypes, Publish
  <2>2. "hook" \in Running(e)'
    BY <2>1, MembersAppend DEF Running, Channel
  <2> QED BY <2>1, <2>2 DEF Untouched
<1>8. ASSUME NEW c \in Channel, StartChannel(e, c)
      PROVE  errors'[e] = 0 /\ ~stop'[e] /\ loop'[e] = "none"
  <2>1. UNCHANGED <<stage, loop, stop, errors>> /\ stage[e] = "start"
    BY <1>8 DEF StartChannel, Starting, Degrade, loopVars
  <2>2. CASE sources' = [sources EXCEPT ![e] = Append(@, c)] /\ UNCHANGED failed
    <3>1. sources[e] \in Seq(Channel) /\ sources'[e] = Append(sources[e], c)
      BY <2>2, <1>a DEF MainTypes
    <3>2. Running(e) \subseteq Running(e)'
      BY <3>1, MembersAppend DEF Running
    <3> QED BY <2>1, <2>2, <3>2, <1>b DEF Untouched
  <2>3. CASE Degrade(e, c)
    <3>1. failed[e] \subseteq failed'[e] /\ UNCHANGED sources
      BY <2>3, <1>a DEF MainTypes, Degrade
    <3> QED BY <2>1, <3>1, <1>b DEF Untouched, Running
  <2> QED BY <1>8, <2>2, <2>3 DEF StartChannel
<1>9. CASE StartHooks(e)
  <2>1. CASE stage' = [stage EXCEPT ![e] = "publish"]
    BY <2>1, <1>a DEF MainTypes, Untouched
  <2>2. CASE Degrade(e, "hook")
    <3>1. "hook" \in failed'[e] /\ UNCHANGED stage /\ stage[e] = "start"
      BY <1>9, <2>2, <1>a DEF MainTypes, Degrade, StartHooks, Starting
    <3> QED BY <3>1 DEF Untouched
  <2> QED BY <1>9, <2>1, <2>2 DEF StartHooks
<1>10. CASE \E h \in Hook : Resolve(h) \/ Send(h) \/ Watchdog(h)
  BY <1>1, <1>10 DEF Resolve, Send, Watchdog, daemonVars, loopVars
<1>11. CASE UNCHANGED vars
  BY <1>1, <1>11 DEF vars, daemonVars, loopVars
<1> QED BY <1>1, <1>2, <1>3, <1>4, <1>5, <1>6, <1>7, <1>8, <1>9, <1>10, <1>11, NextCases

\* Every variable has its type, and a loop that goes on is within its error
\* budget: an error ends it or leaves room for the next.
THEOREM TypeCorrect == Spec => [](TypeOK /\ NotYet)
<1>1. TypeOK /\ NotYet /\ [Next]_vars => (TypeOK /\ NotYet)'
  <2> SUFFICES ASSUME TypeOK, NotYet, [Next]_vars PROVE TypeOK' /\ NotYet'
    OBVIOUS
  <2>1. MainTypes' /\ LoopTypes' /\ Budget' /\ SocketTypes' /\ WorldTypes' /\ NotYet'
    BY MainTypesStep, LoopTypesStep, SocketTypesStep, WorldTypesStep, NotYetStep
  <2> QED BY <2>1 DEF TypeOK, MainTypes, LoopTypes, Budget, SocketTypes, WorldTypes
<1> QED BY <1>1, InitTypes, PTL DEF Spec

-----------------------------------------------------------------------------
\* The endpoint file.

\* A daemon about to remove the file believes it is its own; and if the last
\* writer published when nobody else could remove the file, nobody else can now.
FileInv ==
  /\ \A d \in Daemon : stage[d] = "remove" => owns[d]
  /\ owns[writer] /\ writer \notin overlapped =>
       \A e \in Daemon \ {writer} :
         owns[e] /\ stage[e] # "off" => port[e] # port[writer] /\ stage[e] # "remove"

LEMMA PublishKeepsFile ==
  ASSUME TypeOK, FileInv, NEW d \in Daemon, Publish(d),
         file' = port[d], writer' = d, owns' = [owns EXCEPT ![d] = TRUE],
         overlapped' = IF Contested(d) THEN overlapped \cup {d} ELSE overlapped
  PROVE  (FileInv /\ FileFollowsWriter)'
<1>a. MainTypes
  BY TypeParts
<1>1. stage' = [stage EXCEPT ![d] = "start"] /\ UNCHANGED port
  BY DEF Publish
<1>2. owns'[d] /\ \A e \in Daemon \ {d} : owns'[e] = owns[e] /\ stage'[e] = stage[e]
  BY <1>1, <1>a DEF MainTypes
<1>3. FileFollowsWriter'
  BY <1>1, <1>2 DEF FileFollowsWriter
<1>4. \A e \in Daemon : stage'[e] = "remove" => owns'[e]
  BY <1>1, <1>2, <1>a DEF FileInv, MainTypes
<1>5. ASSUME d \notin overlapped', NEW e \in Daemon \ {d}, owns'[e], stage'[e] # "off"
      PROVE  port[e] # port[d] /\ stage'[e] # "remove"
  BY <1>2, <1>5 DEF Contested
<1>6. owns'[d] /\ d \notin overlapped' => \A e \in Daemon \ {d} :
        owns'[e] /\ stage'[e] # "off" => port'[e] # port'[d] /\ stage'[e] # "remove"
  BY <1>1, <1>5
<1> QED BY <1>3, <1>4, <1>6 DEF FileInv

\* A daemon that finds its address in the file holds the port of the writer.
LEMMA UnpublishKeepsFile ==
  ASSUME TypeOK, FileInv, FileFollowsWriter, NEW d \in Daemon, Unpublish(d)
  PROVE  (FileInv /\ FileFollowsWriter)'
<1>a. MainTypes /\ WorldTypes
  BY TypeParts
<1>b. UNCHANGED <<file, writer, overlapped, port>> /\ stage[d] = "unpublish"
  BY DEF Unpublish, fileVars
<1>1. CASE Removable(d)
  <2>1. stage' = [stage EXCEPT ![d] = "remove"] /\ UNCHANGED owns
    BY <1>1 DEF Unpublish
  <2>2. owns[d] /\ file = port[d] /\ file # NoPort
    BY <1>1, <1>a, PortsAssumption DEF Removable, WorldTypes
  <2>3. \A e \in Daemon \ {d} : stage'[e] = stage[e]
    BY <2>1, <1>a DEF MainTypes
  <2>4. \A e \in Daemon : stage'[e] = "remove" => owns'[e]
    <3>1. \A e \in Daemon : stage[e] = "remove" => owns[e]
      BY DEF FileInv
    <3> QED BY <2>1, <2>2, <2>3, <3>1
  <2>5. port[d] = port[writer]
    BY <2>2 DEF FileFollowsWriter
  <2>6. ASSUME owns[writer], writer \notin overlapped, NEW e \in Daemon \ {writer}, owns[e], stage'[e] # "off"
        PROVE  port[e] # port[writer] /\ stage'[e] # "remove"
    <3>1. e # d
      BY <2>2, <2>5, <2>6, <1>b DEF FileInv
    <3> QED BY <2>3, <2>6, <3>1 DEF FileInv
  <2> QED BY <1>b, <2>1, <2>4, <2>6 DEF FileInv, FileFollowsWriter
<1>2. CASE ~Removable(d)
  <2>1. stage' = [stage EXCEPT ![d] = "stopping"] /\ owns' = [owns EXCEPT ![d] = FALSE]
    BY <1>2 DEF Unpublish
  <2>2. /\ ~owns'[d] /\ stage'[d] = "stopping"
        /\ \A e \in Daemon \ {d} : owns'[e] = owns[e] /\ stage'[e] = stage[e]
    BY <2>1, <1>a DEF MainTypes
  <2>3. FileInv'
    BY <1>a, <1>b, <2>2 DEF FileInv, WorldTypes
  <2>4. CASE writer = d
    BY <1>2, <1>b, <2>2, <2>3, <2>4 DEF FileFollowsWriter, Removable
  <2>5. CASE writer # d
    BY <1>a, <1>b, <2>2, <2>3, <2>5 DEF FileFollowsWriter, WorldTypes
  <2> QED BY <2>3, <2>4, <2>5
<1> QED BY <1>1, <1>2

LEMMA RemoveKeepsFile ==
  ASSUME TypeOK, FileInv, FileFollowsWriter, NEW d \in Daemon, Remove(d)
  PROVE  (FileInv /\ FileFollowsWriter)'
<1>a. MainTypes /\ WorldTypes
  BY TypeParts
<1>b. /\ UNCHANGED <<writer, overlapped, port>> /\ stage[d] = "remove" /\ owns[d]
      /\ stage' = [stage EXCEPT ![d] = "stopping"]
  BY DEF Remove, FileInv
<1>c. stage'[d] = "stopping" /\ \A e \in Daemon \ {d} : stage'[e] = stage[e]
  BY <1>a, <1>b DEF MainTypes
<1>1. CASE UNCHANGED <<file, owns>>
  BY <1>1, <1>b, <1>c DEF FileInv, FileFollowsWriter
<1>2. CASE file' = NoPort /\ owns' = [owns EXCEPT ![d] = FALSE]
  <2>1. ~owns'[d] /\ \A e \in Daemon \ {d} : owns'[e] = owns[e]
    BY <1>2, <1>a DEF MainTypes
  <2>2. FileInv'
    BY <1>a, <1>b, <1>c, <2>1 DEF FileInv, WorldTypes
  <2>3. owns'[writer] => writer \in overlapped
    BY <1>a, <1>b, <2>1 DEF FileInv, WorldTypes
  <2> QED BY <1>2, <1>b, <2>2, <2>3 DEF FileFollowsWriter
<1> QED BY <1>1, <1>2 DEF Remove

\* The other steps leave the file alone; no daemon comes back, and none is about
\* to remove the file that was not.
LEMMA OthersKeepFile ==
  ASSUME TypeOK, FileInv, FileFollowsWriter, UNCHANGED <<fileVars, owns, port>>,
         \A e \in Daemon : stage'[e] = stage[e] \/ (stage[e] # "off" /\ stage'[e] # "remove")
  PROVE  (FileInv /\ FileFollowsWriter)'
BY DEF FileInv, FileFollowsWriter, fileVars

LEMMA FileStep ==
  ASSUME TypeOK, FileInv, FileFollowsWriter, [Next]_vars
  PROVE  (FileInv /\ FileFollowsWriter)'
<1>a. MainTypes
  BY TypeParts
<1>b. ASSUME UNCHANGED <<fileVars, owns, port, stage>> PROVE (FileInv /\ FileFollowsWriter)'
  BY <1>b, OthersKeepFile
<1>c. ASSUME NEW d \in Daemon, NEW s, UNCHANGED <<fileVars, owns, port>>,
             stage[d] # "off", s # "remove", stage' = [stage EXCEPT ![d] = s]
      PROVE  (FileInv /\ FileFollowsWriter)'
  <2>1. \A e \in Daemon : stage'[e] = stage[e] \/ (stage[e] # "off" /\ stage'[e] # "remove")
    BY <1>a, <1>c DEF MainTypes
  <2> QED BY <2>1, <1>c, OthersKeepFile
<1>1. ASSUME NEW d \in Daemon, Publish(d) PROVE (FileInv /\ FileFollowsWriter)'
  <2>1. CASE UNCHANGED <<fileVars, owns>>
    BY <1>1, <2>1, <1>c DEF Publish
  <2> QED BY <1>1, <2>1, PublishKeepsFile DEF Publish
<1>2. ASSUME NEW d \in Daemon, Unpublish(d) \/ Remove(d) PROVE (FileInv /\ FileFollowsWriter)'
  BY <1>2, UnpublishKeepsFile, RemoveKeepsFile
<1>3. ASSUME NEW d \in Daemon, \/ Start(d) \/ Started(d) \/ Stop(d) \/ Wake(d) \/ Join(d) \/ Stopped(d)
      PROVE  (FileInv /\ FileFollowsWriter)'
  BY <1>3, <1>c DEF Start, Started, Stop, Wake, Join, Stopped
<1>4. ASSUME NEW d \in Daemon, Crash(d) PROVE (FileInv /\ FileFollowsWriter)'
  BY <1>4, <1>c DEF Crash
<1>5. ASSUME NEW d \in Daemon, StopSource(d) PROVE (FileInv /\ FileFollowsWriter)'
  BY <1>5, <1>b, <1>c DEF StopSource
<1>6. ASSUME NEW d \in Daemon, StartHooks(d) PROVE (FileInv /\ FileFollowsWriter)'
  BY <1>6, <1>b, <1>c DEF StartHooks, Starting, Degrade
<1>7. ASSUME NEW d \in Daemon, NEW c \in Channel, StartChannel(d, c)
      PROVE  UNCHANGED <<fileVars, owns, port, stage>>
  BY <1>7 DEF StartChannel, Degrade
<1>8. ASSUME NEW d \in Daemon, \/ CheckStop(d) \/ Receive(d) \/ RecvTimeout(d) \/ RecvError(d)
      PROVE  UNCHANGED <<fileVars, owns, port, stage>>
  BY <1>8 DEF CheckStop, Receive, RecvTimeout, RecvError, daemonVars
<1>9. ASSUME NEW h \in Hook, Resolve(h) \/ Send(h) \/ Watchdog(h)
      PROVE  UNCHANGED <<fileVars, owns, port, stage>>
  BY <1>9 DEF Resolve, Send, Watchdog, daemonVars
<1>10. CASE UNCHANGED vars
  BY <1>10, <1>b DEF vars, daemonVars
<1> QED BY <1>b, <1>1, <1>2, <1>3, <1>4, <1>5, <1>6, <1>7, <1>8, <1>9, <1>10, NextCases

LEMMA FileInit == Init => FileInv /\ FileFollowsWriter
<1> SUFFICES ASSUME Init PROVE FileInv /\ FileFollowsWriter
  OBVIOUS
<1>1. writer \in Daemon
  BY PortsAssumption DEF Init
<1>2. ~owns[writer] /\ file = NoPort /\ \A d \in Daemon : stage[d] = "new"
  BY <1>1 DEF Init
<1> QED BY <1>2 DEF FileInv, FileFollowsWriter

\* For any daemons on any ports, one for all among them: the endpoint file names
\* its last writer's port, and is not taken from a daemon that published when no
\* other could still remove the file.
THEOREM FileIsItsWriters == Spec => []FileFollowsWriter
<1>1. TypeOK /\ FileInv /\ FileFollowsWriter /\ [Next]_vars => (FileInv /\ FileFollowsWriter)'
  BY FileStep
<1> QED BY <1>1, FileInit, TypeCorrect, PTL DEF Spec

-----------------------------------------------------------------------------
\* The wake: the bind keeps the listeners of one port apart, so a wake lies in
\* the socket of a listener that was asked to stop, or of a later one.

Asked == \A d \in Daemon : stage[d] \in {"wake", "join", "unpublish", "remove"} => stop[d]
Exclusive == \A d, e \in Daemon : Listening(d) /\ Listening(e) /\ port[d] = port[e] => d = e
Lying(d) == {socket[d][i] : i \in DOMAIN socket[d]}
Woken == \A d, e \in Daemon : e \in Lying(d) => stop[e] /\ (e = d \/ ~Listening(e))
WakeInv == Asked /\ Exclusive /\ Woken

LEMMA StopStays == TypeOK /\ [Next]_vars => \A d \in Daemon : stop[d] => stop'[d]
<1> SUFFICES ASSUME TypeOK, [Next]_vars, NEW e \in Daemon, stop[e] PROVE stop'[e]
  OBVIOUS
<1>1. ASSUME NEW d \in Daemon, StopSource(d) PROVE stop'[e]
  BY <1>1, TypeParts DEF LoopTypes, StopSource
<1>2. ASSUME NEW d \in Daemon, \/ Start(d) \/ StartHooks(d) \/ Started(d) \/ Stop(d) \/ Wake(d) \/ Publish(d)
                               \/ Unpublish(d) \/ Remove(d) \/ Join(d) \/ Stopped(d) \/ Crash(d) \/ CheckStop(d)
                               \/ Receive(d) \/ RecvTimeout(d) \/ RecvError(d)
                               \/ \E c \in Channel : StartChannel(d, c)
      PROVE  UNCHANGED stop
  BY <1>2 DEF Start, StartHooks, Started, Stop, Wake, Publish, Unpublish, Remove, Join, Stopped, Crash, CheckStop,
              Receive, RecvTimeout, RecvError, StartChannel, Degrade, loopVars
<1>3. ASSUME NEW h \in Hook, Resolve(h) \/ Send(h) \/ Watchdog(h) PROVE UNCHANGED stop
  BY <1>3 DEF Resolve, Send, Watchdog, loopVars
<1> QED BY <1>1, <1>2, <1>3, NextCases DEF vars, loopVars

LEMMA AskedStep == TypeOK /\ Asked /\ [Next]_vars => Asked'
<1> SUFFICES ASSUME TypeOK, Asked, [Next]_vars PROVE Asked'
  OBVIOUS
<1>a. MainTypes /\ LoopTypes
  BY TypeParts
<1>b. ASSUME NEW d \in Daemon, NEW s \in Stage \ {"wake"}, stage' = [stage EXCEPT ![d] = s],
             s \in {"join", "unpublish", "remove"} => stage[d] \in {"wake", "join", "unpublish"}
      PROVE  Asked'
  BY <1>a, <1>b, StopStays DEF Asked, MainTypes
<1>1. ASSUME NEW d \in Daemon, Start(d) \/ Publish(d) \/ Started(d) \/ Stop(d) \/ Unpublish(d) \/ Remove(d) \/ Stopped(d) \/ Crash(d)
      PROVE  Asked'
  BY <1>1, <1>b DEF Start, Publish, Started, Stop, Unpublish, Remove, Stopped, Crash, Stage
<1>2. ASSUME NEW d \in Daemon, Wake(d) \/ Join(d)
      PROVE  Asked'
  BY <1>2, <1>b DEF Wake, Join, Stage
<1>3. ASSUME NEW d \in Daemon, StopSource(d)
      PROVE  Asked'
  <2>1. CASE stop' = [stop EXCEPT ![d] = TRUE] /\ stage' = [stage EXCEPT ![d] = "wake"]
    BY <2>1, <1>a DEF Asked, MainTypes, LoopTypes
  <2>2. CASE UNCHANGED <<stop, stage>>
    BY <2>2 DEF Asked
  <2> QED BY <1>3, <2>1, <2>2 DEF StopSource
<1>4. CASE UNCHANGED stage
  BY <1>4, StopStays DEF Asked
<1>5. ASSUME NEW d \in Daemon, StartHooks(d)
      PROVE  Asked'
  <2>1. stage' = [stage EXCEPT ![d] = "publish"] \/ UNCHANGED stage
    BY <1>5 DEF StartHooks, Degrade
  <2> QED BY <2>1, <1>4, <1>b DEF Stage
<1>6. ASSUME NEW d \in Daemon, \/ CheckStop(d) \/ Receive(d) \/ RecvTimeout(d) \/ RecvError(d)
                               \/ \E c \in Channel : StartChannel(d, c)
      PROVE  UNCHANGED stage
  BY <1>6 DEF CheckStop, Receive, RecvTimeout, RecvError, StartChannel, Degrade, daemonVars
<1>7. ASSUME NEW h \in Hook, Resolve(h) \/ Send(h) \/ Watchdog(h) PROVE UNCHANGED stage
  BY <1>7 DEF Resolve, Send, Watchdog, daemonVars
<1> QED BY <1>1, <1>2, <1>3, <1>4, <1>5, <1>6, <1>7, NextCases DEF vars, daemonVars

\* A listener stops listening for good: it is started once, before any stop.
LEMMA ListensOnce ==
  ASSUME TypeOK, NotYet, [Next]_vars, NEW e \in Daemon, Listening(e)'
  PROVE  Listening(e) \/ (~stop[e] /\ StartHooks(e) /\ ~Bound(port[e]))
<1>a. LoopTypes
  BY TypeParts
<1>1. ASSUME NEW d \in Daemon, StartHooks(d)
      PROVE  Listening(e) \/ (~stop[e] /\ StartHooks(e) /\ ~Bound(port[e]))
  <2>1. CASE d = e
    <3>1. UNCHANGED loop \/ ~Bound(port[e])
      BY <1>1, <2>1 DEF StartHooks, Degrade, loopVars
    <3>2. ~stop[e]
      BY <1>1, <2>1, FreshListener
    <3> QED BY <1>1, <2>1, <3>1, <3>2 DEF Listening
  <2>2. CASE d # e
    <3>1. loop'[e] = loop[e]
      BY <1>1, <2>2, <1>a DEF StartHooks, Degrade, loopVars, LoopTypes
    <3> QED BY <3>1 DEF Listening
  <2> QED BY <2>1, <2>2
<1>2. ASSUME NEW d \in Daemon, Crash(d) \/ CheckStop(d) \/ Receive(d) \/ RecvTimeout(d) \/ RecvError(d)
      PROVE  Listening(e)
  <2>1. CASE Crash(d)
    BY <2>1, <1>a DEF Crash, Listening, LoopTypes
  <2>2. CASE CheckStop(d)
    BY <2>2, <1>a DEF CheckStop, EndLoop, Listening, LoopTypes
  <2>3. CASE Receive(d)
    BY <2>3, <1>a DEF Receive, EndLoop, Listening, LoopTypes
  <2>4. CASE RecvTimeout(d) \/ RecvError(d)
    BY <2>4, <1>a DEF RecvTimeout, RecvError, EndLoop, Listening, LoopTypes
  <2> QED BY <1>2, <2>1, <2>2, <2>3, <2>4
<1>3. ASSUME NEW d \in Daemon, \/ Start(d) \/ Publish(d) \/ Started(d) \/ Stop(d) \/ StopSource(d) \/ Wake(d)
                               \/ Join(d) \/ Unpublish(d) \/ Remove(d) \/ Stopped(d)
                               \/ \E c \in Channel : StartChannel(d, c)
      PROVE  UNCHANGED loop
  BY <1>3 DEF Start, Publish, Started, Stop, StopSource, Wake, Join, Unpublish, Remove, Stopped,
              StartChannel, Degrade, loopVars
<1>4. ASSUME NEW h \in Hook, Resolve(h) \/ Send(h) \/ Watchdog(h) PROVE UNCHANGED loop
  BY <1>4 DEF Resolve, Send, Watchdog, loopVars
<1>5. CASE UNCHANGED loop
  BY <1>5 DEF Listening
<1> QED BY <1>1, <1>2, <1>3, <1>4, <1>5, NextCases DEF vars, loopVars

LEMMA ExclusiveStep ==
  ASSUME TypeOK, NotYet, Exclusive, [Next]_vars
  PROVE  Exclusive'
<1> SUFFICES ASSUME NEW d \in Daemon, NEW e \in Daemon, Listening(d)', Listening(e)', port[d] = port[e]
             PROVE  d = e
  BY PortsStay DEF Exclusive
<1>1. CASE Listening(d) /\ Listening(e)
  BY <1>1 DEF Exclusive
\* The one that has just bound its port found it free.
<1>2. ASSUME NEW x \in Daemon, NEW y \in Daemon, port[x] = port[y], ~Listening(x), Listening(x)', Listening(y)'
      PROVE  x = y
  <2>1. StartHooks(x) /\ ~Bound(port[x])
    BY <1>2, ListensOnce
  <2>2. ~Listening(y)
    BY <1>2, <2>1 DEF Bound
  <2>3. StartHooks(y)
    BY <1>2, <2>2, ListensOnce
  <2>4. loop'[y] = loop[y] \/ x = y
    BY <2>1, TypeParts DEF StartHooks, Degrade, loopVars, LoopTypes
  <2> QED BY <1>2, <2>2, <2>4 DEF Listening
<1> QED BY <1>1, <1>2

\* What a step puts into a socket.
LEMMA SocketSteps ==
  ASSUME TypeOK, [Next]_vars, NEW d \in Daemon
  PROVE  \/ Lying(d)' \subseteq Lying(d)
         \/ \E h \in Hook : Lying(d)' \subseteq Lying(d) \cup {h}
         \/ \E e \in Daemon : /\ Wake(e) /\ Listening(d) /\ port[d] = port[e]
                              /\ Lying(d)' = Lying(d) \cup {e}
<1>a. socket[d] \in Seq(Datagram) /\ socket \in [Daemon -> Seq(Datagram)]
  BY TypeParts DEF SocketTypes
<1>b. ASSUME NEW m \in Datagram, socket'[d] = Append(socket[d], m) PROVE Lying(d)' = Lying(d) \cup {m}
  BY <1>a, <1>b, MembersAppend DEF Lying
<1>c. ASSUME socket'[d] = socket[d] PROVE Lying(d)' = Lying(d)
  BY <1>c DEF Lying
<1>d. ASSUME socket'[d] = <<>> PROVE Lying(d)' = {}
  BY <1>d DEF Lying
<1>1. ASSUME NEW e \in Daemon, Wake(e)
      PROVE  Lying(d)' \subseteq Lying(d) \/ /\ Listening(d) /\ port[d] = port[e]
                                             /\ Lying(d)' = Lying(d) \cup {e}
  <2>1. UNCHANGED socket \/ socket' = SocketAfter(port[e], e)
    BY <1>1 DEF Wake
  <2>2. e \in Datagram
    BY DEF Datagram
  <2> QED BY <2>1, <2>2, <1>b, <1>c DEF SocketAfter
<1>2. ASSUME NEW h \in Hook, Send(h)
      PROVE  Lying(d)' \subseteq Lying(d) \cup {h}
  <2>1. socket'[d] = Append(socket[d], h) \/ socket'[d] = socket[d]
    BY <1>2 DEF Send, SocketAfter
  <2>2. h \in Datagram
    BY DEF Datagram
  <2> QED BY <2>1, <2>2, <1>b, <1>c
<1>3. ASSUME NEW e \in Daemon, Receive(e)
      PROVE  Lying(d)' \subseteq Lying(d)
  <2>1. CASE d = e
    <3>1. socket[d] # <<>> /\ (socket'[d] = Tail(socket[d]) \/ socket'[d] = <<>>)
      BY <1>3, <2>1, <1>a DEF Receive, EndLoop
    <3>2. ASSUME socket'[d] = Tail(socket[d]) PROVE Lying(d)' \subseteq Lying(d)
      <4> DEFINE s == socket[d]
      <4>1. /\ Len(s) \in Nat /\ DOMAIN s = 1..Len(s)
            /\ DOMAIN Tail(s) = 1..(Len(s) - 1) /\ \A i \in 1..(Len(s) - 1) : Tail(s)[i] = s[i + 1]
        BY <1>a, <3>1
      <4>2. \A i \in 1..(Len(s) - 1) : i + 1 \in 1..Len(s)
        BY <4>1
      <4> QED BY <3>2, <4>1, <4>2 DEF Lying
    <3> QED BY <3>1, <3>2, <1>d
  <2>2. CASE d # e
    <3>1. socket'[d] = socket[d]
      BY <1>3, <2>2, <1>a DEF Receive, EndLoop
    <3> QED BY <3>1, <1>c
  <2> QED BY <2>1, <2>2
<1>4. ASSUME NEW e \in Daemon, StartHooks(e) \/ Crash(e) \/ CheckStop(e) \/ RecvError(e)
      PROVE  Lying(d)' \subseteq Lying(d)
  <2>1. UNCHANGED socket \/ socket' = [socket EXCEPT ![e] = <<>>]
    BY <1>4 DEF StartHooks, Crash, CheckStop, RecvError, EndLoop, Degrade, loopVars
  <2>2. socket'[d] = socket[d] \/ socket'[d] = <<>>
    BY <2>1, <1>a
  <2> QED BY <2>2, <1>c, <1>d
<1>5. ASSUME NEW e \in Daemon, \/ Start(e) \/ Publish(e) \/ Started(e) \/ Stop(e) \/ StopSource(e) \/ Join(e)
                               \/ Unpublish(e) \/ Remove(e) \/ Stopped(e) \/ RecvTimeout(e)
                               \/ \E c \in Channel : StartChannel(e, c)
      PROVE  UNCHANGED socket
  BY <1>5 DEF Start, Publish, Started, Stop, StopSource, Join, Unpublish, Remove, Stopped, RecvTimeout,
              StartChannel, Degrade, loopVars
<1>6. ASSUME \/ \E h \in Hook : Resolve(h) \/ Watchdog(h)
             \/ UNCHANGED vars
      PROVE  UNCHANGED socket
  BY <1>6 DEF Resolve, Watchdog, vars, loopVars
<1> QED BY <1>c, <1>1, <1>2, <1>3, <1>4, <1>5, <1>6, NextCases

LEMMA WokenStep ==
  ASSUME TypeOK, NotYet, WakeInv, [Next]_vars
  PROVE  Woken'
<1> SUFFICES ASSUME NEW d \in Daemon, NEW e \in Daemon, e \in Lying(d)'
             PROVE  stop'[e] /\ (e = d \/ ~Listening(e)')
  BY DEF Woken
<1>1. SUFFICES stop[e] /\ (e = d \/ ~Listening(e))
  BY <1>1, StopStays, ListensOnce
<1>2. CASE e \in Lying(d)
  BY <1>2 DEF WakeInv, Woken
<1>3. CASE e \notin Lying(d)
  <2>1. e \notin Hook
    BY PortsAssumption
  <2>2. Wake(e) /\ Listening(d) /\ port[d] = port[e]
    BY <1>3, <2>1, SocketSteps
  <2>3. stop[e]
    BY <2>2 DEF Wake, WakeInv, Asked
  <2> QED BY <2>2, <2>3 DEF WakeInv, Exclusive
<1> QED BY <1>2, <1>3

LEMMA WakeStep ==
  ASSUME TypeOK, NotYet, WakeInv, WakeNeverCounted, [Next]_vars
  PROVE  WakeNeverCounted'
<1>a. LoopTypes /\ SocketTypes
  BY TypeParts
<1>b. ASSUME UNCHANGED rejected PROVE WakeNeverCounted'
  <2> SUFFICES ASSUME NEW d \in Daemon, NEW e \in rejected[d] PROVE e # d /\ stop'[e] /\ ~Listening(e)'
    BY <1>b DEF WakeNeverCounted
  <2>1. e \in Daemon
    BY <1>a DEF LoopTypes
  <2> QED BY <2>1, StopStays, ListensOnce DEF WakeNeverCounted
<1>1. ASSUME NEW d \in Daemon, Receive(d), ~stop[d]
      PROVE  WakeNeverCounted'
  <2> DEFINE m == Head(socket[d])
  <2>1. m \in Lying(d) /\ m \in Datagram
    <3>1. socket[d] \in Seq(Datagram) /\ socket[d] # <<>>
      BY <1>1, <1>a DEF Receive, SocketTypes
    <3>2. 1 \in DOMAIN socket[d] /\ m = socket[d][1]
      BY <3>1
    <3> QED BY <3>1, <3>2 DEF Lying
  <2>2. rejected' = [rejected EXCEPT ![d] = IF m \in Hook THEN rejected[d] ELSE rejected[d] \cup {m}]
    BY <1>1 DEF Receive, Handle
  <2> HIDE DEF m
  <2>3. m \in Daemon => m # d /\ stop[m] /\ ~Listening(m)
    BY <1>1, <2>1 DEF WakeInv, Woken
  <2>4. ASSUME NEW x \in Daemon, NEW e \in rejected'[x] PROVE e \in Daemon /\ e # x /\ stop[e] /\ ~Listening(e)
    <3>1. e \in rejected[x] \/ (x = d /\ e = m /\ m \notin Hook)
      BY <2>2, <2>4, <1>a DEF LoopTypes
    <3>2. m \notin Hook => m \in Daemon
      BY <2>1 DEF Datagram
    <3> QED BY <3>1, <3>2, <2>3, <1>a DEF LoopTypes, WakeNeverCounted
  <2> QED BY <2>4, StopStays, ListensOnce DEF WakeNeverCounted
<1>2. ASSUME NEW d \in Daemon, Receive(d), stop[d]
      PROVE  UNCHANGED rejected
  BY <1>2 DEF Receive
<1>3. ASSUME NEW d \in Daemon, \/ Start(d) \/ StartHooks(d) \/ Started(d) \/ Stop(d) \/ Wake(d) \/ Publish(d)
                               \/ Unpublish(d) \/ Remove(d) \/ Join(d) \/ Stopped(d) \/ Crash(d) \/ CheckStop(d)
                               \/ StopSource(d) \/ RecvTimeout(d) \/ RecvError(d)
                               \/ \E c \in Channel : StartChannel(d, c)
      PROVE  UNCHANGED rejected
  BY <1>3 DEF Start, StartHooks, Started, Stop, Wake, Publish, Unpublish, Remove, Join, Stopped, Crash,
              CheckStop, StopSource, RecvTimeout, RecvError, StartChannel, Degrade, loopVars
<1>4. ASSUME NEW h \in Hook, Resolve(h) \/ Send(h) \/ Watchdog(h) PROVE UNCHANGED rejected
  BY <1>4 DEF Resolve, Send, Watchdog, loopVars
<1> QED BY <1>b, <1>1, <1>2, <1>3, <1>4, NextCases DEF vars, loopVars

LEMMA WakeInit == Init => WakeInv /\ WakeNeverCounted
BY DEF Init, WakeInv, Asked, Exclusive, Woken, Lying, Listening, WakeNeverCounted

\* No listener ever counts its own wake, for any daemons on any ports; one that
\* counts a wake at all holds the port of a daemon that has been stopped.
THEOREM WakeUncounted == Spec => []WakeNeverCounted
<1>1. TypeOK /\ NotYet /\ WakeInv /\ [Next]_vars => WakeInv'
  BY AskedStep, ExclusiveStep, WokenStep DEF WakeInv
<1>2. TypeOK /\ NotYet /\ WakeInv /\ WakeNeverCounted /\ [Next]_vars => WakeNeverCounted'
  BY WakeStep
<1> QED BY <1>1, <1>2, WakeInit, TypeCorrect, PTL DEF Spec

-----------------------------------------------------------------------------
\* The transcript tailer: the invariant.

\* The line and the part of the cell at a place.
LineAt(i) == 1 + (i - 1) \div Pieces
PartAt(i) == 1 + ((i - 1) % Pieces)

\* The content of an edition of a file, as far as it is written.
CellOf == [edition : 0..Rewrites, line : Nat \ {0}, part : 1..Pieces]
Writes(content, version) ==
  /\ content \in Seq(CellOf) /\ Len(content) <= Longest
  /\ \A i \in 1..Len(content) : content[i] = Cell(version, i)

Entry == [file : File, edition : 0..Rewrites, line : Nat \ {0}]

\* The files on disk, and what the tailer holds of them.
Disk ==
  /\ text = [f \in DOMAIN text |-> text[f]] /\ DOMAIN text \subseteq File
  /\ edition \in [File -> 0..Rewrites]
  /\ \A f \in DOMAIN text : Writes(text[f], edition[f])
Tails ==
  /\ tails = [f \in DOMAIN tails |-> tails[f]] /\ DOMAIN tails \subseteq File
  /\ \A f \in DOMAIN tails : tails[f] \in 0..Longest
  /\ known \in [File -> 0..Rewrites] /\ \A f \in File : known[f] <= edition[f]
Polling ==
  /\ todo \subseteq DOMAIN tails
  /\ measured \in {Unmeasured} \cup 0..Longest
  /\ measured = Unmeasured => held = {}
  /\ measured # Unmeasured => todo # {} /\ (held = {} => Turn \in DOMAIN text)
  /\ \A content \in held : \E version \in 0..Rewrites :
       version < edition[Turn] /\ Writes(content, version)
Bus ==
  /\ out \in Seq(Entry) /\ behind \in BOOLEAN
  /\ \A i \in DOMAIN out : out[i].edition <= edition[out[i].file]

\* What was given of a file that is followed and is the one that was read: the lines
\* up to the cursor, which stands at the end of a line.
Current(f) == f \in DOMAIN tails /\ f \in DOMAIN text /\ known[f] = edition[f]
GivesInOrder(f) == \A i, j \in Given(f) : i < j => out[i].line < out[j].line
Fed(f) ==
  /\ tails[f] <= Len(text[f]) /\ GivesInOrder(f)
  /\ \E m \in Nat : tails[f] = m * Pieces /\ {out[i].line : i \in Given(f)} = 1..m

\* A file that has been rewritten unnoticed may have given lines, all of them from
\* before the cursor; one that is gone, or is not followed, has given none.
Unnoticed(f) ==
  /\ Given(f) # {} => f \in DOMAIN tails /\ f \in DOMAIN text
  /\ Given(f) # {} /\ ~Current(f) => tails[f] <= Len(text[f])
  /\ f \in DOMAIN tails /\ f \notin DOMAIN text => known[f] < edition[f]
Deleted == held # {} => Given(Turn) = {} /\ known[Turn] < edition[Turn]

Well(f) == Unnoticed(f) /\ (Current(f) => Fed(f))

Feeding == start = "Beginning" => Deleted /\ \A f \in File : Well(f)

TypeInv == Disk /\ Tails /\ Polling /\ Bus
TailInv == TypeInv /\ Feeding

\* While nothing was rewritten: the spawning call is on the bus once a subagent is
\* followed, or the poll under way is at the main transcript and will read it.
NeverRewritten == \A f \in File : edition[f] = 0
Reached == \E i \in DOMAIN out : out[i].file = MainFile /\ out[i].line = SpawnLine
SpawnWritten == MainFile \in DOMAIN text /\ SpawnLine * Pieces <= Len(text[MainFile])
Reaching == /\ MainFile \in todo
            /\ measured # Unmeasured => SpawnLine * Pieces <= measured
SpawnInv ==
  start = "Beginning" /\ NeverRewritten =>
    /\ \A f \in DOMAIN text : f # MainFile => SpawnWritten
    /\ ~behind => \A f \in DOMAIN tails : f # MainFile => Reached \/ Reaching
-----------------------------------------------------------------------------
\* A non-empty set of natural numbers has a least member.
LEMMA LeastNat ==
  ASSUME NEW S \in SUBSET Nat, S # {}
  PROVE  \E n \in S : \A m \in S : n <= m
<1>1. PICK n \in S : \A m \in S : <<m, n>> \notin OpToRel(<, Nat)
  BY WFMin, NatLessThanWellFounded, Zenon
<1>2. \A m \in S : ~(m < n)
  BY <1>1, Zenon DEF OpToRel
<1> QED BY <1>2

LEMMA PiecesIs == Pieces \in Nat \ {0}
BY TailAssumption

\* The ends of different lines are at least a line apart.
LEMMA Multiples ==
  ASSUME NEW a \in Int, NEW b \in Int, a < b
  PROVE  a * Pieces + Pieces <= b * Pieces
<1>1. PICK d \in Nat : b = a + 1 + d
  <2>1. b - a - 1 \in Nat /\ b = a + 1 + (b - a - 1)
    OBVIOUS
  <2> QED BY <2>1
<1>2. b * Pieces = a * Pieces + Pieces + d * Pieces /\ d * Pieces \in Nat
  BY <1>1, PiecesIs
<1>3. a * Pieces \in Int
  BY PiecesIs
<1> QED BY <1>2, <1>3, PiecesIs

\* A place of a file lies in one line, and in one part of it.
LEMMA PlaceParts ==
  ASSUME NEW i \in Nat \ {0}
  PROVE  LineAt(i) \in Nat \ {0} /\ PartAt(i) \in 1..Pieces /\ i = (LineAt(i) - 1) * Pieces + PartAt(i)
BY PiecesIs DEF LineAt, PartAt

LEMMA PlaceUnique ==
  ASSUME NEW l \in Int, NEW p \in 1..Pieces, NEW k \in Int, NEW q \in 1..Pieces,
         l * Pieces + p = k * Pieces + q
  PROVE  l = k /\ p = q
<1>0. Pieces \in Nat \ {0} /\ l * Pieces \in Int /\ k * Pieces \in Int
  BY PiecesIs
<1>1. ~(l < k)
  <2> SUFFICES ASSUME l < k PROVE FALSE
    OBVIOUS
  <2>1. l * Pieces + Pieces <= k * Pieces
    BY Multiples
  <2> DEFINE x == l * Pieces
             y == k * Pieces
  <2>2. x \in Int /\ y \in Int /\ x + p = y + q /\ x + Pieces <= y
    BY <1>0, <2>1
  <2> HIDE DEF x, y
  <2> QED BY <1>0, <2>2
<1>2. ~(k < l)
  <2> SUFFICES ASSUME k < l PROVE FALSE
    OBVIOUS
  <2>1. k * Pieces + Pieces <= l * Pieces
    BY Multiples
  <2> DEFINE x == l * Pieces
             y == k * Pieces
  <2>2. x \in Int /\ y \in Int /\ x + p = y + q /\ y + Pieces <= x
    BY <1>0, <2>1
  <2> HIDE DEF x, y
  <2> QED BY <1>0, <2>2
<1>3. l = k
  BY <1>1, <1>2
<1> QED BY <1>0, <1>3

LEMMA PlaceAt ==
  ASSUME NEW m \in Nat, NEW p \in 1..Pieces
  PROVE  m * Pieces + p \in Nat \ {0} /\ LineAt(m * Pieces + p) = m + 1 /\ PartAt(m * Pieces + p) = p
<1> DEFINE i == m * Pieces + p
<1>1. i \in Nat \ {0}
  <2>1. m * Pieces \in Nat
    BY PiecesIs
  <2> QED BY <2>1
<1>2. LineAt(i) - 1 \in Int /\ PartAt(i) \in 1..Pieces /\ (LineAt(i) - 1) * Pieces + PartAt(i) = m * Pieces + p
  BY <1>1, PlaceParts
<1>3. LineAt(i) - 1 = m /\ PartAt(i) = p
  BY <1>2, PlaceUnique
<1>4. LineAt(i) \in Nat
  BY <1>1, PlaceParts
<1> QED BY <1>1, <1>3, <1>4

\* The last part of a line is a multiple of Pieces.
LEMMA EndPlace ==
  ASSUME NEW i \in Nat \ {0}
  PROVE  PartAt(i) = Pieces <=> \E m \in Nat \ {0} : i = m * Pieces
<1>1. ASSUME PartAt(i) = Pieces PROVE LineAt(i) \in Nat \ {0} /\ i = LineAt(i) * Pieces
  <2>1. LineAt(i) \in Nat \ {0} /\ i = (LineAt(i) - 1) * Pieces + Pieces
    BY <1>1, PlaceParts
  <2>2. \A l \in Nat : (l - 1) * Pieces + Pieces = l * Pieces
    BY PiecesIs
  <2> QED BY <2>1, <2>2
<1>2. ASSUME NEW m \in Nat \ {0}, i = m * Pieces PROVE PartAt(i) = Pieces
  <2>1. m - 1 \in Nat /\ Pieces \in 1..Pieces
    BY PiecesIs
  <2>2. (m - 1) * Pieces + Pieces = m * Pieces
    BY PiecesIs
  <2>3. PartAt((m - 1) * Pieces + Pieces) = Pieces
    BY <2>1, PlaceAt
  <2> QED BY <1>2, <2>2, <2>3
<1> QED BY <1>1, <1>2

LEMMA EndLine ==
  ASSUME NEW i \in Nat \ {0}, PartAt(i) = Pieces
  PROVE  LineAt(i) \in Nat \ {0} /\ i = LineAt(i) * Pieces
<1>1. LineAt(i) \in Nat \ {0} /\ i = (LineAt(i) - 1) * Pieces + Pieces
  BY PlaceParts
<1>2. \A l \in Nat : (l - 1) * Pieces + Pieces = l * Pieces
  BY PiecesIs
<1> QED BY <1>1, <1>2

LEMMA CellParts ==
  ASSUME NEW version, NEW i \in Nat \ {0}
  PROVE  /\ Cell(version, i) = [edition |-> version, line |-> LineAt(i), part |-> PartAt(i)]
         /\ version \in 0..Rewrites => Cell(version, i) \in CellOf
<1>1. Cell(version, i) = [edition |-> version, line |-> LineAt(i), part |-> PartAt(i)]
  BY DEF Cell, LineAt, PartAt
<1>2. LineAt(i) \in Nat \ {0} /\ PartAt(i) \in 1..Pieces
  BY PlaceParts
<1> QED BY <1>1, <1>2 DEF CellOf

LEMMA WritesParts ==
  ASSUME NEW content, NEW version, Writes(content, version)
  PROVE  /\ content \in Seq(CellOf) /\ Len(content) \in Nat /\ DOMAIN content = 1..Len(content)
         /\ Longest \in Nat /\ Len(content) <= Longest
         /\ \A i \in 1..Len(content) : content[i] \in CellOf /\ content[i] = Cell(version, i)
<1>1. Longest \in Nat
  BY TailAssumption, PiecesIs DEF Longest
<1> QED BY <1>1 DEF Writes

LEMMA WritesNothing == \A version : Writes(<<>>, version)
<1>1. Longest \in Nat
  BY TailAssumption, PiecesIs DEF Longest
<1> QED BY <1>1 DEF Writes

\* A file that is appended to is still the content of its edition.
LEMMA WritesMore ==
  ASSUME NEW content, NEW version \in 0..Rewrites, Writes(content, version), Len(content) < Longest
  PROVE  Writes(Append(content, Cell(version, Len(content) + 1)), version)
<1> DEFINE cell == Cell(version, Len(content) + 1)
           more == Append(content, cell)
<1>1. Len(content) + 1 \in Nat \ {0}
  BY WritesParts
<1>2. cell \in CellOf
  BY <1>1, CellParts
<1> HIDE DEF cell
<1>3. more \in Seq(CellOf) /\ Len(more) = Len(content) + 1 /\ more[Len(content) + 1] = cell
      /\ \A i \in 1..Len(content) : more[i] = content[i]
  BY <1>2, WritesParts
<1> HIDE DEF more
<1>4. \A i \in 1..Len(more) : more[i] = Cell(version, i)
  <2> TAKE i \in 1..Len(more)
  <2>1. i \in 1..Len(content) \/ i = Len(content) + 1
    BY <1>3, WritesParts
  <2>2. CASE i \in 1..Len(content)
    BY <1>3, <2>2, WritesParts
  <2>3. CASE i = Len(content) + 1
    BY <1>3, <2>3 DEF cell
  <2> QED BY <2>1, <2>2, <2>3
<1>5. Len(more) <= Longest
  BY <1>3, WritesParts
<1>6. Writes(more, version)
  BY <1>3, <1>4, <1>5 DEF Writes
<1> QED BY <1>6 DEF more, cell

LEMMA EndsIn ==
  ASSUME NEW content, NEW version, Writes(content, version)
  PROVE  Ends(content) = {i \in 1..Len(content) : PartAt(i) = Pieces}
<1>1. DOMAIN content = 1..Len(content)
  BY WritesParts
<1>2. \A i \in 1..Len(content) : EndsLine(content[i]) <=> PartAt(i) = Pieces
  <2> TAKE i \in 1..Len(content)
  <2>1. i \in Nat \ {0} /\ content[i] = Cell(version, i)
    BY WritesParts
  <2>2. content[i].part = PartAt(i)
    BY <2>1, CellParts
  <2> QED BY <2>2 DEF EndsLine
<1> QED BY <1>1, <1>2 DEF Ends

-----------------------------------------------------------------------------
\* The records of a chunk.

Took(r, f, chunk, i) == IF Parses(chunk, i) THEN Append(r, Record(f, chunk[i])) ELSE r

IsRun(g, f, chunk, n) ==
  g = [i \in 0..n |-> IF i = 0 THEN <<>>
                      ELSE IF Parses(chunk, i) THEN Append(g[i - 1], Record(f, chunk[i])) ELSE g[i - 1]]

Takes(g, f, chunk, n) == \A i \in 1..n : g[i] = Took(g[i - 1], f, chunk, i)

LEMMA RunIs ==
  ASSUME NEW g, NEW f, NEW chunk, NEW n \in Nat, IsRun(g, f, chunk, n)
  PROVE  g[0] = <<>> /\ Takes(g, f, chunk, n)
<1>1. 0 \in 0..n /\ \A i \in 1..n : i \in 0..n /\ i # 0
  OBVIOUS
<1>2. \A i \in 0..n : g[i] = IF i = 0 THEN <<>>
                      ELSE IF Parses(chunk, i) THEN Append(g[i - 1], Record(f, chunk[i])) ELSE g[i - 1]
  BY Zenon DEF IsRun
<1>3. g[0] = <<>>
  BY <1>1, <1>2, Zenon
<1>4. ASSUME NEW i \in 1..n PROVE g[i] = Took(g[i - 1], f, chunk, i)
  <2>1. i \in 0..n /\ i # 0
    BY <1>1
  <2>2. g[i] = IF i = 0 THEN <<>>
               ELSE IF Parses(chunk, i) THEN Append(g[i - 1], Record(f, chunk[i])) ELSE g[i - 1]
    BY <1>2, <2>1, Zenon
  <2> QED BY <2>1, <2>2, Zenon DEF Took
<1> QED BY <1>3, <1>4, Zenon DEF Takes

LEMMA IsRunBy ==
  ASSUME NEW g, NEW f, NEW chunk, NEW n \in Nat,
         g = [i \in 0..n |-> g[i]], g[0] = <<>>, Takes(g, f, chunk, n)
  PROVE  IsRun(g, f, chunk, n)
<1>1. ASSUME NEW i \in 0..n
      PROVE  g[i] = IF i = 0 THEN <<>>
                    ELSE IF Parses(chunk, i) THEN Append(g[i - 1], Record(f, chunk[i])) ELSE g[i - 1]
  <2>1. CASE i = 0
    BY <2>1, Zenon
  <2>2. CASE i # 0
    <3>1. i \in 1..n
      BY <2>2
    <3>2. g[i] = Took(g[i - 1], f, chunk, i)
      BY <3>1, Zenon DEF Takes
    <3> QED BY <2>2, <3>2, Zenon DEF Took
  <2> QED BY <2>1, <2>2
<1> QED BY <1>1, Zenon DEF IsRun

\* The function that collects the records of a chunk exists.
LEMMA RunExists ==
  ASSUME NEW f, NEW chunk, NEW c \in Nat
  PROVE  \E g : IsRun(g, f, chunk, c)
<1> DEFINE Bad == {n \in Nat : ~ \E g : IsRun(g, f, chunk, n)}
<1> SUFFICES ASSUME Bad # {} PROVE FALSE
  OBVIOUS
<1>1. Bad \in SUBSET Nat
  OBVIOUS
<1>2. PICK n \in Bad : \A m \in Bad : n <= m
  BY <1>1, LeastNat
<1>3. n # 0
  <2> DEFINE g == [k \in 0..0 |-> <<>>]
  <2>1. g = [i \in 0..0 |-> g[i]] /\ g[0] = <<>>
    OBVIOUS
  <2>2. Takes(g, f, chunk, 0)
    BY DEF Takes
  <2> HIDE DEF g
  <2>3. IsRun(g, f, chunk, 0)
    BY <2>1, <2>2, IsRunBy, Zenon
  <2> QED BY <2>3
<1>4. n \in Nat /\ n - 1 \in Nat /\ n - 1 \notin Bad
  BY <1>2, <1>3
<1>5. PICK d \in Nat : d = n - 1
  BY <1>4
<1>6. PICK g : IsRun(g, f, chunk, d)
  BY <1>4, <1>5
<1>7. g[0] = <<>> /\ Takes(g, f, chunk, d)
  BY <1>6, RunIs
<1> DEFINE last == Took(g[d], f, chunk, n)
           h == [k \in 0..n |-> IF k = n THEN last ELSE g[k]]
<1> HIDE DEF last
<1>8. h[n] = last /\ (\A k \in 0..d : h[k] = g[k]) /\ h = [k \in 0..n |-> h[k]]
  BY <1>4, <1>5
<1> HIDE DEF h
<1>9. h[0] = <<>>
  <2>1. 0 \in 0..d
    BY <1>5
  <2> QED BY <1>7, <1>8, <2>1, Zenon
<1>10. ASSUME NEW k \in 1..n PROVE h[k] = Took(h[k - 1], f, chunk, k)
  <2>1. CASE k = n
    <3>1. k - 1 = d /\ d \in 0..d
      BY <1>5, <2>1
    <3> QED BY <1>8, <2>1, <3>1, Zenon DEF last
  <2>2. CASE k # n
    <3>1. k \in 0..d /\ k \in 1..d /\ k - 1 \in 0..d
      BY <1>4, <1>5, <2>2
    <3>2. g[k] = Took(g[k - 1], f, chunk, k)
      BY <1>7, <3>1, Zenon DEF Takes
    <3> QED BY <1>8, <3>1, <3>2, Zenon
  <2> QED BY <2>1, <2>2
<1>11. IsRun(h, f, chunk, n)
  BY <1>4, <1>8, <1>9, <1>10, IsRunBy, Zenon DEF Takes
<1> QED BY <1>2, <1>11

\* r lists the records of the first n cells of a chunk; p, the places where they end.
Listing(r, p, f, chunk, n) ==
  /\ p \in Seq(1..n) /\ r = [k \in 1..Len(p) |-> Record(f, chunk[p[k]])]
  /\ \A j, k \in 1..Len(p) : j < k => p[j] < p[k]
  /\ \A k \in 1..Len(p) : Parses(chunk, p[k])
  /\ \A i \in 1..n : Parses(chunk, i) => \E k \in 1..Len(p) : p[k] = i

LEMMA ListingMore ==
  ASSUME NEW r, NEW p, NEW f, NEW chunk, NEW d \in Nat, Listing(r, p, f, chunk, d)
  PROVE  \E q : Listing(Took(r, f, chunk, d + 1), q, f, chunk, d + 1)
<1> DEFINE n == d + 1
<1>0. p \in Seq(1..d) /\ Len(p) \in Nat /\ \A k \in 1..Len(p) : p[k] \in 1..d
  BY DEF Listing
<1>1. CASE ~Parses(chunk, n)
  <2>1. p \in Seq(1..n)
    BY <1>0
  <2>2. \A i \in 1..n : Parses(chunk, i) => i \in 1..d
    BY <1>1
  <2>3. Listing(r, p, f, chunk, n)
    BY <2>1, <2>2 DEF Listing
  <2> QED BY <1>1, <2>3 DEF Took
<1>2. CASE Parses(chunk, n)
  <2> DEFINE q == Append(p, n)
             s == Append(r, Record(f, chunk[n]))
  <2>1. q \in Seq(1..n) /\ Len(q) = Len(p) + 1 /\ q[Len(p) + 1] = n
        /\ \A k \in 1..Len(p) : q[k] = p[k]
    <3>1. p \in Seq(1..n) /\ n \in 1..n
      BY <1>0
    <3> QED BY <1>0, <3>1
  <2>2. s = [k \in 1..Len(q) |-> Record(f, chunk[q[k]])]
    <3> DEFINE rec(i) == Record(f, chunk[i])
    <3> HIDE DEF rec
    <3>1. r = [k \in 1..Len(p) |-> rec(p[k])]
      BY DEF Listing, rec
    <3>2. Append(r, rec(n)) = [k \in 1..Len(q) |-> rec(q[k])]
      <4>1. DOMAIN r = 1..Len(p) /\ Len(r) = Len(p)
        BY <1>0, <3>1
      <4>2. \A k \in 1..Len(p) : r[k] = rec(p[k])
        BY <3>1
      <4>3. Append(r, rec(n)) = [k \in 1..(Len(p) + 1) |-> IF k = Len(p) + 1 THEN rec(n) ELSE r[k]]
        BY <1>0, <4>1
      <4>4. ASSUME NEW k \in 1..(Len(p) + 1)
            PROVE  (IF k = Len(p) + 1 THEN rec(n) ELSE r[k]) = rec(q[k])
        <5>1. CASE k = Len(p) + 1
          BY <2>1, <5>1
        <5>2. CASE k # Len(p) + 1
          <6>1. k \in 1..Len(p)
            BY <1>0, <5>2
          <6> QED BY <2>1, <4>2, <5>2, <6>1
        <5> QED BY <5>1, <5>2
      <4> HIDE DEF q
      <4> QED BY <2>1, <4>3, <4>4
    <3> QED BY <3>2 DEF rec
  <2> HIDE DEF q
  <2>3. ASSUME NEW j \in 1..Len(q), NEW k \in 1..Len(q), j < k PROVE q[j] < q[k]
    <3>1. j \in 1..Len(p) /\ q[j] = p[j]
      BY <1>0, <2>1, <2>3
    <3>2. CASE k = Len(p) + 1
      BY <1>0, <2>1, <3>1, <3>2
    <3>3. CASE k # Len(p) + 1
      <4>1. k \in 1..Len(p) /\ q[k] = p[k]
        BY <1>0, <2>1, <3>3
      <4> QED BY <2>3, <3>1, <4>1 DEF Listing
    <3> QED BY <3>2, <3>3
  <2>4. ASSUME NEW k \in 1..Len(q) PROVE Parses(chunk, q[k])
    <3>1. CASE k = Len(p) + 1
      BY <1>2, <2>1, <3>1
    <3>2. CASE k # Len(p) + 1
      <4>1. k \in 1..Len(p) /\ q[k] = p[k]
        BY <1>0, <2>1, <3>2
      <4> QED BY <4>1 DEF Listing
    <3> QED BY <3>1, <3>2
  <2>5. ASSUME NEW i \in 1..n, Parses(chunk, i) PROVE \E k \in 1..Len(q) : q[k] = i
    <3>1. CASE i = n
      <4>1. Len(p) + 1 \in 1..Len(q)
        BY <1>0, <2>1
      <4> QED BY <2>1, <3>1, <4>1
    <3>2. CASE i # n
      <4>1. i \in 1..d
        BY <3>2
      <4>2. PICK k \in 1..Len(p) : p[k] = i
        BY <2>5, <4>1 DEF Listing
      <4>3. k \in 1..Len(q)
        BY <1>0, <2>1
      <4> QED BY <2>1, <4>2, <4>3
    <3> QED BY <3>1, <3>2
  <2>6. Listing(s, q, f, chunk, n)
    BY <2>1, <2>2, <2>3, <2>4, <2>5 DEF Listing
  <2> QED BY <1>2, <2>6 DEF Took
<1> QED BY <1>1, <1>2

LEMMA RecordsListed ==
  ASSUME NEW f, NEW chunk, Len(chunk) \in Nat
  PROVE  \E p : Listing(Records(f, chunk), p, f, chunk, Len(chunk))
<1> DEFINE g == CHOOSE g : g = [i \in 0..Len(chunk) |-> IF i = 0 THEN <<>>
                      ELSE IF Parses(chunk, i) THEN Append(g[i - 1], Record(f, chunk[i])) ELSE g[i - 1]]
<1>1. \E h : h = [i \in 0..Len(chunk) |-> IF i = 0 THEN <<>>
                      ELSE IF Parses(chunk, i) THEN Append(h[i - 1], Record(f, chunk[i])) ELSE h[i - 1]]
  <2>1. PICK h : IsRun(h, f, chunk, Len(chunk))
    BY RunExists
  <2> QED BY <2>1, Zenon DEF IsRun
<1>2. g = [i \in 0..Len(chunk) |-> IF i = 0 THEN <<>>
                      ELSE IF Parses(chunk, i) THEN Append(g[i - 1], Record(f, chunk[i])) ELSE g[i - 1]]
  BY <1>1, Zenon
<1>3. Records(f, chunk) = g[Len(chunk)]
  BY Zenon DEF Records
<1> HIDE DEF g
<1>4. IsRun(g, f, chunk, Len(chunk))
  BY <1>2, Zenon DEF IsRun
<1>5. g[0] = <<>> /\ Takes(g, f, chunk, Len(chunk))
  BY <1>4, RunIs
<1> DEFINE Bad == {n \in 0..Len(chunk) : ~ \E p : Listing(g[n], p, f, chunk, n)}
<1>6. Bad = {}
  <2> SUFFICES ASSUME Bad # {} PROVE FALSE
    OBVIOUS
  <2>1. Bad \in SUBSET Nat
    OBVIOUS
  <2>2. PICK n \in Bad : \A m \in Bad : n <= m
    BY <2>1, LeastNat
  <2>3. n # 0
    <3>1. Listing(<<>>, <<>>, f, chunk, 0)
      BY DEF Listing
    <3> QED BY <1>5, <2>2, <3>1
  <2>4. n \in 1..Len(chunk) /\ n - 1 \in 0..Len(chunk) /\ n - 1 \notin Bad
    BY <2>2, <2>3
  <2>5. PICK d \in Nat : d = n - 1 /\ n = d + 1
    BY <2>4
  <2>6. PICK p : Listing(g[d], p, f, chunk, d)
    BY <2>4, <2>5
  <2>7. \E q : Listing(Took(g[d], f, chunk, n), q, f, chunk, n)
    BY <2>5, <2>6, ListingMore
  <2>8. g[n] = Took(g[d], f, chunk, n)
    BY <1>5, <2>4, <2>5 DEF Takes
  <2> QED BY <2>2, <2>7, <2>8
<1>7. Len(chunk) \in 0..Len(chunk)
  OBVIOUS
<1> QED BY <1>3, <1>6, <1>7

-----------------------------------------------------------------------------
\* The file a poll is at, and what one read takes.

LEMMA LeastIs ==
  ASSUME NEW S \in SUBSET Nat, S # {}
  PROVE  Least(S) \in S /\ \A j \in S : Least(S) <= j
BY LeastNat, Zenon DEF Least

LEMMA GreatestIs ==
  ASSUME NEW n \in Nat, NEW S \in SUBSET (1..n), S # {}
  PROVE  Greatest(S) \in S /\ \A j \in S : j <= Greatest(S)
<1> DEFINE T == {n - i : i \in S}
<1>1. T \in SUBSET Nat /\ T # {}
  <2>1. \A i \in S : n - i \in Nat
    OBVIOUS
  <2>2. PICK i \in S : TRUE
    OBVIOUS
  <2>3. n - i \in T
    OBVIOUS
  <2> QED BY <2>1, <2>3
<1>2. PICK t \in T : \A u \in T : t <= u
  BY <1>1, LeastNat
<1>3. PICK i \in S : t = n - i
  BY <1>2
<1>4. \A j \in S : j <= i
  BY <1>2, <1>3
<1> QED BY <1>3, <1>4, Zenon DEF Greatest

LEMMA OrderParts ==
  /\ Len(Order) \in Nat \ {0} /\ DOMAIN Order = 1..Len(Order)
  /\ \A i \in DOMAIN Order : Order[i] \in File
  /\ \A f \in File : \E i \in DOMAIN Order : Order[i] = f
  /\ MainFile \in File
<1>1. Order \in Seq(Range(Order)) /\ Order # <<>>
  BY TailAssumption
<1>2. Len(Order) \in Nat \ {0} /\ DOMAIN Order = 1..Len(Order)
  BY <1>1
<1>3. File = {Order[i] : i \in DOMAIN Order}
  BY DEF File, Range
<1>4. 1 \in DOMAIN Order
  BY <1>2
<1> QED BY <1>2, <1>3, <1>4 DEF MainFile

LEMMA TurnIs ==
  ASSUME todo \subseteq File, todo # {}
  PROVE  Turn \in todo /\ (MainFile \in todo => Turn = MainFile)
<1> DEFINE S == {i \in DOMAIN Order : Order[i] \in todo}
<1>1. S \in SUBSET Nat /\ S # {}
  BY OrderParts
<1>2. Least(S) \in S /\ \A j \in S : Least(S) <= j
  BY <1>1, LeastIs
<1>3. Turn \in todo
  BY <1>2 DEF Turn
<1>4. ASSUME MainFile \in todo PROVE Turn = MainFile
  <2>1. 1 \in S /\ \A i \in S : 1 <= i /\ i \in Nat
    BY <1>4, OrderParts DEF MainFile
  <2>2. Least(S) = 1
    BY <1>2, <2>1
  <2> QED BY <2>2 DEF Turn, MainFile
<1> QED BY <1>3, <1>4

ChunkOf(content, base, chunk) ==
  /\ chunk \in Seq(CellOf) /\ Len(chunk) \in Nat /\ DOMAIN chunk = 1..Len(chunk)
  /\ Len(chunk) = 0 \/ base + Len(chunk) <= Len(content)
  /\ \A i \in 1..Len(chunk) :
       /\ base + i \in 1..Len(content) /\ chunk[i] = content[base + i] /\ chunk[i] \in CellOf

LEMMA ChunkIs ==
  ASSUME NEW content \in Seq(CellOf), NEW base \in Nat, NEW reach \in Nat, reach <= Len(content)
  PROVE  ChunkOf(content, base, SubSeq(content, base + 1, reach))
<1> DEFINE chunk == SubSeq(content, base + 1, reach)
<1>0. Len(content) \in Nat /\ \A i \in 1..Len(content) : content[i] \in CellOf
  OBVIOUS
<1>1. CASE base < reach
  <2>1. Len(chunk) = reach - base /\ \A i \in 1..(reach - base) : chunk[i] = content[base + i]
    BY <1>0, <1>1
  <2>2. chunk \in Seq(CellOf)
    BY <1>0, <1>1
  <2> HIDE DEF chunk
  <2> QED BY <1>0, <1>1, <2>1, <2>2 DEF ChunkOf
<1>2. CASE ~(base < reach)
  <2>1. chunk = <<>>
    BY <1>0, <1>2
  <2> HIDE DEF chunk
  <2> QED BY <2>1 DEF ChunkOf
<1> QED BY <1>1, <1>2

LEMMA ReachIs ==
  ASSUME NEW size \in Nat, NEW base \in Nat, NEW content \in Seq(CellOf)
  PROVE  Least({size, base + MaxPoll, Len(content)}) \in Nat
         /\ Least({size, base + MaxPoll, Len(content)}) <= Len(content)
         /\ Least({size, base + MaxPoll, Len(content)}) \in {size, base + MaxPoll, Len(content)}
<1> DEFINE S == {size, base + MaxPoll, Len(content)}
<1>1. S \in SUBSET Nat /\ S # {} /\ Len(content) \in S
  BY TailAssumption
<1>2. Least(S) \in S /\ \A j \in S : Least(S) <= j
  BY <1>1, LeastIs
<1> QED BY <1>1, <1>2

LEMMA EndsOfChunk ==
  ASSUME NEW content, NEW base, NEW chunk, ChunkOf(content, base, chunk)
  PROVE  /\ Ends(chunk) \in SUBSET (1..Len(chunk))
         /\ Ends(chunk) # {} =>
              Greatest(Ends(chunk)) \in Ends(chunk) /\ \A j \in Ends(chunk) : j <= Greatest(Ends(chunk))
<1>1. Ends(chunk) \in SUBSET (1..Len(chunk)) /\ Len(chunk) \in Nat
  BY DEF ChunkOf, Ends
<1> QED BY <1>1, GreatestIs

LEMMA CursorIs ==
  ASSUME NEW content, NEW base \in Nat, NEW chunk, ChunkOf(content, base, chunk)
  PROVE  NextCursor(base, chunk) \in base..(base + Len(chunk))
<1>1. Len(chunk) \in Nat
  BY DEF ChunkOf
<1>2. Ends(chunk) # {} => Greatest(Ends(chunk)) \in 1..Len(chunk)
  BY EndsOfChunk
<1> QED BY <1>1, <1>2 DEF NextCursor

\* A record comes from a cell of the chunk that ends a line which parses.
LEMMA RecordsTyped ==
  ASSUME NEW f \in File, NEW content, NEW base, NEW chunk, ChunkOf(content, base, chunk)
  PROVE  /\ Records(f, chunk) \in Seq(Entry)
         /\ \A k \in 1..Len(Records(f, chunk)) : \E i \in 1..Len(chunk) :
              Parses(chunk, i) /\ Records(f, chunk)[k] = Record(f, chunk[i])
<1> DEFINE r == Records(f, chunk)
<1>1. Len(chunk) \in Nat
  BY DEF ChunkOf
<1>2. PICK p : Listing(r, p, f, chunk, Len(chunk))
  BY <1>1, RecordsListed
<1> HIDE DEF r
<1>3. Len(p) \in Nat /\ \A k \in 1..Len(p) : p[k] \in 1..Len(chunk) /\ Parses(chunk, p[k])
  BY <1>2 DEF Listing
<1>4. r = [k \in 1..Len(p) |-> Record(f, chunk[p[k]])]
  BY <1>2 DEF Listing
<1>5. \A i \in 1..Len(chunk) : Record(f, chunk[i]) \in Entry
  <2> TAKE i \in 1..Len(chunk)
  <2>1. chunk[i] \in CellOf
    BY DEF ChunkOf
  <2> QED BY <2>1 DEF CellOf, Entry, Record
<1>6. \A k \in 1..Len(p) : Record(f, chunk[p[k]]) \in Entry
  BY <1>3, <1>5
<1>7. r \in Seq(Entry) /\ Len(r) = Len(p) /\ \A k \in 1..Len(p) : r[k] = Record(f, chunk[p[k]])
  <2> DEFINE rec(k) == Record(f, chunk[p[k]])
  <2> HIDE DEF rec
  <2>1. r = [k \in 1..Len(p) |-> rec(k)] /\ \A k \in 1..Len(p) : rec(k) \in Entry
    BY <1>4, <1>6 DEF rec
  <2>2. r \in Seq(Entry) /\ Len(r) = Len(p) /\ \A k \in 1..Len(p) : r[k] = rec(k)
    BY <1>3, <2>1
  <2> QED BY <2>2 DEF rec
<1>8. \A k \in 1..Len(r) : \E i \in 1..Len(chunk) : Parses(chunk, i) /\ r[k] = Record(f, chunk[i])
  BY <1>3, <1>7
<1> QED BY <1>7, <1>8 DEF r

LEMMA Joined ==
  ASSUME NEW o \in Seq(Entry), NEW r \in Seq(Entry)
  PROVE  /\ o \o r \in Seq(Entry) /\ Len(o \o r) = Len(o) + Len(r)
         /\ \A i \in 1..Len(o) : (o \o r)[i] = o[i]
         /\ \A k \in 1..Len(r) : (o \o r)[Len(o) + k] = r[k]
         /\ \A i \in 1..(Len(o) + Len(r)) : i \in 1..Len(o) \/ \E k \in 1..Len(r) : i = Len(o) + k
<1>1. o \o r \in Seq(Entry) /\ Len(o \o r) = Len(o) + Len(r)
  OBVIOUS
<1>2. \A i \in 1..Len(o) : (o \o r)[i] = o[i]
  OBVIOUS
<1>3. \A k \in 1..Len(r) : (o \o r)[Len(o) + k] = r[k]
  OBVIOUS
<1>4. ASSUME NEW i \in 1..(Len(o) + Len(r)), i \notin 1..Len(o)
      PROVE  \E k \in 1..Len(r) : i = Len(o) + k
  <2>1. i - Len(o) \in 1..Len(r) /\ i = Len(o) + (i - Len(o))
    BY <1>4
  <2> QED BY <2>1
<1> QED BY <1>1, <1>2, <1>3, <1>4

-----------------------------------------------------------------------------
\* Types.

VanishedTurn == todo # {} /\ measured = Unmeasured /\ Vanished(Turn)
MeasureTurn  == todo # {} /\ measured = Unmeasured /\ Measure(Turn)
ReadTurn     == todo # {} /\ measured # Unmeasured /\ Read(Turn)

LEMMA TailCases ==
  ASSUME [TailNext]_tailVars
  PROVE  \/ \E f \in File : Appends(f) \/ Truncate(f) \/ Unlink(f)
         \/ StartPoll \/ VanishedTurn \/ MeasureTurn \/ ReadTurn
         \/ UNCHANGED tailVars
BY Zenon DEF TailNext, Session, Tailer, PollFile, VanishedTurn, MeasureTurn, ReadTurn

LEMMA InitTyped == TailInit => TypeInv
<1> SUFFICES ASSUME TailInit PROVE TypeInv
  OBVIOUS
<1>0. Longest \in Nat /\ Rewrites \in Nat /\ MainFile \in File
  BY TailAssumption, PiecesIs, OrderParts DEF Longest
<1>1. Disk
  <2>1. edition \in [File -> 0..Rewrites] /\ \A f \in File : edition[f] = 0
    BY <1>0 DEF TailInit
  <2>2. CASE text = [f \in {} |-> <<>>]
    BY <2>1, <2>2 DEF Disk
  <2>3. ASSUME NEW n \in 1..Longest, text = [f \in {MainFile} |-> [i \in 1..n |-> Cell(0, i)]]
        PROVE  Disk
    <3> DEFINE content == [i \in 1..n |-> Cell(0, i)]
    <3>1. \A i \in 1..n : Cell(0, i) \in CellOf
      BY <1>0, CellParts
    <3> DEFINE cell(i) == Cell(0, i)
    <3> HIDE DEF cell
    <3>2. content = [i \in 1..n |-> cell(i)] /\ \A i \in 1..n : cell(i) \in CellOf
      BY <3>1 DEF cell
    <3> HIDE DEF content
    <3>3. content \in Seq(CellOf) /\ Len(content) = n /\ \A i \in 1..n : content[i] = cell(i)
      BY <3>2
    <3>4. Writes(content, 0)
      BY <3>3 DEF Writes, cell
    <3>5. text = [f \in {MainFile} |-> content]
      BY <2>3, Zenon DEF content
    <3>6. DOMAIN text = {MainFile} /\ text[MainFile] = content
      BY <3>5
    <3> QED BY <1>0, <2>1, <3>4, <3>5, <3>6 DEF Disk
  <2> QED BY <2>2, <2>3 DEF TailInit
<1>2. Tails
  <2>1. \A f \in DOMAIN text : Len(text[f]) \in 0..Longest /\ f \in File
    <3> TAKE f \in DOMAIN text
    <3>1. Writes(text[f], edition[f]) /\ f \in File
      BY <1>1 DEF Disk
    <3> QED BY <3>1, WritesParts
  <2>2. tails = [f \in DOMAIN text |-> IF start = "End" THEN Len(text[f]) ELSE 0]
    BY DEF TailInit
  <2>3. DOMAIN tails = DOMAIN text /\ \A f \in DOMAIN text : tails[f] \in 0..Longest
    BY <1>0, <2>1, <2>2
  <2>4. tails = [f \in DOMAIN tails |-> tails[f]]
    BY <2>2
  <2>5. known \in [File -> 0..Rewrites] /\ \A f \in File : known[f] <= edition[f]
    BY <1>0 DEF TailInit
  <2>6. DOMAIN tails \subseteq File
    BY <2>1, <2>3
  <2> QED BY <2>3, <2>4, <2>5, <2>6 DEF Tails
<1>3. Polling
  BY <1>0 DEF TailInit, Polling
<1>4. Bus
  <2>1. out = <<>> /\ behind \in BOOLEAN
    BY DEF TailInit
  <2>2. out \in Seq(Entry) /\ DOMAIN out = {}
    BY <2>1
  <2> QED BY <2>1, <2>2 DEF Bus
<1> QED BY <1>1, <1>2, <1>3, <1>4 DEF TypeInv

LEMMA TodoParts ==
  ASSUME Tails, Polling
  PROVE  todo \subseteq File /\ (todo # {} => Turn \in todo /\ Turn \in DOMAIN tails /\ Turn \in File)
<1>1. todo \subseteq DOMAIN tails /\ DOMAIN tails \subseteq File
  BY DEF Tails, Polling
<1>2. todo # {} => Turn \in todo
  BY <1>1, TurnIs
<1> QED BY <1>1, <1>2

LEMMA ContentTyped ==
  ASSUME Disk, NEW f \in File
  PROVE  Writes(Content(f), edition[f]) /\ Len(Content(f)) \in 0..Longest
<1>1. Writes(Content(f), edition[f])
  BY WritesNothing DEF Content, Disk
<1>2. Len(Content(f)) \in 0..Longest
  BY <1>1, WritesParts
<1> QED BY <1>1, <1>2

LEMMA AppendsDisk ==
  ASSUME Disk, NEW f \in File, Appends(f)
  PROVE  /\ Disk'
         /\ DOMAIN text' = DOMAIN text \cup {f}
         /\ text'[f] = Append(Content(f), Cell(edition[f], Len(Content(f)) + 1))
         /\ Len(text'[f]) = Len(Content(f)) + 1
         /\ \A g \in DOMAIN text : g # f => text'[g] = text[g]
<1> DEFINE more == Append(Content(f), Cell(edition[f], Len(Content(f)) + 1))
<1>1. text' = [g \in DOMAIN text \cup {f} |-> IF g = f THEN more ELSE text[g]]
      /\ edition' = edition /\ Len(Content(f)) < Longest
  BY Zenon DEF Appends
<1>2. Writes(Content(f), edition[f]) /\ edition[f] \in 0..Rewrites
  BY ContentTyped DEF Disk
<1>3. Writes(more, edition[f])
  BY <1>1, <1>2, WritesMore
<1>4. Len(more) = Len(Content(f)) + 1
  BY <1>2, WritesParts
<1> HIDE DEF more
<1>5. DOMAIN text' = DOMAIN text \cup {f} /\ text'[f] = more
      /\ \A g \in DOMAIN text : g # f => text'[g] = text[g]
  BY <1>1
<1>6. text' = [g \in DOMAIN text' |-> text'[g]]
  BY <1>1
<1>7. \A g \in DOMAIN text' : Writes(text'[g], edition'[g])
  BY <1>1, <1>3, <1>5 DEF Disk
<1>8. Disk'
  BY <1>1, <1>5, <1>6, <1>7 DEF Disk
<1> QED BY <1>4, <1>5, <1>8 DEF more

\* A file is written anew, in place or under its name.
Rewritten(f) ==
  /\ edition[f] < Rewrites /\ f \in DOMAIN text
  /\ edition' = [edition EXCEPT ![f] = @ + 1]
  /\ UNCHANGED <<start, tails, known, todo, measured, out, behind>>

LEMMA RewrittenIs ==
  ASSUME Disk, NEW f \in File, Truncate(f) \/ Unlink(f)
  PROVE  /\ Rewritten(f) /\ Disk'
         /\ edition'[f] = edition[f] + 1 /\ \A g \in File : g # f => edition'[g] = edition[g]
         /\ \A g \in File : g # f => (g \in DOMAIN text' <=> g \in DOMAIN text)
         /\ \A g \in DOMAIN text' : g # f => text'[g] = text[g]
<1>0. /\ edition \in [File -> 0..Rewrites] /\ text = [g \in DOMAIN text |-> text[g]]
      /\ DOMAIN text \subseteq File /\ Rewrites \in Nat
  BY TailAssumption DEF Disk
<1>1. Rewritten(f)
  BY DEF Truncate, Unlink, Rewritten
<1>2. edition'[f] = edition[f] + 1 /\ (\A g \in File : g # f => edition'[g] = edition[g])
      /\ edition' \in [File -> 0..Rewrites]
  BY <1>0, <1>1 DEF Rewritten
<1>3. CASE Truncate(f)
  <2>1. text' = [text EXCEPT ![f] = <<>>] /\ f \in DOMAIN text
    BY <1>3 DEF Truncate
  <2>2. DOMAIN text' = DOMAIN text /\ text' = [g \in DOMAIN text' |-> text'[g]] /\ text'[f] = <<>>
        /\ \A g \in DOMAIN text : g # f => text'[g] = text[g]
    BY <1>0, <2>1
  <2>3. \A g \in DOMAIN text' : Writes(text'[g], edition'[g])
    BY <1>0, <1>2, <2>2, WritesNothing DEF Disk
  <2>4. Disk'
    BY <1>0, <1>2, <2>2, <2>3 DEF Disk
  <2> QED BY <1>1, <1>2, <2>2, <2>4
<1>4. CASE Unlink(f)
  <2>1. text' = [g \in DOMAIN text \ {f} |-> text[g]]
    BY <1>4 DEF Unlink
  <2>2. DOMAIN text' = DOMAIN text \ {f} /\ text' = [g \in DOMAIN text' |-> text'[g]]
        /\ \A g \in DOMAIN text' : text'[g] = text[g]
    BY <2>1
  <2>3. \A g \in DOMAIN text' : Writes(text'[g], edition'[g])
    BY <1>0, <1>2, <2>2 DEF Disk
  <2>4. Disk'
    BY <1>0, <1>2, <2>2, <2>3 DEF Disk
  <2> QED BY <1>1, <1>2, <2>2, <2>4
<1> QED BY <1>3, <1>4

LEMMA DiskStep == TypeInv /\ [TailNext]_tailVars => Disk'
<1> SUFFICES ASSUME TypeInv, [TailNext]_tailVars PROVE Disk'
  OBVIOUS
<1>0. Disk
  BY DEF TypeInv
<1>1. CASE UNCHANGED <<text, edition>>
  BY <1>0, <1>1 DEF Disk
<1>2. CASE \E f \in File : Appends(f)
  BY <1>0, <1>2, AppendsDisk
<1>3. CASE \E f \in File : Truncate(f) \/ Unlink(f)
  BY <1>0, <1>3, RewrittenIs
<1>4. CASE StartPoll \/ VanishedTurn \/ MeasureTurn \/ ReadTurn \/ UNCHANGED tailVars
  <2>1. UNCHANGED <<text, edition>>
    BY <1>4 DEF StartPoll, VanishedTurn, MeasureTurn, ReadTurn, Vanished, Measure, Read, tailVars
  <2> QED BY <1>1, <2>1
<1> QED BY <1>2, <1>3, <1>4, TailCases

\* What one read of an open file does.
Reading(f, content, chunk) ==
  /\ content \in Opened(f)
  /\ chunk = SubSeq(content, tails[f] + 1, Least({measured, tails[f] + MaxPoll, Len(content)}))
  /\ out' = out \o Records(f, chunk)
  /\ tails' = [tails EXCEPT ![f] = NextCursor(tails[f], chunk)]
  /\ behind' = (behind \/ (f = MainFile /\ \E i \in Ends(content) : i > tails'[f] /\ i <= measured))
  /\ Advance(f)
  /\ UNCHANGED <<text, edition, start, known>>

\* A read takes what is open, and the part of it that was measured.
LEMMA ReadIs ==
  ASSUME NEW f, Read(f)
  PROVE  \E content, chunk : Reading(f, content, chunk)
<1>1. PICK content \in Opened(f) :
        \E chunk : chunk = SubSeq(content, tails[f] + 1, Least({measured, tails[f] + MaxPoll, Len(content)}))
                 /\ out' = out \o Records(f, chunk)
                 /\ tails' = [tails EXCEPT ![f] = NextCursor(tails[f], chunk)]
                 /\ behind' = (behind \/ (f = MainFile /\ \E i \in Ends(content) : i > tails'[f] /\ i <= measured))
                 /\ Advance(f)
                 /\ UNCHANGED <<text, edition, start, known>>
  BY Zenon DEF Read
<1> QED BY <1>1, Zenon DEF Reading

\* The edition that is open: the one on disk, or an earlier one that was deleted.
LEMMA ReadParts ==
  ASSUME TypeInv, ReadTurn, NEW content, NEW chunk, Reading(Turn, content, chunk)
  PROVE  /\ Turn \in File /\ Turn \in DOMAIN tails /\ tails[Turn] \in 0..Longest /\ measured \in 0..Longest
         /\ ChunkOf(content, tails[Turn], chunk)
         /\ NextCursor(tails[Turn], chunk) \in tails[Turn]..(tails[Turn] + Len(chunk))
         /\ \E version \in 0..Rewrites :
              /\ Writes(content, version)
              /\ held = {} => Turn \in DOMAIN text /\ version = edition[Turn] /\ content = text[Turn]
              /\ held # {} => version < edition[Turn]
         /\ DOMAIN tails' = DOMAIN tails /\ tails'[Turn] = NextCursor(tails[Turn], chunk)
         /\ tails' = [g \in DOMAIN tails' |-> tails'[g]]
         /\ \A g \in DOMAIN tails : g # Turn => tails'[g] = tails[g]
<1>1. Turn \in DOMAIN tails /\ Turn \in File
  BY TodoParts DEF TypeInv, ReadTurn
<1>2. tails[Turn] \in 0..Longest /\ measured \in 0..Longest /\ Longest \in Nat
  BY <1>1, TailAssumption, PiecesIs DEF TypeInv, Tails, Polling, ReadTurn, Longest
<1>3. PICK version \in 0..Rewrites :
        /\ Writes(content, version)
        /\ held = {} => Turn \in DOMAIN text /\ version = edition[Turn] /\ content = text[Turn]
        /\ held # {} => version < edition[Turn]
  <2>1. CASE held = {}
    <3>1. Turn \in DOMAIN text
      BY <2>1 DEF TypeInv, Polling, ReadTurn
    <3>2. content = text[Turn]
      BY <2>1, <3>1 DEF Reading, Opened, Content
    <3>3. Writes(text[Turn], edition[Turn]) /\ edition[Turn] \in 0..Rewrites
      BY <1>1, <3>1 DEF TypeInv, Disk
    <3> QED BY <2>1, <3>1, <3>2, <3>3
  <2>2. CASE held # {}
    <3>1. content \in held
      BY <2>2 DEF Reading, Opened
    <3> QED BY <2>2, <3>1 DEF TypeInv, Polling
  <2> QED BY <2>1, <2>2
<1>4. content \in Seq(CellOf)
  BY <1>3, WritesParts
<1>5. ChunkOf(content, tails[Turn], chunk)
  <2> DEFINE reach == Least({measured, tails[Turn] + MaxPoll, Len(content)})
  <2>1. reach \in Nat /\ reach <= Len(content)
    BY <1>2, <1>4, ReachIs
  <2>2. chunk = SubSeq(content, tails[Turn] + 1, reach)
    BY DEF Reading
  <2> HIDE DEF reach
  <2>3. tails[Turn] \in Nat
    BY <1>2
  <2> QED BY <1>4, <2>1, <2>2, <2>3, ChunkIs
<1>6. NextCursor(tails[Turn], chunk) \in tails[Turn]..(tails[Turn] + Len(chunk))
  BY <1>2, <1>5, CursorIs
<1>7. tails' = [tails EXCEPT ![Turn] = NextCursor(tails[Turn], chunk)] /\ tails = [g \in DOMAIN tails |-> tails[g]]
  BY DEF Reading, TypeInv, Tails
<1>8. DOMAIN tails' = DOMAIN tails /\ tails'[Turn] = NextCursor(tails[Turn], chunk)
      /\ tails' = [g \in DOMAIN tails' |-> tails'[g]]
      /\ \A g \in DOMAIN tails : g # Turn => tails'[g] = tails[g]
  BY <1>1, <1>7
<1> QED BY <1>1, <1>2, <1>3, <1>5, <1>6, <1>8

LEMMA ReadBounded ==
  ASSUME TypeInv, ReadTurn, NEW content, NEW chunk, Reading(Turn, content, chunk)
  PROVE  tails'[Turn] \in 0..Longest
<1>1. /\ tails[Turn] \in 0..Longest /\ ChunkOf(content, tails[Turn], chunk)
      /\ tails'[Turn] \in tails[Turn]..(tails[Turn] + Len(chunk))
  BY ReadParts
<1>2. Len(content) \in 0..Longest
  BY ReadParts, WritesParts
<1>3. Longest \in Nat /\ Len(chunk) \in Nat /\ (Len(chunk) = 0 \/ tails[Turn] + Len(chunk) <= Len(content))
  BY <1>1, TailAssumption, PiecesIs DEF Longest, ChunkOf
<1> QED BY <1>1, <1>2, <1>3

LEMMA TailsStep == TypeInv /\ [TailNext]_tailVars => Tails'
<1> SUFFICES ASSUME TypeInv, [TailNext]_tailVars PROVE Tails'
  OBVIOUS
<1>0. /\ tails = [f \in DOMAIN tails |-> tails[f]] /\ DOMAIN tails \subseteq File
      /\ (\A f \in DOMAIN tails : tails[f] \in 0..Longest)
      /\ known \in [File -> 0..Rewrites] /\ (\A f \in File : known[f] <= edition[f])
      /\ edition \in [File -> 0..Rewrites] /\ Longest \in Nat /\ DOMAIN text \subseteq File
  BY TailAssumption, PiecesIs DEF TypeInv, Tails, Disk, Longest
<1>1. CASE UNCHANGED <<tails, known, edition>>
  BY <1>0, <1>1 DEF Tails
<1>2. CASE (\E f \in File : Appends(f)) \/ UNCHANGED tailVars
  <2>1. UNCHANGED <<tails, known, edition>>
    BY <1>2 DEF Appends, tailVars
  <2> QED BY <1>1, <2>1
<1>3. ASSUME NEW f \in File, Truncate(f) \/ Unlink(f) PROVE Tails'
  <2>1. Rewritten(f) /\ edition'[f] = edition[f] + 1 /\ \A g \in File : g # f => edition'[g] = edition[g]
    BY <1>3, RewrittenIs DEF TypeInv
  <2>2. tails' = tails /\ known' = known
    BY <2>1 DEF Rewritten
  <2>3. \A g \in File : known[g] <= edition'[g]
    BY <1>0, <2>1
  <2> QED BY <1>0, <2>2, <2>3 DEF Tails
<1>4. CASE StartPoll
  <2>1. /\ tails' = [f \in DOMAIN tails \cup DOMAIN text |-> IF f \in DOMAIN tails THEN tails[f] ELSE 0]
        /\ known' = [f \in File |-> IF f \in DOMAIN tails THEN known[f] ELSE edition[f]] /\ edition' = edition
    BY <1>4 DEF StartPoll
  <2>2. DOMAIN tails' = DOMAIN tails \cup DOMAIN text /\ tails' = [f \in DOMAIN tails' |-> tails'[f]]
        /\ \A f \in DOMAIN tails' : tails'[f] \in 0..Longest
    BY <1>0, <2>1
  <2>3. known' \in [File -> 0..Rewrites] /\ \A f \in File : known'[f] <= edition[f]
    BY <1>0, <2>1
  <2> QED BY <1>0, <2>1, <2>2, <2>3 DEF Tails
<1>5. CASE VanishedTurn
  <2>1. tails' = [g \in DOMAIN tails \ {Turn} |-> tails[g]] /\ known' = known /\ edition' = edition
    BY <1>5 DEF VanishedTurn, Vanished
  <2>2. DOMAIN tails' = DOMAIN tails \ {Turn} /\ tails' = [f \in DOMAIN tails' |-> tails'[f]]
        /\ \A f \in DOMAIN tails' : tails'[f] = tails[f]
    BY <2>1
  <2> QED BY <1>0, <2>1, <2>2 DEF Tails
<1>6. CASE MeasureTurn
  <2>0. PICK f \in File : f = Turn
    BY <1>6, TodoParts DEF TypeInv, MeasureTurn
  <2>1. f \in DOMAIN tails /\ f \in DOMAIN text
    BY <1>6, <2>0, TodoParts DEF TypeInv, MeasureTurn, Measure
  <2>2. /\ tails' = [tails EXCEPT ![f] = IF measured' < @ THEN 0 ELSE @] /\ edition' = edition
        /\ known' = IF measured' < tails[f] THEN [known EXCEPT ![f] = edition[f]] ELSE known
    BY <1>6, <2>0 DEF MeasureTurn, Measure
  <2>3. DOMAIN tails' = DOMAIN tails /\ tails' = [g \in DOMAIN tails' |-> tails'[g]]
        /\ \A g \in DOMAIN tails' : tails'[g] \in 0..Longest
    <3>1. PICK n : n = IF measured' < tails[f] THEN 0 ELSE tails[f]
      OBVIOUS
    <3>2. n \in 0..Longest
      BY <1>0, <2>1, <3>1
    <3>3. tails' = [tails EXCEPT ![f] = n]
      BY <2>2, <3>1
    <3>4. DOMAIN tails' = DOMAIN tails /\ tails' = [g \in DOMAIN tails' |-> tails'[g]]
          /\ tails'[f] = n /\ \A g \in DOMAIN tails : g # f => tails'[g] = tails[g]
      BY <1>0, <2>1, <3>3
    <3> QED BY <1>0, <2>1, <3>2, <3>4
  <2>4. known' \in [File -> 0..Rewrites] /\ \A g \in File : known'[g] <= edition[g]
    BY <1>0, <2>1, <2>2
  <2> QED BY <1>0, <2>2, <2>3, <2>4 DEF Tails
<1>7. CASE ReadTurn
  <2>1. PICK content, chunk : Reading(Turn, content, chunk)
    BY <1>7, ReadIs DEF ReadTurn
  <2>2. known' = known /\ edition' = edition
    BY <2>1 DEF Reading
  <2>3. DOMAIN tails' = DOMAIN tails /\ tails' = [g \in DOMAIN tails' |-> tails'[g]]
        /\ \A g \in DOMAIN tails : g # Turn => tails'[g] = tails[g]
    BY <1>7, <2>1, ReadParts
  <2>4. tails'[Turn] \in 0..Longest
    BY <1>7, <2>1, ReadBounded
  <2>5. \A g \in DOMAIN tails' : tails'[g] \in 0..Longest
    BY <1>0, <2>3, <2>4
  <2> QED BY <1>0, <2>2, <2>3, <2>5 DEF Tails
<1> QED BY <1>2, <1>3, <1>4, <1>5, <1>6, <1>7, TailCases

LEMMA TurnStays == todo' = todo => Turn' = Turn
BY DEF Turn

LEMMA AdvancePolling ==
  ASSUME Tails, Polling, NEW f, Advance(f), DOMAIN tails \ {f} \subseteq DOMAIN tails'
  PROVE  Polling'
BY DEF Polling, Advance, Unmeasured

LEMMA PollingStep == TypeInv /\ [TailNext]_tailVars => Polling'
<1> SUFFICES ASSUME TypeInv, [TailNext]_tailVars PROVE Polling'
  OBVIOUS
<1>0. Disk /\ Tails /\ Polling
  BY DEF TypeInv
<1>1. ASSUME NEW f \in File, Appends(f) PROVE Polling'
  <2>1. DOMAIN text' = DOMAIN text \cup {f}
    BY <1>0, <1>1, AppendsDisk
  <2>2. UNCHANGED <<edition, tails, todo, measured, held>> /\ Turn' = Turn
    BY <1>1, TurnStays DEF Appends
  <2> QED BY <1>0, <2>1, <2>2 DEF Polling
<1>2. ASSUME NEW f \in File, Truncate(f) \/ Unlink(f) PROVE Polling'
  <2>1. /\ Rewritten(f) /\ edition'[f] = edition[f] + 1
        /\ \A g \in File : g # f => edition'[g] = edition[g]
        /\ \A g \in File : g # f => (g \in DOMAIN text' <=> g \in DOMAIN text)
    BY <1>0, <1>2, RewrittenIs
  <2>2. UNCHANGED <<tails, todo, measured>> /\ Turn' = Turn /\ f \in DOMAIN text
    BY <2>1, TurnStays DEF Rewritten
  <2>3. \A g \in File : edition[g] \in 0..Rewrites /\ edition[g] <= edition'[g] /\ edition'[g] \in Int
    BY <1>0, <2>1 DEF Disk
  <2>4. measured # Unmeasured => todo # {} /\ Turn \in File
    BY <1>0, TodoParts DEF Polling
  <2>5. CASE held' = held
    <3>1. measured # Unmeasured /\ held = {} => Turn' \in DOMAIN text'
      <4> SUFFICES ASSUME measured # Unmeasured, held = {} PROVE Turn \in DOMAIN text'
        BY <2>2
      <4>1. Turn \in DOMAIN text
        BY <1>0 DEF Polling
      <4>2. CASE Turn # f
        BY <2>1, <2>4, <4>1, <4>2
      <4>3. CASE Turn = f
        <5>1. CASE Truncate(f)
          <6>1. text' = [text EXCEPT ![f] = <<>>]
            BY <5>1 DEF Truncate
          <6> QED BY <4>1, <6>1
        <5>2. CASE Unlink(f)
          <6>1. held' = {text[f]}
            BY <4>3, <5>2 DEF Unlink
          <6> QED BY <2>5, <6>1
        <5> QED BY <1>2, <5>1, <5>2
      <4> QED BY <4>2, <4>3
    <3>2. ASSUME NEW content \in held
          PROVE  \E version \in 0..Rewrites : version < edition'[Turn] /\ Writes(content, version)
      <4>1. measured # Unmeasured
        BY <1>0 DEF Polling
      <4>2. PICK version \in 0..Rewrites : version < edition[Turn] /\ Writes(content, version)
        BY <1>0 DEF Polling
      <4>3. Turn \in File
        BY <2>4, <4>1
      <4> QED BY <2>3, <4>2, <4>3
    <3> QED BY <1>0, <2>2, <2>5, <3>1, <3>2 DEF Polling
  <2>6. CASE held' # held
    <3>1. Unlink(f) /\ measured # Unmeasured /\ f = Turn /\ held' = {text[f]}
      <4>1. CASE Truncate(f)
        BY <2>6, <4>1 DEF Truncate
      <4>2. CASE Unlink(f)
        BY <2>6, <4>2 DEF Unlink
      <4> QED BY <1>2, <4>1, <4>2
    <3>2. Writes(text[f], edition[f]) /\ edition[f] \in 0..Rewrites /\ edition[f] < edition'[f]
      BY <1>0, <2>1, <2>2, <2>3 DEF Disk
    <3>3. \A content \in held' : \E version \in 0..Rewrites : version < edition'[Turn] /\ Writes(content, version)
      BY <3>1, <3>2
    <3>4. held' # {}
      BY <3>1
    <3> QED BY <1>0, <2>2, <2>4, <3>1, <3>3, <3>4 DEF Polling
  <2> QED BY <2>5, <2>6
<1>3. CASE StartPoll
  <2>1. todo = {} /\ todo' = DOMAIN tails' /\ measured' = measured /\ held' = held
    BY <1>3 DEF StartPoll
  <2>2. measured = Unmeasured /\ held = {}
    BY <1>0, <2>1 DEF Polling
  <2> QED BY <2>1, <2>2 DEF Polling
<1>4. CASE VanishedTurn
  <2>1. Advance(Turn) /\ tails' = [g \in DOMAIN tails \ {Turn} |-> tails[g]]
    BY <1>4 DEF VanishedTurn, Vanished
  <2>2. DOMAIN tails \ {Turn} \subseteq DOMAIN tails'
    BY <2>1
  <2> QED BY <1>0, <2>1, <2>2, AdvancePolling
<1>5. CASE MeasureTurn
  <2>1. /\ todo # {} /\ Turn \in DOMAIN text /\ measured' = Len(text[Turn]) /\ held = {} /\ held' = held
        /\ todo' = todo /\ text' = text /\ DOMAIN tails' = DOMAIN tails
    BY <1>0, <1>5 DEF MeasureTurn, Measure, Polling, Tails
  <2>2. measured' \in 0..Longest
    <3>1. Writes(text[Turn], edition[Turn])
      BY <1>0, <2>1 DEF Disk
    <3> QED BY <2>1, <3>1, WritesParts
  <2>3. Turn' = Turn
    BY <2>1, TurnStays
  <2>4. measured' # Unmeasured
    BY <2>2 DEF Unmeasured
  <2> QED BY <1>0, <2>1, <2>2, <2>3, <2>4 DEF Polling
<1>6. CASE ReadTurn
  <2>1. PICK content, chunk : Reading(Turn, content, chunk)
    BY <1>6, ReadIs DEF ReadTurn
  <2>2. Advance(Turn) /\ DOMAIN tails' = DOMAIN tails
    BY <1>6, <2>1, ReadParts DEF Reading
  <2>3. DOMAIN tails \ {Turn} \subseteq DOMAIN tails'
    BY <2>2
  <2> QED BY <1>0, <2>2, <2>3, AdvancePolling
<1>7. CASE UNCHANGED tailVars
  <2>1. UNCHANGED <<edition, tails, todo, measured, held, text>> /\ Turn' = Turn
    BY <1>7, TurnStays DEF tailVars
  <2> QED BY <1>0, <2>1 DEF Polling
<1> QED BY <1>1, <1>2, <1>3, <1>4, <1>5, <1>6, <1>7, TailCases

\* What a read gives is of the file it is at, and of an older edition only if the file was
\* deleted since it was measured.
LEMMA RecordsEdition ==
  ASSUME TypeInv, ReadTurn, NEW content, NEW chunk, Reading(Turn, content, chunk)
  PROVE  /\ Records(Turn, chunk) \in Seq(Entry)
         /\ \A k \in 1..Len(Records(Turn, chunk)) :
              /\ Records(Turn, chunk)[k].file = Turn
              /\ held = {} => Records(Turn, chunk)[k].edition = edition[Turn]
              /\ held # {} => Records(Turn, chunk)[k].edition < edition[Turn]
         /\ Records(Turn, chunk) # <<>> => Len(chunk) # 0
<1>1. PICK version \in 0..Rewrites :
        /\ Writes(content, version)
        /\ held = {} => Turn \in DOMAIN text /\ version = edition[Turn] /\ content = text[Turn]
        /\ held # {} => version < edition[Turn]
  BY ReadParts
<1>2. ChunkOf(content, tails[Turn], chunk) /\ Turn \in File
  BY ReadParts
<1>0. PICK r : r = Records(Turn, chunk)
  OBVIOUS
<1>3. r \in Seq(Entry) /\ \A k \in 1..Len(r) : \E i \in 1..Len(chunk) : Parses(chunk, i) /\ r[k] = Record(Turn, chunk[i])
  BY <1>0, <1>2, RecordsTyped
<1>4. \A i \in 1..Len(chunk) : chunk[i].edition = version
  <2> TAKE i \in 1..Len(chunk)
  <2>1. tails[Turn] + i \in 1..Len(content) /\ chunk[i] = content[tails[Turn] + i]
    BY <1>2 DEF ChunkOf
  <2>2. chunk[i] = Cell(version, tails[Turn] + i) /\ tails[Turn] + i \in Nat \ {0}
    BY <1>1, <2>1, WritesParts
  <2> QED BY <2>2, CellParts
<1>5. \A k \in 1..Len(r) : r[k].file = Turn /\ r[k].edition = version
  <2> TAKE k \in 1..Len(r)
  <2>1. PICK i \in 1..Len(chunk) : r[k] = Record(Turn, chunk[i])
    BY <1>3
  <2> QED BY <1>4, <2>1 DEF Record
<1>6. ASSUME r # <<>> PROVE Len(chunk) # 0
  <2>1. 1 \in 1..Len(r)
    BY <1>3, <1>6
  <2>2. PICK i \in 1..Len(chunk) : TRUE
    BY <1>3, <2>1
  <2> QED BY <2>2
<1>7. \A k \in 1..Len(r) :
        /\ r[k].file = Turn
        /\ held = {} => r[k].edition = edition[Turn]
        /\ held # {} => r[k].edition < edition[Turn]
  BY <1>1, <1>5
<1>8. r \in Seq(Entry)
  BY <1>3
<1>9. r # <<>> => Len(chunk) # 0
  BY <1>6
<1> QED BY <1>0, <1>7, <1>8, <1>9

LEMMA BusStep == TypeInv /\ [TailNext]_tailVars => Bus'
<1> SUFFICES ASSUME TypeInv, [TailNext]_tailVars PROVE Bus'
  OBVIOUS
<1>0. /\ Disk /\ Tails /\ Polling
      /\ out \in Seq(Entry) /\ behind \in BOOLEAN /\ DOMAIN out = 1..Len(out)
      /\ \A i \in DOMAIN out : out[i].edition <= edition[out[i].file]
                             /\ out[i].file \in File /\ out[i].edition \in 0..Rewrites
  <2>1. out \in Seq(Entry) /\ DOMAIN out = 1..Len(out)
    BY DEF TypeInv, Bus
  <2>2. \A i \in DOMAIN out : out[i] \in Entry
    BY <2>1
  <2>3. \A e \in Entry : e.file \in File /\ e.edition \in 0..Rewrites
    BY DEF Entry
  <2> QED BY <2>1, <2>2, <2>3 DEF TypeInv, Bus
<1>1. CASE UNCHANGED <<out, behind, edition>>
  BY <1>0, <1>1 DEF Bus
<1>2. CASE \/ \E f \in File : Appends(f)
           \/ StartPoll \/ VanishedTurn \/ MeasureTurn \/ UNCHANGED tailVars
  <2>1. UNCHANGED <<out, behind, edition>>
    BY <1>2 DEF Appends, StartPoll, VanishedTurn, MeasureTurn, Vanished, Measure, tailVars
  <2> QED BY <1>1, <2>1
<1>3. ASSUME NEW f \in File, Truncate(f) \/ Unlink(f) PROVE Bus'
  <2>1. /\ Rewritten(f) /\ edition'[f] = edition[f] + 1
        /\ \A g \in File : g # f => edition'[g] = edition[g]
    BY <1>0, <1>3, RewrittenIs
  <2>2. out' = out /\ behind' = behind
    BY <2>1 DEF Rewritten
  <2>3. \A g \in File : edition[g] \in 0..Rewrites /\ edition[g] <= edition'[g] /\ edition'[g] \in Int
    BY <1>0, <2>1 DEF Disk
  <2>4. \A i \in DOMAIN out : out[i].edition <= edition'[out[i].file]
    BY <1>0, <2>3
  <2> QED BY <1>0, <2>2, <2>4 DEF Bus
<1>4. CASE ReadTurn
  <2>1. PICK content, chunk : Reading(Turn, content, chunk)
    BY <1>4, ReadIs DEF ReadTurn
  <2> DEFINE r == Records(Turn, chunk)
  <2>2. /\ r \in Seq(Entry)
        /\ \A k \in 1..Len(r) : /\ r[k].file = Turn
                                /\ held = {} => r[k].edition = edition[Turn]
                                /\ held # {} => r[k].edition < edition[Turn]
    BY <1>4, <2>1, RecordsEdition
  <2>3. out' = out \o r /\ edition' = edition /\ behind' \in BOOLEAN
    BY <1>0, <2>1 DEF Reading
  <2>4. Turn \in File /\ edition[Turn] \in Int
    BY <1>0, <1>4, <2>1, ReadParts DEF Disk
  <2> HIDE DEF r
  <2>5. /\ out' \in Seq(Entry) /\ Len(out') = Len(out) + Len(r)
        /\ \A i \in 1..Len(out) : out'[i] = out[i]
        /\ \A k \in 1..Len(r) : out'[Len(out) + k] = r[k]
        /\ \A i \in 1..(Len(out) + Len(r)) : i \in 1..Len(out) \/ \E k \in 1..Len(r) : i = Len(out) + k
    BY <1>0, <2>2, <2>3, Joined
  <2>6. ASSUME NEW i \in DOMAIN out' PROVE out'[i].edition <= edition[out'[i].file]
    <3>1. i \in 1..(Len(out) + Len(r))
      BY <2>5
    <3>2. CASE i \in 1..Len(out)
      BY <1>0, <2>5, <3>2
    <3>3. ASSUME NEW k \in 1..Len(r), i = Len(out) + k PROVE out'[i].edition <= edition[out'[i].file]
      <4>1. out'[i] = r[k]
        BY <2>5, <3>3
      <4>2. r[k].file = Turn /\ r[k].edition <= edition[Turn]
        <5>1. CASE held = {}
          BY <2>2, <2>4, <5>1
        <5>2. CASE held # {}
          <6>1. r[k] \in Entry
            BY <2>2
          <6>2. r[k].edition \in Int
            BY <6>1 DEF Entry
          <6> QED BY <2>2, <2>4, <5>2, <6>2
        <5> QED BY <5>1, <5>2
      <4> QED BY <4>1, <4>2
    <3> QED BY <2>5, <3>1, <3>2, <3>3
  <2> QED BY <2>3, <2>5, <2>6 DEF Bus
<1> QED BY <1>2, <1>3, <1>4, TailCases

LEMMA TypeStep == TypeInv /\ [TailNext]_tailVars => TypeInv'
BY DiskStep, TailsStep, PollingStep, BusStep DEF TypeInv

\* Whatever the session does to its files, between a measurement and its read too, the
\* tailer's cursors, the poll under way and the bus keep their types (FileTail::poll).
THEOREM TailTyped == TailSpec => []TailTypes
<1>1. TypeInv => TailTypes
  BY DEF TypeInv, Disk, Tails, Polling, Bus, TailTypes
<1>2. TailSpec => []TypeInv
  BY InitTyped, TypeStep, PTL DEF TailSpec
<1> QED BY <1>1, <1>2, PTL

-----------------------------------------------------------------------------
\* A read from the end of a line gives the lines that follow, all of them.

\* A line fits into what one poll reads: none is skipped as oversize.
LinesFit == Pieces <= MaxPoll

LEMMA ChunkCells ==
  ASSUME NEW content, NEW version, Writes(content, version), NEW m \in Nat, NEW chunk,
         ChunkOf(content, m * Pieces, chunk)
  PROVE  \A i \in 1..Len(chunk) :
           /\ chunk[i] = [edition |-> version, line |-> m + LineAt(i), part |-> PartAt(i)]
           /\ LineAt(i) \in Nat \ {0} /\ PartAt(i) \in 1..Pieces /\ i = (LineAt(i) - 1) * Pieces + PartAt(i)
<1> TAKE i \in 1..Len(chunk)
<1> DEFINE base == m * Pieces
<1>0. base \in Nat /\ Len(chunk) \in Nat /\ i \in Nat \ {0}
  BY PiecesIs DEF ChunkOf
<1>1. chunk[i] = Cell(version, base + i)
  BY <1>0, WritesParts DEF ChunkOf
<1>2. LineAt(i) \in Nat \ {0} /\ PartAt(i) \in 1..Pieces /\ i = (LineAt(i) - 1) * Pieces + PartAt(i)
  BY <1>0, PlaceParts
<1>3. LineAt(base + i) = m + LineAt(i) /\ PartAt(base + i) = PartAt(i)
  <2>1. PICK l \in Nat : l = LineAt(i) - 1
    BY <1>2
  <2>2. PICK part \in 1..Pieces : part = PartAt(i)
    BY <1>2
  <2>3. i = l * Pieces + part
    BY <1>2, <2>1, <2>2
  <2>4. base + i = (m + l) * Pieces + part
    BY <2>3, PiecesIs
  <2>5. LineAt((m + l) * Pieces + part) = m + l + 1 /\ PartAt((m + l) * Pieces + part) = part
    <3>1. m + l \in Nat
      OBVIOUS
    <3> QED BY <3>1, PlaceAt
  <2> QED BY <1>2, <2>1, <2>2, <2>4, <2>5
<1>4. base + i \in Nat \ {0}
  BY <1>0
<1>5. Cell(version, base + i) = [edition |-> version, line |-> LineAt(base + i), part |-> PartAt(base + i)]
  BY <1>4, CellParts
<1> QED BY <1>1, <1>2, <1>3, <1>5

LEMMA ChunkParses ==
  ASSUME NEW content, NEW version, Writes(content, version), NEW m \in Nat, NEW chunk,
         ChunkOf(content, m * Pieces, chunk), NEW i \in 1..Len(chunk)
  PROVE  /\ EndsLine(chunk[i]) <=> PartAt(i) = Pieces
         /\ Parses(chunk, i) <=> PartAt(i) = Pieces
<1> DEFINE cell(j) == [edition |-> version, line |-> m + LineAt(j), part |-> PartAt(j)]
<1>0. Len(chunk) \in Nat /\ i \in Nat \ {0} /\ Pieces \in Nat \ {0}
  BY PiecesIs DEF ChunkOf
<1>1. \A j \in 1..Len(chunk) : chunk[j] = cell(j)
  BY ChunkCells
<1>2. \A j \in 1..Len(chunk) : EndsLine(chunk[j]) <=> PartAt(j) = Pieces
  <2> TAKE j \in 1..Len(chunk)
  <2>1. chunk[j] = cell(j)
    BY <1>1
  <2>2. chunk[j].part = PartAt(j)
    BY <2>1
  <2> QED BY <2>2 DEF EndsLine
<1>3. ASSUME PartAt(i) = Pieces PROVE Parses(chunk, i)
  <2>1. PICK l \in Nat : l = LineAt(i) - 1 /\ LineAt(i) = l + 1 /\ i = l * Pieces + Pieces
    <3>1. LineAt(i) \in Nat \ {0} /\ i = (LineAt(i) - 1) * Pieces + PartAt(i)
      BY ChunkCells
    <3> QED BY <1>3, <3>1
  <2>2. l * Pieces \in Nat
    BY <1>0
  <2>3. i >= Pieces /\ \A part \in 1..Pieces : i - Pieces + part = l * Pieces + part /\ i - Pieces + part \in 1..Len(chunk)
    <3> DEFINE x == l * Pieces
    <3>1. x \in Nat /\ i = x + Pieces
      BY <2>1, <2>2
    <3> HIDE DEF x
    <3>2. i >= Pieces /\ \A part \in 1..Pieces : i - Pieces + part = x + part /\ i - Pieces + part \in 1..Len(chunk)
      BY <1>0, <3>1
    <3> QED BY <3>2 DEF x
  <2>4. ASSUME NEW part \in 1..Pieces PROVE chunk[i - Pieces + part] = [chunk[i] EXCEPT !.part = part]
    <3>1. LineAt(l * Pieces + part) = l + 1 /\ PartAt(l * Pieces + part) = part
      BY PlaceAt
    <3>2. chunk[i - Pieces + part] = cell(l * Pieces + part)
      BY <1>1, <2>3
    <3>3. chunk[i] = cell(i)
      BY <1>1
    <3>4. LineAt(i) = l + 1
      BY <2>1
    <3> QED BY <3>1, <3>2, <3>3, <3>4
  <2>5. ASSUME i > Pieces PROVE EndsLine(chunk[i - Pieces])
    <3>1. i - Pieces = l * Pieces /\ i - Pieces \in 1..Len(chunk)
      <4> DEFINE x == l * Pieces
      <4>1. x \in Nat /\ i = x + Pieces
        BY <2>1, <2>2
      <4> HIDE DEF x
      <4>2. i - Pieces = x /\ i - Pieces \in 1..Len(chunk)
        BY <1>0, <2>5, <4>1
      <4> QED BY <4>2 DEF x
    <3>2. l # 0
      BY <1>0, <3>1
    <3>3. PartAt(i - Pieces) = Pieces
      BY <3>1, <3>2, EndPlace
    <3> QED BY <1>2, <3>1, <3>3
  <2>6. EndsLine(chunk[i])
    BY <1>2, <1>3
  <2> QED BY <2>3, <2>4, <2>5, <2>6 DEF Parses
<1>4. Parses(chunk, i) => EndsLine(chunk[i])
  BY DEF Parses
<1> QED BY <1>2, <1>3, <1>4

LEMMA EndOrder ==
  ASSUME NEW i \in Nat \ {0}, NEW j \in Nat \ {0}, PartAt(i) = Pieces, PartAt(j) = Pieces, i <= j
  PROVE  LineAt(i) <= LineAt(j) /\ (i # j => LineAt(i) < LineAt(j))
<1>1. LineAt(i) \in Nat \ {0} /\ i = LineAt(i) * Pieces /\ LineAt(j) \in Nat \ {0} /\ j = LineAt(j) * Pieces
  BY EndLine
<1>2. ~(LineAt(j) < LineAt(i))
  <2> SUFFICES ASSUME LineAt(j) < LineAt(i) PROVE FALSE
    OBVIOUS
  <2>1. LineAt(j) * Pieces + Pieces <= LineAt(i) * Pieces
    BY <1>1, Multiples
  <2>2. j + Pieces <= i
    BY <1>1, <2>1
  <2> QED BY <2>2, PiecesIs
<1>3. LineAt(i) = LineAt(j) => i = j
  BY <1>1
<1> QED BY <1>1, <1>2, <1>3

\* r gives the lines from m + 1 to m + q, in order.
Continues(r, m, q) ==
  /\ \A k \in 1..Len(r) : r[k].line \in (m + 1)..(m + q)
  /\ \A line \in (m + 1)..(m + q) : \E k \in 1..Len(r) : r[k].line = line
  /\ \A j, k \in 1..Len(r) : j < k => r[j].line < r[k].line

\* A read from the end of a line gives the lines that follow, as far as they are complete,
\* and leaves the cursor at the end of the last.
LEMMA ReadsLines ==
  ASSUME LinesFit, NEW f \in File, NEW content, NEW version, Writes(content, version),
         NEW m \in Nat, m * Pieces <= Len(content), NEW chunk, ChunkOf(content, m * Pieces, chunk)
  PROVE  \E q \in Nat : /\ NextCursor(m * Pieces, chunk) = (m + q) * Pieces
                        /\ NextCursor(m * Pieces, chunk) <= Len(content)
                        /\ Continues(Records(f, chunk), m, q)
<1> DEFINE n == Len(chunk)
           base == m * Pieces
<1>0. n \in Nat /\ Pieces \in Nat \ {0} /\ base \in Nat /\ DOMAIN chunk = 1..n /\ Len(content) \in Nat
      /\ (n = 0 \/ base + n <= Len(content))
  BY PiecesIs, WritesParts DEF ChunkOf
<1>1. \A i \in 1..n : EndsLine(chunk[i]) <=> PartAt(i) = Pieces
  BY ChunkParses
<1>2. \A i \in 1..n : Parses(chunk, i) <=> PartAt(i) = Pieces
  BY ChunkParses
<1>3. \A i \in 1..n : chunk[i].line = m + LineAt(i)
  <2> TAKE i \in 1..n
  <2>1. chunk[i] = [edition |-> version, line |-> m + LineAt(i), part |-> PartAt(i)]
    BY ChunkCells
  <2> QED BY <2>1
<1>4. PICK q \in Nat :
        /\ NextCursor(base, chunk) = (m + q) * Pieces
        /\ NextCursor(base, chunk) <= Len(content)
        /\ \A i \in 1..n : PartAt(i) = Pieces => LineAt(i) \in 1..q
        /\ \A l \in 1..q : l * Pieces \in 1..n
  <2>1. CASE Ends(chunk) # {}
    <3>1. PICK g : g = Greatest(Ends(chunk))
      OBVIOUS
    <3>2. g \in 1..n /\ PartAt(g) = Pieces /\ \A i \in 1..n : PartAt(i) = Pieces => i <= g
      <4>1. g \in Ends(chunk) /\ \A i \in Ends(chunk) : i <= g
        BY <2>1, <3>1, EndsOfChunk
      <4> QED BY <1>0, <1>1, <4>1 DEF Ends
    <3>3. LineAt(g) \in Nat \ {0} /\ g = LineAt(g) * Pieces
      BY <3>2, EndLine
    <3>4. NextCursor(base, chunk) = base + g
      BY <2>1, <3>1 DEF NextCursor
    <3>5. base + g = (m + LineAt(g)) * Pieces
      BY <1>0, <3>3
    <3>6. \A i \in 1..n : PartAt(i) = Pieces => LineAt(i) \in 1..LineAt(g)
      <4> SUFFICES ASSUME NEW i \in 1..n, PartAt(i) = Pieces PROVE LineAt(i) \in 1..LineAt(g)
        OBVIOUS
      <4>1. i <= g /\ i \in Nat \ {0} /\ g \in Nat \ {0}
        BY <3>2
      <4>2. LineAt(i) <= LineAt(g)
        BY <3>2, <4>1, EndOrder
      <4>3. LineAt(i) \in Nat \ {0}
        BY <4>1, PlaceParts
      <4> QED BY <3>3, <4>2, <4>3
    <3>7. \A l \in 1..LineAt(g) : l * Pieces \in 1..n
      <4> TAKE l \in 1..LineAt(g)
      <4>1. l \in Int /\ LineAt(g) \in Int /\ l \in Nat \ {0}
        BY <3>3
      <4>2. l * Pieces \in Nat \ {0}
        <5>1. 0 * Pieces + Pieces <= l * Pieces
          BY <4>1, Multiples
        <5>2. l * Pieces \in Int /\ 0 * Pieces = 0
          BY <1>0, <4>1
        <5> QED BY <1>0, <5>1, <5>2
      <4>3. l * Pieces <= LineAt(g) * Pieces
        <5>1. CASE l = LineAt(g)
          BY <3>2, <3>3, <5>1
        <5>2. CASE l < LineAt(g)
          <6>1. l * Pieces + Pieces <= LineAt(g) * Pieces
            BY <4>1, <5>2, Multiples
          <6>2. l * Pieces + Pieces <= g
            BY <3>3, <6>1
          <6>3. l * Pieces <= g
            BY <1>0, <3>2, <4>2, <6>2
          <6> QED BY <3>3, <6>3
        <5> QED BY <3>3, <5>1, <5>2
      <4>4. l * Pieces <= g
        BY <3>3, <4>3
      <4> QED BY <1>0, <3>2, <4>2, <4>4
    <3>8. base + g <= Len(content)
      BY <1>0, <3>2
    <3> QED BY <3>3, <3>4, <3>5, <3>6, <3>7, <3>8
  <2>2. CASE Ends(chunk) = {}
    <3>1. \A i \in 1..n : PartAt(i) # Pieces
      BY <1>0, <1>1, <2>2 DEF Ends
    <3>2. ~(Pieces <= n)
      <4> SUFFICES ASSUME Pieces <= n PROVE FALSE
        OBVIOUS
      <4>1. Pieces \in 1..n /\ Pieces = 1 * Pieces
        BY <1>0
      <4>2. PartAt(Pieces) = Pieces
        BY <1>0, <4>1, EndPlace
      <4> QED BY <3>1, <4>1, <4>2
    <3>3. MaxPoll \in Nat /\ ~(n >= MaxPoll)
      BY <1>0, <3>2, TailAssumption DEF LinesFit
    <3>4. NextCursor(base, chunk) = base
      BY <2>2, <3>3 DEF NextCursor
    <3>5. base = (m + 0) * Pieces
      OBVIOUS
    <3>6. 0 \in Nat /\ \A l \in 1..0 : FALSE
      OBVIOUS
    <3>7. /\ NextCursor(base, chunk) = (m + 0) * Pieces
          /\ NextCursor(base, chunk) <= Len(content)
      BY <3>4, <3>5
    <3> QED BY <3>1, <3>6, <3>7
  <2> QED BY <2>1, <2>2
<1>5. PICK r : r = Records(f, chunk)
  OBVIOUS
<1>6. PICK p : Listing(r, p, f, chunk, n)
  BY <1>0, <1>5, RecordsListed
<1>7. /\ Len(p) \in Nat /\ Len(r) = Len(p)
      /\ \A k \in 1..Len(p) : p[k] \in 1..n /\ PartAt(p[k]) = Pieces /\ r[k].line = m + LineAt(p[k])
  <2>1. Len(p) \in Nat /\ \A k \in 1..Len(p) : p[k] \in 1..n /\ Parses(chunk, p[k])
    BY <1>6 DEF Listing
  <2> DEFINE rec(i) == Record(f, chunk[i])
  <2> HIDE DEF rec
  <2>2. r = [k \in 1..Len(p) |-> rec(p[k])]
    BY <1>6 DEF Listing, rec
  <2>3. Len(r) = Len(p) /\ \A k \in 1..Len(p) : r[k] = rec(p[k])
    BY <2>1, <2>2
  <2>4. \A i \in 1..n : rec(i).line = m + LineAt(i)
    BY <1>3 DEF rec, Record
  <2> QED BY <1>2, <2>1, <2>3, <2>4
<1>8. ASSUME NEW k \in 1..Len(r) PROVE r[k].line \in (m + 1)..(m + q)
  <2>1. LineAt(p[k]) \in 1..q /\ r[k].line = m + LineAt(p[k])
    BY <1>4, <1>7, <1>8
  <2> QED BY <2>1
<1>9. ASSUME NEW line \in (m + 1)..(m + q) PROVE \E k \in 1..Len(r) : r[k].line = line
  <2>1. PICK l \in 1..q : line = m + l
    <3>1. line - m \in 1..q /\ line = m + (line - m)
      BY <1>9
    <3> QED BY <3>1
  <2>2. l * Pieces \in 1..n /\ l \in Nat \ {0}
    <3>1. l * Pieces \in 1..n
      BY <1>4, <2>1, Zenon
    <3>2. l \in Nat \ {0}
      OBVIOUS
    <3> QED BY <3>1, <3>2, Zenon
  <2>3. PartAt(l * Pieces) = Pieces /\ LineAt(l * Pieces) = l
    <3>1. l - 1 \in Nat /\ Pieces \in 1..Pieces /\ (l - 1) * Pieces + Pieces = l * Pieces
      BY <1>0, <2>2
    <3>2. LineAt((l - 1) * Pieces + Pieces) = l - 1 + 1 /\ PartAt((l - 1) * Pieces + Pieces) = Pieces
      BY <3>1, PlaceAt
    <3> QED BY <2>2, <3>1, <3>2
  <2>4. Parses(chunk, l * Pieces)
    BY <1>2, <2>2, <2>3
  <2>5. PICK k \in 1..Len(p) : p[k] = l * Pieces
    BY <1>6, <2>2, <2>4 DEF Listing
  <2>6. r[k].line = m + l /\ k \in 1..Len(r)
    BY <1>7, <2>3, <2>5
  <2> QED BY <2>1, <2>6
<1>10. ASSUME NEW j \in 1..Len(r), NEW k \in 1..Len(r), j < k PROVE r[j].line < r[k].line
  <2>1. j \in 1..Len(p) /\ k \in 1..Len(p) /\ p[j] < p[k]
    BY <1>6, <1>7, <1>10 DEF Listing
  <2>2. p[j] \in Nat \ {0} /\ p[k] \in Nat \ {0} /\ PartAt(p[j]) = Pieces /\ PartAt(p[k]) = Pieces
    BY <1>0, <1>7, <2>1
  <2>3. LineAt(p[j]) < LineAt(p[k])
    BY <2>1, <2>2, EndOrder
  <2>4. LineAt(p[j]) \in Nat /\ LineAt(p[k]) \in Nat
    BY <2>2, PlaceParts
  <2> QED BY <1>7, <2>1, <2>3, <2>4
<1>11. Continues(r, m, q)
  BY <1>8, <1>9, <1>10 DEF Continues
<1> QED BY <1>4, <1>5, <1>11

-----------------------------------------------------------------------------
\* What is given of a file follows its cursor.

\* Nothing more was given of this edition of the file.
Unspoken(f) == Given(f)' = Given(f) /\ \A i \in Given(f) : out'[i].line = out[i].line

LEMMA GivenStays ==
  ASSUME NEW f, out' = out, edition'[f] = edition[f]
  PROVE  Given(f)' = Given(f) /\ Unspoken(f)
BY DEF Given, Unspoken

LEMMA FedStays ==
  ASSUME NEW f, Unspoken(f), tails'[f] = tails[f], tails[f] \in Nat,
         Len(text[f]) \in Nat, Len(text'[f]) \in Nat, Len(text[f]) <= Len(text'[f]), Fed(f)
  PROVE  Fed(f)'
<1>1. Given(f)' = Given(f) /\ \A i \in Given(f) : out'[i].line = out[i].line
  BY DEF Unspoken
<1>2. PICK m \in Nat : tails[f] = m * Pieces /\ {out[i].line : i \in Given(f)} = 1..m
  BY DEF Fed
<1>3. tails'[f] = m * Pieces /\ {out'[i].line : i \in Given(f)'} = 1..m
  BY <1>1, <1>2
<1>4. GivesInOrder(f)'
  BY <1>1 DEF Fed, GivesInOrder
<1>5. tails'[f] <= Len(text'[f])
  BY DEF Fed
<1> QED BY <1>3, <1>4, <1>5 DEF Fed

LEMMA FedNew ==
  ASSUME NEW f, Given(f)' = {}, tails'[f] = 0, Len(text'[f]) \in Nat
  PROVE  Fed(f)'
<1>1. 0 = 0 * Pieces /\ {out'[i].line : i \in Given(f)'} = 1..0 /\ 0 \in Nat
  BY PiecesIs
<1>2. GivesInOrder(f)'
  BY DEF GivesInOrder
<1> QED BY <1>1, <1>2 DEF Fed

LEMMA LengthIs ==
  ASSUME Disk, NEW f \in DOMAIN text
  PROVE  Len(text[f]) \in Nat /\ f \in File
BY WritesParts DEF Disk

\* A step that gives nothing of a file, and keeps or extends it, leaves it well.
LEMMA WellKept ==
  ASSUME TypeInv, TypeInv', NEW g \in File, Well(g), Unspoken(g), edition'[g] = edition[g], known'[g] = known[g],
         g \in DOMAIN tails' <=> g \in DOMAIN tails, g \in DOMAIN tails => tails'[g] = tails[g],
         g \in DOMAIN text' <=> g \in DOMAIN text, g \in DOMAIN text => Len(text[g]) <= Len(text'[g])
  PROVE  Well(g)'
<1>1. Given(g)' = Given(g)
  BY DEF Unspoken
<1>2. g \in DOMAIN tails => tails[g] \in Nat
  BY DEF TypeInv, Tails
<1>3. g \in DOMAIN text => Len(text[g]) \in Nat
  BY LengthIs DEF TypeInv
<1>4. g \in DOMAIN text' => Len(text'[g]) \in Nat
  <2>1. Disk'
    BY DEF TypeInv
  <2> QED BY <2>1, WritesParts DEF Disk
<1>5. Current(g)' <=> Current(g)
  BY DEF Current
<1>6. Unnoticed(g)'
  BY <1>1, <1>2, <1>3, <1>4, <1>5 DEF Well, Unnoticed
<1>7. ASSUME Current(g)' PROVE Fed(g)'
  <2>1. Current(g) /\ Fed(g)
    BY <1>5, <1>7 DEF Well
  <2>2. g \in DOMAIN tails /\ g \in DOMAIN text /\ g \in DOMAIN text'
    BY <2>1 DEF Current
  <2> QED BY <1>2, <1>3, <1>4, <2>1, <2>2, FedStays
<1> QED BY <1>6, <1>7 DEF Well

LEMMA WellStays ==
  ASSUME TypeInv, TypeInv', NEW g \in File, Well(g), out' = out, edition'[g] = edition[g], known'[g] = known[g],
         g \in DOMAIN tails' <=> g \in DOMAIN tails, g \in DOMAIN tails => tails'[g] = tails[g],
         g \in DOMAIN text' <=> g \in DOMAIN text, g \in DOMAIN text => Len(text[g]) <= Len(text'[g])
  PROVE  Well(g)'
<1>1. Unspoken(g)
  BY GivenStays
<1> QED BY <1>1, WellKept

LEMMA InitFed == TailInit => Feeding
<1> SUFFICES ASSUME TailInit, start = "Beginning" PROVE Deleted /\ \A f \in File : Well(f)
  BY DEF Feeding
<1>0. Disk
  BY InitTyped DEF TypeInv
<1>1. Deleted
  BY DEF TailInit, Deleted
<1>2. \A f \in File : Given(f) = {}
  <2>1. DOMAIN out = {}
    BY DEF TailInit
  <2> QED BY <2>1 DEF Given
<1>3. tails = [f \in DOMAIN text |-> 0]
  BY DEF TailInit
<1>4. ASSUME NEW f \in File PROVE Well(f)
  <2>1. Unnoticed(f)
    BY <1>2, <1>3 DEF Unnoticed
  <2>2. ASSUME Current(f) PROVE Fed(f)
    <3>1. tails[f] = 0 /\ Len(text[f]) \in Nat
      BY <1>0, <1>3, <2>2, LengthIs DEF Current
    <3>2. 0 = 0 * Pieces /\ {out[i].line : i \in Given(f)} = 1..0 /\ 0 \in Nat
      BY <1>2, PiecesIs
    <3>3. GivesInOrder(f)
      BY <1>2 DEF GivesInOrder
    <3>4. \E m \in Nat : tails[f] = m * Pieces /\ {out[i].line : i \in Given(f)} = 1..m
      <4> WITNESS 0 \in Nat
      <4> QED BY <3>1, <3>2
    <3>5. tails[f] <= Len(text[f])
      BY <3>1
    <3> QED BY <3>3, <3>4, <3>5, Zenon DEF Fed
  <2> QED BY <2>1, <2>2 DEF Well
<1> QED BY <1>1, <1>4

LEMMA AppendsFed ==
  ASSUME TailInv, TypeInv', start = "Beginning", NEW f \in File, Appends(f)
  PROVE  Deleted' /\ \A g \in File : Well(g)'
<1>0. TypeInv /\ Disk /\ Tails /\ Deleted /\ \A g \in File : Well(g)
  BY DEF TailInv, TypeInv, Feeding
<1>1. UNCHANGED <<edition, start, tails, known, todo, measured, held, out, behind>>
  BY DEF Appends
<1>2. /\ DOMAIN text' = DOMAIN text \cup {f} /\ Len(text'[f]) = Len(Content(f)) + 1
      /\ \A g \in DOMAIN text : g # f => text'[g] = text[g]
  BY <1>0, AppendsDisk
<1>3. Deleted'
  <2>1. Turn' = Turn
    BY <1>1, TurnStays
  <2>2. Given(Turn)' = Given(Turn)
    BY <1>1, <2>1 DEF Given
  <2> QED BY <1>0, <1>1, <2>1, <2>2 DEF Deleted
<1>4. ASSUME NEW g \in File PROVE Well(g)'
  <2>1. CASE g # f \/ f \in DOMAIN text
    <3>1. g \in DOMAIN text' <=> g \in DOMAIN text
      BY <1>2, <2>1
    <3>2. g \in DOMAIN text => Len(text[g]) <= Len(text'[g])
      <4> SUFFICES ASSUME g \in DOMAIN text PROVE Len(text[g]) <= Len(text'[g])
        OBVIOUS
      <4>1. Len(text[g]) \in Nat
        BY <1>0, LengthIs
      <4>2. CASE g = f
        <5>1. Content(f) = text[f]
          BY <4>2 DEF Content
        <5>2. Len(text'[f]) = Len(text[f]) + 1 /\ Len(text[f]) \in Nat
          BY <1>2, <4>1, <4>2, <5>1
        <5>3. Len(text[f]) <= Len(text'[f])
          BY <5>2
        <5> QED BY <4>2, <5>3
      <4>3. CASE g # f
        BY <1>2, <4>1, <4>3
      <4> QED BY <4>2, <4>3
    <3> QED BY <1>0, <1>1, <3>1, <3>2, WellStays
  <2>2. CASE g = f /\ f \notin DOMAIN text
    <3>1. Given(f)' = {}
      <4>1. Given(f) = {}
        BY <1>0, <2>2 DEF Well, Unnoticed
      <4> QED BY <1>1, <4>1, GivenStays
    <3>2. ~Current(f)'
      BY <1>0, <1>1, <2>2 DEF Well, Unnoticed, Current, Tails, Disk
    <3>3. Unnoticed(f)'
      BY <1>2, <3>1 DEF Unnoticed
    <3> QED BY <2>2, <3>2, <3>3 DEF Well
  <2> QED BY <2>1, <2>2
<1> QED BY <1>3, <1>4

LEMMA RewrittenFed ==
  ASSUME TailInv, TypeInv', start = "Beginning", NEW f \in File, Truncate(f) \/ Unlink(f)
  PROVE  Deleted' /\ \A g \in File : Well(g)'
<1>0. TypeInv /\ Disk /\ Tails /\ Bus /\ Polling /\ Deleted /\ \A g \in File : Well(g)
  BY DEF TailInv, TypeInv, Feeding
<1>1. /\ Rewritten(f)
      /\ edition'[f] = edition[f] + 1 /\ \A g \in File : g # f => edition'[g] = edition[g]
      /\ \A g \in File : g # f => (g \in DOMAIN text' <=> g \in DOMAIN text)
      /\ \A g \in DOMAIN text' : g # f => text'[g] = text[g]
  BY <1>0, RewrittenIs
<1>2. UNCHANGED <<start, tails, known, todo, measured, out, behind>> /\ Turn' = Turn /\ f \in DOMAIN text
  BY <1>1, TurnStays DEF Rewritten
<1>3. \A g \in File : edition[g] \in Nat /\ known[g] \in Nat /\ known[g] <= edition[g]
  BY <1>0 DEF Disk, Tails
<1>4. Given(f)' = {} /\ known[f] < edition'[f]
  <2>1. known[f] < edition'[f]
    BY <1>1, <1>3
  <2>2. ASSUME NEW i \in DOMAIN out, out[i].file = f PROVE out[i].edition # edition'[f]
    <3>1. out[i].edition <= edition[f]
      BY <1>0, <2>2 DEF Bus
    <3>2. out[i] \in Entry
      BY <1>0 DEF Bus
    <3>3. out[i].edition \in Nat
      BY <3>2 DEF Entry
    <3> QED BY <1>1, <1>3, <3>1, <3>3
  <2> QED BY <1>2, <2>1, <2>2 DEF Given
<1>5. Well(f)'
  <2>1. ~Current(f)'
    BY <1>2, <1>3, <1>4 DEF Current
  <2>2. Unnoticed(f)'
    BY <1>2, <1>4 DEF Unnoticed
  <2> QED BY <2>1, <2>2 DEF Well
<1>6. ASSUME NEW g \in File, g # f PROVE Well(g)'
  <2>1. g \in DOMAIN text => Len(text[g]) <= Len(text'[g])
    <3> SUFFICES ASSUME g \in DOMAIN text PROVE Len(text[g]) <= Len(text'[g])
      OBVIOUS
    <3>1. Len(text[g]) \in Nat
      BY <1>0, LengthIs
    <3> QED BY <1>1, <1>6, <3>1
  <2>2. edition'[g] = edition[g] /\ (g \in DOMAIN text' <=> g \in DOMAIN text)
    BY <1>1, <1>6
  <2> QED BY <1>0, <1>2, <2>1, <2>2, WellStays
<1>7. Deleted'
  <2> SUFFICES ASSUME held' # {} PROVE Given(Turn)' = {} /\ known'[Turn'] < edition'[Turn']
    BY DEF Deleted
  <2>1. CASE Turn = f
    BY <1>2, <1>4, <2>1
  <2>2. CASE Turn # f
    <3>1. held' = held
      BY <2>2 DEF Truncate, Unlink
    <3>2. measured # Unmeasured
      BY <1>0, <3>1 DEF Polling
    <3>3. Turn \in File
      BY <1>0, <3>2, TodoParts DEF Polling
    <3>4. edition'[Turn] = edition[Turn]
      BY <1>1, <2>2, <3>3
    <3>5. Given(Turn)' = Given(Turn)
      BY <1>2, <3>4 DEF Given
    <3> QED BY <1>0, <1>2, <3>1, <3>4, <3>5 DEF Deleted
  <2> QED BY <2>1, <2>2
<1> QED BY <1>5, <1>6, <1>7

LEMMA StartPollFed ==
  ASSUME TailInv, TypeInv', start = "Beginning", StartPoll
  PROVE  Deleted' /\ \A g \in File : Well(g)'
<1>0. TypeInv /\ Disk /\ Tails /\ Polling /\ Deleted /\ \A g \in File : Well(g)
  BY DEF TailInv, TypeInv, Feeding
<1>1. UNCHANGED <<text, edition, start, measured, held, out, behind>> /\ todo = {}
  BY DEF StartPoll
<1>2. /\ tails' = [f \in DOMAIN tails \cup DOMAIN text |-> IF f \in DOMAIN tails THEN tails[f] ELSE 0]
      /\ known' = [f \in File |-> IF f \in DOMAIN tails THEN known[f] ELSE edition[f]]
  BY DEF StartPoll
<1>3. Deleted'
  <2>1. held' = {}
    BY <1>0, <1>1 DEF Polling
  <2> QED BY <2>1 DEF Deleted
<1>4. ASSUME NEW g \in File PROVE Well(g)'
  <2>1. CASE g \in DOMAIN tails \/ g \notin DOMAIN text
    <3>1. (g \in DOMAIN tails' <=> g \in DOMAIN tails) /\ (g \in DOMAIN tails => tails'[g] = tails[g])
      BY <1>2, <2>1
    <3>2. CASE g \in DOMAIN tails
      <4>1. known'[g] = known[g]
        BY <1>2, <3>2
      <4>2. g \in DOMAIN text => Len(text[g]) <= Len(text'[g])
        <5>1. g \in DOMAIN text => Len(text[g]) \in Nat
          BY <1>0, LengthIs
        <5> QED BY <1>1, <5>1
      <4> QED BY <1>0, <1>1, <3>1, <4>1, <4>2, WellStays
    <3>3. CASE g \notin DOMAIN tails
      <4>1. Given(g)' = {}
        <5>1. Given(g) = {}
          BY <1>0, <3>3 DEF Well, Unnoticed
        <5> QED BY <1>1, <5>1, GivenStays
      <4>2. g \notin DOMAIN tails'
        BY <3>1, <3>3
      <4>3. ~Current(g)' /\ Unnoticed(g)'
        BY <4>1, <4>2 DEF Current, Unnoticed
      <4> QED BY <4>3 DEF Well
    <3> QED BY <3>2, <3>3
  <2>2. CASE g \notin DOMAIN tails /\ g \in DOMAIN text
    <3>1. Given(g)' = {}
      <4>1. Given(g) = {}
        BY <1>0, <2>2 DEF Well, Unnoticed
      <4> QED BY <1>1, <4>1, GivenStays
    <3>2. tails'[g] = 0
      BY <1>2, <2>2
    <3>3. Len(text'[g]) \in Nat /\ g \in DOMAIN text'
      BY <1>0, <1>1, <2>2, LengthIs
    <3>4. Fed(g)'
      BY <3>1, <3>2, <3>3, FedNew
    <3>5. Unnoticed(g)'
      BY <3>1, <3>3 DEF Unnoticed
    <3> QED BY <3>4, <3>5 DEF Well
  <2> QED BY <2>1, <2>2
<1> QED BY <1>3, <1>4

LEMMA VanishedFed ==
  ASSUME TailInv, TypeInv', start = "Beginning", VanishedTurn
  PROVE  Deleted' /\ \A g \in File : Well(g)'
<1>0. TypeInv /\ Disk /\ Tails /\ Polling /\ Deleted /\ \A g \in File : Well(g)
  BY DEF TailInv, TypeInv, Feeding
<1>1. /\ UNCHANGED <<text, edition, start, known, out, behind>> /\ Turn \notin DOMAIN text
      /\ tails' = [g \in DOMAIN tails \ {Turn} |-> tails[g]] /\ held' = {}
  BY DEF VanishedTurn, Vanished, Advance
<1>2. Deleted'
  BY <1>1 DEF Deleted
<1>3. ASSUME NEW g \in File PROVE Well(g)'
  <2>1. CASE g = Turn
    <3>1. Given(g)' = {}
      <4>1. Given(g) = {}
        BY <1>0, <1>1, <2>1 DEF Well, Unnoticed
      <4> QED BY <1>1, <4>1, GivenStays
    <3>2. g \notin DOMAIN tails'
      BY <1>1, <2>1
    <3>3. ~Current(g)' /\ Unnoticed(g)'
      BY <3>1, <3>2 DEF Current, Unnoticed
    <3> QED BY <3>3 DEF Well
  <2>2. CASE g # Turn
    <3>1. (g \in DOMAIN tails' <=> g \in DOMAIN tails) /\ (g \in DOMAIN tails => tails'[g] = tails[g])
      BY <1>1, <2>2
    <3>2. g \in DOMAIN text => Len(text[g]) <= Len(text'[g])
      <4>1. g \in DOMAIN text => Len(text[g]) \in Nat
        BY <1>0, LengthIs
      <4> QED BY <1>1, <4>1
    <3> QED BY <1>0, <1>1, <3>1, <3>2, WellStays
  <2> QED BY <2>1, <2>2
<1> QED BY <1>2, <1>3

LEMMA MeasureFed ==
  ASSUME TailInv, TypeInv', start = "Beginning", MeasureTurn
  PROVE  Deleted' /\ \A g \in File : Well(g)'
<1>0. TypeInv /\ Disk /\ Tails /\ Polling /\ Deleted /\ \A g \in File : Well(g)
  BY DEF TailInv, TypeInv, Feeding
<1>a. PICK f \in File : f = Turn /\ f \in DOMAIN tails
  BY <1>0, TodoParts DEF MeasureTurn
<1>1. /\ UNCHANGED <<text, edition, start, todo, held, out, behind>> /\ f \in DOMAIN text
      /\ measured' = Len(text[f]) /\ measured = Unmeasured
      /\ tails' = [tails EXCEPT ![f] = IF measured' < @ THEN 0 ELSE @]
      /\ known' = IF measured' < tails[f] THEN [known EXCEPT ![f] = edition[f]] ELSE known
  BY <1>a DEF MeasureTurn, Measure
<1>2. Deleted'
  <2>1. held' = {}
    BY <1>0, <1>1 DEF Polling
  <2> QED BY <2>1 DEF Deleted
<1>3. /\ tails = [g \in DOMAIN tails |-> tails[g]] /\ known \in [File -> 0..Rewrites]
      /\ tails[f] \in Nat /\ Len(text[f]) \in Nat
  BY <1>0, <1>1, <1>a, LengthIs DEF Tails
<1>4. \A g \in DOMAIN text : Len(text[g]) <= Len(text'[g])
  <2>1. \A g \in DOMAIN text : Len(text[g]) \in Nat
    BY <1>0, LengthIs
  <2> QED BY <1>1, <2>1
<1>5. CASE ~(Len(text[f]) < tails[f])
  <2>1. known' = known /\ tails' = tails
    <3>1. PICK n : n = tails[f]
      OBVIOUS
    <3>2. tails' = [tails EXCEPT ![f] = n]
      BY <1>1, <1>5, <3>1
    <3>3. tails' = tails
      BY <1>3, <1>a, <3>1, <3>2
    <3> QED BY <1>1, <1>5, <3>3
  <2>2. \A g \in File : Well(g)'
    <3> TAKE g \in File
    <3> QED BY <1>0, <1>1, <1>4, <2>1, WellStays
  <2> QED BY <1>2, <2>2
<1>6. CASE Len(text[f]) < tails[f]
  <2>1. tails' = [tails EXCEPT ![f] = 0] /\ known' = [known EXCEPT ![f] = edition[f]]
    BY <1>1, <1>6
  <2>2. DOMAIN tails' = DOMAIN tails /\ tails'[f] = 0 /\ \A g \in DOMAIN tails : g # f => tails'[g] = tails[g]
    BY <1>3, <1>a, <2>1
  <2>3. \A g \in File : g # f => known'[g] = known[g]
    BY <1>3, <2>1
  <2>4. Given(f) = {}
    <3> SUFFICES ASSUME Given(f) # {} PROVE FALSE
      OBVIOUS
    <3>1. tails[f] <= Len(text[f])
      BY <1>0 DEF Well, Unnoticed, Fed
    <3> QED BY <1>3, <1>6, <3>1
  <2>5. Given(f)' = {}
    BY <1>1, <2>4, GivenStays
  <2>6. Well(f)'
    <3>1. Fed(f)'
      BY <1>1, <1>3, <2>2, <2>5, FedNew
    <3>2. Unnoticed(f)'
      BY <1>1, <2>5 DEF Unnoticed
    <3> QED BY <3>1, <3>2 DEF Well
  <2>7. ASSUME NEW g \in File, g # f PROVE Well(g)'
    <3>1. (g \in DOMAIN tails' <=> g \in DOMAIN tails) /\ (g \in DOMAIN tails => tails'[g] = tails[g])
          /\ known'[g] = known[g]
      BY <2>2, <2>3, <2>7
    <3> QED BY <1>0, <1>1, <1>4, <3>1, WellStays
  <2> QED BY <1>2, <2>6, <2>7
<1> QED BY <1>5, <1>6

\* What a read adds to the bus: the records r of the edition of a file that is on disk.
LEMMA ReadGives ==
  ASSUME TypeInv, ReadTurn, NEW content, NEW chunk, Reading(Turn, content, chunk), NEW r, r = Records(Turn, chunk)
  PROVE  /\ out' = out \o r /\ out \in Seq(Entry) /\ r \in Seq(Entry) /\ Len(out') = Len(out) + Len(r)
         /\ \A i \in 1..Len(out) : out'[i] = out[i]
         /\ \A k \in 1..Len(r) : out'[Len(out) + k] = r[k] /\ r[k].file = Turn
         /\ \A i \in DOMAIN out' : i \in 1..Len(out) \/ \E k \in 1..Len(r) : i = Len(out) + k
         /\ DOMAIN out = 1..Len(out) /\ DOMAIN out' = 1..Len(out')
<1>1. out' = out \o r /\ out \in Seq(Entry)
  BY DEF Reading, TypeInv, Bus
<1>2. r \in Seq(Entry) /\ \A k \in 1..Len(r) : r[k].file = Turn
  BY RecordsEdition
<1>3. /\ out' \in Seq(Entry) /\ Len(out') = Len(out) + Len(r)
      /\ \A i \in 1..Len(out) : out'[i] = out[i]
      /\ \A k \in 1..Len(r) : out'[Len(out) + k] = r[k]
      /\ \A i \in 1..(Len(out) + Len(r)) : i \in 1..Len(out) \/ \E k \in 1..Len(r) : i = Len(out) + k
  BY <1>1, <1>2, Joined
<1>4. DOMAIN out = 1..Len(out) /\ DOMAIN out' = 1..Len(out')
  BY <1>1, <1>3
<1> QED BY <1>1, <1>2, <1>3, <1>4

\* A read gives nothing of the present edition of another file, or of one deleted meanwhile.
LEMMA ReadElsewhere ==
  ASSUME TypeInv, ReadTurn, NEW content, NEW chunk, Reading(Turn, content, chunk),
         NEW g \in File, g # Turn \/ held # {}
  PROVE  Unspoken(g)
<1>0. PICK r : r = Records(Turn, chunk)
  OBVIOUS
<1>1. /\ \A i \in 1..Len(out) : out'[i] = out[i]
      /\ \A k \in 1..Len(r) : out'[Len(out) + k] = r[k] /\ r[k].file = Turn
      /\ \A i \in DOMAIN out' : i \in 1..Len(out) \/ \E k \in 1..Len(r) : i = Len(out) + k
      /\ DOMAIN out = 1..Len(out) /\ DOMAIN out' = 1..Len(out') /\ Len(out') = Len(out) + Len(r)
      /\ Len(out) \in Nat /\ Len(r) \in Nat
  BY <1>0, ReadGives
<1>2. edition' = edition /\ edition[Turn] \in Nat
  <2>1. edition' = edition /\ edition \in [File -> 0..Rewrites]
    BY DEF Reading, TypeInv, Disk
  <2>2. Turn \in File
    BY ReadParts
  <2> QED BY <2>1, <2>2
<1>3. \A k \in 1..Len(r) : r[k].file # g \/ r[k].edition # edition[g]
  <2> SUFFICES ASSUME NEW k \in 1..Len(r), g = Turn PROVE r[k].edition # edition[g]
    BY <1>1
  <2>1. r[k].edition < edition[Turn] /\ r \in Seq(Entry)
    BY <1>0, RecordsEdition
  <2>2. r[k] \in Entry
    BY <2>1
  <2>3. r[k].edition \in Nat
    BY <2>2 DEF Entry
  <2> QED BY <1>2, <2>1, <2>3
<1>4. \A i \in DOMAIN out' : out'[i].file = g /\ out'[i].edition = edition[g] => i \in DOMAIN out
  BY <1>1, <1>3
<1>5. DOMAIN out \subseteq DOMAIN out' /\ \A i \in DOMAIN out : out'[i] = out[i]
  BY <1>1
<1>6. Given(g)' = Given(g)
  BY <1>2, <1>4, <1>5 DEF Given
<1>7. \A i \in Given(g) : out'[i].line = out[i].line
  BY <1>5 DEF Given
<1> QED BY <1>6, <1>7 DEF Unspoken

LEMMA ReadHere ==
  ASSUME TypeInv, ReadTurn, NEW content, NEW chunk, Reading(Turn, content, chunk), held = {},
         NEW r, r = Records(Turn, chunk), NEW f, f = Turn
  PROVE  /\ Given(f)' = Given(f) \cup {Len(out) + k : k \in 1..Len(r)}
         /\ Given(f) \subseteq 1..Len(out) /\ Len(out) \in Nat /\ Len(r) \in Nat
         /\ \A i \in Given(f) : out'[i] = out[i]
         /\ \A k \in 1..Len(r) : out'[Len(out) + k] = r[k]
<1>1. /\ \A i \in 1..Len(out) : out'[i] = out[i]
      /\ \A k \in 1..Len(r) : out'[Len(out) + k] = r[k] /\ r[k].file = Turn
      /\ \A i \in DOMAIN out' : i \in 1..Len(out) \/ \E k \in 1..Len(r) : i = Len(out) + k
      /\ DOMAIN out = 1..Len(out) /\ DOMAIN out' = 1..Len(out') /\ Len(out') = Len(out) + Len(r)
      /\ Len(out) \in Nat /\ Len(r) \in Nat
  BY ReadGives
<1>2. edition' = edition /\ \A k \in 1..Len(r) : r[k].edition = edition[Turn]
  BY RecordsEdition DEF Reading
<1>3. Given(f)' = {i \in DOMAIN out' : out'[i].file = f /\ out'[i].edition = edition[f]}
  BY <1>2 DEF Given
<1>4. Given(f)' = Given(f) \cup {Len(out) + k : k \in 1..Len(r)}
  <2>1. \A i \in DOMAIN out : i \in DOMAIN out' /\ out'[i] = out[i]
    BY <1>1
  <2>2. \A k \in 1..Len(r) : Len(out) + k \in DOMAIN out' /\ out'[Len(out) + k].file = f
                            /\ out'[Len(out) + k].edition = edition[f]
    BY <1>1, <1>2
  <2>3. \A i \in DOMAIN out' : i \in DOMAIN out \/ \E k \in 1..Len(r) : i = Len(out) + k
    BY <1>1
  <2> QED BY <1>3, <2>1, <2>2, <2>3 DEF Given
<1> QED BY <1>1, <1>4 DEF Given

\* A read of the file continues where the lines given before end.
LEMMA ReadContinues ==
  ASSUME LinesFit, TypeInv, ReadTurn, NEW content, NEW chunk, Reading(Turn, content, chunk), held = {},
         NEW f, f = Turn, Current(f), Fed(f)
  PROVE  Fed(f)'
<1>1. PICK m \in Nat : tails[f] = m * Pieces /\ {out[i].line : i \in Given(f)} = 1..m
  BY DEF Fed
<1>2. /\ f \in File /\ ChunkOf(content, tails[f], chunk) /\ content = text[f] /\ Writes(content, edition[f])
      /\ tails'[f] = NextCursor(tails[f], chunk) /\ tails[f] <= Len(content)
  BY ReadParts DEF Fed
<1>3. PICK r : r = Records(f, chunk)
  OBVIOUS
<1>4. PICK q \in Nat : /\ NextCursor(m * Pieces, chunk) = (m + q) * Pieces
                      /\ NextCursor(m * Pieces, chunk) <= Len(content)
                      /\ Continues(r, m, q)
  <2>1. ChunkOf(content, m * Pieces, chunk) /\ m * Pieces <= Len(content)
    BY <1>1, <1>2, Zenon
  <2>2. \E q \in Nat :
          /\ NextCursor(m * Pieces, chunk) = (m + q) * Pieces
          /\ NextCursor(m * Pieces, chunk) <= Len(content)
          /\ Continues(Records(f, chunk), m, q)
    BY <1>2, <2>1, ReadsLines
  <2> QED BY <1>3, <2>2, Zenon
<1>5. /\ Given(f)' = Given(f) \cup {Len(out) + k : k \in 1..Len(r)}
      /\ Given(f) \subseteq 1..Len(out) /\ Len(out) \in Nat /\ Len(r) \in Nat
      /\ \A i \in Given(f) : out'[i] = out[i]
      /\ \A k \in 1..Len(r) : out'[Len(out) + k] = r[k]
  BY <1>3, ReadHere
<1>6. \A k \in 1..Len(r) : r[k].line \in (m + 1)..(m + q)
  BY <1>4 DEF Continues
<1>7. \A i \in Given(f) : out[i].line \in 1..m
  BY <1>1
<1>8. {out'[i].line : i \in Given(f)'} = 1..(m + q)
  <2>1. ASSUME NEW i \in Given(f)' PROVE out'[i].line \in 1..(m + q)
    <3>1. CASE i \in Given(f)
      BY <1>5, <1>7, <3>1
    <3>2. ASSUME NEW k \in 1..Len(r), i = Len(out) + k PROVE out'[i].line \in 1..(m + q)
      BY <1>5, <1>6, <3>2
    <3> QED BY <1>5, <3>1, <3>2
  <2>2. ASSUME NEW line \in 1..(m + q) PROVE \E i \in Given(f)' : out'[i].line = line
    <3>1. CASE line \in 1..m
      <4>1. PICK i \in Given(f) : out[i].line = line
        BY <1>1, <3>1
      <4> QED BY <1>5, <4>1
    <3>2. CASE line \notin 1..m
      <4>1. line \in (m + 1)..(m + q)
        BY <3>2
      <4>2. PICK k \in 1..Len(r) : r[k].line = line
        BY <1>4, <4>1 DEF Continues
      <4> QED BY <1>5, <4>2
    <3> QED BY <3>1, <3>2
  <2> QED BY <2>1, <2>2
<1>9. GivesInOrder(f)'
  <2> SUFFICES ASSUME NEW i \in Given(f)', NEW j \in Given(f)', i < j PROVE out'[i].line < out'[j].line
    BY DEF GivesInOrder
  <2>1. (i \in Given(f) \/ \E k \in 1..Len(r) : i = Len(out) + k)
        /\ (j \in Given(f) \/ \E k \in 1..Len(r) : j = Len(out) + k)
    BY <1>5
  <2>2. CASE i \in Given(f) /\ j \in Given(f)
    <3>1. out[i].line < out[j].line
      BY <2>2 DEF Fed, GivesInOrder
    <3> QED BY <1>5, <2>2, <3>1
  <2>3. ASSUME i \in Given(f), NEW k \in 1..Len(r), j = Len(out) + k PROVE out'[i].line < out'[j].line
    <3>1. out'[i].line \in 1..m /\ out'[j].line \in (m + 1)..(m + q)
      BY <1>5, <1>6, <1>7, <2>3
    <3> QED BY <3>1
  <2>4. ASSUME NEW k \in 1..Len(r), i = Len(out) + k, j \in Given(f) PROVE FALSE
    BY <1>5, <2>4
  <2>5. ASSUME NEW k \in 1..Len(r), i = Len(out) + k, NEW l \in 1..Len(r), j = Len(out) + l
        PROVE  out'[i].line < out'[j].line
    <3>1. k < l
      BY <1>5, <2>5
    <3>2. r[k].line < r[l].line
      BY <1>4, <3>1 DEF Continues
    <3> QED BY <1>5, <2>5, <3>2
  <2> QED BY <2>1, <2>2, <2>3, <2>4, <2>5
<1>10. tails'[f] = (m + q) * Pieces /\ tails'[f] <= Len(text'[f])
  <2>1. text' = text
    BY DEF Reading
  <2> QED BY <1>1, <1>2, <1>4, <2>1
<1>11. m + q \in Nat
  OBVIOUS
<1> QED BY <1>8, <1>9, <1>10, <1>11 DEF Fed

LEMMA ReadFed ==
  ASSUME LinesFit, TailInv, TypeInv', start = "Beginning", ReadTurn
  PROVE  Deleted' /\ \A g \in File : Well(g)'
<1>0. TypeInv /\ Disk /\ Tails /\ Polling /\ Deleted /\ \A g \in File : Well(g)
  BY DEF TailInv, TypeInv, Feeding
<1>1. PICK content, chunk : Reading(Turn, content, chunk)
  BY ReadIs DEF ReadTurn
<1>2. UNCHANGED <<text, edition, start, known>> /\ held' = {}
  BY <1>1 DEF Reading, Advance
<1>3. Deleted'
  BY <1>2 DEF Deleted
<1>4. DOMAIN tails' = DOMAIN tails /\ \A g \in DOMAIN tails : g # Turn => tails'[g] = tails[g]
  BY <1>0, <1>1, ReadParts
<1>5. \A g \in DOMAIN text : Len(text[g]) <= Len(text'[g])
  <2>1. \A g \in DOMAIN text : Len(text[g]) \in Nat
    BY <1>0, LengthIs
  <2> QED BY <1>2, <2>1
<1>6. ASSUME NEW g \in File, g # Turn PROVE Well(g)'
  <2>1. Unspoken(g)
    BY <1>0, <1>1, <1>6, ReadElsewhere
  <2> QED BY <1>0, <1>2, <1>4, <1>5, <1>6, <2>1, WellKept
<1>7. PICK f : f = Turn
  OBVIOUS
<1>8. f \in File /\ f \in DOMAIN tails
  BY <1>0, <1>1, <1>7, ReadParts
<1>9. Current(f)' <=> Current(f)
  BY <1>2, <1>4 DEF Current
<1>10. CASE held # {}
  <2>1. Given(f) = {} /\ known[f] < edition[f] /\ known[f] \in Int
    BY <1>0, <1>7, <1>8, <1>10 DEF Deleted, Tails
  <2>2. Given(f)' = {}
    <3>1. Unspoken(f)
      BY <1>0, <1>1, <1>8, <1>10, ReadElsewhere
    <3> QED BY <2>1, <3>1 DEF Unspoken
  <2>3. ~Current(f)
    BY <1>0, <1>8, <2>1 DEF Current, Disk
  <2>4. Unnoticed(f)'
    BY <1>2, <2>1, <2>2 DEF Unnoticed
  <2>5. Well(f)'
    BY <1>9, <2>3, <2>4 DEF Well
  <2> QED BY <1>3, <1>6, <1>7, <2>5
<1>11. CASE held = {}
  <2>1. /\ f \in DOMAIN text /\ content = text[f] /\ ChunkOf(content, tails[f], chunk)
        /\ tails'[f] = NextCursor(tails[f], chunk)
        /\ NextCursor(tails[f], chunk) \in tails[f]..(tails[f] + Len(chunk)) /\ tails[f] \in Nat
    BY <1>0, <1>1, <1>7, <1>11, ReadParts
  <2>2. Len(text[f]) \in Nat /\ Len(chunk) \in Nat
    BY <1>0, <2>1, LengthIs DEF ChunkOf
  <2>3. ASSUME Given(f)' # {}, ~Current(f) PROVE tails'[f] <= Len(text[f])
    <3>1. CASE Given(f) # {}
      <4>1. tails[f] <= Len(text[f])
        BY <1>0, <1>8, <2>3, <3>1 DEF Well, Unnoticed
      <4> QED BY <2>1, <2>2, <4>1 DEF ChunkOf
    <3>2. CASE Given(f) = {}
      <4>1. PICK r : r = Records(Turn, chunk)
        OBVIOUS
      <4>2. Given(f)' = Given(f) \cup {Len(out) + k : k \in 1..Len(r)}
        BY <1>0, <1>1, <1>7, <1>11, <4>1, ReadHere
      <4>3. r # <<>>
        BY <2>3, <3>2, <4>2
      <4>4. Len(chunk) # 0
        BY <1>0, <1>1, <4>1, <4>3, RecordsEdition
      <4> QED BY <2>1, <2>2, <4>4 DEF ChunkOf
    <3> QED BY <3>1, <3>2
  <2>4. Unnoticed(f)'
    BY <1>2, <1>4, <1>8, <1>9, <2>1, <2>3 DEF Unnoticed
  <2>5. ASSUME Current(f)' PROVE Fed(f)'
    <3>1. Current(f) /\ Fed(f)
      BY <1>0, <1>8, <1>9, <2>5 DEF Well
    <3> QED BY <1>0, <1>1, <1>7, <1>11, <3>1, ReadContinues
  <2>6. Well(f)'
    BY <2>4, <2>5 DEF Well
  <2> QED BY <1>3, <1>6, <1>7, <2>6
<1> QED BY <1>10, <1>11

LEMMA TailStep == LinesFit /\ TailInv /\ [TailNext]_tailVars => TailInv'
<1> SUFFICES ASSUME LinesFit, TailInv, [TailNext]_tailVars PROVE TailInv'
  OBVIOUS
<1>1. TypeInv'
  BY TypeStep DEF TailInv
<1>2. ASSUME start = "Beginning" PROVE Deleted' /\ \A f \in File : Well(f)'
  <2>1. CASE \E f \in File : Appends(f) \/ Truncate(f) \/ Unlink(f)
    BY <1>1, <1>2, <2>1, AppendsFed, RewrittenFed
  <2>2. CASE StartPoll \/ VanishedTurn \/ MeasureTurn \/ ReadTurn
    BY <1>1, <1>2, <2>2, StartPollFed, VanishedFed, MeasureFed, ReadFed
  <2>3. CASE UNCHANGED tailVars
    <3>1. Deleted /\ \A f \in File : Well(f)
      BY <1>2 DEF TailInv, Feeding
    <3>2. UNCHANGED <<text, edition, tails, known, todo, measured, held, out>> /\ Turn' = Turn
      BY <2>3, TurnStays DEF tailVars
    <3>3. Deleted'
      BY <3>1, <3>2 DEF Deleted, Given
    <3>4. ASSUME NEW f \in File PROVE Well(f)'
      BY <3>1, <3>2 DEF Well, Unnoticed, Current, Fed, Given, GivesInOrder
    <3> QED BY <3>3, <3>4
  <2> QED BY <2>1, <2>2, <2>3, TailCases
<1>3. start' = start
  BY TailCases DEF Appends, Truncate, Unlink, StartPoll, VanishedTurn, MeasureTurn, ReadTurn,
                   Vanished, Measure, Read, tailVars
<1>4. Feeding'
  BY <1>2, <1>3 DEF Feeding
<1> QED BY <1>1, <1>4 DEF TailInv

\* The lines up to the cursor, when it stands at the end of a line.
LEMMA PassedIs ==
  ASSUME Disk, NEW f \in DOMAIN text, NEW m \in Nat, tails[f] = m * Pieces, tails[f] <= Len(text[f])
  PROVE  Passed(f) = 1..m
<1> DEFINE c == text[f]
<1>1. Writes(c, edition[f]) /\ Len(c) \in Nat
  BY LengthIs DEF Disk
<1>2. Ends(c) = {i \in 1..Len(c) : PartAt(i) = Pieces}
  BY <1>1, EndsIn
<1>3. \A i \in 1..Len(c) : c[i].line = LineAt(i)
  <2> TAKE i \in 1..Len(c)
  <2>1. c[i] = Cell(edition[f], i) /\ i \in Nat \ {0}
    BY <1>1, WritesParts
  <2> QED BY <2>1, CellParts
<1>4. ASSUME NEW i \in Ends(c), i <= tails[f] PROVE c[i].line \in 1..m
  <2>1. i \in 1..Len(c) /\ i \in Nat \ {0} /\ PartAt(i) = Pieces
    BY <1>1, <1>2
  <2>2. LineAt(i) \in Nat \ {0} /\ i = LineAt(i) * Pieces
    BY <2>1, EndLine
  <2>3. ~(m < LineAt(i))
    <3> SUFFICES ASSUME m < LineAt(i) PROVE FALSE
      OBVIOUS
    <3>1. m * Pieces + Pieces <= LineAt(i) * Pieces
      BY <2>2, Multiples
    <3>2. tails[f] + Pieces <= i /\ tails[f] \in Int
      BY <2>2, <3>1, PiecesIs
    <3> QED BY <1>4, <2>1, <3>2, PiecesIs
  <2> QED BY <1>3, <2>1, <2>2, <2>3
<1>5. ASSUME NEW line \in 1..m PROVE \E i \in Ends(c) : i <= tails[f] /\ c[i].line = line
  <2>1. line - 1 \in Nat /\ Pieces \in 1..Pieces /\ (line - 1) * Pieces + Pieces = line * Pieces /\ Pieces \in Nat \ {0}
    BY PiecesIs
  <2>2. LineAt(line * Pieces) = line /\ PartAt(line * Pieces) = Pieces /\ line * Pieces \in Nat \ {0}
    <3>1. /\ (line - 1) * Pieces + Pieces \in Nat \ {0}
          /\ LineAt((line - 1) * Pieces + Pieces) = line - 1 + 1
          /\ PartAt((line - 1) * Pieces + Pieces) = Pieces
      BY <2>1, PlaceAt
    <3> QED BY <2>1, <3>1
  <2>3. line * Pieces <= tails[f]
    <3>1. CASE line = m
      BY <2>2, <3>1
    <3>2. CASE line < m
      <4>1. line * Pieces + Pieces <= m * Pieces
        BY <3>2, Multiples
      <4> DEFINE x == line * Pieces
                 y == m * Pieces
      <4>2. x \in Int /\ y \in Int /\ x + Pieces <= y
        BY <2>2, <4>1, PiecesIs
      <4> HIDE DEF x, y
      <4>3. x <= y
        BY <2>1, <4>2
      <4> QED BY <4>3 DEF x, y
    <3> QED BY <3>1, <3>2
  <2>4. line * Pieces \in 1..Len(c)
    <3>1. tails[f] \in Int
      BY PiecesIs
    <3> QED BY <1>1, <2>2, <2>3, <3>1
  <2> QED BY <1>2, <1>3, <2>2, <2>3, <2>4
<1> QED BY <1>4, <1>5 DEF Passed

\* Of a file followed from its beginning the bus gets exactly the complete lines that
\* the cursor has passed, each of them once and in order, whatever is appended,
\* truncated or deleted between and inside the polls (FileTail::poll), if no line is
\* longer than what one poll reads.
THEOREM LinesOnce == ASSUME LinesFit PROVE TailSpec => []EveryLineOnce
<1>1. TailInv => EveryLineOnce
  <2> SUFFICES ASSUME TailInv, start = "Beginning", NEW f \in DOMAIN tails \cap DOMAIN text, known[f] = edition[f]
               PROVE  /\ {out[i].line : i \in Given(f)} = Passed(f)
                      /\ \A i, j \in Given(f) : i < j => out[i].line < out[j].line
    BY DEF EveryLineOnce
  <2>1. f \in File /\ Disk
    BY DEF TailInv, TypeInv, Disk
  <2>2. Fed(f)
    BY <2>1 DEF TailInv, Feeding, Well, Current
  <2>3. PICK m \in Nat : tails[f] = m * Pieces /\ {out[i].line : i \in Given(f)} = 1..m
    BY <2>2 DEF Fed
  <2>4. Passed(f) = 1..m
    BY <2>1, <2>2, <2>3, PassedIs DEF Fed
  <2> QED BY <2>2, <2>3, <2>4 DEF Fed, GivesInOrder
<1>2. TailInit => TailInv
  BY InitTyped, InitFed DEF TailInv
<1>3. TailInv /\ [TailNext]_tailVars => TailInv'
  BY TailStep
<1>4. TailSpec => []TailInv
  BY <1>2, <1>3, PTL DEF TailSpec
<1> QED BY <1>1, <1>4, PTL

-----------------------------------------------------------------------------
\* The spawning call comes first.

Overtakes(i) == ~ \E j \in 1..i : out[j].file = MainFile /\ out[j].line = SpawnLine
InTurn == \A i \in DOMAIN out : out[i].file # MainFile => behind \/ ~Overtakes(i)
Spawns == \A f \in DOMAIN text : f # MainFile => SpawnWritten
Reaches == ~behind => \A f \in DOMAIN tails : f # MainFile => Reached \/ Reaching

LEMMA SpawnParts ==
  /\ SpawnInv <=> (start = "Beginning" /\ NeverRewritten => Spawns /\ Reaches)
  /\ SpawnFirst <=> (start = "Beginning" /\ NeverRewritten => InTurn)
BY Zenon DEF SpawnInv, Spawns, Reaches, SpawnFirst, InTurn, Overtakes, NeverRewritten

LEMMA MainIs == MainFile \in File /\ 1 \in DOMAIN Order
<1>1. Order \in Seq(Range(Order)) /\ Order # <<>>
  BY TailAssumption
<1>2. 1 \in DOMAIN Order
  BY <1>1
<1> QED BY <1>2 DEF MainFile, File, Range

LEMMA MainTurn ==
  ASSUME MainFile \in todo
  PROVE  Turn = MainFile
<1> DEFINE S == {i \in DOMAIN Order : Order[i] \in todo}
<1>1. 1 \in S /\ \A i \in S : i \in Nat /\ 1 <= i
  <2>1. Order \in Seq(Range(Order))
    BY TailAssumption
  <2>2. \A i \in DOMAIN Order : i \in Nat /\ 1 <= i
    BY <2>1
  <2> QED BY <2>2, MainIs DEF MainFile
<1> HIDE DEF S
<1>2. Least(S) \in S /\ \A j \in S : Least(S) <= j
  BY <1>1 DEF Least
<1>3. Least(S) = 1
  BY <1>1, <1>2
<1>4. Turn = Order[Least(S)]
  BY DEF Turn, S
<1> QED BY <1>3, <1>4 DEF MainFile

\* Nothing was rewritten: every file followed is there, and is the one that was read.
LEMMA NeverRewrittenParts ==
  ASSUME TailInv, start = "Beginning", NeverRewritten
  PROVE  held = {} /\ \A f \in DOMAIN tails : f \in DOMAIN text /\ Fed(f)
<1>0. Disk /\ Tails /\ Polling /\ Deleted /\ \A f \in File : Well(f)
  BY DEF TailInv, TypeInv, Feeding
<1>1. \A f \in File : edition[f] = 0 /\ known[f] = 0
  BY <1>0 DEF NeverRewritten, Tails
<1>2. held = {}
  <2> SUFFICES ASSUME held # {} PROVE FALSE
    OBVIOUS
  <2>1. todo # {} /\ known[Turn] < edition[Turn]
    BY <1>0 DEF Polling, Deleted
  <2>2. Turn \in File
    BY <1>0, <2>1, TodoParts
  <2> QED BY <1>1, <2>1, <2>2
<1>3. ASSUME NEW f \in DOMAIN tails PROVE f \in DOMAIN text /\ Fed(f)
  <2>1. f \in File /\ ~(known[f] < edition[f])
    BY <1>0, <1>1 DEF Tails
  <2>2. f \in DOMAIN text
    BY <1>0, <2>1 DEF Well, Unnoticed
  <2>3. Current(f)
    BY <1>1, <2>1, <2>2 DEF Current
  <2> QED BY <1>0, <2>1, <2>2, <2>3 DEF Well
<1> QED BY <1>2, <1>3

LEMMA SpawnEnds ==
  SpawnLine \in Nat \ {0} /\ SpawnLine * Pieces \in Nat \ {0}
  /\ PartAt(SpawnLine * Pieces) = Pieces /\ LineAt(SpawnLine * Pieces) = SpawnLine
<1>1. SpawnLine \in Nat \ {0} /\ Pieces \in Nat \ {0}
  BY TailAssumption
<1>2. SpawnLine - 1 \in Nat /\ Pieces \in 1..Pieces /\ (SpawnLine - 1) * Pieces + Pieces = SpawnLine * Pieces
  BY <1>1
<1>3. /\ (SpawnLine - 1) * Pieces + Pieces \in Nat \ {0}
      /\ LineAt((SpawnLine - 1) * Pieces + Pieces) = SpawnLine - 1 + 1
      /\ PartAt((SpawnLine - 1) * Pieces + Pieces) = Pieces
  BY <1>2, PlaceAt
<1> QED BY <1>1, <1>2, <1>3

LEMMA WrittenIs ==
  ASSUME Disk, Written(MainFile, SpawnLine)
  PROVE  SpawnWritten
<1> DEFINE c == Content(MainFile)
<1>1. Writes(c, edition[MainFile]) /\ Len(c) \in Nat
  BY ContentTyped, MainIs, WritesParts
<1>2. PICK i \in Ends(c) : c[i].line = SpawnLine
  BY DEF Written
<1>3. i \in 1..Len(c) /\ PartAt(i) = Pieces /\ i \in Nat \ {0}
  BY <1>1, <1>2, EndsIn
<1>4. c[i] = Cell(edition[MainFile], i)
  BY <1>1, <1>3, WritesParts
<1>5. LineAt(i) = SpawnLine
  BY <1>2, <1>3, <1>4, CellParts
<1>6. i = SpawnLine * Pieces
  BY <1>3, <1>5, EndLine
<1>7. MainFile \in DOMAIN text
  <2> SUFFICES ASSUME MainFile \notin DOMAIN text PROVE FALSE
    OBVIOUS
  <2>1. c = <<>>
    BY DEF Content
  <2> QED BY <1>3, <2>1
<1>8. c = text[MainFile]
  BY <1>7 DEF Content
<1> QED BY <1>1, <1>3, <1>6, <1>7, <1>8 DEF SpawnWritten

LEMMA InitSpawns == TailInit => SpawnInv /\ SpawnFirst
<1> SUFFICES ASSUME TailInit PROVE SpawnInv /\ SpawnFirst
  OBVIOUS
<1>1. DOMAIN text \subseteq {MainFile} /\ DOMAIN tails = DOMAIN text /\ out = <<>>
  <2>1. DOMAIN text \subseteq {MainFile}
    <3>1. CASE text = [f \in {} |-> <<>>]
      BY <3>1
    <3>2. ASSUME NEW n \in 1..Longest, text = [f \in {MainFile} |-> [i \in 1..n |-> Cell(0, i)]]
          PROVE  DOMAIN text \subseteq {MainFile}
      BY <3>2
    <3> QED BY <3>1, <3>2 DEF TailInit
  <2> QED BY <2>1 DEF TailInit
<1>2. Spawns /\ Reaches /\ InTurn
  BY <1>1 DEF Spawns, Reaches, InTurn
<1> QED BY <1>2, SpawnParts

LEMMA SpawnAppends ==
  ASSUME TypeInv, TypeInv', NEW f \in File, Appends(f), Spawns, Reaches, InTurn
  PROVE  Spawns' /\ Reaches' /\ InTurn'
<1>1. Disk /\ Disk'
  BY DEF TypeInv
<1>2. /\ DOMAIN text' = DOMAIN text \cup {f} /\ Len(text'[f]) = Len(Content(f)) + 1
      /\ \A g \in DOMAIN text : g # f => text'[g] = text[g]
  BY <1>1, AppendsDisk
<1>3. SpawnWritten => SpawnWritten'
  <2> SUFFICES ASSUME SpawnWritten PROVE SpawnWritten'
    OBVIOUS
  <2>1. MainFile \in DOMAIN text' /\ Len(text[MainFile]) \in Nat
    BY <1>1, <1>2, LengthIs DEF SpawnWritten
  <2>2. Len(text[MainFile]) <= Len(text'[MainFile])
    <3>1. CASE f = MainFile
      BY <1>2, <2>1, <3>1 DEF Content, SpawnWritten
    <3>2. CASE f # MainFile
      BY <1>2, <2>1, <3>2 DEF SpawnWritten
    <3> QED BY <3>1, <3>2
  <2>3. Len(text'[MainFile]) \in Nat
    BY <1>1, <2>1, WritesParts DEF Disk
  <2> QED BY <2>1, <2>2, <2>3, SpawnEnds DEF SpawnWritten
<1>4. Spawns'
  <2> SUFFICES ASSUME NEW g \in DOMAIN text', g # MainFile PROVE SpawnWritten
    BY <1>3 DEF Spawns
  <2>1. CASE g \in DOMAIN text
    BY <2>1 DEF Spawns
  <2>2. CASE g = f
    BY <1>1, <2>2, WrittenIs DEF Appends
  <2> QED BY <1>2, <2>1, <2>2
<1>5. UNCHANGED <<tails, todo, measured, out, behind>>
  BY DEF Appends
<1>6. Reaches'
  BY <1>5 DEF Reaches, Reached, Reaching
<1>7. InTurn'
  BY <1>5 DEF InTurn, Overtakes
<1> QED BY <1>4, <1>6, <1>7

LEMMA SpawnStartPoll ==
  ASSUME TypeInv, StartPoll, Spawns, Reaches, InTurn
  PROVE  Spawns' /\ Reaches' /\ InTurn'
<1>1. /\ todo = {} /\ todo' = DOMAIN tails' /\ DOMAIN tails' = DOMAIN tails \cup DOMAIN text
      /\ UNCHANGED <<text, measured, out, behind>>
  BY DEF StartPoll
<1>2. measured = Unmeasured /\ ~Reaching
  BY <1>1 DEF TypeInv, Polling, Reaching
<1>3. Spawns' /\ InTurn' /\ (Reached' <=> Reached)
  BY <1>1 DEF Spawns, SpawnWritten, InTurn, Overtakes, Reached
<1>4. Reaches'
  <2> SUFFICES ASSUME ~behind, NEW f \in DOMAIN tails', f # MainFile PROVE Reached' \/ Reaching'
    BY <1>1 DEF Reaches
  <2>1. CASE f \in DOMAIN tails
    BY <1>2, <1>3, <2>1 DEF Reaches
  <2>2. CASE f \in DOMAIN text
    <3>1. MainFile \in todo'
      BY <1>1, <2>2 DEF Spawns, SpawnWritten
    <3> QED BY <1>1, <1>2, <3>1 DEF Reaching
  <2> QED BY <1>1, <2>1, <2>2
<1> QED BY <1>3, <1>4

LEMMA SpawnMeasures ==
  ASSUME TailInv, start = "Beginning", NeverRewritten, MeasureTurn, Spawns, Reaches, InTurn
  PROVE  Spawns' /\ Reaches' /\ InTurn'
<1>1. /\ measured' = Len(text[Turn]) /\ DOMAIN tails' = DOMAIN tails
      /\ UNCHANGED <<text, todo, out, behind>>
  BY DEF MeasureTurn, Measure, TailInv, TypeInv, Tails
<1>2. Spawns' /\ InTurn' /\ (Reached' <=> Reached)
  BY <1>1 DEF Spawns, SpawnWritten, InTurn, Overtakes, Reached
<1>3. Reaches'
  <2> SUFFICES ASSUME ~behind, NEW f \in DOMAIN tails, f # MainFile, ~Reached PROVE Reaching'
    BY <1>1, <1>2 DEF Reaches
  <2>1. MainFile \in todo
    BY DEF Reaches, Reaching
  <2>2. Turn = MainFile
    BY <2>1, MainTurn
  <2>3. SpawnWritten
    BY NeverRewrittenParts DEF Spawns
  <2> QED BY <1>1, <2>1, <2>2, <2>3 DEF Reaching, SpawnWritten
<1> QED BY <1>2, <1>3

\* Reading the main transcript as far as it was measured gives the spawning call, or
\* leaves a line behind.
LEMMA SpawnRead ==
  ASSUME TailInv, TailInv', start = "Beginning", NeverRewritten, start' = "Beginning", NeverRewritten', ReadTurn,
         NEW content, NEW chunk, Reading(Turn, content, chunk),
         SpawnWritten, Reaching, ~behind'
  PROVE  Reached'
<1>1. Turn = MainFile /\ SpawnLine * Pieces <= measured
  BY MainTurn DEF Reaching, ReadTurn
<1>2. held = {} /\ TypeInv
  BY NeverRewrittenParts DEF TailInv
<1>3. /\ content = text[MainFile] /\ Writes(content, edition[MainFile]) /\ MainFile \in DOMAIN tails'
      /\ measured \in 0..Longest
  BY <1>1, <1>2, ReadParts
<1>4. Len(content) \in Nat /\ SpawnLine * Pieces \in 1..Len(content)
  BY <1>3, WritesParts, SpawnEnds DEF SpawnWritten
<1>5. SpawnLine * Pieces \in Ends(content)
  BY <1>3, <1>4, EndsIn, SpawnEnds
<1>6. ~ \E i \in Ends(content) : i > tails'[MainFile] /\ i <= measured
  BY <1>1 DEF Reading
<1>7. Fed(MainFile)'
  <2> DEFINE all == \A f \in DOMAIN tails : f \in DOMAIN text /\ Fed(f)
  <2>1. all'
    <3>1. TailInv /\ start = "Beginning" /\ NeverRewritten => all
      BY NeverRewrittenParts
    <3>2. (TailInv /\ start = "Beginning" /\ NeverRewritten => all)'
      BY <3>1, NeverRewrittenParts, PTL
    <3> QED BY <3>2
  <2> QED BY <1>3, <2>1
<1>8. PICK m \in Nat : tails'[MainFile] = m * Pieces /\ {out'[i].line : i \in Given(MainFile)'} = 1..m
  BY <1>7 DEF Fed
<1>9. SpawnLine <= m
  <2> SUFFICES ASSUME m < SpawnLine PROVE FALSE
    BY SpawnEnds
  <2>1. m * Pieces + Pieces <= SpawnLine * Pieces
    BY Multiples, SpawnEnds
  <2>2. SpawnLine * Pieces <= m * Pieces
    BY <1>1, <1>5, <1>6, <1>8, SpawnEnds, PiecesIs
  <2> DEFINE x == m * Pieces
             y == SpawnLine * Pieces
  <2>3. x \in Int /\ y \in Int /\ x + Pieces <= y /\ y <= x /\ Pieces \in Nat \ {0}
    BY <2>1, <2>2, PiecesIs, SpawnEnds
  <2> HIDE DEF x, y
  <2> QED BY <2>3
<1>10. PICK i \in Given(MainFile)' : out'[i].line = SpawnLine
  BY <1>8, <1>9, SpawnEnds
<1> QED BY <1>10 DEF Reached, Given

LEMMA SpawnReads ==
  ASSUME TailInv, TailInv', start = "Beginning", NeverRewritten, start' = "Beginning", NeverRewritten', ReadTurn,
         Spawns, Reaches, InTurn
  PROVE  Spawns' /\ Reaches' /\ InTurn'
<1>0. TypeInv /\ Bus
  BY DEF TailInv, TypeInv
<1>1. PICK content, chunk : Reading(Turn, content, chunk)
  BY ReadIs DEF ReadTurn
<1>2. UNCHANGED text /\ (behind => behind')
  BY <1>1 DEF Reading
<1>3. Spawns'
  BY <1>2 DEF Spawns, SpawnWritten
<1>4. DOMAIN tails' = DOMAIN tails /\ Turn \in DOMAIN tails
  BY <1>0, <1>1, ReadParts
<1>5. PICK r : r = Records(Turn, chunk)
  OBVIOUS
<1>6. /\ \A i \in 1..Len(out) : out'[i] = out[i]
      /\ \A k \in 1..Len(r) : out'[Len(out) + k] = r[k] /\ r[k].file = Turn
      /\ \A i \in DOMAIN out' : i \in 1..Len(out) \/ \E k \in 1..Len(r) : i = Len(out) + k
      /\ DOMAIN out = 1..Len(out) /\ Len(out) \in Nat /\ Len(r) \in Nat /\ DOMAIN out \subseteq DOMAIN out'
  <2>1. /\ \A i \in 1..Len(out) : out'[i] = out[i]
        /\ \A k \in 1..Len(r) : out'[Len(out) + k] = r[k] /\ r[k].file = Turn
        /\ \A i \in DOMAIN out' : i \in 1..Len(out) \/ \E k \in 1..Len(r) : i = Len(out) + k
        /\ DOMAIN out = 1..Len(out) /\ DOMAIN out' = 1..Len(out')
        /\ out \in Seq(Entry) /\ r \in Seq(Entry) /\ Len(out') = Len(out) + Len(r)
    BY <1>0, <1>1, <1>5, ReadGives
  <2>2. Len(out) \in Nat /\ Len(r) \in Nat
    BY <2>1
  <2> QED BY <2>1, <2>2
<1>7. Reached => Reached'
  BY <1>6 DEF Reached
<1>8. Reaches'
  <2> SUFFICES ASSUME ~behind', NEW f \in DOMAIN tails, f # MainFile, ~Reached PROVE Reached'
    BY <1>4, <1>7 DEF Reaches
  <2>1. Reaching
    BY <1>2 DEF Reaches
  <2>2. SpawnWritten
    BY NeverRewrittenParts DEF Spawns
  <2> QED BY <1>1, <2>1, <2>2, SpawnRead
<1>9. InTurn'
  <2> SUFFICES ASSUME NEW i \in DOMAIN out', out'[i].file # MainFile, ~behind'
               PROVE  \E j \in 1..i : out'[j].file = MainFile /\ out'[j].line = SpawnLine
    BY DEF InTurn, Overtakes
  <2>1. CASE i \in 1..Len(out)
    <3>1. PICK j \in 1..i : out[j].file = MainFile /\ out[j].line = SpawnLine
      BY <1>2, <1>6, <2>1 DEF InTurn, Overtakes
    <3>2. j \in 1..Len(out)
      BY <1>6, <2>1
    <3> QED BY <1>6, <3>1, <3>2
  <2>2. ASSUME NEW k \in 1..Len(r), i = Len(out) + k
        PROVE  \E j \in 1..i : out'[j].file = MainFile /\ out'[j].line = SpawnLine
    <3>1. Turn # MainFile
      BY <1>6, <2>2
    <3>2. Reached
      BY <1>2, <1>4, <3>1, MainTurn DEF Reaches, Reaching
    <3>3. PICK j \in DOMAIN out : out[j].file = MainFile /\ out[j].line = SpawnLine
      BY <3>2 DEF Reached
    <3>4. j \in 1..i
      BY <1>6, <2>2, <3>3
    <3> QED BY <1>6, <3>3, <3>4
  <2> QED BY <1>6, <2>1, <2>2
<1> QED BY <1>3, <1>8, <1>9

LEMMA SpawnStep == TailInv /\ TailInv' /\ SpawnInv /\ SpawnFirst /\ [TailNext]_tailVars => SpawnInv' /\ SpawnFirst'
<1> SUFFICES ASSUME TailInv, TailInv', SpawnInv, SpawnFirst, [TailNext]_tailVars PROVE SpawnInv' /\ SpawnFirst'
  OBVIOUS
<1>0. TypeInv /\ TypeInv' /\ Disk
  BY DEF TailInv, TypeInv
<1>1. start' = start
  BY TailCases DEF Appends, Truncate, Unlink, StartPoll, VanishedTurn, MeasureTurn, ReadTurn,
                   Vanished, Measure, Read, tailVars
<1>2. ASSUME start = "Beginning", NeverRewritten' PROVE Spawns' /\ Reaches' /\ InTurn'
  <2>1. ASSUME NEW f \in File, Truncate(f) \/ Unlink(f) PROVE FALSE
    <3>1. edition'[f] = edition[f] + 1 /\ edition[f] \in Nat
      BY <1>0, <2>1, RewrittenIs DEF Disk
    <3> QED BY <1>2, <3>1 DEF NeverRewritten
  <2>2. edition' = edition
    BY <2>1, TailCases DEF Appends, StartPoll, VanishedTurn, MeasureTurn, ReadTurn, Vanished, Measure, Read, tailVars
  <2>3. NeverRewritten /\ Spawns /\ Reaches /\ InTurn
    <3>1. NeverRewritten
      BY <1>2, <2>2 DEF NeverRewritten
    <3> QED BY <1>2, <3>1, SpawnParts
  <2>4. ASSUME NEW f \in File, Appends(f) PROVE Spawns' /\ Reaches' /\ InTurn'
    BY <1>0, <2>3, <2>4, SpawnAppends
  <2>5. CASE StartPoll
    BY <1>0, <2>3, <2>5, SpawnStartPoll
  <2>6. CASE VanishedTurn
    <3>1. Turn \in DOMAIN tails /\ Turn \notin DOMAIN text
      BY <1>0, <2>6, TodoParts DEF TypeInv, VanishedTurn, Vanished
    <3> QED BY <1>2, <2>3, <3>1, NeverRewrittenParts
  <2>7. CASE MeasureTurn
    BY <1>2, <2>3, <2>7, SpawnMeasures
  <2>8. CASE ReadTurn
    BY <1>1, <1>2, <2>3, <2>8, SpawnReads
  <2>9. CASE UNCHANGED tailVars
    BY <2>3, <2>9 DEF tailVars, Spawns, SpawnWritten, Reaches, Reached, Reaching, InTurn, Overtakes
  <2> QED BY <2>1, <2>4, <2>5, <2>6, <2>7, <2>8, <2>9, TailCases
<1>3. (SpawnInv <=> (start = "Beginning" /\ NeverRewritten => Spawns /\ Reaches))'
      /\ (SpawnFirst <=> (start = "Beginning" /\ NeverRewritten => InTurn))'
  BY SpawnParts, PTL
<1> QED BY <1>1, <1>2, <1>3

\* While no file is rewritten or deleted, no record of a subagent reaches the bus before
\* the call that spawned it, unless a poll left lines of the main transcript unread:
\* whatever appears while a poll is under way (SessionTailer::rescan, rank).
THEOREM SpawnComesFirst == ASSUME LinesFit PROVE TailSpec => []SpawnFirst
<1>1. TailInit => TailInv /\ SpawnInv /\ SpawnFirst
  BY InitTyped, InitFed, InitSpawns DEF TailInv
<1>2. TailInv /\ SpawnInv /\ SpawnFirst /\ [TailNext]_tailVars => (TailInv /\ SpawnInv /\ SpawnFirst)'
  BY TailStep, SpawnStep
<1> QED BY <1>1, <1>2, PTL DEF TailSpec
=============================================================================
