------------------------------ MODULE EventBus ------------------------------
(***************************************************************************)
(* The event bus (polis-ingest/src/bus.rs): one bounded queue between the  *)
(* channel threads, which must never block, and the single consumer.       *)
(*                                                                         *)
(* EventSink::push is a sequence of independent atomic operations -- a     *)
(* counter, a try_send, a try_recv on the producer's own receiver, another *)
(* counter -- and other threads run between any two of them.  Each is an   *)
(* action here and pc says where in push a producer stands.  The ghost     *)
(* variables lost, delivered and cost record what became of every event;   *)
(* no guard reads them.                                                    *)
(***************************************************************************)
EXTENDS Naturals, Sequences, FiniteSets

CONSTANTS
  Producers,      \* the threads that hold an EventSink clone
  Capacity,       \* the bus's capacity, after channel() promoted 0 to 1
  EvictRetries,   \* EVICT_RETRIES
  Kinds,          \* the kinds of event the producers push
  Modes,          \* which of recv_batch and drain the consumer calls
  MaxPushes       \* bound: pushes per producer

Channel == {"otel", "hook", "fs", "transcript", "control"}

\* A schema-drift notice is a control event with a counter of its own.
Kind == Channel \union {"drift"}
ChannelOf(kind) == IF kind = "drift" THEN "control" ELSE kind

ASSUME BusAssumption ==
  /\ IsFiniteSet(Producers)
  /\ Capacity \in Nat \ {0}
  /\ EvictRetries \in Nat \ {0}
  /\ MaxPushes \in Nat
  /\ Kinds \subseteq Kind
  /\ Modes \subseteq {"recv_batch", "drain"}

Event == [src : Producers, seq : 1..MaxPushes, kind : Kinds]

\* A value that is no event: the pending slot of a producer that is idle.
None == [src |-> "none", seq |-> 0, kind |-> "none"]

VARIABLES
  queue,          \* the crossbeam channel, oldest first
  received,       \* Counters::received
  dropped,        \* Counters::dropped
  schema_drift,   \* Counters::schema_drift
  sinks,          \* the producers whose EventSink is still alive
  pc,             \* where in push each producer is
  pending,        \* the event a producer is pushing
  attempt,        \* iterations of the retry loop it has finished
  evicted,        \* send_evicting's flag
  victim,         \* the event it evicted and has not counted yet
  result,         \* what its last push returned
  pushes,         \* pushes it has begun
  consumer,       \* what the consumer is doing
  drained,        \* drain's n
  batch,          \* events in the consumer's current batch
  lost,           \* ghost: events whose loss has been counted
  delivered,      \* ghost: events the consumer took, in order
  cost            \* ghost: events the producer's current or last push lost

counters == <<received, dropped, schema_drift>>
pushing  == <<pc, pending, attempt, evicted, victim, result, pushes, sinks, cost>>
reading  == <<consumer, drained, batch, delivered>>
vars     == <<queue, counters, pushing, reading, lost>>

Init ==
  /\ queue = <<>>
  /\ received = [c \in Channel |-> 0]
  /\ dropped = [c \in Channel |-> 0]
  /\ schema_drift = 0
  /\ sinks = Producers
  /\ pc = [p \in Producers |-> "idle"]
  /\ pending = [p \in Producers |-> None]
  /\ attempt = [p \in Producers |-> 0]
  /\ evicted = [p \in Producers |-> FALSE]
  /\ victim = [p \in Producers |-> None]
  /\ result = [p \in Producers |-> "none"]
  /\ pushes = [p \in Producers |-> 0]
  /\ consumer = "idle"
  /\ drained = 0
  /\ batch = 0
  /\ lost = {}
  /\ delivered = <<>>
  /\ cost = [p \in Producers |-> {}]

-----------------------------------------------------------------------------
(* The producers. *)

\* push is entered and record_arrival counts the event.
Arrive(p, kind) ==
  /\ p \in sinks
  /\ pc[p] = "idle"
  /\ pushes[p] < MaxPushes
  /\ pc' = [pc EXCEPT ![p] = "send"]
  /\ pushes' = [pushes EXCEPT ![p] = @ + 1]
  /\ pending' = [pending EXCEPT ![p] = [src |-> p, seq |-> pushes[p] + 1, kind |-> kind]]
  /\ attempt' = [attempt EXCEPT ![p] = 0]
  /\ evicted' = [evicted EXCEPT ![p] = FALSE]
  /\ result' = [result EXCEPT ![p] = "none"]
  /\ cost' = [cost EXCEPT ![p] = {}]
  /\ received' = [received EXCEPT ![ChannelOf(kind)] = @ + 1]
  /\ schema_drift' = IF kind = "drift" THEN schema_drift + 1 ELSE schema_drift
  /\ UNCHANGED <<queue, dropped, victim, sinks, reading, lost>>

\* try_send fails with Full at the capacity, not one past it.
RoomPastEnd == Len(queue) <= Capacity
Room        == Len(queue) < Capacity

\* crossbeam's queue is FIFO.
PushFront(q, e) == <<e>> \o q
PushBack(q, e)  == Append(q, e)

\* What push returns once the event is in.
ReturnedClean(p) == "Queued"
Returned(p)      == IF evicted[p] THEN "Evicted" ELSE "Queued"

\* try_send finds room: push returns, saying whether it evicted on the way.
TrySendOk(p) ==
  /\ pc[p] = "send"
  /\ Room
  /\ queue' = PushBack(queue, pending[p])
  /\ pc' = [pc EXCEPT ![p] = "idle"]
  /\ pending' = [pending EXCEPT ![p] = None]
  /\ result' = [result EXCEPT ![p] = Returned(p)]
  /\ UNCHANGED <<counters, attempt, evicted, victim, pushes, sinks, cost, reading, lost>>

\* try_send returns Full and hands the event back; send would wait instead.
BlockingSend(p) == FALSE
TrySendFull(p) ==
  /\ pc[p] = "send"
  /\ ~Room
  /\ pc' = [pc EXCEPT ![p] = "full"]
  /\ UNCHANGED <<queue, counters, pending, attempt, evicted, victim, result, pushes,
                 sinks, cost, reading, lost>>

\* What a Full iteration is followed by: another one, then giving up on the
\* event -- neither one iteration too many nor leaving without counting it.
RetryOnceMore(p)  == IF attempt[p] < EvictRetries THEN "send" ELSE "give_up"
LeaveUncounted(p) == IF attempt[p] + 1 < EvictRetries THEN "send" ELSE "idle"
RetryOrGiveUp(p)  == IF attempt[p] + 1 < EvictRetries THEN "send" ELSE "give_up"

AfterIteration(p) ==
  /\ attempt' = [attempt EXCEPT ![p] = @ + 1]
  /\ pc' = [pc EXCEPT ![p] = RetryOrGiveUp(p)]

\* evict.try_recv pops the oldest event, whatever happened since the Full.
EvictOldest(p) ==
  /\ pc[p] = "full"
  /\ queue # <<>>
  /\ victim' = [victim EXCEPT ![p] = Head(queue)]
  /\ queue' = Tail(queue)
  /\ pc' = [pc EXCEPT ![p] = "count"]
  /\ UNCHANGED <<counters, pending, attempt, evicted, result, pushes, sinks, cost,
                 reading, lost>>

\* The consumer emptied the queue in the meantime: there is nothing to evict.
EvictNothing(p) ==
  /\ pc[p] = "full"
  /\ queue = <<>>
  /\ AfterIteration(p)
  /\ UNCHANGED <<queue, counters, pending, evicted, victim, result, pushes, sinks, cost,
                 reading, lost>>

\* record_drop counts the victim against the channel that produced it, not the
\* one that overflowed the bus.
OverflowingChannel(p) == ChannelOf(pending[p].kind)
VictimChannel(p)      == ChannelOf(victim[p].kind)

CountVictim(p) ==
  /\ pc[p] = "count"
  /\ dropped' = [dropped EXCEPT ![VictimChannel(p)] = @ + 1]
  /\ evicted' = [evicted EXCEPT ![p] = TRUE]
  /\ lost' = lost \union {victim[p]}
  /\ cost' = [cost EXCEPT ![p] = @ \union {victim[p]}]
  /\ victim' = [victim EXCEPT ![p] = None]
  /\ AfterIteration(p)
  /\ UNCHANGED <<queue, received, schema_drift, pending, result, pushes, sinks, reading>>

\* Still full after the retry budget: the newest event is the one dropped.
DropNewest(p) ==
  /\ pc[p] = "give_up"
  /\ dropped' = [dropped EXCEPT ![ChannelOf(pending[p].kind)] = @ + 1]
  /\ lost' = lost \union {pending[p]}
  /\ cost' = [cost EXCEPT ![p] = @ \union {pending[p]}]
  /\ result' = [result EXCEPT ![p] = "Evicted"]
  /\ pending' = [pending EXCEPT ![p] = None]
  /\ pc' = [pc EXCEPT ![p] = "idle"]
  /\ UNCHANGED <<queue, received, schema_drift, attempt, evicted, victim, pushes, sinks,
                 reading>>

\* A channel stops and its thread drops the sink.
DropSink(p) ==
  /\ p \in sinks
  /\ pc[p] = "idle"
  /\ sinks' = sinks \ {p}
  /\ UNCHANGED <<queue, counters, pc, pending, attempt, evicted, victim, result, pushes,
                 cost, reading, lost>>

Producer(p) ==
  \/ TrySendOk(p)
  \/ TrySendFull(p)
  \/ EvictOldest(p)
  \/ EvictNothing(p)
  \/ CountVictim(p)
  \/ DropNewest(p)

-----------------------------------------------------------------------------
(* The consumer. *)

TakeAndLose ==
  /\ queue # <<>>
  /\ queue' = Tail(queue)
  /\ UNCHANGED delivered
Peek ==
  /\ queue # <<>>
  /\ delivered' = Append(delivered, Head(queue))
  /\ UNCHANGED queue
Take ==
  /\ queue # <<>>
  /\ delivered' = Append(delivered, Head(queue))
  /\ queue' = Tail(queue)

Disconnected == queue = <<>> /\ sinks = {}

\* recv_batch blocks in recv until there is an event, then calls drain.
RecvFirst ==
  /\ "recv_batch" \in Modes
  /\ consumer = "idle"
  /\ Take
  /\ batch' = 1
  /\ drained' = 0
  /\ consumer' = "drain"
  /\ UNCHANGED <<counters, pushing, lost>>

\* recv fails only when the queue is empty and the last sink is gone.
RecvDisconnected ==
  /\ "recv_batch" \in Modes
  /\ consumer = "idle"
  /\ Disconnected
  /\ consumer' = "ended"
  /\ UNCHANGED <<queue, counters, pushing, drained, batch, delivered, lost>>

\* The tail command's loop calls drain directly and sleeps when it is empty.
DrainStart ==
  /\ "drain" \in Modes
  /\ consumer = "idle"
  /\ batch' = 0
  /\ drained' = 0
  /\ consumer' = "drain"
  /\ UNCHANGED <<queue, counters, pushing, delivered, lost>>

\* drain takes at most as many events as the bus can hold.
DrainFull      == drained >= Capacity

DrainOne ==
  /\ consumer = "drain"
  /\ ~DrainFull
  /\ Take
  /\ drained' = drained + 1
  /\ batch' = batch + 1
  /\ UNCHANGED <<counters, pushing, consumer, lost>>

\* Full, or try_recv failed: drain does not tell Empty from Disconnected.
DrainEnd ==
  /\ consumer = "drain"
  /\ DrainFull \/ queue = <<>>
  /\ consumer' = "idle"
  /\ UNCHANGED <<queue, counters, pushing, drained, batch, delivered, lost>>

Consumer == RecvFirst \/ RecvDisconnected \/ DrainStart \/ DrainOne \/ DrainEnd

-----------------------------------------------------------------------------
\* Everything has shut down: the only state in which nothing is left to do.
Terminated ==
  /\ sinks = {}
  /\ consumer = "ended"
  /\ UNCHANGED vars

Next ==
  \/ \E p \in Producers : (\E kind \in Kinds : Arrive(p, kind)) \/ DropSink(p)
  \/ \E p \in Producers : Producer(p)
  \/ Consumer
  \/ Terminated

\* Every action of a push is a step of a thread that waits for nothing, so
\* the scheduler alone makes it happen.  Arrivals are never owed.
PushFairness == \A p \in Producers : WF_vars(Producer(p))

Spec == Init /\ [][Next]_vars /\ PushFairness

\* The world thread loops for as long as the program runs, and a channel that
\* is told to stop drops its sink.  Assumed where a property says so.
ConsumerRuns == WF_vars(Consumer) /\ \A p \in Producers : WF_vars(DropSink(p))

-----------------------------------------------------------------------------
(* Properties. *)

Items(s) == {s[i] : i \in 1..Len(s)}

InFlight  == {pending[p] : p \in Producers} \ {None}
Uncounted == {victim[p] : p \in Producers} \ {None}
On(c, S)  == {e \in S : ChannelOf(e.kind) = c}

ProducerPc == {"idle", "send", "full", "count", "give_up"}

\* Type of every variable; a producer carries an event exactly while it is
\* inside push, and an uncounted victim exactly between try_recv and
\* record_drop.
TypeOK ==
  /\ queue \in Seq(Event)
  /\ received \in [Channel -> Nat]
  /\ dropped \in [Channel -> Nat]
  /\ schema_drift \in Nat
  /\ sinks \subseteq Producers
  /\ pc \in [Producers -> ProducerPc]
  /\ pending \in [Producers -> Event \union {None}]
  /\ attempt \in [Producers -> Nat]
  /\ evicted \in [Producers -> BOOLEAN]
  /\ victim \in [Producers -> Event \union {None}]
  /\ result \in [Producers -> {"none", "Queued", "Evicted"}]
  /\ pushes \in [Producers -> 0..MaxPushes]
  /\ consumer \in {"idle", "drain", "ended"}
  /\ drained \in Nat
  /\ batch \in Nat
  /\ lost \subseteq Event
  /\ delivered \in Seq(Event)
  /\ cost \in [Producers -> SUBSET Event]
  /\ \A p \in Producers :
       /\ (pc[p] = "idle") <=> (pending[p] = None)
       /\ (pc[p] = "count") <=> (victim[p] # None)

Everywhere == InFlight \union Uncounted \union Items(queue) \union lost \union Items(delivered)

\* No event is made to disappear: each of the pushes a producer has begun is
\* with the producer, queued, evicted, dropped or delivered, however the
\* producers' retries and the consumer's receives interleave.
NothingVanishes ==
  \A p \in Producers : \A k \in 1..pushes[p] :
    \E e \in Everywhere : e.src = p /\ e.seq = k

\* ... and in one of those places only: the event try_send hands back is not
\* also queued, one that a producer evicted is not also delivered, and two
\* producers never evict the same one.
ExactlyOnce ==
  /\ InFlight \intersect (Uncounted \union Items(queue) \union lost \union Items(delivered)) = {}
  /\ Uncounted \intersect (Items(queue) \union lost \union Items(delivered)) = {}
  /\ Items(queue) \intersect (lost \union Items(delivered)) = {}
  /\ lost \intersect Items(delivered) = {}
  /\ \A p, q \in Producers : p # q /\ victim[p] # None => victim[p] # victim[q]

\* The status bar's numbers are exact: on every channel, received counts every
\* event pushed and dropped every event lost, each once and on the channel
\* that produced it, not on the one that overflowed the bus.
CountersExact ==
  \A c \in Channel :
    /\ received[c] = Cardinality(On(c, Everywhere))
    /\ dropped[c] = Cardinality(On(c, lost))

Ascending(s) ==
  \A i, j \in 1..Len(s) : i < j /\ s[i].src = s[j].src => s[i].seq < s[j].seq

Precedes(s, t) ==
  \A i \in 1..Len(s), j \in 1..Len(t) : s[i].src = t[j].src => s[i].seq < t[j].seq

\* Evictions leave gaps and never reorder: the consumer sees what is left of
\* one producer's events in the order they were pushed.
PerProducerOrder ==
  /\ Ascending(queue)
  /\ Ascending(delivered)
  /\ Precedes(delivered, queue)

\* The queue never outgrows the capacity the status bar divides by.
CapacityRespected == Len(queue) <= Capacity

\* Push::Queued means "the event was queued and nothing was lost", and
\* Push::Evicted that something was.
ResultHonest ==
  \A p \in Producers :
    /\ result[p] = "Queued" => cost[p] = {}
    /\ result[p] = "Evicted" => cost[p] # {}

\* One push evicts at most EVICT_RETRIES events besides its own.
PushCostBounded == \A p \in Producers : Cardinality(cost[p]) <= EvictRetries + 1

\* A producer faster than the consumer cannot hold it inside one call: a batch
\* is at most the bus's capacity and recv_batch's blocking first event.
BatchBounded == batch <= Capacity + 1

\* push never blocks: it returns whatever the other producers do, and even if
\* the consumer never takes another event.
PushReturns == \A p \in Producers : pc[p] # "idle" ~> pc[p] = "idle"

\* Every event pushed ends up delivered or counted as lost.
EventsSettle ==
  ConsumerRuns =>
    \A e \in Event : e \in Everywhere ~> e \in lost \union Items(delivered)

\* The bus implements the lossy queue: an event in a producer's hands is
\* waiting, and one evicted but not yet counted is already lost.
Promise == INSTANCE LossyQueue WITH waiting <- InFlight, lost <- lost \union Uncounted

ImplementsLossyQueue == Promise!Spec
=============================================================================
