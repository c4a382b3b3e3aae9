--------------------------- MODULE EventBusProofs ---------------------------
(***************************************************************************)
(* Proofs about the event bus for any number of producers, any capacity,   *)
(* any retry budget and any number of pushes: that its type invariant and  *)
(* its accounting hold, that it implements the lossy queue, and that the   *)
(* counters line read off it covers what was printed above it.             *)
(***************************************************************************)
EXTENDS BusReport, FiniteSetTheorems, TLAPS

(* What the operations of a queue do to its elements. *)

LEMMA TailFacts ==
  ASSUME NEW S, NEW s \in Seq(S), s # <<>>
  PROVE  /\ Head(s) \in S
         /\ Head(s) = s[1]
         /\ 1 \in 1..Len(s)
         /\ Tail(s) \in Seq(S)
         /\ Len(Tail(s)) = Len(s) - 1
         /\ \A i \in 1..Len(Tail(s)) : i + 1 \in 1..Len(s) /\ Tail(s)[i] = s[i + 1]
  OBVIOUS

LEMMA AppendFacts ==
  ASSUME NEW S, NEW s \in Seq(S), NEW e \in S
  PROVE  /\ Append(s, e) \in Seq(S)
         /\ Len(Append(s, e)) = Len(s) + 1
         /\ \A i \in 1..Len(s) : Append(s, e)[i] = s[i]
         /\ Append(s, e)[Len(s) + 1] = e
  OBVIOUS

LEMMA ItemsOfTail ==
  ASSUME NEW S, NEW s \in Seq(S), s # <<>>
  PROVE  Items(s) = {Head(s)} \union Items(Tail(s))
<1>1. \A i \in 1..Len(s) : s[i] \in {Head(s)} \union Items(Tail(s))
  <2> SUFFICES ASSUME NEW i \in 1..Len(s), i # 1
               PROVE  s[i] \in Items(Tail(s))
    BY TailFacts
  <2>1. i - 1 \in 1..Len(Tail(s)) /\ Tail(s)[i - 1] = s[i]
    OBVIOUS
  <2> QED BY <2>1 DEF Items
<1>2. Head(s) \in Items(s)
  BY TailFacts DEF Items
<1>3. Items(Tail(s)) \subseteq Items(s)
  BY TailFacts DEF Items
<1> QED BY <1>1, <1>2, <1>3 DEF Items

LEMMA ItemsOfAppend ==
  ASSUME NEW S, NEW s \in Seq(S), NEW e \in S
  PROVE  Items(Append(s, e)) = Items(s) \union {e}
<1>1. Items(Append(s, e)) \subseteq Items(s) \union {e}
  BY AppendFacts DEF Items
<1>2. Items(s) \subseteq Items(Append(s, e))
  BY AppendFacts DEF Items
<1>3. e \in Items(Append(s, e))
  BY AppendFacts DEF Items
<1> QED BY <1>1, <1>2, <1>3

LEMMA NoneIsNoEvent == None \notin Event
  BY BusAssumption DEF None, Event

(* Type correctness: in particular a producer holds an event exactly while *)
(* it is inside push.                                                      *)
LEMMA InitType == Init => TypeOK
  BY BusAssumption DEF Init, TypeOK, ProducerPc

LEMMA NextType == TypeOK /\ [Next]_vars => TypeOK'
<1> SUFFICES ASSUME TypeOK, [Next]_vars PROVE TypeOK'
  OBVIOUS
<1> USE BusAssumption, NoneIsNoEvent
<1>1. ASSUME NEW p \in Producers, NEW kind \in Kinds, Arrive(p, kind) PROVE TypeOK'
  <2>1. [src |-> p, seq |-> pushes[p] + 1, kind |-> kind] \in Event
    BY <1>1 DEF Arrive, Event, TypeOK
  <2>2. ChannelOf(kind) \in Channel
    BY DEF ChannelOf, Channel, Kind
  <2>3. pending' \in [Producers -> Event \union {None}] /\ pc' \in [Producers -> ProducerPc]
    BY <1>1, <2>1 DEF Arrive, TypeOK, ProducerPc
  <2>4. received' \in [Channel -> Nat] /\ schema_drift' \in Nat
    BY <1>1, <2>2 DEF Arrive, TypeOK
  <2>5. pushes' \in [Producers -> 0..MaxPushes] /\ cost' \in [Producers -> SUBSET Event]
    BY <1>1 DEF Arrive, TypeOK
  <2>6. /\ attempt' \in [Producers -> Nat] /\ evicted' \in [Producers -> BOOLEAN]
        /\ result' \in [Producers -> {"none", "Queued", "Evicted"}]
    BY <1>1 DEF Arrive, TypeOK
  <2>7. \A q \in Producers : /\ (pc'[q] = "idle") <=> (pending'[q] = None)
                             /\ (pc'[q] = "count") <=> (victim'[q] # None)
    BY <1>1, <2>1 DEF Arrive, TypeOK
  <2>8. UNCHANGED <<queue, dropped, victim, sinks, reading, lost>>
    BY <1>1 DEF Arrive
  <2> QED BY <2>3, <2>4, <2>5, <2>6, <2>7, <2>8 DEF TypeOK, reading
<1>2. ASSUME NEW p \in Producers, DropSink(p) PROVE TypeOK'
  BY <1>2 DEF DropSink, TypeOK, counters, reading
<1>3. ASSUME NEW p \in Producers, TrySendOk(p) PROVE TypeOK'
  <2>1. pending[p] \in Event
    BY <1>3 DEF TrySendOk, TypeOK
  <2>2. queue' \in Seq(Event)
    BY <1>3, <2>1 DEF TrySendOk, TypeOK, PushBack
  <2> QED BY <1>3, <2>2 DEF TrySendOk, TypeOK, ProducerPc, counters, reading, Returned
<1>4. ASSUME NEW p \in Producers, TrySendFull(p) PROVE TypeOK'
  BY <1>4 DEF TrySendFull, TypeOK, ProducerPc, counters, reading
<1>5. ASSUME NEW p \in Producers, EvictOldest(p) PROVE TypeOK'
  BY <1>5, TailFacts DEF EvictOldest, TypeOK, ProducerPc, counters, reading
<1>6. ASSUME NEW p \in Producers, EvictNothing(p) PROVE TypeOK'
  BY <1>6 DEF EvictNothing, TypeOK, ProducerPc, counters, reading, AfterIteration, RetryOrGiveUp
<1>7. ASSUME NEW p \in Producers, CountVictim(p) PROVE TypeOK'
  <2>1. victim[p] \in Event
    BY <1>7 DEF CountVictim, TypeOK
  <2>2. VictimChannel(p) \in Channel
    BY <2>1 DEF ChannelOf, Channel, Kind, Event, VictimChannel
  <2> QED BY <1>7, <2>1, <2>2
          DEF CountVictim, TypeOK, ProducerPc, reading, AfterIteration, RetryOrGiveUp
<1>8. ASSUME NEW p \in Producers, DropNewest(p) PROVE TypeOK'
  <2>1. pending[p] \in Event
    BY <1>8 DEF DropNewest, TypeOK
  <2>2. ChannelOf(pending[p].kind) \in Channel
    BY <2>1 DEF ChannelOf, Channel, Kind, Event
  <2> QED BY <1>8, <2>1, <2>2 DEF DropNewest, TypeOK, ProducerPc, reading
<1>9. CASE Consumer
  <2>1. ASSUME Take PROVE queue' \in Seq(Event) /\ delivered' \in Seq(Event)
    BY <2>1, TailFacts, AppendFacts DEF Take, TypeOK
  <2>2. CASE RecvFirst
    BY <2>1, <2>2 DEF RecvFirst, TypeOK, counters, pushing
  <2>3. CASE RecvDisconnected
    BY <2>3 DEF RecvDisconnected, TypeOK, counters, pushing
  <2>4. CASE DrainStart
    BY <2>4 DEF DrainStart, TypeOK, counters, pushing
  <2>5. CASE DrainOne
    BY <2>1, <2>5 DEF DrainOne, TypeOK, counters, pushing
  <2>6. CASE DrainEnd
    BY <2>6 DEF DrainEnd, TypeOK, counters, pushing
  <2> QED BY <1>9, <2>2, <2>3, <2>4, <2>5, <2>6 DEF Consumer
<1>10. CASE UNCHANGED vars
  BY <1>10 DEF TypeOK, vars, counters, pushing, reading
<1> QED
  BY <1>1, <1>2, <1>3, <1>4, <1>5, <1>6, <1>7, <1>8, <1>9, <1>10
     DEF Next, Producer, Terminated

\* TypeOK holds in every state of the bus, for any producers and capacity.
THEOREM TypeCorrect == Spec => []TypeOK
  BY InitType, NextType, PTL DEF Spec

-----------------------------------------------------------------------------
(* Where events are.  A producer's pending event is the last one it began  *)
(* to push, and every event that has left it is an earlier one: that alone *)
(* keeps what is in flight apart from the rest.                            *)

Settled == Uncounted \union Items(queue) \union lost \union Items(delivered)

Sequenced ==
  /\ \A p \in Producers : pc[p] # "idle" => pending[p].src = p /\ pending[p].seq = pushes[p]
  /\ \A e \in Settled :
       /\ e.seq <= pushes[e.src]
       /\ pc[e.src] # "idle" => e.seq < pushes[e.src]

\* What the accounting rests on, as an inductive invariant.
Accounted ==
  /\ TypeOK
  /\ Sequenced
  /\ ExactlyOnce
  /\ PerProducerOrder

LEMMA PlacesAreEvents ==
  ASSUME TypeOK
  PROVE  InFlight \subseteq Event /\ Settled \subseteq Event /\ Everywhere = InFlight \union Settled
<1>1. Items(queue) \subseteq Event /\ Items(delivered) \subseteq Event
  BY DEF TypeOK, Items
<1> QED BY <1>1 DEF TypeOK, InFlight, Uncounted, Settled, Everywhere

LEMMA PendingFacts ==
  ASSUME TypeOK, Sequenced, NEW p \in Producers, pc[p] # "idle"
  PROVE  /\ pending[p] \in Event
         /\ pending[p] \in InFlight
         /\ pending[p] \notin Settled
         /\ \A q \in Producers : pending[q] = pending[p] => q = p
<1>1. pending[p] \in Event /\ pending[p] # None
  BY DEF TypeOK
<1>2. pending[p] \in InFlight
  BY <1>1 DEF InFlight
<1>3. pending[p] \notin Settled
  <2> SUFFICES ASSUME pending[p] \in Settled PROVE FALSE
    OBVIOUS
  <2>1. pending[p].src = p /\ pending[p].seq = pushes[p] /\ pushes[p] \in Nat
    BY BusAssumption DEF Sequenced, TypeOK
  <2>2. pending[p].seq < pushes[p]
    BY <2>1 DEF Sequenced
  <2> QED BY <2>1, <2>2
<1>4. ASSUME NEW q \in Producers, pending[q] = pending[p] PROVE q = p
  <2>1. pc[q] # "idle"
    BY <1>1, <1>4 DEF TypeOK
  <2> QED BY <1>4, <2>1 DEF Sequenced
<1> QED BY <1>1, <1>2, <1>3, <1>4

(* What each kind of step moves, and what it leaves where it was. *)

LEMMA ArriveMoves ==
  ASSUME TypeOK, NEW p \in Producers, NEW kind \in Kinds, Arrive(p, kind)
  PROVE  /\ pending'[p] \in Event
         /\ pending'[p].src = p
         /\ pending'[p].seq = pushes'[p]
         /\ pending'[p].kind = kind
         /\ InFlight' = InFlight \union {pending'[p]}
         /\ Settled' = Settled
         /\ UNCHANGED <<queue, lost, delivered, victim>>
<1>1. pending' = [pending EXCEPT ![p] = [src |-> p, seq |-> pushes[p] + 1, kind |-> kind]]
      /\ pushes' = [pushes EXCEPT ![p] = @ + 1] /\ pushes[p] < MaxPushes
  BY DEF Arrive
<1>2. [src |-> p, seq |-> pushes[p] + 1, kind |-> kind] \in Event
  BY <1>1, BusAssumption DEF Event, TypeOK
<1>3. UNCHANGED <<queue, lost, delivered, victim>>
  BY DEF Arrive, reading
<1>4. Settled' = Settled
  BY <1>3 DEF Settled, Uncounted, Items
<1>5. pending[p] = None
  BY DEF Arrive, TypeOK
<1>6. InFlight' = InFlight \union {pending'[p]}
  BY <1>1, <1>2, <1>5, NoneIsNoEvent DEF InFlight, TypeOK
<1> QED BY <1>1, <1>2, <1>3, <1>4, <1>6 DEF TypeOK

LEMMA SendMoves ==
  ASSUME TypeOK, Sequenced, NEW p \in Producers, TrySendOk(p)
  PROVE  /\ InFlight' = InFlight \ {pending[p]}
         /\ Items(queue') = Items(queue) \union {pending[p]}
         /\ queue' = Append(queue, pending[p])
         /\ UNCHANGED <<lost, delivered, victim>>
<1>1. pending' = [pending EXCEPT ![p] = None]
  BY DEF TrySendOk
<1>2. pending[p] \in Event /\ \A q \in Producers : pending[q] = pending[p] => q = p
  BY PendingFacts DEF TrySendOk
<1>3. InFlight' = InFlight \ {pending[p]}
  BY <1>1, <1>2, NoneIsNoEvent DEF InFlight, TypeOK
<1>4. queue' = Append(queue, pending[p])
  BY DEF TrySendOk, PushBack
<1>5. Items(queue') = Items(queue) \union {pending[p]}
  BY <1>2, <1>4, ItemsOfAppend DEF TypeOK
<1> QED BY <1>3, <1>4, <1>5 DEF TrySendOk, reading

LEMMA OrderIsInjective ==
  ASSUME NEW s \in Seq(Event), Ascending(s), s # <<>>
  PROVE  Items(Tail(s)) = Items(s) \ {Head(s)}
<1>1. \A i \in 1..Len(s) : s[i].seq \in Nat
  <2> TAKE i \in 1..Len(s)
  <2>1. s[i] \in Event
    OBVIOUS
  <2> QED BY <2>1, BusAssumption DEF Event
<1>2. Head(s) \notin Items(Tail(s))
  <2> SUFFICES ASSUME NEW i \in 1..Len(Tail(s)), Tail(s)[i] = Head(s) PROVE FALSE
    BY DEF Items
  <2>1. i + 1 \in 1..Len(s) /\ 1 \in 1..Len(s) /\ s[i + 1] = s[1] /\ 1 < i + 1
    BY TailFacts
  <2>2. s[1].seq < s[i + 1].seq
    BY <2>1 DEF Ascending
  <2> QED BY <1>1, <2>1, <2>2
<1> QED BY <1>2, ItemsOfTail

LEMMA EvictMoves ==
  ASSUME Accounted, NEW p \in Producers, EvictOldest(p)
  PROVE  /\ Head(queue) \in Items(queue)
         /\ Items(queue') = Items(queue) \ {Head(queue)}
         /\ Uncounted' = Uncounted \union {Head(queue)}
         /\ victim' = [victim EXCEPT ![p] = Head(queue)]
         /\ queue' = Tail(queue)
         /\ UNCHANGED <<pending, pushes, lost, delivered>>
<1>1. queue \in Seq(Event) /\ queue # <<>> /\ Ascending(queue)
  BY DEF EvictOldest, Accounted, TypeOK, PerProducerOrder
<1>2. queue' = Tail(queue) /\ victim' = [victim EXCEPT ![p] = Head(queue)]
  BY DEF EvictOldest
<1>3. Head(queue) \in Items(queue) /\ Head(queue) \in Event
  BY <1>1, ItemsOfTail, TailFacts
<1>4. victim[p] = None
  BY DEF EvictOldest, Accounted, TypeOK
<1>5. Uncounted' = Uncounted \union {Head(queue)}
  BY <1>2, <1>3, <1>4, NoneIsNoEvent DEF Uncounted, Accounted, TypeOK
<1> QED BY <1>1, <1>2, <1>3, <1>5, OrderIsInjective DEF EvictOldest, reading

LEMMA CountMoves ==
  ASSUME Accounted, NEW p \in Producers, CountVictim(p)
  PROVE  /\ victim[p] \in Uncounted
         /\ Uncounted' = Uncounted \ {victim[p]}
         /\ lost' = lost \union {victim[p]}
         /\ victim' = [victim EXCEPT ![p] = None]
         /\ UNCHANGED <<queue, pending, pushes, delivered>>
<1>1. victim' = [victim EXCEPT ![p] = None] /\ victim[p] # None
  BY DEF CountVictim, Accounted, TypeOK
<1>2. \A q \in Producers : victim[q] = victim[p] => q = p
  BY <1>1 DEF Accounted, ExactlyOnce
<1>3. Uncounted' = Uncounted \ {victim[p]}
  BY <1>1, <1>2 DEF Uncounted, Accounted, TypeOK
<1> QED BY <1>1, <1>3 DEF CountVictim, Uncounted, reading

LEMMA DropMoves ==
  ASSUME TypeOK, Sequenced, NEW p \in Producers, DropNewest(p)
  PROVE  /\ InFlight' = InFlight \ {pending[p]}
         /\ lost' = lost \union {pending[p]}
         /\ UNCHANGED <<queue, delivered, victim, pushes>>
<1>1. pending' = [pending EXCEPT ![p] = None]
  BY DEF DropNewest
<1>2. pending[p] \in Event /\ \A q \in Producers : pending[q] = pending[p] => q = p
  BY PendingFacts DEF DropNewest
<1>3. InFlight' = InFlight \ {pending[p]}
  BY <1>1, <1>2, NoneIsNoEvent DEF InFlight, TypeOK
<1> QED BY <1>3 DEF DropNewest, reading

LEMMA TakeMoves ==
  ASSUME Accounted, Take
  PROVE  /\ Head(queue) \in Items(queue)
         /\ Items(queue') = Items(queue) \ {Head(queue)}
         /\ Items(delivered') = Items(delivered) \union {Head(queue)}
<1>1. queue \in Seq(Event) /\ queue # <<>> /\ Ascending(queue) /\ delivered \in Seq(Event)
  BY DEF Take, Accounted, TypeOK, PerProducerOrder
<1>2. Head(queue) \in Items(queue) /\ Head(queue) \in Event
  BY <1>1, ItemsOfTail, TailFacts
<1> QED BY <1>1, <1>2, OrderIsInjective, ItemsOfAppend DEF Take

(* The order of what is queued and delivered. *)

LEMMA SeqOfItem ==
  ASSUME NEW s \in Seq(Event), NEW i \in 1..Len(s)
  PROVE  s[i] \in Event /\ s[i].seq \in Nat /\ s[i] \in Items(s)
<1>1. s[i] \in Event
  OBVIOUS
<1> QED BY <1>1, BusAssumption DEF Event, Items

LEMMA OrderAfterTail ==
  ASSUME NEW s \in Seq(Event), NEW t \in Seq(Event), s # <<>>,
         Ascending(s), Ascending(t), Precedes(t, s)
  PROVE  /\ Ascending(Tail(s))
         /\ Precedes(t, Tail(s))
         /\ Ascending(Append(t, Head(s)))
         /\ Precedes(Append(t, Head(s)), Tail(s))
<1>1. Ascending(Tail(s))
  BY TailFacts DEF Ascending
<1>2. Precedes(t, Tail(s))
  BY TailFacts DEF Precedes
<1> DEFINE u == Append(t, Head(s))
<1>3. /\ Head(s) = s[1] /\ Head(s) \in Event /\ 1 \in 1..Len(s)
      /\ Len(u) = Len(t) + 1 /\ u[Len(t) + 1] = s[1]
      /\ \A i \in 1..Len(t) : u[i] = t[i]
  BY TailFacts, AppendFacts
<1> HIDE DEF u
<1>4. Ascending(u)
  <2> SUFFICES ASSUME NEW i \in 1..Len(u), NEW j \in 1..Len(u), i < j, u[i].src = u[j].src
               PROVE  u[i].seq < u[j].seq
    BY DEF Ascending
  <2>1. i \in 1..Len(t) /\ u[i] = t[i]
    BY <1>3
  <2>2. CASE j \in 1..Len(t)
    BY <2>1, <2>2, <1>3 DEF Ascending
  <2>3. CASE j = Len(t) + 1
    BY <2>1, <2>3, <1>3 DEF Precedes
  <2> QED BY <2>2, <2>3, <1>3
<1>5. Precedes(u, Tail(s))
  <2> SUFFICES ASSUME NEW i \in 1..Len(u), NEW j \in 1..Len(Tail(s)),
                      u[i].src = Tail(s)[j].src
               PROVE  u[i].seq < Tail(s)[j].seq
    BY DEF Precedes
  <2>1. CASE i \in 1..Len(t)
    BY <2>1, <1>2, <1>3 DEF Precedes
  <2>2. CASE i = Len(t) + 1
    <3>1. j + 1 \in 1..Len(s) /\ Tail(s)[j] = s[j + 1] /\ 1 < j + 1
      BY TailFacts
    <3> QED BY <2>2, <3>1, <1>3 DEF Ascending
  <2> QED BY <2>1, <2>2, <1>3
<1> QED BY <1>1, <1>2, <1>4, <1>5 DEF u

LEMMA OrderAfterAppend ==
  ASSUME NEW s \in Seq(Event), NEW t \in Seq(Event), NEW e \in Event,
         Ascending(s), Precedes(t, s),
         \A x \in Items(s) \union Items(t) : x.src = e.src => x.seq < e.seq
  PROVE  Ascending(Append(s, e)) /\ Precedes(t, Append(s, e))
<1> DEFINE u == Append(s, e)
<1>1. Len(u) = Len(s) + 1 /\ u[Len(s) + 1] = e /\ \A i \in 1..Len(s) : u[i] = s[i]
  BY AppendFacts
<1> HIDE DEF u
<1>2. Ascending(u)
  <2> SUFFICES ASSUME NEW i \in 1..Len(u), NEW j \in 1..Len(u), i < j, u[i].src = u[j].src
               PROVE  u[i].seq < u[j].seq
    BY DEF Ascending
  <2>1. i \in 1..Len(s) /\ u[i] = s[i] /\ s[i] \in Items(s)
    BY <1>1 DEF Items
  <2>2. CASE j \in 1..Len(s)
    BY <2>1, <2>2, <1>1 DEF Ascending
  <2>3. CASE j = Len(s) + 1
    BY <2>1, <2>3, <1>1
  <2> QED BY <2>2, <2>3, <1>1
<1>3. Precedes(t, u)
  <2> SUFFICES ASSUME NEW i \in 1..Len(t), NEW j \in 1..Len(u), t[i].src = u[j].src
               PROVE  t[i].seq < u[j].seq
    BY DEF Precedes
  <2>1. CASE j \in 1..Len(s)
    BY <2>1, <1>1 DEF Precedes
  <2>2. CASE j = Len(s) + 1
    BY <2>2, <1>1 DEF Items
  <2> QED BY <2>1, <2>2, <1>1
<1> QED BY <1>2, <1>3 DEF u

(* A step that moves nothing out of a producer's hands keeps Sequenced. *)
LEMMA SequencedFrame ==
  ASSUME TypeOK, Sequenced, UNCHANGED <<pending, pushes>>, Settled' = Settled,
         \A q \in Producers : pc'[q] = "idle" <=> pc[q] = "idle"
  PROVE  Sequenced'
<1>1. \A e \in Settled : e.src \in Producers
  BY PlacesAreEvents DEF Event
<1> QED BY <1>1 DEF Sequenced

LEMMA SequencedHandOver ==
  ASSUME TypeOK, Sequenced, NEW p \in Producers, pc[p] # "idle",
         pc' = [pc EXCEPT ![p] = "idle"], pending' = [pending EXCEPT ![p] = None],
         UNCHANGED pushes, Settled' = Settled \union {pending[p]}
  PROVE  Sequenced'
<1>1. \A e \in Settled : e.src \in Producers
  BY PlacesAreEvents DEF Event
<1>2. \A q \in Producers : q # p => pc'[q] = pc[q] /\ pending'[q] = pending[q]
  BY DEF TypeOK
<1>3. pc'[p] = "idle"
  BY DEF TypeOK
<1>4. pushes[p] \in Nat /\ pending[p].src = p /\ pending[p].seq = pushes[p]
  BY BusAssumption DEF TypeOK, Sequenced
<1> QED BY <1>1, <1>2, <1>3, <1>4 DEF Sequenced

(* The five places, and what a move between two of them does to them. *)

Apart(F, U, Q, L, D) ==
  /\ F \intersect (U \union Q \union L \union D) = {}
  /\ U \intersect (Q \union L \union D) = {}
  /\ Q \intersect (L \union D) = {}
  /\ L \intersect D = {}

DistinctVictims(v) == \A p, q \in Producers : p # q /\ v[p] # None => v[p] # v[q]

LEMMA PlacesApart ==
  ExactlyOnce <=> /\ Apart(InFlight, Uncounted, Items(queue), lost, Items(delivered))
                  /\ DistinctVictims(victim)
  BY DEF ExactlyOnce, Apart, DistinctVictims

LEMMA PlacesApartNext ==
  ExactlyOnce' <=> /\ Apart(InFlight', Uncounted', Items(queue'), lost', Items(delivered'))
                   /\ DistinctVictims(victim')
  BY DEF ExactlyOnce, Apart, DistinctVictims

LEMMA MovesKeepApart ==
  ASSUME NEW F, NEW U, NEW Q, NEW L, NEW D, Apart(F, U, Q, L, D)
  PROVE  /\ \A e : e \notin U \union Q \union L \union D => Apart(F \union {e}, U, Q, L, D)
         /\ \A e \in F : Apart(F \ {e}, U, Q \union {e}, L, D)
         /\ \A e \in Q : Apart(F, U \union {e}, Q \ {e}, L, D)
         /\ \A e \in U : Apart(F, U \ {e}, Q, L \union {e}, D)
         /\ \A e \in F : Apart(F \ {e}, U, Q, L \union {e}, D)
         /\ \A e \in Q : Apart(F, U, Q \ {e}, L, D \union {e})
  BY DEF Apart

LEMMA InitAccounted == Init => Accounted
<1> SUFFICES ASSUME Init PROVE Accounted
  OBVIOUS
<1>1. InFlight = {} /\ Uncounted = {} /\ Items(queue) = {} /\ Items(delivered) = {} /\ lost = {}
  BY DEF Init, InFlight, Uncounted, Items
<1> QED BY <1>1, InitType
        DEF Init, Accounted, Sequenced, Settled, ExactlyOnce, PerProducerOrder, Ascending, Precedes

LEMMA ArriveAccounted ==
  ASSUME Accounted, TypeOK', NEW p \in Producers, NEW kind \in Kinds, Arrive(p, kind)
  PROVE  Accounted'
<1> USE DEF Accounted
<1>1. Settled \subseteq Event /\ \A e \in Settled : e.seq \in Nat /\ e.src \in Producers
  BY PlacesAreEvents, BusAssumption DEF Event
<1>2. pushes' = [pushes EXCEPT ![p] = @ + 1] /\ pc' = [pc EXCEPT ![p] = "send"]
      /\ pending' = [pending EXCEPT ![p] = pending'[p]]
  BY DEF Arrive, TypeOK
<1>3. Sequenced'
  <2>1. \A q \in Producers : q # p => pushes'[q] = pushes[q] /\ pc'[q] = pc[q] /\ pending'[q] = pending[q]
    BY <1>2 DEF TypeOK
  <2>2. pushes'[p] = pushes[p] + 1 /\ pushes[p] \in Nat
    BY <1>2, BusAssumption DEF TypeOK
  <2> QED BY <1>1, <2>1, <2>2, ArriveMoves DEF Sequenced
<1>4. pending'[p] \notin Settled
  <2>1. pushes'[p] = pushes[p] + 1 /\ pushes[p] \in Nat
    BY <1>2, BusAssumption DEF TypeOK
  <2>2. \A e \in Settled : e.src = p => e.seq < pushes'[p]
    BY <1>1, <2>1 DEF Sequenced
  <2> QED BY <2>1, <2>2, ArriveMoves
<1>5. ExactlyOnce'
  <2>1. Uncounted' = Uncounted
    BY ArriveMoves DEF Uncounted
  <2>2. Apart(InFlight \union {pending'[p]}, Uncounted, Items(queue), lost, Items(delivered))
    BY <1>4, MovesKeepApart, PlacesApart DEF Settled
  <2> QED BY <2>1, <2>2, ArriveMoves, PlacesApart, PlacesApartNext
<1>6. PerProducerOrder'
  BY ArriveMoves DEF PerProducerOrder, Ascending, Precedes
<1> QED BY <1>3, <1>5, <1>6

LEMMA SendAccounted ==
  ASSUME Accounted, TypeOK', NEW p \in Producers, TrySendOk(p)
  PROVE  Accounted'
<1> USE DEF Accounted
<1>1. pending[p] \in Event /\ pending[p] \notin Settled /\ pending[p] \in InFlight
  BY PendingFacts DEF TrySendOk
<1>2. pending[p].src = p /\ pending[p].seq = pushes[p]
      /\ \A e \in Settled : e.src = p => e.seq < pending[p].seq
  BY DEF Sequenced, TrySendOk
<1>3. Settled' = Settled \union {pending[p]}
  BY SendMoves DEF Settled, Uncounted, Items
<1>4. Sequenced'
  BY <1>3, SequencedHandOver DEF TrySendOk
<1>5. ExactlyOnce'
  <2>1. Uncounted' = Uncounted /\ Items(delivered') = Items(delivered) /\ lost' = lost
    BY SendMoves DEF Uncounted
  <2>2. Apart(InFlight \ {pending[p]}, Uncounted, Items(queue) \union {pending[p]}, lost, Items(delivered))
    BY <1>1, MovesKeepApart, PlacesApart
  <2> QED BY <2>1, <2>2, SendMoves, PlacesApart, PlacesApartNext
<1>6. PerProducerOrder'
  <2>1. Ascending(Append(queue, pending[p])) /\ Precedes(delivered, Append(queue, pending[p]))
    BY <1>1, <1>2, OrderAfterAppend DEF PerProducerOrder, Settled, TypeOK
  <2> QED BY <2>1, SendMoves DEF PerProducerOrder, Ascending, Precedes
<1> QED BY <1>4, <1>5, <1>6

LEMMA EvictAccounted ==
  ASSUME Accounted, TypeOK', NEW p \in Producers, EvictOldest(p)
  PROVE  Accounted'
<1> USE DEF Accounted
<1>1. Settled' = Settled
  BY EvictMoves DEF Settled, Items
<1>2. Sequenced'
  <2>1. \A q \in Producers : pc'[q] = "idle" <=> pc[q] = "idle"
    BY DEF EvictOldest, TypeOK
  <2> QED BY <1>1, <2>1, EvictMoves, SequencedFrame
<1>3. ExactlyOnce'
  <2>1. InFlight' = InFlight
    BY EvictMoves DEF InFlight
  <2>2. Apart(InFlight, Uncounted \union {Head(queue)}, Items(queue) \ {Head(queue)}, lost, Items(delivered))
    BY EvictMoves, MovesKeepApart, PlacesApart
  <2>3. DistinctVictims(victim')
    <3>1. Head(queue) \notin Uncounted
      BY EvictMoves DEF ExactlyOnce
    <3>2. \A q \in Producers : victim[q] # None => victim[q] # Head(queue)
      BY <3>1 DEF Uncounted
    <3>3. Head(queue) # None
      BY NoneIsNoEvent, TailFacts DEF EvictOldest, TypeOK
    <3>4. \A q \in Producers : victim'[q] = IF q = p THEN Head(queue) ELSE victim[q]
      BY EvictMoves DEF TypeOK
    <3>5. DistinctVictims(victim)
      BY PlacesApart
    <3> QED BY <3>2, <3>3, <3>4, <3>5 DEF DistinctVictims
  <2> QED BY <2>1, <2>2, <2>3, EvictMoves, PlacesApartNext
<1>4. PerProducerOrder'
  <2>1. queue \in Seq(Event) /\ delivered \in Seq(Event) /\ queue # <<>>
    BY DEF EvictOldest, TypeOK
  <2>2. Ascending(Tail(queue)) /\ Precedes(delivered, Tail(queue))
    BY <2>1, OrderAfterTail DEF PerProducerOrder
  <2> QED BY <2>2, EvictMoves DEF PerProducerOrder, Ascending, Precedes
<1> QED BY <1>2, <1>3, <1>4

LEMMA CountAccounted ==
  ASSUME Accounted, TypeOK', NEW p \in Producers, CountVictim(p)
  PROVE  Accounted'
<1> USE DEF Accounted
<1>1. Settled' = Settled
  BY CountMoves DEF Settled, Items
<1>2. Sequenced'
  <2>1. \A q \in Producers : pc'[q] = "idle" <=> pc[q] = "idle"
    BY DEF CountVictim, TypeOK, AfterIteration, RetryOrGiveUp
  <2> QED BY <1>1, <2>1, CountMoves, SequencedFrame
<1>3. ExactlyOnce'
  <2>1. InFlight' = InFlight /\ Items(queue') = Items(queue) /\ Items(delivered') = Items(delivered)
    BY CountMoves DEF InFlight
  <2>2. DistinctVictims(victim')
    <3>1. victim' = [victim EXCEPT ![p] = None]
      BY CountMoves
    <3>2. DOMAIN victim = Producers
      BY DEF TypeOK
    <3>3. \A q \in Producers : victim'[q] = IF q = p THEN None ELSE victim[q]
      BY <3>1, <3>2
    <3>4. DistinctVictims(victim)
      BY PlacesApart
    <3> QED BY <3>3, <3>4 DEF DistinctVictims
  <2>3. Apart(InFlight, Uncounted \ {victim[p]}, Items(queue), lost \union {victim[p]}, Items(delivered))
    BY CountMoves, MovesKeepApart, PlacesApart
  <2> QED BY <2>1, <2>2, <2>3, CountMoves, PlacesApartNext
<1>4. PerProducerOrder'
  BY CountMoves DEF PerProducerOrder, Ascending, Precedes
<1> QED BY <1>2, <1>3, <1>4

LEMMA DropAccounted ==
  ASSUME Accounted, TypeOK', NEW p \in Producers, DropNewest(p)
  PROVE  Accounted'
<1> USE DEF Accounted
<1>1. pending[p] \in Event /\ pending[p] \notin Settled /\ pending[p] \in InFlight
  BY PendingFacts DEF DropNewest
<1>2. Settled' = Settled \union {pending[p]}
  BY DropMoves DEF Settled, Uncounted, Items
<1>3. Sequenced'
  BY <1>2, SequencedHandOver DEF DropNewest
<1>4. ExactlyOnce'
  <2>1. Uncounted' = Uncounted /\ Items(delivered') = Items(delivered) /\ Items(queue') = Items(queue)
    BY DropMoves DEF Uncounted
  <2>2. Apart(InFlight \ {pending[p]}, Uncounted, Items(queue), lost \union {pending[p]}, Items(delivered))
    BY <1>1, MovesKeepApart, PlacesApart
  <2> QED BY <2>1, <2>2, DropMoves, PlacesApart, PlacesApartNext
<1>5. PerProducerOrder'
  BY DropMoves DEF PerProducerOrder, Ascending, Precedes
<1> QED BY <1>3, <1>4, <1>5

LEMMA TakeAccounted ==
  ASSUME Accounted, TypeOK', Take, UNCHANGED <<pushing, lost>>
  PROVE  Accounted'
<1> USE DEF Accounted, pushing
<1>1. Uncounted' = Uncounted /\ InFlight' = InFlight /\ lost' = lost /\ UNCHANGED <<pending, pushes, pc, victim>>
  BY DEF Uncounted, InFlight
<1>2. Settled' = Settled
  BY <1>1, TakeMoves DEF Settled, Items
<1>3. Sequenced'
  BY <1>1, <1>2, SequencedFrame
<1>4. ExactlyOnce'
  <2>1. Apart(InFlight, Uncounted, Items(queue) \ {Head(queue)}, lost, Items(delivered) \union {Head(queue)})
    BY TakeMoves, MovesKeepApart, PlacesApart
  <2> QED BY <1>1, <2>1, TakeMoves, PlacesApart, PlacesApartNext
<1>5. PerProducerOrder'
  <2>1. queue \in Seq(Event) /\ delivered \in Seq(Event) /\ queue # <<>>
    BY DEF Take, TypeOK
  <2>2. /\ Ascending(Tail(queue)) /\ Ascending(Append(delivered, Head(queue)))
        /\ Precedes(Append(delivered, Head(queue)), Tail(queue))
    BY <2>1, OrderAfterTail DEF PerProducerOrder
  <2> QED BY <2>2 DEF Take, PerProducerOrder, Ascending, Precedes
<1> QED BY <1>3, <1>4, <1>5

\* Every other step leaves each event where it is.
LEMMA OtherAccounted ==
  ASSUME Accounted, TypeOK', UNCHANGED <<queue, pending, pushes, victim, lost, delivered>>,
         \A q \in Producers : pc'[q] = "idle" <=> pc[q] = "idle"
  PROVE  Accounted'
<1> USE DEF Accounted
<1>1. Uncounted' = Uncounted /\ InFlight' = InFlight /\ Items(queue') = Items(queue)
      /\ Items(delivered') = Items(delivered) /\ lost' = lost /\ victim' = victim
  BY DEF Uncounted, InFlight
<1>2. Settled' = Settled
  BY <1>1 DEF Settled, Items
<1>3. Sequenced'
  BY <1>2, SequencedFrame
<1>4. ExactlyOnce' /\ PerProducerOrder'
  BY <1>1 DEF ExactlyOnce, PerProducerOrder, Items, Ascending, Precedes
<1> QED BY <1>3, <1>4

LEMMA NextAccounted == Accounted /\ [Next]_vars => Accounted'
<1> SUFFICES ASSUME Accounted, [Next]_vars PROVE Accounted'
  OBVIOUS
<1>0. TypeOK /\ TypeOK'
  BY NextType DEF Accounted
<1>1. ASSUME NEW p \in Producers, NEW kind \in Kinds, Arrive(p, kind) PROVE Accounted'
  BY <1>0, <1>1, ArriveAccounted
<1>2. ASSUME NEW p \in Producers, DropSink(p) PROVE Accounted'
  BY <1>0, <1>2, OtherAccounted DEF DropSink, reading
<1>3. ASSUME NEW p \in Producers, TrySendOk(p) PROVE Accounted'
  BY <1>0, <1>3, SendAccounted
<1>4. ASSUME NEW p \in Producers, TrySendFull(p) PROVE Accounted'
  BY <1>0, <1>4, OtherAccounted DEF TrySendFull, reading, TypeOK
<1>5. ASSUME NEW p \in Producers, EvictOldest(p) PROVE Accounted'
  BY <1>0, <1>5, EvictAccounted
<1>6. ASSUME NEW p \in Producers, EvictNothing(p) PROVE Accounted'
  BY <1>0, <1>6, OtherAccounted DEF EvictNothing, reading, TypeOK, AfterIteration, RetryOrGiveUp
<1>7. ASSUME NEW p \in Producers, CountVictim(p) PROVE Accounted'
  BY <1>0, <1>7, CountAccounted
<1>8. ASSUME NEW p \in Producers, DropNewest(p) PROVE Accounted'
  BY <1>0, <1>8, DropAccounted
<1>9. CASE Consumer
  <2>1. CASE RecvFirst \/ DrainOne
    BY <1>0, <2>1, TakeAccounted DEF RecvFirst, DrainOne
  <2>2. CASE RecvDisconnected \/ DrainStart \/ DrainEnd
    BY <1>0, <2>2, OtherAccounted DEF RecvDisconnected, DrainStart, DrainEnd, pushing
  <2> QED BY <1>9, <2>1, <2>2 DEF Consumer
<1>10. CASE UNCHANGED vars
  BY <1>0, <1>10, OtherAccounted DEF vars, pushing, reading
<1> QED
  BY <1>1, <1>2, <1>3, <1>4, <1>5, <1>6, <1>7, <1>8, <1>9, <1>10
     DEF Next, Producer, Terminated

LEMMA AlwaysAccounted == Spec => []Accounted
  BY InitAccounted, NextAccounted, PTL DEF Spec

\* An event is never in two places: not with the producer and in the queue, not
\* evicted and delivered, not evicted by two producers.
THEOREM EachEventOnce == Spec => []ExactlyOnce
  BY AlwaysAccounted, PTL DEF Accounted

\* The consumer sees what is left of a producer's events in the order that
\* producer pushed them, whatever was evicted between them.
THEOREM OrderKept == Spec => []PerProducerOrder
  BY AlwaysAccounted, PTL DEF Accounted

-----------------------------------------------------------------------------
(* The counters.  Everything a push has brought in is somewhere, and only  *)
(* an arrival makes the places hold more.                                  *)

LEMMA EverywhereMoves ==
  /\ \A p \in Producers : \A kind \in Kinds :
       Accounted /\ Arrive(p, kind) =>
         /\ Everywhere' = Everywhere \union {pending'[p]}
         /\ pending'[p] \notin Everywhere
  /\ Accounted /\ [Next]_vars /\ (\A p \in Producers : \A kind \in Kinds : ~Arrive(p, kind)) =>
       /\ Everywhere' = Everywhere
       /\ UNCHANGED <<received, pushes>>
<1>1. ASSUME Accounted, NEW p \in Producers, NEW kind \in Kinds, Arrive(p, kind)
      PROVE  Everywhere' = Everywhere \union {pending'[p]} /\ pending'[p] \notin Everywhere
  <2>1. TypeOK /\ TypeOK' /\ Accounted'
    BY <1>1, NextType, ArriveAccounted DEF Accounted, Next
  <2>2. Everywhere = InFlight \union Settled /\ Everywhere' = InFlight' \union Settled'
    BY DEF Everywhere, Settled
  <2>3. pending'[p].src = p /\ pending'[p].seq = pushes'[p] /\ pushes'[p] = pushes[p] + 1
        /\ pushes[p] \in Nat
    BY <1>1, <2>1, ArriveMoves, BusAssumption DEF Arrive, TypeOK
  <2>4. pending'[p] \notin Settled
    <3> SUFFICES ASSUME pending'[p] \in Settled PROVE FALSE
      OBVIOUS
    <3>1. pending'[p].seq <= pushes[pending'[p].src]
      BY <1>1 DEF Accounted, Sequenced
    <3> QED BY <2>3, <3>1
  <2>5. pending'[p] \notin InFlight
    <3> SUFFICES ASSUME NEW q \in Producers, pending[q] = pending'[p], pending[q] # None
                 PROVE  FALSE
      BY DEF InFlight
    <3>1. pending[q].src = q /\ pending[q].seq = pushes[q]
      BY <1>1, <2>1 DEF Accounted, Sequenced, TypeOK
    <3> QED BY <2>3, <3>1
  <2> QED BY <1>1, <2>1, <2>2, <2>4, <2>5, ArriveMoves
<1>2. ASSUME Accounted, [Next]_vars, \A p \in Producers : \A kind \in Kinds : ~Arrive(p, kind)
      PROVE  Everywhere' = Everywhere /\ UNCHANGED <<received, pushes>>
  <2> USE DEF Accounted
  <2>1. ASSUME UNCHANGED <<queue, pending, victim, lost, delivered>> PROVE Everywhere' = Everywhere
    BY <2>1 DEF Everywhere, InFlight, Uncounted, Items
  <2>2. ASSUME NEW p \in Producers, DropSink(p) \/ TrySendFull(p) \/ EvictNothing(p)
        PROVE  Everywhere' = Everywhere /\ UNCHANGED <<received, pushes>>
    BY <2>1, <2>2 DEF DropSink, TrySendFull, EvictNothing, counters, reading
  <2>3. ASSUME NEW p \in Producers, TrySendOk(p)
        PROVE  Everywhere' = Everywhere /\ UNCHANGED <<received, pushes>>
    <3>1. pending[p] \in InFlight
      BY <1>2, <2>3, PendingFacts DEF TrySendOk
    <3>2. Uncounted' = Uncounted
      BY <1>2, <2>3, SendMoves DEF Uncounted
    <3> QED BY <1>2, <2>3, <3>1, <3>2, SendMoves DEF Everywhere, TrySendOk, counters
  <2>4. ASSUME NEW p \in Producers, EvictOldest(p)
        PROVE  Everywhere' = Everywhere /\ UNCHANGED <<received, pushes>>
    <3>1. InFlight' = InFlight
      BY <1>2, <2>4, EvictMoves DEF InFlight
    <3> QED BY <1>2, <2>4, <3>1, EvictMoves DEF Everywhere, EvictOldest, counters
  <2>5. ASSUME NEW p \in Producers, CountVictim(p)
        PROVE  Everywhere' = Everywhere /\ UNCHANGED <<received, pushes>>
    <3>1. InFlight' = InFlight
      BY <1>2, <2>5, CountMoves DEF InFlight
    <3> QED BY <1>2, <2>5, <3>1, CountMoves DEF Everywhere, CountVictim
  <2>6. ASSUME NEW p \in Producers, DropNewest(p)
        PROVE  Everywhere' = Everywhere /\ UNCHANGED <<received, pushes>>
    <3>1. pending[p] \in InFlight
      BY <1>2, <2>6, PendingFacts DEF DropNewest
    <3>2. Uncounted' = Uncounted
      BY <1>2, <2>6, DropMoves DEF Uncounted
    <3> QED BY <1>2, <2>6, <3>1, <3>2, DropMoves DEF Everywhere, DropNewest
  <2>7. ASSUME Take, UNCHANGED <<pushing, lost>> PROVE Everywhere' = Everywhere
    <3>1. InFlight' = InFlight /\ Uncounted' = Uncounted
      BY <2>7 DEF InFlight, Uncounted, pushing
    <3> QED BY <1>2, <2>7, <3>1, TakeMoves DEF Everywhere
  <2>8. ASSUME Consumer PROVE Everywhere' = Everywhere /\ UNCHANGED <<received, pushes>>
    BY <2>1, <2>7, <2>8
       DEF Consumer, RecvFirst, DrainOne, RecvDisconnected, DrainStart, DrainEnd, pushing, counters
  <2>9. CASE UNCHANGED vars
    BY <2>1, <2>9 DEF vars, counters, pushing, reading
  <2> QED
    BY <1>2, <2>2, <2>3, <2>4, <2>5, <2>6, <2>8, <2>9 DEF Next, Producer, Terminated
<1> QED BY <1>1, <1>2

\* No event disappears, whichever way the retries and receives interleave.
THEOREM NoEventVanishes == Spec => []NothingVanishes
<1>1. Init => NothingVanishes
  BY DEF Init, NothingVanishes
<1>2. Accounted /\ NothingVanishes /\ [Next]_vars => NothingVanishes'
  <2> SUFFICES ASSUME Accounted, NothingVanishes, [Next]_vars PROVE NothingVanishes'
    OBVIOUS
  <2>1. ASSUME NEW p \in Producers, NEW kind \in Kinds, Arrive(p, kind) PROVE NothingVanishes'
    <3>1. pushes' = [pushes EXCEPT ![p] = @ + 1] /\ pushes \in [Producers -> Nat]
      BY <2>1, BusAssumption DEF Arrive, Accounted, TypeOK
    <3>2. pending'[p].src = p /\ pending'[p].seq = pushes'[p] /\ pending'[p] \in Everywhere'
      BY <2>1, ArriveMoves, EverywhereMoves DEF Accounted
    <3>3. Everywhere \subseteq Everywhere'
      BY <2>1, EverywhereMoves
    <3> SUFFICES ASSUME NEW q \in Producers, NEW k \in 1..pushes'[q]
                 PROVE  \E e \in Everywhere' : e.src = q /\ e.seq = k
      BY DEF NothingVanishes
    <3>4. CASE q = p /\ k = pushes'[p]
      BY <3>2, <3>4
    <3>5. CASE ~(q = p /\ k = pushes'[p])
      <4>1. k \in 1..pushes[q]
        BY <3>1, <3>5
      <4> QED BY <4>1, <3>3 DEF NothingVanishes
    <3> QED BY <3>4, <3>5
  <2>2. CASE \A p \in Producers : \A kind \in Kinds : ~Arrive(p, kind)
    BY <2>2, EverywhereMoves DEF NothingVanishes
  <2> QED BY <2>1, <2>2
<1> QED BY <1>1, <1>2, AlwaysAccounted, PTL DEF Spec

(* Adding one event to a set adds one to its count on its own channel.     *)
LEMMA CountAdd ==
  ASSUME NEW S, IsFiniteSet(S), NEW e, e \notin S, NEW c
  PROVE  /\ IsFiniteSet(S \union {e})
         /\ IsFiniteSet(On(c, S))
         /\ Cardinality(On(c, S)) \in Nat
         /\ Cardinality(On(c, S \union {e})) =
              IF ChannelOf(e.kind) = c THEN Cardinality(On(c, S)) + 1 ELSE Cardinality(On(c, S))
<1>1. IsFiniteSet(On(c, S))
  BY FS_Subset DEF On
<1>2. On(c, S \union {e}) = IF ChannelOf(e.kind) = c THEN On(c, S) \union {e} ELSE On(c, S)
  BY DEF On
<1>3. e \notin On(c, S)
  BY DEF On
<1> QED BY <1>1, <1>2, <1>3, FS_AddElement, FS_CardinalityType

FinitelyMany == IsFiniteSet(Everywhere) /\ IsFiniteSet(lost)

LEMMA InitCounted == Init => FinitelyMany /\ CountersExact
<1> SUFFICES ASSUME Init PROVE FinitelyMany /\ CountersExact
  OBVIOUS
<1>1. Everywhere = {} /\ lost = {}
  BY DEF Init, Everywhere, InFlight, Uncounted, Items
<1>2. \A c : On(c, {}) = {}
  BY DEF On
<1> QED BY <1>1, <1>2, FS_EmptySet DEF Init, FinitelyMany, CountersExact

LEMMA NextCounted ==
  Accounted /\ FinitelyMany /\ CountersExact /\ [Next]_vars => FinitelyMany' /\ CountersExact'
<1> SUFFICES ASSUME Accounted, FinitelyMany, CountersExact, [Next]_vars PROVE FinitelyMany' /\ CountersExact'
  OBVIOUS
<1>1. IsFiniteSet(Everywhere') /\ \A c \in Channel : received'[c] = Cardinality(On(c, Everywhere'))
  <2>1. ASSUME NEW p \in Producers, NEW kind \in Kinds, Arrive(p, kind)
        PROVE  IsFiniteSet(Everywhere') /\ \A c \in Channel : received'[c] = Cardinality(On(c, Everywhere'))
    <3>1. Everywhere' = Everywhere \union {pending'[p]} /\ pending'[p] \notin Everywhere
      BY <2>1, EverywhereMoves
    <3>2. pending'[p].kind = kind
      BY <2>1, ArriveMoves DEF Accounted
    <3>3. \A c \in Channel : received'[c] = IF ChannelOf(kind) = c THEN received[c] + 1 ELSE received[c]
      BY <2>1 DEF Arrive, Accounted, TypeOK
    <3> DEFINE S == Everywhere  e == pending'[p]
    <3>4. IsFiniteSet(S) /\ e \notin S /\ Everywhere' = S \union {e} /\ ChannelOf(e.kind) = ChannelOf(kind)
      BY <3>1, <3>2 DEF FinitelyMany
    <3>5. \A c \in Channel : received[c] = Cardinality(On(c, S))
      BY DEF CountersExact
    <3> HIDE DEF S, e
    <3>6. IsFiniteSet(S \union {e})
      BY <3>4, CountAdd
    <3>7. \A c \in Channel : Cardinality(On(c, S \union {e})) =
            IF ChannelOf(e.kind) = c THEN Cardinality(On(c, S)) + 1 ELSE Cardinality(On(c, S))
      BY <3>4, CountAdd
    <3>8. \A c \in Channel : received'[c] = Cardinality(On(c, S \union {e}))
      BY <3>3, <3>4, <3>5, <3>7
    <3> QED BY <3>4, <3>6, <3>8
  <2>2. CASE \A p \in Producers : \A kind \in Kinds : ~Arrive(p, kind)
    BY <2>2, EverywhereMoves DEF FinitelyMany, CountersExact
  <2> QED BY <2>1, <2>2
<1>2. IsFiniteSet(lost') /\ \A c \in Channel : dropped'[c] = Cardinality(On(c, lost'))
  <2>1. ASSUME NEW e, e \notin lost, lost' = lost \union {e},
               dropped' = [dropped EXCEPT ![ChannelOf(e.kind)] = @ + 1]
        PROVE  IsFiniteSet(lost') /\ \A c \in Channel : dropped'[c] = Cardinality(On(c, lost'))
    <3>1. \A c \in Channel : dropped'[c] = IF ChannelOf(e.kind) = c THEN dropped[c] + 1 ELSE dropped[c]
      BY <2>1 DEF Accounted, TypeOK
    <3>2. IsFiniteSet(lost) /\ \A c \in Channel : dropped[c] = Cardinality(On(c, lost))
      BY DEF FinitelyMany, CountersExact
    <3>3. IsFiniteSet(lost \union {e})
      BY <2>1, <3>2, CountAdd
    <3>4. \A c \in Channel : Cardinality(On(c, lost \union {e})) =
            IF ChannelOf(e.kind) = c THEN Cardinality(On(c, lost)) + 1 ELSE Cardinality(On(c, lost))
      BY <2>1, <3>2, CountAdd
    <3>5. \A c \in Channel : dropped'[c] = Cardinality(On(c, lost \union {e}))
      BY <3>1, <3>2, <3>4
    <3> QED BY <2>1, <3>3, <3>5
  <2>2. ASSUME NEW p \in Producers, CountVictim(p)
        PROVE  IsFiniteSet(lost') /\ \A c \in Channel : dropped'[c] = Cardinality(On(c, lost'))
    <3>1. victim[p] \notin lost
      BY <2>2, CountMoves DEF Accounted, ExactlyOnce
    <3> QED BY <2>1, <2>2, <3>1 DEF CountVictim, VictimChannel
  <2>3. ASSUME NEW p \in Producers, DropNewest(p)
        PROVE  IsFiniteSet(lost') /\ \A c \in Channel : dropped'[c] = Cardinality(On(c, lost'))
    <3>1. pending[p] \notin lost
      BY <2>3, PendingFacts DEF DropNewest, Accounted, Settled
    <3> QED BY <2>1, <2>3, <3>1 DEF DropNewest
  <2>4. ASSUME UNCHANGED <<lost, dropped>>
        PROVE  IsFiniteSet(lost') /\ \A c \in Channel : dropped'[c] = Cardinality(On(c, lost'))
    BY <2>4 DEF FinitelyMany, CountersExact
  <2>5. (\E p \in Producers : CountVictim(p) \/ DropNewest(p)) \/ UNCHANGED <<lost, dropped>>
    BY DEF Next, Producer, Consumer, Terminated, vars, counters, pushing, reading, Arrive, DropSink,
           TrySendOk, TrySendFull, EvictOldest, EvictNothing, RecvFirst, RecvDisconnected,
           DrainStart, DrainOne, DrainEnd
  <2> QED BY <2>2, <2>3, <2>4, <2>5
<1> QED BY <1>1, <1>2 DEF FinitelyMany, CountersExact

\* On every channel received counts each event pushed and dropped each event
\* lost, exactly once.
THEOREM CountersAreExact == Spec => [](FinitelyMany /\ CountersExact)
  BY InitCounted, NextCounted, AlwaysAccounted, PTL DEF Spec

-----------------------------------------------------------------------------
(* What one push can cost. *)

\* Every completed iteration of the retry loop evicts at most one event, and
\* the flag that becomes Push::Evicted is set exactly when one was.
Costed(p) ==
  /\ IsFiniteSet(cost[p])
  /\ pc[p] \in {"send", "full", "count"} => attempt[p] < EvictRetries
  /\ attempt[p] <= EvictRetries
  /\ Cardinality(cost[p]) <= IF pc[p] = "idle" THEN attempt[p] + 1 ELSE attempt[p]
  /\ pc[p] # "idle" => result[p] = "none" /\ (evicted[p] = TRUE <=> cost[p] # {})
  /\ result[p] = "Queued" => cost[p] = {}
  /\ result[p] = "Evicted" => cost[p] # {}

LEMMA CostAdd ==
  ASSUME NEW S, IsFiniteSet(S), NEW e
  PROVE  /\ IsFiniteSet(S \union {e})
         /\ Cardinality(S) \in Nat
         /\ Cardinality(S \union {e}) \in Nat
         /\ Cardinality(S \union {e}) <= Cardinality(S) + 1
         /\ S \union {e} # {}
<1>1. Cardinality(S) \in Nat /\ S \union {e} # {}
  BY FS_CardinalityType
<1>2. CASE e \in S
  <2>1. S \union {e} = S
    BY <1>2
  <2>2. IsFiniteSet(S \union {e}) /\ Cardinality(S \union {e}) = Cardinality(S)
    BY <2>1
  <2> QED BY <1>1, <2>2
<1>3. CASE e \notin S
  <2>1. IsFiniteSet(S \union {e}) /\ Cardinality(S \union {e}) = Cardinality(S) + 1
    BY <1>3, FS_AddElement
  <2> QED BY <1>1, <2>1
<1> QED BY <1>2, <1>3

\* What a push has cost so far and what it will answer are kept together: Costed.
LEMMA PushAccount == Spec => [](PushCostBounded /\ ResultHonest)
<1> DEFINE Inv == \A p \in Producers : Costed(p)
<1>1. Init => Inv
  BY FS_EmptySet, BusAssumption DEF Init, Costed
<1>2. TypeOK /\ Inv /\ [Next]_vars => Inv'
  <2> SUFFICES ASSUME TypeOK, Inv, [Next]_vars PROVE Inv'
    OBVIOUS
  <2> USE BusAssumption
  \* A step of p alone: what it leaves p with is all there is to check.
  <2>0. ASSUME NEW p \in Producers,
               \A q \in Producers : q # p =>
                 UNCHANGED <<cost[q], pc[q], attempt[q], result[q], evicted[q]>>,
               Costed(p)'
        PROVE  Inv'
    BY <2>0 DEF Costed
  <2>1. ASSUME NEW p \in Producers, NEW kind \in Kinds, Arrive(p, kind) PROVE Inv'
    <3>1. /\ cost'[p] = {} /\ pc'[p] = "send" /\ attempt'[p] = 0 /\ result'[p] = "none"
          /\ evicted'[p] = FALSE
      BY <2>1 DEF Arrive, TypeOK
    <3>2. \A q \in Producers : q # p => UNCHANGED <<cost[q], pc[q], attempt[q], result[q], evicted[q]>>
      BY <2>1 DEF Arrive, TypeOK
    <3>3. IsFiniteSet(cost'[p]) /\ Cardinality(cost'[p]) = 0
      BY <3>1, FS_EmptySet
    <3>4. Costed(p)'
      BY <3>1, <3>3 DEF Costed
    <3> QED BY <2>0, <3>2, <3>4
  <2>2. ASSUME NEW p \in Producers, TrySendOk(p) PROVE Inv'
    <3>1. /\ UNCHANGED <<cost, attempt, evicted>> /\ pc'[p] = "idle"
          /\ result'[p] = "Evicted" => evicted[p] = TRUE
          /\ result'[p] = "Queued" => evicted[p] # TRUE
          /\ pc[p] = "send" /\ attempt[p] \in Nat
      BY <2>2 DEF TrySendOk, TypeOK, Returned
    <3>2. \A q \in Producers : q # p => UNCHANGED <<cost[q], pc[q], attempt[q], result[q], evicted[q]>>
      BY <2>2 DEF TrySendOk, TypeOK
    <3>3. Cardinality(cost[p]) \in Nat
      BY FS_CardinalityType DEF Costed
    <3>4. evicted[p] = TRUE <=> cost[p] # {}
      BY <3>1 DEF Costed
    <3>5. /\ IsFiniteSet(cost[p]) /\ attempt[p] <= EvictRetries
          /\ Cardinality(cost[p]) <= attempt[p] + 1
      BY <3>1, <3>3 DEF Costed
    <3>6. Costed(p)'
      BY <3>1, <3>4, <3>5 DEF Costed
    <3> QED BY <2>0, <3>2, <3>6
  <2>3. ASSUME NEW p \in Producers, TrySendFull(p) \/ EvictOldest(p) PROVE Inv'
    <3>1. UNCHANGED <<cost, attempt, evicted, result>> /\ pc[p] \in {"send", "full"}
          /\ pc'[p] \in {"full", "count"}
      BY <2>3 DEF TrySendFull, EvictOldest, TypeOK
    <3>2. \A q \in Producers : q # p => UNCHANGED <<cost[q], pc[q], attempt[q], result[q], evicted[q]>>
      BY <2>3 DEF TrySendFull, EvictOldest, TypeOK
    <3>3. Costed(p)'
      BY <3>1 DEF Costed
    <3> QED BY <2>0, <3>2, <3>3
  <2>4. ASSUME NEW p \in Producers, EvictNothing(p) PROVE Inv'
    <3>1. /\ UNCHANGED <<cost, evicted, result>> /\ pc[p] = "full"
          /\ attempt'[p] = attempt[p] + 1 /\ attempt[p] \in Nat
          /\ pc'[p] = (IF attempt[p] + 1 < EvictRetries THEN "send" ELSE "give_up")
      BY <2>4 DEF EvictNothing, AfterIteration, RetryOrGiveUp, TypeOK
    <3>2. \A q \in Producers : q # p => UNCHANGED <<cost[q], pc[q], attempt[q], result[q], evicted[q]>>
      BY <2>4 DEF EvictNothing, AfterIteration, TypeOK
    <3>3. Cardinality(cost[p]) \in Nat
      BY FS_CardinalityType DEF Costed
    <3>4. Costed(p)'
      BY <3>1, <3>3 DEF Costed
    <3> QED BY <2>0, <3>2, <3>4
  <2>5. ASSUME NEW p \in Producers, CountVictim(p) PROVE Inv'
    <3>1. /\ UNCHANGED result /\ pc[p] = "count"
          /\ cost'[p] = cost[p] \union {victim[p]} /\ evicted'[p] = TRUE
          /\ attempt'[p] = attempt[p] + 1 /\ attempt[p] \in Nat
          /\ pc'[p] = (IF attempt[p] + 1 < EvictRetries THEN "send" ELSE "give_up")
      BY <2>5 DEF CountVictim, AfterIteration, RetryOrGiveUp, TypeOK
    <3>2. \A q \in Producers : q # p => UNCHANGED <<cost[q], pc[q], attempt[q], result[q], evicted[q]>>
      BY <2>5 DEF CountVictim, AfterIteration, TypeOK
    <3>3. /\ IsFiniteSet(cost'[p]) /\ Cardinality(cost[p]) \in Nat /\ Cardinality(cost'[p]) \in Nat
          /\ Cardinality(cost'[p]) <= Cardinality(cost[p]) + 1 /\ cost'[p] # {}
      <4>1. IsFiniteSet(cost[p])
        BY DEF Costed
      <4> DEFINE C == cost[p] \union {victim[p]}
      <4>2. /\ IsFiniteSet(C) /\ Cardinality(cost[p]) \in Nat /\ Cardinality(C) \in Nat
            /\ Cardinality(C) <= Cardinality(cost[p]) + 1 /\ C # {}
        BY <4>1, CostAdd
      <4>3. cost'[p] = C
        BY <3>1
      <4> QED BY <4>2, <4>3, Zenon
    <3>4. Costed(p)'
      BY <3>1, <3>3 DEF Costed
    <3> QED BY <2>0, <3>2, <3>4
  <2>6. ASSUME NEW p \in Producers, DropNewest(p) PROVE Inv'
    <3>1. /\ UNCHANGED <<attempt, evicted>> /\ pc[p] = "give_up" /\ pc'[p] = "idle"
          /\ cost'[p] = cost[p] \union {pending[p]} /\ result'[p] = "Evicted" /\ attempt[p] \in Nat
      BY <2>6 DEF DropNewest, TypeOK
    <3>2. \A q \in Producers : q # p => UNCHANGED <<cost[q], pc[q], attempt[q], result[q], evicted[q]>>
      BY <2>6 DEF DropNewest, TypeOK
    <3>3. /\ IsFiniteSet(cost'[p]) /\ Cardinality(cost[p]) \in Nat /\ Cardinality(cost'[p]) \in Nat
          /\ Cardinality(cost'[p]) <= Cardinality(cost[p]) + 1 /\ cost'[p] # {}
      <4>1. IsFiniteSet(cost[p])
        BY DEF Costed
      <4> DEFINE C == cost[p] \union {pending[p]}
      <4>2. /\ IsFiniteSet(C) /\ Cardinality(cost[p]) \in Nat /\ Cardinality(C) \in Nat
            /\ Cardinality(C) <= Cardinality(cost[p]) + 1 /\ C # {}
        BY <4>1, CostAdd
      <4>3. cost'[p] = C
        BY <3>1
      <4> QED BY <4>2, <4>3, Zenon
    <3>4. Costed(p)'
      BY <3>1, <3>3 DEF Costed
    <3> QED BY <2>0, <3>2, <3>4
  <2>7. ASSUME UNCHANGED <<cost, pc, attempt, evicted, result>> PROVE Inv'
    BY <2>7 DEF Costed
  <2>8. CASE Consumer \/ (\E p \in Producers : DropSink(p)) \/ UNCHANGED vars
    BY <2>7, <2>8 DEF Consumer, RecvFirst, RecvDisconnected, DrainStart, DrainOne, DrainEnd,
                      DropSink, vars, pushing
  <2> QED
    BY <2>1, <2>2, <2>3, <2>4, <2>5, <2>6, <2>8 DEF Next, Producer, Terminated
<1>3. Inv => ResultHonest
  BY DEF ResultHonest, Costed
<1>4. TypeOK /\ Inv => PushCostBounded
  <2> SUFFICES ASSUME TypeOK, Inv, NEW p \in Producers
               PROVE  Cardinality(cost[p]) <= EvictRetries + 1
    BY DEF PushCostBounded
  <2>1. Cardinality(cost[p]) \in Nat /\ attempt[p] \in Nat /\ EvictRetries \in Nat
    BY FS_CardinalityType, BusAssumption DEF Costed, TypeOK
  <2> QED BY <2>1 DEF Costed
<1> QED BY <1>1, <1>2, <1>3, <1>4, TypeCorrect, PTL DEF Spec

\* A push costs at most its own event and EVICT_RETRIES others: PushCostBounded.
THEOREM PushCost == Spec => []PushCostBounded
BY PushAccount, PTL

\* A push answers Queued only if it cost nothing, and Evicted only if it cost something:
\* ResultHonest.
THEOREM PushResult == Spec => []ResultHonest
BY PushAccount, PTL

-----------------------------------------------------------------------------
(* The refinement. *)

\* The queue never holds more than the capacity.
THEOREM CapacityKept == Spec => []CapacityRespected
<1>1. Init => CapacityRespected
  BY BusAssumption DEF Init, CapacityRespected
<1>2. TypeOK /\ CapacityRespected /\ [Next]_vars => CapacityRespected'
  <2> SUFFICES ASSUME TypeOK, CapacityRespected, [Next]_vars PROVE CapacityRespected'
    OBVIOUS
  <2>1. CASE \E p \in Producers : TrySendOk(p)
    <3>1. PICK p \in Producers : TrySendOk(p)
      BY <2>1
    <3>2. queue' = Append(queue, pending[p]) /\ pending[p] \in Event /\ Len(queue) < Capacity
      BY <3>1 DEF TrySendOk, TypeOK, PushBack, Room
    <3> QED BY <3>2, AppendFacts, BusAssumption DEF CapacityRespected, TypeOK
  <2>2. CASE queue # <<>> /\ queue' = Tail(queue)
    BY <2>2, TailFacts, BusAssumption DEF CapacityRespected, TypeOK
  <2>3. CASE UNCHANGED queue
    BY <2>3 DEF CapacityRespected
  <2>4. (\E p \in Producers : TrySendOk(p)) \/ (queue # <<>> /\ queue' = Tail(queue)) \/ UNCHANGED queue
    BY DEF Next, Producer, Consumer, Terminated, vars, Arrive, DropSink, TrySendFull, EvictOldest,
           EvictNothing, CountVictim, DropNewest, RecvFirst, RecvDisconnected, DrainStart,
           DrainOne, DrainEnd, Take
  <2> QED BY <2>1, <2>2, <2>3, <2>4
<1> QED BY <1>1, <1>2, TypeCorrect, PTL DEF Spec

\* A batch never outgrows what the bus can hold and its one blocking event, for
\* any capacity, however fast the producers refill the queue.
THEOREM BatchStaysBounded == Spec => []BatchBounded
<1> DEFINE Fits == /\ batch <= Capacity + 1
                   /\ consumer = "drain" => drained <= Capacity /\ batch <= drained + 1
<1>1. Init => Fits
  BY BusAssumption DEF Init
<1>2. TypeOK /\ Fits /\ [Next]_vars => Fits'
  <2> SUFFICES ASSUME TypeOK, Fits, [Next]_vars PROVE Fits'
    OBVIOUS
  <2>0. batch \in Nat /\ drained \in Nat /\ Capacity \in Nat /\ Capacity > 0
    BY BusAssumption DEF TypeOK
  <2>1. CASE RecvFirst
    BY <2>0, <2>1 DEF RecvFirst
  <2>2. CASE DrainStart
    BY <2>0, <2>2 DEF DrainStart
  <2>3. CASE DrainOne
    BY <2>0, <2>3 DEF DrainOne, DrainFull
  <2>4. CASE DrainEnd \/ RecvDisconnected
    BY <2>0, <2>4 DEF DrainEnd, RecvDisconnected
  <2>5. CASE UNCHANGED reading
    BY <2>5 DEF reading
  <2>6. RecvFirst \/ DrainStart \/ DrainOne \/ DrainEnd \/ RecvDisconnected \/ UNCHANGED reading
    BY DEF Next, Producer, Consumer, Terminated, vars, reading, Arrive, DropSink, TrySendOk,
           TrySendFull, EvictOldest, EvictNothing, CountVictim, DropNewest
  <2> QED BY <2>1, <2>2, <2>3, <2>4, <2>5, <2>6
<1>3. Fits => BatchBounded
  BY DEF BatchBounded
<1> QED BY <1>1, <1>2, <1>3, TypeCorrect, PTL DEF Spec

\* Every step of the bus is a step of the abstract lossy queue or leaves it as
\* it is: producers' retries, evictions by other threads and the consumer never
\* add up to anything but accepting, delivering in order, and losing the oldest
\* or the newest while somebody is pushing.
THEOREM BusIsLossyQueue == Spec => ImplementsLossyQueue
<1>1. Init => Promise!Init
  BY DEF Init, Promise!Init, InFlight, Uncounted
<1>2. Accounted /\ Accounted' /\ [Next]_vars => [Promise!Next]_(Promise!vars)
  <2> SUFFICES ASSUME Accounted, Accounted', [Next]_vars
               PROVE  Promise!Next \/ UNCHANGED Promise!vars
    OBVIOUS
  <2> USE DEF Accounted
  <2>1. ASSUME NEW p \in Producers, NEW kind \in Kinds, Arrive(p, kind) PROVE Promise!Next
    <3>1. pending'[p] \notin Promise!Seen /\ pending'[p] \in Event
      BY <2>1, EverywhereMoves, ArriveMoves DEF Everywhere, Promise!Seen, Items, Promise!Items
    <3>2. Promise!Arrive(pending'[p])
      BY <2>1, <3>1, ArriveMoves DEF Promise!Arrive, Uncounted
    <3> QED BY <3>1, <3>2 DEF Promise!Next
  <2>2. ASSUME NEW p \in Producers, TrySendOk(p) PROVE Promise!Next
    <3>1. pending[p] \in InFlight /\ pending[p] \in Event
      BY <2>2, PendingFacts DEF TrySendOk
    <3>2. Promise!Accept(pending[p])
      BY <2>2, <3>1, SendMoves DEF Promise!Accept, Uncounted, TrySendOk, Room
    <3> QED BY <3>1, <3>2 DEF Promise!Next
  <2>3. ASSUME NEW p \in Producers, EvictOldest(p) PROVE Promise!Next
    <3>1. InFlight # {}
      BY <2>3, PendingFacts DEF EvictOldest
    <3>2. InFlight' = InFlight
      BY <2>3, EvictMoves DEF InFlight
    <3>3. Promise!LoseOldest
      BY <2>3, <3>1, <3>2, EvictMoves DEF Promise!LoseOldest, EvictOldest
    <3> QED BY <3>3 DEF Promise!Next
  <2>4. ASSUME NEW p \in Producers, CountVictim(p) PROVE UNCHANGED Promise!vars
    <3>1. InFlight' = InFlight
      BY <2>4, CountMoves DEF InFlight
    <3> QED BY <2>4, <3>1, CountMoves DEF Promise!vars
  <2>5. ASSUME NEW p \in Producers, DropNewest(p) PROVE Promise!Next
    <3>1. pending[p] \in InFlight /\ pending[p] \in Event
      BY <2>5, PendingFacts DEF DropNewest
    <3>2. Promise!LoseNewest(pending[p])
      BY <2>5, <3>1, DropMoves DEF Promise!LoseNewest, Uncounted
    <3> QED BY <3>1, <3>2 DEF Promise!Next
  <2>6. ASSUME Take, UNCHANGED <<pushing, lost>> PROVE Promise!Next
    BY <2>6 DEF Take, Promise!Next, Promise!Deliver, pushing, InFlight, Uncounted
  <2>7. ASSUME UNCHANGED <<queue, pending, victim, lost, delivered>> PROVE UNCHANGED Promise!vars
    BY <2>7 DEF Promise!vars, InFlight, Uncounted
  <2>8. ASSUME NEW p \in Producers, DropSink(p) \/ TrySendFull(p) \/ EvictNothing(p)
        PROVE  UNCHANGED Promise!vars
    BY <2>7, <2>8 DEF DropSink, TrySendFull, EvictNothing, reading
  <2>9. ASSUME Consumer PROVE Promise!Next \/ UNCHANGED Promise!vars
    BY <2>6, <2>7, <2>9
       DEF Consumer, RecvFirst, DrainOne, RecvDisconnected, DrainStart, DrainEnd, pushing
  <2>10. CASE UNCHANGED vars
    BY <2>7, <2>10 DEF vars, pushing, reading
  <2> QED
    BY <2>1, <2>2, <2>3, <2>4, <2>5, <2>8, <2>9, <2>10 DEF Next, Producer, Terminated
<1> QED BY <1>1, <1>2, AlwaysAccounted, PTL DEF Spec, ImplementsLossyQueue, Promise!Spec

-----------------------------------------------------------------------------
(* The counters line.  A counter's updates have one order (arrivals,       *)
(* losses), and a value of the counter is a prefix of it.  What a view is  *)
(* sure of lies in the prefix that it knows; updates only append, so it    *)
(* stays there, and of two prefixes one holds the other, so two views that *)
(* are joined are sure of what either was.                                 *)

View == [received : [Channel -> Nat], dropped : [Channel -> Nat], heard : SUBSET Event]

\* The first n of the updates s of a counter.
First(s, n) == {s[i] : i \in 1..n}

\* The view v covers the events S and the losses it has heard of, in the
\* orders a of the arrivals and l of the losses.
Covers(v, S, a, l) ==
  \A c \in Channel :
    /\ v.received[c] <= Len(a[c])
    /\ v.dropped[c] <= Len(l[c])
    /\ On(c, S) \subseteq First(a[c], v.received[c])
    /\ On(c, v.heard) \subseteq First(l[c], v.dropped[c])

Orders == [Channel -> Seq(Event)]

Extends(a, b) ==
  \A c \in Channel :
    /\ Len(a[c]) <= Len(b[c])
    /\ \A i \in 1..Len(a[c]) : b[c][i] = a[c][i]

ReportTypes ==
  /\ known \in [Producers -> View]
  /\ carried \in Seq(View)
  /\ Len(carried) = Len(queue)
  /\ seen \in View
  /\ arrivals \in Orders
  /\ losses \in Orders
  /\ report \in [queued : Nat, dropped : [Channel -> Nat], received : [Channel -> Nat]]
  /\ \A c \in Channel : received[c] = Len(arrivals[c]) /\ dropped[c] = Len(losses[c])

InHand(e) == {e} \ {None}

ViewsCover ==
  /\ \A p \in Producers : Covers(known[p], InHand(pending[p]), arrivals, losses)
  /\ \A i \in 1..Len(queue) : Covers(carried[i], {queue[i]}, arrivals, losses)
  /\ Covers(seen, Items(delivered), arrivals, losses)

ReportInv == TypeOK /\ ReportTypes /\ ViewsCover

LEMMA CoversGrows ==
  ASSUME NEW v \in View, NEW S, NEW T \in SUBSET S,
         NEW a \in Orders, NEW l \in Orders, NEW b \in Orders, NEW m \in Orders,
         Extends(a, b), Extends(l, m), Covers(v, S, a, l)
  PROVE  Covers(v, T, b, m)
<1> SUFFICES ASSUME NEW c \in Channel
             PROVE  /\ v.received[c] <= Len(b[c])
                    /\ v.dropped[c] <= Len(m[c])
                    /\ On(c, T) \subseteq First(b[c], v.received[c])
                    /\ On(c, v.heard) \subseteq First(m[c], v.dropped[c])
  BY DEF Covers
<1>1. v.received[c] \in Nat /\ v.dropped[c] \in Nat
  BY DEF View
<1>2. a[c] \in Seq(Event) /\ b[c] \in Seq(Event) /\ l[c] \in Seq(Event) /\ m[c] \in Seq(Event)
  BY DEF Orders
<1>3. Len(a[c]) \in Nat /\ Len(b[c]) \in Nat /\ Len(l[c]) \in Nat /\ Len(m[c]) \in Nat
  BY <1>2
<1>4. /\ v.received[c] <= Len(a[c])
      /\ v.dropped[c] <= Len(l[c])
      /\ On(c, S) \subseteq First(a[c], v.received[c])
      /\ On(c, v.heard) \subseteq First(l[c], v.dropped[c])
  BY DEF Covers
<1>5. First(a[c], v.received[c]) = First(b[c], v.received[c])
  <2>1. \A i \in 1..v.received[c] : b[c][i] = a[c][i]
    BY <1>1, <1>3, <1>4 DEF Extends
  <2> QED BY <2>1 DEF First
<1>6. First(l[c], v.dropped[c]) = First(m[c], v.dropped[c])
  <2>1. \A i \in 1..v.dropped[c] : m[c][i] = l[c][i]
    BY <1>1, <1>3, <1>4 DEF Extends
  <2> QED BY <2>1 DEF First
<1>7. On(c, T) \subseteq On(c, S)
  BY DEF On
<1>8. v.received[c] <= Len(b[c]) /\ v.dropped[c] <= Len(m[c])
  BY <1>1, <1>3, <1>4 DEF Extends
<1> QED BY <1>4, <1>5, <1>6, <1>7, <1>8

LEMMA FirstMore ==
  ASSUME NEW s, NEW n \in Nat, NEW k \in Nat, n <= k
  PROVE  First(s, n) \subseteq First(s, k)
BY DEF First

\* A thread that reads a value no older than the one it knows, and none that
\* the counter has not had, loses nothing of what it is sure of.
LEMMA CoversRaise ==
  ASSUME NEW v \in View, NEW w \in View, NEW S, NEW a \in Orders, NEW l \in Orders,
         Covers(v, S, a, l), w.heard = v.heard,
         \A c \in Channel : /\ v.received[c] <= w.received[c]
                            /\ w.received[c] <= Len(a[c])
                            /\ v.dropped[c] <= w.dropped[c]
                            /\ w.dropped[c] <= Len(l[c])
  PROVE  Covers(w, S, a, l)
<1> SUFFICES ASSUME NEW c \in Channel
             PROVE  /\ On(c, S) \subseteq First(a[c], w.received[c])
                    /\ On(c, w.heard) \subseteq First(l[c], w.dropped[c])
  BY DEF Covers
<1>1. v.received[c] \in Nat /\ v.dropped[c] \in Nat /\ w.received[c] \in Nat /\ w.dropped[c] \in Nat
  BY DEF View
<1>2. First(a[c], v.received[c]) \subseteq First(a[c], w.received[c])
  BY <1>1, FirstMore
<1>3. First(l[c], v.dropped[c]) \subseteq First(l[c], w.dropped[c])
  BY <1>1, FirstMore
<1> QED BY <1>2, <1>3 DEF Covers

LEMMA JoinView ==
  ASSUME NEW v \in View, NEW w \in View
  PROVE  /\ Join(v, w) \in View
         /\ Join(v, w).heard = v.heard \union w.heard
         /\ \A c \in Channel :
              /\ v.received[c] <= Join(v, w).received[c] /\ w.received[c] <= Join(v, w).received[c]
              /\ v.dropped[c] <= Join(v, w).dropped[c] /\ w.dropped[c] <= Join(v, w).dropped[c]
              /\ Join(v, w).received[c] \in {v.received[c], w.received[c]}
              /\ Join(v, w).dropped[c] \in {v.dropped[c], w.dropped[c]}
<1>1. \A f, g \in [Channel -> Nat] :
        /\ Later(f, g) \in [Channel -> Nat]
        /\ \A c \in Channel : /\ f[c] <= Later(f, g)[c]
                              /\ g[c] <= Later(f, g)[c]
                              /\ Later(f, g)[c] \in {f[c], g[c]}
  BY DEF Later
<1>2. /\ v.received \in [Channel -> Nat] /\ w.received \in [Channel -> Nat]
      /\ v.dropped \in [Channel -> Nat] /\ w.dropped \in [Channel -> Nat]
      /\ v.heard \subseteq Event /\ w.heard \subseteq Event
  BY DEF View
<1>3. /\ Join(v, w).received = Later(v.received, w.received)
      /\ Join(v, w).dropped = Later(v.dropped, w.dropped)
      /\ Join(v, w).heard = v.heard \union w.heard
  BY DEF Join
<1>4. Join(v, w) \in View
  BY <1>1, <1>2 DEF Join, View
<1> QED BY <1>1, <1>2, <1>3, <1>4

LEMMA CoversJoin ==
  ASSUME NEW v \in View, NEW w \in View, NEW S, NEW T, NEW a \in Orders, NEW l \in Orders,
         Covers(v, S, a, l), Covers(w, T, a, l)
  PROVE  Covers(Join(v, w), S \union T, a, l)
<1> DEFINE j == Join(v, w)
<1> SUFFICES ASSUME NEW c \in Channel
             PROVE  /\ j.received[c] <= Len(a[c])
                    /\ j.dropped[c] <= Len(l[c])
                    /\ On(c, S \union T) \subseteq First(a[c], j.received[c])
                    /\ On(c, j.heard) \subseteq First(l[c], j.dropped[c])
  BY DEF Covers
<1>1. /\ j \in View
      /\ j.heard = v.heard \union w.heard
      /\ v.received[c] <= j.received[c] /\ w.received[c] <= j.received[c]
      /\ v.dropped[c] <= j.dropped[c] /\ w.dropped[c] <= j.dropped[c]
      /\ j.received[c] \in {v.received[c], w.received[c]}
      /\ j.dropped[c] \in {v.dropped[c], w.dropped[c]}
  BY JoinView
<1>2. /\ v.received[c] \in Nat /\ v.dropped[c] \in Nat
      /\ w.received[c] \in Nat /\ w.dropped[c] \in Nat
      /\ j.received[c] \in Nat /\ j.dropped[c] \in Nat
  BY <1>1 DEF View
<1> HIDE DEF j
<1>3. First(a[c], v.received[c]) \subseteq First(a[c], j.received[c])
  BY <1>1, <1>2, FirstMore
<1>4. First(a[c], w.received[c]) \subseteq First(a[c], j.received[c])
  BY <1>1, <1>2, FirstMore
<1>5. First(l[c], v.dropped[c]) \subseteq First(l[c], j.dropped[c])
  BY <1>1, <1>2, FirstMore
<1>6. First(l[c], w.dropped[c]) \subseteq First(l[c], j.dropped[c])
  BY <1>1, <1>2, FirstMore
<1>7. /\ v.received[c] <= Len(a[c]) /\ w.received[c] <= Len(a[c])
      /\ v.dropped[c] <= Len(l[c]) /\ w.dropped[c] <= Len(l[c])
      /\ On(c, S) \subseteq First(a[c], v.received[c])
      /\ On(c, T) \subseteq First(a[c], w.received[c])
      /\ On(c, v.heard) \subseteq First(l[c], v.dropped[c])
      /\ On(c, w.heard) \subseteq First(l[c], w.dropped[c])
  BY DEF Covers
<1>8. On(c, S \union T) = On(c, S) \union On(c, T) /\ On(c, j.heard) = On(c, v.heard) \union On(c, w.heard)
  BY <1>1 DEF On
<1>9. j.received[c] <= Len(a[c]) /\ j.dropped[c] <= Len(l[c])
  BY <1>1, <1>7
<1> QED BY <1>3, <1>4, <1>5, <1>6, <1>7, <1>8, <1>9

Appended(a, d, e) == [a EXCEPT ![d] = Append(@, e)]

\* The next update of a counter: the order is extended by its event, and the
\* thread that makes it knows the whole of it.
LEMMA Updated ==
  ASSUME NEW a \in Orders, NEW d \in Channel, NEW e \in Event,
         NEW b, b = Appended(a, d, e)
  PROVE  /\ b \in Orders
         /\ Extends(a, b)
         /\ Len(b[d]) = Len(a[d]) + 1
         /\ \A c \in Channel \ {d} : b[c] = a[c]
         /\ e \in First(b[d], Len(b[d]))
<1>1. a[d] \in Seq(Event) /\ b[d] = Append(a[d], e) /\ \A c \in Channel \ {d} : b[c] = a[c]
  BY DEF Orders, Appended
<1>2. Append(a[d], e) \in Seq(Event)
  BY <1>1, AppendFacts
<1>3. b \in Orders
  BY <1>2 DEF Orders, Appended
<1>4. /\ Len(b[d]) = Len(a[d]) + 1
      /\ \A i \in 1..Len(a[d]) : b[d][i] = a[d][i]
      /\ b[d][Len(a[d]) + 1] = e
  BY <1>1, AppendFacts
<1>5. \A c \in Channel : Len(a[c]) \in Nat
  BY DEF Orders
<1>6. Extends(a, b)
  <2> SUFFICES ASSUME NEW c \in Channel
               PROVE  Len(a[c]) <= Len(b[c]) /\ \A i \in 1..Len(a[c]) : b[c][i] = a[c][i]
    BY DEF Extends
  <2>1. CASE c = d
    BY <2>1, <1>4, <1>5
  <2>2. CASE c # d
    <3>1. b[c] = a[c]
      BY <2>2, <1>1
    <3> QED BY <3>1, <1>5
  <2> QED BY <2>1, <2>2
<1>7. e \in First(b[d], Len(b[d]))
  BY <1>4, <1>5 DEF First
<1> QED BY <1>1, <1>3, <1>4, <1>6, <1>7

LEMMA ExtendsItself == ASSUME NEW a \in Orders PROVE Extends(a, a)
BY DEF Extends, Orders

LEMMA CoversTypes ==
  ASSUME ReportInv
  PROVE  /\ \A p \in Producers : known[p] \in View
         /\ \A i \in 1..Len(queue) : carried[i] \in View /\ queue[i] \in Event
         /\ Extends(arrivals, arrivals) /\ Extends(losses, losses)
         /\ \A c \in Channel : /\ received[c] \in Nat /\ Len(arrivals[c]) = received[c]
                               /\ dropped[c] \in Nat /\ Len(losses[c]) = dropped[c]
BY ExtendsItself DEF ReportInv, ReportTypes, TypeOK

LEMMA InitReport == ReportInit => ReportInv
<1> SUFFICES ASSUME ReportInit PROVE ReportInv
  OBVIOUS
<1>1. TypeOK
  BY InitType DEF ReportInit
<1>2. NoView \in View /\ NoView.heard = {} /\ NoReport \in [queued : Nat, dropped : [Channel -> Nat], received : [Channel -> Nat]]
  BY DEF NoView, View, NoReport, Zero
<1>3. ReportTypes
  BY <1>2 DEF ReportInit, ReportTypes, Init, Orders
<1>4. \A p \in Producers : InHand(pending[p]) = {}
  BY DEF ReportInit, Init, InHand
<1>5. Items(delivered) = {} /\ Len(queue) = 0
  BY DEF ReportInit, Init, Items
<1>6. Covers(NoView, {}, arrivals, losses)
  <2> SUFFICES ASSUME NEW c \in Channel
               PROVE  /\ NoView.received[c] <= Len(arrivals[c])
                      /\ NoView.dropped[c] <= Len(losses[c])
                      /\ On(c, {}) = {} /\ On(c, NoView.heard) = {}
    BY DEF Covers
  <2>1. NoView.received[c] = 0 /\ NoView.dropped[c] = 0
    BY DEF NoView, Zero
  <2>2. arrivals[c] = <<>> /\ losses[c] = <<>>
    BY DEF ReportInit
  <2> QED BY <2>1, <2>2, <1>2 DEF On
<1>7. ViewsCover
  <2>1. (\A p \in Producers : known[p] = NoView) /\ seen = NoView
    BY DEF ReportInit
  <2>2. \A p \in Producers : Covers(known[p], InHand(pending[p]), arrivals, losses)
    BY <1>4, <1>6, <2>1
  <2>3. \A i \in 1..Len(queue) : Covers(carried[i], {queue[i]}, arrivals, losses)
    BY <1>5
  <2>4. Covers(seen, Items(delivered), arrivals, losses)
    BY <1>5, <1>6, <2>1
  <2> QED BY <2>2, <2>3, <2>4 DEF ViewsCover
<1> QED BY <1>1, <1>3, <1>7 DEF ReportInv

LEMMA CoversArrival ==
  ASSUME NEW v \in View, NEW S, NEW a \in Orders, NEW l \in Orders, Covers(v, S, a, l),
         NEW d \in Channel, NEW e \in Event, ChannelOf(e.kind) = d,
         NEW b, b = Appended(a, d, e),
         NEW w, w = [v EXCEPT !.received[d] = Len(b[d])]
  PROVE  w \in View /\ Covers(w, S \union {e}, b, l)
<1>1. /\ b \in Orders /\ Extends(a, b) /\ Extends(l, l)
      /\ Len(b[d]) = Len(a[d]) + 1
      /\ \A c \in Channel \ {d} : b[c] = a[c]
      /\ e \in First(b[d], Len(b[d]))
  BY Updated, ExtendsItself
<1>2. /\ v.received \in [Channel -> Nat] /\ v.dropped \in [Channel -> Nat] /\ v.heard \subseteq Event
      /\ Len(a[d]) \in Nat
  BY DEF View, Orders
<1>3. w.received = [v.received EXCEPT ![d] = Len(b[d])] /\ w.dropped = v.dropped /\ w.heard = v.heard
  BY DEF View
<1>4. w \in View
  <2>1. w = [received |-> [v.received EXCEPT ![d] = Len(b[d])], dropped |-> v.dropped, heard |-> v.heard]
    BY DEF View
  <2>2. [v.received EXCEPT ![d] = Len(b[d])] \in [Channel -> Nat]
    BY <1>1, <1>2
  <2> QED BY <2>1, <2>2, <1>2 DEF View
<1>5. Covers(v, S, b, l)
  BY <1>1, CoversGrows
<1>6. /\ v.received[d] <= Len(a[d])
      /\ \A c \in Channel : /\ v.received[c] <= Len(b[c])
                            /\ v.dropped[c] <= Len(l[c])
                            /\ On(c, S) \subseteq First(b[c], v.received[c])
                            /\ On(c, v.heard) \subseteq First(l[c], v.dropped[c])
  BY <1>5 DEF Covers
<1>7. SUFFICES ASSUME NEW c \in Channel
               PROVE  /\ w.received[c] <= Len(b[c])
                      /\ w.dropped[c] <= Len(l[c])
                      /\ On(c, S \union {e}) \subseteq First(b[c], w.received[c])
                      /\ On(c, w.heard) \subseteq First(l[c], w.dropped[c])
  BY <1>4 DEF Covers
<1>8. CASE c # d
  <2>1. On(c, S \union {e}) = On(c, S)
    BY <1>8 DEF On
  <2>2. w.received[c] = v.received[c]
    BY <1>2, <1>3, <1>8
  <2> QED BY <2>1, <2>2, <1>3, <1>6
<1>9. CASE c = d
  <2>1. w.received[c] = Len(b[c])
    BY <1>2, <1>3, <1>9
  <2>2. On(c, S \union {e}) \subseteq On(c, S) \union {e}
    BY DEF On
  <2>4. Len(b[c]) \in Nat /\ v.received[c] \in Nat /\ v.received[c] <= Len(b[c])
    BY <1>1, <1>2, <1>6, <1>9
  <2>3. First(b[c], v.received[c]) \subseteq First(b[c], w.received[c])
    BY <2>1, <2>4, FirstMore
  <2>5. e \in First(b[c], w.received[c])
    BY <1>1, <1>9, <2>1
  <2>6. w.received[c] <= Len(b[c])
    BY <2>1, <2>4
  <2> QED BY <1>3, <1>6, <2>2, <2>3, <2>5, <2>6
<1> QED BY <1>8, <1>9

LEMMA CoversLoss ==
  ASSUME NEW v \in View, NEW S, NEW a \in Orders, NEW l \in Orders, Covers(v, S, a, l),
         NEW d \in Channel, NEW e \in Event, ChannelOf(e.kind) = d,
         NEW m, m = Appended(l, d, e),
         NEW w, w = Learn(v, d, Len(m[d]), e)
  PROVE  w \in View /\ Covers(w, S, a, m)
<1>1. /\ m \in Orders /\ Extends(l, m) /\ Extends(a, a)
      /\ Len(m[d]) = Len(l[d]) + 1
      /\ \A c \in Channel \ {d} : m[c] = l[c]
      /\ e \in First(m[d], Len(m[d]))
  BY Updated, ExtendsItself
<1>2. /\ v.received \in [Channel -> Nat] /\ v.dropped \in [Channel -> Nat] /\ v.heard \subseteq Event
      /\ Len(l[d]) \in Nat
  BY DEF View, Orders
<1>3. /\ w.received = v.received
      /\ w.dropped = [v.dropped EXCEPT ![d] = Len(m[d])]
      /\ w.heard = v.heard \union {e}
  BY DEF View, Learn
<1>4. w \in View
  <2>1. w = [received |-> v.received, dropped |-> [v.dropped EXCEPT ![d] = Len(m[d])],
             heard |-> v.heard \union {e}]
    BY DEF View, Learn
  <2>2. [v.dropped EXCEPT ![d] = Len(m[d])] \in [Channel -> Nat]
    BY <1>1, <1>2
  <2>3. v.heard \union {e} \in SUBSET Event
    BY <1>2
  <2> QED BY <2>1, <2>2, <2>3, <1>2 DEF View
<1>5. Covers(v, S, a, m)
  BY <1>1, CoversGrows
<1>6. /\ v.dropped[d] <= Len(l[d])
      /\ \A c \in Channel : /\ v.received[c] <= Len(a[c])
                            /\ v.dropped[c] <= Len(m[c])
                            /\ On(c, S) \subseteq First(a[c], v.received[c])
                            /\ On(c, v.heard) \subseteq First(m[c], v.dropped[c])
  BY <1>5 DEF Covers
<1>7. SUFFICES ASSUME NEW c \in Channel
               PROVE  /\ w.received[c] <= Len(a[c])
                      /\ w.dropped[c] <= Len(m[c])
                      /\ On(c, S) \subseteq First(a[c], w.received[c])
                      /\ On(c, w.heard) \subseteq First(m[c], w.dropped[c])
  BY <1>4 DEF Covers
<1>8. CASE c # d
  <2>1. On(c, w.heard) = On(c, v.heard)
    BY <1>3, <1>8 DEF On
  <2>2. w.dropped[c] = v.dropped[c]
    BY <1>2, <1>3, <1>8
  <2> QED BY <2>1, <2>2, <1>3, <1>6
<1>9. CASE c = d
  <2>1. w.dropped[c] = Len(m[c])
    BY <1>2, <1>3, <1>9
  <2>2. On(c, w.heard) \subseteq On(c, v.heard) \union {e}
    BY <1>3 DEF On
  <2>4. Len(m[c]) \in Nat /\ v.dropped[c] \in Nat /\ v.dropped[c] <= Len(m[c])
    BY <1>1, <1>2, <1>6, <1>9
  <2>3. First(m[c], v.dropped[c]) \subseteq First(m[c], w.dropped[c])
    BY <2>1, <2>4, FirstMore
  <2>5. e \in First(m[c], w.dropped[c])
    BY <1>1, <1>9, <2>1
  <2>6. w.dropped[c] <= Len(m[c])
    BY <2>1, <2>4
  <2> QED BY <1>3, <1>6, <2>2, <2>3, <2>5, <2>6
<1> QED BY <1>8, <1>9

(* The steps. *)

LEMMA ArriveCovers ==
  ASSUME ReportInv, TypeOK', UNCHANGED line,
         NEW p \in Producers, NEW kind \in Kinds, ArriveKnown(p, kind)
  PROVE  ReportInv'
<1> DEFINE c == ChannelOf(kind)
           e == [src |-> p, seq |-> pushes[p] + 1, kind |-> kind]
<1>1. TypeOK /\ ReportTypes /\ ViewsCover
  BY DEF ReportInv
<1>2. c \in Channel /\ e \in Event /\ ChannelOf(e.kind) = c /\ pending' = [pending EXCEPT ![p] = e]
  <2>1. pushes[p] \in Nat /\ MaxPushes \in Nat /\ pushes[p] < MaxPushes
    BY <1>1, BusAssumption DEF TypeOK, ArriveKnown, Arrive
  <2>2. pushes[p] + 1 \in 1..MaxPushes
    BY <2>1
  <2>3. c \in Channel
    BY BusAssumption DEF ChannelOf, Kind, Channel
  <2> QED BY <2>2, <2>3 DEF Event, ArriveKnown, Arrive
<1>3. /\ arrivals' = Appended(arrivals, c, e)
      /\ known' = [known EXCEPT ![p] = [@ EXCEPT !.received[c] = received'[c]]]
      /\ received' = [received EXCEPT ![c] = @ + 1]
      /\ UNCHANGED <<carried, seen, losses, queue, dropped, delivered, report>>
  BY DEF ArriveKnown, Arrive, reading, line, Appended
<1>4. /\ arrivals' \in Orders /\ Extends(arrivals, arrivals') /\ Extends(losses, losses')
      /\ Len(arrivals'[c]) = Len(arrivals[c]) + 1
      /\ \A d \in Channel \ {c} : arrivals'[d] = arrivals[d]
  BY <1>1, <1>2, <1>3, Updated, ExtendsItself DEF ReportTypes
<1>5. received'[c] = Len(arrivals'[c])
  BY <1>1, <1>2, <1>3, <1>4 DEF ReportTypes, TypeOK
<1> HIDE DEF e, c
<1>6. known'[p] \in View /\ Covers(known'[p], InHand(pending'[p]), arrivals', losses')
  <2>1. pending[p] = None /\ InHand(pending[p]) = {} /\ known[p] \in View
    BY <1>1 DEF ArriveKnown, Arrive, TypeOK, InHand, ReportTypes
  <2>2. Covers(known[p], {}, arrivals, losses)
    BY <1>1, <2>1 DEF ViewsCover
  <2>3. known'[p] = [known[p] EXCEPT !.received[c] = Len(arrivals'[c])]
    BY <1>1, <1>3, <1>5 DEF ReportTypes
  <2>4. pending'[p] = e /\ InHand(pending'[p]) \subseteq {} \union {e}
    BY <1>1, <1>2 DEF TypeOK, InHand
  <2>5. arrivals \in Orders /\ losses \in Orders /\ losses' = losses
    BY <1>1, <1>3 DEF ReportTypes
  <2>6. known'[p] \in View /\ Covers(known'[p], {} \union {e}, arrivals', losses)
    BY <1>2, <1>3, <2>1, <2>2, <2>3, <2>5, CoversArrival
  <2> QED BY <1>4, <2>4, <2>5, <2>6, ExtendsItself, CoversGrows
<1>7. ReportTypes'
  <2>1. known' \in [Producers -> View]
    BY <1>1, <1>3, <1>6 DEF ReportTypes
  <2>2. \A d \in Channel : received'[d] = Len(arrivals'[d]) /\ dropped'[d] = Len(losses'[d])
    BY <1>1, <1>3, <1>4, <1>5 DEF ReportTypes, TypeOK
  <2> QED BY <1>1, <1>3, <1>4, <2>1, <2>2 DEF ReportTypes
<1>8. ViewsCover'
  <2>0. arrivals \in Orders /\ losses \in Orders /\ losses' = losses
    BY <1>1, <1>3 DEF ReportTypes
  <2>1. ASSUME NEW q \in Producers PROVE Covers(known'[q], InHand(pending'[q]), arrivals', losses')
    <3>1. CASE q = p
      BY <3>1, <1>6
    <3>2. CASE q # p
      <4>1. known'[q] = known[q] /\ pending'[q] = pending[q] /\ known[q] \in View
        BY <3>2, <1>1, <1>2, <1>3 DEF ReportTypes, TypeOK
      <4>2. Covers(known[q], InHand(pending[q]), arrivals, losses)
        BY <1>1 DEF ViewsCover
      <4> QED BY <4>1, <4>2, <2>0, <1>4, CoversGrows
    <3> QED BY <3>1, <3>2
  <2>2. ASSUME NEW i \in 1..Len(queue') PROVE Covers(carried'[i], {queue'[i]}, arrivals', losses')
    <3>1. i \in 1..Len(queue) /\ queue' = queue /\ carried' = carried /\ carried[i] \in View
      BY <1>1, <1>3, CoversTypes
    <3>2. Covers(carried[i], {queue[i]}, arrivals, losses)
      BY <1>1, <3>1 DEF ViewsCover
    <3> QED BY <3>1, <3>2, <2>0, <1>4, CoversGrows
  <2>3. Covers(seen', Items(delivered'), arrivals', losses')
    <3>1. seen \in View /\ Covers(seen, Items(delivered), arrivals, losses)
      BY <1>1 DEF ViewsCover, ReportTypes
    <3> QED BY <3>1, <2>0, <1>3, <1>4, CoversGrows
  <2> QED BY <2>1, <2>2, <2>3 DEF ViewsCover
<1> QED BY <1>7, <1>8 DEF ReportInv

LEMMA SendCovers ==
  ASSUME ReportInv, TypeOK', UNCHANGED line, NEW p \in Producers, SendKnown(p)
  PROVE  ReportInv'
<1>1. TypeOK /\ ReportTypes /\ ViewsCover
  BY DEF ReportInv
<1>2. /\ queue' = Append(queue, pending[p]) /\ carried' = Append(carried, known[p])
      /\ pending' = [pending EXCEPT ![p] = None]
      /\ UNCHANGED <<known, seen, arrivals, losses, received, dropped, delivered, report>>
  BY DEF SendKnown, TrySendOk, PushBack, CarriedBy, order, counters, reading, line
<1>3. /\ pending[p] \in Event /\ known[p] \in View /\ queue \in Seq(Event) /\ carried \in Seq(View)
      /\ Len(carried) = Len(queue)
  BY <1>1 DEF TypeOK, ReportTypes, SendKnown, TrySendOk
<1>4. /\ carried' \in Seq(View) /\ Len(carried') = Len(queue') /\ Len(queue') = Len(queue) + 1
      /\ \A i \in 1..Len(queue) : queue'[i] = queue[i] /\ carried'[i] = carried[i]
      /\ queue'[Len(queue) + 1] = pending[p] /\ carried'[Len(queue) + 1] = known[p]
  BY <1>2, <1>3, AppendFacts
<1>5. ReportTypes'
  BY <1>1, <1>2, <1>4 DEF ReportTypes
<1>6. ASSUME NEW q \in Producers PROVE Covers(known'[q], InHand(pending'[q]), arrivals', losses')
  <2>1. Covers(known[q], InHand(pending[q]), arrivals, losses) /\ known[q] \in View
    BY <1>1 DEF ViewsCover, ReportTypes
  <2>2. InHand(pending'[q]) \subseteq InHand(pending[q])
    BY <1>1, <1>2 DEF InHand, TypeOK
  <2> QED BY <1>1, <1>2, <2>1, <2>2, ExtendsItself, CoversGrows DEF ReportTypes
<1>7. ASSUME NEW i \in 1..Len(queue') PROVE Covers(carried'[i], {queue'[i]}, arrivals', losses')
  <2>0. Len(queue) \in Nat
    BY <1>3
  <2>1. CASE i \in 1..Len(queue)
    BY <2>1, <1>1, <1>2, <1>4 DEF ViewsCover
  <2>2. CASE i = Len(queue) + 1
    <3>1. InHand(pending[p]) = {pending[p]}
      BY <1>3, NoneIsNoEvent DEF InHand
    <3> QED BY <3>1, <2>2, <1>1, <1>2, <1>4 DEF ViewsCover
  <2> QED BY <2>0, <2>1, <2>2, <1>4
<1>8. Covers(seen', Items(delivered'), arrivals', losses')
  BY <1>1, <1>2 DEF ViewsCover
<1> QED BY <1>5, <1>6, <1>7, <1>8 DEF ReportInv, ViewsCover

\* Whoever takes the oldest event takes its view along.
LEMMA HeadTaken ==
  ASSUME ReportInv, queue # <<>>, queue' = Tail(queue), carried' = Tail(carried),
         UNCHANGED <<arrivals, losses>>
  PROVE  /\ Head(carried) \in View /\ Head(queue) \in Event
         /\ Covers(Head(carried), {Head(queue)}, arrivals, losses)
         /\ carried' \in Seq(View) /\ Len(carried') = Len(queue')
         /\ \A i \in 1..Len(queue') : Covers(carried'[i], {queue'[i]}, arrivals', losses')
<1>1. /\ queue \in Seq(Event) /\ carried \in Seq(View) /\ Len(carried) = Len(queue)
      /\ \A i \in 1..Len(queue) : Covers(carried[i], {queue[i]}, arrivals, losses)
  BY DEF ReportInv, ReportTypes, TypeOK, ViewsCover
<1>2. carried # <<>>
  BY <1>1
<1>3. /\ Head(queue) \in Event /\ Head(queue) = queue[1] /\ 1 \in 1..Len(queue)
      /\ Len(Tail(queue)) = Len(queue) - 1
      /\ \A i \in 1..Len(Tail(queue)) : i + 1 \in 1..Len(queue) /\ Tail(queue)[i] = queue[i + 1]
  BY <1>1, TailFacts
<1>4. /\ Head(carried) \in View /\ Head(carried) = carried[1] /\ Tail(carried) \in Seq(View)
      /\ Len(Tail(carried)) = Len(carried) - 1
      /\ \A i \in 1..Len(Tail(carried)) : Tail(carried)[i] = carried[i + 1]
  BY <1>1, <1>2, TailFacts
<1> QED BY <1>1, <1>3, <1>4

LEMMA EvictCovers ==
  ASSUME ReportInv, TypeOK', UNCHANGED line, NEW p \in Producers, EvictKnown(p)
  PROVE  ReportInv'
<1>1. TypeOK /\ ReportTypes /\ ViewsCover
  BY DEF ReportInv
<1>2. /\ queue # <<>> /\ queue' = Tail(queue) /\ carried' = Tail(carried)
      /\ known' = [known EXCEPT ![p] = Join(@, Head(carried))]
      /\ UNCHANGED <<seen, arrivals, losses, received, dropped, delivered, report, pending>>
  BY DEF EvictKnown, EvictOldest, order, counters, reading, line
<1>3. /\ Head(carried) \in View /\ Head(queue) \in Event
      /\ Covers(Head(carried), {Head(queue)}, arrivals, losses)
      /\ carried' \in Seq(View) /\ Len(carried') = Len(queue')
      /\ \A i \in 1..Len(queue') : Covers(carried'[i], {queue'[i]}, arrivals', losses')
  BY <1>2, HeadTaken
<1>4. /\ known[p] \in View /\ arrivals \in Orders /\ losses \in Orders
      /\ Covers(known[p], InHand(pending[p]), arrivals, losses)
      /\ known'[p] = Join(known[p], Head(carried))
  BY <1>1, <1>2 DEF ReportTypes, ViewsCover
<1>5. known'[p] \in View
  BY <1>3, <1>4, JoinView
<1>6. Covers(known'[p], InHand(pending[p]) \union {Head(queue)}, arrivals, losses)
  BY <1>3, <1>4, CoversJoin
<1>7. Covers(known'[p], InHand(pending[p]), arrivals, losses)
  BY <1>4, <1>5, <1>6, ExtendsItself, CoversGrows
<1>8. ReportTypes'
  BY <1>1, <1>2, <1>3, <1>5 DEF ReportTypes
<1>9. ASSUME NEW q \in Producers PROVE Covers(known'[q], InHand(pending'[q]), arrivals', losses')
  <2>1. CASE q = p
    BY <2>1, <1>2, <1>7
  <2>2. CASE q # p
    BY <2>2, <1>1, <1>2 DEF ViewsCover, ReportTypes
  <2> QED BY <2>1, <2>2
<1>10. Covers(seen', Items(delivered'), arrivals', losses')
  BY <1>1, <1>2 DEF ViewsCover
<1> QED BY <1>3, <1>8, <1>9, <1>10 DEF ReportInv, ViewsCover

LEMMA ChargeCovers ==
  ASSUME ReportInv, TypeOK', UNCHANGED line, NEW p \in Producers, NEW e \in Event, Charge(p, e),
         dropped' = [dropped EXCEPT ![ChannelOf(e.kind)] = @ + 1],
         UNCHANGED <<queue, received, delivered>>,
         \A q \in Producers : pending'[q] \in {pending[q], None}
  PROVE  ReportInv'
<1> DEFINE c == ChannelOf(e.kind)
<1>1. TypeOK /\ ReportTypes /\ ViewsCover
  BY DEF ReportInv
<1>2. c \in Channel
  BY BusAssumption DEF Event, ChannelOf, Kind, Channel
<1>3. /\ losses' = Appended(losses, c, e)
      /\ known' = [known EXCEPT ![p] = Learn(@, c, dropped'[c], e)]
      /\ dropped' = [dropped EXCEPT ![c] = @ + 1]
      /\ UNCHANGED <<carried, seen, arrivals, report>>
  BY DEF Charge, line, Appended
<1>c. ChannelOf(e.kind) = c
  OBVIOUS
<1>4. /\ losses \in Orders /\ arrivals \in Orders
      /\ losses' \in Orders /\ Extends(losses, losses') /\ Extends(arrivals, arrivals')
      /\ Len(losses'[c]) = Len(losses[c]) + 1
      /\ \A d \in Channel \ {c} : losses'[d] = losses[d]
  BY <1>1, <1>2, <1>3, Updated, ExtendsItself DEF ReportTypes
<1>5. dropped'[c] = Len(losses'[c])
  <2>1. dropped'[c] = dropped[c] + 1
    BY <1>1, <1>2, <1>3 DEF TypeOK
  <2>2. dropped[c] = Len(losses[c])
    BY <1>1, <1>2 DEF ReportTypes
  <2> QED BY <2>1, <2>2, <1>4
<1> HIDE DEF c
<1>6. known'[p] \in View /\ Covers(known'[p], InHand(pending[p]), arrivals', losses')
  <2>1. known[p] \in View /\ Covers(known[p], InHand(pending[p]), arrivals, losses)
    BY <1>1 DEF ViewsCover, ReportTypes
  <2>2. known'[p] = Learn(known[p], c, Len(losses'[c]), e)
    <3>1. known \in [Producers -> View]
      BY <1>1 DEF ReportTypes
    <3>2. known'[p] = Learn(known[p], c, dropped'[c], e)
      BY <1>3, <3>1
    <3> QED BY <3>2, <1>5
  <2>3. known'[p] \in View /\ Covers(known'[p], InHand(pending[p]), arrivals, losses')
    BY <1>c, <1>2, <1>3, <1>4, <2>1, <2>2, CoversLoss
  <2> QED BY <1>3, <2>3
<1>7. ReportTypes'
  <2>1. known' \in [Producers -> View]
    BY <1>1, <1>3, <1>6 DEF ReportTypes
  <2>2. \A d \in Channel : received'[d] = Len(arrivals'[d]) /\ dropped'[d] = Len(losses'[d])
    BY <1>1, <1>3, <1>4, <1>5 DEF ReportTypes, TypeOK
  <2> QED BY <1>1, <1>3, <1>4, <2>1, <2>2 DEF ReportTypes
<1>8. ASSUME NEW q \in Producers PROVE Covers(known'[q], InHand(pending'[q]), arrivals', losses')
  <2>1. InHand(pending'[q]) \subseteq InHand(pending[q])
    BY DEF InHand
  <2>2. CASE q = p
    BY <2>1, <2>2, <1>3, <1>4, <1>6, ExtendsItself, CoversGrows
  <2>3. CASE q # p
    <3>1. known'[q] = known[q] /\ known[q] \in View
      BY <2>3, <1>1, <1>3 DEF ReportTypes
    <3>2. Covers(known[q], InHand(pending[q]), arrivals, losses)
      BY <1>1 DEF ViewsCover
    <3> QED BY <3>1, <3>2, <2>1, <1>3, <1>4, CoversGrows
  <2> QED BY <2>2, <2>3
<1>9. ASSUME NEW i \in 1..Len(queue') PROVE Covers(carried'[i], {queue'[i]}, arrivals', losses')
  <2>1. i \in 1..Len(queue) /\ queue' = queue /\ carried' = carried /\ carried[i] \in View
    BY <1>1, <1>3, CoversTypes
  <2>2. Covers(carried[i], {queue[i]}, arrivals, losses)
    BY <1>1, <2>1 DEF ViewsCover
  <2> QED BY <2>1, <2>2, <1>3, <1>4, CoversGrows
<1>10. Covers(seen', Items(delivered'), arrivals', losses')
  <2>1. seen \in View /\ Covers(seen, Items(delivered), arrivals, losses)
    BY <1>1 DEF ViewsCover, ReportTypes
  <2> QED BY <2>1, <1>3, <1>4, CoversGrows
<1> QED BY <1>7, <1>8, <1>9, <1>10 DEF ReportInv, ViewsCover

LEMMA DropCovers ==
  ASSUME ReportInv, TypeOK', UNCHANGED line, NEW p \in Producers, DropKnown(p)
  PROVE  ReportInv'
<1>1. TypeOK
  BY DEF ReportInv
<1>2. CASE CountVictim(p) /\ Charge(p, victim[p])
  <2>1. victim[p] \in Event
    BY <1>1, <1>2 DEF CountVictim, TypeOK
  <2>2. /\ dropped' = [dropped EXCEPT ![ChannelOf(victim[p].kind)] = @ + 1]
        /\ UNCHANGED <<queue, received, delivered, pending>>
    BY <1>2 DEF CountVictim, VictimChannel, reading
  <2> QED BY <1>2, <2>1, <2>2, ChargeCovers
<1>3. CASE DropNewest(p) /\ Charge(p, pending[p])
  <2>1. pending[p] \in Event
    BY <1>1, <1>3 DEF DropNewest, TypeOK
  <2>2. /\ dropped' = [dropped EXCEPT ![ChannelOf(pending[p].kind)] = @ + 1]
        /\ pending' = [pending EXCEPT ![p] = None]
        /\ UNCHANGED <<queue, received, delivered>>
    BY <1>3 DEF DropNewest, reading
  <2>3. \A q \in Producers : pending'[q] \in {pending[q], None}
    BY <1>1, <2>2 DEF TypeOK
  <2> QED BY <1>3, <2>1, <2>2, <2>3, ChargeCovers
<1> QED BY <1>2, <1>3 DEF DropKnown

LEMMA TakeCovers ==
  ASSUME ReportInv, TypeOK', UNCHANGED line, TakeKnown
  PROVE  ReportInv'
<1>1. TypeOK /\ ReportTypes /\ ViewsCover
  BY DEF ReportInv
<1>2. /\ queue # <<>> /\ queue' = Tail(queue) /\ carried' = Tail(carried)
      /\ delivered' = Append(delivered, Head(queue))
      /\ seen' = Join(seen, Head(carried))
      /\ UNCHANGED <<known, arrivals, losses, received, dropped, report, pending>>
  BY DEF TakeKnown, RecvFirst, DrainOne, Take, order, counters, pushing, line
<1>3. /\ Head(carried) \in View /\ Head(queue) \in Event
      /\ Covers(Head(carried), {Head(queue)}, arrivals, losses)
      /\ carried' \in Seq(View) /\ Len(carried') = Len(queue')
      /\ \A i \in 1..Len(queue') : Covers(carried'[i], {queue'[i]}, arrivals', losses')
  BY <1>2, HeadTaken
<1>4. /\ seen \in View /\ arrivals \in Orders /\ losses \in Orders
      /\ Covers(seen, Items(delivered), arrivals, losses)
  BY <1>1 DEF ReportTypes, ViewsCover
<1>5. seen' \in View
  BY <1>2, <1>3, <1>4, JoinView
<1>6. Covers(seen', Items(delivered) \union {Head(queue)}, arrivals, losses)
  BY <1>2, <1>3, <1>4, CoversJoin
<1>7. Items(delivered') = Items(delivered) \union {Head(queue)}
  BY <1>1, <1>2, <1>3, ItemsOfAppend DEF TypeOK
<1>8. ReportTypes'
  BY <1>1, <1>2, <1>3, <1>5 DEF ReportTypes
<1>9. \A q \in Producers : Covers(known'[q], InHand(pending'[q]), arrivals', losses')
  BY <1>1, <1>2 DEF ViewsCover
<1>10. Covers(seen', Items(delivered'), arrivals', losses')
  BY <1>2, <1>6, <1>7
<1> QED BY <1>3, <1>8, <1>9, <1>10 DEF ReportInv, ViewsCover

LEMMA QuietCovers ==
  ASSUME ReportInv, TypeOK',
         UNCHANGED <<queue, carried, pending, known, seen, delivered, arrivals, losses, received, dropped>>,
         report' \in [queued : Nat, dropped : [Channel -> Nat], received : [Channel -> Nat]]
  PROVE  ReportInv'
<1>1. ReportTypes'
  BY DEF ReportInv, ReportTypes
<1>2. ViewsCover'
  BY DEF ReportInv, ViewsCover
<1> QED BY <1>1, <1>2 DEF ReportInv

\* What a load returns is between what the thread knows and what there is.
LEMMA ReadableRange ==
  ASSUME NEW mine \in [Channel -> Nat], NEW now \in [Channel -> Nat],
         \A c \in Channel : mine[c] <= now[c],
         NEW f \in Readable(mine, now)
  PROVE  f \in [Channel -> Nat] /\ \A c \in Channel : mine[c] <= f[c] /\ f[c] <= now[c]
<1> DEFINE behind == {c \in Channel : mine[c] < now[c]}
<1>1. PICK g : /\ \A c \in behind : g[c] \in mine[c]..now[c]
               /\ f = [c \in Channel |-> IF c \in behind THEN g[c] ELSE now[c]]
  BY DEF Readable
<1>2. ASSUME NEW c \in Channel PROVE f[c] \in Nat /\ mine[c] <= f[c] /\ f[c] <= now[c]
  <2>1. mine[c] \in Nat /\ now[c] \in Nat /\ mine[c] <= now[c]
    OBVIOUS
  <2>2. CASE c \in behind
    <3>1. f[c] = g[c] /\ g[c] \in mine[c]..now[c]
      BY <1>1, <2>2
    <3> QED BY <2>1, <3>1
  <2>3. CASE c \notin behind
    <3>1. f[c] = now[c]
      BY <1>1, <2>3
    <3> QED BY <2>1, <3>1
  <2> QED BY <2>2, <2>3
<1> QED BY <1>1, <1>2

LEMMA SeenBehind ==
  ASSUME ReportInv
  PROVE  /\ seen \in View
         /\ seen.received \in [Channel -> Nat] /\ received \in [Channel -> Nat]
         /\ seen.dropped \in [Channel -> Nat] /\ dropped \in [Channel -> Nat]
         /\ \A c \in Channel : seen.received[c] <= received[c] /\ seen.dropped[c] <= dropped[c]
<1>1. seen \in View /\ Covers(seen, Items(delivered), arrivals, losses)
  BY DEF ReportInv, ReportTypes, ViewsCover
<1>2. \A c \in Channel : received[c] = Len(arrivals[c]) /\ dropped[c] = Len(losses[c])
  BY DEF ReportInv, ReportTypes
<1>3. seen.received \in [Channel -> Nat] /\ seen.dropped \in [Channel -> Nat]
  BY <1>1 DEF View
<1>4. \A c \in Channel : seen.received[c] <= received[c] /\ seen.dropped[c] <= dropped[c]
  BY <1>1, <1>2 DEF Covers
<1> QED BY <1>1, <1>3, <1>4 DEF ReportInv, TypeOK

\* A read raises one array of the reader's view and leaves the rest.
LEMMA ReadCovers ==
  ASSUME ReportInv, TypeOK', UNCHANGED <<vars, known, carried, order>>,
         seen' \in View, seen'.heard = seen.heard,
         \A c \in Channel : /\ seen.received[c] <= seen'.received[c]
                            /\ seen'.received[c] <= received[c]
                            /\ seen.dropped[c] <= seen'.dropped[c]
                            /\ seen'.dropped[c] <= dropped[c],
         report' \in [queued : Nat, dropped : [Channel -> Nat], received : [Channel -> Nat]]
  PROVE  ReportInv'
<1>1. TypeOK /\ ReportTypes /\ ViewsCover
  BY DEF ReportInv
<1>2. UNCHANGED <<queue, carried, pending, known, delivered, arrivals, losses, received, dropped>>
  BY DEF vars, order, counters, pushing, reading
<1>3. ReportTypes'
  BY <1>1, <1>2 DEF ReportTypes
<1>4. /\ seen \in View /\ arrivals \in Orders /\ losses \in Orders
      /\ Covers(seen, Items(delivered), arrivals, losses)
      /\ \A c \in Channel : received[c] = Len(arrivals[c]) /\ dropped[c] = Len(losses[c])
  BY <1>1 DEF ViewsCover, ReportTypes
<1>5. Covers(seen', Items(delivered), arrivals, losses)
  BY <1>4, CoversRaise
<1>6. Covers(seen', Items(delivered'), arrivals', losses')
  BY <1>2, <1>5
<1>7. /\ \A q \in Producers : Covers(known'[q], InHand(pending'[q]), arrivals', losses')
      /\ \A i \in 1..Len(queue') : Covers(carried'[i], {queue'[i]}, arrivals', losses')
  BY <1>1, <1>2 DEF ViewsCover
<1> QED BY <1>3, <1>6, <1>7 DEF ReportInv, ViewsCover

LEMMA ReadDroppedCovers ==
  ASSUME ReportInv, TypeOK', ReadDropped PROVE ReportInv'
<1>1. PICK f \in Readable(seen.dropped, dropped) :
        report' = [report EXCEPT !.dropped = f] /\ seen' = [seen EXCEPT !.dropped = f]
  BY DEF ReadDropped
<1>2. /\ seen \in View
      /\ seen.received \in [Channel -> Nat] /\ received \in [Channel -> Nat]
      /\ seen.dropped \in [Channel -> Nat] /\ dropped \in [Channel -> Nat]
      /\ \A c \in Channel : seen.received[c] <= received[c] /\ seen.dropped[c] <= dropped[c]
  BY SeenBehind
<1>3. f \in [Channel -> Nat] /\ \A c \in Channel : seen.dropped[c] <= f[c] /\ f[c] <= dropped[c]
  BY <1>2, ReadableRange
<1>4. seen' \in View /\ seen'.heard = seen.heard /\ seen'.dropped = f /\ seen'.received = seen.received
  BY <1>1, <1>2, <1>3 DEF View
<1>5. report' \in [queued : Nat, dropped : [Channel -> Nat], received : [Channel -> Nat]]
  BY <1>1, <1>3 DEF ReportInv, ReportTypes
<1>6. UNCHANGED <<vars, known, carried, order>>
  BY DEF ReadDropped
<1> QED BY <1>2, <1>3, <1>4, <1>5, <1>6, ReadCovers

LEMMA ReadReceivedCovers ==
  ASSUME ReportInv, TypeOK', ReadReceived
  PROVE  /\ ReportInv'
         /\ \A c \in Channel : /\ seen.received[c] <= report'.received[c]
                               /\ report'.received[c] \in Nat
                               /\ report'.dropped = report.dropped
<1>1. PICK f \in Readable(seen.received, received) :
        report' = [report EXCEPT !.received = f] /\ seen' = [seen EXCEPT !.received = f]
  BY DEF ReadReceived
<1>2. /\ seen \in View
      /\ seen.received \in [Channel -> Nat] /\ received \in [Channel -> Nat]
      /\ seen.dropped \in [Channel -> Nat] /\ dropped \in [Channel -> Nat]
      /\ \A c \in Channel : seen.received[c] <= received[c] /\ seen.dropped[c] <= dropped[c]
  BY SeenBehind
<1>3. f \in [Channel -> Nat] /\ \A c \in Channel : seen.received[c] <= f[c] /\ f[c] <= received[c]
  BY <1>2, ReadableRange
<1>4. seen' \in View /\ seen'.heard = seen.heard /\ seen'.received = f /\ seen'.dropped = seen.dropped
  BY <1>1, <1>2, <1>3 DEF View
<1>5. /\ report' \in [queued : Nat, dropped : [Channel -> Nat], received : [Channel -> Nat]]
      /\ report'.received = f /\ report'.dropped = report.dropped
  BY <1>1, <1>3 DEF ReportInv, ReportTypes
<1>6. UNCHANGED <<vars, known, carried, order>>
  BY DEF ReadReceived
<1>7. ReportInv'
  BY <1>2, <1>3, <1>4, <1>5, <1>6, ReadCovers
<1> QED BY <1>3, <1>5, <1>7

\* What the line has read is still what the consumer knows of the losses.
LineHeld ==
  /\ reader \in {"queued", "dropped", "received"}
  /\ reader = "received" => report.dropped = seen.dropped

LEMMA TakesOnlyBetweenLines ==
  ASSUME TypeOK, TakeKnown, UNCHANGED reading
  PROVE  FALSE
<1>1. queue # <<>> /\ delivered' = Append(delivered, Head(queue)) /\ delivered' = delivered
  BY DEF TakeKnown, RecvFirst, DrainOne, Take, reading
<1>2. Head(queue) \in Event /\ delivered \in Seq(Event)
  BY <1>1, TailFacts DEF TypeOK
<1>3. Len(Append(delivered, Head(queue))) = Len(delivered) + 1 /\ Len(delivered) \in Nat
  BY <1>2, AppendFacts
<1> QED BY <1>1, <1>3

LEMMA BusStepIsNext == BusStep => Next
BY DEF BusStep, ArriveKnown, SendKnown, EvictKnown, DropKnown, TakeKnown, Unseen, Next, Producer,
       Consumer

LEMMA ReportStep == ReportInv /\ LineHeld /\ [ReportNext]_all => ReportInv' /\ LineHeld'
<1> SUFFICES ASSUME ReportInv, LineHeld, [ReportNext]_all PROVE ReportInv' /\ LineHeld'
  OBVIOUS
<1>1. TypeOK
  BY DEF ReportInv
<1>2. report \in [queued : Nat, dropped : [Channel -> Nat], received : [Channel -> Nat]]
  BY DEF ReportInv, ReportTypes
<1>3. TypeOK'
  <2>1. BusStep => [Next]_vars
    BY BusStepIsNext
  <2>2. ReadQueued \/ ReadDropped \/ ReadReceived \/ UNCHANGED all => [Next]_vars
    BY DEF ReadQueued, ReadDropped, ReadReceived, all
  <2> QED BY <2>1, <2>2, <1>1, NextType DEF ReportNext
<1>4. CASE BusStep
  <2>1. UNCHANGED line /\ (reader = "queued" \/ UNCHANGED reading)
    BY <1>4 DEF BusStep
  <2>2. ASSUME NEW p \in Producers, NEW kind \in Kinds, ArriveKnown(p, kind)
        PROVE  ReportInv' /\ seen' = seen
    BY <2>1, <2>2, <1>3, ArriveCovers DEF ArriveKnown
  <2>3. ASSUME NEW p \in Producers, SendKnown(p) PROVE ReportInv' /\ seen' = seen
    BY <2>1, <2>3, <1>3, SendCovers DEF SendKnown
  <2>4. ASSUME NEW p \in Producers, EvictKnown(p) PROVE ReportInv' /\ seen' = seen
    BY <2>1, <2>4, <1>3, EvictCovers DEF EvictKnown
  <2>5. ASSUME NEW p \in Producers, DropKnown(p) PROVE ReportInv' /\ seen' = seen
    BY <2>1, <2>5, <1>3, DropCovers DEF DropKnown, Charge
  <2>6. ASSUME TakeKnown PROVE ReportInv' /\ reader = "queued"
    BY <2>1, <2>6, <1>1, <1>3, TakeCovers, TakesOnlyBetweenLines
  <2>7. ASSUME Unseen PROVE ReportInv' /\ seen' = seen
    <3>1. UNCHANGED <<known, carried, seen, arrivals, losses>>
      BY <2>7 DEF Unseen, views, order
    <3>2. UNCHANGED <<queue, pending, delivered, received, dropped>>
      BY <2>7 DEF Unseen, TrySendFull, EvictNothing, DropSink, RecvDisconnected, DrainStart,
                  DrainEnd, Terminated, counters, pushing, reading, vars
    <3> QED BY <3>1, <3>2, <2>1, <1>2, <1>3, QuietCovers DEF line
  <2>8. ReportInv' /\ (seen' = seen \/ reader = "queued")
    BY <1>4, <2>2, <2>3, <2>4, <2>5, <2>6, <2>7 DEF BusStep
  <2> QED BY <2>1, <2>8 DEF LineHeld, line
<1>5. CASE ReadQueued
  <2>1. report' \in [queued : Nat, dropped : [Channel -> Nat], received : [Channel -> Nat]]
    <3>1. Len(queue) \in Nat /\ NoReport \in [queued : Nat, dropped : [Channel -> Nat], received : [Channel -> Nat]]
      BY <1>1 DEF TypeOK, NoReport, Zero
    <3> QED BY <1>5, <3>1 DEF ReadQueued
  <2>2. UNCHANGED <<queue, carried, pending, known, seen, delivered, arrivals, losses, received, dropped>>
    BY <1>5 DEF ReadQueued, vars, views, order, counters, pushing, reading
  <2> QED BY <1>3, <1>5, <2>1, <2>2, QuietCovers DEF ReadQueued, LineHeld
<1>6. CASE ReadDropped
  <2>1. ReportInv'
    BY <1>3, <1>6, ReadDroppedCovers
  <2>2. report'.dropped = seen'.dropped
    <3>1. seen \in View
      BY SeenBehind
    <3> QED BY <1>2, <1>6, <3>1 DEF ReadDropped, View
  <2> QED BY <1>6, <2>1, <2>2 DEF LineHeld, ReadDropped
<1>7. CASE ReadReceived
  BY <1>3, <1>7, ReadReceivedCovers DEF LineHeld, ReadReceived
<1>8. CASE UNCHANGED all
  <2>1. UNCHANGED <<queue, carried, pending, known, seen, delivered, arrivals, losses, received, dropped, report, reader>>
    BY <1>8 DEF all, vars, views, order, counters, pushing, reading, line
  <2> QED BY <1>2, <1>3, <2>1, QuietCovers DEF LineHeld
<1> QED BY <1>4, <1>5, <1>6, <1>7, <1>8 DEF ReportNext

\* A prefix of n updates has at most n events.
LEMMA PrefixCount ==
  ASSUME NEW s, NEW n \in Nat, NEW S, S \subseteq First(s, n)
  PROVE  Cardinality(S) \in Nat /\ Cardinality(S) <= n
<1>1. IsFiniteSet(First(s, n)) /\ Cardinality(First(s, n)) <= n
  <2> DEFINE f == [i \in 1..n |-> s[i]]
  <2>1. f \in Surjection(1..n, First(s, n))
    BY DEF First, Surjection
  <2>2. IsFiniteSet(1..n) /\ Cardinality(1..n) = n
    BY FS_Interval
  <2> QED BY <2>1, <2>2, FS_Surjection
<1>2. IsFiniteSet(S) /\ Cardinality(S) <= Cardinality(First(s, n))
  BY <1>1, FS_Subset
<1>3. Cardinality(S) \in Nat /\ Cardinality(First(s, n)) \in Nat
  BY <1>1, <1>2, FS_CardinalityType
<1> QED BY <1>1, <1>2, <1>3

\* A counters line (tick_counters) counts every event the consumer has taken and
\* every loss their senders had counted, though each counter is relaxed and read
\* at a moment of its own, for any number of producers.
THEOREM LineCovers == ReportSpec => LineCoversTaken
<1>1. ReportInit => ReportInv /\ LineHeld
  BY InitReport DEF ReportInit, LineHeld
<1>2. ReportInv /\ LineHeld /\ [ReportNext]_all => ReportInv' /\ LineHeld'
  BY ReportStep
<1>3. ReportInv /\ ReportInv' /\ LineHeld /\ [ReportNext]_all =>
        [ReadReceived =>
           \A c \in Channel :
             /\ report'.received[c] >= Cardinality(On(c, Items(delivered)))
             /\ report'.dropped[c] >= Cardinality(On(c, seen.heard))]_all
  <2> SUFFICES ASSUME ReportInv, ReportInv', LineHeld, ReadReceived, NEW c \in Channel
               PROVE  /\ report'.received[c] >= Cardinality(On(c, Items(delivered)))
                      /\ report'.dropped[c] >= Cardinality(On(c, seen.heard))
    OBVIOUS
  <2>1. /\ seen \in View
        /\ Covers(seen, Items(delivered), arrivals, losses)
    BY DEF ReportInv, ReportTypes, ViewsCover
  <2>2. seen.received[c] \in Nat /\ seen.dropped[c] \in Nat
    BY <2>1 DEF View
  <2>3. Cardinality(On(c, Items(delivered))) \in Nat /\ Cardinality(On(c, Items(delivered))) <= seen.received[c]
    BY <2>1, <2>2, PrefixCount DEF Covers
  <2>4. Cardinality(On(c, seen.heard)) \in Nat /\ Cardinality(On(c, seen.heard)) <= seen.dropped[c]
    BY <2>1, <2>2, PrefixCount DEF Covers
  <2>5. TypeOK'
    BY DEF ReportInv
  <2>6. /\ seen.received[c] <= report'.received[c] /\ report'.received[c] \in Nat
        /\ report'.dropped[c] = seen.dropped[c]
    BY <2>5, ReadReceivedCovers DEF LineHeld, ReadReceived
  <2> QED BY <2>2, <2>3, <2>4, <2>6
<1> QED BY <1>1, <1>2, <1>3, PTL DEF ReportSpec, LineCoversTaken
=============================================================================
