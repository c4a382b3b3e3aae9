----------------------------- MODULE LossyQueue -----------------------------
(***************************************************************************)
(* What the event bus of polis-ingest promises its producers and its one   *)
(* consumer, with no threads, retries or counters in it: a bounded FIFO    *)
(* that loses events rather than make a producer wait.  An event that      *)
(* arrives is waiting, then queued or lost; one that is queued is          *)
(* delivered or lost, always from the front.  Nothing is lost while nobody *)
(* is pushing, and no event waits for ever, whether or not the consumer    *)
(* ever takes anything.                                                    *)
(***************************************************************************)
EXTENDS Naturals, Sequences

CONSTANTS Event,      \* the events that can be pushed
          Capacity    \* how many of them the queue holds

VARIABLES waiting,    \* events pushed and not yet accepted
          queue,      \* events accepted, oldest first
          lost,       \* events dropped, on either path
          delivered   \* events the consumer took, in the order it took them

vars == <<waiting, queue, lost, delivered>>

Items(s) == {s[i] : i \in 1..Len(s)}

Seen == waiting \union Items(queue) \union lost \union Items(delivered)

Init ==
  /\ waiting = {}
  /\ queue = <<>>
  /\ lost = {}
  /\ delivered = <<>>

Arrive(e) ==
  /\ e \notin Seen
  /\ waiting' = waiting \union {e}
  /\ UNCHANGED <<queue, lost, delivered>>

Accept(e) ==
  /\ e \in waiting
  /\ Len(queue) < Capacity
  /\ waiting' = waiting \ {e}
  /\ queue' = Append(queue, e)
  /\ UNCHANGED <<lost, delivered>>

LoseOldest ==
  /\ waiting # {}
  /\ queue # <<>>
  /\ lost' = lost \union {Head(queue)}
  /\ queue' = Tail(queue)
  /\ UNCHANGED <<waiting, delivered>>

LoseNewest(e) ==
  /\ e \in waiting
  /\ waiting' = waiting \ {e}
  /\ lost' = lost \union {e}
  /\ UNCHANGED <<queue, delivered>>

Deliver ==
  /\ queue # <<>>
  /\ delivered' = Append(delivered, Head(queue))
  /\ queue' = Tail(queue)
  /\ UNCHANGED <<waiting, lost>>

Next ==
  \/ \E e \in Event : Arrive(e) \/ Accept(e) \/ LoseNewest(e)
  \/ LoseOldest
  \/ Deliver

Spec == Init /\ [][Next]_vars

=============================================================================
