----------------------------- MODULE BusReport -----------------------------
(***************************************************************************)
(* The counters line: the consumer's thread reads BusStats and BusTotals   *)
(* between two batches (tick_counters in polis-app/src/commands.rs).       *)
(*                                                                         *)
(* The counters are updated and read with Ordering::Relaxed, so a load may *)
(* return any value the counter has had that is not older than one the     *)
(* reading thread already knows of.  What a thread knows is its view:      *)
(* its own updates, what it has read, and what the sender of an event      *)
(* knew when it sent an event that this thread took, because the           *)
(* queue's send and receive of one slot are a release and an acquire.  No  *)
(* other order is assumed, in particular none between two counters.  An    *)
(* update reads the latest value, whatever its ordering.  The queue's      *)
(* length is read with SeqCst and is exact.                                *)
(*                                                                         *)
(* The loads of one array are a step: no event is taken between them, so   *)
(* the view they start from is the same, and each only may be older.       *)
(***************************************************************************)
EXTENDS EventBus

CONSTANT MaxReports     \* bound: counter lines printed

VARIABLES known,        \* the view of each producer
          carried,      \* the views the queued events carry, oldest first
          seen,         \* the consumer's view
          arrivals,     \* ghost: the events in the order received counted them
          losses,       \* ghost: the events in the order dropped counted them
          report,       \* the numbers the current line has read so far
          reader,       \* which read comes next
          reports       \* lines printed

views == <<known, carried, seen>>
order == <<arrivals, losses>>
line  == <<report, reader, reports>>
all   == <<vars, views, order, line>>

\* heard is a ghost: the losses whose counting the owner of the view knows of.
Zero     == [c \in Channel |-> 0]
NoView   == [received |-> Zero, dropped |-> Zero, heard |-> {}]
NoReport == [queued |-> 0, dropped |-> Zero, received |-> Zero]

Later(f, g) == [c \in Channel |-> IF f[c] < g[c] THEN g[c] ELSE f[c]]
Join(v, w) ==
  [received |-> Later(v.received, w.received),
   dropped  |-> Later(v.dropped, w.dropped),
   heard    |-> v.heard \union w.heard]

ReportInit ==
  /\ Init
  /\ known = [p \in Producers |-> NoView]
  /\ carried = <<>>
  /\ seen = NoView
  /\ arrivals = [c \in Channel |-> <<>>]
  /\ losses = [c \in Channel |-> <<>>]
  /\ report = NoReport
  /\ reader = "queued"
  /\ reports = 0

-----------------------------------------------------------------------------
(* The bus goes on, each step with what it teaches the thread that makes it. *)

ArriveKnown(p, kind) ==
  /\ Arrive(p, kind)
  /\ LET c == ChannelOf(kind) IN
       /\ arrivals' = [arrivals EXCEPT ![c] = Append(@, [src |-> p, seq |-> pushes[p] + 1, kind |-> kind])]
       /\ known' = [known EXCEPT ![p] = [@ EXCEPT !.received[c] = received'[c]]]
  /\ UNCHANGED <<carried, seen, losses>>

\* push counts the arrival before it sends, so the event carries its own count.
CountedAfterSend(p) == [known[p] EXCEPT !.received[ChannelOf(pending[p].kind)] = @ - 1]
CarriedBy(p)        == known[p]

SendKnown(p) ==
  /\ TrySendOk(p)
  /\ carried' = Append(carried, CarriedBy(p))
  /\ UNCHANGED <<known, seen, order>>

\* A producer that evicts takes an event, and with it what its sender knew.
EvictKnown(p) ==
  /\ EvictOldest(p)
  /\ known' = [known EXCEPT ![p] = Join(@, Head(carried))]
  /\ carried' = Tail(carried)
  /\ UNCHANGED <<seen, order>>

\* A loss is counted: the counter's value and the loss join the view.
Learn(v, c, n, e) == [v EXCEPT !.dropped[c] = n, !.heard = @ \union {e}]

Charge(p, e) ==
  LET c == ChannelOf(e.kind) IN
    /\ losses' = [losses EXCEPT ![c] = Append(@, e)]
    /\ known' = [known EXCEPT ![p] = Learn(@, c, dropped'[c], e)]
    /\ UNCHANGED <<carried, seen, arrivals>>

DropKnown(p) ==
  \/ CountVictim(p) /\ Charge(p, victim[p])
  \/ DropNewest(p) /\ Charge(p, pending[p])

TakeKnown ==
  /\ RecvFirst \/ DrainOne
  /\ seen' = Join(seen, Head(carried))
  /\ carried' = Tail(carried)
  /\ UNCHANGED <<known, order>>

Unseen ==
  /\ \/ \E p \in Producers : TrySendFull(p) \/ EvictNothing(p) \/ DropSink(p)
     \/ RecvDisconnected \/ DrainStart \/ DrainEnd \/ Terminated
  /\ UNCHANGED <<views, order>>

\* The line is the consumer's: while it reads, the consumer takes nothing.
BusStep ==
  /\ \/ \E p \in Producers : (\E kind \in Kinds : ArriveKnown(p, kind)) \/ SendKnown(p)
                               \/ EvictKnown(p) \/ DropKnown(p)
     \/ TakeKnown
     \/ Unseen
  /\ reader = "queued" \/ UNCHANGED reading
  /\ UNCHANGED line

-----------------------------------------------------------------------------
(* The line. *)

\* What the loads of an array of counters may return to a thread with that view.
Readable(mine, now) ==
  LET behind == {c \in Channel : mine[c] < now[c]}
      older  == {f \in [behind -> UNION {mine[c]..now[c] : c \in behind}] :
                   \A c \in behind : f[c] \in mine[c]..now[c]}
  IN  {[c \in Channel |-> IF c \in behind THEN f[c] ELSE now[c]] : f \in older}

\* BusStats::queued is an argument of Bus::stats, so it is read first.
ReadQueued ==
  /\ reader = "queued"
  /\ consumer = "idle"
  /\ reports < MaxReports
  /\ report' = [NoReport EXCEPT !.queued = Len(queue)]
  /\ reader' = "dropped"
  /\ UNCHANGED <<vars, views, order, reports>>

ReadDropped ==
  /\ reader = "dropped"
  /\ \E numbers \in Readable(seen.dropped, dropped) :
       /\ report' = [report EXCEPT !.dropped = numbers]
       /\ seen' = [seen EXCEPT !.dropped = numbers]
  /\ reader' = "received"
  /\ UNCHANGED <<vars, known, carried, order, reports>>

ReadReceived ==
  /\ reader = "received"
  /\ \E numbers \in Readable(seen.received, received) :
       /\ report' = [report EXCEPT !.received = numbers]
       /\ seen' = [seen EXCEPT !.received = numbers]
  /\ reader' = "queued"
  /\ reports' = reports + 1
  /\ UNCHANGED <<vars, known, carried, order>>

ReportNext ==
  \/ BusStep
  \/ ReadQueued
  \/ ReadDropped
  \/ ReadReceived

ReportSpec == ReportInit /\ [][ReportNext]_all

-----------------------------------------------------------------------------
\* A line is behind the producers and never behind the events printed above it:
\* when it is complete it counts every event the consumer has taken among the
\* received, and among the dropped every event that one of their senders had
\* lost before it sent, although the counters are relaxed.
LineCoversTaken ==
  [][ReadReceived =>
       \A c \in Channel :
         /\ report'.received[c] >= Cardinality(On(c, Items(delivered)))
         /\ report'.dropped[c] >= Cardinality(On(c, seen.heard))]_all
=============================================================================
