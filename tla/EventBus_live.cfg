\* Two channel threads over a two-event bus: order, the refinement and progress.
\* Nothing is assumed of the consumer but where a property says so.
CONSTANTS
  p1 = p1
  p2 = p2
  Producers <- TwoProducers
  Capacity = 2
  EvictRetries = 2
  Kinds = {"hook", "drift"}
  Modes = {"recv_batch", "drain"}
  MaxPushes = 2
SPECIFICATION Spec
INVARIANTS
  PerProducerOrder
  CountersExact
PROPERTIES
  ImplementsLossyQueue
  PushReturns
  EventsSettle
