\* Two channel threads over a one-event bus, the drain loop of polis tail, and
\* two counters lines whose numbers are read between their steps.
CONSTANTS
  p1 = p1
  p2 = p2
  Producers <- TwoProducers
  Capacity = 1
  EvictRetries = 2
  Kinds = {"fs"}
  Modes = {"drain"}
  MaxPushes = 2
  MaxReports = 2
SPECIFICATION ReportSpec
SYMMETRY Symmetric
INVARIANTS
  NothingVanishes
  ExactlyOnce
  ResultHonest
  PushCostBounded
PROPERTIES
  LineCoversTaken
CHECK_DEADLOCK TRUE
