CONSTANTS
  a = a
  b = b
  w1 = w1
  w2 = w2
  w3 = w3
  r1 = r1
  NoRun = NoRun
  Thread = {a, b}
  Worker = {w1, w2, w3}
  Run = {r1}
  Home <- MCHome
  RunOf <- MCRunOf
  Offered = {"Hook", "Stop", "Record", "BareRecord", "Launched", "Completed", "Started", "Result", "Workflow"}
SPECIFICATION Spec
CHECK_DEADLOCK FALSE
INVARIANTS
  PlacedOrParked
  PlaceFollowsEvidence
PROPERTIES
  EvidenceGrows
