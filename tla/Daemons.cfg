\* Two daemons, on one port or on two; a stranger may hold the one compiled in.
CONSTANTS
  d1 = d1
  d2 = d2
  h1 = h1
  Daemon = {d1, d2}
  Port = {"p45177", "p9"}
  Default = "p45177"
  Assignments <- Either
  Hook = {h1}
  Env <- FromFile
  Fragile = {"otel", "hook", "file"}
  MaxErrors = 2
  Enabled <- MCEnabled
  MaxErrorSteps = 2
  Squatted = {"p45177"}
SPECIFICATION Spec
INVARIANTS
  FileFollowsWriter
  WakeNeverCounted
PROPERTIES
  StopEnds
CHECK_DEADLOCK FALSE
