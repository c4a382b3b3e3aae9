\* Two processes on one file, three sessions of which four rows are made; the
\* window is two sessions and the corpus is trusted from the second on.
CONSTANTS
  Instance = {a, b}
  Session = {s1, s2, s3}
  Path = {p1}
  Window = 2
  ColdStart = 2
  None = None
  MaxSessions = 4
  MaxFaults = 1
SPECIFICATION Spec
SYMMETRY Symmetric
INVARIANTS
  IndexIsExact
  KeepsTheNewest
PROPERTIES
  SwitchOnce
CHECK_DEADLOCK FALSE
