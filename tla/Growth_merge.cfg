CONSTANTS
  a = a
  b = b
  i1 = i1
  i2 = i2
  Path = {a, b}
  Process = {i1}
  MaxCommits = 4
SPECIFICATION Spec
SYMMETRY Symmetric
INVARIANTS
  DerivedIsFresh
CHECK_DEADLOCK FALSE
