CONSTANTS
  a = a
  b = b
  i1 = i1
  i2 = i2
  Path = {a, b}
  Process = {i1, i2}
  MaxCommits = 3
SPECIFICATION Spec
SYMMETRY Symmetric
INVARIANTS
  CoversItsHead
  LinearIsFresh
CHECK_DEADLOCK FALSE
