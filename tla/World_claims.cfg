CONSTANTS
  t1 = t1
  t2 = t2
  Thread = {t1, t2}
  p1 = p1
  p2 = p2
  Path = {p1, p2}
  w1 = w1
  Worktree = {w1}
  c1 = c1
  c2 = c2
  Call = {c1, c2}
  Branch = {"HEAD"}
  Detached = "HEAD"
  NoBranch = "none"
  Source = {}
  Ranges <- OneRange
  TTL = 1
  PendingCap = 1
  IdleAfter = 4
  FullWeight = 4
  Decay = 4
  Skew = 1
  LastEvent = 2
  MaxTime = 3
SPECIFICATION Spec
SYMMETRY Interchangeable
VIEW ClaimsView
INVARIANTS
  OneClaimPerThread
PROPERTIES
  OneSideAtATime
