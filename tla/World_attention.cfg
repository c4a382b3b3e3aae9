\* Two threads over one file: what they ask, finish and leave behind, with the
\* thresholds at one unit so that everything that fades does so in the bound.
CONSTANTS
  t1 = t1
  t2 = t2
  Thread = {t1, t2}
  p1 = p1
  Path = {p1}
  w1 = w1
  Worktree = {w1}
  Call = {}
  Branch = {"HEAD"}
  Detached = "HEAD"
  NoBranch = "none"
  Source = {"Notification", "Elicitation"}
  Ranges <- NoRanges
  TTL = 1
  PendingCap = 1
  IdleAfter = 1
  FullWeight = 1
  Decay = 1
  Skew = 0
  LastEvent = 1
  MaxTime = 4
SPECIFICATION Spec
SYMMETRY Interchangeable
VIEW MarksView
INVARIANTS
  PinnedNeverActive
PROPERTIES
  AnswersAreWhole
  OneTickSettles
  UnverifiedPersists
