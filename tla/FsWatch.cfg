\* Two files, one tracked rename at a time, renames reported in every form.
SPECIFICATION Spec
CONSTANTS
  a = a
  b = b
  r1 = r1
  Path = {a, b}
  Tracker = {r1}
  Forms = {"both", "any", "tracked", "untracked"}
  Backups = FALSE
  RawCapacity = 2
  Window = 1
INVARIANTS
  TypeOK
  SettledIsTruth
PROPERTIES
  BurstEnds
CHECK_DEADLOCK FALSE
