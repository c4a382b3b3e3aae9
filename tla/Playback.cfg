\* Three recordings, with and without compressed gaps, under every transport key.
CONSTANTS
  Recordings <- Announced
  Caps = {0, 2}
  Marked = {3}
  BurstGap = 3
  Unit = 2
  Strides = {1, 5}
  Gaps = {1, 2}
  MinInterval = 2
  Place <- Districts
  Rank <- ByName
  Confirmations = 1
  MinDepth = 2
  MinEvidence = 2
  Recent = 3
SPECIFICATION Spec
INVARIANTS
  SameHistory
  ScrubberHonest
  SnapshotWhole
  TerritoryKeepsTime
PROPERTIES
  PlayEnds
CHECK_DEADLOCK FALSE
