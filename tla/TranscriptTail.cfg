CONSTANTS
  main = main
  sub = sub
  Order <- MCOrder
  Lines = 2
  Pieces = 2
  SpawnLine = 2
  MaxPoll = 3
  Rewrites = 1
  Starts = {"Beginning", "End"}
SPECIFICATION TailSpec
INVARIANTS
  TailTypes
  EveryLineOnce
  SpawnFirst
PROPERTIES
  LinesArrive
CHECK_DEADLOCK FALSE
