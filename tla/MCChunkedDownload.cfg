SPECIFICATION FairSpec
CONSTANTS
  Files = {"map", "skin", "gone"}
  Absentees = {"gone"}
  Size <- MCSize
  BlockSize = 2
  MaxAsked = 2
  MaxEnqueued = 2
  MaxSkips = 1
  MaxErrors = 1
  MayBeLate = FALSE
INVARIANTS FinishedIsWhole
PROPERTY QueueDrains
CHECK_DEADLOCK FALSE
