SPECIFICATION Spec
CONSTANTS
  Files = {"map", "skin", "gone"}
  Absentees = {"gone"}
  Size <- LongSize
  BlockSize = 2
  MaxAsked = 4
  MaxEnqueued = 1
  MaxSkips = 0
  MaxErrors = 0
  MayBeLate = TRUE
INVARIANT NoRuntFile
CHECK_DEADLOCK FALSE
