SPECIFICATION Spec
CONSTANTS
  Protocols = {"QW", "NQ"}
  MaxEnt = 2
  Fields = {"o", "m"}
  Sticky = {2}
  Slots = 0
  Backup = 4
  Room = 1
  MaxChanges = 2
  MaxSequence = 9
  Calm <- MCCalm
  MaxFlight = 2
INVARIANTS NothingForgotten EveryoneHasATurn CatchesUp
PROPERTY NeverOlder
CHECK_DEADLOCK FALSE
