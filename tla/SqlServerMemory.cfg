CONSTANTS
    MaxQueries = 1
    MaxParts = 2
    MaxNum = 3
    MaxLive = 1
SPECIFICATION Spec
INVARIANTS MemoryIsSafe
