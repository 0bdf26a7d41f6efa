CONSTANTS
    MaxQueries = 3
    MaxParts = 2
    MaxNum = 3
    MaxLive = 2
SPECIFICATION FairSpec
INVARIANTS AnswersInOrder NumbersAreUnique ReachableIsAllocated
PROPERTIES EveryQueryIsAnswered
