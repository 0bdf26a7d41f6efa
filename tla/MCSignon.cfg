SPECIFICATION FairSpec
CONSTANTS
  Sounds = 1
  Models = 1
  SignonData = 1
  MaxSpawncount = 2
  MaxEvents = 1
INVARIANTS ListsAreWhole ActiveIsComplete SpawnedIsThere
PROPERTIES SpawnKnowsUserinfo EveryoneIsRestarted
