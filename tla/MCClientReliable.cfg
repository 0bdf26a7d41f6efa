CONSTANTS MaxSize = 3
          MaxBackSize = 3
          MaxBackBuffers = 3
          Blocks <- Mixed
          MaxBlocks = 9
SPECIFICATION FairSpec
INVARIANTS TypeOK NothingLost SurvivesSlowClients
PROPERTY Drains
CHECK_DEADLOCK FALSE
