CONSTANTS MaxMessage <- MCMaxMessage
          MaxChunk = 1
          MaxFragment = 3
          MaxWrites <- MCMaxWrites
          MaxDatagrams = 1
SPECIFICATION LossySpec
INVARIANTS StreamIntact ChunksStable
PROPERTIES StreamSpec WrittenArrives ChannelDrains
CHECK_DEADLOCK FALSE
ACTION_CONSTRAINT OneEndOrFew
