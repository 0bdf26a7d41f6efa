CONSTANTS Lengths <- MCLengths
          Rooms <- MCRooms
          BufferSize = 32
          MaxSequence = 4
SPECIFICATION Spec
INVARIANTS BufferIsPrefix FragmentsSuffice
PROPERTY LinkSpec
CHECK_DEADLOCK FALSE
