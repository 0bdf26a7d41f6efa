CONSTANTS MaxMessage = 1
          MaxSequence = 5
          MaxWrites = 2
SPECIFICATION Spec
INVARIANTS StreamIntact IInv AckedWasDelivered LossIsReal RepliesMatch NoHoleFromServer
PROPERTY StreamSpec
CHECK_DEADLOCK FALSE
