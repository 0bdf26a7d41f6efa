--------------------------- MODULE ClientReliable ---------------------------
(***************************************************************************)
(* The server's reliable writes to one client: engine/server/sv_nchan.c    *)
(* and the flush at the client's turn in SV_SendClientMessages             *)
(* (sv_send.c).  A block that might not fit netchan.message goes to a back *)
(* buffer, and then so do all the blocks after it until the back buffers   *)
(* are empty again: one of them moves to netchan.message per turn.  Some   *)
(* code writes straight into netchan.message instead; it must not overtake *)
(* what waits.                                                             *)
(*                                                                         *)
(* A block is the number of its write.  Its writer tells how long it may   *)
(* become before it writes it.  What the channel does with netchan.message *)
(* is NetChan's: here it takes it when nothing is in flight.               *)
(***************************************************************************)
EXTENDS Integers, Sequences

CONSTANTS MaxSize,         \* netchan.message.maxsize
          MaxBackSize,     \* backbuf.maxsize
          MaxBackBuffers,  \* MAX_BACK_BUFFERS
          Blocks,          \* what is written: [size, estimate]
          MaxBlocks        \* bound: blocks written

ASSUME SizesAssumption ==
    /\ MaxSize \in Nat \ {0}
    /\ MaxBackSize \in 1..MaxSize
    /\ MaxBackBuffers \in Nat \ {0}
    /\ Blocks \subseteq [size: 1..MaxBackSize, estimate: Nat]
    /\ MaxBlocks \in Nat

VARIABLES message,        \* netchan.message
          overflowed,     \* netchan.message.overflowed
          backbufs,       \* backbuf_data and backbuf_size, num_backbuf of them
          allowoverflow,  \* backbuf.allowoverflow
          drop,           \* client_t.drop
          in_flight,      \* netchan.reliable_length is not zero
          dropped,        \* SV_DropClient was called
          sys_error,      \* Sys_Error ended the server
          offered,        \* history: blocks written so far
          exceeded,       \* history: one was longer than its estimate
          handed          \* history: what the channel took, in order

vars == <<message, overflowed, backbufs, allowoverflow, drop, in_flight,
          dropped, sys_error, offered, exceeded, handed>>
-----------------------------------------------------------------------------
Buffer == [size: Nat, blocks: Seq(1..MaxBlocks)]

Empty == [size |-> 0, blocks |-> <<>>]

Init == /\ message = Empty
        /\ overflowed = FALSE
        /\ backbufs = <<>>
        /\ allowoverflow = FALSE
        /\ drop = FALSE
        /\ in_flight = FALSE
        /\ dropped = FALSE
        /\ sys_error = FALSE
        /\ offered = 0
        /\ exceeded = FALSE
        /\ handed = <<>>

Running == ~dropped /\ ~sys_error

\* SZ_GetSpace
Overflows(b, size, max) == b.size + size > max

Added(b, size, max) ==
    IF Overflows(b, size, max)
    THEN [size |-> size, blocks |-> <<offered + 1>>]
    ELSE [size |-> b.size + size, blocks |-> Append(b.blocks, offered + 1)]
-----------------------------------------------------------------------------
(* ClientReliableCheckBlock and the writes that follow it. *)

MightOverflowSlip(b, max, estimate) == b.size >= max

MightOverflow(b, max, estimate) == b.size > max - estimate - 1

\* once one block waits, all do
GoesBack(block) == \/ backbufs # <<>>
                   \/ MightOverflow(message, MaxSize, block.estimate)

\* the back buffers with at least one, and the one being filled
Started == IF backbufs = <<>> THEN <<Empty>> ELSE backbufs

Current == Started[Len(Started)]

WriteMessage(block) ==
    /\ ~GoesBack(block)
    /\ message' = Added(message, block.size, MaxSize)
    /\ overflowed' = (overflowed \/ Overflows(message, block.size, MaxSize))
    /\ UNCHANGED <<backbufs, allowoverflow, drop, sys_error>>

(* An overflow of the back buffer is one of the message: it will drop the   *)
(* client.  Without allowoverflow it ends the server.                       *)
FillBack(buffers, b, block, allowed, over) ==
    LET overflow == Overflows(b, block.size, MaxBackSize) IN
    /\ backbufs' = [buffers EXCEPT ![Len(buffers)] = Added(b, block.size, MaxBackSize)]
    /\ allowoverflow' = allowed
    /\ overflowed' = (over \/ overflow)
    /\ sys_error' = (overflow /\ ~allowed)
    /\ UNCHANGED message

WriteBack(block) ==
    /\ GoesBack(block)
    /\ ~MightOverflow(Current, MaxBackSize, block.estimate)
    /\ FillBack(Started, Current, block, allowoverflow \/ backbufs = <<>>, overflowed)
    /\ UNCHANGED drop

WriteNextBack(block) ==
    /\ GoesBack(block)
    /\ MightOverflow(Current, MaxBackSize, block.estimate)
    /\ Len(Started) < MaxBackBuffers
    /\ FillBack(Append(Started, Empty), Empty, block, TRUE, overflowed)
    /\ UNCHANGED drop

\* the last buffer is emptied, and the client will be dropped
WriteNoBack(block) ==
    /\ GoesBack(block)
    /\ MightOverflow(Current, MaxBackSize, block.estimate)
    /\ Len(Started) = MaxBackBuffers
    /\ FillBack(Started, Empty, block, allowoverflow \/ backbufs = <<>>, TRUE)
    /\ drop' = TRUE

Write(block) ==
    /\ Running
    /\ offered < MaxBlocks
    /\ \/ WriteMessage(block)
       \/ WriteBack(block)
       \/ WriteNextBack(block)
       \/ WriteNoBack(block)
    /\ offered' = offered + 1
    /\ exceeded' = (exceeded \/ block.size > block.estimate)
    /\ UNCHANGED <<in_flight, dropped, handed>>

MayWriteDirectSlip == TRUE

(* "the list stages write straight into the message" (SV_SendClientPrespawn *)
(* Info): only while nothing waits, and as long as there is room.           *)
MayWriteDirect == backbufs = <<>>

WriteDirect(block) ==
    /\ Running
    /\ offered < MaxBlocks
    /\ MayWriteDirect
    /\ ~Overflows(message, block.size, MaxSize)
    /\ message' = Added(message, block.size, MaxSize)
    /\ offered' = offered + 1
    /\ UNCHANGED <<overflowed, backbufs, allowoverflow, drop, in_flight,
                   dropped, sys_error, exceeded, handed>>
-----------------------------------------------------------------------------
(* The client's turn in SV_SendClientMessages. *)

FitsMessageLooseSlip(b) == b.size <= MaxSize

FitsMessageSlip(b) == message.size + b.size < MaxSize

FitsMessage(b) == message.size + b.size <= MaxSize

Flushes == backbufs # <<>> /\ FitsMessage(backbufs[1])

Flushed == IF Flushes
           THEN [size |-> message.size + backbufs[1].size,
                 blocks |-> message.blocks \o backbufs[1].blocks]
           ELSE message

\* SV_DropClient
DropClient == /\ dropped' = TRUE
              /\ UNCHANGED <<allowoverflow, in_flight, handed>>

DropFlagged ==
    /\ Running
    /\ drop
    /\ drop' = FALSE
    /\ DropClient
    /\ UNCHANGED <<message, overflowed, backbufs, sys_error, offered, exceeded>>

(* The flush: backbuf is set up anew for the last buffer, allowoverflow not *)
(* among it.                                                                *)
Shifted == IF Flushes
           THEN /\ backbufs' = Tail(backbufs)
                /\ allowoverflow' = (allowoverflow /\ Len(backbufs) = 1)
           ELSE UNCHANGED <<backbufs, allowoverflow>>

DropOverflowed ==
    /\ Running
    /\ ~drop /\ overflowed
    /\ message' = Empty
    /\ overflowed' = FALSE
    /\ backbufs' = IF Flushes THEN Tail(backbufs) ELSE backbufs
    /\ DropClient
    /\ UNCHANGED <<drop, sys_error, offered, exceeded>>

\* Netchan_Transmit takes message when nothing is in flight
Turn(sends) ==
    /\ Running
    /\ ~drop /\ ~overflowed
    /\ Shifted
    /\ LET taken == sends /\ ~in_flight /\ Flushed.size > 0 IN
       /\ handed' = IF taken THEN handed \o Flushed.blocks ELSE handed
       /\ message' = IF taken THEN Empty ELSE Flushed
       /\ in_flight' = (in_flight \/ taken)
    /\ UNCHANGED <<overflowed, drop, dropped, sys_error, offered, exceeded>>

\* Netchan_Process
Acknowledged ==
    /\ Running
    /\ in_flight
    /\ in_flight' = FALSE
    /\ UNCHANGED <<message, overflowed, backbufs, allowoverflow, drop, dropped,
                   sys_error, offered, exceeded, handed>>
-----------------------------------------------------------------------------
Next == \/ \E block \in Blocks : Write(block) \/ WriteDirect(block)
        \/ \E sends \in BOOLEAN : Turn(sends)
        \/ DropFlagged \/ DropOverflowed \/ Acknowledged

Spec == Init /\ [][Next]_vars

(* Fairness: the server loop gives the client its turns and sends to it     *)
(* again and again, and the channel brings acknowledgements (NetChan,       *)
(* NQNetChanLive).                                                          *)
FairSpec == Spec /\ WF_vars(Turn(TRUE)) /\ WF_vars(Acknowledged)
-----------------------------------------------------------------------------
(***************************************************************************)
(* Correctness.                                                            *)
(***************************************************************************)

\* No buffer holds more than it may, and there are not too many.
TypeOK == /\ message \in Buffer /\ message.size <= MaxSize
          /\ overflowed \in BOOLEAN
          /\ backbufs \in Seq(Buffer)
          /\ Len(backbufs) <= MaxBackBuffers
          /\ \A i \in 1..Len(backbufs) : backbufs[i].size <= MaxBackSize
          /\ allowoverflow \in BOOLEAN
          /\ drop \in BOOLEAN
          /\ in_flight \in BOOLEAN
          /\ dropped \in BOOLEAN
          /\ sys_error \in BOOLEAN
          /\ offered \in 0..MaxBlocks
          /\ exceeded \in BOOLEAN
          /\ handed \in Seq(1..MaxBlocks)

\* the blocks in the back buffers, oldest first
Waiting ==
    LET upTo[i \in 0..Len(backbufs)] ==
            IF i = 0 THEN <<>> ELSE upTo[i - 1] \o backbufs[i].blocks
    IN  upTo[Len(backbufs)]

(* Whichever way a block went, through how many back buffers and however    *)
(* the writers mix, blocks wait in the order they were written and none is  *)
(* missing: until the client is to be dropped.  (sv_user.c 1664: "without   *)
(* this they overtake a fullserverinfo that went to the backbuf".)          *)
NothingLost ==
    ~overflowed /\ ~drop /\ ~dropped =>
        handed \o message.blocks \o Waiting = [i \in 1..offered |-> i]

(* While writers keep to their estimates, a client that is slow costs       *)
(* itself the connection, and never the server its life.                    *)
SurvivesSlowClients == sys_error => exceeded

(* What waits is sent in the end, however slow the acknowledgements are:    *)
(* the blocks at the head of the queue always fit at last.                  *)
Drains == \A n \in 1..MaxBlocks :
              offered >= n ~> (Len(handed) >= n \/ overflowed \/ dropped)
=============================================================================
