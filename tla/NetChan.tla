------------------------------ MODULE NetChan ------------------------------
(***************************************************************************)
(* The QuakeWorld channel of engine/common/net_chan.c between one client   *)
(* and its server, over a datagram transport, together with the code that  *)
(* drives it at each end: CL_SendCmd and CL_ReadPacket on the client,      *)
(* SV_ReadPacket, SV_ExecuteClientMessage and SV_SendClientMessages on the *)
(* server.                                                                 *)
(*                                                                         *)
(* chan[e] has the fields of netchan_t that carry the protocol, under      *)
(* their names.  A reliable message is the number of its write, so a lost, *)
(* repeated or misplaced one shows.  net[e] is the set of every packet     *)
(* ever sent to e: delivering any member, in any order, any number of      *)
(* times or never gives reordering, duplication and loss.                  *)
(*                                                                         *)
(* Packets are whole here.  PacketLink says what that asks of the network, *)
(* and NetChanFrag, which cuts packets up, is shown to implement it.       *)
(***************************************************************************)
EXTENDS Integers, Sequences

CONSTANTS MaxMessage,   \* message.maxsize, in messages
          MaxSequence,  \* bound: the client stops sending at this sequence
          MaxWrites     \* bound: reliable messages each end writes

ASSUME BoundsAssumption == /\ MaxMessage \in Nat \ {0}
                           /\ MaxSequence \in Nat
                           /\ MaxWrites \in Nat

VARIABLES chan,          \* chan[e]: e's netchan_t
          net,           \* net[e]: every packet ever sent to e
          send_message,  \* client_t.send_message: the server owes a reply
          drop,          \* client_t.drop: the server is about to drop it
          connected,     \* connected[e]: e has not ended the connection
          offered,       \* offered[e]: reliable messages e has written so far
          written,       \* history: those that no overflow threw away
          delivered,     \* history: what e's parser was given
          acked          \* history: how many messages e knows received

vars == <<chan, net, send_message, drop, connected,
          offered, written, delivered, acked>>
history == <<offered, written, delivered, acked>>
-----------------------------------------------------------------------------
End == {"client", "server"}
Peer == [e \in End |-> IF e = "client" THEN "server" ELSE "client"]

(* The last one is the server's notice that the client overflowed. *)
Message == 1..MaxWrites + 1

Channel == [outgoing_sequence: Nat, incoming_sequence: Nat,
            incoming_acknowledged: Nat, last_reliable_sequence: Nat,
            incoming_reliable_acknowledged: {0, 1},
            incoming_reliable_sequence: {0, 1}, reliable_sequence: {0, 1},
            reliable_buf: Seq(Message), message: Seq(Message),
            overflowed: BOOLEAN]

(* rel and relack are the top bits of the two header words; data is the    *)
(* reliable payload, which comes first in the packet; of the unreliable    *)
(* rest only one thing matters here, that it ends the connection (final:   *)
(* svc_disconnect, or the command "drop").                                 *)
Packet == [seq: Nat, rel: BOOLEAN, ack: Nat, relack: {0, 1},
           data: Seq(Message), final: BOOLEAN]

(* Netchan_Setup *)
Setup == [outgoing_sequence |-> 1, incoming_sequence |-> 0,
          incoming_acknowledged |-> 0, last_reliable_sequence |-> 0,
          incoming_reliable_acknowledged |-> 0,
          incoming_reliable_sequence |-> 0, reliable_sequence |-> 0,
          reliable_buf |-> <<>>, message |-> <<>>, overflowed |-> FALSE]

Init == /\ chan = [e \in End |-> Setup]
        /\ net = [e \in End |-> {}]
        /\ send_message = FALSE
        /\ drop = FALSE
        /\ connected = [e \in End |-> TRUE]
        /\ offered = [e \in End |-> 0]
        /\ written = [e \in End |-> <<>>]
        /\ delivered = [e \in End |-> <<>>]
        /\ acked = [e \in End |-> 0]
-----------------------------------------------------------------------------
(* Netchan_Transmit, past its overflow check. *)

(* Slips: an operator named ...Slip is a mistake one could make in the     *)
(* definition after it.  No definition uses them; each shows that some     *)
(* property of a run would notice it.                                      *)
ReliableLostEagerSlip(c) ==
    c.incoming_reliable_acknowledged # c.reliable_sequence

\* a later packet was acknowledged and the reliable one was not
ReliableLost(c) ==
    /\ c.incoming_acknowledged > c.last_reliable_sequence
    /\ c.incoming_reliable_acknowledged # c.reliable_sequence

CanLoad(c) == c.reliable_buf = <<>> /\ c.message # <<>>

SendReliable(c) == ReliableLost(c) \/ CanLoad(c)

LoadSlip(c) == IF CanLoad(c)
               THEN [c EXCEPT !.reliable_buf = c.message, !.message = <<>>]
               ELSE c

\* the waiting messages become the reliable in flight, with the other parity
Load(c) == IF CanLoad(c)
           THEN [c EXCEPT !.reliable_buf = c.message, !.message = <<>>,
                          !.reliable_sequence = 1 - @]
           ELSE c

PacketFrom(c, final) ==
    [seq |-> c.outgoing_sequence, rel |-> SendReliable(c),
     ack |-> c.incoming_sequence, relack |-> c.incoming_reliable_sequence,
     data |-> IF SendReliable(c) THEN Load(c).reliable_buf ELSE <<>>,
     final |-> final]

AfterTransmit(c) ==
    [Load(c) EXCEPT !.outgoing_sequence = @ + 1,
                    !.last_reliable_sequence = IF SendReliable(c)
                                               THEN c.outgoing_sequence + 1
                                               ELSE @]

Link == [chan |-> chan, net |-> net]

(* The two ends and the wire after e transmits: an overflowed buffer makes *)
(* Netchan_Transmit refuse.                                                *)
Sent(l, e, final) ==
    IF l.chan[e].overflowed THEN l
    ELSE [chan |-> [l.chan EXCEPT ![e] = AfterTransmit(@)],
          net |-> [l.net EXCEPT ![Peer[e]] = @ \cup {PacketFrom(l.chan[e], final)}]]

Becomes(l) == chan' = l.chan /\ net' = l.net

Transmit(e) == Becomes(Sent(Link, e, FALSE))

\* CL_Disconnect says it three times, SV_DropClient twice
ClientFinal(l) == Sent(Sent(Sent(l, "client", TRUE), "client", TRUE), "client", TRUE)

ServerFinal(l) == Sent(Sent(l, "server", TRUE), "server", TRUE)
-----------------------------------------------------------------------------
(* Netchan_Process of a packet that is not stale. *)

StaleSlip(c, p) == p.seq < c.incoming_sequence

Stale(c, p) == p.seq <= c.incoming_sequence

AcknowledgesSlip(c, p) == p.ack + 1 >= c.last_reliable_sequence

Acknowledges(c, p) == p.relack = c.reliable_sequence

AfterProcess(c, p) ==
    [c EXCEPT !.reliable_buf = IF Acknowledges(c, p) THEN <<>> ELSE @,
              !.incoming_sequence = p.seq,
              !.incoming_acknowledged = p.ack,
              !.incoming_reliable_acknowledged = p.relack,
              !.incoming_reliable_sequence = IF p.rel THEN 1 - @ ELSE @]

\* what the parser and the histories get from it
Delivery(e, p) ==
    /\ delivered' = [delivered EXCEPT ![e] = @ \o p.data]
    /\ acked' = [acked EXCEPT ![e] = IF Acknowledges(chan[e], p)
                                     THEN @ + Len(chan[e].reliable_buf) ELSE @]
-----------------------------------------------------------------------------
(* The code above the channel writes a reliable message (MSG_Write*, that  *)
(* is SZ_GetSpace on chan->message): one that does not fit empties the     *)
(* buffer first and marks it overflowed.                                   *)
Fits(c) == Len(c.message) < MaxMessage

Withdrawn(e) == SubSeq(written[e], 1, Len(written[e]) - Len(chan[e].message))

Write(e) ==
    /\ connected[e]
    /\ offered[e] < MaxWrites
    /\ LET m == offered[e] + 1 IN
       IF Fits(chan[e])
       THEN /\ chan' = [chan EXCEPT ![e].message = Append(@, m)]
            /\ written' = [written EXCEPT ![e] = Append(@, m)]
       ELSE /\ chan' = [chan EXCEPT ![e].message = <<m>>, ![e].overflowed = TRUE]
            /\ written' = [written EXCEPT ![e] = Append(Withdrawn(e), m)]
    /\ offered' = [offered EXCEPT ![e] = @ + 1]
    /\ UNCHANGED <<net, send_message, drop, connected, delivered, acked>>
-----------------------------------------------------------------------------
(* The client: the send at the end of CL_SendCmd, CL_ReadPacket, and        *)
(* CL_Disconnect.                                                           *)

ClientTransmit ==
    /\ connected["client"]
    /\ chan["client"].outgoing_sequence < MaxSequence
    /\ ~chan["client"].overflowed
    /\ Transmit("client")
    /\ UNCHANGED <<send_message, drop, connected, history>>

(* Netchan_Transmit refuses with fatal_error, and CL_SendCmd forgets both   *)
(* the error and whatever was waiting.                                      *)
ClientOverflow ==
    /\ connected["client"]
    /\ chan["client"].overflowed
    /\ chan' = [chan EXCEPT !["client"].message = <<>>,
                            !["client"].overflowed = FALSE]
    /\ written' = [written EXCEPT !["client"] = Withdrawn("client")]
    /\ UNCHANGED <<net, send_message, drop, connected, offered, delivered, acked>>

(* cl_c2spps thins out packets: the move is numbered and never sent. *)
ClientSkip ==
    /\ connected["client"]
    /\ chan["client"].outgoing_sequence < MaxSequence
    /\ chan' = [chan EXCEPT !["client"].outgoing_sequence = @ + 1]
    /\ UNCHANGED <<net, send_message, drop, connected, history>>

\* "Server is from the future!"
CatchUp(c) == [c EXCEPT !.outgoing_sequence = IF c.incoming_sequence > @
                                              THEN c.incoming_sequence ELSE @]

(* svc_disconnect makes the client disconnect in turn. *)
ClientReceive(p) ==
    /\ connected["client"]
    /\ ~Stale(chan["client"], p)
    /\ LET l == [Link EXCEPT !.chan["client"] = CatchUp(AfterProcess(@, p))] IN
       Becomes(IF p.final THEN ClientFinal(l) ELSE l)
    /\ connected' = [connected EXCEPT !["client"] = ~p.final]
    /\ Delivery("client", p)
    /\ UNCHANGED <<send_message, drop, offered, written>>

\* the player leaves, or the client hits an error
ClientDisconnect ==
    /\ connected["client"]
    /\ Becomes(ClientFinal(Link))
    /\ connected' = [connected EXCEPT !["client"] = FALSE]
    /\ UNCHANGED <<send_message, drop, history>>
-----------------------------------------------------------------------------
(* The server: SV_ReadPacket with the head of SV_ExecuteClientMessage, this *)
(* client's turn in SV_SendClientMessages, and SV_DropClient.               *)

\* the reply takes the number of the packet it answers
Slipped(c) == c.incoming_sequence < c.outgoing_sequence

MatchSequenceSlip(c) == c

MatchSequence(c) == IF Slipped(c) THEN c
                    ELSE [c EXCEPT !.outgoing_sequence = c.incoming_sequence]

\* the command "drop" only flags the client: SV_Drop_f
ServerReceive(p) ==
    /\ connected["server"]
    /\ ~Stale(chan["server"], p)
    /\ LET c == AfterProcess(chan["server"], p) IN
       /\ chan' = [chan EXCEPT !["server"] = MatchSequence(c)]
       /\ send_message' = ~Slipped(c)
    /\ drop' = (drop \/ p.final)
    /\ Delivery("server", p)
    /\ UNCHANGED <<net, connected, offered, written>>

ServerTransmit ==
    /\ connected["server"] /\ ~drop /\ send_message
    /\ ~chan["server"].overflowed
    /\ send_message' = FALSE
    /\ Transmit("server")
    /\ UNCHANGED <<drop, connected, history>>

\* the bandwidth choke: the reply is forgotten, not postponed
ServerChoke ==
    /\ connected["server"] /\ ~drop /\ send_message
    /\ ~chan["server"].overflowed
    /\ send_message' = FALSE
    /\ UNCHANGED <<chan, net, drop, connected, history>>

(* "%s overflowed": SZ_Clear, a notice printed to every client, this one    *)
(* included, and SV_DropClient.                                             *)
Notice == offered["server"] + 1

Overflowed == [chan |-> [chan EXCEPT !["server"] =
                             [@ EXCEPT !.message = <<Notice>>, !.overflowed = FALSE]],
               net |-> net]

ServerOverflowSlip ==
    /\ connected["server"] /\ ~drop
    /\ chan["server"].overflowed
    /\ Becomes(Overflowed)
    /\ offered' = [offered EXCEPT !["server"] = Notice]
    /\ written' = [written EXCEPT !["server"] = Append(Withdrawn("server"), Notice)]
    /\ send_message' = TRUE
    /\ UNCHANGED <<drop, connected, delivered, acked>>

ServerOverflow ==
    /\ connected["server"] /\ ~drop
    /\ chan["server"].overflowed
    /\ Becomes(ServerFinal(Overflowed))
    /\ offered' = [offered EXCEPT !["server"] = Notice]
    /\ written' = [written EXCEPT !["server"] = Append(Withdrawn("server"), Notice)]
    /\ send_message' = TRUE
    /\ connected' = [connected EXCEPT !["server"] = FALSE]
    /\ UNCHANGED <<drop, delivered, acked>>

(* SV_DropClient, at the client's turn when drop is set (it left, was       *)
(* kicked, a send failed) or from SV_CheckTimeouts.                         *)
ServerDrop ==
    /\ connected["server"]
    /\ Becomes(ServerFinal(Link))
    /\ drop' = FALSE
    /\ connected' = [connected EXCEPT !["server"] = FALSE]
    /\ UNCHANGED <<send_message, history>>
-----------------------------------------------------------------------------
Next == \/ \E e \in End : Write(e)
        \/ ClientTransmit \/ ClientOverflow \/ ClientSkip \/ ClientDisconnect
        \/ \E p \in net["client"] : ClientReceive(p)
        \/ \E p \in net["server"] : ServerReceive(p)
        \/ ServerTransmit \/ ServerChoke \/ ServerOverflow \/ ServerDrop

Spec == Init /\ [][Next]_vars
-----------------------------------------------------------------------------
(***************************************************************************)
(* Correctness.                                                            *)
(***************************************************************************)

\* Every field holds a value of its C type and every packet is well formed.
TypeOK == /\ chan \in [End -> Channel]
          /\ net \in [End -> SUBSET Packet]
          /\ send_message \in BOOLEAN
          /\ drop \in BOOLEAN
          /\ connected \in [End -> BOOLEAN]
          /\ offered \in [End -> 0..MaxWrites + 1]
          /\ written \in [End -> Seq(Message)]
          /\ delivered \in [End -> Seq(Message)]
          /\ acked \in [End -> Nat]

(***************************************************************************)
(* The two directions of a connection are alike.  What follows speaks of   *)
(* one of them: a is the channel of the end that writes, b its peer's,     *)
(* toA and toB the packets sent to each.                                   *)
(***************************************************************************)
Received(a, b) == b.incoming_reliable_sequence = a.reliable_sequence

InFlight(a, b) == IF Received(a, b) THEN <<>> ELSE a.reliable_buf

\* the packets a channel has not outrun
Fresh(c, packets) == {p \in packets : ~Stale(c, p)}

(* The reliable stream (net_chan.c 45-57): what e wrote and no overflow     *)
(* threw away is what its peer was given, then the reliable in flight       *)
(* unless the peer has it already, then what waits in message.  Nothing is  *)
(* lost, repeated, reordered or invented, however packets travel.           *)
Intact(a, b, writes, deliveries) ==
    writes = deliveries \o InFlight(a, b) \o a.message

StreamIntact ==
    \A e \in End : Intact(chan[e], chan[Peer[e]], written[e], delivered[Peer[e]])

(* Netchan_Process frees reliable_buf only for messages the peer was given: *)
(* no old acknowledgement with the right parity clears a newer reliable.    *)
AckedWasDelivered ==
    \A e \in End : acked[e] <= Len(delivered[Peer[e]])

(* net_chan.c 45-52: the sender concludes that a reliable was dropped from  *)
(* acknowledgements alone; when it does, the peer really lacks it, so no    *)
(* packet delivers a reliable a second time.                                *)
LossIsReal ==
    \A e \in End : ReliableLost(chan[e]) =>
        chan[e].reliable_buf # <<>> /\ ~Received(chan[e], chan[Peer[e]])

(* SV_ExecuteClientMessage 9496: "make sure the reply sequence number       *)
(* matches the incoming sequence number": a reply bears the number of the   *)
(* newest client packet, so the sequences never slip and no reply comes     *)
(* "from the future" (CL_ReadPacket 5216); only SV_DropClient's farewell    *)
(* may, and it ends the connection.                                         *)
RepliesMatch ==
    /\ connected["server"] =>
          chan["server"].outgoing_sequence <= chan["server"].incoming_sequence + 1
    /\ connected["server"] /\ send_message =>
          chan["server"].outgoing_sequence = chan["server"].incoming_sequence
    /\ \A p \in net["client"] : ~p.final =>
          p.seq = p.ack /\ p.seq < chan["client"].outgoing_sequence

(* SV_SendClientMessages 3572: an overflow leaves a hole in the server's    *)
(* stream, and what the server still sends after it is its farewell: no     *)
(* client that parsed a message out of step with the server's writes stays  *)
(* connected.                                                               *)
NoHoleFromServer ==
    connected["client"] =>
        \A i \in 1..Len(delivered["client"]) : delivered["client"][i] = i

(* What the channel promises the code above it: the writer's stream arrives *)
(* complete, once and in order.                                             *)
Stream == INSTANCE ReliableStream WITH Breakable <- {}, broken <- {}
StreamSpec == Stream!Spec
-----------------------------------------------------------------------------
(***************************************************************************)
(* The inductive invariant behind StreamIntact, AckedWasDelivered and      *)
(* LossIsReal; NetChanProofs shows that every step preserves it.  It says  *)
(* what the packets a channel would still accept can tell it: those that   *)
(* carry a reliable carry the one in flight, which the peer lacks, and     *)
(* acknowledgements turn to the current parity once and for good.          *)
(***************************************************************************)
SequencesOrdered(a, b, toA, toB) ==
    /\ a.last_reliable_sequence <= a.outgoing_sequence
    /\ b.incoming_sequence < a.outgoing_sequence
    /\ a.incoming_acknowledged <= b.incoming_sequence
    /\ \A p \in toB : p.seq < a.outgoing_sequence
    /\ \A p \in toA : p.ack <= b.incoming_sequence

ReliablesFresh(a, b, toB) ==
    /\ \A p \in toB : ~p.rel => p.data = <<>>
    /\ \A p \in Fresh(b, toB) : p.rel =>
          /\ ~Received(a, b)
          /\ p.data = a.reliable_buf
          /\ p.seq + 1 = a.last_reliable_sequence

AcksFresh(a, b, toA) ==
    /\ \A p \in Fresh(a, toA) :
          IF Acknowledges(a, p) THEN Received(a, b)
          ELSE p.ack > a.last_reliable_sequence => ~Received(a, b)
    /\ \A p, q \in Fresh(a, toA) :
          p.seq < q.seq /\ Acknowledges(a, p) => Acknowledges(a, q)

IdleSettled(a, b, toA) ==
    a.reliable_buf = <<>> =>
        /\ Received(a, b)
        /\ a.incoming_reliable_acknowledged = a.reliable_sequence
        /\ \A p \in Fresh(a, toA) : Acknowledges(a, p)

AckedCount(a, b, deliveries, count) ==
    Len(deliveries) = count + (IF Received(a, b) THEN Len(a.reliable_buf) ELSE 0)

Direction(a, b, toA, toB, writes, deliveries, count) ==
    /\ Intact(a, b, writes, deliveries)
    /\ SequencesOrdered(a, b, toA, toB)
    /\ ReliablesFresh(a, b, toB)
    /\ AcksFresh(a, b, toA)
    /\ IdleSettled(a, b, toA)
    /\ ReliableLost(a) => ~Received(a, b)
    /\ AckedCount(a, b, deliveries, count)

IInv == /\ TypeOK
        /\ \A e \in End : connected[e] => offered[e] <= MaxWrites
        /\ \A e \in End :
              Direction(chan[e], chan[Peer[e]], net[e], net[Peer[e]],
                        written[e], delivered[Peer[e]], acked[e])
=============================================================================
