----------------------------- MODULE NQNetChan -----------------------------
(***************************************************************************)
(* The NetQuake channel of engine/common/net_chan.c between one spawned    *)
(* client and its server, over a datagram transport, together with the     *)
(* code that drives it: CL_SendCmd, CL_ReadPacket and CL_Disconnect,       *)
(* SV_ReadPacket, SV_SendClientMessages and SV_DropClient.                 *)
(*                                                                         *)
(* A reliable buffer travels in chunks of MAX_NQDATAGRAM, one at a time:   *)
(* the next one leaves when the last was acknowledged, the same one again  *)
(* when a timer ran out.  Unlike the QuakeWorld channel it has a real      *)
(* sequence number per chunk, an immediate acknowledgement and a timer     *)
(* instead of the parity bits of NetChan; both promise ReliableStream.     *)
(*                                                                         *)
(* Lengths are counted in reliable writes, all of one size, and the timer  *)
(* may have run out whenever the code looks at it.  net[e] is the set of   *)
(* every packet ever sent to e, as in NetChan.  A client's message is no   *)
(* larger than a packet, the server's as large as the buffer the client    *)
(* puts it together in, whose last byte NQNetChan_Process does not use.    *)
(***************************************************************************)
EXTENDS Integers, Sequences

CONSTANTS MaxMessage,    \* MaxMessage[e]: message.maxsize at e
          MaxChunk,      \* MAX_NQDATAGRAM
          MaxFragment,   \* sizeof in_fragment_buf
          MaxWrites,     \* bound: MaxWrites[e] reliable messages e writes
          MaxDatagrams   \* bound: unreliable packets each end sends

End == {"client", "server"}
Peer == [e \in End |-> IF e = "client" THEN "server" ELSE "client"]

ASSUME BoundsAssumption == /\ MaxMessage \in [End -> Nat \ {0}]
                           /\ MaxChunk \in Nat \ {0}
                           /\ MaxFragment \in Nat \ {0}
                           /\ MaxWrites \in [End -> Nat]
                           /\ MaxDatagrams \in Nat

VARIABLES chan,       \* chan[e]: e's netchan_t
          net,        \* net[e]: every packet ever sent to e
          drop,       \* client_t.drop
          connected,  \* connected[e]: e has not ended the connection
          offered,    \* offered[e]: reliable messages e has written so far
          written,    \* history: those that no overflow threw away
          delivered,  \* history: what e's parser was given
          acked,      \* history: how many messages e knows received
          refused     \* history: ends of whose chunks the peer threw one away

vars == <<chan, net, drop, connected, offered, written, delivered, acked, refused>>
history == <<offered, written, delivered, acked, refused>>
-----------------------------------------------------------------------------
(* One more than is written: the server's notice that the client overflowed. *)
Message == 1..MaxWrites["client"] + MaxWrites["server"] + 1

(* Netchan_Setup; SV_DoDirectConnect enlarges the server's message.  Here   *)
(* reliable_buf stands for its first reliable_length bytes, in_fragment for *)
(* in_fragment_buf and in_fragment_length.                                  *)
Setup(e) ==
         [maxsize |-> MaxMessage[e], reliable_sequence |-> 0,
          reliable_buf |-> <<>>, reliable_start |-> 0,
          nqreliable_allowed |-> TRUE, incoming_reliable_sequence |-> 0,
          in_fragment |-> <<>>, outgoing_unreliable |-> 0,
          incoming_unreliable |-> -1, message |-> <<>>, overflowed |-> FALSE,
          fatal_error |-> FALSE]

Init == /\ chan = [e \in End |-> Setup(e)]
        /\ net = [e \in End |-> {}]
        /\ drop = FALSE
        /\ connected = [e \in End |-> TRUE]
        /\ offered = [e \in End |-> 0]
        /\ written = [e \in End |-> <<>>]
        /\ delivered = [e \in End |-> <<>>]
        /\ acked = [e \in End |-> 0]
        /\ refused = {}
-----------------------------------------------------------------------------
(* Netchan_Transmit, the reliable half.  Operators named ...Slip are        *)
(* mistakes that some property notices, as in NetChan.                      *)

LoadSlip(c) == IF c.message # <<>>
               THEN [c EXCEPT !.reliable_buf = c.message, !.reliable_start = 0,
                              !.message = <<>>]
               ELSE c

\* message becomes the reliable in flight once the last one is through
Load(c) == IF c.reliable_buf = <<>> /\ c.message # <<>>
           THEN [c EXCEPT !.reliable_buf = c.message, !.reliable_start = 0,
                          !.message = <<>>]
           ELSE c

Left(c) == Len(c.reliable_buf) - c.reliable_start

ChunkLength(c) == IF Left(c) > MaxChunk THEN MaxChunk ELSE Left(c)

ChunkSlip(c) == [type |-> "data", seq |-> c.reliable_sequence,
                 data |-> SubSeq(c.reliable_buf, c.reliable_start + 1,
                                 c.reliable_start + ChunkLength(c)),
                 eom |-> ChunkLength(c) < MaxChunk]

Chunk(c) == [type |-> "data", seq |-> c.reliable_sequence,
             data |-> SubSeq(c.reliable_buf, c.reliable_start + 1,
                             c.reliable_start + ChunkLength(c)),
             eom |-> c.reliable_start + ChunkLength(c) = Len(c.reliable_buf)]

WithAllowedSlip(c, expired) == c

\* the timer forgives a chunk without an answer
WithAllowed(c, expired) ==
    [c EXCEPT !.nqreliable_allowed = @ \/ expired]

Ready(c) == IF c.nqreliable_allowed THEN Load(c) ELSE c

SendsChunk(c) == c.nqreliable_allowed /\ Left(Ready(c)) > 0

\* the chunk the peer has, or is taken to have, makes room for the next

Advance(c) ==
    LET start == c.reliable_start + MaxChunk
        done == start >= Len(c.reliable_buf) IN
    [c EXCEPT !.reliable_buf = IF done THEN <<>> ELSE @,
              !.reliable_start = IF done THEN 0 ELSE start,
              !.reliable_sequence = @ + 1,
              !.nqreliable_allowed = TRUE]

AfterReliable(c) == [Ready(c) EXCEPT !.nqreliable_allowed = @ /\ ~SendsChunk(c)]

ReliablePackets(c) == IF SendsChunk(c) THEN {Chunk(Ready(c))} ELSE {}

(* The unreliable half, when there is something unreliable to send. *)
Counted(c) == [c EXCEPT !.outgoing_unreliable = @ + 1]

Datagram(c, final) == [type |-> "unreliable", seq |-> c.outgoing_unreliable,
                       final |-> final]

\* the two ends and the wire
Link == [chan |-> chan, net |-> net]

Becomes(l) == chan' = l.chan /\ net' = l.net

(* They after e transmits: expired says that the timer ran out, payload is  *)
(* what there is to send unreliably.                                        *)
Payload == {"none", "game", "final"}

Sent(l, e, expired, payload) ==
    LET c == WithAllowed(l.chan[e], expired)
        datagrams == IF payload = "none" THEN {} ELSE {Datagram(c, payload = "final")}
    IN  [chan |-> [l.chan EXCEPT ![e] = IF payload = "none" THEN AfterReliable(c)
                                        ELSE Counted(AfterReliable(c))],
         net |-> [l.net EXCEPT ![Peer[e]] = @ \cup ReliablePackets(c) \cup datagrams]]
-----------------------------------------------------------------------------
(* NQNetChan_Process *)

StaleDatagram(c, p) == p.seq <= c.incoming_unreliable

Expected(c, p) == p.seq = c.incoming_reliable_sequence

TooLong(c, p) == Len(c.in_fragment) + Len(p.data) >= MaxFragment

Refuses(c, p) == Expected(c, p) /\ TooLong(c, p)

(* A chunk is answered whether or not it is news: the answer to its first   *)
(* copy may have been lost.                                                 *)
Answer(p) == [type |-> "ack", seq |-> p.seq]

AfterDataSlip(c, p) ==
    IF ~Expected(c, p) THEN c
    ELSE IF TooLong(c, p)
         THEN [c EXCEPT !.incoming_reliable_sequence = @ + 1, !.fatal_error = TRUE]
         ELSE [c EXCEPT !.incoming_reliable_sequence = @ + 1, !.in_fragment = @ \o p.data]

AfterData(c, p) ==
    IF ~Expected(c, p) THEN c
    ELSE IF TooLong(c, p)
         THEN [c EXCEPT !.incoming_reliable_sequence = @ + 1, !.fatal_error = TRUE]
         ELSE [c EXCEPT !.incoming_reliable_sequence = @ + 1,
                        !.in_fragment = IF p.eom THEN <<>> ELSE @ \o p.data]

Completes(c, p) == Expected(c, p) /\ ~TooLong(c, p) /\ p.eom

ReceiveDataSlip(e, p) ==
    /\ Expected(chan[e], p)
    /\ chan' = [chan EXCEPT ![e] = AfterData(chan[e], p)]
    /\ net' = [net EXCEPT ![Peer[e]] = @ \cup {Answer(p)}]
    /\ delivered' = [delivered EXCEPT ![e] =
          IF Completes(chan[e], p) THEN @ \o chan[e].in_fragment \o p.data ELSE @]
    /\ UNCHANGED <<acked, refused>>

ReceiveData(e, p) ==
    LET c == chan[e] IN
    /\ chan' = [chan EXCEPT ![e] = AfterData(c, p)]
    /\ net' = [net EXCEPT ![Peer[e]] = @ \cup {Answer(p)}]
    /\ delivered' = [delivered EXCEPT ![e] =
                        IF Completes(c, p) THEN @ \o c.in_fragment \o p.data ELSE @]
    /\ refused' = IF Refuses(c, p) THEN refused \cup {Peer[e]} ELSE refused
    /\ UNCHANGED acked

FreshAck(c, p) == p.seq = c.reliable_sequence

ReceiveAck(e, p) ==
    LET c == chan[e] IN
    /\ FreshAck(c, p)
    /\ chan' = [chan EXCEPT ![e] = Advance(c)]
    /\ acked' = [acked EXCEPT ![e] =
                    IF Advance(c).reliable_buf = <<>> THEN @ + Len(c.reliable_buf) ELSE @]
    /\ UNCHANGED <<net, delivered, refused>>
-----------------------------------------------------------------------------
(* The code above the channel writes: SZ_GetSpace on chan->message. *)
Fits(c) == Len(c.message) < c.maxsize

Withdrawn(e) == SubSeq(written[e], 1, Len(written[e]) - Len(chan[e].message))

Write(e) ==
    /\ connected[e]
    /\ offered[e] < MaxWrites[e]
    /\ LET m == offered[e] + 1 IN
       IF Fits(chan[e])
       THEN /\ chan' = [chan EXCEPT ![e].message = Append(@, m)]
            /\ written' = [written EXCEPT ![e] = Append(@, m)]
       ELSE /\ chan' = [chan EXCEPT ![e].message = <<m>>, ![e].overflowed = TRUE]
            /\ written' = [written EXCEPT ![e] = Append(Withdrawn(e), m)]
    /\ offered' = [offered EXCEPT ![e] = @ + 1]
    /\ UNCHANGED <<net, drop, connected, delivered, acked, refused>>

\* how much more e may send unreliably
MaySend(e, payload) ==
    payload = "game" => chan[e].outgoing_unreliable < MaxDatagrams
-----------------------------------------------------------------------------
(* The client. *)

(* CL_SendCmd forgets a fatal error, and whatever was waiting. *)
ClientTransmit(expired, payload) ==
    /\ connected["client"]
    /\ MaySend("client", payload)
    /\ LET l == Sent(Link, "client", expired, payload)
           c == l.chan["client"] IN
       IF c.fatal_error
       THEN /\ Becomes([l EXCEPT !.chan["client"] =
                           [c EXCEPT !.fatal_error = FALSE, !.overflowed = FALSE,
                                     !.message = <<>>]])
            /\ written' = [written EXCEPT !["client"] =
                              SubSeq(@, 1, Len(@) - Len(c.message))]
       ELSE Becomes(l) /\ UNCHANGED written
    /\ UNCHANGED <<drop, connected, offered, delivered, acked, refused>>

(* CL_Disconnect sends clc_disconnect three times. *)
ClientFinal(l, expired) ==
    Sent(Sent(Sent(l, "client", expired, "final"), "client", FALSE, "final"),
         "client", FALSE, "final")

ClientDisconnect(expired) ==
    /\ connected["client"]
    /\ Becomes(ClientFinal(Link, expired))
    /\ connected' = [connected EXCEPT !["client"] = FALSE]
    /\ UNCHANGED <<drop, history>>

ClientReceive(p, expired) ==
    /\ connected["client"]
    /\ \/ /\ p.type = "unreliable"
          /\ ~StaleDatagram(chan["client"], p)
          /\ LET l == [Link EXCEPT !.chan["client"].incoming_unreliable = p.seq] IN
             Becomes(IF p.final THEN ClientFinal(l, expired) ELSE l)
          /\ connected' = [connected EXCEPT !["client"] = ~p.final]
          /\ UNCHANGED <<delivered, acked, refused>>
       \/ /\ p.type = "data" /\ ReceiveData("client", p)
          /\ UNCHANGED connected
       \/ /\ p.type = "ack" /\ ReceiveAck("client", p)
          /\ UNCHANGED connected
    /\ UNCHANGED <<drop, offered, written>>
-----------------------------------------------------------------------------
(* The server. *)

\* a fatal error flags the client to be dropped
ServerTransmit(expired, payload) ==
    /\ connected["server"] /\ ~drop
    /\ ~chan["server"].overflowed
    /\ MaySend("server", payload)
    /\ Becomes(Sent(Link, "server", expired, payload))
    /\ drop' = chan["server"].fatal_error
    /\ UNCHANGED <<connected, history>>

ServerReceive(p) ==
    /\ connected["server"]
    /\ \/ /\ p.type = "unreliable"
          /\ ~StaleDatagram(chan["server"], p)
          /\ chan' = [chan EXCEPT !["server"].incoming_unreliable = p.seq]
          /\ drop' = (drop \/ p.final)
          /\ UNCHANGED <<net, delivered, acked, refused>>
       \/ /\ p.type = "data" /\ ReceiveData("server", p)
          /\ UNCHANGED drop
       \/ /\ p.type = "ack" /\ ReceiveAck("server", p)
          /\ UNCHANGED drop
    /\ UNCHANGED <<connected, offered, written>>

(* nqunreliableonly = 3: a chunk is taken to have arrived once it is sent. *)
Pushed(l) ==
    IF SendsChunk(l.chan["server"])
    THEN LET s == Sent(l, "server", FALSE, "none") IN
         [s EXCEPT !.chan["server"] = Advance(@)]
    ELSE l

\* the loop of SV_DropClient; there are at most as many chunks as messages
Flushed(l, expired) ==
    LET rounds == 2 * MaxMessage["server"]
        first == [l EXCEPT !.chan["server"] = WithAllowed(@, expired)]
        after[i \in 0..rounds] == IF i = 0 THEN first ELSE Pushed(after[i - 1])
    IN  after[rounds]

\* and svc_disconnect, twice
ServerFinal(l, expired) ==
    Sent(Sent(Flushed(l, expired), "server", FALSE, "final"), "server", FALSE, "final")

\* SZ_Clear, the notice "%s overflowed" to every client, SV_DropClient
Notice == offered["server"] + 1

Overflowed == [chan |-> [chan EXCEPT !["server"] =
                             [@ EXCEPT !.message = <<Notice>>, !.overflowed = FALSE]],
               net |-> net]

ServerOverflow(expired) ==
    /\ connected["server"] /\ ~drop
    /\ chan["server"].overflowed
    /\ Becomes(ServerFinal(Overflowed, expired))
    /\ offered' = [offered EXCEPT !["server"] = Notice]
    /\ written' = [written EXCEPT !["server"] = Append(Withdrawn("server"), Notice)]
    /\ connected' = [connected EXCEPT !["server"] = FALSE]
    /\ UNCHANGED <<drop, delivered, acked, refused>>

(* SV_DropClient, at the client's turn when drop is set or from             *)
(* SV_CheckTimeouts.                                                        *)
ServerDrop(expired) ==
    /\ connected["server"]
    /\ Becomes(ServerFinal(Link, expired))
    /\ drop' = FALSE
    /\ connected' = [connected EXCEPT !["server"] = FALSE]
    /\ UNCHANGED history
-----------------------------------------------------------------------------
Next == \/ \E e \in End : Write(e)
        \/ \E expired \in BOOLEAN, payload \in Payload \ {"final"} :
              \/ ClientTransmit(expired, payload)
              \/ ServerTransmit(expired, payload)
        \/ \E expired \in BOOLEAN :
              \/ ClientDisconnect(expired)
              \/ \E p \in net["client"] : ClientReceive(p, expired)
              \/ ServerOverflow(expired)
              \/ ServerDrop(expired)
        \/ \E p \in net["server"] : ServerReceive(p)

Spec == Init /\ [][Next]_vars
-----------------------------------------------------------------------------
(***************************************************************************)
(* Correctness.                                                            *)
(***************************************************************************)

\* what the peer b still lacks of the reliable that a is sending
Outstanding(a, b) ==
    LET c == IF b.incoming_reliable_sequence = a.reliable_sequence THEN a ELSE Advance(a)
    IN  SubSeq(c.reliable_buf, c.reliable_start + 1, Len(c.reliable_buf))

(* The ends that may write a reliable longer than their peer puts together. *)
TooLarge == {e \in End : MaxMessage[e] >= MaxFragment}

(* The stream of an end that has not hung up: what its peer was given, the  *)
(* chunks its peer has collected, those it lacks, what waits in message.    *)
(* No chunk is skipped or taken twice, however packets travel and whenever  *)
(* the timer runs out, up to the first chunk that is counted as received    *)
(* and then refused (net_chan.c 735), which an end never suffers whose      *)
(* message is smaller than in_fragment_buf.                                 *)
StreamIntact ==
    /\ refused \subseteq TooLarge
    /\ \A e \in End : connected[e] /\ e \notin refused =>
          LET a == chan[e]  b == chan[Peer[e]] IN
          /\ b.incoming_reliable_sequence \in {a.reliable_sequence, a.reliable_sequence + 1}
          /\ written[e] = delivered[Peer[e]] \o b.in_fragment \o Outstanding(a, b) \o a.message

(* A number is never used for two different chunks, not when a chunk is     *)
(* sent again after its buffer moved on, nor when SV_DropClient pushes out  *)
(* the rest: an old copy is as good as a new one.                           *)
ChunksStable ==
    \A e \in End : \A p, q \in {r \in net[e] : r.type = "data"} : p.seq = q.seq => p = q

(* What the channel promises the code above it: the writer's stream arrives *)
(* complete, once and in order; to a writer in TooLarge, until a chunk of   *)
(* its is refused.                                                          *)
Stream == INSTANCE ReliableStream WITH Breakable <- TooLarge, broken <- refused
StreamSpec == Stream!Spec
=============================================================================
