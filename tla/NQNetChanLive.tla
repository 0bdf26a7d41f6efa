--------------------------- MODULE NQNetChanLive ---------------------------
(***************************************************************************)
(* NQNetChan over a network that loses packets for good: nothing but the   *)
(* sender's timer brings a lost chunk or acknowledgement back.  What the   *)
(* channel's retransmission is for is stated here as liveness.             *)
(*                                                                         *)
(* Fairness: both programs run their frame loop for ever, so each          *)
(* transmits again and again with its 0.3 seconds over.  The network is    *)
(* only assumed not to lose every copy of a packet that is sent for ever.  *)
(***************************************************************************)
EXTENDS NQNetChan

(* The packets the channel depends on: the chunk its sender now repeats,    *)
(* even if only to have the lost acknowledgement repeated, and the answer.  *)
Awaited(e, p) ==
    \/ p.type = "data" /\ p.seq = chan[Peer[e]].reliable_sequence
    \/ p.type = "ack" /\ FreshAck(chan[e], p)

(* Any other packet stays in net, where nothing requires that it arrives:   *)
(* it need not be taken away to be lost.                                    *)
Lose(e) ==
    /\ \E p \in net[e] : Awaited(e, p) /\ net' = [net EXCEPT ![e] = @ \ {p}]
    /\ UNCHANGED <<chan, drop, connected, history>>

ReceiveAwaited(e, type) ==
    \E p \in net[e] :
        /\ p.type = type /\ Awaited(e, p)
        /\ \/ e = "client" /\ ClientReceive(p, FALSE)
           \/ e = "server" /\ ServerReceive(p)

LossyNext == Next \/ \E e \in End : Lose(e)

Fairness ==
    /\ WF_vars(ClientTransmit(TRUE, "none"))
    /\ WF_vars(ServerTransmit(TRUE, "none"))
    /\ \A e \in End :
          /\ SF_vars(ReceiveAwaited(e, "data"))
          /\ SF_vars(ReceiveAwaited(e, "ack"))

LossySpec == Init /\ [][LossyNext]_vars /\ Fairness
-----------------------------------------------------------------------------
\* the connection is over, or the server's next turn ends it
Parted == \/ \E e \in End : ~connected[e]
          \/ drop \/ chan["server"].overflowed

Among(m, s) == \E i \in 1..Len(s) : s[i] = m

(* The timer of Netchan_Transmit (net_chan.c 808) repairs every loss: a     *)
(* reliable message reaches its peer, unless an overflow throws it away,    *)
(* the peer refuses a chunk or the connection ends.                         *)
WrittenArrives ==
    \A e \in End : \A m \in 1..MaxWrites[e] + 1 :
        Among(m, written[e]) ~>
            (Among(m, delivered[Peer[e]]) \/ ~Among(m, written[e]) \/ e \in refused \/ Parted)

(* ...and the channel never clogs: what is in flight is always              *)
(* acknowledged in the end, which lets the next message leave.              *)
ChannelDrains ==
    \A e \in End : []<>(chan[e].reliable_buf = <<>> \/ Parted)
=============================================================================
