--------------------------- MODULE ReliableStream ---------------------------
(***************************************************************************)
(* What a network channel promises to the code above it, whatever the wire *)
(* does: the reliable messages an end writes reach the other end complete, *)
(* once and in the order they were written, and an end believes a message  *)
(* received only if it was.  An end may give up messages it has written    *)
(* and not yet handed over (an overflowing write buffer is emptied), never *)
(* one that was delivered.  Where the channel may refuse a message it has  *)
(* promised to carry, a direction can break, and nothing is promised of it *)
(* from then on.                                                           *)
(*                                                                         *)
(* Both transports of net_chan.c are shown to implement this module:       *)
(* NetChan (QuakeWorld, even/odd bit) and NQNetChan (NetQuake, one         *)
(* sequence number per chunk).                                             *)
(***************************************************************************)
EXTENDS Integers, Sequences

CONSTANTS End,      \* the two ends of the connection
          Peer,     \* Peer[e] is the other end
          Message,  \* the reliable messages
          Breakable \* the ends whose direction can break

VARIABLES written,    \* written[e]: what e wrote and did not give up
          delivered,  \* delivered[e]: what the channel handed to e's parser
          acked,      \* acked[e]: how many of its messages e knows received
          broken      \* the ends whose direction is broken

vars == <<written, delivered, acked, broken>>

Init == /\ written = [e \in End |-> <<>>]
        /\ delivered = [e \in End |-> <<>>]
        /\ acked = [e \in End |-> 0]
        /\ broken = {}

\* the messages an end keeps when it gives up the tail it has not handed over
Kept(e, k) == SubSeq(written[e], 1, k)

\* how many it cannot give up any more
HandedOver(e) == IF e \in broken THEN 0 ELSE Len(delivered[Peer[e]])

Write(e) ==
    /\ \E m \in Message : written' = [written EXCEPT ![e] = Append(@, m)]
    /\ UNCHANGED <<delivered, acked, broken>>

(* A write that does not fit throws the waiting tail away first. *)
WriteOverflowing(e) ==
    /\ \E k \in HandedOver(e) .. Len(written[e]), m \in Message :
          written' = [written EXCEPT ![e] = Append(Kept(e, k), m)]
    /\ UNCHANGED <<delivered, acked, broken>>

GiveUp(e) ==
    /\ \E k \in HandedOver(e) .. Len(written[e]) :
          written' = [written EXCEPT ![e] = Kept(e, k)]
    /\ UNCHANGED <<delivered, acked, broken>>

(* A packet arrives at e: it may carry the next messages of the peer, and  *)
(* it may tell e that its own messages arrived.                            *)
Arrive(e) ==
    /\ delivered' = [delivered EXCEPT ![e] = delivered'[e]]
    /\ acked' = [acked EXCEPT ![e] = acked'[e]]
    /\ Peer[e] \notin broken =>
          \E n \in Len(delivered[e]) .. Len(written[Peer[e]]) :
             delivered'[e] = SubSeq(written[Peer[e]], 1, n)
    /\ e \notin broken => acked'[e] \in acked[e] .. Len(delivered[Peer[e]])
    /\ UNCHANGED <<written, broken>>

(* The peer of e throws away something of e's. *)
Break(e) ==
    /\ e \in Breakable
    /\ broken' = broken \cup {e}
    /\ UNCHANGED <<written, delivered, acked>>

Next == \E e \in End : Write(e) \/ WriteOverflowing(e) \/ GiveUp(e) \/ Arrive(e) \/ Break(e)

Spec == Init /\ [][Next]_vars
=============================================================================
