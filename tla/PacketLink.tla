----------------------------- MODULE PacketLink -----------------------------
(***************************************************************************)
(* One direction of a datagram transport as NetChan sees it: numbered      *)
(* packets enter the network, and any packet newer than those taken so far *)
(* may come out, whole and unmixed.  A packet is its number and the length *)
(* of its contents.                                                        *)
(***************************************************************************)
EXTENDS Integers, Sequences

VARIABLES sent,   \* every packet that entered
          taken   \* the packets that came out

vars == <<sent, taken>>

Packet == [seq: Nat, length: Nat]

Init == sent = {} /\ taken = <<>>

\* a number is used for one packet only
Send == /\ \E p \in sent' : /\ p \in Packet
                            /\ \A q \in sent : q.seq < p.seq
                            /\ sent' = sent \cup {p}
        /\ UNCHANGED taken

Take == /\ \E p \in sent : /\ \A i \in 1..Len(taken) : taken[i].seq < p.seq
                           /\ taken' = Append(taken, p)
        /\ UNCHANGED sent

Next == Send \/ Take

Spec == Init /\ [][Next]_vars
=============================================================================
