---------------------------- MODULE NetChanFrag ----------------------------
(***************************************************************************)
(* FTE's packet fragmentation (NCF_FRAGABLE) in engine/common/net_chan.c:  *)
(* Netchan_Transmit cuts a packet that is too big for the path into        *)
(* fragments, each with the packet's own header, and Netchan_Process puts  *)
(* them together again with one buffer and two counters per channel.  One  *)
(* direction of a connection: a sender, the wire and a receiver.           *)
(*                                                                         *)
(* What is cut up is a payload of so many bytes; a piece of it is known by *)
(* the packet it is from and its range, so that a packet put together from *)
(* pieces of two shows.  wire is the set of every fragment ever sent:      *)
(* fragments are lost, repeated and reordered like any datagram.  A send   *)
(* that fails half way is one whose last fragments are lost.               *)
(*                                                                         *)
(* Implements PacketLink, the network that NetChan assumes.                *)
(***************************************************************************)
EXTENDS Integers, Sequences

CONSTANTS Lengths,      \* the payload sizes the code above asks for
          Rooms,        \* the values of mtu_cur - hsz
          BufferSize,   \* sizeof in_fragment_buf
          MaxSequence   \* bound: the sender stops at this sequence

ASSUME SizesAssumption == /\ Lengths \subseteq 0..BufferSize
                          /\ Rooms \subseteq {r \in Nat : r >= 8}
                          /\ BufferSize \in 0..2^16
                          /\ MaxSequence \in Nat

VARIABLES room,                 \* sender: mtu_cur - hsz
          outgoing_sequence,    \* sender
          incoming_sequence,    \* receiver
          incoming_unreliable,  \* receiver: the packet being put together
          in_fragment,          \* receiver: in_fragment_buf and its length
          wire,                 \* every fragment sent
          sent,                 \* history: every packet sent
          received              \* history: the packets put together

vars == <<room, outgoing_sequence, incoming_sequence, incoming_unreliable,
          in_fragment, wire, sent, received>>
-----------------------------------------------------------------------------
Empty == [length |-> 0, pieces |-> <<>>]

Init == /\ room \in Rooms
        /\ outgoing_sequence = 1
        /\ incoming_sequence = 0
        /\ incoming_unreliable = 0
        /\ in_fragment = Empty
        /\ wire = {}
        /\ sent = {}
        /\ received = <<>>
-----------------------------------------------------------------------------
(* The sender. *)

StepSlip(r) == r

\* "no &= ~7": 8 bytes are the unit of an offset, with a bit to spare
Step(r) == (r \div 8) * 8

IsLast(length, r, from) == from + r >= length

\* "(offset>>2) | (more?1:0)"
OffsetField(from, more) == LET n == from \div 4 IN
                           IF more /\ n % 2 = 0 THEN n + 1 ELSE n

\* the fragment at from of a payload, when each has room for r bytes
FragmentAt(seq, length, r, from) ==
    [piece |-> [seq |-> seq, from |-> from,
                to |-> IF IsLast(length, r, from) THEN length ELSE from + Step(r)],
     offset |-> OffsetField(from, ~IsLast(length, r, from))]

\* the loop ends with the first fragment that is the last
Cut(seq, length, r) ==
    {FragmentAt(seq, length, r, k * Step(r)) :
        k \in {j \in 0..length : j = 0 \/ ~IsLast(length, r, (j - 1) * Step(r))}}

(* NETERR_MTU on the first fragment: less room, and start again.  A         *)
(* duplicate of that fragment (chan->dupe) may have left before.            *)
Transmit(length, r) ==
    /\ outgoing_sequence < MaxSequence
    /\ r <= room
    /\ room' = r
    /\ \E tried \in SUBSET {q \in Rooms : r < q /\ q <= room} :
          wire' = wire \cup Cut(outgoing_sequence, length, r)
                       \cup {FragmentAt(outgoing_sequence, length, q, 0) : q \in tried}
    /\ sent' = sent \cup {[seq |-> outgoing_sequence, length |-> length]}
    /\ outgoing_sequence' = outgoing_sequence + 1
    /\ UNCHANGED <<incoming_sequence, incoming_unreliable, in_fragment, received>>

\* mtu_cur follows what the acknowledgements and the probes say
ChangeRoom(r) ==
    /\ room' = r
    /\ UNCHANGED <<outgoing_sequence, incoming_sequence, incoming_unreliable,
                   in_fragment, wire, sent, received>>
-----------------------------------------------------------------------------
(* The receiver: Netchan_Process. *)

StaleSlip(f) == f.piece.seq < incoming_sequence

Stale(f) == f.piece.seq <= incoming_sequence

IsFragment(f) == f.offset # 0

More(f) == f.offset % 2 = 1

Offset(f) == (f.offset - (f.offset % 2)) * 4

Length(f) == f.piece.to - f.piece.from

TooMany(f) == Offset(f) + Length(f) > BufferSize

KeptSlip(b, seq, f) == b

\* a fragment of another packet forgets the fragments before it
Kept(b, seq, f) == IF seq = f.piece.seq THEN b ELSE Empty

\* one that does not follow what is there is dropped
Follows(b, f) == Offset(f) = b.length

Joined(b, f) == [length |-> b.length + Length(f), pieces |-> Append(b.pieces, f.piece)]

Complete(seq, b) ==
    /\ received' = Append(received, [seq |-> seq, buffer |-> b])
    /\ incoming_sequence' = seq
    /\ incoming_unreliable' = 0
    /\ in_fragment' = Empty

ReceiveWhole(f) ==
    /\ ~Stale(f) /\ ~IsFragment(f)
    /\ Complete(f.piece.seq, Joined(Empty, f))
    /\ UNCHANGED <<room, outgoing_sequence, wire, sent>>

ReceiveFragment(f) ==
    /\ ~Stale(f) /\ IsFragment(f) /\ ~TooMany(f)
    /\ LET b == Kept(in_fragment, incoming_unreliable, f)
           joins == Follows(b, f) IN
       IF joins /\ ~More(f)
       THEN Complete(f.piece.seq, Joined(b, f))
       ELSE /\ incoming_unreliable' = f.piece.seq
            /\ in_fragment' = IF joins THEN Joined(b, f) ELSE b
            /\ UNCHANGED <<incoming_sequence, received>>
    /\ UNCHANGED <<room, outgoing_sequence, wire, sent>>
-----------------------------------------------------------------------------
Next == \/ \E length \in Lengths, r \in Rooms : Transmit(length, r)
        \/ \E r \in Rooms : ChangeRoom(r)
        \/ \E f \in wire : ReceiveWhole(f) \/ ReceiveFragment(f)

Spec == Init /\ [][Next]_vars
-----------------------------------------------------------------------------
(***************************************************************************)
(* Correctness.                                                            *)
(***************************************************************************)

(* b holds the first bytes of packet seq, in order, with no gap. *)
PrefixOf(seq, b) ==
    \A i \in 1..Len(b.pieces) :
        /\ b.pieces[i].seq = seq
        /\ b.pieces[i].from = IF i = 1 THEN 0 ELSE b.pieces[i - 1].to
        /\ i = Len(b.pieces) => b.pieces[i].to = b.length

(* in_fragment_buf never holds bytes of two packets, or bytes at the wrong  *)
(* place, whatever fragments arrive in whatever order and whenever the path *)
(* changes its size.                                                        *)
BufferIsPrefix == PrefixOf(incoming_unreliable, in_fragment)

(* Cutting loses nothing: when the fragments of a packet arrive one after   *)
(* the other, at any size of the path, the receiver gets it.                *)
GetsThrough(p, r) ==
    LET last == CHOOSE k \in 0..p.length :
                    /\ IsLast(p.length, r, k * Step(r))
                    /\ \A j \in 0..k - 1 : ~IsLast(p.length, r, j * Step(r))
        fragment(k) == FragmentAt(p.seq, p.length, r, k * Step(r))
        after[k \in 0..last] ==
            LET b == IF k = 0 THEN Empty ELSE after[k - 1] IN
            IF Follows(b, fragment(k)) THEN Joined(b, fragment(k)) ELSE b
    IN  /\ after[last].length = p.length
        /\ \A k \in 0..last : More(fragment(k)) = (k < last)

FragmentsSuffice == \A p \in sent, r \in Rooms : GetsThrough(p, r)

(* The packets the receiver takes come from PacketLink, in the order of     *)
(* their numbers and each at most once.                                     *)
AsPacket(p) == [seq |-> p.seq,
                length |-> IF PrefixOf(p.seq, p.buffer) THEN p.buffer.length ELSE -1]

Link == INSTANCE PacketLink
           WITH taken <- [i \in 1..Len(received) |-> AsPacket(received[i])]
LinkSpec == Link!Spec
=============================================================================
