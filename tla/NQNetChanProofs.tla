-------------------------- MODULE NQNetChanProofs --------------------------
(***************************************************************************)
(* The NetQuake channel carries the reliable stream intact, whatever the   *)
(* size of messages and chunks, however packets are lost, repeated and     *)
(* reordered, and whenever the timer runs out.                             *)
(*                                                                         *)
(* StreamIntact speaks of ends that have not hung up.  SV_DropClient takes *)
(* a chunk for arrived once it is sent, so the server may be any number of *)
(* chunks ahead of its client, which may still read them one by one.  Run  *)
(* says what the client gets if it does.                                   *)
(*                                                                         *)
(* NQNetChan_Process counts a chunk as received before it looks whether    *)
(* the chunk fits, and the end of a reliable as long as in_fragment_buf    *)
(* does not.  Nothing is assumed of the sizes: the invariant speaks of     *)
(* what a direction delivers until its reader refuses a chunk, proves that *)
(* only a writer in TooLarge suffers that, and keeps of a direction that   *)
(* is broken what its writer does.                                         *)
(***************************************************************************)
EXTENDS NQNetChan, SequenceTheorems, WellFoundedInduction, TLAPS

-----------------------------------------------------------------------------
(* Induction, about sets and functions: what first-order provers can use. *)

\* A set of natural numbers that is not empty has a smallest element.
LEMMA SmallestElement ==
    ASSUME NEW T \in SUBSET Nat, T # {}
    PROVE  \E x \in T : \A y \in T : x <= y
<1>1. PICK x \in T : \A y \in T : ~(<<y, x>> \in OpToRel(<, Nat))
  BY NatLessThanWellFounded, WFMin, Zenon
<1>2. \A a, b \in Nat : a < b => <<a, b>> \in OpToRel(<, Nat)
  BY Zenon DEF OpToRel
<1>3. \A y \in T : ~(y < x)
  BY <1>1, <1>2, Zenon
<1> QED BY <1>3

\* A set that has 0 and with every number up to n its successor has them all.
LEMMA SetInductionUpTo ==
    ASSUME NEW n \in Nat, NEW S, 0 \in S,
           \A i \in 0..n - 1 : i \in S => i + 1 \in S
    PROVE  \A i \in 0..n : i \in S
<1> DEFINE T == {i \in 0..n : i \notin S}
<1> SUFFICES ASSUME T # {} PROVE FALSE
  OBVIOUS
<1>1. \E x \in T : \A y \in T : x <= y
  <2>1. T \in SUBSET Nat
    OBVIOUS
  <2> HIDE DEF T
  <2> QED BY <2>1, SmallestElement
<1>2. PICK x \in T : \A y \in T : x <= y
  BY <1>1
<1>3. x \in 1..n /\ x - 1 \in 0..n - 1 /\ x - 1 \in S
  <2>1. x \in 1..n /\ x - 1 \in 0..n - 1
    OBVIOUS
  <2> QED BY <1>2, <2>1
<1>4. (x - 1) + 1 \in S
  BY <1>3
<1> QED BY <1>3, <1>4

\* f starts at base and goes on with D, up to n
Recursion(f, n, base, D) == /\ f[0] = base
                            /\ \A i \in 1..n : f[i] = D[<<i, f[i - 1]>>]

\* There is such a function, up to any n.
LEMMA RecursionExists ==
    ASSUME NEW n \in Nat, NEW S, NEW base \in S, NEW D \in [(1..n) \X S -> S]
    PROVE  \E f \in [0..n -> S] : Recursion(f, n, base, D)
<1> DEFINE T == {m \in 0..n : \E f \in [0..m -> S] : Recursion(f, m, base, D)}
<1>1. 0 \in T
  <2>1. /\ [i \in 0..0 |-> base] \in [0..0 -> S]
        /\ Recursion([i \in 0..0 |-> base], 0, base, D)
    BY DEF Recursion
  <2>2. 0 \in 0..n
    OBVIOUS
  <2> QED BY <2>1, <2>2
<1>2. ASSUME NEW m \in 0..n - 1, m \in T PROVE m + 1 \in T
  <2>1. PICK f \in [0..m -> S] : Recursion(f, m, base, D)
    BY <1>2
  <2> DEFINE g == [i \in 0..m + 1 |-> IF i = m + 1 THEN D[<<m + 1, f[m]>>] ELSE f[i]]
  <2>2. D[<<m + 1, f[m]>>] \in S
    OBVIOUS
  <2>3. g \in [0..m + 1 -> S]
    BY <2>2
  <2>4. /\ g[m + 1] = D[<<m + 1, f[m]>>]
        /\ \A i \in 0..m : g[i] = f[i]
    OBVIOUS
  <2> HIDE DEF g
  <2>5. Recursion(g, m + 1, base, D)
    <3>1. g[0] = base
      BY <2>1, <2>4 DEF Recursion
    <3>2. ASSUME NEW i \in 1..m + 1 PROVE g[i] = D[<<i, g[i - 1]>>]
      <4>1. CASE i = m + 1
        BY <2>4, <4>1
      <4>2. CASE i \in 1..m
        BY <2>1, <2>4, <4>2 DEF Recursion
      <4> QED BY <4>1, <4>2
    <3> QED BY <3>1, <3>2 DEF Recursion
  <2> QED BY <2>3, <2>5
<1> HIDE DEF T
<1>3. n \in T
  <2>1. \A m \in 0..n : m \in T
    BY <1>1, <1>2, SetInductionUpTo, Zenon
  <2> QED BY <2>1
<1> QED BY <1>3 DEF T

-----------------------------------------------------------------------------
(* Types. *)

Channel == [maxsize: Nat \ {0}, reliable_sequence: Nat,
            reliable_buf: Seq(Message), reliable_start: Nat,
            nqreliable_allowed: BOOLEAN, incoming_reliable_sequence: Nat,
            in_fragment: Seq(Message), outgoing_unreliable: Nat,
            incoming_unreliable: Int, message: Seq(Message), overflowed: BOOLEAN,
            fatal_error: BOOLEAN]

DataPacket == [type: {"data"}, seq: Nat, data: Seq(Message), eom: BOOLEAN]
AckPacket == [type: {"ack"}, seq: Nat]
UnreliablePacket == [type: {"unreliable"}, seq: Nat, final: BOOLEAN]
Packet == DataPacket \cup AckPacket \cup UnreliablePacket

Data(s) == {p \in s : p.type = "data"}
-----------------------------------------------------------------------------
(* One direction: a is the writer's channel, b its peer's, toA and toB the  *)
(* packets sent to them, w what a wrote, d what b was given, k how much of  *)
(* it a knows received, on whether a has not hung up, ok whether b has      *)
(* thrown no chunk away.                                                    *)

\* The chunk in hand begins inside reliable_buf, and nothing is longer than a message.
Held(c) ==
    /\ c.reliable_buf = <<>> => c.reliable_start = 0
    /\ c.reliable_buf # <<>> => c.reliable_start < Len(c.reliable_buf)
    /\ Len(c.reliable_buf) <= c.maxsize
    /\ Len(c.message) <= c.maxsize

\* the writer as it will be when it knows what the reader has
Current(a, b) ==
    IF b.incoming_reliable_sequence <= a.reliable_sequence THEN a ELSE Advance(a)

\* the reader that is given H and has collected G gets chunk p, of a message of size m
\* at most
Joins(p, H, G, m) ==
    LET n == p.seq IN
    /\ Len(G[n]) + Len(p.data) <= m
    /\ p.eom => H[n + 1] = (H[n] \o G[n]) \o p.data /\ G[n + 1] = <<>>
    /\ ~p.eom => H[n + 1] = H[n] /\ G[n + 1] = G[n] \o p.data

Prefix(s, t) == Len(s) <= Len(t) /\ SubSeq(t, 1, Len(s)) = s

\* H[n] and G[n] are what the reader will have been given and have collected before
\* chunk n, if it gets all up to there: in the end what the writer still holds is
\* what is missing.
RunOf(H, G, c, i, f, toB, w, d) ==
    /\ H \in [Nat -> Seq(Message)] /\ G \in [Nat -> Seq(Message)]
    /\ H[i] = d /\ G[i] = f
    /\ w = (H[c.reliable_sequence] \o c.reliable_buf) \o c.message
    /\ G[c.reliable_sequence] = SubSeq(c.reliable_buf, 1, c.reliable_start)
    /\ \A n \in i..c.reliable_sequence : Prefix(H[n], w)
    /\ \A p \in Data(toB) : i <= p.seq /\ p.seq < c.reliable_sequence => Joins(p, H, G, c.maxsize)

Run(c, i, f, toB, w, d) == \E H, G : RunOf(H, G, c, i, f, toB, w, d)

\* Nothing was sent beyond the chunk in hand, which is on the wire as it is.
ChunksSent(a, toB) ==
    \A p \in Data(toB) :
        /\ p.seq <= a.reliable_sequence
        /\ p.seq = a.reliable_sequence => a.reliable_buf # <<>> /\ p = Chunk(a)

Stable(toB) == \A p, q \in Data(toB) : p.seq = q.seq => p = q

\* A writer that has not hung up is at most one acknowledgement behind.
InStep(a, b, toA, d, k) ==
    /\ a.reliable_sequence <= b.incoming_reliable_sequence
    /\ \A p \in toA : p.type = "ack" => p.seq < b.incoming_reliable_sequence
    /\ Len(d) + Len(Current(a, b).reliable_buf) = k + Len(a.reliable_buf)

\* What waits in message was written last.
Waits(a, w) == \E u \in Seq(Message) : w = u \o a.message

Direction(a, b, toA, toB, w, d, k, on, ok) ==
    /\ Held(a) /\ Waits(a, w)
    /\ ChunksSent(a, toB)
    /\ Stable(toB)
    /\ ok =>
          /\ b.incoming_reliable_sequence > a.reliable_sequence =>
                /\ b.incoming_reliable_sequence = a.reliable_sequence + 1
                /\ a.reliable_buf # <<>>
          /\ Run(Current(a, b), b.incoming_reliable_sequence, b.in_fragment, toB, w, d)
          /\ k <= Len(d)
          /\ on => InStep(a, b, toA, d, k)
-----------------------------------------------------------------------------
(* Sequences. *)

\* Concatenation of messages is associative.
LEMMA MessagesAssociative ==
    \A s, t, x \in Seq(Message) : (s \o t) \o x = s \o (t \o x)
BY ConcatAssociative, SMTT(40)

\* Two neighbours of a sequence's beginning.
LEMMA Neighbours ==
    ASSUME NEW S, NEW s \in Seq(S), NEW i \in Nat, NEW j \in Nat, i <= j, j <= Len(s)
    PROVE  /\ SubSeq(s, 1, i) \in Seq(S) /\ Len(SubSeq(s, 1, i)) = i
           /\ SubSeq(s, i + 1, j) \in Seq(S) /\ Len(SubSeq(s, i + 1, j)) = j - i
           /\ SubSeq(s, 1, i) \o SubSeq(s, i + 1, j) = SubSeq(s, 1, j)
<1>1. Len(s) \in Nat /\ \A n \in 1..Len(s) : s[n] \in S
  BY LenProperties, ElementOfSeq
<1>2. /\ SubSeq(s, 1, i) \in Seq(S)
      /\ Len(SubSeq(s, 1, i)) = IF 1 <= i THEN i - 1 + 1 ELSE 0
  <2>1. 1 \in Int /\ i \in Int /\ \A n \in 1..i : s[n] \in S
    BY <1>1
  <2> QED BY <2>1, SubSeqProperties
<1>3. /\ SubSeq(s, i + 1, j) \in Seq(S)
      /\ Len(SubSeq(s, i + 1, j)) = IF i + 1 <= j THEN j - (i + 1) + 1 ELSE 0
  <2>1. i + 1 \in Int /\ j \in Int /\ \A n \in i + 1..j : s[n] \in S
    BY <1>1
  <2> QED BY <2>1, SubSeqProperties, ZenonT(60)
<1>4. SubSeq(s, 1, i) \o SubSeq(s, i + 1, j) = SubSeq(s, 1, j)
  <2>1. 1 \in 1..Len(s) + 1 /\ i \in 1 - 1..Len(s) /\ j \in i..Len(s)
    BY <1>1
  <2> QED BY <2>1, ConcatAdjacentSubSeq, Zenon
<1> QED BY <1>2, <1>3, <1>4

\* A part comes first in the whole.
LEMMA PrefixOfConcat ==
    ASSUME NEW S, NEW s \in Seq(S), NEW t \in Seq(S)
    PROVE  Prefix(s, s \o t)
<1>1. Len(s) \in Nat /\ Len(t) \in Nat /\ Len(s \o t) = Len(s) + Len(t)
  BY LenProperties, ConcatProperties
<1>2. CASE s = <<>>
  <2>1. Len(s) = 0
    BY <1>2, EmptySeq
  <2>2. SubSeq(s \o t, 1, 0) = <<>>
    BY SubSeqEmpty
  <2> QED BY <1>1, <1>2, <2>1, <2>2 DEF Prefix
<1>3. CASE s # <<>>
  <2>1. Len(s) \in 1..Len(s) /\ 1 \in 1..Len(s)
    BY <1>1, <1>3, EmptySeq
  <2>2. SubSeq(s \o t, 1, Len(s)) = SubSeq(s, 1, Len(s))
    BY <2>1, SubSeqOfConcat1
  <2> QED BY <1>1, <2>2, SubSeqFull DEF Prefix
<1> QED BY <1>2, <1>3

\* A sequence is no longer than what it begins.
LEMMA LongerByTwo ==
    ASSUME NEW S, NEW s \in Seq(S), NEW t \in Seq(S), NEW u \in Seq(S)
    PROVE  Len(s) <= Len((s \o t) \o u)
<1>1. /\ Len(s) \in Nat /\ Len(t) \in Nat /\ Len(u) \in Nat
      /\ s \o t \in Seq(S) /\ Len(s \o t) = Len(s) + Len(t)
  BY LenProperties, ConcatProperties
<1>2. Len((s \o t) \o u) = Len(s \o t) + Len(u)
  BY <1>1, ConcatProperties
<1> QED BY <1>1, <1>2

\* What comes before the same tail is of the same length.
SameLength(s, t, u, v) == Len(s) + Len(t) = Len(u) + Len(v)

\* Sequences with the same end are as long ahead of it.
LEMMA SameTail ==
    ASSUME NEW S, NEW s \in Seq(S), NEW t \in Seq(S), NEW u \in Seq(S), NEW v \in Seq(S),
           NEW x \in Seq(S), (s \o t) \o x = (u \o v) \o x
    PROVE  SameLength(s, t, u, v)
<1>1. /\ Len(s) \in Nat /\ Len(t) \in Nat /\ Len(u) \in Nat /\ Len(v) \in Nat /\ Len(x) \in Nat
      /\ s \o t \in Seq(S) /\ Len(s \o t) = Len(s) + Len(t)
      /\ u \o v \in Seq(S) /\ Len(u \o v) = Len(u) + Len(v)
  BY LenProperties, ConcatProperties
<1>2. Len((s \o t) \o x) = Len(s \o t) + Len(x) /\ Len((u \o v) \o x) = Len(u \o v) + Len(x)
  BY <1>1, ConcatProperties
<1>3. (Len(s) + Len(t)) + Len(x) = (Len(u) + Len(v)) + Len(x)
  BY <1>1, <1>2
<1> DEFINE j == Len(s) + Len(t)
           l == Len(u) + Len(v)
           n == Len(x)
<1>4. j \in Nat /\ l \in Nat /\ n \in Nat /\ j + n = l + n
  BY <1>1, <1>3
<1> HIDE DEF j, l, n
<1>5. j = l
  BY <1>4
<1> QED BY <1>5 DEF SameLength, j, l
-----------------------------------------------------------------------------
(* The fields of a channel, and of what is sent. *)

\* NQNetChan_Process, acknowledged: the next chunk, or the end of the message.
LEMMA AdvanceFields ==
    ASSUME NEW c \in Channel
    PROVE  /\ Advance(c) \in Channel
           /\ Advance(c).reliable_sequence = c.reliable_sequence + 1
           /\ Advance(c).message = c.message
           /\ Advance(c).maxsize = c.maxsize
           /\ Advance(c).incoming_reliable_sequence = c.incoming_reliable_sequence
           /\ Advance(c).in_fragment = c.in_fragment
           /\ IF c.reliable_start + MaxChunk >= Len(c.reliable_buf)
              THEN Advance(c).reliable_buf = <<>> /\ Advance(c).reliable_start = 0
              ELSE /\ Advance(c).reliable_buf = c.reliable_buf
                   /\ Advance(c).reliable_start = c.reliable_start + MaxChunk
<1> DEFINE done == c.reliable_start + MaxChunk >= Len(c.reliable_buf)
           buf == IF done THEN <<>> ELSE c.reliable_buf
           start == IF done THEN 0 ELSE c.reliable_start + MaxChunk
<1>1. <<>> \in Seq(Message) /\ MaxChunk \in Nat
  BY EmptySeq, BoundsAssumption
<1>2. buf \in Seq(Message) /\ start \in Nat
  BY <1>1 DEF Channel
<1>3. Advance(c) = [c EXCEPT !.reliable_buf = buf, !.reliable_start = start,
                             !.reliable_sequence = c.reliable_sequence + 1,
                             !.nqreliable_allowed = TRUE]
  BY DEF Advance
<1> HIDE DEF buf, start, done
<1>4. c.reliable_sequence + 1 \in Nat
  BY DEF Channel
<1>5. Advance(c) \in Channel
  BY <1>2, <1>3, <1>4, ZenonT(60) DEF Channel
<1>6. /\ Advance(c).reliable_sequence = c.reliable_sequence + 1
      /\ Advance(c).message = c.message
      /\ Advance(c).maxsize = c.maxsize
      /\ Advance(c).incoming_reliable_sequence = c.incoming_reliable_sequence
      /\ Advance(c).in_fragment = c.in_fragment
      /\ Advance(c).reliable_buf = buf /\ Advance(c).reliable_start = start
  BY <1>3 DEF Channel
<1> QED BY <1>6, <1>5 DEF buf, start, done

\* The chunk in hand and those before it are what the writer counts as through when
\* it advances.
LEMMA ChunkAndAdvance ==
    ASSUME NEW c \in Channel, Held(c), c.reliable_buf # <<>>
    PROVE  /\ Chunk(c) \in DataPacket /\ Chunk(c).seq = c.reliable_sequence
           /\ Chunk(c).type = "data"
           /\ Held(Advance(c))
           /\ Len(SubSeq(c.reliable_buf, 1, c.reliable_start)) + Len(Chunk(c).data) <= c.maxsize
           /\ Chunk(c).eom =>
                 /\ SubSeq(c.reliable_buf, 1, c.reliable_start) \o Chunk(c).data = c.reliable_buf
                 /\ Advance(c).reliable_buf = <<>> /\ Advance(c).reliable_start = 0
           /\ ~Chunk(c).eom =>
                 /\ Advance(c).reliable_buf = c.reliable_buf
                 /\ SubSeq(c.reliable_buf, 1, c.reliable_start) \o Chunk(c).data
                       = SubSeq(c.reliable_buf, 1, Advance(c).reliable_start)
<1> DEFINE b == c.reliable_buf
           s == c.reliable_start
           t == c.reliable_start + ChunkLength(c)
<1>1. b \in Seq(Message) /\ s \in Nat /\ Len(b) \in Nat /\ s < Len(b) /\ Len(b) <= c.maxsize
      /\ c.reliable_sequence \in Nat /\ c.maxsize \in Nat /\ MaxChunk \in Nat \ {0}
  BY LenProperties, BoundsAssumption DEF Channel, Held
<1>2. /\ t \in Nat /\ s <= t /\ t <= Len(b)
      /\ t = Len(b) <=> s + MaxChunk >= Len(b)
      /\ t # Len(b) => t = s + MaxChunk
  BY <1>1, SMTT(40) DEF ChunkLength, Left
<1>3. /\ SubSeq(b, 1, s) \in Seq(Message) /\ Len(SubSeq(b, 1, s)) = s
      /\ SubSeq(b, s + 1, t) \in Seq(Message) /\ Len(SubSeq(b, s + 1, t)) = t - s
      /\ SubSeq(b, 1, s) \o SubSeq(b, s + 1, t) = SubSeq(b, 1, t)
  <2> HIDE DEF b, s, t
  <2> QED BY <1>1, <1>2, Neighbours
<1>4. SubSeq(b, 1, Len(b)) = b
  BY <1>1, SubSeqFull
<1>5. /\ Chunk(c).type = "data" /\ Chunk(c).seq = c.reliable_sequence
      /\ Chunk(c).data = SubSeq(b, s + 1, t)
      /\ Chunk(c).eom <=> t = Len(b)
      /\ Chunk(c).eom \in BOOLEAN
      /\ Chunk(c) = [type |-> "data", seq |-> c.reliable_sequence,
                     data |-> SubSeq(b, s + 1, t), eom |-> t = Len(b)]
  BY DEF Chunk
<1>6. /\ s + MaxChunk >= Len(b) =>
            Advance(c).reliable_buf = <<>> /\ Advance(c).reliable_start = 0
      /\ ~(s + MaxChunk >= Len(b)) =>
            Advance(c).reliable_buf = b /\ Advance(c).reliable_start = s + MaxChunk
      /\ Advance(c).message = c.message /\ Advance(c).maxsize = c.maxsize
  BY AdvanceFields
<1>7. Len(<<>>) = 0 /\ Len(c.message) <= c.maxsize /\ b # <<>>
  BY EmptySeq DEF Held
<1> HIDE DEF b, s, t
<1>8. Chunk(c) \in DataPacket
  BY <1>1, <1>3, <1>5 DEF DataPacket
<1>9. Held(Advance(c))
  BY <1>1, <1>6, <1>7, SMTT(40) DEF Held
<1>10. Len(SubSeq(b, 1, s)) + Len(Chunk(c).data) <= c.maxsize
  BY <1>1, <1>2, <1>3, <1>5, SMTT(40)
<1>11. Chunk(c).eom => SubSeq(b, 1, s) \o Chunk(c).data = b
                       /\ Advance(c).reliable_buf = <<>> /\ Advance(c).reliable_start = 0
  <2> SUFFICES ASSUME t = Len(b)
               PROVE  /\ SubSeq(b, 1, s) \o SubSeq(b, s + 1, t) = b
                      /\ Advance(c).reliable_buf = <<>> /\ Advance(c).reliable_start = 0
    BY <1>5
  <2>1. SubSeq(b, 1, s) \o SubSeq(b, s + 1, t) = b
    BY <1>3, <1>4, Zenon
  <2> QED BY <1>2, <1>6, <2>1
<1>12. ~Chunk(c).eom => Advance(c).reliable_buf = b
                        /\ SubSeq(b, 1, s) \o Chunk(c).data = SubSeq(b, 1, Advance(c).reliable_start)
  BY <1>2, <1>3, <1>5, <1>6
<1> QED BY <1>5, <1>8, <1>9, <1>10, <1>11, <1>12 DEF b, s

\* Held survives an acknowledgement, of a chunk or of nothing.
LEMMA AdvanceHeld ==
    ASSUME NEW c \in Channel, Held(c)
    PROVE  Held(Advance(c))
<1>1. CASE c.reliable_buf # <<>>
  BY <1>1, ChunkAndAdvance
<1>2. CASE c.reliable_buf = <<>>
  <2>1. /\ Advance(c).reliable_buf = <<>> /\ Advance(c).message = c.message
        /\ Advance(c).maxsize = c.maxsize
    BY <1>2, AdvanceFields
  <2>2. Advance(c).reliable_start = 0
    <3>1. Len(<<>>) = 0 /\ c.reliable_start \in Nat /\ MaxChunk \in Nat
      BY EmptySeq, BoundsAssumption DEF Channel
    <3> QED BY <1>2, <3>1, AdvanceFields
  <2> QED BY <1>2, <2>1, <2>2 DEF Held
<1> QED BY <1>1, <1>2

\* What a data packet holds.
LEMMA DataTyped ==
    ASSUME NEW s \in SUBSET Packet, NEW p \in Data(s)
    PROVE  p \in DataPacket /\ p.seq \in Nat /\ p.data \in Seq(Message) /\ p.eom \in BOOLEAN
<1>1. p \in Packet /\ p.type = "data"
  BY DEF Data
<1>2. p \in DataPacket
  BY <1>1 DEF Packet, DataPacket, AckPacket, UnreliablePacket
<1> QED BY <1>2 DEF DataPacket

\* c and a differ in nothing a chunk or an answer depends on.
SameWriting(c, a) ==
    /\ c.reliable_sequence = a.reliable_sequence
    /\ c.reliable_buf = a.reliable_buf
    /\ c.reliable_start = a.reliable_start
    /\ c.message = a.message
    /\ c.maxsize = a.maxsize

\* Two ends that hold the same to write hold the same after an acknowledgement.
LEMMA SameWritingAdvance ==
    ASSUME NEW c \in Channel, NEW a \in Channel, SameWriting(c, a)
    PROVE  /\ SameWriting(Advance(c), Advance(a)) /\ Chunk(c) = Chunk(a)
           /\ Held(a) => Held(c)
<1>1. MaxChunk \in Nat
  BY BoundsAssumption
<1>2. SameWriting(Advance(c), Advance(a))
  BY <1>1, AdvanceFields DEF SameWriting
<1>3. Chunk(c) = Chunk(a)
  BY DEF SameWriting, Chunk, ChunkLength, Left
<1>4. Held(a) => Held(c)
  BY DEF SameWriting, Held
<1> QED BY <1>2, <1>3, <1>4

\* The writer as it will be when it has heard what its peer has read.
LEMMA CurrentFields ==
    ASSUME NEW a \in Channel, NEW b \in Channel
    PROVE  /\ Current(a, b) \in Channel
           /\ Current(a, b).message = a.message /\ Current(a, b).maxsize = a.maxsize
           /\ b.incoming_reliable_sequence <= a.reliable_sequence => Current(a, b) = a
           /\ b.incoming_reliable_sequence > a.reliable_sequence => Current(a, b) = Advance(a)
           /\ a.reliable_sequence \in Nat /\ b.incoming_reliable_sequence \in Nat
<1>1. a.reliable_sequence \in Nat /\ b.incoming_reliable_sequence \in Nat
  BY DEF Channel
<1> QED BY <1>1, AdvanceFields DEF Current
-----------------------------------------------------------------------------
(* What may happen at the two ends of a direction. *)

\* Anything that concerns neither chunks nor answers, and hanging up.
LEMMA OthersKeep ==
    ASSUME NEW a \in Channel, NEW b \in Channel, NEW c \in Channel, NEW e \in Channel,
           NEW toA, NEW toB, NEW toC, NEW toE, NEW w, NEW d, NEW k,
           NEW on \in BOOLEAN, NEW ok \in BOOLEAN, NEW still \in BOOLEAN,
           Direction(a, b, toA, toB, w, d, k, on, ok), SameWriting(c, a),
           e.incoming_reliable_sequence = b.incoming_reliable_sequence,
           e.in_fragment = b.in_fragment,
           Data(toE) = Data(toB),
           \A p \in toC : p.type = "ack" => p \in toA,
           still => on
    PROVE  Direction(c, e, toC, toE, w, d, k, still, ok)
<1>1. SameWriting(Current(c, e), Current(a, b))
  BY SameWritingAdvance DEF Current, SameWriting
<1>2. Held(c) /\ Waits(c, w) /\ Chunk(c) = Chunk(a)
  BY SameWritingAdvance DEF Direction, SameWriting, Waits
<1>3. ChunksSent(c, toE) /\ Stable(toE)
  BY <1>2 DEF Direction, ChunksSent, Stable, SameWriting
<1>4. ASSUME ok
      PROVE  Run(Current(c, e), e.incoming_reliable_sequence, e.in_fragment, toE, w, d)
  <2> DEFINE now == Current(a, b)
             next == Current(c, e)
  <2>1. PICK H, G : RunOf(H, G, now, b.incoming_reliable_sequence, b.in_fragment, toB, w, d)
    BY <1>4 DEF Direction, Run
  <2>2. SameWriting(next, now)
    BY <1>1
  <2> HIDE DEF now, next
  <2>3. RunOf(H, G, next, e.incoming_reliable_sequence, e.in_fragment, toE, w, d)
    BY <2>1, <2>2 DEF RunOf, SameWriting
  <2> QED BY <2>3 DEF Run, next
<1>5. ok /\ still => InStep(c, e, toC, d, k)
  BY <1>1 DEF Direction, InStep, SameWriting
<1> QED BY <1>2, <1>3, <1>4, <1>5 DEF Direction, SameWriting

\* c is a, with no reliable in flight, once message has taken its place.
Loaded(a, c) ==
    /\ a.reliable_buf = <<>> /\ a.message # <<>>
    /\ c.reliable_sequence = a.reliable_sequence /\ c.reliable_buf = a.message
    /\ c.reliable_start = 0 /\ c.message = <<>> /\ c.maxsize = a.maxsize

\* That leaves the direction as it is.
LEMMA LoadKeeps ==
    ASSUME NEW a \in Channel, NEW b \in Channel, NEW c \in Channel,
           NEW toA, NEW toB, NEW w \in Seq(Message), NEW d \in Seq(Message), NEW k \in Nat,
           NEW on \in BOOLEAN, NEW ok \in BOOLEAN,
           Direction(a, b, toA, toB, w, d, k, on, ok), Loaded(a, c)
    PROVE  Direction(c, b, toA, toB, w, d, k, on, ok)
<1> USE DEF Loaded
<1>1. /\ a.message \in Seq(Message) /\ Len(a.message) \in Nat \ {0} /\ Len(<<>>) = 0
      /\ Len(a.message) <= a.maxsize /\ a.maxsize \in Nat
      /\ a.reliable_start = 0 /\ a.reliable_sequence \in Nat
      /\ b.incoming_reliable_sequence \in Nat
  BY EmptySeq, LenProperties DEF Channel, Direction, Held
<1>2. Held(c) /\ Waits(c, w)
  <2>1. w = w \o c.message
    BY ConcatEmptySeq
  <2> QED BY <1>1, <2>1 DEF Held, Waits
<1>3. ChunksSent(c, toB) /\ Stable(toB)
  BY DEF Direction, ChunksSent
<1> SUFFICES ASSUME ok PROVE Direction(c, b, toA, toB, w, d, k, on, ok)
  BY <1>2, <1>3 DEF Direction
<1>4. /\ b.incoming_reliable_sequence <= a.reliable_sequence
      /\ Current(a, b) = a /\ Current(c, b) = c
  <2>1. b.incoming_reliable_sequence <= a.reliable_sequence
    BY <1>1 DEF Direction
  <2> QED BY <2>1, CurrentFields
<1>5. Run(c, b.incoming_reliable_sequence, b.in_fragment, toB, w, d)
  <2>1. PICK H, G : RunOf(H, G, a, b.incoming_reliable_sequence, b.in_fragment, toB, w, d)
    BY <1>4 DEF Direction, Run
  <2> DEFINE h == H[a.reliable_sequence]
  <2>2. h \in Seq(Message)
    BY <1>1, <2>1 DEF RunOf
  <2>3. (h \o a.reliable_buf) \o a.message = (h \o c.reliable_buf) \o c.message
    <3>1. /\ h \o <<>> = h /\ h \o a.message \in Seq(Message)
          /\ (h \o a.message) \o <<>> = h \o a.message
      BY <1>1, <2>2, ConcatEmptySeq, ConcatProperties
    <3> QED BY <3>1
  <2>4. SubSeq(a.reliable_buf, 1, a.reliable_start) = SubSeq(c.reliable_buf, 1, c.reliable_start)
    <3>1. SubSeq(<<>>, 1, 0) = <<>> /\ SubSeq(a.message, 1, 0) = <<>>
      BY SubSeqEmpty
    <3> QED BY <1>1, <3>1
  <2>5. RunOf(H, G, c, b.incoming_reliable_sequence, b.in_fragment, toB, w, d)
    BY <2>1, <2>3, <2>4 DEF RunOf
  <2> QED BY <2>5 DEF Run
<1>6. on => InStep(c, b, toA, d, k)
  <2> SUFFICES ASSUME on PROVE InStep(c, b, toA, d, k)
    OBVIOUS
  <2>1. Len(d) = k
    <3>1. InStep(a, b, toA, d, k) /\ Len(d) \in Nat
      BY LenProperties DEF Direction
    <3>2. Len(d) + 0 = k + 0
      BY <1>1, <1>4, <3>1 DEF InStep
    <3> QED BY <3>1, <3>2
  <2> QED BY <1>4, <2>1 DEF Direction, InStep
<1> QED BY <1>2, <1>3, <1>4, <1>5, <1>6 DEF Direction

\* The chunk in hand is put on the wire, for the first time or again.
LEMMA ChunkKeeps ==
    ASSUME NEW a \in Channel, NEW b \in Channel,
           NEW toA, NEW toB, NEW w, NEW d \in Seq(Message), NEW k \in Nat,
           NEW on \in BOOLEAN, NEW ok \in BOOLEAN,
           Direction(a, b, toA, toB, w, d, k, on, ok), a.reliable_buf # <<>>
    PROVE  Direction(a, b, toA, toB \cup {Chunk(a)}, w, d, k, on, ok)
<1> DEFINE i == b.incoming_reliable_sequence
           c == Current(a, b)
           net2 == toB \cup {Chunk(a)}
<1>1. Chunk(a).seq = a.reliable_sequence /\ Chunk(a).type = "data"
  BY DEF Chunk
<1>2. \A p \in Data(net2) : p \in Data(toB) \/ p = Chunk(a)
  BY DEF Data
<1>3. a.reliable_sequence \in Nat
  BY DEF Channel
<1>4. ChunksSent(a, net2)
  BY <1>1, <1>2, <1>3 DEF Direction, ChunksSent
<1>5. Stable(net2)
  BY <1>1, <1>2 DEF Direction, ChunksSent, Stable
<1> SUFFICES ASSUME ok PROVE Direction(a, b, toA, net2, w, d, k, on, ok)
  BY <1>4, <1>5 DEF Direction
<1>6. Run(c, i, b.in_fragment, net2, w, d)
  <2>1. PICK H, G : RunOf(H, G, c, i, b.in_fragment, toB, w, d)
    BY DEF Direction, Run
  <2>2. ~(i <= a.reliable_sequence /\ a.reliable_sequence < c.reliable_sequence)
    BY <1>3 DEF Current
  <2> HIDE DEF c, i, net2
  <2>3. RunOf(H, G, c, i, b.in_fragment, net2, w, d)
    BY <1>1, <1>2, <2>1, <2>2 DEF RunOf
  <2> QED BY <2>3 DEF Run
<1> QED BY <1>4, <1>5, <1>6 DEF Direction

\* A function with a new value at n.
LEMMA OneMore ==
    ASSUME NEW S, NEW F \in [Nat -> S], NEW n \in Nat, NEW y \in S
    PROVE  /\ [F EXCEPT ![n] = y] \in [Nat -> S]
           /\ [F EXCEPT ![n] = y][n] = y
           /\ \A j \in Nat : j # n => [F EXCEPT ![n] = y][j] = F[j]
OBVIOUS

\* What the reader will have after the chunk in hand too.
LEMMA RunExtends ==
    ASSUME NEW a \in Channel, NEW toB \in SUBSET Packet, NEW w, NEW d, NEW x,
           NEW i \in Nat, i <= a.reliable_sequence,
           Held(a), a.reliable_buf # <<>>, ChunksSent(a, toB), Run(a, i, x, toB, w, d)
    PROVE  Run(Advance(a), i, x, toB, w, d)
<1> DEFINE r == a.reliable_sequence
           v == Advance(a)
           f == SubSeq(a.reliable_buf, 1, a.reliable_start)
           q == Chunk(a)
<1>1. PICK H, G : RunOf(H, G, a, i, x, toB, w, d)
  BY DEF Run
<1>2. /\ q \in DataPacket /\ q.seq = r
      /\ Len(f) + Len(q.data) <= a.maxsize
      /\ q.eom => f \o q.data = a.reliable_buf /\ v.reliable_buf = <<>>
                  /\ v.reliable_start = 0
      /\ ~q.eom => v.reliable_buf = a.reliable_buf
                   /\ f \o q.data = SubSeq(a.reliable_buf, 1, v.reliable_start)
  BY ChunkAndAdvance
<1>3. /\ r \in Nat /\ i <= r /\ v.reliable_sequence = r + 1 /\ v.message = a.message
      /\ v.maxsize = a.maxsize /\ a.reliable_buf \in Seq(Message) /\ a.message \in Seq(Message)
      /\ q.data \in Seq(Message)
  <2>1. q.data \in Seq(Message)
    BY <1>2 DEF DataPacket
  <2> QED BY <2>1, AdvanceFields DEF Channel
<1>4. ASSUME NEW p \in Data(toB), p.seq = r PROVE p = q
  BY <1>4 DEF ChunksSent
<1>5. /\ H \in [Nat -> Seq(Message)] /\ G \in [Nat -> Seq(Message)]
      /\ H[r] \in Seq(Message) /\ G[r] \in Seq(Message) /\ G[r] = f
      /\ w = (H[r] \o a.reliable_buf) \o a.message
      /\ H[i] = d /\ G[i] = x
      /\ \A n \in i..r : Prefix(H[n], w)
      /\ \A p \in Data(toB) : i <= p.seq /\ p.seq < r => Joins(p, H, G, a.maxsize)
  BY <1>1, <1>3 DEF RunOf
<1> DEFINE h == IF q.eom THEN (H[r] \o G[r]) \o q.data ELSE H[r]
           g == IF q.eom THEN <<>> ELSE G[r] \o q.data
           H2 == [H EXCEPT ![r + 1] = h]
           G2 == [G EXCEPT ![r + 1] = g]
<1> HIDE DEF q, r, v, f
<1>6. h \in Seq(Message) /\ g \in Seq(Message)
  <2>1. <<>> \in Seq(Message) /\ (H[r] \o G[r]) \o q.data \in Seq(Message)
        /\ G[r] \o q.data \in Seq(Message)
    BY <1>3, <1>5, ConcatProperties, EmptySeq
  <2> QED BY <1>5, <2>1
<1>7. q.eom => h = H[r] \o a.reliable_buf
  <2> SUFFICES ASSUME q.eom PROVE (H[r] \o G[r]) \o q.data = H[r] \o a.reliable_buf
    OBVIOUS
  <2>1. (H[r] \o G[r]) \o q.data = H[r] \o (G[r] \o q.data)
    <3>1. \A s, t, u \in Seq(Message) : (s \o t) \o u = s \o (t \o u)
      BY MessagesAssociative, Zenon
    <3>2. H[r] \in Seq(Message) /\ G[r] \in Seq(Message) /\ q.data \in Seq(Message)
      BY <1>3, <1>5
    <3> HIDE DEF h, g
    <3> QED BY <3>1, <3>2, Zenon
  <2> QED BY <1>2, <1>5, <2>1
<1>8. g = SubSeq(v.reliable_buf, 1, v.reliable_start)
  <2>1. SubSeq(<<>>, 1, 0) = <<>>
    BY SubSeqEmpty
  <2> QED BY <1>2, <1>5, <2>1
<1>9. /\ q.eom => h = (H[r] \o G[r]) \o q.data /\ g = <<>>
      /\ ~q.eom => h = H[r] /\ g = G[r] \o q.data
  OBVIOUS
<1> HIDE DEF h, g
<1>10. w = (h \o v.reliable_buf) \o v.message /\ Prefix(h, w)
  <2>1. CASE q.eom
    <3>1. H[r] \o a.reliable_buf \in Seq(Message)
      BY <1>3, <1>5, ConcatProperties
    <3>2. h \o v.reliable_buf = H[r] \o a.reliable_buf
      BY <1>2, <1>7, <2>1, <3>1, ConcatEmptySeq
    <3>3. Prefix(H[r] \o a.reliable_buf, (H[r] \o a.reliable_buf) \o a.message)
      BY <1>3, <3>1, PrefixOfConcat
    <3> QED BY <1>3, <1>5, <1>7, <2>1, <3>2, <3>3
  <2>2. CASE ~q.eom
    <3>1. r \in i..r
      BY <1>3
    <3> QED BY <1>2, <1>3, <1>5, <1>9, <2>2, <3>1
  <2> QED BY <2>1, <2>2
<1>11. /\ H2 \in [Nat -> Seq(Message)] /\ G2 \in [Nat -> Seq(Message)]
       /\ H2[r + 1] = h /\ G2[r + 1] = g
       /\ \A n \in Nat : n # r + 1 => H2[n] = H[n] /\ G2[n] = G[n]
  <2>1. r + 1 \in Nat
    BY <1>3
  <2>2. H \in [Nat -> Seq(Message)] /\ G \in [Nat -> Seq(Message)]
    BY <1>5, Zenon
  <2> QED BY <1>6, <2>1, <2>2, OneMore, Zenon
<1> HIDE DEF H2, G2
<1>12. \A n \in i..r + 1 : Prefix(H2[n], w)
  <2> TAKE n \in i..r + 1
  <2>1. CASE n = r + 1
    BY <1>10, <1>11, <2>1
  <2>2. CASE n # r + 1
    <3>1. n \in i..r /\ n \in Nat
      BY <1>3, <2>2
    <3> QED BY <1>5, <1>11, <2>2, <3>1
  <2> QED BY <2>1, <2>2
<1>13. ASSUME NEW p \in Data(toB), i <= p.seq, p.seq < r + 1
       PROVE  Joins(p, H2, G2, a.maxsize)
  <2>1. p.seq \in Nat
    BY DataTyped
  <2>2. CASE p.seq = r
    <3>1. p = q
      BY <1>4, <2>2
    <3>2. r # r + 1
      BY <1>3
    <3>3. H2[r] = H[r] /\ G2[r] = f
      BY <1>3, <1>5, <1>11, <3>2
    <3> QED BY <1>2, <1>5, <1>9, <1>11, <3>1, <3>3, ZenonT(60) DEF Joins
  <2>3. CASE p.seq # r
    <3>1. p.seq < r /\ p.seq # r + 1 /\ p.seq + 1 # r + 1 /\ p.seq + 1 \in Nat
      BY <1>3, <1>13, <2>1, <2>3
    <3>2. Joins(p, H, G, a.maxsize)
      BY <1>5, <1>13, <3>1
    <3> QED BY <1>11, <2>1, <3>1, <3>2 DEF Joins
  <2> QED BY <2>2, <2>3
<1>14. H2[i] = d /\ G2[i] = x
  <2>1. i # r + 1
    BY <1>3
  <2> QED BY <1>5, <1>11, <2>1
<1>15. RunOf(H2, G2, v, i, x, toB, w, d)
  BY <1>3, <1>8, <1>10, <1>11, <1>12, <1>13, <1>14 DEF RunOf
<1> QED BY <1>15 DEF Run, v

\* The writer counts the chunk in hand as through: because it was told so, or, when it
\* has hung up, because it has sent it.
LEMMA WriterAdvances ==
    ASSUME NEW a \in Channel, NEW b \in Channel,
           NEW toA \in SUBSET Packet, NEW toB \in SUBSET Packet, NEW w, NEW d \in Seq(Message),
           NEW k \in Nat, NEW on \in BOOLEAN, NEW ok \in BOOLEAN, NEW m \in Nat,
           Direction(a, b, toA, toB, w, d, k, on, ok),
           ok => a.reliable_buf # <<>>,
           ok /\ on => /\ b.incoming_reliable_sequence = a.reliable_sequence + 1
                       /\ m = IF Advance(a).reliable_buf = <<>> THEN k + Len(a.reliable_buf) ELSE k,
           ok /\ ~on => m = k
    PROVE  Direction(Advance(a), b, toA, toB, w, d, m, on, ok)
<1> DEFINE i == b.incoming_reliable_sequence
           r == a.reliable_sequence
           v == Advance(a)
           f == SubSeq(a.reliable_buf, 1, a.reliable_start)
<1>1. /\ r \in Nat /\ i \in Nat /\ Len(d) \in Nat
      /\ a.reliable_buf \in Seq(Message) /\ Len(a.reliable_buf) \in Nat
      /\ a.message \in Seq(Message)
  BY LenProperties DEF Channel
<1>2. /\ v \in Channel /\ v.reliable_sequence = r + 1 /\ v.message = a.message
      /\ v.reliable_buf \in Seq(Message) /\ Len(v.reliable_buf) \in Nat
  <2>1. v \in Channel
    BY AdvanceFields
  <2>2. v.reliable_buf \in Seq(Message)
    BY <2>1 DEF Channel
  <2> QED BY <2>1, <2>2, AdvanceFields, LenProperties
<1>3. /\ Held(a) /\ Held(v) /\ Waits(v, w)
      /\ v.reliable_buf = <<>> \/ v.reliable_buf = a.reliable_buf
  BY <1>2, AdvanceFields, AdvanceHeld DEF Direction, Waits
<1>4. ChunksSent(v, toB) /\ Stable(toB)
  <2>1. \A p \in Data(toB) : p.seq <= r
    BY DEF Direction, ChunksSent
  <2>2. ASSUME NEW p \in Data(toB) PROVE p.seq <= r + 1 /\ p.seq # r + 1
    <3>1. p.seq \in Nat /\ p.seq <= r
      BY <2>1, DataTyped
    <3> QED BY <1>1, <3>1
  <2> QED BY <1>2, <2>2 DEF ChunksSent, Direction
<1> SUFFICES ASSUME ok PROVE Direction(v, b, toA, toB, w, d, m, on, ok)
  BY <1>3, <1>4 DEF Direction
<1>5. i <= r + 1 /\ Current(v, b) = v
  <2>1. i <= r + 1
    BY <1>1 DEF Direction
  <2> HIDE DEF v
  <2> QED BY <1>2, <2>1 DEF Current
<1>6. Run(v, i, b.in_fragment, toB, w, d)
  <2>1. CASE i > r
    <3>1. Current(a, b) = v
      BY <1>1, <2>1 DEF Current
    <3> QED BY <3>1 DEF Direction
  <2>2. CASE i <= r
    <3>1. Run(a, i, b.in_fragment, toB, w, d)
      BY <1>1, <2>2 DEF Direction, Current
    <3>2. Run(Advance(a), i, b.in_fragment, toB, w, d)
      <4>1. Held(a) /\ ChunksSent(a, toB)
        BY DEF Direction
      <4> QED BY <1>1, <2>2, <3>1, <4>1, RunExtends
    <3> QED BY <3>2
  <2> QED BY <1>1, <2>1, <2>2
<1>7. m <= Len(d) /\ (on => InStep(v, b, toA, d, m))
  <2>1. CASE ~on
    BY <2>1 DEF Direction
  <2>2. CASE on
    <3>1. /\ InStep(a, b, toA, d, k) /\ i = r + 1
          /\ m = IF v.reliable_buf = <<>> THEN k + Len(a.reliable_buf) ELSE k
      BY <2>2 DEF Direction
    <3>2. Current(a, b) = v
      BY <1>1, <3>1 DEF Current
    <3>3. Len(d) + Len(v.reliable_buf) = k + Len(a.reliable_buf)
      BY <3>1, <3>2 DEF InStep
    <3>4. m = Len(d)
      <4>1. Len(<<>>) = 0
        BY EmptySeq
      <4> QED BY <1>1, <1>2, <1>3, <3>1, <3>3, <4>1
    <3>5. InStep(v, b, toA, d, m)
      BY <1>1, <1>2, <1>5, <3>1, <3>4 DEF InStep
    <3> QED BY <1>1, <3>4, <3>5
  <2> QED BY <2>1, <2>2
<1>8. ~(i > v.reliable_sequence)
  BY <1>1, <1>2, <1>5
<1> HIDE DEF v
<1> QED BY <1>3, <1>4, <1>5, <1>6, <1>7, <1>8 DEF Direction

\* What SZ_Clear or a new write leaves when the last part of a stream is taken away.
LEMMA WithoutLast ==
    ASSUME NEW S, NEW s \in Seq(S), NEW t \in Seq(S)
    PROVE  SubSeq(s \o t, 1, Len(s \o t) - Len(t)) = s
<1>1. Len(s \o t) - Len(t) = Len(s)
  <2>1. Len(s) \in Nat /\ Len(t) \in Nat /\ Len(s \o t) = Len(s) + Len(t)
    BY LenProperties, ConcatProperties
  <2> QED BY <2>1
<1> QED BY <1>1, PrefixOfConcat DEF Prefix

\* The stream of a writer that has not hung up, whose reader lacks what Current holds.
Parts(a, b, w, d) ==
    /\ Current(a, b).reliable_sequence = b.incoming_reliable_sequence
    /\ Held(Current(a, b))
    /\ w = (d \o Current(a, b).reliable_buf) \o a.message
    /\ b.in_fragment = SubSeq(Current(a, b).reliable_buf, 1, Current(a, b).reliable_start)
    /\ b.incoming_reliable_sequence \in {a.reliable_sequence, a.reliable_sequence + 1}

\* In step, what was written is what was given, what is collected, lacks and waits.
LEMMA StreamParts ==
    ASSUME NEW a \in Channel, NEW b \in Channel,
           NEW toA, NEW toB, NEW w, NEW d, NEW k, NEW on, NEW ok,
           ok, Direction(a, b, toA, toB, w, d, k, on, ok), InStep(a, b, toA, d, k)
    PROVE  Parts(a, b, w, d)
<1> DEFINE n == Current(a, b)
           i == b.incoming_reliable_sequence
           r == a.reliable_sequence
<1>1. /\ r \in Nat /\ i \in Nat /\ r <= i
      /\ i > r => i = r + 1 /\ a.reliable_buf # <<>>
  BY DEF Direction, InStep, Channel
<1>2. i \in {r, r + 1}
  BY <1>1
<1>3. n.reliable_sequence = i /\ n.message = a.message /\ Held(n)
  <2>1. CASE i = r
    <3>1. n = a
      BY <1>1, <2>1 DEF Current
    <3> QED BY <2>1, <3>1 DEF Direction
  <2>2. CASE i = r + 1
    <3>1. n = Advance(a) /\ a.reliable_buf # <<>>
      BY <1>1, <2>2 DEF Current
    <3>2. Held(n)
      BY <3>1, ChunkAndAdvance DEF Direction
    <3> QED BY <2>2, <3>1, <3>2, AdvanceFields
  <2> QED BY <1>2, <2>1, <2>2
<1>4. PICK H, G : RunOf(H, G, n, i, b.in_fragment, toB, w, d)
  BY DEF Direction, Run
<1> HIDE DEF n, i, r
<1>5. w = (d \o n.reliable_buf) \o a.message
      /\ b.in_fragment = SubSeq(n.reliable_buf, 1, n.reliable_start)
  BY <1>3, <1>4 DEF RunOf
<1> QED BY <1>2, <1>3, <1>5 DEF n, i, r, Parts

\* What the code above the channel does to message: z waits instead of what waited.
Rewritten(w, a, z) == SubSeq(w, 1, Len(w) - Len(a.message)) \o z

Rewrites(a, b, c, toA, toB, w, z, d, k, on, ok) ==
    /\ Rewritten(w, a, z) \in Seq(Message)
    /\ Direction(c, b, toA, toB, Rewritten(w, a, z), d, k, on, ok)

\* c is a, but for what waits in message.
WritesTo(c, a, z) ==
    /\ c.reliable_sequence = a.reliable_sequence
    /\ c.reliable_buf = a.reliable_buf
    /\ c.reliable_start = a.reliable_start
    /\ c.maxsize = a.maxsize
    /\ c.message = z
    /\ Len(z) <= a.maxsize

\* What was written falls into what is under way and what waits.
LEMMA WaitsLast ==
    ASSUME NEW a \in Channel, NEW w, Waits(a, w)
    PROVE  /\ SubSeq(w, 1, Len(w) - Len(a.message)) \in Seq(Message)
           /\ w = SubSeq(w, 1, Len(w) - Len(a.message)) \o a.message
<1>1. PICK u \in Seq(Message) : w = u \o a.message
  BY DEF Waits
<1>2. SubSeq(w, 1, Len(w) - Len(a.message)) = u
  BY <1>1, WithoutLast DEF Channel
<1> QED BY <1>1, <1>2

\* A write or the loss of message changes what waits, and nothing under way.
LEMMA WriterWrites ==
    ASSUME NEW a \in Channel, NEW b \in Channel, NEW c \in Channel,
           NEW toA \in SUBSET Packet, NEW toB \in SUBSET Packet,
           NEW w \in Seq(Message), NEW d \in Seq(Message), NEW k \in Nat,
           NEW ok, Direction(a, b, toA, toB, w, d, k, TRUE, ok),
           NEW z \in Seq(Message), WritesTo(c, a, z)
    PROVE  Rewrites(a, b, c, toA, toB, w, z, d, k, TRUE, ok)
<1> DEFINE u == SubSeq(w, 1, Len(w) - Len(a.message))
           v == u \o z
<1>1. u \in Seq(Message) /\ w = u \o a.message /\ a.message \in Seq(Message)
  BY WaitsLast DEF Direction, Channel
<1>2. v \in Seq(Message)
  <2> HIDE DEF u
  <2> QED BY <1>1, ConcatProperties
<1>3. Held(c) /\ ChunksSent(c, toB) /\ Stable(toB) /\ Waits(c, v)
  <2>1. Chunk(c) = Chunk(a)
    BY DEF WritesTo, Chunk, ChunkLength, Left
  <2>2. Waits(c, v)
    <3> HIDE DEF u
    <3> QED BY <1>1 DEF Waits, WritesTo
  <2> QED BY <2>1, <2>2 DEF Direction, Held, ChunksSent, WritesTo
<1>4. Rewritten(w, a, z) = v
  BY DEF Rewritten
<1>5. CASE ~ok
  <2> HIDE DEF v
  <2> QED BY <1>2, <1>3, <1>4, <1>5 DEF Direction, Rewrites
<1> SUFFICES ASSUME ok PROVE Rewrites(a, b, c, toA, toB, w, z, d, k, TRUE, ok)
  BY <1>5
<1> DEFINE n == Current(a, b)
           o == Current(c, b)
           i == b.incoming_reliable_sequence
<1>6. InStep(a, b, toA, d, k)
  BY DEF Direction
<1>7. /\ n.reliable_sequence = i /\ w = (d \o n.reliable_buf) \o a.message
      /\ b.in_fragment = SubSeq(n.reliable_buf, 1, n.reliable_start)
  <2>1. Parts(a, b, w, d)
    BY <1>6, StreamParts, Zenon
  <2> QED BY <2>1 DEF Parts
<1>8. /\ o.reliable_sequence = n.reliable_sequence /\ o.reliable_buf = n.reliable_buf
      /\ o.reliable_start = n.reliable_start /\ o.message = z
  BY AdvanceFields, BoundsAssumption DEF Current, WritesTo
<1>9. /\ n.reliable_buf \in Seq(Message) /\ i \in Nat /\ b.in_fragment \in Seq(Message)
  <2>1. n \in Channel
    BY CurrentFields
  <2> HIDE DEF n
  <2> QED BY <2>1 DEF Channel
<1> HIDE DEF n, o
<1>10. u = d \o n.reliable_buf
  <2>1. d \o n.reliable_buf \in Seq(Message)
    BY <1>9, ConcatProperties
  <2> DEFINE y == d \o n.reliable_buf
  <2>2. w = y \o a.message /\ y \in Seq(Message)
    BY <1>7, <2>1
  <2> HIDE DEF y
  <2>3. u = y
    BY <1>1, <2>2, WithoutLast
  <2> QED BY <2>3 DEF y
<1>11. Prefix(d, v)
  <2>1. v = d \o (n.reliable_buf \o z) /\ n.reliable_buf \o z \in Seq(Message)
    <3>1. \A s, t, x \in Seq(Message) : (s \o t) \o x = s \o (t \o x)
      BY MessagesAssociative, Zenon
    <3>2. n.reliable_buf \in Seq(Message) /\ n.reliable_buf \o z \in Seq(Message)
      BY <1>9, ConcatProperties
    <3>3. v = (d \o n.reliable_buf) \o z
      BY <1>10
    <3> HIDE DEF u, v
    <3> QED BY <3>1, <3>2, <3>3, ZenonT(60)
  <2> HIDE DEF v
  <2> QED BY <2>1, PrefixOfConcat
<1>12. v = (d \o n.reliable_buf) \o z
  BY <1>10
<1> HIDE DEF u, v
<1>13. Run(o, i, b.in_fragment, toB, v, d)
  <2> DEFINE H == [j \in Nat |-> d]
             G == [j \in Nat |-> b.in_fragment]
  <2>1. H \in [Nat -> Seq(Message)] /\ G \in [Nat -> Seq(Message)]
        /\ \A j \in Nat : H[j] = d /\ G[j] = b.in_fragment
    BY <1>9
  <2> HIDE DEF H, G
  <2>2. /\ o.reliable_sequence = i /\ v = (d \o o.reliable_buf) \o o.message
        /\ b.in_fragment = SubSeq(o.reliable_buf, 1, o.reliable_start)
    BY <1>7, <1>8, <1>12
  <2>3. i \in Nat
    BY <1>9
  <2> HIDE DEF i
  <2>4. ASSUME NEW j \in i..i PROVE Prefix(H[j], v)
    <3>1. j = i
      BY <2>3
    <3>2. H[i] = d
      BY <2>1, <2>3
    <3> QED BY <1>11, <3>1, <3>2, Zenon
  <2>5. ASSUME NEW p \in Data(toB) PROVE ~(i <= p.seq /\ p.seq < i)
    <3>1. p.seq \in Nat
      BY DataTyped
    <3> QED BY <2>3, <3>1
  <2>6. RunOf(H, G, o, i, b.in_fragment, toB, v, d)
    BY <1>9, <2>1, <2>2, <2>3, <2>4, <2>5 DEF RunOf
  <2> QED BY <2>6 DEF Run, i
<1>14. InStep(c, b, toA, d, k)
  BY <1>6, <1>8 DEF InStep, n, o, WritesTo
<1>15. Direction(c, b, toA, toB, v, d, k, TRUE, ok)
  <2>1. /\ b.incoming_reliable_sequence > c.reliable_sequence =>
              b.incoming_reliable_sequence = c.reliable_sequence + 1 /\ c.reliable_buf # <<>>
        /\ k <= Len(d)
    BY DEF Direction, WritesTo
  <2> QED BY <1>2, <1>3, <1>13, <1>14, <2>1 DEF Direction, o
<1> QED BY <1>2, <1>4, <1>15 DEF Rewrites

-----------------------------------------------------------------------------
\* What NQNetChan_Process makes of a chunk, above all of the one it expects when there
\* is room for it.
LEMMA AfterDataFields ==
    ASSUME NEW b \in Channel, NEW p \in DataPacket
    PROVE  /\ AfterData(b, p) \in Channel
           /\ SameWriting(AfterData(b, p), b)
           /\ Expected(b, p) /\ ~TooLong(b, p) =>
                 /\ AfterData(b, p).incoming_reliable_sequence = b.incoming_reliable_sequence + 1
                 /\ AfterData(b, p).in_fragment = IF p.eom THEN <<>> ELSE b.in_fragment \o p.data
                 /\ Completes(b, p) <=> p.eom
<1> DEFINE f == IF p.eom THEN <<>> ELSE b.in_fragment \o p.data
           r == b.incoming_reliable_sequence + 1
<1>1. /\ b.in_fragment \in Seq(Message) /\ p.data \in Seq(Message) /\ p.eom \in BOOLEAN
      /\ r \in Nat
  BY DEF Channel, DataPacket
<1>2. f \in Seq(Message)
  BY <1>1, EmptySeq, ConcatProperties
<1>3. CASE ~Expected(b, p)
  BY <1>3 DEF AfterData, SameWriting
<1>4. CASE Expected(b, p) /\ TooLong(b, p)
  <2>1. AfterData(b, p) = [b EXCEPT !.incoming_reliable_sequence = r, !.fatal_error = TRUE]
    BY <1>4 DEF AfterData
  <2> HIDE DEF f, r
  <2>2. AfterData(b, p) \in Channel
    BY <1>1, <2>1 DEF Channel
  <2>3. SameWriting(AfterData(b, p), b)
    BY <2>1 DEF Channel, SameWriting
  <2> QED BY <1>4, <2>2, <2>3
<1>5. CASE Expected(b, p) /\ ~TooLong(b, p)
  <2>1. AfterData(b, p) = [b EXCEPT !.incoming_reliable_sequence = r, !.in_fragment = f]
    BY <1>5 DEF AfterData
  <2>2. Completes(b, p) <=> p.eom
    BY <1>5 DEF Completes
  <2> HIDE DEF f, r
  <2>3. AfterData(b, p) \in Channel
    BY <1>1, <1>2, <2>1 DEF Channel
  <2>4. /\ SameWriting(AfterData(b, p), b)
        /\ AfterData(b, p).incoming_reliable_sequence = r
        /\ AfterData(b, p).in_fragment = f
    BY <2>1 DEF Channel, SameWriting
  <2> QED BY <2>2, <2>3, <2>4 DEF f, r
<1> QED BY <1>3, <1>4, <1>5

\* what the writer has been sent, and what the reader b has been given, b has
\* processed p
Answered(s, p) == s \cup {Answer(p)}
Given(d, b, p) == IF Completes(b, p) THEN (d \o b.in_fragment) \o p.data ELSE d

\* What the reader is given is a sequence.
LEMMA GivenTyped ==
    ASSUME NEW b \in Channel, NEW p \in DataPacket, NEW d \in Seq(Message)
    PROVE  Given(d, b, p) \in Seq(Message)
<1>1. b.in_fragment \in Seq(Message) /\ p.data \in Seq(Message)
  BY DEF Channel, DataPacket
<1>2. (d \o b.in_fragment) \o p.data \in Seq(Message)
  BY <1>1, ConcatProperties
<1> QED BY <1>2 DEF Given

\* the writer when its peer has the chunk p it expects
Then(a, p) == IF p.seq + 1 <= a.reliable_sequence THEN a ELSE Advance(a)

\* What is run through with the expected chunk.
Expects(H, G, a, b, toB, w, d, p) ==
    /\ RunOf(H, G, Then(a, p), b.incoming_reliable_sequence, b.in_fragment, toB, w, d)
    /\ Joins(p, H, G, a.maxsize)
    /\ b.incoming_reliable_sequence < Then(a, p).reliable_sequence

\* Its chunk is the one in hand, or one the writer has pushed out before.
LEMMA ReaderExpects ==
    ASSUME NEW a \in Channel, NEW b \in Channel,
           NEW toA \in SUBSET Packet, NEW toB \in SUBSET Packet,
           NEW w \in Seq(Message), NEW d \in Seq(Message), NEW k \in Nat,
           NEW on \in BOOLEAN, NEW ok, ok, Direction(a, b, toA, toB, w, d, k, on, ok),
           NEW p \in Data(toB), Expected(b, p)
    PROVE  /\ \E H, G : Expects(H, G, a, b, toB, w, d, p)
           /\ b.incoming_reliable_sequence <= a.reliable_sequence
           /\ b.incoming_reliable_sequence = a.reliable_sequence => a.reliable_buf # <<>>
<1> DEFINE i == b.incoming_reliable_sequence
           r == a.reliable_sequence
<1>1. /\ p.seq = i /\ i \in Nat /\ r \in Nat /\ b.in_fragment \in Seq(Message)
      /\ i <= r
      /\ i = r => a.reliable_buf # <<>>
  <2>1. p.seq <= r /\ (p.seq = r => a.reliable_buf # <<>>)
    BY DEF Direction, ChunksSent
  <2> QED BY <2>1 DEF Channel, Expected
<1>2. Current(a, b) = a /\ Run(a, i, b.in_fragment, toB, w, d)
  <2>1. Current(a, b) = a
    BY <1>1, CurrentFields
  <2> QED BY <2>1 DEF Direction
<1> DEFINE v == Then(a, p)
<1>3. /\ Run(v, i, b.in_fragment, toB, w, d)
      /\ v.reliable_sequence \in Nat /\ i < v.reliable_sequence /\ v.maxsize = a.maxsize
  <2>1. CASE i + 1 <= r
    BY <1>1, <1>2, <2>1 DEF Then
  <2>2. CASE ~(i + 1 <= r)
    <3>1. i = r /\ a.reliable_buf # <<>> /\ v = Advance(a)
      BY <1>1, <2>2 DEF Then
    <3>2. Run(Advance(a), i, b.in_fragment, toB, w, d)
      <4>1. Held(a) /\ ChunksSent(a, toB)
        BY DEF Direction
      <4> QED BY <1>1, <1>2, <3>1, <4>1, RunExtends
    <3>3. Advance(a).reliable_sequence = r + 1 /\ Advance(a).maxsize = a.maxsize
      BY AdvanceFields
    <3> QED BY <1>1, <3>1, <3>2, <3>3
  <2> QED BY <2>1, <2>2
<1> HIDE DEF v
<1>4. PICK H, G : RunOf(H, G, v, i, b.in_fragment, toB, w, d)
  BY <1>3 DEF Run
<1>5. Joins(p, H, G, a.maxsize)
  <2>1. i <= p.seq /\ p.seq < v.reliable_sequence
    BY <1>1, <1>3
  <2> QED BY <1>3, <1>4, <2>1 DEF RunOf
<1> QED BY <1>1, <1>3, <1>4, <1>5 DEF Expects, v

\* A chunk is refused only if the whole message could not be put together.
LEMMA ReaderRefuses ==
    ASSUME NEW a \in Channel, NEW b \in Channel,
           NEW toA \in SUBSET Packet, NEW toB \in SUBSET Packet,
           NEW w \in Seq(Message), NEW d \in Seq(Message), NEW k \in Nat,
           NEW on \in BOOLEAN, NEW ok, ok, Direction(a, b, toA, toB, w, d, k, on, ok),
           NEW p \in Data(toB), Refuses(b, p)
    PROVE  a.maxsize >= MaxFragment
<1>1. Expected(b, p) /\ Len(b.in_fragment) + Len(p.data) >= MaxFragment
  BY DEF Refuses, TooLong
<1>2. PICK H, G : Expects(H, G, a, b, toB, w, d, p)
  BY <1>1, ReaderExpects, Zenon
<1>3. Len(b.in_fragment) + Len(p.data) <= a.maxsize
  BY <1>1, <1>2 DEF Expects, RunOf, Joins, Expected
<1>4. /\ Len(b.in_fragment) \in Nat /\ Len(p.data) \in Nat
      /\ a.maxsize \in Nat /\ MaxFragment \in Nat
  BY DataTyped, LenProperties, BoundsAssumption DEF Channel
<1> DEFINE j == Len(b.in_fragment)
           l == Len(p.data)
<1>5. j \in Nat /\ l \in Nat /\ j + l >= MaxFragment /\ j + l <= a.maxsize
  BY <1>1, <1>3, <1>4
<1> HIDE DEF j, l
<1> QED BY <1>4, <1>5

\* The stream goes on from the reader e, which was given y.
GoesOn(a, b, e, toA, toB, w, y, k, on, ok) ==
    /\ e \in Channel /\ y \in Seq(Message)
    /\ SameWriting(e, b)
    /\ Direction(a, e, toA, toB, w, y, k, on, ok)

\* The expected chunk arrives, and there is room for it.
LEMMA ReaderTakes ==
    ASSUME NEW a \in Channel, NEW b \in Channel,
           NEW toA \in SUBSET Packet, NEW toB \in SUBSET Packet,
           NEW w \in Seq(Message), NEW d \in Seq(Message), NEW k \in Nat,
           NEW on \in BOOLEAN, NEW ok, ok, Direction(a, b, toA, toB, w, d, k, on, ok),
           NEW p \in Data(toB), Expected(b, p), ~TooLong(b, p)
    PROVE  GoesOn(a, b, AfterData(b, p), Answered(toA, p), toB, w, Given(d, b, p), k, on, ok)
<1> DEFINE i == b.incoming_reliable_sequence
           r == a.reliable_sequence
           e == AfterData(b, p)
           y == Given(d, b, p)
           c == Current(a, e)
           net2 == Answered(toA, p)
           v == Then(a, p)
<1>1. /\ p \in DataPacket /\ p.seq \in Nat /\ p.data \in Seq(Message) /\ p.eom \in BOOLEAN
      /\ p.seq = i /\ i \in Nat /\ r \in Nat /\ b.in_fragment \in Seq(Message)
      /\ i <= r
      /\ i = r => a.reliable_buf # <<>>
  <2>1. i <= r /\ (i = r => a.reliable_buf # <<>>)
    BY ReaderExpects, Zenon
  <2> QED BY <2>1, DataTyped DEF Channel, Expected
<1>2. Current(a, b) = a /\ Run(a, i, b.in_fragment, toB, w, d)
  <2>1. Current(a, b) = a
    BY <1>1, CurrentFields
  <2> QED BY <2>1 DEF Direction
<1>3. PICK H, G : Expects(H, G, a, b, toB, w, d, p)
  BY ReaderExpects, Zenon
<1>4. RunOf(H, G, v, i, b.in_fragment, toB, w, d)
  BY <1>3 DEF Expects
<1>5. /\ H \in [Nat -> Seq(Message)] /\ G \in [Nat -> Seq(Message)]
      /\ H[i] = d /\ G[i] = b.in_fragment
      /\ Joins(p, H, G, a.maxsize)
      /\ \A n \in i..v.reliable_sequence : Prefix(H[n], w)
      /\ w = (H[v.reliable_sequence] \o v.reliable_buf) \o v.message
  BY <1>3 DEF Expects, RunOf
<1>6. v.reliable_sequence \in Nat /\ i < v.reliable_sequence
  <2>1. v \in Channel
    BY AdvanceFields DEF Then
  <2>2. i < v.reliable_sequence
    BY <1>3 DEF Expects
  <2> HIDE DEF v
  <2> QED BY <2>1, <2>2 DEF Channel
<1> HIDE DEF v
<1>7. /\ e \in Channel /\ SameWriting(e, b)
      /\ e.incoming_reliable_sequence = i + 1
      /\ e.in_fragment = IF p.eom THEN <<>> ELSE b.in_fragment \o p.data
      /\ Completes(b, p) <=> p.eom
  BY <1>1, AfterDataFields
<1>8. e.in_fragment = G[i + 1] /\ y = H[i + 1]
  <2>1. CASE p.eom
    BY <1>1, <1>5, <1>7, <2>1 DEF Joins, Given
  <2>2. CASE ~p.eom
    BY <1>1, <1>5, <1>7, <2>2 DEF Joins, Given
  <2> QED BY <1>1, <2>1, <2>2
<1> HIDE DEF y, e
<1>9. c = v
  BY <1>1, <1>7 DEF Current, Then, v
<1>10. y \in Seq(Message) /\ Prefix(y, w) /\ Len(d) \in Nat /\ Len(y) \in Nat
  <2>1. i + 1 \in Nat /\ i + 1 \in i..v.reliable_sequence
    BY <1>1, <1>6
  <2>2. y \in Seq(Message) /\ Prefix(y, w)
    BY <1>5, <1>8, <2>1
  <2> QED BY <2>2, LenProperties
<1>11. Len(d) <= Len(y)
  <2>1. CASE p.eom
    <3>1. y = (d \o b.in_fragment) \o p.data
      BY <1>7, <2>1 DEF y, Given
    <3>2. Len(d) <= Len((d \o b.in_fragment) \o p.data)
      BY <1>1, LongerByTwo
    <3> QED BY <3>1, <3>2
  <2>2. CASE ~p.eom
    <3>1. y = d /\ Len(d) \in Nat
      BY <1>7, <1>10, <2>2 DEF y, Given
    <3> QED BY <3>1
  <2> QED BY <1>1, <2>1, <2>2
<1>12. Run(c, e.incoming_reliable_sequence, e.in_fragment, toB, w, y)
  <2>1. \A n \in i + 1..v.reliable_sequence : n \in i..v.reliable_sequence
    BY <1>1, <1>6
  <2>2. \A q \in Data(toB) : i + 1 <= q.seq => i <= q.seq
    BY <1>1, DataTyped
  <2>3. RunOf(H, G, v, i + 1, G[i + 1], toB, w, H[i + 1])
    BY <1>4, <2>1, <2>2 DEF RunOf
  <2> QED BY <1>7, <1>8, <1>9, <2>3 DEF Run
<1>13. on => InStep(a, e, net2, y, k)
  <2> SUFFICES ASSUME on PROVE InStep(a, e, net2, y, k)
    OBVIOUS
  <2>1. InStep(a, b, toA, d, k)
    BY DEF Direction
  <2>2. i = r /\ c = Advance(a)
    BY <1>1, <1>9, <2>1 DEF InStep, Then, v
  <2>3. \A q \in net2 : q.type = "ack" => q.seq < i + 1
    <3>1. TAKE q \in net2
    <3>2. CASE q \in toA
      <4>1. q.type = "ack" => q.seq \in Nat /\ q.seq < i
        <5>1. q \in Packet
          BY <3>2
        <5>2. q.type = "ack" => q \in AckPacket
          BY <5>1 DEF Packet, DataPacket, AckPacket, UnreliablePacket
        <5>3. q.type = "ack" => q.seq \in Nat
          BY <5>2 DEF AckPacket
        <5> QED BY <2>1, <3>2, <5>3 DEF InStep
      <4> QED BY <1>1, <4>1
    <3>3. CASE q = Answer(p)
      BY <1>1, <3>3 DEF Answer
    <3> QED BY <3>2, <3>3 DEF Answered
  <2>4. Len(y) + Len(c.reliable_buf) = k + Len(a.reliable_buf)
    <3>1. PICK F, K : RunOf(F, K, a, i, b.in_fragment, toB, w, d)
      BY <1>2 DEF Run
    <3>2. w = (d \o a.reliable_buf) \o a.message
      BY <2>2, <3>1 DEF RunOf
    <3>3. w = (y \o c.reliable_buf) \o a.message
      <4>1. v.reliable_sequence = i + 1 /\ v.message = a.message
        BY <1>9, <2>2, AdvanceFields
      <4> QED BY <1>5, <1>8, <1>9, <4>1
    <3>4. a.reliable_buf \in Seq(Message) /\ c.reliable_buf \in Seq(Message)
          /\ a.message \in Seq(Message)
      <4>1. c \in Channel
        BY <1>7, CurrentFields
      <4> HIDE DEF c
      <4> QED BY <4>1 DEF Channel
    <3> HIDE DEF c
    <3>5. Len(y) + Len(c.reliable_buf) = Len(d) + Len(a.reliable_buf)
      <4> DEFINE t == c.reliable_buf
                 u == a.reliable_buf
                 x == a.message
      <4>1. (y \o t) \o x = (d \o u) \o x
        BY <3>2, <3>3
      <4>2. y \in Seq(Message)
        BY <1>10
      <4>3. t \in Seq(Message) /\ u \in Seq(Message) /\ x \in Seq(Message)
        BY <3>4
      <4> HIDE DEF t, u, x
      <4>4. SameLength(y, t, d, u)
        BY <4>1, <4>2, <4>3, SameTail, Zenon
      <4> QED BY <4>4 DEF SameLength, t, u
    <3>6. Len(d) + Len(a.reliable_buf) = k + Len(a.reliable_buf)
      BY <1>2, <2>1 DEF InStep
    <3> QED BY <3>5, <3>6
  <2> HIDE DEF net2
  <2> QED BY <1>1, <1>7, <2>2, <2>3, <2>4 DEF InStep
<1>14. e.incoming_reliable_sequence > r =>
          e.incoming_reliable_sequence = r + 1 /\ a.reliable_buf # <<>>
  BY <1>1, <1>7
<1>15. k <= Len(y)
  BY <1>10, <1>11 DEF Direction
<1>16. Direction(a, e, net2, toB, w, y, k, on, ok)
  <2> HIDE DEF net2
  <2> QED BY <1>12, <1>13, <1>14, <1>15 DEF Direction
<1> QED BY <1>7, <1>10, <1>11, <1>16 DEF GoesOn, e, y
-----------------------------------------------------------------------------
(* Netchan_Transmit. *)

SentChannel(a, expired, payload) ==
    IF payload = "none" THEN AfterReliable(WithAllowed(a, expired))
                        ELSE Counted(AfterReliable(WithAllowed(a, expired)))

SentTo(s, a, expired, payload) ==
    (s \cup ReliablePackets(WithAllowed(a, expired)))
      \cup IF payload = "none" THEN {}
           ELSE {Datagram(WithAllowed(a, expired), payload = "final")}

\* Netchan_Transmit changes the channel of one end and what is under way to the other.
LEMMA SentForm ==
    ASSUME NEW l, NEW x, NEW expired, NEW payload,
           Peer[x] \in DOMAIN l.net
    PROVE  Sent(l, x, expired, payload)
              = [chan |-> [l.chan EXCEPT ![x] = SentChannel(l.chan[x], expired, payload)],
                 net |-> [l.net EXCEPT ![Peer[x]] =
                             SentTo(l.net[Peer[x]], l.chan[x], expired, payload)]]
BY DEF Sent, SentChannel, SentTo

\* the reader's half of the fields, which no transmit touches
SameReading(c, a) ==
    /\ c.incoming_reliable_sequence = a.incoming_reliable_sequence
    /\ c.in_fragment = a.in_fragment

\* Netchan_Transmit: an empty reliable_buf takes over message.
LEMMA ReadyFields ==
    ASSUME NEW c \in Channel
    PROVE  /\ Ready(c) \in Channel /\ SameReading(Ready(c), c)
           /\ Ready(c).reliable_sequence = c.reliable_sequence
           /\ Ready(c).maxsize = c.maxsize
           /\ \/ Ready(c) = c
              \/ /\ c.reliable_buf = <<>> /\ c.message # <<>>
                 /\ Ready(c).reliable_buf = c.message /\ Ready(c).reliable_start = 0
                 /\ Ready(c).message = <<>>
<1>1. CASE Ready(c) = c
  BY <1>1 DEF SameReading
<1>2. CASE c.reliable_buf = <<>> /\ c.message # <<>>
           /\ Ready(c) = [c EXCEPT !.reliable_buf = c.message, !.reliable_start = 0,
                                   !.message = <<>>]
  <2> DEFINE e == Ready(c)
  <2>1. <<>> \in Seq(Message) /\ c.message \in Seq(Message) /\ 0 \in Nat
    BY EmptySeq DEF Channel
  <2>2. e = [c EXCEPT !.reliable_buf = c.message, !.reliable_start = 0, !.message = <<>>]
    BY <1>2
  <2> HIDE DEF e
  <2>3. e \in Channel
    BY <2>1, <2>2 DEF Channel
  <2>4. /\ SameReading(e, c) /\ e.reliable_sequence = c.reliable_sequence
        /\ e.maxsize = c.maxsize
        /\ e.reliable_buf = c.message /\ e.reliable_start = 0 /\ e.message = <<>>
    BY <2>2 DEF Channel, SameReading
  <2> QED BY <1>2, <2>3, <2>4 DEF e
<1> QED BY <1>1, <1>2 DEF Ready, Load

\* A chunk that is sent is a chunk of something.
LEMMA SendsNonEmpty ==
    ASSUME NEW c \in Channel, SendsChunk(c)
    PROVE  Ready(c).reliable_buf # <<>>
<1>1. Ready(c).reliable_start \in Nat /\ Left(Ready(c)) > 0
  BY ReadyFields DEF Channel, SendsChunk
<1>2. Len(<<>>) = 0
  BY EmptySeq
<1> QED BY <1>1, <1>2 DEF Left

\* One end transmits: the writer's direction goes on, ...
WritesOn(a, b, toA, toB, c, nt, w, d, k, on, ok) ==
    /\ c \in Channel /\ SameReading(c, a) /\ c.maxsize = a.maxsize
    /\ nt \in SUBSET Packet
    /\ Direction(c, b, toA, nt, w, d, k, on, ok)

\* Netchan_Transmit, seen from the direction it writes.
LEMMA WriterSends ==
    ASSUME NEW a \in Channel, NEW b \in Channel,
           NEW toA \in SUBSET Packet, NEW toB \in SUBSET Packet,
           NEW w \in Seq(Message), NEW d \in Seq(Message), NEW k \in Nat,
           NEW on \in BOOLEAN, NEW ok \in BOOLEAN,
           NEW expired \in BOOLEAN, NEW payload \in Payload,
           Direction(a, b, toA, toB, w, d, k, on, ok)
    PROVE  WritesOn(a, b, toA, toB, SentChannel(a, expired, payload),
                    SentTo(toB, a, expired, payload), w, d, k, on, ok)
<1> DEFINE c == WithAllowed(a, expired)
           e == Ready(c)
           g == AfterReliable(c)
           h == SentChannel(a, expired, payload)
           net1 == toB \cup ReliablePackets(c)
           net2 == SentTo(toB, a, expired, payload)
<1>1. c \in Channel /\ SameWriting(c, a) /\ SameReading(c, a)
  BY DEF WithAllowed, Channel, SameWriting, SameReading
<1>2. Direction(c, b, toA, toB, w, d, k, on, ok)
  BY <1>1, OthersKeep
<1> HIDE DEF c
<1>3. /\ e \in Channel /\ SameReading(e, c) /\ e.maxsize = a.maxsize
      /\ Direction(e, b, toA, toB, w, d, k, on, ok)
  <2>1. /\ e \in Channel /\ SameReading(e, c)
        /\ e.reliable_sequence = c.reliable_sequence /\ e.maxsize = c.maxsize
        /\ \/ e = c
           \/ /\ c.reliable_buf = <<>> /\ c.message # <<>>
              /\ e.reliable_buf = c.message /\ e.reliable_start = 0 /\ e.message = <<>>
    BY <1>1, ReadyFields
  <2> HIDE DEF e
  <2>2. e.maxsize = a.maxsize
    BY <1>1, <2>1 DEF SameWriting
  <2>3. CASE e = c
    BY <1>2, <2>1, <2>2, <2>3
  <2>4. CASE e # c
    <3>1. Loaded(c, e)
      BY <2>1, <2>4 DEF Loaded
    <3>2. Direction(e, b, toA, toB, w, d, k, on, ok)
      BY <1>1, <1>2, <2>1, <3>1, LoadKeeps
    <3> QED BY <2>1, <2>2, <3>2
  <2> QED BY <2>3, <2>4
<1>4. /\ net1 \in SUBSET Packet
      /\ Direction(e, b, toA, net1, w, d, k, on, ok)
  <2>1. CASE SendsChunk(c)
    <3>1. net1 = toB \cup {Chunk(e)} /\ e.reliable_buf # <<>>
      BY <1>1, <2>1, SendsNonEmpty DEF ReliablePackets
    <3>2. Held(e)
      BY <1>3 DEF Direction
    <3> HIDE DEF e, net1
    <3>3. Chunk(e) \in Packet
      BY <1>3, <3>1, <3>2, ChunkAndAdvance DEF Packet
    <3> QED BY <1>3, <3>1, <3>3, ChunkKeeps
  <2>2. CASE ~SendsChunk(c)
    <3>1. net1 = toB
      BY <2>2 DEF ReliablePackets
    <3> QED BY <1>3, <3>1
  <2> QED BY <2>1, <2>2
<1>5. g \in Channel /\ SameWriting(g, e) /\ SameReading(g, e)
  <2>1. g = [e EXCEPT !.nqreliable_allowed = e.nqreliable_allowed /\ ~SendsChunk(c)]
    BY DEF AfterReliable
  <2>2. (e.nqreliable_allowed /\ ~SendsChunk(c)) \in BOOLEAN
    OBVIOUS
  <2> HIDE DEF e, g
  <2> QED BY <1>3, <2>1, <2>2 DEF Channel, SameWriting, SameReading
<1>6. h \in Channel /\ SameWriting(h, g) /\ SameReading(h, g)
  <2>1. h = g \/ h = [g EXCEPT !.outgoing_unreliable = g.outgoing_unreliable + 1]
    BY DEF SentChannel, Counted, c
  <2> HIDE DEF g, h
  <2>2. g.outgoing_unreliable + 1 \in Nat
    <3>1. g \in Channel
      BY <1>5
    <3>2. g.outgoing_unreliable \in Nat
      BY <3>1 DEF Channel
    <3> QED BY <3>2
  <2>3. CASE h = g
    BY <1>5, <2>3 DEF SameWriting, SameReading
  <2>4. CASE h = [g EXCEPT !.outgoing_unreliable = g.outgoing_unreliable + 1]
    BY <1>5, <2>2, <2>4 DEF Channel, SameWriting, SameReading
  <2> QED BY <2>1, <2>3, <2>4
<1>7. net2 \in SUBSET Packet /\ Data(net2) = Data(net1)
  <2>1. net2 = net1 \/ net2 = net1 \cup {Datagram(c, payload = "final")}
    BY DEF SentTo, c
  <2>2. Datagram(c, payload = "final").type # "data"
        /\ Datagram(c, payload = "final") \in Packet
    BY <1>1 DEF Datagram, Packet, UnreliablePacket, Channel
  <2> HIDE DEF net1, net2
  <2> QED BY <1>4, <2>1, <2>2 DEF Data
<1> HIDE DEF e, g, h, net1, net2
<1>8. SameWriting(h, e) /\ SameReading(h, a) /\ h.maxsize = a.maxsize
  BY <1>1, <1>3, <1>5, <1>6 DEF SameWriting, SameReading
<1>9. Direction(h, b, toA, net2, w, d, k, on, ok)
  BY <1>3, <1>4, <1>6, <1>7, <1>8, OthersKeep
<1> QED BY <1>6, <1>7, <1>8, <1>9 DEF WritesOn, h, net2

\* ... and the reader's does not notice.
LEMMA ReaderSends ==
    ASSUME NEW a \in Channel, NEW b \in Channel, NEW e \in Channel,
           NEW toA \in SUBSET Packet, NEW toB \in SUBSET Packet,
           NEW w, NEW d, NEW k, NEW on \in BOOLEAN, NEW ok \in BOOLEAN,
           NEW expired, NEW payload,
           Direction(a, b, toA, toB, w, d, k, on, ok), SameReading(e, b)
    PROVE  Direction(a, e, SentTo(toA, b, expired, payload), toB, w, d, k, on, ok)
<1>1. \A p \in SentTo(toA, b, expired, payload) : p.type = "ack" => p \in toA
  BY DEF SentTo, ReliablePackets, Chunk, Datagram
<1>2. SameWriting(a, a)
  BY DEF SameWriting
<1>3. e.incoming_reliable_sequence = b.incoming_reliable_sequence
      /\ e.in_fragment = b.in_fragment
  BY DEF SameReading
<1> QED BY <1>1, <1>2, <1>3, OthersKeep
-----------------------------------------------------------------------------
(* Both directions at once, of a wire l with both channels. *)
Ends == {l \in [chan: [End -> Channel], net: [End -> SUBSET Packet]] :
            \A e \in End : l.chan[e].maxsize = MaxMessage[e]}

Sound(l, w, d, k, on, ok) ==
    /\ l \in Ends
    /\ w \in [End -> Seq(Message)] /\ d \in [End -> Seq(Message)]
    /\ k \in [End -> Nat] /\ on \in [End -> BOOLEAN] /\ ok \in [End -> BOOLEAN]
    /\ \A e \in End : Direction(l.chan[e], l.chan[Peer[e]], l.net[e], l.net[Peer[e]],
                                w[e], d[Peer[e]], k[e], on[e], ok[e])

\* There are two ends, each the other's peer.
LEMMA TwoEnds ==
    /\ "client" \in End /\ "server" \in End
    /\ \A e \in End : Peer[e] \in End /\ Peer[e] # e /\ Peer[Peer[e]] = e
    /\ \A e, x \in End : e # x => e = Peer[x]
BY DEF End, Peer

\* What Sound says of one end.
Typed(l, w, d, k, on, ok, e) ==
    /\ l.chan[e] \in Channel /\ l.net[e] \in SUBSET Packet
    /\ l.chan[e].maxsize = MaxMessage[e]
    /\ w[e] \in Seq(Message) /\ d[e] \in Seq(Message) /\ k[e] \in Nat
    /\ on[e] \in BOOLEAN /\ ok[e] \in BOOLEAN

Runs(l, w, d, k, on, ok, e) ==
    Direction(l.chan[e], l.chan[Peer[e]], l.net[e], l.net[Peer[e]],
              w[e], d[Peer[e]], k[e], on[e], ok[e])

\* Both directions of a sound link are sound.
LEMMA SoundEnds ==
    ASSUME NEW l, NEW w, NEW d, NEW k, NEW on, NEW ok, Sound(l, w, d, k, on, ok), NEW e \in End
    PROVE  /\ Typed(l, w, d, k, on, ok, e) /\ Typed(l, w, d, k, on, ok, Peer[e])
           /\ Runs(l, w, d, k, on, ok, e) /\ Runs(l, w, d, k, on, ok, Peer[e])
           /\ Peer[Peer[e]] = e
<1>1. Peer[e] \in End /\ Peer[Peer[e]] = e
  BY TwoEnds
<1>2. Typed(l, w, d, k, on, ok, e) /\ Typed(l, w, d, k, on, ok, Peer[e])
  BY <1>1 DEF Typed, Sound, Ends
<1>3. Runs(l, w, d, k, on, ok, e) /\ Runs(l, w, d, k, on, ok, Peer[e])
  BY <1>1 DEF Sound, Runs
<1> QED BY <1>1, <1>2, <1>3

\* Something happens at end x: its channel becomes c, the packets sent to its peer nt,
\* what it wrote, was given and knows received v, y and m.
LEMMA EndChanges ==
    ASSUME NEW l, NEW w, NEW d, NEW k, NEW on, NEW ok, Sound(l, w, d, k, on, ok),
           NEW x \in End, NEW c \in Channel, c.maxsize = l.chan[x].maxsize,
           NEW nt \in SUBSET Packet,
           NEW v \in Seq(Message), NEW y \in Seq(Message), NEW m \in Nat,
           Direction(c, l.chan[Peer[x]], l.net[x], nt, v, d[Peer[x]], m, on[x], ok[x]),
           Direction(l.chan[Peer[x]], c, nt, l.net[x], w[Peer[x]], y, k[Peer[x]], on[Peer[x]],
                     ok[Peer[x]])
    PROVE  Sound([chan |-> [l.chan EXCEPT ![x] = c], net |-> [l.net EXCEPT ![Peer[x]] = nt]],
                 [w EXCEPT ![x] = v], [d EXCEPT ![x] = y], [k EXCEPT ![x] = m], on, ok)
<1> DEFINE ch == [l.chan EXCEPT ![x] = c]
           n2 == [l.net EXCEPT ![Peer[x]] = nt]
           w2 == [w EXCEPT ![x] = v]
           d2 == [d EXCEPT ![x] = y]
           k2 == [k EXCEPT ![x] = m]
           f == Peer[x]
<1>1. f \in End /\ f # x /\ Peer[f] = x /\ \A e \in End : e = x \/ e = f
  BY TwoEnds
<1>2. /\ l.chan \in [End -> Channel] /\ l.net \in [End -> SUBSET Packet]
      /\ w \in [End -> Seq(Message)] /\ d \in [End -> Seq(Message)]
      /\ k \in [End -> Nat] /\ on \in [End -> BOOLEAN] /\ ok \in [End -> BOOLEAN]
      /\ \A e \in End : l.chan[e].maxsize = MaxMessage[e]
  BY DEF Sound, Ends
<1>3. /\ ch \in [End -> Channel] /\ ch[x] = c /\ ch[f] = l.chan[f]
      /\ n2 \in [End -> SUBSET Packet] /\ n2[f] = nt /\ n2[x] = l.net[x]
      /\ w2 \in [End -> Seq(Message)] /\ w2[x] = v /\ w2[f] = w[f]
      /\ d2 \in [End -> Seq(Message)] /\ d2[x] = y /\ d2[f] = d[f]
      /\ k2 \in [End -> Nat] /\ k2[x] = m /\ k2[f] = k[f]
  BY <1>1, <1>2
<1>4. /\ Direction(c, l.chan[f], l.net[x], nt, v, d[f], m, on[x], ok[x])
      /\ Direction(l.chan[f], c, nt, l.net[x], w[f], y, k[f], on[f], ok[f])
  OBVIOUS
<1>5. Peer[x] = f
  OBVIOUS
<1> HIDE DEF ch, n2, w2, d2, k2, f
<1>6. [chan |-> ch, net |-> n2] \in Ends
  <2>1. \A e \in End : ch[e].maxsize = MaxMessage[e]
    BY <1>1, <1>2, <1>3
  <2> QED BY <1>3, <2>1 DEF Ends
<1>7. ASSUME NEW e \in End
      PROVE  Direction(ch[e], ch[Peer[e]], n2[e], n2[Peer[e]], w2[e], d2[Peer[e]], k2[e], on[e],
                       ok[e])
  <2>1. CASE e = x
    BY <1>3, <1>4, <1>5, <2>1
  <2>2. CASE e = f
    BY <1>1, <1>3, <1>4, <2>2
  <2> QED BY <1>1, <2>1, <2>2
<1>8. Sound([chan |-> ch, net |-> n2], w2, d2, k2, on, ok)
  BY <1>2, <1>3, <1>6, <1>7 DEF Sound
<1> QED BY <1>8 DEF ch, n2, w2, d2, k2, f

\* Something happens that only concerns the channel of x and what it sends.
LEMMA ChannelChanges ==
    ASSUME NEW l, NEW w, NEW d, NEW k, NEW on, NEW ok, Sound(l, w, d, k, on, ok),
           NEW x \in End, NEW c \in Channel, c.maxsize = l.chan[x].maxsize,
           NEW nt \in SUBSET Packet,
           Direction(c, l.chan[Peer[x]], l.net[x], nt, w[x], d[Peer[x]], k[x], on[x], ok[x]),
           Direction(l.chan[Peer[x]], c, nt, l.net[x], w[Peer[x]], d[x], k[Peer[x]], on[Peer[x]],
                     ok[Peer[x]])
    PROVE  Sound([chan |-> [l.chan EXCEPT ![x] = c], net |-> [l.net EXCEPT ![Peer[x]] = nt]],
                 w, d, k, on, ok)
<1>1. w[x] \in Seq(Message) /\ d[x] \in Seq(Message) /\ k[x] \in Nat
  BY SoundEnds DEF Typed
<1>2. Sound([chan |-> [l.chan EXCEPT ![x] = c], net |-> [l.net EXCEPT ![Peer[x]] = nt]],
            [w EXCEPT ![x] = w[x]], [d EXCEPT ![x] = d[x]], [k EXCEPT ![x] = k[x]], on, ok)
  BY <1>1, EndChanges
<1>3. [w EXCEPT ![x] = w[x]] = w /\ [d EXCEPT ![x] = d[x]] = d /\ [k EXCEPT ![x] = k[x]] = k
  BY DEF Sound
<1> QED BY <1>2, <1>3

\* Fields that neither direction speaks of.
LEMMA LocalKeeps ==
    ASSUME NEW l, NEW w, NEW d, NEW k, NEW on, NEW ok, Sound(l, w, d, k, on, ok),
           NEW x \in End, NEW c \in Channel,
           SameWriting(c, l.chan[x]), SameReading(c, l.chan[x])
    PROVE  Sound([chan |-> [l.chan EXCEPT ![x] = c], net |-> l.net], w, d, k, on, ok)
<1> DEFINE a == l.chan[x]
           b == l.chan[Peer[x]]
           toA == l.net[x]
           toB == l.net[Peer[x]]
<1>1. /\ a \in Channel /\ b \in Channel /\ toA \in SUBSET Packet /\ toB \in SUBSET Packet
      /\ on[x] \in BOOLEAN /\ on[Peer[x]] \in BOOLEAN
      /\ ok[x] \in BOOLEAN /\ ok[Peer[x]] \in BOOLEAN
  BY SoundEnds DEF Typed
<1>2. /\ Direction(a, b, toA, toB, w[x], d[Peer[x]], k[x], on[x], ok[x])
      /\ Direction(b, a, toB, toA, w[Peer[x]], d[x], k[Peer[x]], on[Peer[x]], ok[Peer[x]])
  BY SoundEnds DEF Runs
<1>3. SameWriting(c, a) /\ SameWriting(b, b)
      /\ c.incoming_reliable_sequence = a.incoming_reliable_sequence
      /\ c.in_fragment = a.in_fragment /\ c.maxsize = l.chan[x].maxsize
  BY DEF SameWriting, SameReading
<1>4. [l.net EXCEPT ![Peer[x]] = toB] = l.net
  BY DEF Sound, Ends
<1> HIDE DEF a, b, toA, toB
<1>5. Direction(c, b, toA, toB, w[x], d[Peer[x]], k[x], on[x], ok[x])
  BY <1>1, <1>2, <1>3, OthersKeep
<1>6. Direction(b, c, toB, toA, w[Peer[x]], d[x], k[Peer[x]], on[Peer[x]], ok[Peer[x]])
  BY <1>1, <1>2, <1>3, OthersKeep
<1>7. Sound([chan |-> [l.chan EXCEPT ![x] = c], net |-> [l.net EXCEPT ![Peer[x]] = toB]],
            w, d, k, on, ok)
  BY <1>1, <1>3, <1>5, <1>6, ChannelChanges DEF b, toA
<1> QED BY <1>4, <1>7

\* An end hangs up.
LEMMA HangUpKeeps ==
    ASSUME NEW l, NEW w, NEW d, NEW k, NEW on, NEW ok, Sound(l, w, d, k, on, ok),
           NEW still \in [End -> BOOLEAN], \A e \in End : still[e] => on[e]
    PROVE  Sound(l, w, d, k, still, ok)
<1>1. ASSUME NEW e \in End PROVE Runs(l, w, d, k, still, ok, e)
  <2> DEFINE a == l.chan[e]
             b == l.chan[Peer[e]]
  <2>1. /\ a \in Channel /\ b \in Channel /\ on[e] \in BOOLEAN /\ still[e] \in BOOLEAN
        /\ ok[e] \in BOOLEAN
        /\ Direction(a, b, l.net[e], l.net[Peer[e]], w[e], d[Peer[e]], k[e], on[e], ok[e])
        /\ SameWriting(a, a)
    BY SoundEnds DEF Typed, Runs, SameWriting
  <2> HIDE DEF a, b
  <2>2. Direction(a, b, l.net[e], l.net[Peer[e]], w[e], d[Peer[e]], k[e], still[e], ok[e])
    BY <2>1, OthersKeep
  <2> QED BY <2>2 DEF Runs, a, b
<1> QED BY <1>1 DEF Sound, Runs

\* Nothing more is said of a direction.
LEMMA BreakKeeps ==
    ASSUME NEW l, NEW w, NEW d, NEW k, NEW on, NEW ok, Sound(l, w, d, k, on, ok),
           NEW whole \in [End -> BOOLEAN], \A e \in End : whole[e] => ok[e]
    PROVE  Sound(l, w, d, k, on, whole)
<1>1. ASSUME NEW e \in End PROVE Runs(l, w, d, k, on, whole, e)
  <2>1. Runs(l, w, d, k, on, ok, e)
    BY SoundEnds
  <2> QED BY <2>1 DEF Runs, Direction
<1> QED BY <1>1 DEF Sound, Runs

\* End x calls Netchan_Transmit.
LEMMA SentKeeps ==
    ASSUME NEW l, NEW w, NEW d, NEW k, NEW on, NEW ok, Sound(l, w, d, k, on, ok),
           NEW x \in End, NEW expired \in BOOLEAN, NEW payload \in Payload
    PROVE  Sound(Sent(l, x, expired, payload), w, d, k, on, ok)
<1> DEFINE a == l.chan[x]
           b == l.chan[Peer[x]]
           toA == l.net[x]
           toB == l.net[Peer[x]]
           c == SentChannel(a, expired, payload)
           nt == SentTo(toB, a, expired, payload)
<1>1. /\ a \in Channel /\ b \in Channel /\ toA \in SUBSET Packet /\ toB \in SUBSET Packet
      /\ on[x] \in BOOLEAN /\ on[Peer[x]] \in BOOLEAN
      /\ ok[x] \in BOOLEAN /\ ok[Peer[x]] \in BOOLEAN
      /\ w[x] \in Seq(Message) /\ d[Peer[x]] \in Seq(Message) /\ k[x] \in Nat
  BY SoundEnds DEF Typed
<1>2. /\ Direction(a, b, toA, toB, w[x], d[Peer[x]], k[x], on[x], ok[x])
      /\ Direction(b, a, toB, toA, w[Peer[x]], d[x], k[Peer[x]], on[Peer[x]], ok[Peer[x]])
  BY SoundEnds DEF Runs
<1>3. Sent(l, x, expired, payload)
         = [chan |-> [l.chan EXCEPT ![x] = c], net |-> [l.net EXCEPT ![Peer[x]] = nt]]
  <2>1. Peer[x] \in DOMAIN l.net
    BY TwoEnds DEF Sound, Ends
  <2> QED BY <2>1, SentForm
<1> HIDE DEF a, b, toA, toB
<1>4. /\ c \in Channel /\ SameReading(c, a) /\ c.maxsize = a.maxsize /\ nt \in SUBSET Packet
      /\ Direction(c, b, toA, nt, w[x], d[Peer[x]], k[x], on[x], ok[x])
  <2>1. WritesOn(a, b, toA, toB, c, nt, w[x], d[Peer[x]], k[x], on[x], ok[x])
    <3> DEFINE u == w[x]
               v == d[Peer[x]]
               j == k[x]
               here == on[x]
               fine == ok[x]
    <3>1. /\ a \in Channel /\ b \in Channel /\ toA \in SUBSET Packet /\ toB \in SUBSET Packet
          /\ u \in Seq(Message) /\ v \in Seq(Message) /\ j \in Nat
          /\ here \in BOOLEAN /\ fine \in BOOLEAN
          /\ Direction(a, b, toA, toB, u, v, j, here, fine)
      BY <1>1, <1>2
    <3> HIDE DEF u, v, j, here, fine
    <3>2. WritesOn(a, b, toA, toB, SentChannel(a, expired, payload),
                   SentTo(toB, a, expired, payload), u, v, j, here, fine)
      BY <3>1, WriterSends, SMTT(40)
    <3> QED BY <3>2 DEF u, v, j, here, fine
  <2> QED BY <2>1 DEF WritesOn
<1>5. Direction(b, c, nt, toA, w[Peer[x]], d[x], k[Peer[x]], on[Peer[x]], ok[Peer[x]])
  BY <1>1, <1>2, <1>4, ReaderSends
<1> HIDE DEF c, nt
<1>6. Sound([chan |-> [l.chan EXCEPT ![x] = c], net |-> [l.net EXCEPT ![Peer[x]] = nt]],
            w, d, k, on, ok)
  BY <1>4, <1>5, ChannelChanges DEF a, b, toA
<1> QED BY <1>3, <1>6

\* A change of x's channel alone.
LEMMA OneChannel ==
    ASSUME NEW l \in Ends, NEW x \in End, NEW c
    PROVE     [chan |-> [l.chan EXCEPT ![x] = c],
               net |-> [l.net EXCEPT ![Peer[x]] = l.net[Peer[x]]]]
                 = [chan |-> [l.chan EXCEPT ![x] = c], net |-> l.net]
BY DEF Ends

\* An end that has hung up takes the chunk in hand for arrived.
LEMMA HungUpAdvances ==
    ASSUME NEW l, NEW w, NEW d, NEW k, NEW on, NEW ok, Sound(l, w, d, k, on, ok),
           NEW x \in End, ~on[x], l.chan[x].reliable_buf # <<>>
    PROVE  Sound([l EXCEPT !.chan[x] = Advance(l.chan[x])], w, d, k, on, ok)
<1> DEFINE a == l.chan[x]
           b == l.chan[Peer[x]]
           toA == l.net[x]
           toB == l.net[Peer[x]]
           c == Advance(a)
           here == on[x]
           there == on[Peer[x]]
           fine == ok[x]
           fineThere == ok[Peer[x]]
<1>1. /\ a \in Channel /\ b \in Channel /\ toA \in SUBSET Packet /\ toB \in SUBSET Packet
      /\ here \in BOOLEAN /\ there \in BOOLEAN
      /\ fine \in BOOLEAN /\ fineThere \in BOOLEAN /\ ~here /\ a.reliable_buf # <<>>
      /\ d[Peer[x]] \in Seq(Message) /\ k[x] \in Nat
  BY SoundEnds DEF Typed
<1>2. /\ Direction(a, b, toA, toB, w[x], d[Peer[x]], k[x], here, fine)
      /\ Direction(b, a, toB, toA, w[Peer[x]], d[x], k[Peer[x]], there, fineThere)
  BY SoundEnds DEF Runs
<1> HIDE DEF a, b, toA, toB, here, there, fine, fineThere
<1>3. c \in Channel /\ SameReading(c, a) /\ c.maxsize = a.maxsize
  BY <1>1, AdvanceFields DEF SameReading
<1>4. Direction(c, b, toA, toB, w[x], d[Peer[x]], k[x], here, fine)
  BY <1>1, <1>2, WriterAdvances
<1> HIDE DEF c
<1>5. Direction(b, c, toB, toA, w[Peer[x]], d[x], k[Peer[x]], there, fineThere)
  <2>1. SameWriting(b, b) /\ \A p \in toB : p.type = "ack" => p \in toB
    BY DEF SameWriting
  <2> QED BY <1>1, <1>2, <1>3, <2>1, OthersKeep DEF SameReading
<1>6. Sound([chan |-> [l.chan EXCEPT ![x] = c], net |-> [l.net EXCEPT ![Peer[x]] = toB]],
            w, d, k, on, ok)
  BY <1>1, <1>3, <1>4, <1>5, ChannelChanges DEF a, b, toA, here, there, fine, fineThere
<1>7. [chan |-> [l.chan EXCEPT ![x] = c], net |-> [l.net EXCEPT ![Peer[x]] = toB]]
         = [l EXCEPT !.chan[x] = c]
  <2>1. l \in Ends
    BY DEF Sound
  <2>2. toB = l.net[Peer[x]]
    BY DEF toB
  <2> HIDE DEF toB
  <2>3. [l EXCEPT !.chan[x] = c] = [chan |-> [l.chan EXCEPT ![x] = c], net |-> l.net]
    BY <2>1 DEF Ends
  <2>4. [chan |-> [l.chan EXCEPT ![x] = c], net |-> [l.net EXCEPT ![Peer[x]] = toB]]
           = [chan |-> [l.chan EXCEPT ![x] = c], net |-> l.net]
    BY <2>1, <2>2, OneChannel, Zenon
  <2> QED BY <2>3, <2>4
<1> QED BY <1>6, <1>7 DEF c, a

\* SV_DropClient pushes a chunk out.
LEMMA PushedKeeps ==
    ASSUME NEW l, NEW w, NEW d, NEW k, NEW on, NEW ok, Sound(l, w, d, k, on, ok), ~on["server"]
    PROVE  Sound(Pushed(l), w, d, k, on, ok)
<1> DEFINE a == l.chan["server"]
           s == Sent(l, "server", FALSE, "none")
<1>1. CASE SendsChunk(a)
  <2>1. "server" \in End /\ FALSE \in BOOLEAN /\ "none" \in Payload
    BY TwoEnds DEF Payload
  <2>2. Sound(s, w, d, k, on, ok)
    BY <2>1, SentKeeps
  <2>3. s.chan["server"].reliable_buf # <<>>
    <3>1. a \in Channel
      BY <2>1, SoundEnds DEF Typed
    <3>2. WithAllowed(a, FALSE) = a
      BY <3>1 DEF WithAllowed, Channel
    <3>3. s.chan["server"] = AfterReliable(a)
      <4>1. "server" \in DOMAIN l.chan
        BY <2>1 DEF Sound, Ends
      <4> QED BY <3>2, <4>1 DEF Sent
    <3>4. Ready(a).reliable_buf # <<>> /\ Ready(a) \in Channel
      BY <1>1, <3>1, SendsNonEmpty, ReadyFields
    <3>5. AfterReliable(a).reliable_buf = Ready(a).reliable_buf
      BY <3>4 DEF AfterReliable, Channel
    <3> QED BY <3>3, <3>4, <3>5
  <2>4. Pushed(l) = [s EXCEPT !.chan["server"] = Advance(s.chan["server"])]
    BY <1>1, <2>1, <2>2 DEF Pushed, Sound, Ends
  <2> HIDE DEF s
  <2>5. Sound([s EXCEPT !.chan["server"] = Advance(s.chan["server"])], w, d, k, on, ok)
    BY <2>1, <2>2, <2>3, HungUpAdvances
  <2> QED BY <2>4, <2>5
<1>2. CASE ~SendsChunk(a)
  BY <1>2 DEF Pushed
<1> QED BY <1>1, <1>2

\* The rounds of SV_DropClient, any number of them.
LEMMA FlushedKeeps ==
    ASSUME NEW l, NEW w, NEW d, NEW k, NEW on, NEW ok, Sound(l, w, d, k, on, ok), ~on["server"],
           NEW expired \in BOOLEAN
    PROVE  Sound(Flushed(l, expired), w, d, k, on, ok)
<1> DEFINE rounds == 2 * MaxMessage["server"]
           first == [l EXCEPT !.chan["server"] = WithAllowed(l.chan["server"], expired)]
           S == {r \in Ends : Sound(r, w, d, k, on, ok)}
           IsAfter(g) == g = [i \in 0..rounds |-> IF i = 0 THEN first ELSE Pushed(g[i - 1])]
<1>1. rounds \in Nat /\ rounds \in 0..rounds
  BY BoundsAssumption, TwoEnds
<1>2. first \in S
  <2> DEFINE c == WithAllowed(l.chan["server"], expired)
  <2>1. "server" \in End /\ l.chan["server"] \in Channel /\ l \in Ends
    BY TwoEnds DEF Sound, Ends
  <2>2. c \in Channel /\ SameWriting(c, l.chan["server"]) /\ SameReading(c, l.chan["server"])
    BY <2>1 DEF WithAllowed, Channel, SameWriting, SameReading
  <2>3. first = [chan |-> [l.chan EXCEPT !["server"] = c], net |-> l.net]
    BY <2>1 DEF Ends
  <2> HIDE DEF c, first
  <2>4. Sound(first, w, d, k, on, ok)
    BY <2>1, <2>2, <2>3, LocalKeeps
  <2> QED BY <2>4 DEF Sound
<1>3. ASSUME NEW r \in S PROVE Pushed(r) \in S
  <2>1. Sound(Pushed(r), w, d, k, on, ok)
    BY PushedKeeps
  <2> QED BY <2>1 DEF Sound
<1> HIDE DEF rounds, first, S
<1>4. \E g : IsAfter(g)
  <2> DEFINE D == [z \in (1..rounds) \X S |-> Pushed(z[2])]
  <2>1. D \in [(1..rounds) \X S -> S]
    BY <1>3
  <2>2. PICK g \in [0..rounds -> S] : Recursion(g, rounds, first, D)
    <3> HIDE DEF D
    <3> QED BY <1>1, <1>2, <2>1, RecursionExists, Zenon
  <2>3. \A i \in 1..rounds : D[<<i, g[i - 1]>>] = Pushed(g[i - 1])
    BY <1>1, <2>2
  <2>4. ASSUME NEW i \in 0..rounds
        PROVE  g[i] = IF i = 0 THEN first ELSE Pushed(g[i - 1])
    <3>1. CASE i = 0
      <4>1. g[0] = first
        BY <2>2, Zenon DEF Recursion
      <4> QED BY <3>1, <4>1
    <3>2. CASE i # 0
      <4>1. i \in 1..rounds
        BY <1>1, <3>2
      <4>2. g[i] = D[<<i, g[i - 1]>>]
        BY <2>2, <4>1, Zenon DEF Recursion
      <4> HIDE DEF D
      <4> QED BY <2>3, <3>2, <4>1, <4>2
    <3> QED BY <3>1, <3>2
  <2>5. g = [i \in 0..rounds |-> IF i = 0 THEN first ELSE Pushed(g[i - 1])]
    BY <2>2, <2>4
  <2> QED BY <2>5
<1>5. ASSUME NEW g, IsAfter(g) PROVE g[rounds] \in S
  <2> DEFINE T == {i \in 0..rounds : g[i] \in S}
  <2>1. \A i \in 0..rounds : g[i] = IF i = 0 THEN first ELSE Pushed(g[i - 1])
    BY <1>5
  <2>2. 0 \in T
    BY <1>1, <1>2, <2>1
  <2>3. ASSUME NEW i \in 0..rounds - 1, i \in T PROVE i + 1 \in T
    <3>1. i + 1 \in 0..rounds /\ i + 1 # 0 /\ (i + 1) - 1 = i
      BY <1>1
    <3>2. g[i + 1] = Pushed(g[i])
      BY <2>1, <3>1
    <3> QED BY <1>3, <2>3, <3>1, <3>2
  <2> HIDE DEF T
  <2>4. \A i \in 0..rounds : i \in T
    BY <1>1, <2>2, <2>3, SetInductionUpTo, Zenon
  <2> QED BY <1>1, <2>4 DEF T
<1>6. Flushed(l, expired) \in S
  BY <1>4, <1>5 DEF Flushed, rounds, first
<1> QED BY <1>6 DEF S

\* A client that is dropped, and a client that leaves.
LEMMA ServerFinalKeeps ==
    ASSUME NEW l, NEW w, NEW d, NEW k, NEW on, NEW ok, Sound(l, w, d, k, on, ok),
           NEW expired \in BOOLEAN
    PROVE  Sound(ServerFinal(l, expired), w, d, k, [on EXCEPT !["server"] = FALSE], ok)
<1> DEFINE still == [on EXCEPT !["server"] = FALSE]
<1>1. "server" \in End /\ "final" \in Payload /\ FALSE \in BOOLEAN
  BY TwoEnds DEF Payload
<1>2. still \in [End -> BOOLEAN] /\ (\A e \in End : still[e] => on[e]) /\ ~still["server"]
  BY <1>1 DEF Sound
<1> HIDE DEF still
<1>3. Sound(l, w, d, k, still, ok)
  BY <1>2, HangUpKeeps
<1>4. Sound(Flushed(l, expired), w, d, k, still, ok)
  BY <1>2, <1>3, FlushedKeeps
<1>5. Sound(Sent(Flushed(l, expired), "server", FALSE, "final"), w, d, k, still, ok)
  BY <1>1, <1>4, SentKeeps
<1>6. Sound(ServerFinal(l, expired), w, d, k, still, ok)
  BY <1>1, <1>5, SentKeeps DEF ServerFinal
<1> QED BY <1>6 DEF still

\* CL_Disconnect's farewell.
LEMMA ClientFinalKeeps ==
    ASSUME NEW l, NEW w, NEW d, NEW k, NEW on, NEW ok, Sound(l, w, d, k, on, ok),
           NEW expired \in BOOLEAN
    PROVE  Sound(ClientFinal(l, expired), w, d, k, on, ok)
<1>1. "client" \in End /\ "final" \in Payload /\ FALSE \in BOOLEAN
  BY TwoEnds DEF Payload
<1>2. Sound(Sent(l, "client", expired, "final"), w, d, k, on, ok)
  BY <1>1, SentKeeps
<1>3. Sound(Sent(Sent(l, "client", expired, "final"), "client", FALSE, "final"), w, d, k, on, ok)
  BY <1>1, <1>2, SentKeeps
<1> QED BY <1>1, <1>3, SentKeeps DEF ClientFinal
-----------------------------------------------------------------------------
(* NQNetChan_Process. *)

\* What the reader was given is the beginning of what was written.
LEMMA GivenIsPrefix ==
    ASSUME NEW a \in Channel, NEW b \in Channel,
           NEW toA, NEW toB, NEW w, NEW d, NEW k, NEW on, NEW ok, ok,
           Direction(a, b, toA, toB, w, d, k, on, ok)
    PROVE  Prefix(d, w)
<1> DEFINE i == b.incoming_reliable_sequence
           c == Current(a, b)
<1>1. i \in i..c.reliable_sequence
  <2>1. /\ a.reliable_sequence \in Nat /\ i \in Nat
        /\ i <= a.reliable_sequence => c = a
        /\ i > a.reliable_sequence => c = Advance(a) /\ i = a.reliable_sequence + 1
    BY CurrentFields DEF Direction
  <2> HIDE DEF c, i
  <2>2. CASE i <= a.reliable_sequence
    BY <2>1, <2>2
  <2>3. CASE i > a.reliable_sequence
    BY <2>1, <2>3, AdvanceFields
  <2> QED BY <2>1, <2>2, <2>3
<1>2. PICK H, G : RunOf(H, G, c, i, b.in_fragment, toB, w, d)
  BY DEF Direction, Run
<1> HIDE DEF c, i
<1> QED BY <1>1, <1>2 DEF RunOf

\* A chunk that is not the expected one is only answered.
LEMMA ReaderIgnores ==
    ASSUME NEW a \in Channel, NEW b \in Channel,
           NEW toA \in SUBSET Packet, NEW toB \in SUBSET Packet,
           NEW w \in Seq(Message), NEW d \in Seq(Message), NEW k \in Nat,
           NEW on \in BOOLEAN, NEW ok \in BOOLEAN, Direction(a, b, toA, toB, w, d, k, on, ok),
           NEW p \in Data(toB), ~Expected(b, p)
    PROVE  GoesOn(a, b, AfterData(b, p), Answered(toA, p), toB, w, Given(d, b, p), k, on, ok)
<1>1. AfterData(b, p) = b /\ Given(d, b, p) = d /\ SameWriting(b, b)
  BY DEF AfterData, Completes, SameWriting, Given
<1>2. ASSUME InStep(a, b, toA, d, k) PROVE InStep(a, b, Answered(toA, p), d, k)
  <2>1. /\ p.seq <= a.reliable_sequence /\ p.seq \in Nat
        /\ p.seq # b.incoming_reliable_sequence
    BY DataTyped DEF Direction, ChunksSent, Expected
  <2>2. Answer(p).seq < b.incoming_reliable_sequence
    <3>1. Answer(p).seq = p.seq
      BY DEF Answer
    <3>2. a.reliable_sequence <= b.incoming_reliable_sequence
      BY <1>2 DEF InStep
    <3>3. a.reliable_sequence \in Nat /\ b.incoming_reliable_sequence \in Nat
      BY DEF Channel
    <3> QED BY <2>1, <3>1, <3>2, <3>3
  <2> QED BY <1>2, <2>2 DEF InStep, Answered
<1>3. Direction(a, b, Answered(toA, p), toB, w, d, k, on, ok)
  BY <1>2 DEF Direction
<1> QED BY <1>1, <1>3 DEF GoesOn

\* Of a broken direction nothing is said that its reader could change.
LEMMA ReaderIsLost ==
    ASSUME NEW a \in Channel, NEW b \in Channel,
           NEW toA \in SUBSET Packet, NEW toB \in SUBSET Packet,
           NEW w \in Seq(Message), NEW d \in Seq(Message), NEW k \in Nat,
           NEW on \in BOOLEAN, NEW ok, ~ok, Direction(a, b, toA, toB, w, d, k, on, ok),
           NEW p \in Data(toB)
    PROVE  GoesOn(a, b, AfterData(b, p), Answered(toA, p), toB, w, Given(d, b, p), k, on, ok)
<1>1. p \in DataPacket
  BY DataTyped
<1>2. /\ AfterData(b, p) \in Channel /\ Given(d, b, p) \in Seq(Message)
      /\ SameWriting(AfterData(b, p), b)
  BY <1>1, AfterDataFields, GivenTyped
<1> QED BY <1>2 DEF GoesOn, Direction

\* A chunk arrives at x, which throws it away only if the direction is broken.
LEMMA DataKeeps ==
    ASSUME NEW l, NEW w, NEW d, NEW k, NEW on, NEW ok, Sound(l, w, d, k, on, ok),
           NEW x \in End, NEW p \in Data(l.net[x]),
           ok[Peer[x]] => ~Refuses(l.chan[x], p)
    PROVE  Sound([chan |-> [l.chan EXCEPT ![x] = AfterData(l.chan[x], p)],
                  net |-> [l.net EXCEPT ![Peer[x]] = Answered(l.net[Peer[x]], p)]],
                 w,
                 [d EXCEPT ![x] = Given(d[x], l.chan[x], p)], k, on, ok)
<1> DEFINE b == l.chan[x]
           a == l.chan[Peer[x]]
           toB == l.net[x]
           toA == l.net[Peer[x]]
           e == AfterData(b, p)
           nt == Answered(toA, p)
           y == Given(d[x], b, p)
<1>1. /\ a \in Channel /\ b \in Channel /\ toA \in SUBSET Packet /\ toB \in SUBSET Packet
      /\ on[x] \in BOOLEAN /\ on[Peer[x]] \in BOOLEAN
      /\ ok[x] \in BOOLEAN /\ ok[Peer[x]] \in BOOLEAN
      /\ w[x] \in Seq(Message) /\ w[Peer[x]] \in Seq(Message)
      /\ d[x] \in Seq(Message) /\ d[Peer[x]] \in Seq(Message)
      /\ k[x] \in Nat /\ k[Peer[x]] \in Nat
      /\ p \in Data(toB)
  BY SoundEnds DEF Typed
<1>2. /\ Direction(b, a, toB, toA, w[x], d[Peer[x]], k[x], on[x], ok[x])
      /\ Direction(a, b, toA, toB, w[Peer[x]], d[x], k[Peer[x]], on[Peer[x]], ok[Peer[x]])
  BY SoundEnds DEF Runs
<1> HIDE DEF a, b, toA, toB
<1>3. /\ e \in Channel /\ y \in Seq(Message) /\ SameWriting(e, b)
      /\ Direction(a, e, nt, toB, w[Peer[x]], y, k[Peer[x]], on[Peer[x]], ok[Peer[x]])
  <2>1. GoesOn(a, b, e, nt, toB, w[Peer[x]], y, k[Peer[x]], on[Peer[x]], ok[Peer[x]])
    <3> DEFINE u == w[Peer[x]]
               v == d[x]
               j == k[Peer[x]]
               there == on[Peer[x]]
               fine == ok[Peer[x]]
    <3>1. /\ a \in Channel /\ b \in Channel /\ toA \in SUBSET Packet /\ toB \in SUBSET Packet
          /\ u \in Seq(Message) /\ v \in Seq(Message) /\ j \in Nat /\ there \in BOOLEAN
          /\ fine \in BOOLEAN
          /\ p \in Data(toB) /\ Direction(a, b, toA, toB, u, v, j, there, fine)
          /\ fine => ~Refuses(b, p)
      BY <1>1, <1>2 DEF b
    <3> HIDE DEF u, v, j, there, fine
    <3>2. GoesOn(a, b, AfterData(b, p), Answered(toA, p), toB, u, Given(v, b, p), j, there, fine)
      <4>1. CASE ~fine
        BY <3>1, <4>1, ReaderIsLost, SMTT(40)
      <4>2. CASE ~Expected(b, p)
        BY <3>1, <4>2, ReaderIgnores, SMTT(40)
      <4>3. CASE fine /\ Expected(b, p)
        <5>1. ~TooLong(b, p)
          BY <3>1, <4>3 DEF Refuses
        <5> QED BY <3>1, <4>3, <5>1, ReaderTakes, ZenonT(60)
      <4> QED BY <4>1, <4>2, <4>3
    <3> QED BY <3>2 DEF u, v, j, there, fine
  <2> HIDE DEF e, y, nt
  <2> QED BY <2>1 DEF GoesOn
<1>4. nt \in SUBSET Packet /\ Data(nt) = Data(toA)
  <2>1. Answer(p) \in Packet /\ Answer(p).type # "data"
    BY <1>1, DataTyped DEF Answer, Packet, AckPacket
  <2> QED BY <1>1, <2>1 DEF Data, Answered
<1> HIDE DEF e, y, nt
<1>5. e.maxsize = l.chan[x].maxsize
  BY <1>3 DEF SameWriting, b
<1>6. Direction(e, a, toB, nt, w[x], d[Peer[x]], k[x], on[x], ok[x])
  <2>1. \A q \in toB : q.type = "ack" => q \in toB
    OBVIOUS
  <2> QED BY <1>1, <1>2, <1>3, <1>4, <2>1, OthersKeep
<1>7. Sound([chan |-> [l.chan EXCEPT ![x] = e], net |-> [l.net EXCEPT ![Peer[x]] = nt]],
            [w EXCEPT ![x] = w[x]], [d EXCEPT ![x] = y], [k EXCEPT ![x] = k[x]], on, ok)
  BY <1>1, <1>3, <1>4, <1>5, <1>6, EndChanges DEF a, toB
<1>8. [w EXCEPT ![x] = w[x]] = w /\ [k EXCEPT ![x] = k[x]] = k
  BY DEF Sound
<1> QED BY <1>7, <1>8 DEF e, nt, y, b, toA

\* An acknowledgement of the chunk in hand arrives at x.
LEMMA AckKeeps ==
    ASSUME NEW l, NEW w, NEW d, NEW k, NEW on, NEW ok, Sound(l, w, d, k, on, ok),
           NEW x \in End, on[x],
           NEW p \in l.net[x], p.type = "ack", FreshAck(l.chan[x], p)
    PROVE  Sound([chan |-> [l.chan EXCEPT ![x] = Advance(l.chan[x])], net |-> l.net], w, d,
                 [k EXCEPT ![x] = IF Advance(l.chan[x]).reliable_buf = <<>>
                                  THEN k[x] + Len(l.chan[x].reliable_buf) ELSE k[x]], on, ok)
<1> DEFINE a == l.chan[x]
           b == l.chan[Peer[x]]
           toA == l.net[x]
           toB == l.net[Peer[x]]
           c == Advance(a)
           m == IF c.reliable_buf = <<>> THEN k[x] + Len(a.reliable_buf) ELSE k[x]
           here == on[x]
           there == on[Peer[x]]
           fine == ok[x]
           fineThere == ok[Peer[x]]
<1>1. /\ a \in Channel /\ b \in Channel /\ toA \in SUBSET Packet /\ toB \in SUBSET Packet
      /\ here \in BOOLEAN /\ there \in BOOLEAN
      /\ fine \in BOOLEAN /\ fineThere \in BOOLEAN /\ here
      /\ w[x] \in Seq(Message) /\ d[x] \in Seq(Message)
      /\ d[Peer[x]] \in Seq(Message) /\ k[x] \in Nat
      /\ p \in toA /\ p.seq = a.reliable_sequence
  BY SoundEnds DEF Typed, FreshAck
<1>2. /\ Direction(a, b, toA, toB, w[x], d[Peer[x]], k[x], here, fine)
      /\ Direction(b, a, toB, toA, w[Peer[x]], d[x], k[Peer[x]], there, fineThere)
  BY SoundEnds DEF Runs
<1> HIDE DEF a, b, toA, toB, here, there, fine, fineThere
<1>3. c \in Channel /\ SameReading(c, a) /\ c.maxsize = a.maxsize
  BY <1>1, AdvanceFields DEF SameReading
<1>4. ASSUME fine
      PROVE  a.reliable_buf # <<>> /\ b.incoming_reliable_sequence = a.reliable_sequence + 1
  <2>1. a.reliable_sequence < b.incoming_reliable_sequence
    BY <1>1, <1>2, <1>4 DEF Direction, InStep
  <2>2. a.reliable_sequence \in Nat /\ b.incoming_reliable_sequence \in Nat
    BY <1>1 DEF Channel
  <2> QED BY <1>2, <1>4, <2>1, <2>2 DEF Direction
<1>5. m \in Nat
  <2>1. Len(a.reliable_buf) \in Nat
    BY <1>1, LenProperties DEF Channel
  <2> QED BY <1>1, <2>1
<1>6. m = IF Advance(a).reliable_buf = <<>> THEN k[x] + Len(a.reliable_buf) ELSE k[x]
  OBVIOUS
<1> HIDE DEF m
<1>7. Direction(c, b, toA, toB, w[x], d[Peer[x]], m, here, fine)
  <2> DEFINE u == w[x]
             v == d[Peer[x]]
             j == k[x]
  <2>1. /\ a \in Channel /\ b \in Channel /\ toA \in SUBSET Packet /\ toB \in SUBSET Packet
        /\ v \in Seq(Message) /\ j \in Nat /\ m \in Nat
        /\ here \in BOOLEAN /\ fine \in BOOLEAN
        /\ Direction(a, b, toA, toB, u, v, j, here, fine)
    BY <1>1, <1>2, <1>5
  <2>2. /\ fine => a.reliable_buf # <<>>
        /\ fine /\ here =>
              /\ b.incoming_reliable_sequence = a.reliable_sequence + 1
              /\ m = IF Advance(a).reliable_buf = <<>> THEN j + Len(a.reliable_buf) ELSE j
        /\ fine /\ ~here => m = j
    BY <1>1, <1>4, <1>6
  <2> HIDE DEF c, u, v, j
  <2>3. Direction(Advance(a), b, toA, toB, u, v, m, here, fine)
    BY <2>1, <2>2, WriterAdvances, ZenonT(60)
  <2> QED BY <2>3 DEF c, u, v, j
<1> HIDE DEF c
<1>8. Direction(b, c, toB, toA, w[Peer[x]], d[x], k[Peer[x]], there, fineThere)
  <2>1. SameWriting(b, b) /\ \A q \in toB : q.type = "ack" => q \in toB
    BY DEF SameWriting
  <2> QED BY <1>1, <1>2, <1>3, <2>1, OthersKeep DEF SameReading
<1>9. Sound([chan |-> [l.chan EXCEPT ![x] = c], net |-> [l.net EXCEPT ![Peer[x]] = toB]],
            [w EXCEPT ![x] = w[x]], [d EXCEPT ![x] = d[x]], [k EXCEPT ![x] = m], on, ok)
  BY <1>1, <1>3, <1>5, <1>7, <1>8, EndChanges DEF a, b, toA, here, there, fine, fineThere
<1>10. /\ [w EXCEPT ![x] = w[x]] = w /\ [d EXCEPT ![x] = d[x]] = d
       /\ [l.net EXCEPT ![Peer[x]] = toB] = l.net
  BY DEF Sound, Ends, toB
<1> QED BY <1>9, <1>10 DEF c, m, a
-----------------------------------------------------------------------------
(* The invariant: both directions, at the present state of the ends. *)

\* The last message number is left for the notice of an overflow.
Bounded(o, on) == /\ o \in [End -> Nat]
                   /\ \A e \in End : on[e] => o[e] <= MaxWrites[e]

\* the ends of whose chunks none was refused
Whole == [e \in End |-> e \notin refused]

IInv == /\ Sound(Link, written, delivered, acked, connected, Whole)
        /\ Bounded(offered, connected)
        /\ refused \subseteq TooLarge

\* The code above x's channel writes.
Wrote(l, w, d, k, on, ok, x, c, z) ==
    /\ Sound([chan |-> [l.chan EXCEPT ![x] = c], net |-> l.net],
             [w EXCEPT ![x] = Rewritten(w[x], l.chan[x], z)], d, k, on, ok)
    /\ SubSeq(w[x], 1, Len(w[x]) - Len(l.chan[x].message)) \in Seq(Message)
    /\ Rewritten(w[x], l.chan[x], l.chan[x].message) = w[x]

\* A write into message, or its loss, leaves both directions sound.
LEMMA WriteKeeps ==
    ASSUME NEW l, NEW w, NEW d, NEW k, NEW on, NEW ok, Sound(l, w, d, k, on, ok),
           NEW x \in End, on[x], NEW c \in Channel, NEW z \in Seq(Message),
           SameReading(c, l.chan[x]), WritesTo(c, l.chan[x], z)
    PROVE  Wrote(l, w, d, k, on, ok, x, c, z)
<1> DEFINE a == l.chan[x]
           b == l.chan[Peer[x]]
           toA == l.net[x]
           toB == l.net[Peer[x]]
           u == w[x]
           v == Rewritten(u, a, z)
           here == on[x]
           there == on[Peer[x]]
           fine == ok[x]
           fineThere == ok[Peer[x]]
<1>1. /\ a \in Channel /\ b \in Channel /\ toA \in SUBSET Packet /\ toB \in SUBSET Packet
      /\ here \in BOOLEAN /\ there \in BOOLEAN
      /\ fine \in BOOLEAN /\ fineThere \in BOOLEAN /\ here
      /\ u \in Seq(Message) /\ d[x] \in Seq(Message)
      /\ d[Peer[x]] \in Seq(Message) /\ k[x] \in Nat
      /\ WritesTo(c, a, z) /\ SameReading(c, a)
      /\ c.maxsize = l.chan[x].maxsize
  BY SoundEnds DEF Typed, WritesTo
<1>2. /\ Direction(a, b, toA, toB, u, d[Peer[x]], k[x], here, fine)
      /\ Direction(b, a, toB, toA, w[Peer[x]], d[x], k[Peer[x]], there, fineThere)
  BY SoundEnds DEF Runs
<1> HIDE DEF a, b, toA, toB, u, here, there, fine, fineThere
<1>3. v \in Seq(Message) /\ Direction(c, b, toA, toB, v, d[Peer[x]], k[x], here, fine)
  <2>1. Rewrites(a, b, c, toA, toB, u, z, d[Peer[x]], k[x], here, fine)
    <3> DEFINE y == d[Peer[x]]
               j == k[x]
    <3>1. /\ a \in Channel /\ b \in Channel /\ toA \in SUBSET Packet /\ toB \in SUBSET Packet
          /\ u \in Seq(Message) /\ y \in Seq(Message) /\ j \in Nat
          /\ here \in BOOLEAN /\ fine \in BOOLEAN /\ here
          /\ Direction(a, b, toA, toB, u, y, j, here, fine)
          /\ WritesTo(c, a, z)
      BY <1>1, <1>2
    <3>2. here = TRUE
      BY <3>1
    <3>3. Direction(a, b, toA, toB, u, y, j, TRUE, fine)
      BY <3>1, <3>2
    <3> HIDE DEF y, j
    <3>4. Rewrites(a, b, c, toA, toB, u, z, y, j, TRUE, fine)
      BY <3>1, <3>3, WriterWrites, ZenonT(60)
    <3> QED BY <3>2, <3>4 DEF y, j
  <2> QED BY <2>1 DEF Rewrites
<1> HIDE DEF v
<1>4. Direction(b, c, toB, toA, w[Peer[x]], d[x], k[Peer[x]], there, fineThere)
  <2>1. SameWriting(b, b) /\ \A q \in toB : q.type = "ack" => q \in toB
    BY DEF SameWriting
  <2> QED BY <1>1, <1>2, <2>1, OthersKeep DEF SameReading
<1>5. Sound([chan |-> [l.chan EXCEPT ![x] = c], net |-> [l.net EXCEPT ![Peer[x]] = toB]],
            [w EXCEPT ![x] = v], [d EXCEPT ![x] = d[x]], [k EXCEPT ![x] = k[x]], on, ok)
  BY <1>1, <1>3, <1>4, EndChanges DEF b, toA, here, there, fine, fineThere
<1>6. /\ [d EXCEPT ![x] = d[x]] = d /\ [k EXCEPT ![x] = k[x]] = k
      /\ [l.net EXCEPT ![Peer[x]] = toB] = l.net
  BY DEF Sound, Ends, toB
<1>7. /\ SubSeq(u, 1, Len(u) - Len(a.message)) \in Seq(Message)
      /\ Rewritten(u, a, a.message) = u
  BY <1>1, <1>2, WaitsLast DEF Direction, Rewritten
<1> QED BY <1>5, <1>6, <1>7 DEF Wrote, v, u, a

\* what Netchan_Setup leaves
Fresh(c) ==
    /\ c \in Channel
    /\ c.reliable_sequence = 0 /\ c.incoming_reliable_sequence = 0
    /\ c.reliable_buf = <<>> /\ c.reliable_start = 0
    /\ c.in_fragment = <<>> /\ c.message = <<>>

\* With nothing written a direction is sound.
LEMMA FreshDirection ==
    ASSUME NEW a, NEW b, Fresh(a), Fresh(b)
    PROVE  Direction(a, b, {}, {}, <<>>, <<>>, 0, TRUE, TRUE)
<1>1. /\ Len(<<>>) = 0 /\ <<>> \in Seq(Message) /\ <<>> \o <<>> = <<>>
      /\ SubSeq(<<>>, 1, 0) = <<>>
  BY EmptySeq, ConcatEmptySeq, SubSeqEmpty
<1>2. Current(a, b) = a
  BY DEF Current, Fresh
<1>3. Run(a, 0, <<>>, {}, <<>>, <<>>)
  <2> DEFINE H == [j \in Nat |-> <<>>]
  <2>1. H \in [Nat -> Seq(Message)] /\ \A j \in Nat : H[j] = <<>>
    BY <1>1
  <2>2. \A j \in 0..0 : Prefix(H[j], <<>>)
    BY <1>1, <2>1 DEF Prefix
  <2> HIDE DEF H
  <2>3. RunOf(H, H, a, 0, <<>>, {}, <<>>, <<>>)
    BY <1>1, <2>1, <2>2 DEF RunOf, Data, Fresh
  <2> QED BY <2>3 DEF Run
<1>4. Held(a) /\ Waits(a, <<>>) /\ ChunksSent(a, {}) /\ Stable({})
  <2>1. a.maxsize \in Nat
    BY DEF Fresh, Channel
  <2>2. Held(a)
    BY <1>1, <2>1 DEF Held, Fresh
  <2>3. <<>> = <<>> \o a.message
    BY <1>1 DEF Fresh
  <2> DEFINE z == <<>>
  <2>4. z \in Seq(Message) /\ z = z \o a.message
    BY <1>1, <2>3
  <2> HIDE DEF z
  <2>5. Waits(a, z)
    BY <2>4 DEF Waits
  <2> QED BY <2>2, <2>5 DEF z, ChunksSent, Stable, Data
<1>5. InStep(a, b, {}, <<>>, 0)
  BY <1>1, <1>2 DEF InStep, Fresh
<1> QED BY <1>1, <1>2, <1>3, <1>4, <1>5 DEF Direction, Fresh

\* A new connection is sound.
LEMMA InitInvariant == ASSUME Init PROVE IInv
<1>1. ASSUME NEW e \in End
      PROVE  Fresh(Setup(e)) /\ Setup(e).maxsize = MaxMessage[e]
  <2> DEFINE m == MaxMessage[e]
  <2>1. <<>> \in Seq(Message) /\ m \in Nat \ {0}
    BY EmptySeq, BoundsAssumption
  <2> HIDE DEF m
  <2> QED BY <2>1 DEF Setup, Channel, Fresh, m
<1>2. Link \in Ends
  BY <1>1 DEF Init, Link, Ends, Fresh
<1>3. /\ written \in [End -> Seq(Message)] /\ delivered \in [End -> Seq(Message)]
      /\ acked \in [End -> Nat] /\ connected \in [End -> BOOLEAN]
      /\ Whole \in [End -> BOOLEAN]
  <2>1. <<>> \in Seq(Message)
    BY EmptySeq
  <2> QED BY <2>1 DEF Init, Whole
<1>4. ASSUME NEW e \in End
      PROVE  Direction(Link.chan[e], Link.chan[Peer[e]], Link.net[e], Link.net[Peer[e]],
                       written[e], delivered[Peer[e]], acked[e], connected[e], Whole[e])
  <2>1. Peer[e] \in End
    BY TwoEnds
  <2>2. /\ Link.chan[e] = Setup(e) /\ Link.chan[Peer[e]] = Setup(Peer[e])
        /\ Link.net[e] = {} /\ Link.net[Peer[e]] = {}
        /\ written[e] = <<>> /\ delivered[Peer[e]] = <<>> /\ acked[e] = 0
        /\ connected[e] = TRUE /\ Whole[e] = TRUE
    BY <2>1 DEF Init, Link, Whole
  <2>3. Direction(Setup(e), Setup(Peer[e]), {}, {}, <<>>, <<>>, 0, TRUE, TRUE)
    BY <1>1, <2>1, FreshDirection
  <2> QED BY <2>2, <2>3
<1>5. Bounded(offered, connected) /\ refused \subseteq TooLarge
  BY BoundsAssumption DEF Init, Bounded
<1> QED BY <1>2, <1>3, <1>4, <1>5 DEF IInv, Sound

\* What IInv says of the channel of an end.
LEMMA LinkEnds ==
    ASSUME IInv, NEW x \in End
    PROVE  /\ chan[x] \in Channel /\ net[x] \in SUBSET Packet
           /\ chan[x].maxsize = MaxMessage[x]
           /\ chan \in [End -> Channel] /\ net \in [End -> SUBSET Packet]
           /\ written \in [End -> Seq(Message)] /\ delivered \in [End -> Seq(Message)]
           /\ acked \in [End -> Nat] /\ connected \in [End -> BOOLEAN]
           /\ Link \in Ends /\ Link.chan = chan /\ Link.net = net
<1>1. Sound(Link, written, delivered, acked, connected, Whole) /\ Link.chan = chan /\ Link.net = net
  BY DEF IInv, Link
<1> QED BY <1>1 DEF Sound, Ends

\* The next link is the one the step computes.
LEMMA BecomesThat == ASSUME NEW l \in Ends, Becomes(l) PROVE Link' = l
BY DEF Becomes, Link, Ends

\* A write within the bound, and the notice after it, is a message.
LEMMA IsMessage ==
    ASSUME NEW x \in End, NEW n \in Nat, n <= MaxWrites[x]
    PROVE  n + 1 \in Message
<1>1. MaxWrites["client"] \in Nat /\ MaxWrites["server"] \in Nat
  BY BoundsAssumption, TwoEnds
<1>2. n <= MaxWrites["client"] \/ n <= MaxWrites["server"]
  BY DEF End
<1> QED BY <1>1, <1>2 DEF Message

\* SZ_Write to netchan.message, with its overflow.
LEMMA WriteStep ==
    ASSUME IInv, NEW x \in End, Write(x)
    PROVE  IInv'
<1> DEFINE a == chan[x]
           m == offered[x] + 1
           z == IF Fits(a) THEN Append(a.message, m) ELSE <<m>>
           o == IF Fits(a) THEN a.overflowed ELSE TRUE
           c == [a EXCEPT !.message = z, !.overflowed = o]
           u == SubSeq(written[x], 1, Len(written[x]) - Len(a.message))
           v == Rewritten(written[x], a, z)
<1>1. /\ a \in Channel /\ a.message \in Seq(Message) /\ Len(a.message) \in Nat
      /\ a.overflowed \in BOOLEAN /\ m \in Message
      /\ a.maxsize \in Nat \ {0}
  <2>1. a \in Channel
    BY LinkEnds
  <2>2. a.message \in Seq(Message) /\ a.overflowed \in BOOLEAN /\ a.maxsize \in Nat \ {0}
    BY <2>1 DEF Channel
  <2>3. offered[x] \in Nat /\ offered[x] <= MaxWrites[x]
    BY DEF IInv, Bounded, Write
  <2>4. m \in Message
    BY <2>3, IsMessage
  <2> QED BY <2>1, <2>2, <2>4, LenProperties
<1>2. z \in Seq(Message) /\ Len(z) <= a.maxsize
  <2>1. Append(a.message, m) \in Seq(Message) /\ Len(Append(a.message, m)) = Len(a.message) + 1
    BY <1>1, AppendProperties
  <2>2. <<m>> \in Seq(Message) /\ Len(<<m>>) = 1
    BY <1>1
  <2>3. Fits(a) => Len(a.message) < a.maxsize
    BY DEF Fits
  <2> QED BY <1>1, <2>1, <2>2, <2>3
<1>3. /\ chan' = [chan EXCEPT ![x] = c]
      /\ written' = [written EXCEPT ![x] = IF Fits(a) THEN Append(written[x], m)
                                                     ELSE Append(u, m)]
      /\ offered' = [offered EXCEPT ![x] = m] /\ connected[x]
      /\ UNCHANGED <<net, drop, connected, delivered, acked, refused>>
  <2>1. chan[x] \in Channel /\ chan \in [End -> Channel]
    BY LinkEnds
  <2>2. CASE Fits(a)
    <3>1. /\ chan' = [chan EXCEPT ![x].message = Append(a.message, m)]
          /\ written' = [written EXCEPT ![x] = Append(written[x], m)]
      BY <2>2 DEF Write
    <3>2. c = [a EXCEPT !.message = Append(a.message, m)]
      BY <2>1, <2>2 DEF Channel
    <3> QED BY <2>2, <3>1, <3>2 DEF Write
  <2>3. CASE ~Fits(a)
    BY <2>3 DEF Write, Withdrawn
  <2> QED BY <2>2, <2>3
<1>4. c \in Channel /\ SameReading(c, a) /\ WritesTo(c, a, z)
  <2>1. o \in BOOLEAN
    BY <1>1
  <2> HIDE DEF a, z, o
  <2> QED BY <1>1, <1>2, <2>1 DEF Channel, SameReading, WritesTo
<1>5. /\ Sound(Link, written, delivered, acked, connected, Whole)
      /\ Link.chan = chan /\ Link.net = net
  BY LinkEnds DEF IInv
<1>6. Fits(a) => z = Append(a.message, m)
  OBVIOUS
<1>7. ~Fits(a) => z = <<m>>
  OBVIOUS
<1> HIDE DEF c, z, o, m
<1>8. /\ Sound([chan |-> chan', net |-> net], [written EXCEPT ![x] = v],
               delivered, acked, connected, Whole)
      /\ u \in Seq(Message)
      /\ Rewritten(written[x], a, a.message) = written[x]
  <2>1. c \in Channel /\ SameReading(c, Link.chan[x]) /\ WritesTo(c, Link.chan[x], z)
    BY <1>4, <1>5
  <2>2. Wrote(Link, written, delivered, acked, connected, Whole, x, c, z)
    BY <1>2, <1>3, <1>5, <2>1, WriteKeeps, Zenon
  <2> QED BY <1>3, <1>5, <2>2 DEF Wrote
<1>9. v = IF Fits(a) THEN Append(written[x], m) ELSE Append(u, m)
  <2>1. v = u \o z /\ written[x] = u \o a.message
    BY <1>8 DEF Rewritten
  <2>2. /\ Append(a.message, m) = a.message \o <<m>>
        /\ <<m>> \in Seq(Message)
    BY <1>1, AppendIsConcat, SMTT(40)
  <2>3. Append(u, m) = u \o <<m>>
    BY <1>1, <1>8, AppendIsConcat
  <2>4. Append(u \o a.message, m) = (u \o a.message) \o <<m>>
    <3>1. u \o a.message \in Seq(Message)
      BY <1>1, <1>8, ConcatProperties
    <3> QED BY <1>1, <3>1, AppendIsConcat
  <2>5. (u \o a.message) \o <<m>> = u \o (a.message \o <<m>>)
    <3>1. \A s, t, y \in Seq(Message) : (s \o t) \o y = s \o (t \o y)
      BY MessagesAssociative, Zenon
    <3> HIDE DEF u, v
    <3> QED BY <1>1, <1>8, <2>2, <3>1, Zenon
  <2> HIDE DEF u, v
  <2> QED BY <1>6, <1>7, <2>1, <2>2, <2>3, <2>4, <2>5
<1>10. Sound(Link', written', delivered', acked', connected', Whole')
  BY <1>3, <1>8, <1>9 DEF Link, Whole
<1>11. Bounded(offered', connected')
  <2>1. offered \in [End -> Nat] /\ \A e \in End : connected[e] => offered[e] <= MaxWrites[e]
    BY DEF IInv, Bounded
  <2>2. m \in Nat /\ m <= MaxWrites[x]
    BY <2>1, BoundsAssumption DEF m, Write
  <2> QED BY <1>3, <2>1, <2>2 DEF Bounded
<1> QED BY <1>3, <1>10, <1>11 DEF IInv

\* the client's channel, its fatal error and what waited forgotten
Forgiven(c) == [c EXCEPT !.fatal_error = FALSE, !.overflowed = FALSE, !.message = <<>>]

\* A transmit changes the wire and its channel, and may forget what waits.
LEMMA ClientTransmitStep ==
    ASSUME IInv, NEW expired \in BOOLEAN, NEW payload \in Payload,
           ClientTransmit(expired, payload)
    PROVE  IInv'
<1> DEFINE l == Sent(Link, "client", expired, payload)
           a == l.chan["client"]
           c == Forgiven(a)
           g == [chan |-> [l.chan EXCEPT !["client"] = c], net |-> l.net]
           u == SubSeq(written["client"], 1, Len(written["client"]) - Len(a.message))
           v == [written EXCEPT !["client"] = u]
<1>1. /\ Sound(Link, written, delivered, acked, connected, Whole)
      /\ "client" \in End /\ connected["client"]
  BY TwoEnds DEF IInv, ClientTransmit
<1>2. Sound(l, written, delivered, acked, connected, Whole)
  BY <1>1, SentKeeps, Zenon
<1>3. l \in Ends /\ a \in Channel /\ written \in [End -> Seq(Message)]
  BY <1>1, <1>2 DEF Sound, Ends
<1>4. UNCHANGED <<connected, offered, delivered, acked, refused>>
  BY DEF ClientTransmit
<1>5. UNCHANGED Whole
  BY <1>4 DEF Whole
<1>6. CASE ~a.fatal_error
  <2>1. Becomes(l) /\ written' = written
    BY <1>6 DEF ClientTransmit
  <2> HIDE DEF l
  <2>2. Link' = l
    BY <1>3, <2>1, BecomesThat
  <2> QED BY <1>2, <1>4, <1>5, <2>1, <2>2 DEF IInv, Bounded
<1>7. CASE a.fatal_error
  <2>1. Becomes(g) /\ written' = v
    <3>1. [l EXCEPT !.chan["client"] = c] = g
      <4>1. ASSUME NEW m \in Ends, NEW y
            PROVE  [m EXCEPT !.chan["client"] = y]
                      = [chan |-> [m.chan EXCEPT !["client"] = y], net |-> m.net]
        BY DEF Ends
      <4> HIDE DEF l, c
      <4> QED BY <1>3, <4>1
    <3> QED BY <1>7, <3>1 DEF ClientTransmit, Forgiven
  <2> HIDE DEF l
  <2>2. c \in Channel /\ SameReading(c, a) /\ WritesTo(c, a, <<>>)
    <3> HIDE DEF a
    <3> DEFINE z == <<>>
    <3>1. z \in Seq(Message) /\ Len(z) = 0 /\ a.maxsize \in Nat
      BY <1>3, EmptySeq DEF Channel
    <3>2. c = [a EXCEPT !.fatal_error = FALSE, !.overflowed = FALSE, !.message = z]
      BY DEF Forgiven
    <3> HIDE DEF z, c
    <3>3. c \in Channel
      <4> DEFINE q == [a EXCEPT !.fatal_error = FALSE]
                 r == [q EXCEPT !.overflowed = FALSE]
      <4>1. q \in Channel
        BY <1>3 DEF Channel
      <4> HIDE DEF q
      <4>2. r \in Channel
        BY <4>1 DEF Channel
      <4> HIDE DEF r
      <4>3. [r EXCEPT !.message = z] \in Channel
        BY <3>1, <4>2 DEF Channel
      <4> QED BY <3>2, <4>3 DEF q, r
    <3>4. SameReading(c, a) /\ WritesTo(c, a, z)
      BY <1>3, <3>1, <3>2 DEF Channel, SameReading, WritesTo
    <3> QED BY <3>3, <3>4 DEF z
  <2> HIDE DEF c
  <2>3. Wrote(l, written, delivered, acked, connected, Whole, "client", c, <<>>)
    <3>1. <<>> \in Seq(Message)
      BY EmptySeq
    <3> QED BY <1>1, <1>2, <2>2, <3>1, WriteKeeps, Zenon
  <2>4. Rewritten(written["client"], a, <<>>) = u
    <3>1. u \in Seq(Message)
      BY <2>3 DEF Wrote
    <3>2. u \o <<>> = u
      BY <3>1, ConcatEmptySeq
    <3> QED BY <3>2 DEF Rewritten
  <2>5. Sound(g, v, delivered, acked, connected, Whole)
    BY <2>3, <2>4 DEF Wrote
  <2>6. g \in Ends
    BY <2>5 DEF Sound
  <2> HIDE DEF g, v
  <2>7. Link' = g
    BY <2>1, <2>6, BecomesThat
  <2> QED BY <1>4, <1>5, <2>1, <2>5, <2>7 DEF IInv, Bounded
<1> QED BY <1>6, <1>7

\* SV_SendClientMessages.
LEMMA ServerTransmitStep ==
    ASSUME IInv, NEW expired \in BOOLEAN, NEW payload \in Payload,
           ServerTransmit(expired, payload)
    PROVE  IInv'
<1> DEFINE l == Sent(Link, "server", expired, payload)
<1>1. Sound(Link, written, delivered, acked, connected, Whole) /\ "server" \in End
  BY TwoEnds DEF IInv
<1>2. Sound(l, written, delivered, acked, connected, Whole)
  BY <1>1, SentKeeps, Zenon
<1>3. l \in Ends
  BY <1>2 DEF Sound
<1>4. Becomes(l) /\ UNCHANGED <<written, connected, offered, delivered, acked, refused>>
  BY DEF ServerTransmit, history
<1> HIDE DEF l
<1>5. Link' = l
  BY <1>3, <1>4, BecomesThat
<1> QED BY <1>2, <1>4, <1>5 DEF IInv, Bounded, Whole

\* CL_Disconnect.
LEMMA ClientDisconnectStep ==
    ASSUME IInv, NEW expired \in BOOLEAN, ClientDisconnect(expired)
    PROVE  IInv'
<1> DEFINE l == ClientFinal(Link, expired)
           still == [connected EXCEPT !["client"] = FALSE]
<1>1. Sound(Link, written, delivered, acked, connected, Whole)
  BY DEF IInv
<1>2. Sound(l, written, delivered, acked, connected, Whole)
  BY <1>1, ClientFinalKeeps, Zenon
<1>3. l \in Ends /\ still \in [End -> BOOLEAN] /\ \A e \in End : still[e] => connected[e]
  BY <1>2 DEF Sound
<1>4. Becomes(l) /\ connected' = still /\ UNCHANGED <<written, offered, delivered, acked, refused>>
  BY DEF ClientDisconnect, history
<1> HIDE DEF l, still
<1>5. Sound(l, written, delivered, acked, still, Whole)
  BY <1>2, <1>3, HangUpKeeps, Zenon
<1>6. Link' = l
  BY <1>3, <1>4, BecomesThat
<1> QED BY <1>3, <1>4, <1>5, <1>6 DEF IInv, Bounded, Whole

\* SV_DropClient, with all that waits pushed out.
LEMMA ServerDropStep ==
    ASSUME IInv, NEW expired \in BOOLEAN, ServerDrop(expired)
    PROVE  IInv'
<1> DEFINE l == ServerFinal(Link, expired)
           still == [connected EXCEPT !["server"] = FALSE]
<1>1. Sound(Link, written, delivered, acked, connected, Whole)
  BY DEF IInv
<1>2. Sound(l, written, delivered, acked, still, Whole)
  BY <1>1, ServerFinalKeeps, Zenon
<1>3. l \in Ends /\ \A e \in End : still[e] => connected[e]
  BY <1>1, <1>2 DEF Sound
<1>4. Becomes(l) /\ connected' = still /\ UNCHANGED <<written, offered, delivered, acked, refused>>
  BY DEF ServerDrop, history
<1> HIDE DEF l, still
<1>5. Link' = l
  BY <1>3, <1>4, BecomesThat
<1> QED BY <1>2, <1>3, <1>4, <1>5 DEF IInv, Bounded, Whole

\* SV_SendClientMessages drops a client whose message has overflowed.
LEMMA ServerOverflowStep ==
    ASSUME IInv, NEW expired \in BOOLEAN, ServerOverflow(expired)
    PROVE  IInv'
<1> DEFINE a == chan["server"]
           m == Notice
           c == [a EXCEPT !.message = <<m>>, !.overflowed = FALSE]
           l == ServerFinal(Overflowed, expired)
           still == [connected EXCEPT !["server"] = FALSE]
           v == [written EXCEPT !["server"] = Append(Withdrawn("server"), m)]
           u == SubSeq(written["server"], 1, Len(written["server"]) - Len(a.message))
<1>1. /\ Sound(Link, written, delivered, acked, connected, Whole) /\ "server" \in End
      /\ Link.chan = chan /\ Link.net = net
      /\ chan \in [End -> Channel] /\ a \in Channel
      /\ connected["server"] /\ m \in Message /\ m \in Nat
      /\ a.maxsize \in Nat \ {0} /\ a.overflowed \in BOOLEAN
  <2>1. "server" \in End /\ connected["server"]
    BY TwoEnds DEF ServerOverflow
  <2>2. offered["server"] \in Nat /\ offered["server"] <= MaxWrites["server"]
    BY <2>1 DEF IInv, Bounded
  <2>3. m \in Message /\ m \in Nat
    BY <2>1, <2>2, IsMessage DEF Notice
  <2>4. a \in Channel
    BY <2>1, LinkEnds
  <2>5. a.maxsize \in Nat \ {0} /\ a.overflowed \in BOOLEAN
    BY <2>4 DEF Channel
  <2> QED BY <2>1, <2>3, <2>5, LinkEnds DEF IInv
<1>2. <<m>> \in Seq(Message) /\ c \in Channel /\ SameReading(c, a) /\ WritesTo(c, a, <<m>>)
  <2> DEFINE z == <<m>>
  <2>1. z \in Seq(Message) /\ Len(z) <= a.maxsize
    BY <1>1
  <2> HIDE DEF z, a, m
  <2>2. c \in Channel /\ SameReading(c, a) /\ WritesTo(c, a, z)
    BY <1>1, <2>1 DEF Channel, SameReading, WritesTo, z
  <2> QED BY <2>1, <2>2 DEF z
<1>3. Overflowed = [chan |-> [chan EXCEPT !["server"] = c], net |-> net]
  BY DEF Overflowed
<1> HIDE DEF c, m
<1>4. Sound([chan |-> [Link.chan EXCEPT !["server"] = c], net |-> Link.net],
            [written EXCEPT !["server"] = Rewritten(written["server"], a, <<m>>)],
            delivered, acked, connected, Whole)
      /\ u \in Seq(Message)
  <2>1. /\ c \in Channel /\ SameReading(c, Link.chan["server"])
        /\ WritesTo(c, Link.chan["server"], <<m>>)
    BY <1>1, <1>2
  <2>2. Wrote(Link, written, delivered, acked, connected, Whole, "server", c, <<m>>)
    BY <1>1, <1>2, <2>1, WriteKeeps, Zenon
  <2> QED BY <1>1, <2>2 DEF Wrote
<1>5. Rewritten(written["server"], a, <<m>>) = Append(Withdrawn("server"), m)
  <2>1. Append(u, m) = u \o <<m>>
    BY <1>1, <1>4, AppendIsConcat
  <2> QED BY <2>1 DEF Rewritten, Withdrawn
<1>6. Sound(Overflowed, v, delivered, acked, connected, Whole)
  BY <1>1, <1>3, <1>4, <1>5
<1> HIDE DEF v
<1>7. Sound(l, v, delivered, acked, still, Whole)
  BY <1>6, ServerFinalKeeps, Zenon
<1>8. l \in Ends /\ \A e \in End : still[e] => connected[e] /\ e # "server"
  BY <1>1, <1>7 DEF Sound
<1>9. /\ Becomes(l) /\ connected' = still /\ written' = v
      /\ offered' = [offered EXCEPT !["server"] = m] /\ UNCHANGED <<delivered, acked, refused>>
  BY DEF ServerOverflow, v, m
<1> HIDE DEF l, still
<1>10. Link' = l
  BY <1>8, <1>9, BecomesThat
<1>11. Bounded(offered', connected')
  <2>1. offered \in [End -> Nat] /\ \A e \in End : connected[e] => offered[e] <= MaxWrites[e]
    BY DEF IInv, Bounded
  <2> QED BY <1>1, <1>8, <1>9, <2>1 DEF Bounded
<1>12. UNCHANGED Whole
  BY <1>9 DEF Whole
<1> QED BY <1>7, <1>9, <1>10, <1>11, <1>12 DEF IInv

\* Only an end that writes more than in_fragment_buf holds has a chunk refused.
LEMMA RefusedIsTooLarge ==
    ASSUME IInv, NEW x \in End, NEW p \in net[x], p.type = "data", ReceiveData(x, p)
    PROVE  refused' \subseteq TooLarge
<1>1. refused \subseteq TooLarge /\ Peer[x] \in End
  BY TwoEnds DEF IInv
<1>2. CASE Refuses(chan[x], p) /\ Peer[x] \notin refused
  <2> DEFINE f == Peer[x]
             a == chan[f]
             b == chan[x]
             l == Link
             w == written[f]
             d == delivered[x]
             k == acked[f]
  <2>1. /\ a \in Channel /\ b \in Channel /\ a.maxsize = MaxMessage[f]
        /\ l.net[x] = net[x] /\ l.chan = chan
        /\ Sound(l, written, delivered, acked, connected, Whole)
    BY <1>1, LinkEnds DEF IInv
  <2>2. /\ l.net[x] \in SUBSET Packet /\ l.net[f] \in SUBSET Packet
        /\ w \in Seq(Message) /\ d \in Seq(Message) /\ k \in Nat /\ connected[f] \in BOOLEAN
    BY <2>1, SoundEnds DEF Typed
  <2>3. Direction(a, b, l.net[f], l.net[x], w, d, k, connected[f], Whole[f])
    <3>1. Peer[f] = x
      BY TwoEnds
    <3>2. Runs(l, written, delivered, acked, connected, Whole, f)
      BY <2>1, SoundEnds
    <3> QED BY <2>1, <3>1, <3>2 DEF Runs
  <2>4. Whole[f] = TRUE
    BY <1>1, <1>2 DEF Whole
  <2>5. p \in Data(l.net[x]) /\ Refuses(b, p)
    BY <1>2, <2>1 DEF Data
  <2> HIDE DEF a, b, l, w, d, k
  <2>6. Direction(a, b, l.net[f], l.net[x], w, d, k, connected[f], TRUE)
    BY <2>3, <2>4
  <2>7. a.maxsize >= MaxFragment
    BY <2>1, <2>2, <2>5, <2>6, ReaderRefuses, ZenonT(60)
  <2> QED BY <1>1, <2>1, <2>7 DEF ReceiveData, TooLarge
<1>3. CASE ~(Refuses(chan[x], p) /\ Peer[x] \notin refused)
  BY <1>1, <1>3 DEF ReceiveData
<1> QED BY <1>2, <1>3

\* NQNetChan_Process, a data packet.
LEMMA ReceiveDataStep ==
    ASSUME IInv, NEW x \in End, NEW p \in net[x], p.type = "data",
           ReceiveData(x, p)
    PROVE  Sound(Link', written, delivered', acked', connected, Whole')
<1> DEFINE c == AfterData(chan[x], p)
           nt == Answered(net[Peer[x]], p)
           y == Given(delivered[x], chan[x], p)
           whole == [e \in End |-> e \notin refused']
<1>1. /\ Sound(Link, written, delivered, acked, connected, Whole)
      /\ Link.chan = chan /\ Link.net = net /\ p \in Data(Link.net[x])
  BY LinkEnds DEF IInv, Data
<1>2. /\ whole \in [End -> BOOLEAN]
      /\ \A e \in End : whole[e] => Whole[e]
      /\ whole[Peer[x]] => ~Refuses(Link.chan[x], p)
  BY <1>1, TwoEnds DEF ReceiveData, Whole
<1>3. whole = Whole'
  BY DEF Whole
<1> HIDE DEF whole
<1>4. Sound(Link, written, delivered, acked, connected, whole)
  BY <1>1, <1>2, BreakKeeps, Zenon
<1>5. Sound([chan |-> [Link.chan EXCEPT ![x] = AfterData(Link.chan[x], p)],
             net |-> [Link.net EXCEPT ![Peer[x]] = Answered(Link.net[Peer[x]], p)]],
            written, [delivered EXCEPT ![x] = Given(delivered[x], Link.chan[x], p)],
            acked, connected, whole)
  BY <1>1, <1>2, <1>4, DataKeeps, Zenon
<1>6. /\ chan' = [chan EXCEPT ![x] = c] /\ net' = [net EXCEPT ![Peer[x]] = nt]
      /\ delivered' = [delivered EXCEPT ![x] = y] /\ acked' = acked
  BY DEF ReceiveData, Given, Answered
<1> HIDE DEF c, nt, y
<1>7. Sound([chan |-> [chan EXCEPT ![x] = c], net |-> [net EXCEPT ![Peer[x]] = nt]],
            written, [delivered EXCEPT ![x] = y], acked, connected, whole)
  BY <1>1, <1>5 DEF c, nt, y
<1> QED BY <1>3, <1>6, <1>7 DEF Link

\* NQNetChan_Process, an acknowledgement.
LEMMA ReceiveAckStep ==
    ASSUME IInv, NEW x \in End, connected[x], NEW p \in net[x], p.type = "ack",
           ReceiveAck(x, p)
    PROVE  Sound(Link', written, delivered', acked', connected, Whole') /\ UNCHANGED refused
<1> DEFINE c == Advance(chan[x])
           m == IF c.reliable_buf = <<>> THEN acked[x] + Len(chan[x].reliable_buf) ELSE acked[x]
<1>1. /\ Sound(Link, written, delivered, acked, connected, Whole)
      /\ Link.chan = chan /\ Link.net = net
      /\ FreshAck(Link.chan[x], p) /\ p \in Link.net[x]
  BY LinkEnds DEF IInv, ReceiveAck
<1>2. Sound([chan |-> [Link.chan EXCEPT ![x] = Advance(Link.chan[x])], net |-> Link.net],
            written, delivered,
            [acked EXCEPT ![x] = IF Advance(Link.chan[x]).reliable_buf = <<>>
                                 THEN acked[x] + Len(Link.chan[x].reliable_buf) ELSE acked[x]],
            connected, Whole)
  BY <1>1, AckKeeps
<1>3. /\ chan' = [chan EXCEPT ![x] = c] /\ net' = net
      /\ delivered' = delivered /\ acked' = [acked EXCEPT ![x] = m]
  BY DEF ReceiveAck
<1> HIDE DEF c, m
<1>4. Sound([chan |-> [chan EXCEPT ![x] = c], net |-> net], written, delivered,
            [acked EXCEPT ![x] = m], connected, Whole)
  BY <1>1, <1>2 DEF c, m
<1>5. UNCHANGED <<refused, Whole>>
  BY DEF ReceiveAck, Whole
<1> QED BY <1>3, <1>4, <1>5 DEF Link

\* The number of an unreliable packet is noted.
LEMMA DatagramKeeps ==
    ASSUME IInv, NEW x \in End, NEW p \in net[x], p.type = "unreliable"
    PROVE  /\ p.final \in BOOLEAN
           /\ Sound([chan |-> [chan EXCEPT ![x] = [chan[x] EXCEPT !.incoming_unreliable = p.seq]],
                     net |-> net], written, delivered, acked, connected, Whole)
<1> DEFINE c == [chan[x] EXCEPT !.incoming_unreliable = p.seq]
<1>1. /\ Sound(Link, written, delivered, acked, connected, Whole)
      /\ Link.chan = chan /\ Link.net = net /\ chan[x] \in Channel
  BY LinkEnds DEF IInv
<1>2. p.seq \in Nat /\ p.final \in BOOLEAN
  <2>1. p \in Packet
    BY LinkEnds
  <2>2. p \in UnreliablePacket
    BY <2>1 DEF Packet, DataPacket, AckPacket, UnreliablePacket
  <2> QED BY <2>2 DEF UnreliablePacket
<1>3. c \in Channel /\ SameWriting(c, Link.chan[x]) /\ SameReading(c, Link.chan[x])
  <2> DEFINE a == chan[x]
             i == p.seq
  <2>1. a \in Channel /\ i \in Int /\ c = [a EXCEPT !.incoming_unreliable = i]
        /\ Link.chan[x] = a
    BY <1>1, <1>2
  <2> HIDE DEF a, i, c
  <2>2. c \in Channel
    BY <2>1 DEF Channel
  <2>3. SameWriting(c, a) /\ SameReading(c, a)
    BY <2>1 DEF Channel, SameWriting, SameReading
  <2> QED BY <2>1, <2>2, <2>3
<1> HIDE DEF c
<1>4. Sound([chan |-> [Link.chan EXCEPT ![x] = c], net |-> Link.net],
            written, delivered, acked, connected, Whole)
  BY <1>1, <1>3, LocalKeeps, Zenon
<1> QED BY <1>1, <1>2, <1>4 DEF c

\* CL_ReadPackets.
LEMMA ClientReceiveStep ==
    ASSUME IInv, NEW expired \in BOOLEAN, NEW p \in net["client"],
           ClientReceive(p, expired)
    PROVE  IInv'
<1>1. /\ "client" \in End /\ connected["client"] /\ connected \in [End -> BOOLEAN]
      /\ written' = written /\ offered' = offered
  BY TwoEnds, LinkEnds DEF ClientReceive
<1>2. CASE p.type = "unreliable"
  <2> DEFINE c == [chan["client"] EXCEPT !.incoming_unreliable = p.seq]
             l == [chan |-> [chan EXCEPT !["client"] = c], net |-> net]
             m == IF p.final THEN ClientFinal(l, expired) ELSE l
             still == [connected EXCEPT !["client"] = ~p.final]
  <2>1. p.final \in BOOLEAN /\ Sound(l, written, delivered, acked, connected, Whole)
    BY <1>1, <1>2, DatagramKeeps
  <2>2. Becomes(m) /\ connected' = still /\ UNCHANGED <<delivered, acked, refused, Whole>>
    <3>1. [Link EXCEPT !.chan["client"].incoming_unreliable = p.seq] = l
      BY <1>1 DEF Link
    <3> QED BY <1>2, <3>1 DEF ClientReceive, Whole
  <2> HIDE DEF l
  <2>3. Sound(ClientFinal(l, expired), written, delivered, acked, connected, Whole)
    BY <2>1, ClientFinalKeeps, Zenon
  <2>4. Sound(m, written, delivered, acked, connected, Whole)
    BY <2>1, <2>3
  <2>5. still \in [End -> BOOLEAN] /\ \A e \in End : still[e] => connected[e]
    BY <1>1, <2>1
  <2>6. m \in Ends
    BY <2>4 DEF Sound
  <2> HIDE DEF m, still
  <2>7. Sound(m, written, delivered, acked, still, Whole)
    BY <2>4, <2>5, HangUpKeeps, Zenon
  <2>8. Link' = m
    BY <2>2, <2>6, BecomesThat
  <2> QED BY <1>1, <2>2, <2>5, <2>7, <2>8 DEF IInv, Bounded
<1>3. CASE p.type = "data"
  <2>1. ReceiveData("client", p) /\ connected' = connected
    BY <1>3 DEF ClientReceive
  <2>2. /\ Sound(Link', written, delivered', acked', connected, Whole')
        /\ refused' \subseteq TooLarge
    BY <1>1, <1>3, <2>1, ReceiveDataStep, RefusedIsTooLarge
  <2> QED BY <1>1, <2>1, <2>2 DEF IInv, Bounded
<1>4. CASE p.type = "ack"
  <2>1. ReceiveAck("client", p) /\ connected' = connected
    BY <1>4 DEF ClientReceive
  <2>2. Sound(Link', written, delivered', acked', connected, Whole') /\ UNCHANGED refused
    BY <1>1, <1>4, <2>1, ReceiveAckStep
  <2> QED BY <1>1, <2>1, <2>2 DEF IInv, Bounded
<1> QED BY <1>2, <1>3, <1>4 DEF ClientReceive

\* SV_ReadPackets.
LEMMA ServerReceiveStep ==
    ASSUME IInv, NEW p \in net["server"], ServerReceive(p)
    PROVE  IInv'
<1>1. /\ "server" \in End /\ connected["server"]
      /\ written' = written /\ offered' = offered /\ connected' = connected
  BY TwoEnds DEF ServerReceive
<1>2. CASE p.type = "unreliable"
  <2> DEFINE c == [chan["server"] EXCEPT !.incoming_unreliable = p.seq]
             l == [chan |-> [chan EXCEPT !["server"] = c], net |-> net]
  <2>1. Sound(l, written, delivered, acked, connected, Whole)
    BY <1>1, <1>2, DatagramKeeps
  <2>2. Link' = l /\ UNCHANGED <<delivered, acked, refused, Whole>>
    BY <1>2 DEF ServerReceive, Link, Whole
  <2> HIDE DEF l
  <2> QED BY <1>1, <2>1, <2>2 DEF IInv, Bounded
<1>3. CASE p.type = "data"
  <2>1. ReceiveData("server", p)
    BY <1>3 DEF ServerReceive
  <2>2. /\ Sound(Link', written, delivered', acked', connected, Whole')
        /\ refused' \subseteq TooLarge
    BY <1>1, <1>3, <2>1, ReceiveDataStep, RefusedIsTooLarge
  <2> QED BY <1>1, <2>2 DEF IInv, Bounded
<1>4. CASE p.type = "ack"
  <2>1. ReceiveAck("server", p)
    BY <1>4 DEF ServerReceive
  <2>2. Sound(Link', written, delivered', acked', connected, Whole') /\ UNCHANGED refused
    BY <1>1, <1>4, <2>1, ReceiveAckStep
  <2> QED BY <1>1, <2>2 DEF IInv, Bounded
<1> QED BY <1>2, <1>3, <1>4 DEF ServerReceive

\* Every step keeps the invariant.
LEMMA NextInvariant ==
    ASSUME IInv, [Next]_vars
    PROVE  IInv'
<1>1. ASSUME NEW e \in End, Write(e) PROVE IInv'
  BY <1>1, WriteStep
<1>2. ASSUME NEW expired \in BOOLEAN, NEW payload \in Payload \ {"final"},
             ClientTransmit(expired, payload) \/ ServerTransmit(expired, payload)
      PROVE  IInv'
  BY <1>2, ClientTransmitStep, ServerTransmitStep
<1>3. ASSUME NEW expired \in BOOLEAN,
             ClientDisconnect(expired) \/ ServerOverflow(expired) \/ ServerDrop(expired)
      PROVE  IInv'
  BY <1>3, ClientDisconnectStep, ServerOverflowStep, ServerDropStep
<1>4. ASSUME NEW expired \in BOOLEAN, NEW p \in net["client"], ClientReceive(p, expired)
      PROVE  IInv'
  BY <1>4, ClientReceiveStep
<1>5. ASSUME NEW p \in net["server"], ServerReceive(p) PROVE IInv'
  BY <1>5, ServerReceiveStep
<1>6. CASE UNCHANGED vars
  BY <1>6 DEF vars, history, IInv, Link, Bounded, Whole
<1> QED BY <1>1, <1>2, <1>3, <1>4, <1>5, <1>6 DEF Next

\* The invariant of both directions.
THEOREM Invariant == Spec => []IInv
<1>1. Init => IInv
  BY InitInvariant
<1>2. IInv /\ [Next]_vars => IInv'
  BY NextInvariant
<1> QED BY <1>1, <1>2, PTL DEF Spec
-----------------------------------------------------------------------------
(* What follows from it. *)

\* Of buf the reader has collected s, and lacks the rest.
Cut(d, buf, m, s) == ((d \o SubSeq(buf, 1, s)) \o SubSeq(buf, s + 1, Len(buf))) \o m

\* The stream, cut where the chunk under way begins.
LEMMA Regrouped ==
    ASSUME NEW d \in Seq(Message), NEW buf \in Seq(Message), NEW m \in Seq(Message),
           NEW s \in Nat, s <= Len(buf)
    PROVE  (d \o buf) \o m = Cut(d, buf, m, s)
<1> DEFINE F == SubSeq(buf, 1, s)
           O == SubSeq(buf, s + 1, Len(buf))
<1>1. Len(buf) \in Nat /\ Len(buf) <= Len(buf)
  BY LenProperties
<1>2. F \in Seq(Message) /\ O \in Seq(Message) /\ F \o O = SubSeq(buf, 1, Len(buf))
  <2> DEFINE n == Len(buf)
  <2>1. n \in Nat /\ s <= n /\ n <= Len(buf)
    BY <1>1
  <2> HIDE DEF n
  <2>2. /\ SubSeq(buf, 1, s) \in Seq(Message) /\ SubSeq(buf, s + 1, n) \in Seq(Message)
        /\ SubSeq(buf, 1, s) \o SubSeq(buf, s + 1, n) = SubSeq(buf, 1, n)
    BY <2>1, Neighbours
  <2> QED BY <2>2 DEF n
<1>3. F \o O = buf
  BY <1>2, SubSeqFull
<1> HIDE DEF F, O
<1>4. d \o (F \o O) = (d \o F) \o O
  <2>1. \A t, u, v \in Seq(Message) : (t \o u) \o v = t \o (u \o v)
    BY MessagesAssociative, Zenon
  <2> QED BY <1>2, <2>1, ZenonT(60)
<1>5. (d \o buf) \o m = ((d \o F) \o O) \o m
  BY <1>3, <1>4
<1> QED BY <1>5 DEF Cut, F, O

\* Of a writer that has not hung up, and of whose chunks none was refused, the written
\* stream is what the peer was given, has collected and lacks, and what waits in message:
\* NQNetChan_Process and Netchan_Transmit skip no chunk and take none twice.  And only
\* a writer whose message can fill the peer's in_fragment_buf has a chunk refused.
THEOREM StreamIsIntact == Spec => []StreamIntact
<1>1. IInv => StreamIntact
  <2> SUFFICES ASSUME IInv, NEW e \in End, connected[e], e \notin refused
               PROVE  LET a == chan[e]  b == chan[Peer[e]] IN
                      /\ b.incoming_reliable_sequence
                            \in {a.reliable_sequence, a.reliable_sequence + 1}
                      /\ written[e] = delivered[Peer[e]] \o b.in_fragment
                                         \o Outstanding(a, b) \o a.message
    BY DEF StreamIntact, IInv
  <2> DEFINE a == chan[e]
             b == chan[Peer[e]]
             c == Current(a, b)
             w == written[e]
             d == delivered[Peer[e]]
  <2>1. /\ a \in Channel /\ b \in Channel /\ Peer[e] \in End
        /\ w \in Seq(Message) /\ d \in Seq(Message)
    BY TwoEnds, LinkEnds
  <2>2. Parts(a, b, w, d)
    <3> DEFINE l == Link
    <3>1. Sound(l, written, delivered, acked, connected, Whole) /\ l.chan = chan
      BY LinkEnds DEF IInv
    <3> HIDE DEF l
    <3>2. Direction(a, b, l.net[e], l.net[Peer[e]], w, d, acked[e], connected[e], Whole[e])
      BY <3>1 DEF Sound
    <3>3. Whole[e] = TRUE /\ connected[e]
      BY DEF Whole
    <3>4. InStep(a, b, l.net[e], d, acked[e])
      BY <3>2, <3>3 DEF Direction
    <3> HIDE DEF a, b, w, d
    <3>5. Direction(a, b, l.net[e], l.net[Peer[e]], w, d, acked[e], connected[e], TRUE)
      BY <3>2, <3>3
    <3> QED BY <2>1, <3>4, <3>5, StreamParts, Zenon
  <2> HIDE DEF a, b, w, d
  <2>3. c \in Channel /\ a.message \in Seq(Message)
    BY <2>1, CurrentFields DEF Channel
  <2> HIDE DEF c
  <2>4. /\ c.reliable_buf \in Seq(Message) /\ c.reliable_start \in Nat
        /\ c.reliable_start <= Len(c.reliable_buf)
        /\ w = (d \o c.reliable_buf) \o a.message
        /\ b.in_fragment = SubSeq(c.reliable_buf, 1, c.reliable_start)
        /\ b.incoming_reliable_sequence \in {a.reliable_sequence, a.reliable_sequence + 1}
    <3>1. /\ c.reliable_buf \in Seq(Message) /\ c.reliable_start \in Nat
          /\ Len(c.reliable_buf) \in Nat
      BY <2>3, LenProperties DEF Channel
    <3> QED BY <2>2, <3>1 DEF Parts, Held, c
  <2>5. Outstanding(a, b)
           = SubSeq(c.reliable_buf, c.reliable_start + 1, Len(c.reliable_buf))
    <3>1. a.reliable_sequence \in Nat
      BY <2>1 DEF Channel
    <3>2. c = IF b.incoming_reliable_sequence = a.reliable_sequence THEN a ELSE Advance(a)
      BY <2>4, <3>1 DEF c, Current
    <3> QED BY <3>2 DEF Outstanding
  <2>6. w = ((d \o b.in_fragment) \o Outstanding(a, b)) \o a.message
    <3>1. w = Cut(d, c.reliable_buf, a.message, c.reliable_start)
      BY <2>1, <2>3, <2>4, Regrouped, ZenonT(60)
    <3> QED BY <2>4, <2>5, <3>1 DEF Cut
  <2> QED BY <2>4, <2>6 DEF a, b, w, d
<1> QED BY <1>1, Invariant, PTL

\* Netchan_Transmit never gives the number of one chunk to another.
THEOREM ChunksKeepTheirNumbers == Spec => []ChunksStable
<1>1. IInv => ChunksStable
  <2> SUFFICES ASSUME IInv, NEW e \in End PROVE Stable(net[e])
    BY DEF ChunksStable, Stable, Data
  <2>1. Peer[e] \in End /\ Peer[Peer[e]] = e
    BY TwoEnds
  <2>2. Stable(Link.net[Peer[Peer[e]]])
    BY <2>1 DEF IInv, Sound, Direction
  <2> QED BY <2>1, <2>2 DEF Link
<1> QED BY <1>1, Invariant, PTL
-----------------------------------------------------------------------------
(* The refinement of ReliableStream. *)

\* What x's peer was given is the beginning of what x wrote, and x knows no more
\* received than that.
Ordered(w, d, k, x) ==
    /\ w[x] \in Seq(Message) /\ d[Peer[x]] \in Seq(Message) /\ k[x] \in Nat
    /\ Len(w[x]) \in Nat /\ Len(d[Peer[x]]) \in Nat
    /\ Prefix(d[Peer[x]], w[x])
    /\ k[x] <= Len(d[Peer[x]])

\* Of a sound direction, what is acknowledged was delivered, and what is delivered written.
LEMMA EndsOrdered ==
    ASSUME NEW l, NEW w, NEW d, NEW k, NEW on, NEW ok, Sound(l, w, d, k, on, ok),
           NEW x \in End, ok[x]
    PROVE  Ordered(w, d, k, x)
<1>1. /\ l.chan[x] \in Channel /\ l.chan[Peer[x]] \in Channel
      /\ w[x] \in Seq(Message) /\ d[Peer[x]] \in Seq(Message) /\ k[x] \in Nat
  BY SoundEnds DEF Typed
<1>2. Direction(l.chan[x], l.chan[Peer[x]], l.net[x], l.net[Peer[x]],
                w[x], d[Peer[x]], k[x], on[x], ok[x])
  BY SoundEnds DEF Runs
<1>3. Prefix(d[Peer[x]], w[x])
  BY <1>1, <1>2, GivenIsPrefix, Zenon
<1>4. k[x] <= Len(d[Peer[x]])
  BY <1>2 DEF Direction
<1> QED BY <1>1, <1>3, <1>4, LenProperties DEF Ordered

\* It is so before a step and after, of an end of whose chunks none was refused.
LEMMA BothOrdered ==
    ASSUME IInv, IInv', NEW x \in End, x \notin refused, UNCHANGED refused
    PROVE  Ordered(written, delivered, acked, x) /\ Ordered(written', delivered', acked', x)
<1> DEFINE l == [chan |-> chan', net |-> net']
           whole == [e \in End |-> e \notin refused']
<1>1. Sound(Link, written, delivered, acked, connected, Whole)
  BY DEF IInv
<1>2. Sound(l, written', delivered', acked', connected', whole)
  BY DEF IInv, Link, Whole
<1>3. Whole[x] /\ whole[x]
  BY DEF Whole
<1> HIDE DEF l, whole
<1>4. Ordered(written, delivered, acked, x)
  BY <1>1, <1>3, EndsOrdered, Zenon
<1>5. Ordered(written', delivered', acked', x)
  BY <1>2, <1>3, EndsOrdered, Zenon
<1> QED BY <1>4, <1>5

\* A packet that brings e's parser more, or acknowledges more of what e wrote.
LEMMA StreamArrives ==
    ASSUME IInv, IInv', NEW e \in End, UNCHANGED <<written, refused>>,
           delivered' = [delivered EXCEPT ![e] = delivered'[e]],
           acked' = [acked EXCEPT ![e] = acked'[e]],
           Len(delivered[e]) <= Len(delivered'[e]), acked[e] <= acked'[e],
           Len(delivered'[Peer[e]]) = Len(delivered[Peer[e]])
    PROVE  Stream!Arrive(e)
<1> DEFINE f == Peer[e]
           n == Len(delivered'[e])
<1>1. f \in End /\ Peer[f] = e
  BY TwoEnds
<1> HIDE DEF f
<1>2. ASSUME f \notin refused
      PROVE  \E m \in Len(delivered[e]) .. Len(written[f]) :
                delivered'[e] = SubSeq(written[f], 1, m)
  <2>1. Ordered(written, delivered, acked, f) /\ Ordered(written', delivered', acked', f)
    BY <1>1, <1>2, BothOrdered
  <2>2. /\ SubSeq(written[f], 1, n) = delivered'[e]
        /\ n \in Len(delivered[e]) .. Len(written[f])
    BY <1>1, <2>1 DEF Ordered, Prefix
  <2> HIDE DEF n
  <2> QED BY <2>2
<1>3. ASSUME e \notin refused PROVE acked'[e] \in acked[e] .. Len(delivered[f])
  <2>1. Ordered(written, delivered, acked, e) /\ Ordered(written', delivered', acked', e)
    BY <1>3, BothOrdered
  <2> QED BY <2>1 DEF Ordered, f
<1> QED BY <1>2, <1>3 DEF Stream!Arrive, f

\* A data packet, as a step of ReliableStream: its reader is given more, or nothing, or
\* throws the chunk away.
LEMMA DataArrives ==
    ASSUME IInv, IInv', NEW e \in End, NEW p \in net[e], p.type = "data",
           ReceiveData(e, p), written' = written
    PROVE  Stream!Arrive(e) \/ Stream!Break(Peer[e])
<1>1. /\ delivered' = [delivered EXCEPT ![e] = Given(delivered[e], chan[e], p)]
      /\ acked' = acked
  BY DEF ReceiveData, Given
<1>2. /\ delivered \in [End -> Seq(Message)] /\ acked \in [End -> Nat]
      /\ chan[e].in_fragment \in Seq(Message) /\ p.data \in Seq(Message)
  <2>1. chan[e] \in Channel /\ p \in Data(net[e]) /\ net[e] \in SUBSET Packet
    BY LinkEnds DEF Data
  <2>2. p.data \in Seq(Message)
    BY <2>1, DataTyped
  <2> QED BY <2>1, <2>2, LinkEnds DEF Channel
<1>3. Peer[e] # e /\ Peer[e] \in End
  BY TwoEnds
<1>4. Len(delivered[e]) <= Len(delivered'[e])
  <2>1. Len(delivered[e]) \in Nat
    BY <1>2, LenProperties
  <2>2. CASE Completes(chan[e], p)
    <3>1. delivered'[e] = (delivered[e] \o chan[e].in_fragment) \o p.data
      BY <1>1, <1>2, <2>2 DEF Given
    <3>2. Len(delivered[e]) <= Len((delivered[e] \o chan[e].in_fragment) \o p.data)
      BY <1>2, LongerByTwo
    <3> QED BY <3>1, <3>2
  <2>3. CASE ~Completes(chan[e], p)
    <3>1. delivered'[e] = delivered[e]
      BY <1>1, <1>2, <2>3 DEF Given
    <3> QED BY <2>1, <3>1
  <2> QED BY <2>2, <2>3
<1>5. delivered' = [delivered EXCEPT ![e] = delivered'[e]]
      /\ Len(delivered'[Peer[e]]) = Len(delivered[Peer[e]])
  BY <1>1, <1>2, <1>3
<1>6. acked' = [acked EXCEPT ![e] = acked'[e]] /\ acked[e] <= acked'[e]
  BY <1>1, <1>2
<1>7. CASE ~Refuses(chan[e], p)
  <2>1. UNCHANGED refused
    BY <1>7 DEF ReceiveData
  <2> QED BY <1>4, <1>5, <1>6, <2>1, StreamArrives
<1>8. CASE Refuses(chan[e], p)
  <2>1. refused' = refused \cup {Peer[e]} /\ refused' \subseteq TooLarge
    BY <1>8 DEF ReceiveData, IInv
  <2>2. delivered' = delivered
    <3>1. Given(delivered[e], chan[e], p) = delivered[e]
      BY <1>8 DEF Given, Completes, Refuses
    <3> QED BY <1>1, <1>2, <3>1
  <2> QED BY <1>1, <2>1, <2>2 DEF Stream!Break
<1> QED BY <1>7, <1>8

\* An acknowledgement, as a step of ReliableStream.
LEMMA AckArrives ==
    ASSUME IInv, IInv', NEW e \in End, NEW p \in net[e], ReceiveAck(e, p), written' = written
    PROVE  Stream!Arrive(e)
<1> DEFINE m == IF Advance(chan[e]).reliable_buf = <<>>
                THEN acked[e] + Len(chan[e].reliable_buf) ELSE acked[e]
<1>1. acked' = [acked EXCEPT ![e] = m] /\ UNCHANGED <<delivered, refused>>
  BY DEF ReceiveAck
<1>2. /\ delivered \in [End -> Seq(Message)] /\ acked \in [End -> Nat]
      /\ Len(chan[e].reliable_buf) \in Nat /\ Len(delivered[e]) \in Nat
  <2>1. chan[e] \in Channel
    BY LinkEnds
  <2>2. chan[e].reliable_buf \in Seq(Message)
    BY <2>1 DEF Channel
  <2> QED BY <2>2, LinkEnds, LenProperties
<1>3. acked[e] <= m
  BY <1>2
<1> HIDE DEF m
<1>4. acked' = [acked EXCEPT ![e] = acked'[e]] /\ acked[e] <= acked'[e]
  BY <1>1, <1>2, <1>3
<1>5. /\ delivered' = [delivered EXCEPT ![e] = delivered'[e]]
      /\ Len(delivered[e]) <= Len(delivered'[e])
      /\ Len(delivered'[Peer[e]]) = Len(delivered[Peer[e]])
  BY <1>1, <1>2
<1> QED BY <1>1, <1>4, <1>5, StreamArrives

\* what x keeps of w when it loses what waits in message of channel a
Lost(w, a) == SubSeq(w, 1, Len(w) - Len(a.message))

\* Emptying the write buffer gives up nothing that was delivered.
LEMMA WithdrawnIsKept ==
    ASSUME NEW l, Sound(l, written, delivered, acked, connected, Whole),
           NEW x \in End, connected[x]
    PROVE  \E k \in Stream!HandedOver(x) .. Len(written[x]) :
              Lost(written[x], l.chan[x]) = Stream!Kept(x, k)
<1> DEFINE a == l.chan[x]
           b == l.chan[Peer[x]]
           w == written[x]
           d == delivered[Peer[x]]
           buf == Current(a, b).reliable_buf
           u == Lost(w, a)
           k == Len(w) - Len(a.message)
<1>1. /\ a \in Channel /\ b \in Channel /\ w \in Seq(Message) /\ d \in Seq(Message)
      /\ Direction(a, b, l.net[x], l.net[Peer[x]], w, d, acked[x], connected[x], Whole[x])
  <2>1. /\ Typed(l, written, delivered, acked, connected, Whole, x)
        /\ Typed(l, written, delivered, acked, connected, Whole, Peer[x])
        /\ Runs(l, written, delivered, acked, connected, Whole, x)
    BY SoundEnds, Zenon
  <2> QED BY <2>1 DEF Typed, Runs
<1>2. Lost(written[x], l.chan[x]) = Stream!Kept(x, k)
  BY DEF Lost, Stream!Kept
<1> HIDE DEF a, b, w, d
<1>3. w = u \o a.message /\ u \in Seq(Message) /\ a.message \in Seq(Message)
  BY <1>1, WaitsLast DEF Direction, Lost, Channel
<1> HIDE DEF u
<1>4. /\ Len(u) \in Nat /\ Len(a.message) \in Nat /\ Len(w) \in Nat /\ Len(d) \in Nat
      /\ Len(w) = Len(u) + Len(a.message)
  BY <1>1, <1>3, ConcatProperties, LenProperties
<1>5. k \in 0 .. Len(w) /\ k = Len(u)
  <2> DEFINE given == Len(u)
             all == Len(w)
             last == Len(a.message)
  <2>1. given \in Nat /\ last \in Nat /\ all = given + last /\ k = all - last
    BY <1>4
  <2> HIDE DEF given, all, last, k
  <2>2. k \in 0 .. all /\ k = given
    BY <2>1
  <2> QED BY <2>2 DEF given, all
<1> HIDE DEF k
<1>6. CASE x \in refused
  BY <1>2, <1>5, <1>6 DEF Stream!HandedOver, w
<1>7. CASE x \notin refused
  <2>1. Whole[x] = TRUE
    BY <1>7 DEF Whole
  <2>2. Direction(a, b, l.net[x], l.net[Peer[x]], w, d, acked[x], connected[x], TRUE)
    BY <1>1, <2>1
  <2>3. InStep(a, b, l.net[x], d, acked[x])
    BY <2>2 DEF Direction
  <2>4. w = (d \o buf) \o a.message
    <3>1. Parts(a, b, w, d)
      BY <1>1, <2>2, <2>3, StreamParts, Zenon
    <3> QED BY <3>1 DEF Parts
  <2>5. buf \in Seq(Message)
    <3>1. Current(a, b) \in Channel
      BY <1>1, CurrentFields
    <3> QED BY <3>1 DEF Channel
  <2> HIDE DEF buf
  <2>6. /\ Len(d \o buf) = Len(d) + Len(buf) /\ Len(buf) \in Nat
        /\ Len(w) = Len(d \o buf) + Len(a.message)
    BY <1>1, <1>3, <2>4, <2>5, ConcatProperties, LenProperties
  <2>7. Len(d) <= Len(u)
    <3> DEFINE given == Len(d)
               all == Len(w)
               last == Len(a.message)
               under == Len(buf)
               kept == Len(u)
    <3>1. /\ given \in Nat /\ under \in Nat /\ last \in Nat /\ kept \in Nat
          /\ all = (given + under) + last /\ all = kept + last
      BY <1>4, <2>6
    <3> HIDE DEF given, all, last, under, kept
    <3>2. given <= kept
      BY <3>1
    <3> QED BY <3>2 DEF given, kept
  <2>8. k \in Len(d) .. Len(w)
    BY <1>4, <1>5, <2>7
  <2> QED BY <1>2, <1>7, <2>8 DEF Stream!HandedOver, w, d
<1> QED BY <1>6, <1>7

\* So too an end that empties message as it is now.
LEMMA LinkWithdrawn ==
    ASSUME Sound(Link, written, delivered, acked, connected, Whole), NEW x \in End, connected[x]
    PROVE  \E k \in Stream!HandedOver(x) .. Len(written[x]) : Withdrawn(x) = Stream!Kept(x, k)
<1> DEFINE l == Link
<1>1. Sound(l, written, delivered, acked, connected, Whole) /\ l.chan = chan
  BY DEF Link
<1> HIDE DEF l
<1>2. \E k \in Stream!HandedOver(x) .. Len(written[x]) :
         Lost(written[x], l.chan[x]) = Stream!Kept(x, k)
  BY <1>1, WithdrawnIsKept, Zenon
<1>3. Withdrawn(x) = Lost(written[x], l.chan[x])
  BY <1>1 DEF Withdrawn, Lost
<1> QED BY <1>2, <1>3

\* Every step of either end is a step of the stream, or none.
LEMMA StreamStep ==
    ASSUME IInv, IInv', [Next]_vars
    PROVE  [Stream!Next]_Stream!vars
<1>1. /\ "client" \in End /\ "server" \in End
      /\ offered \in [End -> Nat] /\ \A e \in End : connected[e] => offered[e] <= MaxWrites[e]
      /\ Sound(Link, written, delivered, acked, connected, Whole)
  BY TwoEnds DEF IInv, Bounded
<1>2. ASSUME NEW e \in End, Write(e) PROVE Stream!Next
  <2> DEFINE m == offered[e] + 1
  <2>1. m \in Message
    <3>1. offered[e] \in Nat /\ offered[e] <= MaxWrites[e]
      BY <1>1, <1>2 DEF Write
    <3> QED BY <3>1, IsMessage
  <2>2. UNCHANGED <<delivered, acked, refused>> /\ connected[e]
    BY <1>2 DEF Write
  <2>3. CASE Fits(chan[e])
    <3>1. written' = [written EXCEPT ![e] = Append(@, m)]
      BY <1>2, <2>3 DEF Write
    <3>2. Stream!Write(e)
      BY <2>1, <2>2, <3>1 DEF Stream!Write
    <3> QED BY <3>2 DEF Stream!Next
  <2>4. CASE ~Fits(chan[e])
    <3>1. written' = [written EXCEPT ![e] = Append(Withdrawn(e), m)]
      BY <1>2, <2>4 DEF Write
    <3>2. \E j \in Stream!HandedOver(e) .. Len(written[e]) : Withdrawn(e) = Stream!Kept(e, j)
      BY <1>1, <2>2, LinkWithdrawn
    <3>3. Stream!WriteOverflowing(e)
      BY <2>1, <2>2, <3>1, <3>2 DEF Stream!WriteOverflowing
    <3> QED BY <3>3 DEF Stream!Next
  <2> QED BY <2>3, <2>4
<1>3. ASSUME NEW expired \in BOOLEAN, ServerOverflow(expired) PROVE Stream!Next
  <2>1. connected["server"] /\ Notice \in Message
    <3>1. connected["server"]
      BY <1>3 DEF ServerOverflow
    <3>2. offered["server"] \in Nat /\ offered["server"] <= MaxWrites["server"]
      BY <1>1, <3>1
    <3> QED BY <1>1, <3>1, <3>2, IsMessage DEF Notice
  <2>2. /\ written' = [written EXCEPT !["server"] = Append(Withdrawn("server"), Notice)]
        /\ UNCHANGED <<delivered, acked, refused>>
    BY <1>3 DEF ServerOverflow
  <2>3. \E j \in Stream!HandedOver("server") .. Len(written["server"]) :
           Withdrawn("server") = Stream!Kept("server", j)
    BY <1>1, <2>1, LinkWithdrawn
  <2>4. Stream!WriteOverflowing("server")
    BY <2>1, <2>2, <2>3 DEF Stream!WriteOverflowing
  <2> QED BY <1>1, <2>4 DEF Stream!Next
<1>4. ASSUME NEW expired \in BOOLEAN, NEW p \in net["client"], ClientReceive(p, expired)
      PROVE  Stream!Next \/ UNCHANGED Stream!vars
  <2>1. written' = written
    BY <1>4 DEF ClientReceive
  <2>2. CASE p.type = "unreliable"
    BY <1>4, <2>2 DEF ClientReceive, Stream!vars
  <2>3. CASE p.type = "data"
    <3>1. Stream!Arrive("client") \/ Stream!Break(Peer["client"])
      BY <1>1, <1>4, <2>1, <2>3, DataArrives DEF ClientReceive
    <3> QED BY <1>1, <3>1, TwoEnds DEF Stream!Next
  <2>4. CASE p.type = "ack"
    <3>1. Stream!Arrive("client")
      BY <1>1, <1>4, <2>1, <2>4, AckArrives DEF ClientReceive
    <3> QED BY <1>1, <3>1 DEF Stream!Next
  <2> QED BY <1>4, <2>2, <2>3, <2>4 DEF ClientReceive
<1>5. ASSUME NEW p \in net["server"], ServerReceive(p)
      PROVE  Stream!Next \/ UNCHANGED Stream!vars
  <2>1. written' = written
    BY <1>5 DEF ServerReceive
  <2>2. CASE p.type = "unreliable"
    BY <1>5, <2>2 DEF ServerReceive, Stream!vars
  <2>3. CASE p.type = "data"
    <3>1. Stream!Arrive("server") \/ Stream!Break(Peer["server"])
      BY <1>1, <1>5, <2>1, <2>3, DataArrives DEF ServerReceive
    <3> QED BY <1>1, <3>1, TwoEnds DEF Stream!Next
  <2>4. CASE p.type = "ack"
    <3>1. Stream!Arrive("server")
      BY <1>1, <1>5, <2>1, <2>4, AckArrives DEF ServerReceive
    <3> QED BY <1>1, <3>1 DEF Stream!Next
  <2> QED BY <1>5, <2>2, <2>3, <2>4 DEF ServerReceive
<1>6. ASSUME NEW expired \in BOOLEAN, NEW payload \in Payload, ClientTransmit(expired, payload)
      PROVE  Stream!Next \/ UNCHANGED Stream!vars
  <2> DEFINE l == Sent(Link, "client", expired, payload)
             a == l.chan["client"]
  <2>1. connected["client"] /\ UNCHANGED <<delivered, acked, refused>>
    BY <1>6 DEF ClientTransmit
  <2>2. CASE ~a.fatal_error
    BY <1>6, <2>1, <2>2 DEF ClientTransmit, Stream!vars
  <2>3. CASE a.fatal_error
    <3>1. written' = [written EXCEPT !["client"] = Lost(written["client"], a)]
      BY <1>6, <2>3 DEF ClientTransmit, Lost
    <3>2. Sound(l, written, delivered, acked, connected, Whole)
      BY <1>1, <1>6, SentKeeps, Zenon
    <3> HIDE DEF l
    <3>3. \E j \in Stream!HandedOver("client") .. Len(written["client"]) :
             Lost(written["client"], a) = Stream!Kept("client", j)
      BY <1>1, <2>1, <3>2, WithdrawnIsKept
    <3> HIDE DEF a
    <3>4. Stream!GiveUp("client")
      BY <2>1, <3>1, <3>3 DEF Stream!GiveUp
    <3> QED BY <1>1, <3>4 DEF Stream!Next
  <2> QED BY <2>2, <2>3
<1>7. ASSUME NEW expired \in BOOLEAN,
             ClientDisconnect(expired) \/ ServerDrop(expired)
                \/ \E payload \in Payload : ServerTransmit(expired, payload)
      PROVE  UNCHANGED Stream!vars
  BY <1>7 DEF ClientDisconnect, ServerDrop, ServerTransmit, history, Stream!vars
<1>8. CASE UNCHANGED vars
  BY <1>8 DEF vars, history, Stream!vars
<1> QED BY <1>2, <1>3, <1>4, <1>5, <1>6, <1>7, <1>8 DEF Next

\* A sequence number per chunk over a wire that loses, repeats and reorders implements
\* the stream the code above the channel relies on.
THEOREM ImplementsStream == Spec => StreamSpec
<1>1. Init => Stream!Init
  BY DEF Init, Stream!Init
<1>2. Spec => []IInv
  BY Invariant
<1>3. IInv /\ IInv' /\ [Next]_vars => [Stream!Next]_Stream!vars
  BY StreamStep
<1> QED BY <1>1, <1>2, <1>3, PTL DEF Spec, StreamSpec, Stream!Spec
=============================================================================
