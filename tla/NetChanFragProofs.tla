------------------------- MODULE NetChanFragProofs -------------------------
(***************************************************************************)
(* Fragmentation implements the network that NetChan assumes, and what is  *)
(* cut is what is put together, for every size of packet, of path and of   *)
(* buffer.                                                                 *)
(***************************************************************************)
EXTENDS NetChanFrag, SequenceTheorems, WellFoundedInduction, TLAPS

-----------------------------------------------------------------------------
(* Induction, about sets and functions: what first-order provers can use. *)

\* A set of natural numbers that is not empty has a smallest element.
LEMMA SmallestElement ==
    ASSUME NEW T \in SUBSET Nat, T # {}
    PROVE  \E x \in T : \A y \in T : x <= y
<1>1. PICK x \in T : \A y \in T : ~(<<y, x>> \in OpToRel(<, Nat))
  BY NatLessThanWellFounded, WFMin, Zenon
<1>2. \A a, b \in Nat : a < b => <<a, b>> \in OpToRel(<, Nat)
  BY Zenon DEF OpToRel
<1>3. \A y \in T : ~(y < x)
  BY <1>1, <1>2, Zenon
<1> QED BY <1>3

\* A set that has 0 and with every number up to n its successor has them all.
LEMMA SetInductionUpTo ==
    ASSUME NEW n \in Nat, NEW S, 0 \in S,
           \A i \in 0..n - 1 : i \in S => i + 1 \in S
    PROVE  \A i \in 0..n : i \in S
<1> DEFINE T == {i \in 0..n : i \notin S}
<1> SUFFICES ASSUME T # {} PROVE FALSE
  OBVIOUS
<1>1. \E x \in T : \A y \in T : x <= y
  <2>1. T \in SUBSET Nat
    OBVIOUS
  <2> HIDE DEF T
  <2> QED BY <2>1, SmallestElement
<1>2. PICK x \in T : \A y \in T : x <= y
  BY <1>1
<1>3. x \in 1..n /\ x - 1 \in 0..n - 1 /\ x - 1 \in S
  <2>1. x \in 1..n /\ x - 1 \in 0..n - 1
    OBVIOUS
  <2> QED BY <1>2, <2>1
<1>4. (x - 1) + 1 \in S
  BY <1>3
<1> QED BY <1>3, <1>4

\* f starts at base and goes on with D, up to n
Recursion(f, n, base, D) == /\ f[0] = base
                            /\ \A i \in 1..n : f[i] = D[<<i, f[i - 1]>>]

\* There is such a function, up to any n.
LEMMA RecursionExists ==
    ASSUME NEW n \in Nat, NEW S, NEW base \in S, NEW D \in [(1..n) \X S -> S]
    PROVE  \E f \in [0..n -> S] : Recursion(f, n, base, D)
<1> DEFINE T == {m \in 0..n : \E f \in [0..m -> S] : Recursion(f, m, base, D)}
<1>1. 0 \in T
  <2>1. /\ [i \in 0..0 |-> base] \in [0..0 -> S]
        /\ Recursion([i \in 0..0 |-> base], 0, base, D)
    BY DEF Recursion
  <2>2. 0 \in 0..n
    OBVIOUS
  <2> QED BY <2>1, <2>2
<1>2. ASSUME NEW m \in 0..n - 1, m \in T PROVE m + 1 \in T
  <2>1. PICK f \in [0..m -> S] : Recursion(f, m, base, D)
    BY <1>2
  <2> DEFINE g == [i \in 0..m + 1 |-> IF i = m + 1 THEN D[<<m + 1, f[m]>>] ELSE f[i]]
  <2>2. D[<<m + 1, f[m]>>] \in S
    OBVIOUS
  <2>3. g \in [0..m + 1 -> S]
    BY <2>2
  <2>4. /\ g[m + 1] = D[<<m + 1, f[m]>>]
        /\ \A i \in 0..m : g[i] = f[i]
    OBVIOUS
  <2> HIDE DEF g
  <2>5. Recursion(g, m + 1, base, D)
    <3>1. g[0] = base
      BY <2>1, <2>4 DEF Recursion
    <3>2. ASSUME NEW i \in 1..m + 1 PROVE g[i] = D[<<i, g[i - 1]>>]
      <4>1. CASE i = m + 1
        BY <2>4, <4>1
      <4>2. CASE i \in 1..m
        BY <2>1, <2>4, <4>2 DEF Recursion
      <4> QED BY <4>1, <4>2
    <3> QED BY <3>1, <3>2 DEF Recursion
  <2> QED BY <2>3, <2>5
<1> HIDE DEF T
<1>3. n \in T
  <2>1. \A m \in 0..n : m \in T
    BY <1>1, <1>2, SetInductionUpTo, Zenon
  <2> QED BY <2>1
<1> QED BY <1>3 DEF T

-----------------------------------------------------------------------------
(* Types. *)

Piece == [seq: Nat, from: Nat, to: Nat]
Fragment == [piece: Piece, offset: Nat]
Buffer == [length: Nat, pieces: Seq(Piece)]
SentPacket == [seq: Nat, length: Nat]
Taken == [seq: Nat, buffer: Buffer]

-----------------------------------------------------------------------------
(* Cutting. *)

\* The offset says where the piece begins, and a fragment that promises no more ends
\* where the packet does.
Genuine(f, length) ==
    /\ f.piece.from <= f.piece.to
    /\ f.piece.to <= length
    /\ IF IsFragment(f) THEN /\ Offset(f) = f.piece.from
                             /\ ~More(f) => f.piece.to = length
                        ELSE f.piece.from = 0 /\ f.piece.to = length

\* A step is a multiple of 8 and no more than the room.
LEMMA StepIsEights ==
    ASSUME NEW r \in Nat, r >= 8
    PROVE  /\ Step(r) \in Nat /\ Step(r) <= r /\ Step(r) >= 8
           /\ \E u \in Nat : Step(r) = 8 * u
           /\ \A k \in Nat : /\ k * Step(r) \in Nat
                             /\ \E v \in Nat : k * Step(r) = 8 * v
                             /\ (k + 1) * Step(r) = k * Step(r) + Step(r)
                             /\ k * Step(r) >= k
<1> DEFINE u == r \div 8
<1>1. u \in Nat /\ 8 * u <= r /\ u >= 1 /\ Step(r) = 8 * u
  BY DEF Step
<1> HIDE DEF u
<1>2. ASSUME NEW k \in Nat
      PROVE  /\ k * Step(r) \in Nat /\ k * Step(r) = 8 * (k * u) /\ k * u \in Nat
             /\ (k + 1) * Step(r) = k * Step(r) + Step(r)
             /\ k * Step(r) >= k
  <2> DEFINE s == Step(r)
  <2>1. s = 8 * u /\ s \in Nat
    BY <1>1
  <2>2. k * u \in Nat /\ k * u >= k
    BY <1>1
  <2>3. k * (8 * u) = 8 * (k * u)
    BY <1>1
  <2> HIDE DEF s
  <2>4. (k + 1) * s = k * s + s
    BY <2>1
  <2> QED BY <2>1, <2>2, <2>3, <2>4 DEF s
<1> QED BY <1>1, <1>2

\* The offset field of a multiple of 8 gives it back, with the bit that says more.
LEMMA OffsetFieldBits ==
    ASSUME NEW from \in Nat, NEW v \in Nat, from = 8 * v, NEW more \in BOOLEAN
    PROVE  LET o == OffsetField(from, more) IN
           /\ o \in Nat
           /\ (o % 2 = 1) <=> more
           /\ (o - (o % 2)) * 4 = from
           /\ o = 0 <=> (from = 0 /\ ~more)
<1>1. from \div 4 = 2 * v
  OBVIOUS
<1>2. OffsetField(from, more) = IF more THEN 2 * v + 1 ELSE 2 * v
  BY <1>1 DEF OffsetField
<1> QED BY <1>2

\* What Cut asks of the number of a fragment: the one before it is not the last.
IsCut(length, r, k) == k = 0 \/ ~IsLast(length, r, (k - 1) * Step(r))

\* What a fragment of a packet says of itself is true.
LEMMA FragmentFields ==
    ASSUME NEW seq \in Nat, NEW length \in Nat, NEW r \in Nat, r >= 8, NEW k \in Nat,
           IsCut(length, r, k)
    PROVE  LET f == FragmentAt(seq, length, r, k * Step(r)) IN
           /\ f \in Fragment
           /\ f.piece.seq = seq /\ f.piece.from = k * Step(r)
           /\ f.piece.to = IF IsLast(length, r, k * Step(r)) THEN length
                           ELSE (k + 1) * Step(r)
           /\ Offset(f) = k * Step(r)
           /\ More(f) <=> ~IsLast(length, r, k * Step(r))
           /\ Genuine(f, length)
<1> DEFINE from == k * Step(r)
           s == Step(r)
           lst == IsLast(length, r, from)
           to == IF lst THEN length ELSE from + s
           o == OffsetField(from, ~lst)
           f == FragmentAt(seq, length, r, from)
<1>1. from \in Nat /\ s \in Nat /\ s <= r /\ (k + 1) * s = from + s
  BY StepIsEights
<1>2. PICK v \in Nat : from = 8 * v
  BY StepIsEights
<1>3. lst \in BOOLEAN /\ lst = (from + r >= length)
  BY DEF IsLast
<1>4. from <= length
  <2>1. CASE k = 0
    <3>1. 0 * s = 0
      BY <1>1
    <3> QED BY <2>1, <3>1
  <2>2. CASE k # 0
    <3> DEFINE j == k - 1
    <3>1. j \in Nat /\ k = j + 1 /\ ~(j * s + r >= length)
      BY <2>2 DEF IsCut, IsLast
    <3>2. j * s \in Nat /\ (j + 1) * s = j * s + s
      BY <3>1, StepIsEights
    <3>3. from = j * s + s
      BY <3>1, <3>2
    <3> HIDE DEF from, s, j
    <3> QED BY <1>1, <3>1, <3>2, <3>3
  <2> QED BY <2>1, <2>2
<1>5. f = [piece |-> [seq |-> seq, from |-> from, to |-> to], offset |-> o]
  BY DEF FragmentAt
<1> HIDE DEF from, s
<1>6. /\ o \in Nat /\ ((o % 2 = 1) <=> ~lst) /\ (o - (o % 2)) * 4 = from
      /\ (o = 0 <=> (from = 0 /\ lst))
  BY <1>1, <1>2, <1>3, OffsetFieldBits
<1>7. to \in Nat /\ from <= to /\ to <= length /\ (lst => to = length)
  <2>1. CASE lst
    BY <1>1, <1>4, <2>1
  <2>2. CASE ~lst
    <3>1. from + r < length
      BY <1>1, <2>2 DEF IsLast
    <3> QED BY <1>1, <2>2, <3>1
  <2> QED BY <2>1, <2>2
<1> HIDE DEF lst, to, o, f
<1>8. f \in Fragment /\ f.piece.seq = seq /\ f.piece.from = from /\ f.piece.to = to
      /\ f.offset = o
  BY <1>1, <1>5, <1>6, <1>7 DEF Fragment, Piece
<1>9. Offset(f) = from /\ (More(f) <=> ~lst)
  BY <1>6, <1>8 DEF Offset, More
<1>10. Genuine(f, length)
  BY <1>6, <1>7, <1>8, <1>9 DEF Genuine, IsFragment
<1>11. to = IF lst THEN length ELSE (k + 1) * s
  BY <1>1 DEF to
<1> QED BY <1>8, <1>9, <1>10, <1>11 DEF f, from, lst, s

-----------------------------------------------------------------------------
(* The inductive invariant. *)

Types ==
    /\ room \in Rooms
    /\ outgoing_sequence \in Nat /\ incoming_sequence \in Nat
    /\ incoming_unreliable \in Nat
    /\ in_fragment \in Buffer
    /\ wire \in SUBSET Fragment
    /\ sent \in SUBSET SentPacket
    /\ received \in Seq(Taken)

\* a number is used once
Numbered == \A p \in sent : p.seq < outgoing_sequence

\* every fragment is a piece of a packet that was sent
FromSent(f) == \E p \in sent : f.piece.seq = p.seq /\ Genuine(f, p.length)

\* the length of the buffer is where its last piece ends
Filled(seq, b) == PrefixOf(seq, b) /\ (b.pieces = <<>> => b.length = 0)

Behind == \A i \in 1..Len(received) : received[i].seq <= incoming_sequence

FInv ==
    /\ Types
    /\ Numbered
    /\ \A f \in wire : FromSent(f)
    /\ Filled(incoming_unreliable, in_fragment)
    /\ Behind

\* What joining a fragment to what it follows makes.
LEMMA JoinedFields ==
    ASSUME NEW b \in Buffer, NEW f \in Fragment,
           f.piece.from = b.length, f.piece.from <= f.piece.to
    PROVE  Joined(b, f) \in Buffer /\ Joined(b, f).length = f.piece.to
<1>1. /\ b.pieces \in Seq(Piece) /\ b.length \in Nat /\ f.piece \in Piece
      /\ f.piece.from \in Nat /\ f.piece.to \in Nat
  BY DEF Buffer, Fragment, Piece
<1>2. Append(b.pieces, f.piece) \in Seq(Piece)
  BY <1>1, AppendProperties
<1>3. b.length + Length(f) = f.piece.to
  BY <1>1 DEF Length
<1> QED BY <1>1, <1>2, <1>3 DEF Joined, Buffer

\* A fragment that follows what is there extends it by its own bytes.
LEMMA JoinedIsFilled ==
    ASSUME NEW b \in Buffer, NEW f \in Fragment, NEW seq \in Nat,
           Filled(seq, b), f.piece.seq = seq,
           f.piece.from = b.length, f.piece.from <= f.piece.to
    PROVE  /\ Joined(b, f) \in Buffer
           /\ Filled(seq, Joined(b, f))
           /\ Joined(b, f).length = f.piece.to
<1> DEFINE ps == Append(b.pieces, f.piece)
           n == b.length + Length(f)
<1>1. /\ b.pieces \in Seq(Piece) /\ b.length \in Nat /\ f.piece \in Piece
      /\ f.piece.from \in Nat /\ f.piece.to \in Nat
  BY DEF Buffer, Fragment, Piece
<1>2. n = f.piece.to
  BY <1>1 DEF Length
<1>3. Joined(b, f) = [length |-> n, pieces |-> ps]
  BY DEF Joined
<1>4. /\ ps \in Seq(Piece) /\ Len(ps) = Len(b.pieces) + 1 /\ Len(b.pieces) \in Nat
      /\ \A i \in 1..Len(b.pieces) : ps[i] = b.pieces[i]
      /\ ps[Len(b.pieces) + 1] = f.piece
      /\ ps # <<>>
  BY <1>1, AppendProperties, LenProperties, SMTT(40)
<1> HIDE DEF ps, n
<1>5. ASSUME NEW i \in 1..Len(ps)
      PROVE  /\ ps[i].seq = seq
             /\ ps[i].from = IF i = 1 THEN 0 ELSE ps[i - 1].to
             /\ i = Len(ps) => ps[i].to = n
  <2>1. CASE i \in 1..Len(b.pieces)
    <3>1. /\ b.pieces[i].seq = seq
          /\ b.pieces[i].from = IF i = 1 THEN 0 ELSE b.pieces[i - 1].to
      BY <2>1 DEF Filled, PrefixOf
    <3>2. i # Len(ps) /\ (i # 1 => i - 1 \in 1..Len(b.pieces))
      <4>1. Len(ps) = Len(b.pieces) + 1 /\ Len(b.pieces) \in Nat
        BY <1>4
      <4> QED BY <2>1, <4>1
    <3>3. ps[i] = b.pieces[i] /\ (i # 1 => ps[i - 1] = b.pieces[i - 1])
      BY <1>4, <2>1, <3>2, Zenon
    <3> QED BY <3>1, <3>2, <3>3
  <2>2. CASE i = Len(b.pieces) + 1
    <3>1. ps[i] = f.piece /\ (i # 1 => ps[i - 1] = b.pieces[Len(b.pieces)])
      BY <1>4, <2>2
    <3>2. i = 1 => b.length = 0
      BY <1>1, <1>4, <2>2, EmptySeq DEF Filled
    <3>3. i # 1 => b.pieces[Len(b.pieces)].to = b.length
      BY <1>4, <2>2 DEF Filled, PrefixOf
    <3> QED BY <1>1, <1>2, <3>1, <3>2, <3>3
  <2> QED BY <1>4, <2>1, <2>2
<1>6. Joined(b, f) \in Buffer
  BY <1>1, <1>2, <1>3, <1>4 DEF Buffer
<1>7. Filled(seq, Joined(b, f))
  BY <1>3, <1>4, <1>5, SMTT(40) DEF Filled, PrefixOf
<1> QED BY <1>2, <1>3, <1>6, <1>7

\* An empty buffer is the beginning of any packet.
LEMMA EmptyIsFilled ==
    Empty \in Buffer /\ \A seq \in Nat : Filled(seq, Empty)
<1>1. Empty.pieces = <<>> /\ Empty.length = 0
  BY DEF Empty
<1>2. Empty \in Buffer
  BY EmptySeq DEF Empty, Buffer
<1>3. Len(Empty.pieces) = 0
  BY <1>1, EmptySeq
<1> QED BY <1>1, <1>2, <1>3 DEF Filled, PrefixOf

\* A fragment of the packet being put together, after what does not belong is forgotten.
LEMMA KeptIsFilled ==
    ASSUME FInv, NEW f \in wire
    PROVE  LET b == Kept(in_fragment, incoming_unreliable, f) IN
           /\ b \in Buffer /\ Filled(f.piece.seq, b)
<1>1. f \in Fragment /\ f.piece.seq \in Nat
  BY DEF FInv, Types, Fragment, Piece
<1> QED BY <1>1, EmptyIsFilled DEF Kept, FInv, Types

\* The packet a fragment completes is one that was sent.
LEMMA WholeIsSent ==
    ASSUME FInv, NEW f \in wire, ~Stale(f), NEW b \in Buffer, Filled(f.piece.seq, b),
           f.piece.from = b.length,
           ~IsFragment(f) \/ ~More(f)
    PROVE  \E p \in sent :
              /\ p.seq = f.piece.seq
              /\ Joined(b, f) \in Buffer
              /\ Filled(p.seq, Joined(b, f))
              /\ Joined(b, f).length = p.length
              /\ \A i \in 1..Len(received) : received[i].seq < p.seq
<1>1. f \in Fragment /\ f.piece.seq \in Nat
  BY DEF FInv, Types, Fragment, Piece
<1>2. PICK p \in sent : f.piece.seq = p.seq /\ Genuine(f, p.length)
  BY DEF FInv, FromSent
<1>3. f.piece.from <= f.piece.to /\ f.piece.to = p.length
  BY <1>2 DEF Genuine
<1>4. /\ Joined(b, f) \in Buffer /\ Filled(p.seq, Joined(b, f))
      /\ Joined(b, f).length = p.length
  BY <1>1, <1>2, <1>3, JoinedIsFilled
<1>5. \A i \in 1..Len(received) : received[i].seq < p.seq
  <2>1. \A i \in 1..Len(received) : received[i].seq \in Nat
    <3>1. \A i \in 1..Len(received) : received[i] \in Taken
      BY DEF FInv, Types
    <3> QED BY <3>1 DEF Taken
  <2> QED BY <1>1, <1>2, <2>1 DEF FInv, Behind, Stale, Types
<1> QED BY <1>2, <1>4, <1>5

\* Every step of either end keeps the invariant.
LEMMA FNext == FInv /\ [Next]_vars => FInv'
<1> SUFFICES ASSUME FInv, [Next]_vars PROVE FInv'
  OBVIOUS
<1>1. Types
  BY DEF FInv
<1>2. ASSUME NEW length \in Lengths, NEW r \in Rooms, Transmit(length, r) PROVE FInv'
  <2> DEFINE p == [seq |-> outgoing_sequence, length |-> length]
  <2>1. /\ length \in Nat /\ r \in Nat /\ r >= 8
        /\ \A q \in Rooms : q \in Nat /\ q >= 8
        /\ outgoing_sequence \in Nat
    BY <1>1, SizesAssumption DEF Types
  <2>2. PICK tried \in SUBSET {q \in Rooms : r < q /\ q <= room} :
          wire' = wire \cup Cut(outgoing_sequence, length, r)
                       \cup {FragmentAt(outgoing_sequence, length, q, 0) : q \in tried}
    BY <1>2 DEF Transmit
  <2>3. sent' = sent \cup {p} /\ outgoing_sequence' = outgoing_sequence + 1 /\ room' = r
        /\ UNCHANGED <<incoming_sequence, incoming_unreliable, in_fragment, received>>
    BY <1>2 DEF Transmit
  <2>4. p \in SentPacket /\ p.seq = outgoing_sequence /\ p.length = length
    BY <2>1 DEF SentPacket
  <2> HIDE DEF p
  <2>5. ASSUME NEW f \in wire', f \notin wire
        PROVE  f \in Fragment /\ f.piece.seq = p.seq /\ Genuine(f, p.length)
    <3>1. \E q \in Rooms, k \in Nat :
             /\ IsCut(length, q, k)
             /\ f = FragmentAt(outgoing_sequence, length, q, k * Step(q))
      <4>1. CASE f \in Cut(outgoing_sequence, length, r)
        <5>1. PICK k \in 0..length :
                 /\ k = 0 \/ ~IsLast(length, r, (k - 1) * Step(r))
                 /\ f = FragmentAt(outgoing_sequence, length, r, k * Step(r))
          BY <4>1 DEF Cut
        <5> QED BY <2>1, <5>1 DEF IsCut
      <4>2. CASE f \in {FragmentAt(outgoing_sequence, length, q, 0) : q \in tried}
        <5>1. PICK q \in tried : f = FragmentAt(outgoing_sequence, length, q, 0)
          BY <4>2
        <5>2. 0 * Step(q) = 0 /\ q \in Rooms
          BY <2>1, StepIsEights
        <5> QED BY <5>1, <5>2 DEF IsCut
      <4> QED BY <2>2, <2>5, <4>1, <4>2
    <3>2. PICK q \in Rooms, k \in Nat :
             /\ IsCut(length, q, k)
             /\ f = FragmentAt(outgoing_sequence, length, q, k * Step(q))
      BY <3>1
    <3>3. /\ f \in Fragment /\ f.piece.seq = outgoing_sequence /\ Genuine(f, length)
      <4>1. q \in Nat /\ q >= 8
        BY <2>1
      <4> QED BY <2>1, <3>2, <4>1, FragmentFields
    <3> QED BY <2>4, <3>3
  <2>6. \A f \in wire' : f \in Fragment /\ FromSent(f)'
    BY <1>1, <2>3, <2>5 DEF FInv, FromSent, Types
  <2>7. Types'
    BY <1>1, <2>1, <2>3, <2>4, <2>6 DEF Types
  <2>8. Numbered'
    BY <1>1, <2>1, <2>3, <2>4 DEF FInv, Numbered, Types, SentPacket
  <2>9. Filled(incoming_unreliable, in_fragment)' /\ Behind'
    BY <2>3 DEF FInv, Behind
  <2> QED BY <2>6, <2>7, <2>8, <2>9 DEF FInv
<1>3. ASSUME NEW r \in Rooms, ChangeRoom(r) PROVE FInv'
  BY <1>3 DEF ChangeRoom, FInv, Types, Numbered, FromSent, Behind
<1>4. ASSUME NEW f \in wire, NEW b \in Buffer, Filled(f.piece.seq, b), ~Stale(f),
             f.piece.from = b.length, ~IsFragment(f) \/ ~More(f),
             Complete(f.piece.seq, Joined(b, f)),
             UNCHANGED <<room, outgoing_sequence, wire, sent>>
      PROVE  FInv'
  <2>1. PICK p \in sent :
              /\ p.seq = f.piece.seq
              /\ Joined(b, f) \in Buffer
              /\ \A i \in 1..Len(received) : received[i].seq < p.seq
    BY <1>4, WholeIsSent
  <2>2. p.seq \in Nat
    BY <1>1 DEF Types, SentPacket
  <2> DEFINE x == [seq |-> f.piece.seq, buffer |-> Joined(b, f)]
  <2>3. /\ received' = Append(received, x)
        /\ incoming_sequence' = p.seq /\ incoming_unreliable' = 0 /\ in_fragment' = Empty
    BY <1>4, <2>1 DEF Complete
  <2>4. x \in Taken /\ x.seq = p.seq
    BY <2>1, <2>2 DEF Taken
  <2> HIDE DEF x
  <2>5. received' \in Seq(Taken) /\ Behind'
    <3>1. received \in Seq(Taken) /\ Len(received) \in Nat
      BY <1>1, LenProperties DEF Types
    <3>2. /\ received' \in Seq(Taken) /\ Len(received') = Len(received) + 1
          /\ \A i \in 1..Len(received) : received'[i] = received[i]
          /\ received'[Len(received) + 1] = x
      BY <2>3, <2>4, <3>1, AppendProperties
    <3>3. \A i \in 1..Len(received) : received[i].seq \in Nat
      <4>1. \A i \in 1..Len(received) : received[i] \in Taken
        BY <3>1
      <4> QED BY <4>1 DEF Taken
    <3>4. ASSUME NEW i \in 1..Len(received') PROVE received'[i].seq <= p.seq
      <4>1. CASE i \in 1..Len(received)
        BY <2>1, <2>2, <3>2, <3>3, <4>1
      <4>2. CASE i = Len(received) + 1
        BY <2>2, <2>4, <3>2, <4>2
      <4> QED BY <3>1, <3>2, <4>1, <4>2
    <3> QED BY <2>3, <3>2, <3>4 DEF Behind
  <2>6. Types' /\ Filled(incoming_unreliable, in_fragment)'
    BY <1>1, <1>4, <2>2, <2>3, <2>5, EmptyIsFilled DEF Types
  <2> QED BY <1>4, <2>5, <2>6 DEF FInv, Numbered, FromSent
<1>5. ASSUME NEW f \in wire, ReceiveWhole(f) PROVE FInv'
  <2>1. f.piece.from = Empty.length
    BY <1>5 DEF ReceiveWhole, FInv, FromSent, Genuine, Empty
  <2>2. Filled(f.piece.seq, Empty) /\ Empty \in Buffer
    BY <1>1, EmptyIsFilled DEF Types, Fragment, Piece
  <2> QED BY <1>4, <1>5, <2>1, <2>2 DEF ReceiveWhole
<1>6. ASSUME NEW f \in wire, ReceiveFragment(f) PROVE FInv'
  <2> DEFINE b == Kept(in_fragment, incoming_unreliable, f)
  <2>1. b \in Buffer /\ Filled(f.piece.seq, b)
    BY KeptIsFilled
  <2>2. /\ ~Stale(f) /\ IsFragment(f)
        /\ UNCHANGED <<room, outgoing_sequence, wire, sent>>
        /\ IF Follows(b, f) /\ ~More(f)
           THEN Complete(f.piece.seq, Joined(b, f))
           ELSE /\ incoming_unreliable' = f.piece.seq
                /\ in_fragment' = IF Follows(b, f) THEN Joined(b, f) ELSE b
                /\ UNCHANGED <<incoming_sequence, received>>
    BY <1>6 DEF ReceiveFragment
  <2>3. Follows(b, f) => f.piece.from = b.length /\ f.piece.from <= f.piece.to
    BY <2>2 DEF FInv, FromSent, Genuine, Follows
  <2>4. f \in Fragment /\ f.piece.seq \in Nat
    BY <1>1 DEF Types, Fragment, Piece
  <2> HIDE DEF b
  <2>5. CASE Follows(b, f) /\ ~More(f)
    BY <1>4, <2>1, <2>2, <2>3, <2>5
  <2>6. CASE ~(Follows(b, f) /\ ~More(f))
    <3>1. in_fragment' \in Buffer /\ Filled(f.piece.seq, in_fragment')
      BY <2>1, <2>2, <2>3, <2>4, <2>6, JoinedIsFilled
    <3> QED BY <1>1, <2>2, <2>4, <2>6, <3>1
            DEF FInv, Types, Numbered, FromSent, Behind
  <2> QED BY <2>5, <2>6
<1>7. ASSUME UNCHANGED vars PROVE FInv'
  BY <1>7 DEF vars, FInv, Types, Numbered, FromSent, Behind
<1> QED BY <1>2, <1>3, <1>5, <1>6, <1>7 DEF Next

\* Nothing has been sent at first.
LEMMA FInit == Init => FInv
<1> SUFFICES ASSUME Init PROVE FInv
  OBVIOUS
<1>1. received = <<>> /\ <<>> \in Seq(Taken) /\ Len(<<>>) = 0
  BY EmptySeq DEF Init
<1> QED BY <1>1, EmptyIsFilled DEF Init, FInv, Types, Numbered, Behind

\* What the fragments on the wire and in the buffer are, in every reachable state.
THEOREM Invariant == Spec => []FInv
BY FInit, FNext, PTL DEF Spec

\* Netchan_Process never mixes two packets in in_fragment_buf and never leaves a gap.
THEOREM BufferIsOnePacket == Spec => []BufferIsPrefix
<1>1. FInv => BufferIsPrefix
  BY DEF FInv, Filled, BufferIsPrefix
<1> QED BY <1>1, Invariant, PTL

-----------------------------------------------------------------------------
(* The refinement of PacketLink. *)

\* Taking a packet adds it to what came out.
LEMMA TakenAppends ==
    ASSUME FInv, NEW f \in wire, ~Stale(f), NEW b \in Buffer, Filled(f.piece.seq, b),
           f.piece.from = b.length, ~IsFragment(f) \/ ~More(f),
           Complete(f.piece.seq, Joined(b, f)), sent' = sent
    PROVE  Link!Take
<1> DEFINE x == [seq |-> f.piece.seq, buffer |-> Joined(b, f)]
           was == [i \in 1..Len(received) |-> AsPacket(received[i])]
<1>1. PICK p \in sent :
              /\ p.seq = f.piece.seq
              /\ Joined(b, f) \in Buffer
              /\ Filled(p.seq, Joined(b, f))
              /\ Joined(b, f).length = p.length
              /\ \A i \in 1..Len(received) : received[i].seq < p.seq
  BY WholeIsSent
<1>2. AsPacket(x) = p
  <2>1. p = [seq |-> p.seq, length |-> p.length]
    BY DEF FInv, Types, SentPacket
  <2>2. PrefixOf(x.seq, x.buffer) /\ x.buffer.length = p.length /\ x.seq = p.seq
    BY <1>1 DEF Filled
  <2>3. AsPacket(x) = [seq |-> p.seq, length |-> p.length]
    BY <2>2, Zenon DEF AsPacket
  <2> QED BY <2>1, <2>3
<1>3. received' = Append(received, x) /\ x \in Taken
  <2>1. p.seq \in Nat
    BY DEF FInv, Types, SentPacket
  <2> QED BY <1>1, <2>1 DEF Complete, Taken
<1> HIDE DEF x
<1>4. /\ received \in Seq(Taken) /\ Len(received) \in Nat
      /\ Len(received') = Len(received) + 1
      /\ \A i \in 1..Len(received) : received'[i] = received[i]
      /\ received'[Len(received) + 1] = x
  BY <1>3, AppendProperties, LenProperties DEF FInv, Types
<1>5. [i \in 1..Len(received') |-> AsPacket(received'[i])] = Append(was, p)
  <2> DEFINE n == Len(received)
             h(i) == AsPacket(received'[i])
             g(i) == AsPacket(received[i])
  <2>1. n \in Nat /\ Len(received') = n + 1 /\ h(n + 1) = p /\ \A i \in 1..n : h(i) = g(i)
    BY <1>2, <1>4
  <2>2. ASSUME NEW m \in Nat PROVE Len([i \in 1..m |-> g(i)]) = m
    OBVIOUS
  <2>3. Append([i \in 1..n |-> g(i)], p) = [i \in 1..n + 1 |-> h(i)]
    <3> HIDE DEF n, h, g
    <3> QED BY <2>1, <2>2
  <2> QED BY <2>1, <2>3
<1>6. \A i \in 1..Len(was) : was[i].seq < p.seq
  <2>1. Len(was) = Len(received)
    BY <1>4
  <2>2. \A i \in 1..Len(received) : was[i].seq = received[i].seq
    BY DEF AsPacket
  <2> QED BY <1>1, <2>1, <2>2
<1> QED BY <1>5, <1>6 DEF Link!Take

\* Every step sends a packet, takes one, or is nothing to PacketLink.
LEMMA LinkStep == FInv /\ [Next]_vars => [Link!Next]_Link!vars
<1> SUFFICES ASSUME FInv, [Next]_vars PROVE [Link!Next]_Link!vars
  OBVIOUS
<1>1. ASSUME NEW length \in Lengths, NEW r \in Rooms, Transmit(length, r) PROVE Link!Next
  <2> DEFINE p == [seq |-> outgoing_sequence, length |-> length]
  <2>1. sent' = sent \cup {p} /\ received' = received
    BY <1>1 DEF Transmit
  <2>2. p \in Link!Packet /\ \A q \in sent : q.seq < p.seq
    BY SizesAssumption DEF FInv, Types, Numbered, Link!Packet
  <2> HIDE DEF p
  <2> QED BY <2>1, <2>2 DEF Link!Next, Link!Send
<1>2. ASSUME NEW r \in Rooms, ChangeRoom(r) PROVE UNCHANGED Link!vars
  BY <1>2 DEF ChangeRoom, Link!vars
<1>3. ASSUME NEW f \in wire, ReceiveWhole(f) PROVE Link!Next
  <2>1. f.piece.from = Empty.length
    BY <1>3 DEF ReceiveWhole, FInv, FromSent, Genuine, Empty
  <2>2. Filled(f.piece.seq, Empty) /\ Empty \in Buffer
    BY EmptyIsFilled DEF FInv, Types, Fragment, Piece
  <2>3. Link!Take
    BY <1>3, <2>1, <2>2, TakenAppends DEF ReceiveWhole
  <2> QED BY <2>3 DEF Link!Next
<1>4. ASSUME NEW f \in wire, ReceiveFragment(f) PROVE [Link!Next]_Link!vars
  <2> DEFINE b == Kept(in_fragment, incoming_unreliable, f)
  <2>1. b \in Buffer /\ Filled(f.piece.seq, b)
    BY KeptIsFilled
  <2>2. /\ ~Stale(f) /\ IsFragment(f)
        /\ sent' = sent
        /\ IF Follows(b, f) /\ ~More(f)
           THEN Complete(f.piece.seq, Joined(b, f))
           ELSE received' = received
    BY <1>4 DEF ReceiveFragment
  <2>3. Follows(b, f) => f.piece.from = b.length
    BY <2>2 DEF FInv, FromSent, Genuine, Follows
  <2> HIDE DEF b
  <2>4. CASE Follows(b, f) /\ ~More(f)
    BY <2>1, <2>2, <2>3, <2>4, TakenAppends DEF Link!Next
  <2>5. CASE ~(Follows(b, f) /\ ~More(f))
    BY <2>2, <2>5 DEF Link!vars
  <2> QED BY <2>4, <2>5
<1>5. ASSUME UNCHANGED vars PROVE UNCHANGED Link!vars
  BY <1>5 DEF vars, Link!vars
<1> QED BY <1>1, <1>2, <1>3, <1>4, <1>5 DEF Next

\* Cut up and put together, packets still come out whole, unmixed, in the order of
\* their numbers and at most once: what NetChan assumes of its network.
THEOREM ImplementsLink == Spec => LinkSpec
<1>1. Init => Link!Init
  <2>1. Init => sent = {} /\ received = <<>> /\ Len(<<>>) = 0
    BY EmptySeq DEF Init
  <2>2. \A n : n = 0 => [i \in 1..n |-> AsPacket(received[i])] = <<>>
    OBVIOUS
  <2> QED BY <2>1, <2>2 DEF Link!Init
<1> QED BY <1>1, Invariant, LinkStep, PTL DEF Spec, LinkSpec, Link!Spec

-----------------------------------------------------------------------------
(* Whatever is cut can be put together. *)

\* The first fragment that reaches the end of the packet.
LEMMA LastFragment ==
    ASSUME NEW length \in Nat, NEW r \in Nat, r >= 8
    PROVE  \E k \in 0..length :
              /\ IsLast(length, r, k * Step(r))
              /\ \A j \in 0..k - 1 : ~IsLast(length, r, j * Step(r))
<1> DEFINE T == {k \in 0..length : IsLast(length, r, k * Step(r))}
<1>1. length \in T
  <2>1. length * Step(r) \in Nat /\ length * Step(r) >= length
    BY StepIsEights
  <2> QED BY <2>1 DEF IsLast
<1>2. T \in SUBSET Nat /\ T # {}
  BY <1>1
<1>3. PICK k \in T : \A j \in T : k <= j
  <2> HIDE DEF T
  <2> QED BY <1>2, SmallestElement
<1>4. \A j \in 0..k - 1 : ~IsLast(length, r, j * Step(r))
  BY <1>3
<1> QED BY <1>3, <1>4

\* GetsThrough, with the number of the last fragment named.
AddsUp(seq, length, r, last) ==
    LET fragment(k) == FragmentAt(seq, length, r, k * Step(r))
        after[k \in 0..last] ==
            LET b == IF k = 0 THEN Empty ELSE after[k - 1] IN
            IF Follows(b, fragment(k)) THEN Joined(b, fragment(k)) ELSE b
    IN  /\ after[last].length = length
        /\ \A k \in 0..last : More(fragment(k)) = (k < last)

\* After k + 1 fragments the buffer ends where the next one begins.
LEMMA FragmentsAddUp ==
    ASSUME NEW seq \in Nat, NEW length \in Nat, NEW r \in Nat, r >= 8,
           NEW last \in 0..length,
           IsLast(length, r, last * Step(r)),
           \A j \in 0..last - 1 : ~IsLast(length, r, j * Step(r))
    PROVE  AddsUp(seq, length, r, last)
<1> DEFINE fragment(k) == FragmentAt(seq, length, r, k * Step(r))
           Taking(b, f) == IF Follows(b, f) THEN Joined(b, f) ELSE b
           IsAfter(g) == g = [k \in 0..last |->
                                LET b == IF k = 0 THEN Empty ELSE g[k - 1] IN
                                IF Follows(b, fragment(k)) THEN Joined(b, fragment(k)) ELSE b]
           end(k) == IF k = last THEN length ELSE (k + 1) * Step(r)
<1>1. ASSUME NEW k \in 0..last
      PROVE  /\ fragment(k) \in Fragment
             /\ fragment(k).piece.from = k * Step(r) /\ fragment(k).piece.to = end(k)
             /\ Offset(fragment(k)) = k * Step(r)
             /\ More(fragment(k)) = (k < last)
             /\ fragment(k).piece.from <= fragment(k).piece.to
  <2>0. k \in Nat /\ (k # last => k \in 0..last - 1)
    OBVIOUS
  <2>1. IsCut(length, r, k)
    <3>1. CASE k # 0
      <4>1. k - 1 \in 0..last - 1
        BY <3>1
      <4> QED BY <4>1 DEF IsCut
    <3> QED BY <3>1 DEF IsCut
  <2>2. IsLast(length, r, k * Step(r)) <=> k = last
    BY <2>0
  <2>3. More(fragment(k)) \in BOOLEAN
    BY DEF More
  <2>4. /\ fragment(k) \in Fragment
        /\ fragment(k).piece.from = k * Step(r) /\ fragment(k).piece.to = end(k)
        /\ Offset(fragment(k)) = k * Step(r)
        /\ More(fragment(k)) <=> k # last
        /\ fragment(k).piece.from <= fragment(k).piece.to
    BY <2>0, <2>1, <2>2, FragmentFields DEF Genuine
  <2>5. k # last <=> k < last
    OBVIOUS
  <2> HIDE DEF fragment, end
  <2> QED BY <2>3, <2>4, <2>5
<1>2. \E g : IsAfter(g)
  <2> DEFINE base == Taking(Empty, fragment(0))
             D == [x \in (1..last) \X Buffer |-> Taking(x[2], fragment(x[1]))]
  <2>1. ASSUME NEW k \in 0..last, NEW b \in Buffer PROVE Taking(b, fragment(k)) \in Buffer
    <3> DEFINE f == fragment(k)
    <3>1. f \in Fragment
      BY <1>1
    <3>2. f.piece.from = Offset(f) /\ f.piece.from <= f.piece.to
      BY <1>1
    <3> HIDE DEF f
    <3>3. Taking(b, f) \in Buffer
      BY <3>1, <3>2, JoinedFields DEF Follows
    <3> QED BY <3>3 DEF f
  <2>2. base \in Buffer
    BY <2>1, EmptyIsFilled
  <2>3. D \in [(1..last) \X Buffer -> Buffer]
    BY <2>1
  <2>4. PICK g \in [0..last -> Buffer] : Recursion(g, last, base, D)
    <3>1. last \in Nat
      OBVIOUS
    <3> HIDE DEF base, D
    <3> QED BY <2>2, <2>3, <3>1, RecursionExists, Zenon
  <2>5. \A i \in 1..last : D[<<i, g[i - 1]>>] = Taking(g[i - 1], fragment(i))
    BY <2>4
  <2> HIDE DEF Taking, fragment
  <2>6. ASSUME NEW k \in 0..last
        PROVE  g[k] = Taking(IF k = 0 THEN Empty ELSE g[k - 1], fragment(k))
    <3>1. CASE k = 0
      <4>1. g[0] = base
        BY <2>4, Zenon DEF Recursion
      <4> QED BY <3>1, <4>1
    <3>2. CASE k # 0
      <4>1. k \in 1..last
        BY <3>2
      <4>2. g[k] = D[<<k, g[k - 1]>>]
        BY <2>4, <4>1, Zenon DEF Recursion
      <4> HIDE DEF D
      <4> QED BY <2>5, <3>2, <4>1, <4>2
    <3> QED BY <3>1, <3>2
  <2>7. g = [k \in 0..last |-> Taking(IF k = 0 THEN Empty ELSE g[k - 1], fragment(k))]
    BY <2>4, <2>6
  <2> QED BY <2>7 DEF Taking
<1>3. ASSUME NEW g, IsAfter(g) PROVE g[last].length = length
  <2> DEFINE S == {k \in 0..last : g[k] \in Buffer /\ g[k].length = end(k)}
  <2>1. \A k \in 0..last : g[k] = Taking(IF k = 0 THEN Empty ELSE g[k - 1], fragment(k))
    BY <1>3
  <2>2. ASSUME NEW k \in 0..last, NEW b \in Buffer, b.length = k * Step(r)
        PROVE  Taking(b, fragment(k)) \in Buffer /\ Taking(b, fragment(k)).length = end(k)
    <3> DEFINE f == fragment(k)
    <3>1. /\ f \in Fragment /\ f.piece.from = b.length /\ f.piece.from <= f.piece.to
          /\ f.piece.to = end(k) /\ Offset(f) = b.length
      BY <1>1, <2>2
    <3> HIDE DEF f, end
    <3>2. Taking(b, f) \in Buffer /\ Taking(b, f).length = end(k)
      BY <3>1, JoinedFields DEF Follows
    <3> QED BY <3>2 DEF f
  <2> HIDE DEF Taking, fragment
  <2>3. 0 \in S
    <3>1. 0 * Step(r) = 0
      BY StepIsEights
    <3>2. Empty.length = 0 /\ Empty \in Buffer
      BY EmptyIsFilled DEF Empty
    <3> HIDE DEF end
    <3> QED BY <2>1, <2>2, <3>1, <3>2
  <2>4. ASSUME NEW k \in 0..last - 1, k \in S PROVE k + 1 \in S
    <3>1. g[k].length = (k + 1) * Step(r) /\ g[k] \in Buffer
      BY <2>4
    <3>2. g[k + 1] = Taking(g[k], fragment(k + 1)) /\ k + 1 \in 0..last
      BY <2>1
    <3> HIDE DEF end
    <3> QED BY <2>2, <3>1, <3>2
  <2> HIDE DEF S
  <2>5. last \in S
    <3>1. last \in Nat /\ last \in 0..last
      OBVIOUS
    <3>2. \A k \in 0..last : k \in S
      BY <2>3, <2>4, <3>1, SetInductionUpTo, Zenon
    <3> QED BY <3>1, <3>2
  <2> QED BY <2>5 DEF S
<1> QED BY <1>1, <1>2, <1>3 DEF AddsUp

\* Every packet that was cut up gets through whole, when its fragments arrive one after
\* the other, at any size of the path.
THEOREM CuttingLosesNothing == Spec => []FragmentsSuffice
<1>1. FInv => FragmentsSuffice
  <2> SUFFICES ASSUME FInv, NEW p \in sent, NEW r \in Rooms PROVE GetsThrough(p, r)
    BY DEF FragmentsSuffice
  <2>1. p.seq \in Nat /\ p.length \in Nat /\ r \in Nat /\ r >= 8
    BY SizesAssumption DEF FInv, Types, SentPacket
  <2> DEFINE last == CHOOSE k \in 0..p.length :
                        /\ IsLast(p.length, r, k * Step(r))
                        /\ \A j \in 0..k - 1 : ~IsLast(p.length, r, j * Step(r))
  <2>2. /\ last \in 0..p.length
        /\ IsLast(p.length, r, last * Step(r))
        /\ \A j \in 0..last - 1 : ~IsLast(p.length, r, j * Step(r))
    BY <2>1, LastFragment, Zenon
  <2> HIDE DEF last
  <2>3. AddsUp(p.seq, p.length, r, last)
    BY <2>1, <2>2, FragmentsAddUp, Zenon
  <2> QED BY <2>3, Zenon DEF GetsThrough, AddsUp, last
<1> QED BY <1>1, Invariant, PTL
=============================================================================
