------------------------- MODULE EntityDeltasProofs -------------------------
(***************************************************************************)
(* What the replacement deltas keep for every number of entities, every    *)
(* size of the log of frames and of packets, and however packets are lost  *)
(* and overtake each other: no difference between what the server counts   *)
(* as told and what the client shows is forgotten, a marked entity is not  *)
(* passed over, and nothing the client shows gets older.                   *)
(*                                                                         *)
(* The first is the hard one.  NothingForgotten looks at entities and at   *)
(* what has arrived; its invariant, Tracked, looks at a field at a time    *)
(* and at the packets under way: the client shows what the server believes *)
(* and no packet will change that, or the field is on the books, pending   *)
(* or in the log of a frame that the client will not report.  A packet     *)
(* that wipes the client's picture is asked the same of what follows it.   *)
(* Order says which frames, reports and packets there can be together.     *)
(***************************************************************************)
EXTENDS EntityDeltas, SequenceTheorems, FiniteSetTheorems, WellFoundedInduction, TLAPS

-----------------------------------------------------------------------------
(* Choosing the smallest. *)

\* A set of natural numbers that is not empty has a smallest element.
LEMMA SmallestElement ==
    ASSUME NEW T \in SUBSET Nat, T # {}
    PROVE  \E x \in T : \A y \in T : x <= y
<1>1. PICK x \in T : \A y \in T : ~(<<y, x>> \in OpToRel(<, Nat))
  BY NatLessThanWellFounded, WFMin, Zenon
<1>2. \A a, b \in Nat : a < b => <<a, b>> \in OpToRel(<, Nat)
  BY Zenon DEF OpToRel
<1>3. \A y \in T : ~(y < x)
  BY <1>1, <1>2, Zenon
<1> QED BY <1>3

-----------------------------------------------------------------------------
(* Types. *)

Entity == {Absent} \cup [Fields -> Nat]         \* as the server knows it
Seen == {Absent} \cup [Fields -> Nat \cup {-1}] \* as the client does

BitsOf == [0..MaxEnt -> SUBSET Bits]

\* Bits for every entity; of the world it is only ever said that it is wiped.
ProperBits(bits) == bits \in BitsOf /\ bits[0] \subseteq {"remove"}

ProperFrames(fr) ==
    /\ fr \in [0..Backup - 1 -> [sequence : Nat, resend : BitsOf]]
    /\ \A i \in 0..Backup - 1 : ProperBits(fr[i].resend)

ProperItem(item) ==
    /\ item.kind \in {"nothing", "remove", "update"}
    /\ item.reset \in BOOLEAN
    /\ item.kind = "update" => /\ DOMAIN item.data \subseteq Fields
                               /\ \A f \in DOMAIN item.data : item.data[f] \in Nat

ProperPacket(p) ==
    /\ p.seq \in Nat
    /\ p.section \in BOOLEAN
    /\ p.clear \in BOOLEAN
    /\ \A e \in Ents : /\ ProperItem(p.items[e])
                       /\ p.clear /\ p.items[e].kind = "update" => p.items[e].reset
    /\ ~p.section => /\ ~p.clear
                     /\ \A e \in Ents : p.items[e] = Nothing

ProperReport(p) ==
    /\ p.seq \in Nat
    /\ protocol = "NQ" => p.acks \in Seq(Int)
    /\ protocol = "QW" => p.ack \in Int /\ p.delta \in Int

Server == [incoming : Nat, outgoing : Nat, unreliable : Nat, delta : Int,
           acked : Int, next : Nat, send : BOOLEAN, burst : BOOLEAN]

Client == [ents : [Ents -> Seen], valid : Nat, parsed : Nat, incoming : Int,
           outgoing : Nat, acks : Seq(Int)]

Types ==
    /\ protocol \in {"QW", "NQ"}
    /\ world \in [Ents -> Entity]
    /\ changes \in Nat
    /\ sentents \in [Ents -> Entity]
    /\ ProperBits(pendingdeltabits)
    /\ ProperFrames(frames)
    /\ server \in Server
    /\ client \in Client
    /\ \A p \in s2c : ProperPacket(p)
    /\ \A p \in c2s : ProperReport(p)
    /\ waits \in [Ents -> Nat]
    /\ lapsed \in BOOLEAN
    /\ misled \subseteq Sticky

-----------------------------------------------------------------------------
(* Where what the client must be told of a field stands.  v is the value the *)
(* server believes it told, -2 in an entity that is absent.                  *)

Covers(bits, v, f) == IF v = -2 THEN "remove" \in bits ELSE "reset" \in bits \/ f \in bits

\* The bits of all entities, pending or logged, say that it is to be sent.
Owed(bits, v, e, f) == "remove" \in bits[0] \/ Covers(bits[e], v, f)

\* Whatever the client has, after the packet it has v.
Sets(p, v, e, f) ==
    CASE p.items[e].kind = "nothing" -> p.clear /\ v = -2
      [] p.items[e].kind = "remove" -> v = -2
      [] p.items[e].kind = "update" ->
            IF f \in DOMAIN p.items[e].data THEN p.items[e].data[f] = v
            ELSE p.items[e].reset /\ v = 0

\* If the client has v, it has it after the packet.
Keeps(p, v, e, f) ==
    \/ Sets(p, v, e, f)
    \/ ~p.clear /\ p.items[e].kind = "nothing"
    \/ /\ ~p.clear /\ p.items[e].kind = "update"
       /\ ~p.items[e].reset /\ f \notin DOMAIN p.items[e].data /\ v # -2

Steady(wire, s, v, e, f) == \A p \in wire : p.seq > s => Keeps(p, v, e, f)

\* The numbers of the packets the client reported or is about to report.
Reported == IF protocol = "NQ"
            THEN Range(client.acks) \cup UNION {Range(p.acks) : p \in c2s}
            ELSE {client.incoming} \cup {p.ack : p \in c2s}

\* A frame that is not acknowledged and will be found to be lost if it is: if not,
\* it sets the value and what follows keeps it.
Logs(frame, acked, rep, wire, v, e, f) ==
    /\ frame.sequence > acked
    /\ frame.sequence \notin rep
    /\ Owed(frame.resend, v, e, f)
    /\ \A p \in wire : p.seq = frame.sequence => Sets(p, v, e, f)
    /\ Steady(wire, frame.sequence, v, e, f)

\* Owed, or in the log of a packet after s.
OnBooks(pend, fr, acked, rep, wire, s, v, e, f) ==
    \/ Owed(pend, v, e, f)
    \/ \E i \in 0..Backup - 1 : fr[i].sequence > s /\ Logs(fr[i], acked, rep, wire, v, e, f)

Books(s, e, f) == OnBooks(pendingdeltabits, frames, server.acked, Reported, s2c, s,
                          sentents[e][f], e, f)

Shown(e, f) == /\ client.ents[e][f] = sentents[e][f]
               /\ Steady(s2c, client.incoming, sentents[e][f], e, f)

Brings(p, e, f) == /\ Sets(p, sentents[e][f], e, f)
                   /\ Steady(s2c, p.seq, sentents[e][f], e, f)

\* What the client has is right, or on the books; and so will it be after a packet
\* that starts afresh.
Tracked ==
    \A e \in Ents \ misled, f \in Fields :
        /\ client.valid # 0 => Books(-1, e, f) \/ Shown(e, f)
        /\ \A p \in s2c : p.clear => Books(p.seq, e, f) \/ Brings(p, e, f)

-----------------------------------------------------------------------------
(* The order of the sequences. *)

NextSequence == IF protocol = "NQ" THEN server.unreliable
                ELSE IF server.send THEN server.incoming ELSE server.incoming + 1

\* Frames with something logged are in their place, and older than the next one.
Placed(fr, acked) ==
    \A i \in 0..Backup - 1 : fr[i].resend # NoBits =>
        /\ fr[i].sequence < NextSequence
        /\ Slot(fr[i].sequence) = i
        /\ protocol = "QW" => fr[i].sequence <= acked + Backup

Order ==
    /\ server.acked < NextSequence
    /\ client.incoming < NextSequence
    /\ \A p \in s2c : client.incoming < p.seq /\ p.seq < NextSequence
    /\ \A s \in Reported : s <= client.incoming
    /\ Placed(frames, server.acked)
    /\ protocol = "QW" =>
          /\ ~lapsed
          /\ ~server.burst
          /\ server.incoming < client.outgoing
          /\ \A p \in c2s : server.incoming < p.seq /\ p.seq < client.outgoing
          /\ server.outgoing \in {server.incoming, server.incoming + 1}
          /\ server.send => server.outgoing = server.incoming
    /\ protocol = "NQ" =>
          /\ server.incoming = server.unreliable
          /\ server.outgoing <= server.incoming \/ server.outgoing = 1

IInv == Types /\ Order /\ (lapsed \/ Tracked)

-----------------------------------------------------------------------------
(* The larger and the smaller of two numbers. *)

LEMMA MaxOfTwo ==
    ASSUME NEW a \in Int, NEW b \in Int
    PROVE  Max({a, b}) = IF a >= b THEN a ELSE b
<1> DEFINE m == IF a >= b THEN a ELSE b
<1>1. m \in {a, b} /\ \A y \in {a, b} : m >= y
  OBVIOUS
<1>2. \A x \in {a, b} : (\A y \in {a, b} : x >= y) => x = m
  OBVIOUS
<1> QED BY <1>1, <1>2 DEF Max

LEMMA MinOfTwo ==
    ASSUME NEW a \in Int, NEW b \in Int
    PROVE  Min({a, b}) = IF a <= b THEN a ELSE b
<1> DEFINE m == IF a <= b THEN a ELSE b
<1>1. m \in {a, b} /\ \A y \in {a, b} : m =< y
  OBVIOUS
<1>2. \A x \in {a, b} : (\A y \in {a, b} : x =< y) => x = m
  OBVIOUS
<1> QED BY <1>1, <1>2 DEF Min

\* Numbers of which none is above n have a largest.
LEMMA MaxOfBounded ==
    ASSUME NEW S \in SUBSET Int, S # {}, NEW n \in Int, \A x \in S : x <= n
    PROVE  Max(S) \in S /\ \A y \in S : Max(S) >= y
<1> DEFINE T == {n - x : x \in S}
<1>1. T \in SUBSET Nat /\ T # {}
  <2>1. \A x \in S : n - x \in Nat
    OBVIOUS
  <2> QED BY <2>1
<1>2. \E t \in T : \A u \in T : t <= u
  <2> HIDE DEF T
  <2> QED BY <1>1, SmallestElement
<1>3. PICK x \in S : \A y \in S : n - x <= n - y
  BY <1>2
<1>4. \A y \in S : x >= y
  BY <1>3
<1> QED BY <1>4 DEF Max

LEMMA Runs ==
    ASSUME NEW acked \in Int, NEW framenum \in Int
    PROVE  /\ Acked(acked, framenum) = IF acked >= framenum THEN acked ELSE framenum
           /\ AckRun(acked, framenum) =
                acked + 1 .. (IF framenum <= acked + 1 + Backup
                              THEN framenum ELSE acked + 1 + Backup) - 1
           /\ ReplaceRun(acked, framenum) =
                acked + 1 .. (IF framenum - Backup <= acked + 1 + Backup
                              THEN framenum - Backup ELSE acked + 1 + Backup)
<1>1. Backup \in Nat
  BY DeltaAssumption
<1> QED BY <1>1, MaxOfTwo, MinOfTwo DEF Acked, AckRun, ReplaceRun

LEMMA Sizes ==
    /\ MaxEnt \in Nat /\ MaxEnt >= 1 /\ Ents = 1..MaxEnt /\ Ents \subseteq 0..MaxEnt
    /\ 0 \in 0..MaxEnt /\ 0 \notin Ents
    /\ Backup \in Nat /\ Backup >= 2
    /\ Slots \in Nat /\ Room \in Nat /\ Room >= 1 /\ Slots < Room
    /\ MaxSequence \in Nat
    /\ "reset" \notin Fields /\ "reset2" \notin Fields /\ "remove" \notin Fields
    /\ Sticky \subseteq Ents
BY DeltaAssumption DEF Ents

\* An entity is absent exactly if one of its fields says so.
LEMMA AbsentField ==
    ASSUME NEW ent \in Entity, NEW f \in Fields
    PROVE  /\ ent = Absent <=> ent[f] = -2
           /\ ent[f] \in Int
           /\ ent # Absent => ent[f] \in Nat
BY DEF Entity, Absent

-----------------------------------------------------------------------------
(* What the books say stays when there are fewer reports and packets. *)

LEMMA FewerPackets ==
    ASSUME NEW pend, NEW fr, NEW acked, NEW rep, NEW rep2, NEW wire, NEW wire2,
           NEW s, NEW v, NEW e, NEW f,
           rep2 \subseteq rep, wire2 \subseteq wire,
           OnBooks(pend, fr, acked, rep, wire, s, v, e, f)
    PROVE  OnBooks(pend, fr, acked, rep2, wire2, s, v, e, f)
BY DEF OnBooks, Logs, Steady

-----------------------------------------------------------------------------
(* Folding the logs of frames back into the pending bits. *)

LEMMA NoBitsProper == ProperBits(NoBits)
BY Sizes DEF ProperBits, NoBits, BitsOf

LEMMA FoldTypes ==
    ASSUME NEW pend, NEW fr, NEW run, ProperBits(pend), ProperFrames(fr)
    PROVE  /\ ProperBits(FoldBits(pend, fr, run))
           /\ ProperFrames(FoldFrames(fr, run))
<1>1. DOMAIN pend = 0..MaxEnt /\ DOMAIN fr = 0..Backup - 1
  BY DEF ProperBits, ProperFrames, BitsOf
<1>2. ProperBits(FoldBits(pend, fr, run))
  <2>1. FoldBits(pend, fr, run) \in BitsOf
    <3>1. ASSUME NEW e \in 0..MaxEnt
          PROVE  pend[e] \cup UNION {fr[i].resend[e] : i \in Dropped(fr, run)} \in SUBSET Bits
      <4>1. \A i \in Dropped(fr, run) : fr[i].resend[e] \subseteq Bits
        BY <1>1 DEF Dropped, ProperFrames, ProperBits, BitsOf
      <4> QED BY <4>1 DEF ProperBits, BitsOf
    <3> QED BY <1>1, <3>1 DEF FoldBits, BitsOf
  <2>2. \A i \in Dropped(fr, run) : fr[i].resend[0] \subseteq {"remove"}
    BY <1>1 DEF Dropped, ProperFrames, ProperBits
  <2>3. FoldBits(pend, fr, run)[0] = pend[0] \cup UNION {fr[i].resend[0] : i \in Dropped(fr, run)}
    BY <1>1, Sizes DEF FoldBits
  <2> QED BY <2>1, <2>2, <2>3 DEF ProperBits
<1>3. ProperFrames(FoldFrames(fr, run))
  <2>1. ASSUME NEW i \in 0..Backup - 1
        PROVE  /\ FoldFrames(fr, run)[i] \in [sequence : Nat, resend : BitsOf]
               /\ ProperBits(FoldFrames(fr, run)[i].resend)
    <3>1. FoldFrames(fr, run)[i] = IF i \in Dropped(fr, run)
                                   THEN [fr[i] EXCEPT !.resend = NoBits] ELSE fr[i]
      BY <1>1 DEF FoldFrames
    <3>2. fr[i] \in [sequence : Nat, resend : BitsOf] /\ ProperBits(fr[i].resend)
      BY DEF ProperFrames
    <3>3. [fr[i] EXCEPT !.resend = NoBits] = [sequence |-> fr[i].sequence, resend |-> NoBits]
      BY <3>2
    <3> QED BY <3>1, <3>2, <3>3, NoBitsProper DEF ProperBits
  <2>2. DOMAIN FoldFrames(fr, run) = 0..Backup - 1
        /\ FoldFrames(fr, run) = [i \in 0..Backup - 1 |-> FoldFrames(fr, run)[i]]
    BY <1>1 DEF FoldFrames
  <2> QED BY <2>1, <2>2 DEF ProperFrames
<1> QED BY <1>2, <1>3

LEMMA FoldedFrame ==
    ASSUME NEW fr, NEW run, ProperFrames(fr), NEW i \in 0..Backup - 1
    PROVE  /\ FoldFrames(fr, run)[i].sequence = fr[i].sequence
           /\ fr[i].sequence \in run => FoldFrames(fr, run)[i].resend = NoBits
           /\ fr[i].sequence \notin run => FoldFrames(fr, run)[i] = fr[i]
<1>1. DOMAIN fr = 0..Backup - 1 /\ fr[i] \in [sequence : Nat, resend : BitsOf]
  BY DEF ProperFrames
<1>2. FoldFrames(fr, run)[i] = IF i \in Dropped(fr, run)
                               THEN [fr[i] EXCEPT !.resend = NoBits] ELSE fr[i]
  BY <1>1 DEF FoldFrames
<1>3. i \in Dropped(fr, run) <=> fr[i].sequence \in run
  BY <1>1 DEF Dropped
<1> QED BY <1>1, <1>2, <1>3

\* What is owed has a bit, so the frame that logs it is not empty.
LEMMA OwedIsSome ==
    ASSUME NEW v, NEW e \in Ents, NEW f
    PROVE  ~Owed(NoBits, v, e, f)
BY Sizes DEF Owed, Covers, NoBits

LEMMA OwedGrows ==
    ASSUME NEW a, NEW b, NEW v, NEW e, NEW f,
           a[0] \subseteq b[0], a[e] \subseteq b[e], Owed(a, v, e, f)
    PROVE  Owed(b, v, e, f)
BY DEF Owed, Covers

\* Nothing is lost from the books by an acknowledgement, or by a frame that is given
\* up, that folds every frame it passes but the reported ones.
LEMMA FoldKeeps ==
    ASSUME NEW pend, NEW fr, NEW run, NEW acked \in Int, NEW acked2 \in Int, NEW rep, NEW wire,
           ProperBits(pend), ProperFrames(fr), NEW pend2,
           \A x \in 0..MaxEnt : FoldBits(pend, fr, run)[x] \subseteq pend2[x],
           \A i \in 0..Backup - 1 :
              fr[i].sequence > acked /\ fr[i].resend # NoBits /\ fr[i].sequence \notin rep
                 => fr[i].sequence \in run \/ fr[i].sequence > acked2,
           NEW s, NEW v, NEW e \in Ents, NEW f,
           OnBooks(pend, fr, acked, rep, wire, s, v, e, f)
    PROVE  OnBooks(pend2, FoldFrames(fr, run), acked2, rep, wire, s, v, e, f)
<1>1. DOMAIN pend = 0..MaxEnt /\ DOMAIN fr = 0..Backup - 1 /\ e \in 0..MaxEnt /\ 0 \in 0..MaxEnt
  BY Sizes DEF ProperBits, ProperFrames, BitsOf
<1>2. \A x \in {0, e} : FoldBits(pend, fr, run)[x]
                          = pend[x] \cup UNION {fr[i].resend[x] : i \in Dropped(fr, run)}
  BY <1>1 DEF FoldBits
<1>3. CASE Owed(pend, v, e, f)
  <2>1. pend[0] \subseteq pend2[0] /\ pend[e] \subseteq pend2[e]
    BY <1>1, <1>2
  <2>2. Owed(pend2, v, e, f)
    BY <2>1, <1>3, OwedGrows
  <2> QED BY <2>2 DEF OnBooks
<1>4. CASE ~Owed(pend, v, e, f)
  <2>1. PICK i \in 0..Backup - 1 : fr[i].sequence > s /\ Logs(fr[i], acked, rep, wire, v, e, f)
    BY <1>4 DEF OnBooks
  <2>2. Owed(fr[i].resend, v, e, f) /\ fr[i].resend # NoBits
    BY <2>1, OwedIsSome DEF Logs
  <2>3. fr[i].sequence \in run \/ fr[i].sequence > acked2
    BY <2>1, <2>2 DEF Logs
  <2>4. CASE fr[i].sequence \in run
    <3>1. i \in Dropped(fr, run)
      BY <1>1, <2>4 DEF Dropped
    <3>2. fr[i].resend[0] \subseteq pend2[0] /\ fr[i].resend[e] \subseteq pend2[e]
      BY <1>1, <1>2, <3>1
    <3>3. Owed(pend2, v, e, f)
      BY <2>2, <3>2, OwedGrows
    <3> QED BY <3>3 DEF OnBooks
  <2>5. CASE fr[i].sequence \notin run
    <3>1. FoldFrames(fr, run)[i] = fr[i]
      BY <2>5, FoldedFrame
    <3>2. Logs(fr[i], acked2, rep, wire, v, e, f)
      BY <2>1, <2>3, <2>5 DEF Logs
    <3> QED BY <2>1, <3>1, <3>2 DEF OnBooks
  <2> QED BY <2>4, <2>5
<1> QED BY <1>3, <1>4

-----------------------------------------------------------------------------
(* The server takes a packet in. *)

\* A list that does not skip too much at once folds every frame up to the last of its
\* numbers but those.
LEMMA AckRunsCatch ==
    ASSUME server.acked \in Int, NEW acks \in Seq(Int), NEW top \in Int,
           server.acked <= top, \A k \in DOMAIN acks : acks[k] <= top
    PROVE  /\ Before(acks, Len(acks) + 1) \in {server.acked} \cup Range(acks)
           /\ Before(acks, Len(acks) + 1) >= server.acked
           /\ Before(acks, Len(acks) + 1) <= top
           /\ ~Clipped(acks) =>
                \A L \in Int : L > server.acked /\ L \notin Range(acks)
                                  => L \in AckRuns(acks) \/ L > Before(acks, Len(acks) + 1)
<1> DEFINE S(i) == {server.acked} \cup {acks[k] : k \in 1..i - 1}
<1>1. DOMAIN acks = 1..Len(acks) /\ Len(acks) \in Nat /\ \A k \in 1..Len(acks) : acks[k] \in Int
  OBVIOUS
<1>2. ASSUME NEW i \in 1..Len(acks) + 1
      PROVE  Before(acks, i) \in S(i) /\ \A y \in S(i) : Before(acks, i) >= y
  <2>1. S(i) \in SUBSET Int /\ S(i) # {} /\ \A x \in S(i) : x <= top
    <3>1. \A k \in 1..i - 1 : k \in 1..Len(acks)
      BY <1>1
    <3>2. \A k \in 1..i - 1 : acks[k] \in Int /\ acks[k] <= top
      BY <1>1, <3>1
    <3> QED BY <3>2
  <2>2. Before(acks, i) = Max(S(i))
    BY DEF Before
  <2> HIDE DEF S
  <2> QED BY <2>1, <2>2, MaxOfBounded
<1>3. Len(acks) + 1 \in 1..Len(acks) + 1 /\ 1..(Len(acks) + 1) - 1 = 1..Len(acks)
  BY <1>1
<1>4. Before(acks, Len(acks) + 1) \in {server.acked} \cup {acks[k] : k \in 1..Len(acks)}
  BY <1>2, <1>3
<1>5. /\ Before(acks, Len(acks) + 1) \in {server.acked} \cup Range(acks)
      /\ Before(acks, Len(acks) + 1) >= server.acked
      /\ Before(acks, Len(acks) + 1) <= top
  <2>1. Before(acks, Len(acks) + 1) >= server.acked
    BY <1>2, <1>3
  <2> QED BY <1>1, <1>4, <2>1 DEF Range
<1>6. ASSUME ~Clipped(acks), NEW L \in Int, L > server.acked, L \notin Range(acks),
             ~(L > Before(acks, Len(acks) + 1))
      PROVE  L \in AckRuns(acks)
  <2> DEFINE T == {k \in 1..Len(acks) : acks[k] > L}
  <2>1. T # {}
    <3>1. PICK k \in 1..Len(acks) : Before(acks, Len(acks) + 1) = acks[k]
      BY <1>4, <1>6, <1>1
    <3>2. acks[k] # L
      BY <1>1, <1>6 DEF Range
    <3>3. acks[k] > L
      BY <1>1, <1>6, <3>1, <3>2
    <3> QED BY <3>3
  <2>2. T \in SUBSET Nat
    OBVIOUS
  <2>3. PICK i \in T : \A k \in T : i <= k
    <3> HIDE DEF T
    <3> QED BY <2>1, <2>2, SmallestElement
  <2>4. i \in 1..Len(acks) /\ acks[i] > L /\ i \in 1..Len(acks) + 1
    BY <1>1
  <2>5. \A y \in S(i) : y < L
    <3>1. ASSUME NEW k \in 1..i - 1 PROVE acks[k] < L
      <4>1. k \in 1..Len(acks) /\ ~(i <= k)
        BY <2>4, <1>1
      <4>2. ~(acks[k] > L)
        BY <2>3, <4>1
      <4>3. acks[k] # L
        BY <1>1, <1>6, <4>1 DEF Range
      <4> QED BY <1>1, <4>1, <4>2, <4>3
    <3> QED BY <3>1, <1>6
  <2>6. Before(acks, i) \in Int /\ Before(acks, i) < L
    <3>1. Before(acks, i) \in S(i)
      BY <1>2, <2>4
    <3>2. \A y \in S(i) : y \in Int
      BY <1>1, <2>4
    <3> HIDE DEF S
    <3> QED BY <3>1, <3>2, <2>5
  <2>7. acks[i] <= Before(acks, i) + 1 + Backup
    <3>1. ~(acks[i] > Before(acks, i) + 1 + Backup)
      BY <1>1, <1>6, <2>4 DEF Clipped
    <3> QED BY <3>1, <2>6, <2>4, <1>1, Sizes
  <2>8. L \in AckRun(Before(acks, i), acks[i])
    <3>1. acks[i] \in Int
      BY <2>4, <1>1
    <3>2. AckRun(Before(acks, i), acks[i]) = Before(acks, i) + 1 .. acks[i] - 1
      BY <3>1, <2>6, <2>7, Runs
    <3> QED BY <3>1, <3>2, <2>4, <2>6, <1>6
  <2> QED BY <2>4, <2>8, <1>1 DEF AckRuns
<1> QED BY <1>5, <1>6

LEMMA FewerReports ==
    ASSUME NEW p \in c2s, c2s' \subseteq c2s, UNCHANGED <<protocol, client>>
    PROVE  Reported' \subseteq Reported
BY DEF Reported

LEMMA ReceiveQWTypes ==
    ASSUME Types, protocol = "QW", NEW p \in c2s, ReceiveQW(p), 
           UNCHANGED <<protocol, client, s2c>>
    PROVE  /\ server' = [server EXCEPT !.incoming = p.seq,
                           !.outgoing = IF p.seq < server.outgoing THEN @ ELSE p.seq,
                           !.send = ~(p.seq < server.outgoing), !.delta = p.delta,
                           !.acked = IF server.acked >= p.ack THEN server.acked ELSE p.ack]
           /\ server' \in Server
           /\ ProperBits(pendingdeltabits') /\ ProperFrames(frames')
<1>1. p.ack \in Int /\ p.delta \in Int /\ p.seq \in Nat /\ server \in Server
  BY DEF Types, ProperReport
<1>2. Acked(server.acked, p.ack) = IF server.acked >= p.ack THEN server.acked ELSE p.ack
  BY <1>1, Runs DEF Server
<1>3. server' = [server EXCEPT !.incoming = p.seq,
                   !.outgoing = IF p.seq < server.outgoing THEN @ ELSE p.seq,
                   !.send = ~(p.seq < server.outgoing), !.delta = p.delta,
                   !.acked = IF server.acked >= p.ack THEN server.acked ELSE p.ack]
  BY <1>1, <1>2 DEF ReceiveQW
<1>4. server' \in Server
  BY <1>1, <1>3 DEF Server
<1>5. ProperBits(pendingdeltabits') /\ ProperFrames(frames')
  BY FoldTypes DEF ReceiveQW, Types
<1> QED BY <1>3, <1>4, <1>5

\* As long as nothing falls off the books, and the client's picture and what it was
\* told stay, what is tracked stays so.
LEMMA BooksKeepTracked ==
    ASSUME Tracked, UNCHANGED <<sentents, misled>>, s2c' \subseteq s2c,
           client'.ents = client.ents, client'.incoming = client.incoming,
           client'.valid \in {client.valid, 0},
           \A e \in Ents, f \in Fields, s \in Int : Books(s, e, f) => Books(s, e, f)',
           \A p \in s2c : p.seq \in Int
    PROVE  Tracked'
<1>1. ASSUME NEW e \in Ents \ misled, NEW f \in Fields
      PROVE  /\ client'.valid # 0 => Books(-1, e, f)' \/ Shown(e, f)'
             /\ \A p \in s2c' : p.clear => Books(p.seq, e, f)' \/ Brings(p, e, f)'
  <2>1. Shown(e, f) => Shown(e, f)'
    BY DEF Shown, Steady
  <2>2. \A p \in s2c : Brings(p, e, f) => Brings(p, e, f)'
    BY DEF Brings, Steady, Sets
  <2>3. client.valid # 0 => Books(-1, e, f) \/ Shown(e, f)
    BY <1>1 DEF Tracked
  <2>4. \A p \in s2c : p.clear => Books(p.seq, e, f) \/ Brings(p, e, f)
    BY <1>1 DEF Tracked
  <2>5. Books(-1, e, f) => Books(-1, e, f)'
    OBVIOUS
  <2>6. \A p \in s2c : Books(p.seq, e, f) => Books(p.seq, e, f)'
    OBVIOUS
  <2> QED BY <2>1, <2>2, <2>3, <2>4, <2>5, <2>6
<1> QED BY <1>1 DEF Tracked

\* Folding with the reports of the client, as long as nothing is skipped.
LEMMA FoldKeepsBooks ==
    ASSUME Types, NEW run, server'.acked \in Int,
           UNCHANGED <<sentents, s2c>>, Reported' \subseteq Reported,
           frames' = FoldFrames(frames, run),
           \A x \in 0..MaxEnt : FoldBits(pendingdeltabits, frames, run)[x] \subseteq pendingdeltabits'[x],
           \A i \in 0..Backup - 1 :
              /\ frames[i].sequence > server.acked
              /\ frames[i].resend # NoBits
              /\ frames[i].sequence \notin Reported
              => frames[i].sequence \in run \/ frames[i].sequence > server'.acked
    PROVE  \A e \in Ents, f \in Fields, s \in Int : Books(s, e, f) => Books(s, e, f)'
<1> SUFFICES ASSUME NEW e \in Ents, NEW f \in Fields, NEW s \in Int, Books(s, e, f)
             PROVE  Books(s, e, f)'
  OBVIOUS
<1>1. server.acked \in Int /\ ProperBits(pendingdeltabits) /\ ProperFrames(frames)
  BY DEF Types, Server
<1>2. OnBooks(pendingdeltabits, frames, server.acked, Reported, s2c, s, sentents[e][f], e, f)
  BY DEF Books
<1>3. OnBooks(pendingdeltabits', FoldFrames(frames, run), server'.acked, Reported, s2c, s,
              sentents[e][f], e, f)
  BY <1>1, <1>2, FoldKeeps
<1>4. OnBooks(pendingdeltabits', FoldFrames(frames, run), server'.acked, Reported', s2c', s,
              sentents[e][f], e, f)
  BY <1>3, FewerPackets
<1> QED BY <1>4 DEF Books

\* Frames that are folded stay in their place.
LEMMA FoldPlaced ==
    ASSUME NEW fr, NEW run, NEW acked \in Int, NEW acked2 \in Int, acked2 >= acked,
           ProperFrames(fr), Placed(fr, acked)
    PROVE  Placed(FoldFrames(fr, run), acked2)
<1> SUFFICES ASSUME NEW i \in 0..Backup - 1, FoldFrames(fr, run)[i].resend # NoBits
             PROVE  /\ fr[i].sequence < NextSequence
                    /\ Slot(fr[i].sequence) = i
                    /\ protocol = "QW" => fr[i].sequence <= acked2 + Backup
  BY FoldedFrame DEF Placed
<1>1. fr[i].resend # NoBits /\ fr[i].sequence \in Nat
  <2>1. fr[i].sequence \notin run
    BY FoldedFrame
  <2>2. FoldFrames(fr, run)[i] = fr[i]
    BY <2>1, FoldedFrame
  <2>3. fr[i].sequence \in Nat
    BY DEF ProperFrames
  <2> QED BY <2>2, <2>3
<1> QED BY <1>1, Sizes, SMTT(40) DEF Placed

LEMMA ReceiveQWKeeps ==
    ASSUME IInv, protocol = "QW", NEW p \in c2s, ServerReceive(p)
    PROVE  IInv'
<1>1. /\ ReceiveQW(p) /\ c2s' = After(p, c2s) /\ lapsed' = lapsed
      /\ UNCHANGED <<protocol, world, changes, sentents, client, s2c, waits, misled>>
  BY DEF ServerReceive, ReceiveQW
<1>2. Types /\ Order /\ (lapsed \/ Tracked)
  BY DEF IInv
<1>3. c2s' \subseteq c2s /\ \A q \in c2s' : q.seq > p.seq
  BY <1>1 DEF After
<1>4. /\ server' = [server EXCEPT !.incoming = p.seq,
                      !.outgoing = IF p.seq < server.outgoing THEN @ ELSE p.seq,
                      !.send = ~(p.seq < server.outgoing), !.delta = p.delta,
                      !.acked = IF server.acked >= p.ack THEN server.acked ELSE p.ack]
      /\ server' \in Server
      /\ ProperBits(pendingdeltabits') /\ ProperFrames(frames')
  BY <1>1, <1>2, ReceiveQWTypes
<1>5. /\ server \in Server /\ client \in Client
      /\ p.ack \in Int /\ p.seq \in Nat /\ ProperFrames(frames)
  BY <1>2 DEF Types, ProperReport
<1>6. /\ server.incoming < p.seq /\ p.seq < client.outgoing
      /\ server.outgoing \in {server.incoming, server.incoming + 1}
      /\ ~lapsed /\ ~server.burst
  BY <1>2 DEF Order
<1>7. /\ server'.burst = server.burst
      /\ server'.incoming = p.seq /\ server'.outgoing = p.seq /\ server'.send
      /\ server'.acked = IF server.acked >= p.ack THEN server.acked ELSE p.ack
  <2>1. ~(p.seq < server.outgoing)
    BY <1>5, <1>6 DEF Server
  <2>2. server'.outgoing = IF p.seq < server.outgoing THEN server.outgoing ELSE p.seq
    BY <1>4, <1>5 DEF Server
  <2>3. server'.send = ~(p.seq < server.outgoing)
    BY <1>4, <1>5 DEF Server
  <2>4. /\ server'.incoming = p.seq
        /\ server'.burst = server.burst
        /\ server'.acked = IF server.acked >= p.ack THEN server.acked ELSE p.ack
    BY <1>4, <1>5 DEF Server
  <2> QED BY <2>1, <2>2, <2>3, <2>4
<1>8. NextSequence' = p.seq /\ NextSequence <= p.seq /\ NextSequence \in Int
  BY <1>1, <1>5, <1>6, <1>7 DEF NextSequence, Server
<1>9. Reported' \subseteq Reported /\ p.ack \in Reported
  BY <1>1, <1>3, FewerReports DEF Reported
<1>10. p.ack <= client.incoming /\ client.incoming < NextSequence /\ server.acked < NextSequence
  BY <1>2, <1>9 DEF Order
<1>11. server'.acked \in Int /\ server'.acked >= server.acked /\ server'.acked < NextSequence
  BY <1>5, <1>7, <1>8, <1>10, SMTT(40) DEF Server, Client
<1>12. Types'
  <2>1. \A q \in c2s' : ProperReport(q)'
    BY <1>1, <1>2, <1>3 DEF Types, ProperReport
  <2>2. \A q \in s2c' : ProperPacket(q)'
    BY <1>1, <1>2 DEF Types
  <2> QED BY <1>1, <1>2, <1>4, <2>1, <2>2 DEF Types, ProperPacket, ProperBits, ProperFrames
<1>13. Placed(frames, server.acked)'
  <2>1. Placed(frames', server'.acked)
    BY <1>1, <1>2, <1>5, <1>11, FoldPlaced DEF ReceiveQW, Order, Server
  <2>2. \A i \in 0..Backup - 1 : frames'[i].sequence \in Nat
    BY <1>4 DEF ProperFrames
  <2> QED BY <2>1, <2>2, <1>1, <1>5, <1>8 DEF Placed
<1>14. Order'
  <2>1. \A q \in s2c : q.seq \in Nat
    BY <1>2 DEF Types, ProperPacket
  <2>2. \A q \in s2c : client.incoming < q.seq /\ q.seq < NextSequence'
    BY <1>2, <1>5, <1>8, <2>1 DEF Order, Client
  <2>3. \A s \in Reported' : s <= client.incoming
    BY <1>2, <1>9 DEF Order
  <2>4. \A q \in c2s' : server'.incoming < q.seq /\ q.seq < client.outgoing
    BY <1>2, <1>3, <1>7 DEF Order
  <2>5. server'.acked < NextSequence' /\ client.incoming < NextSequence'
    BY <1>5, <1>8, <1>10, <1>11 DEF Client
  <2> QED BY <1>1, <1>6, <1>7, <1>13, <2>2, <2>3, <2>4, <2>5 DEF Order
<1>15. Tracked'
  <2>1. ASSUME NEW i \in 0..Backup - 1, frames[i].sequence > server.acked,
               frames[i].resend # NoBits, frames[i].sequence \notin Reported
        PROVE  \/ frames[i].sequence \in AckRun(server.acked, p.ack)
               \/ frames[i].sequence > server'.acked
    <3>1. frames[i].sequence \in Nat /\ frames[i].sequence <= server.acked + Backup
      BY <1>2, <1>5, <2>1 DEF Order, Placed, ProperFrames
    <3>2. frames[i].sequence # p.ack
      BY <1>9, <2>1
    <3>3. server.acked \in Int
      BY <1>5 DEF Server
    <3>4. AckRun(server.acked, p.ack) =
             server.acked + 1 .. (IF p.ack <= server.acked + 1 + Backup
                                  THEN p.ack ELSE server.acked + 1 + Backup) - 1
      BY <3>3, <1>5, Runs
    <3> QED BY <3>1, <3>2, <3>3, <3>4, <1>5, <1>7, <2>1, Sizes, SMTT(40)
  <2>2. \A e \in Ents, f \in Fields, s \in Int : Books(s, e, f) => Books(s, e, f)'
    <3>1. /\ frames' = FoldFrames(frames, AckRun(server.acked, p.ack))
          /\ pendingdeltabits' = FoldBits(pendingdeltabits, frames, AckRun(server.acked, p.ack))
      BY <1>1 DEF ReceiveQW
    <3>2. UNCHANGED <<sentents, s2c>>
      BY <1>1
    <3> QED BY <1>2, <1>9, <1>11, <2>1, <3>1, <3>2, FoldKeepsBooks
  <2>3. \A q \in s2c : q.seq \in Int
    BY <1>2 DEF Types, ProperPacket
  <2> QED BY <1>1, <1>2, <1>6, <2>2, <2>3, BooksKeepTracked
<1> QED BY <1>12, <1>14, <1>15 DEF IInv

LEMMA ReceiveNQTypes ==
    ASSUME Types, protocol = "NQ", NEW p \in c2s, ReceiveNQ(p),
           Before(p.acks, Len(p.acks) + 1) \in Int
    PROVE  /\ server' \in Server
           /\ server'.outgoing = server.incoming
           /\ server'.acked = Before(p.acks, Len(p.acks) + 1)
           /\ server'.incoming = server.incoming
           /\ server'.unreliable = server.unreliable
           /\ ProperBits(pendingdeltabits') /\ ProperFrames(frames')
           /\ \A x \in 0..MaxEnt : FoldBits(pendingdeltabits, frames, AckRuns(p.acks))[x]
                                     \subseteq pendingdeltabits'[x]
           /\ frames' = FoldFrames(frames, AckRuns(p.acks))
<1> DEFINE pend == IF -1 \in Range(p.acks) THEN [pendingdeltabits EXCEPT ![0] = {"remove"}]
                                           ELSE pendingdeltabits
<1>1. p.acks \in Seq(Int) /\ server \in Server
  BY DEF Types, ProperReport
<1>2. (IF p.acks = << >> THEN server.delta ELSE Last(p.acks)) \in Int
  <2>1. p.acks # << >> => Last(p.acks) \in Int
    BY <1>1 DEF Last
  <2> QED BY <1>1, <2>1 DEF Server
<1>3. server' = [server EXCEPT !.outgoing = server.incoming,
                               !.delta = IF p.acks = << >> THEN @ ELSE Last(p.acks),
                               !.acked = Before(p.acks, Len(p.acks) + 1)]
  BY DEF ReceiveNQ
<1>4. /\ server' \in Server
      /\ server'.outgoing = server.incoming
      /\ server'.acked = Before(p.acks, Len(p.acks) + 1)
      /\ server'.incoming = server.incoming
      /\ server'.unreliable = server.unreliable
  <2> DEFINE d == IF p.acks = << >> THEN server.delta ELSE Last(p.acks)
  <2>1. server' = [server EXCEPT !.outgoing = server.incoming, !.delta = d,
                                 !.acked = Before(p.acks, Len(p.acks) + 1)]
    BY <1>1, <1>3 DEF Server
  <2>2. d \in Int
    BY <1>2
  <2> HIDE DEF d
  <2> QED BY <1>1, <2>1, <2>2 DEF Server
<1>5. ProperBits(pendingdeltabits) /\ ProperFrames(frames)
  BY DEF Types
<1>6. ProperBits(pend) /\ DOMAIN pend = 0..MaxEnt
      /\ \A x \in 0..MaxEnt : pendingdeltabits[x] \subseteq pend[x]
  <2>1. CASE -1 \notin Range(p.acks)
    BY <1>5, <2>1 DEF ProperBits, BitsOf
  <2>2. CASE -1 \in Range(p.acks)
    <3>1. pend = [pendingdeltabits EXCEPT ![0] = {"remove"}]
      BY <2>2
    <3>2. \A x \in 0..MaxEnt : pend[x] = IF x = 0 THEN {"remove"} ELSE pendingdeltabits[x]
      BY <1>5, <3>1 DEF ProperBits, BitsOf
    <3>3. pend \in BitsOf
      BY <1>5, <3>1 DEF ProperBits, BitsOf, Bits
    <3> QED BY <1>5, <3>2, <3>3, Sizes DEF ProperBits, BitsOf
  <2> QED BY <2>1, <2>2
<1>7. pendingdeltabits' = FoldBits(pend, frames, AckRuns(p.acks))
      /\ frames' = FoldFrames(frames, AckRuns(p.acks))
  BY DEF ReceiveNQ
<1>8. ProperBits(pendingdeltabits') /\ ProperFrames(frames')
  <2> HIDE DEF pend
  <2> QED BY <1>5, <1>6, <1>7, FoldTypes
<1>9. \A x \in 0..MaxEnt : FoldBits(pendingdeltabits, frames, AckRuns(p.acks))[x]
                             \subseteq pendingdeltabits'[x]
  <2>1. DOMAIN pendingdeltabits = 0..MaxEnt
    BY <1>5 DEF ProperBits, BitsOf
  <2> HIDE DEF pend
  <2> QED BY <1>6, <1>7, <2>1 DEF FoldBits
<1> QED BY <1>4, <1>7, <1>8, <1>9

LEMMA ReceiveNQKeeps ==
    ASSUME IInv, protocol = "NQ", NEW p \in c2s, ServerReceive(p)
    PROVE  IInv'
<1>1. /\ ReceiveNQ(p) /\ c2s' = After(p, c2s)
      /\ lapsed' = (lapsed \/ Clipped(p.acks))
      /\ UNCHANGED <<protocol, world, changes, sentents, client, s2c, waits, misled>>
  BY DEF ServerReceive, ReceiveNQ
<1>2. Types /\ Order /\ (lapsed \/ Tracked)
  BY DEF IInv
<1>3. c2s' \subseteq c2s
  BY <1>1 DEF After
<1>4. server \in Server /\ client \in Client /\ p.acks \in Seq(Int) /\ ProperFrames(frames)
  BY <1>2 DEF Types, ProperReport
<1>5. Reported' \subseteq Reported /\ Range(p.acks) \subseteq Reported
  BY <1>1, <1>3, FewerReports DEF Reported
<1>6. \A s \in Reported : s <= client.incoming /\ client.incoming < NextSequence
  BY <1>2 DEF Order
<1>7. NextSequence = server.unreliable /\ server.unreliable \in Nat
      /\ server.acked \in Int /\ client.incoming \in Int
  BY <1>4 DEF NextSequence, Server, Client
<1>8. /\ Before(p.acks, Len(p.acks) + 1) \in Int
      /\ Before(p.acks, Len(p.acks) + 1) >= server.acked
      /\ Before(p.acks, Len(p.acks) + 1) < NextSequence
      /\ ~Clipped(p.acks) =>
            \A L \in Int : L > server.acked /\ L \notin Range(p.acks)
                              => L \in AckRuns(p.acks) \/ L > Before(p.acks, Len(p.acks) + 1)
  <2>1. \A k \in DOMAIN p.acks : p.acks[k] <= NextSequence - 1
    <3>1. \A k \in DOMAIN p.acks : p.acks[k] \in Range(p.acks) /\ p.acks[k] \in Int
      BY <1>4 DEF Range
    <3> QED BY <1>5, <1>6, <1>7, <3>1
  <2>2. server.acked <= NextSequence - 1 /\ NextSequence - 1 \in Int
    BY <1>2, <1>7 DEF Order
  <2>3. /\ Before(p.acks, Len(p.acks) + 1) \in {server.acked} \cup Range(p.acks)
        /\ Before(p.acks, Len(p.acks) + 1) >= server.acked
        /\ Before(p.acks, Len(p.acks) + 1) <= NextSequence - 1
        /\ ~Clipped(p.acks) =>
              \A L \in Int : L > server.acked /\ L \notin Range(p.acks)
                                => L \in AckRuns(p.acks) \/ L > Before(p.acks, Len(p.acks) + 1)
    BY <1>4, <1>7, <2>1, <2>2, AckRunsCatch
  <2>4. Range(p.acks) \subseteq Int
    BY <1>4 DEF Range
  <2>5. Before(p.acks, Len(p.acks) + 1) \in Int
    BY <1>7, <2>3, <2>4
  <2> QED BY <1>7, <2>3, <2>5
<1>9. /\ server' \in Server
      /\ server'.outgoing = server.incoming
      /\ server'.acked = Before(p.acks, Len(p.acks) + 1)
      /\ server'.incoming = server.incoming
      /\ server'.unreliable = server.unreliable
      /\ ProperBits(pendingdeltabits') /\ ProperFrames(frames')
      /\ \A x \in 0..MaxEnt : FoldBits(pendingdeltabits, frames, AckRuns(p.acks))[x]
                                \subseteq pendingdeltabits'[x]
      /\ frames' = FoldFrames(frames, AckRuns(p.acks))
  BY <1>1, <1>2, <1>8, ReceiveNQTypes
<1>10. NextSequence' = NextSequence
  BY <1>1, <1>9 DEF NextSequence
<1>11. Types'
  <2>1. \A q \in c2s' : ProperReport(q)'
    BY <1>1, <1>2, <1>3 DEF Types, ProperReport
  <2>2. \A q \in s2c' : ProperPacket(q)'
    BY <1>1, <1>2 DEF Types
  <2>3. lapsed' \in BOOLEAN
    BY <1>1, <1>2 DEF Types, Clipped
  <2> QED BY <1>1, <1>2, <1>9, <2>1, <2>2, <2>3 DEF Types, ProperPacket, ProperBits, ProperFrames
<1>12. Placed(frames, server.acked)'
  <2>1. Placed(frames', server'.acked)
    BY <1>2, <1>4, <1>7, <1>8, <1>9, FoldPlaced DEF Order
  <2> QED BY <2>1, <1>1, <1>10 DEF Placed
<1>13. Order'
  <2>1. \A s \in Reported' : s <= client.incoming
    BY <1>5, <1>6
  <2>2. server'.acked < NextSequence' /\ client'.incoming < NextSequence'
    BY <1>1, <1>2, <1>8, <1>9, <1>10 DEF Order
  <2>3. \A q \in s2c' : client'.incoming < q.seq /\ q.seq < NextSequence'
    BY <1>1, <1>2, <1>10 DEF Order
  <2>4. server'.incoming = server'.unreliable /\ server'.outgoing <= server'.incoming
    BY <1>2, <1>4, <1>9 DEF Order, Server
  <2>5. protocol' = "NQ" /\ protocol' # "QW"
    BY <1>1
  <2>6. \A s \in Reported' : s <= client'.incoming
    BY <2>1, <1>1
  <2> QED BY <2>2, <2>3, <2>4, <2>5, <2>6, <1>12 DEF Order
<1>14. lapsed' \/ Tracked'
  <2> SUFFICES ASSUME ~lapsed' PROVE Tracked'
    OBVIOUS
  <2>1. ~Clipped(p.acks) /\ Tracked
    BY <1>1, <1>2
  <2>2. ASSUME NEW i \in 0..Backup - 1, frames[i].sequence > server.acked,
               frames[i].resend # NoBits, frames[i].sequence \notin Reported
        PROVE  \/ frames[i].sequence \in AckRuns(p.acks)
               \/ frames[i].sequence > server'.acked
    <3>1. frames[i].sequence \in Int
      BY <1>4 DEF ProperFrames
    <3> QED BY <1>5, <1>8, <1>9, <2>1, <2>2, <3>1
  <2>3. \A e \in Ents, f \in Fields, s \in Int : Books(s, e, f) => Books(s, e, f)'
    <3>1. UNCHANGED <<sentents, s2c>> /\ server'.acked \in Int
      BY <1>1, <1>8, <1>9
    <3> QED BY <1>2, <1>5, <1>9, <2>2, <3>1, FoldKeepsBooks
  <2>4. \A q \in s2c : q.seq \in Int
    BY <1>2 DEF Types, ProperPacket
  <2> QED BY <1>1, <2>1, <2>3, <2>4, BooksKeepTracked
<1> QED BY <1>11, <1>13, <1>14 DEF IInv

-----------------------------------------------------------------------------
(* The steps that leave the books alone. *)

\* The same books, with fewer packets in flight, keep what is tracked.
LEMMA SameBooks ==
    ASSUME Types, Tracked, server'.acked = server.acked,
           UNCHANGED <<sentents, misled, pendingdeltabits, frames>>,
           s2c' \subseteq s2c, Reported' \subseteq Reported,
           client'.ents = client.ents, client'.incoming = client.incoming,
           client'.valid \in {client.valid, 0}
    PROVE  Tracked'
<1>1. \A e \in Ents, f \in Fields, s \in Int : Books(s, e, f) => Books(s, e, f)'
  <2> SUFFICES ASSUME NEW e \in Ents, NEW f \in Fields, NEW s \in Int, Books(s, e, f)
               PROVE  Books(s, e, f)'
    OBVIOUS
  <2>1. OnBooks(pendingdeltabits, frames, server.acked, Reported', s2c', s,
                sentents[e][f], e, f)
    BY FewerPackets DEF Books
  <2> QED BY <2>1 DEF Books
<1>2. \A p \in s2c : p.seq \in Int
  BY DEF Types, ProperPacket
<1> QED BY <1>1, <1>2, BooksKeepTracked

LEMMA ChokeKeeps ==
    ASSUME IInv, Choke
    PROVE  IInv'
<1>1. Types /\ Order /\ (lapsed \/ Tracked)
  BY DEF IInv
<1>2. /\ protocol = "QW" /\ server.send
      /\ server' = [server EXCEPT !.send = FALSE]
      /\ UNCHANGED <<protocol, world, changes, sentents, pendingdeltabits,
                     frames, client, s2c, c2s, waits, lapsed, misled>>
  BY DEF Choke
<1>3. server \in Server /\ client \in Client /\ ProperFrames(frames)
  BY <1>1 DEF Types
<1>4. /\ server' \in Server /\ server'.acked = server.acked
      /\ server'.incoming = server.incoming /\ server'.outgoing = server.outgoing
      /\ ~server'.send
  BY <1>2, <1>3 DEF Server
<1>5. NextSequence = server.incoming /\ NextSequence' = server.incoming + 1
      /\ server.incoming \in Nat /\ server.acked \in Int /\ client.incoming \in Int
  BY <1>2, <1>3, <1>4 DEF NextSequence, Server, Client
<1>6. Types'
  BY <1>1, <1>2, <1>4 DEF Types, ProperPacket, ProperReport, ProperBits, ProperFrames
<1>7. Reported' = Reported
  BY <1>2 DEF Reported
<1>8. Order'
  <2>1. server'.acked < NextSequence' /\ client'.incoming < NextSequence'
    BY <1>1, <1>2, <1>4, <1>5 DEF Order
  <2>2. \A p \in s2c' : client'.incoming < p.seq /\ p.seq < NextSequence'
    <3>1. \A p \in s2c : p.seq \in Nat
      BY <1>1 DEF Types, ProperPacket
    <3> QED BY <1>1, <1>2, <1>5, <3>1 DEF Order
  <2>3. Placed(frames, server.acked)'
    <3>1. \A i \in 0..Backup - 1 : frames[i].sequence \in Nat
      BY <1>3 DEF ProperFrames
    <3>2. Placed(frames, server.acked)
      BY <1>1 DEF Order
    <3> QED BY <1>2, <1>4, <1>5, <3>1, <3>2 DEF Placed
  <2> QED BY <1>1, <1>2, <1>4, <1>7, <2>1, <2>2, <2>3 DEF Order
<1>9. lapsed' \/ Tracked'
  BY <1>1, <1>2, <1>4, <1>7, SameBooks
<1> QED BY <1>6, <1>8, <1>9 DEF IInv

LEMMA LoseKeeps ==
    ASSUME IInv, Lose
    PROVE  IInv'
<1>1. Types /\ Order /\ (lapsed \/ Tracked)
  BY DEF IInv
<1>2. /\ s2c' \subseteq s2c /\ c2s' \subseteq c2s
      /\ UNCHANGED <<protocol, world, changes, sentents, pendingdeltabits, frames,
                     server, client, waits, lapsed, misled>>
  BY DEF Lose
<1>3. Types'
  BY <1>1, <1>2 DEF Types, ProperPacket, ProperReport, ProperBits, ProperFrames
<1>4. Reported' \subseteq Reported
  BY <1>2 DEF Reported
<1>5. NextSequence' = NextSequence
  BY <1>2 DEF NextSequence
<1>6. Order'
  BY <1>1, <1>2, <1>4, <1>5 DEF Order, Placed
<1>7. lapsed' \/ Tracked'
  BY <1>1, <1>2, <1>4, SameBooks
<1> QED BY <1>3, <1>6, <1>7 DEF IInv

LEMMA ClientSendKeeps ==
    ASSUME IInv, ClientSend
    PROVE  IInv'
<1>1. Types /\ Order /\ (lapsed \/ Tracked)
  BY DEF IInv
<1>2. UNCHANGED <<protocol, world, changes, sentents, pendingdeltabits, frames,
                  server, s2c, waits, lapsed, misled>>
  BY DEF ClientSend
<1>3. client \in Client /\ server \in Server
  BY <1>1 DEF Types
<1>4. /\ client' \in Client
      /\ client'.ents = client.ents /\ client'.incoming = client.incoming
      /\ client'.valid \in {client.valid, 0}
      /\ client'.outgoing = client.outgoing + 1
      /\ Reported' \subseteq Reported
      /\ \A q \in c2s' : q \in c2s \/ (q.seq = client.outgoing /\ ProperReport(q))
  <2>1. CASE protocol = "NQ"
    <3>1. /\ client' = [client EXCEPT !.outgoing = @ + 1, !.acks = << >>]
          /\ c2s' = c2s \cup {[seq |-> client.outgoing, acks |-> client.acks]}
      BY <2>1 DEF ClientSend, SendNQ
    <3>2. /\ client' \in Client /\ client'.acks = << >>
          /\ client'.ents = client.ents /\ client'.incoming = client.incoming
          /\ client'.valid \in {client.valid, 0}
          /\ client'.outgoing = client.outgoing + 1
      <4>1. client.outgoing + 1 \in Nat /\ << >> \in Seq(Int)
        BY <1>3 DEF Client
      <4>2. client' \in Client
        BY <1>3, <3>1, <4>1 DEF Client
      <4>3. /\ client'.acks = << >> /\ client'.outgoing = client.outgoing + 1
            /\ client'.ents = client.ents /\ client'.incoming = client.incoming
            /\ client'.valid = client.valid
        BY <1>3, <3>1 DEF Client
      <4> QED BY <4>2, <4>3
    <3>3. Reported' \subseteq Reported
      <4>1. Range(<< >>) = {}
        BY DEF Range
      <4>2. Reported' = UNION {Range(p.acks) : p \in c2s'}
        BY <1>2, <2>1, <3>2, <4>1 DEF Reported
      <4>3. \A p \in c2s' : p \in c2s \/ p.acks = client.acks
        BY <3>1
      <4> QED BY <2>1, <4>2, <4>3 DEF Reported
    <3>4. \A q \in c2s' : q \in c2s \/ (q.seq = client.outgoing /\ ProperReport(q))
      BY <1>3, <2>1, <3>1 DEF ProperReport, Client
    <3> QED BY <3>2, <3>3, <3>4
  <2>2. CASE protocol # "NQ"
    <3> DEFINE valid == IF client.outgoing - client.valid >= Backup - 1 THEN 0 ELSE client.valid
               q == [seq |-> client.outgoing, ack |-> client.incoming,
                     delta |-> IF valid = 0 THEN -1 ELSE valid]
    <3>1. /\ client' = [client EXCEPT !.outgoing = @ + 1, !.valid = valid]
          /\ c2s' = c2s \cup {q}
      BY <2>2 DEF ClientSend, SendQW
    <3>2. valid \in {client.valid, 0} /\ valid \in Nat
      BY <1>3 DEF Client
    <3>3. q.seq = client.outgoing /\ q.ack = client.incoming /\ ProperReport(q)
      BY <1>3, <2>2, <3>2 DEF ProperReport, Client
    <3> HIDE DEF valid, q
    <3>4. /\ client' \in Client
          /\ client'.ents = client.ents /\ client'.incoming = client.incoming
          /\ client'.valid \in {client.valid, 0}
          /\ client'.outgoing = client.outgoing + 1
      <4>1. client.outgoing + 1 \in Nat
        BY <1>3 DEF Client
      <4>2. client' \in Client
        BY <1>3, <3>1, <3>2, <4>1 DEF Client
      <4>3. /\ client'.valid = valid /\ client'.outgoing = client.outgoing + 1
            /\ client'.ents = client.ents /\ client'.incoming = client.incoming
        BY <1>3, <3>1 DEF Client
      <4> QED BY <3>2, <4>2, <4>3
    <3>5. Reported' \subseteq Reported
      BY <1>2, <2>2, <3>1, <3>3, <3>4 DEF Reported
    <3> QED BY <3>1, <3>3, <3>4, <3>5
  <2> QED BY <2>1, <2>2
<1>5. Types'
  <2>1. \A q \in c2s' : ProperReport(q)'
    BY <1>1, <1>2, <1>4 DEF Types, ProperReport
  <2> QED BY <1>1, <1>2, <1>4, <2>1 DEF Types, ProperPacket, ProperBits, ProperFrames
<1>6. NextSequence' = NextSequence
  BY <1>2 DEF NextSequence
<1>7. Order'
  <2>1. client.outgoing \in Nat /\ server.incoming \in Nat
    BY <1>3 DEF Client, Server
  <2>2. protocol = "QW" => /\ server.incoming < client'.outgoing
                           /\ \A q \in c2s' : server.incoming < q.seq /\ q.seq < client'.outgoing
    <3>1. \A q \in c2s : q.seq \in Nat
      BY <1>1 DEF Types, ProperReport
    <3> QED BY <1>1, <1>4, <2>1, <3>1 DEF Order
  <2>3. \A s \in Reported' : s <= client'.incoming
    BY <1>1, <1>4 DEF Order
  <2>4. Placed(frames, server.acked)'
    BY <1>1, <1>2, <1>6 DEF Order, Placed
  <2> QED BY <1>1, <1>2, <1>4, <1>6, <2>2, <2>3, <2>4 DEF Order
<1>8. lapsed' \/ Tracked'
  BY <1>1, <1>2, <1>4, SameBooks
<1> QED BY <1>5, <1>7, <1>8 DEF IInv

-----------------------------------------------------------------------------
(* The client takes a packet in. *)

LEMMA ApplyType ==
    ASSUME NEW item, ProperItem(item), NEW old \in Seen
    PROVE  Apply(item, old) \in Seen
<1> DEFINE base == IF item.reset THEN Baseline ELSE IF old = Absent THEN Null ELSE old
<1>1. base \in [Fields -> Nat \cup {-1}]
  BY DEF Baseline, Null, Seen
<1>2. CASE item.kind = "update"
  <2>1. Apply(item, old)
          = [f \in Fields |-> IF f \in DOMAIN item.data THEN item.data[f] ELSE base[f]]
    BY <1>2 DEF Apply, ReadDelta
  <2> HIDE DEF base
  <2>2. ASSUME NEW f \in Fields
        PROVE  (IF f \in DOMAIN item.data THEN item.data[f] ELSE base[f]) \in Nat \cup {-1}
    BY <1>1, <1>2 DEF ProperItem
  <2> QED BY <2>1, <2>2 DEF Seen
<1>3. CASE item.kind \in {"nothing", "remove"}
  BY <1>3 DEF Apply, Seen
<1> QED BY <1>2, <1>3 DEF ProperItem

LEMMA ApplyField ==
    ASSUME NEW item, NEW old, NEW f \in Fields, item.kind = "update"
    PROVE  Apply(item, old)[f] = IF f \in DOMAIN item.data THEN item.data[f]
                                 ELSE IF item.reset THEN 0
                                 ELSE IF old = Absent THEN -1 ELSE old[f]
BY DEF Apply, ReadDelta, Baseline, Null

LEMMA ApplySets ==
    ASSUME NEW p, NEW e \in Ents, NEW f \in Fields, NEW v \in Int, NEW old \in Seen,
           ProperPacket(p), p.clear => old = Absent, Sets(p, v, e, f)
    PROVE  Apply(p.items[e], old)[f] = v
<1>1. p.items[e].kind \in {"nothing", "remove", "update"} /\ Absent[f] = -2
  BY DEF ProperPacket, ProperItem, Absent
<1>2. CASE p.items[e].kind = "nothing"
  BY <1>1, <1>2 DEF Sets, Apply
<1>3. CASE p.items[e].kind = "remove"
  BY <1>1, <1>3 DEF Sets, Apply
<1>4. CASE p.items[e].kind = "update"
  BY <1>4, ApplyField DEF Sets
<1> QED BY <1>1, <1>2, <1>3, <1>4

LEMMA ApplyKeeps ==
    ASSUME NEW p, NEW e \in Ents, NEW f \in Fields, NEW v \in Int, NEW old \in Seen,
           ProperPacket(p), p.clear => old = Absent, Keeps(p, v, e, f), old[f] = v
    PROVE  Apply(p.items[e], old)[f] = v
<1>1. CASE Sets(p, v, e, f)
  BY <1>1, ApplySets
<1>2. CASE ~p.clear /\ p.items[e].kind = "nothing"
  BY <1>2 DEF Apply
<1>3. CASE /\ ~p.clear /\ p.items[e].kind = "update"
           /\ ~p.items[e].reset /\ f \notin DOMAIN p.items[e].data /\ v # -2
  <2>1. old # Absent
    BY <1>3 DEF Absent
  <2> QED BY <1>3, <2>1, ApplyField
<1> QED BY <1>1, <1>2, <1>3 DEF Keeps

\* What the client's acknowledgements gain.
LEMMA AckAdded ==
    ASSUME NEW acks \in Seq(Int), NEW ack \in Int
    PROVE  LET acks2 == IF Len(acks) = Backup THEN [acks EXCEPT ![Backup] = ack]
                        ELSE Append(acks, ack)
           IN  /\ acks2 \in Seq(Int)
               /\ Range(acks2) \subseteq Range(acks) \cup {ack}
<1>1. CASE Len(acks) = Backup
  <2> DEFINE acks2 == [acks EXCEPT ![Backup] = ack]
  <2>1. Backup \in DOMAIN acks /\ DOMAIN acks2 = DOMAIN acks
    BY <1>1, Sizes
  <2>2. acks2 \in Seq(Int)
    BY <2>1
  <2>3. \A i \in DOMAIN acks : acks2[i] \in Range(acks) \cup {ack}
    BY <2>1 DEF Range
  <2> QED BY <1>1, <2>1, <2>2, <2>3 DEF Range
<1>2. CASE Len(acks) # Backup
  <2> DEFINE acks2 == Append(acks, ack)
  <2>1. acks2 \in Seq(Int) /\ DOMAIN acks2 = 1..Len(acks) + 1
    OBVIOUS
  <2>2. ASSUME NEW i \in 1..Len(acks) + 1 PROVE acks2[i] \in Range(acks) \cup {ack}
    BY DEF Range
  <2> QED BY <1>2, <2>1, <2>2 DEF Range
<1> QED BY <1>1, <1>2

\* The client after a packet: what it is built on, and what it reports.
LEMMA Parsed ==
    ASSUME Types, NEW p \in s2c, ClientReceive(p)
    PROVE  /\ client' \in Client
           /\ client'.incoming = p.seq
           /\ client'.outgoing = client.outgoing
           /\ Reported' \subseteq Reported \cup {p.seq, -1}
           /\ ~p.section => client'.valid = client.valid /\ client'.ents = client.ents
           /\ p.section /\ client'.valid # 0 =>
                 /\ p.clear \/ client.valid # 0
                 /\ \A e \in Ents : client'.ents[e] =
                       Apply(p.items[e], IF p.clear THEN Absent ELSE client.ents[e])
<1>1. /\ client \in Client /\ p.seq \in Nat /\ p.section \in BOOLEAN /\ p.clear \in BOOLEAN
      /\ \A e \in Ents : ProperItem(p.items[e])
      /\ UNCHANGED <<protocol, c2s>>
  BY DEF Types, ProperPacket, ClientReceive
<1>2. CASE ~p.section
  <2>1. client' = [client EXCEPT !.incoming = p.seq]
    BY <1>2 DEF ClientReceive
  <2>2. /\ client' \in Client /\ client'.incoming = p.seq /\ client'.outgoing = client.outgoing
        /\ client'.acks = client.acks
        /\ client'.valid = client.valid /\ client'.ents = client.ents
    BY <1>1, <2>1, SMTT(40) DEF Client
  <2>3. Reported' \subseteq Reported \cup {p.seq, -1}
    BY <1>1, <2>2 DEF Reported
  <2> QED BY <1>2, <2>2, <2>3
<1>3. CASE p.section
  <2> DEFINE parsed == IF protocol = "NQ" THEN client.parsed + 1 ELSE p.seq
             usable == /\ client.valid # 0
                       /\ parsed - client.valid < Backup - 1
                       /\ Slot(parsed) # Slot(client.valid)
             old == IF usable /\ ~p.clear THEN client.ents ELSE Nobody
             isvalid == usable \/ p.clear
             ack == IF client.valid = 0 THEN -1 ELSE p.seq
             acks2 == IF Len(client.acks) = Backup THEN [client.acks EXCEPT ![Backup] = ack]
                      ELSE Append(client.acks, ack)
             acks3 == IF protocol = "QW" THEN client.acks ELSE acks2
             ents2 == IF isvalid THEN [e \in Ents |-> Apply(p.items[e], old[e])] ELSE Nobody
             valid2 == IF isvalid THEN parsed ELSE 0
  <2>1. client' = [client EXCEPT !.incoming = p.seq, !.parsed = parsed, !.acks = acks3,
                                 !.ents = ents2, !.valid = valid2]
    BY <1>1, <1>3 DEF ClientReceive, ParseEntities, Client
  <2>2. parsed \in Nat /\ valid2 \in Nat /\ isvalid \in BOOLEAN
    BY <1>1 DEF Client
  <2>3. acks3 \in Seq(Int) /\ Range(acks3) \subseteq Range(client.acks) \cup {p.seq, -1}
    <3>1. ack \in Int /\ ack \in {p.seq, -1} /\ client.acks \in Seq(Int)
      BY <1>1 DEF Client
    <3>2. acks2 \in Seq(Int) /\ Range(acks2) \subseteq Range(client.acks) \cup {ack}
      <4> HIDE DEF ack
      <4> QED BY <3>1, AckAdded
    <3> HIDE DEF acks2, ack
    <3> QED BY <3>1, <3>2
  <2>4. ents2 \in [Ents -> Seen]
    <3>1. old \in [Ents -> Seen] /\ Nobody \in [Ents -> Seen]
      BY <1>1 DEF Nobody, Seen, Client
    <3>2. \A e \in Ents : Apply(p.items[e], old[e]) \in Seen
      <4> HIDE DEF old
      <4> QED BY <1>1, <3>1, ApplyType
    <3> HIDE DEF old, isvalid
    <3> QED BY <3>1, <3>2
  <2>5. isvalid => /\ p.clear \/ client.valid # 0
                   /\ \A e \in Ents : ents2[e] =
                        Apply(p.items[e], IF p.clear THEN Absent ELSE client.ents[e])
    BY <1>1 DEF Nobody
  <2>6. valid2 # 0 => isvalid
    OBVIOUS
  <2> HIDE DEF parsed, usable, old, isvalid, ack, acks2, acks3, ents2, valid2
  <2>7. /\ client' \in Client /\ client'.incoming = p.seq /\ client'.outgoing = client.outgoing
        /\ client'.acks = acks3 /\ client'.ents = ents2 /\ client'.valid = valid2
    <3>1. client' \in Client
      <4>1. client' = [ents |-> ents2, valid |-> valid2, parsed |-> parsed, incoming |-> p.seq,
                       outgoing |-> client.outgoing, acks |-> acks3]
        BY <1>1, <2>1 DEF Client
      <4>2. client.outgoing \in Nat /\ p.seq \in Int
        BY <1>1 DEF Client
      <4> QED BY <2>2, <2>3, <2>4, <4>1, <4>2 DEF Client
    <3>2. /\ client'.incoming = p.seq /\ client'.outgoing = client.outgoing
          /\ client'.acks = acks3 /\ client'.ents = ents2 /\ client'.valid = valid2
      BY <1>1, <2>1 DEF Client
    <3> QED BY <3>1, <3>2
  <2>8. Reported' \subseteq Reported \cup {p.seq, -1}
    BY <1>1, <2>3, <2>7 DEF Reported
  <2> QED BY <1>3, <2>5, <2>6, <2>7, <2>8
<1> QED BY <1>1, <1>2, <1>3

\* A packet the books do not know of brings what it was about.
LEMMA BooksWhenReceived ==
    ASSUME Types, NEW p \in s2c, s2c' \subseteq s2c,
           UNCHANGED <<sentents, pendingdeltabits, frames, server>>,
           Reported' \subseteq Reported \cup {p.seq, -1},
           NEW e \in Ents, NEW f \in Fields, NEW s \in Int, Books(s, e, f)
    PROVE  Books(s, e, f)' \/ (s < p.seq /\ Brings(p, e, f))
<1> DEFINE v == sentents[e][f]
<1>1. CASE Owed(pendingdeltabits, v, e, f)
  BY <1>1 DEF Books, OnBooks
<1>2. CASE ~Owed(pendingdeltabits, v, e, f)
  <2>1. PICK i \in 0..Backup - 1 :
           frames[i].sequence > s /\ Logs(frames[i], server.acked, Reported, s2c, v, e, f)
    BY <1>2 DEF Books, OnBooks
  <2>2. frames[i].sequence \in Nat /\ p.seq \in Nat
    BY DEF Types, ProperFrames, ProperPacket
  <2>3. CASE frames[i].sequence = p.seq
    BY <2>1, <2>3 DEF Logs, Brings
  <2>4. CASE frames[i].sequence # p.seq
    <3>1. frames[i].sequence \notin Reported'
      BY <2>1, <2>2, <2>4 DEF Logs
    <3>2. Logs(frames[i], server.acked, Reported', s2c', v, e, f)
      BY <2>1, <3>1 DEF Logs, Steady
    <3> QED BY <2>1, <3>2 DEF Books, OnBooks
  <2> QED BY <2>3, <2>4
<1> QED BY <1>1, <1>2

LEMMA BooksBefore ==
    ASSUME NEW s \in Int, NEW s2 \in Int, s2 <= s, NEW pend, NEW fr, ProperFrames(fr),
           NEW acked, NEW rep, NEW wire, NEW v, NEW e, NEW f,
           OnBooks(pend, fr, acked, rep, wire, s, v, e, f)
    PROVE  OnBooks(pend, fr, acked, rep, wire, s2, v, e, f)
<1>1. \A i \in 0..Backup - 1 : fr[i].sequence > s => fr[i].sequence > s2
  BY DEF ProperFrames
<1> QED BY <1>1 DEF OnBooks

LEMMA ClientReceiveTracks ==
    ASSUME Types, Types', Tracked, NEW p \in s2c, ClientReceive(p),
           \A q \in s2c : client.incoming < q.seq
    PROVE  Tracked'
<1>1. /\ UNCHANGED <<sentents, pendingdeltabits, frames, server, misled>>
      /\ s2c' \subseteq s2c /\ \A q \in s2c' : q.seq > p.seq
  BY DEF ClientReceive, After
<1>2. /\ client'.incoming = p.seq
      /\ Reported' \subseteq Reported \cup {p.seq, -1}
      /\ ~p.section => client'.valid = client.valid /\ client'.ents = client.ents
      /\ p.section /\ client'.valid # 0 =>
            /\ p.clear \/ client.valid # 0
            /\ \A e \in Ents : client'.ents[e] =
                  Apply(p.items[e], IF p.clear THEN Absent ELSE client.ents[e])
  BY Parsed
<1>3. \A q \in s2c : q.seq \in Nat /\ ProperPacket(q)
  BY DEF Types, ProperPacket
<1>4. client.incoming < p.seq
  OBVIOUS
<1> SUFFICES ASSUME NEW e \in Ents \ misled, NEW f \in Fields
             PROVE  /\ client'.valid # 0 => Books(-1, e, f)' \/ Shown(e, f)'
                    /\ \A q \in s2c' : q.clear => Books(q.seq, e, f)' \/ Brings(q, e, f)'
  BY <1>1 DEF Tracked
<1> DEFINE v == sentents[e][f]
<1>5. v \in Int /\ client.ents[e] \in Seen /\ Absent \in Seen
  BY AbsentField DEF Types, Client, Seen
<1>6. \A s \in Int : Books(s, e, f) => Books(s, e, f)' \/ (s < p.seq /\ Brings(p, e, f))
  BY <1>1, <1>2, BooksWhenReceived
<1>7. ASSUME NEW q \in s2c', q.clear
      PROVE  Books(q.seq, e, f)' \/ Brings(q, e, f)'
  <2>1. CASE Books(q.seq, e, f)
    BY <1>1, <1>3, <1>6, <2>1
  <2>2. CASE Brings(q, e, f)
    BY <1>1, <2>2 DEF Brings, Steady
  <2> QED BY <1>1, <1>7, <2>1, <2>2 DEF Tracked
<1>8. Steady(s2c, p.seq, v, e, f) => Steady(s2c', client'.incoming, v, e, f)
  BY <1>1, <1>2 DEF Steady
<1>9. ASSUME client'.valid # 0, Brings(p, e, f)
      PROVE  Shown(e, f)'
  <2>1. p.section
    <3>1. ~p.section => ~p.clear /\ p.items[e].kind = "nothing"
      BY <1>3 DEF ProperPacket, Nothing
    <3>2. p.items[e].kind = "nothing" => p.clear
      BY <1>9 DEF Brings, Sets
    <3> QED BY <1>3, <3>1, <3>2 DEF ProperPacket
  <2>2. client'.ents[e][f] = v
    BY <1>2, <1>3, <1>5, <1>9, <2>1, ApplySets DEF Brings
  <2> QED BY <1>1, <1>8, <1>9, <2>2 DEF Shown, Brings
<1>10. ASSUME client'.valid # 0
       PROVE  Books(-1, e, f)' \/ Shown(e, f)'
  <2>1. CASE p.clear
    <3>1. Books(p.seq, e, f) \/ Brings(p, e, f)
      BY <2>1 DEF Tracked
    <3>2. CASE Brings(p, e, f)
      BY <1>9, <1>10, <3>2
    <3>3. CASE Books(p.seq, e, f)
      <4>1. Books(p.seq, e, f)'
        BY <1>3, <1>6, <3>3
      <4>2. Books(-1, e, f)'
        BY <1>3, <4>1, BooksBefore DEF Books, Types
      <4> QED BY <4>2
    <3> QED BY <3>1, <3>2, <3>3
  <2>2. CASE ~p.clear
    <3>1. client.valid # 0
      BY <1>2, <1>10, <2>2
    <3>2. Books(-1, e, f) \/ Shown(e, f)
      BY <3>1 DEF Tracked
    <3>3. CASE Books(-1, e, f)
      BY <1>6, <1>9, <1>10, <3>3
    <3>4. CASE Shown(e, f)
      <4>1. Steady(s2c', client'.incoming, v, e, f)
        BY <1>1, <1>2, <3>4 DEF Shown, Steady
      <4>2. client'.ents[e][f] = v
        <5>1. CASE ~p.section
          BY <1>2, <3>4, <5>1 DEF Shown
        <5>2. CASE p.section
          <6>1. Keeps(p, v, e, f)
            BY <1>4, <3>4 DEF Shown, Steady
          <6>2. client'.ents[e] = Apply(p.items[e], client.ents[e])
            BY <1>2, <1>10, <2>2, <5>2
          <6> QED BY <1>3, <1>5, <2>2, <3>4, <6>1, <6>2, ApplyKeeps DEF Shown
        <5> QED BY <5>1, <5>2
      <4> QED BY <1>1, <4>1, <4>2 DEF Shown
    <3> QED BY <3>2, <3>3, <3>4
  <2> QED BY <2>1, <2>2
<1> QED BY <1>7, <1>10

LEMMA ClientReceiveKeeps ==
    ASSUME IInv, NEW p \in s2c, ClientReceive(p)
    PROVE  IInv'
<1>1. Types /\ Order /\ (lapsed \/ Tracked)
  BY DEF IInv
<1>2. /\ s2c' \subseteq s2c /\ \A q \in s2c' : q.seq > p.seq
      /\ UNCHANGED <<protocol, world, changes, sentents, pendingdeltabits,
                     frames, server, c2s, waits, lapsed, misled>>
  BY DEF ClientReceive, After
<1>3. /\ client' \in Client /\ client'.incoming = p.seq /\ client'.outgoing = client.outgoing
      /\ Reported' \subseteq Reported \cup {p.seq, -1}
  BY <1>1, Parsed
<1>4. Types'
  BY <1>1, <1>2, <1>3 DEF Types, ProperPacket, ProperReport, ProperBits, ProperFrames
<1>5. NextSequence' = NextSequence /\ p.seq \in Nat /\ client.incoming \in Int
  BY <1>1, <1>2 DEF NextSequence, Types, ProperPacket, Client
<1>6. Order'
  <2>1. \A s \in Reported' : s <= client'.incoming
    <3>1. ASSUME NEW s \in Reported PROVE s <= p.seq
      <4>1. s \in Int
        <5>1. Range(client.acks) \subseteq Int
          BY <1>1 DEF Types, Client, Range
        <5>2. protocol = "NQ" => \A q \in c2s : Range(q.acks) \subseteq Int
          BY <1>1 DEF Types, ProperReport, Range
        <5>3. protocol = "QW" => \A q \in c2s : q.ack \in Int
          BY <1>1 DEF Types, ProperReport
        <5> QED BY <1>1, <1>5, <5>1, <5>2, <5>3 DEF Reported, Types
      <4> QED BY <1>1, <1>5, <4>1 DEF Order
    <3> QED BY <1>3, <1>5, <3>1
  <2>2. Placed(frames, server.acked)'
    BY <1>1, <1>2, <1>5 DEF Order, Placed
  <2>3. client'.incoming < NextSequence'
    BY <1>1, <1>3, <1>5 DEF Order
  <2> QED BY <1>1, <1>2, <1>3, <1>5, <2>1, <2>2, <2>3 DEF Order
<1>7. lapsed' \/ Tracked'
  BY <1>1, <1>2, <1>4, ClientReceiveTracks DEF Order
<1> QED BY <1>4, <1>6, <1>7 DEF IInv

-----------------------------------------------------------------------------
(* What is marked when a frame is built. *)

LEMMA Marks ==
    ASSUME NEW w, NEW pend, NEW e \in Ents
    PROVE  /\ Marked(w, pend)[e] = MarkedEntity(Told(pend)[e], w[e],
                                       IF Wipes(pend) THEN {} ELSE pend[e], e \in Sticky)
           /\ Marked(w, pend)[0] = IF Wipes(pend) THEN {"remove"} ELSE pend[0]
           /\ NowTold(w, pend)[e] = IF w[e] = Absent /\ e \in Sticky THEN Told(pend)[e] ELSE w[e]
BY Sizes DEF Marked, NowTold

LEMMA MarkTypes ==
    ASSUME Types, NEW w \in [Ents -> Entity], NEW pend, ProperBits(pend)
    PROVE  /\ Told(pend) \in [Ents -> Entity]
           /\ NowTold(w, pend) \in [Ents -> Entity]
           /\ ProperBits(Marked(w, pend))
           /\ Marked(w, pend)[0] # {} <=> Wipes(pend)
<1>1. Told(pend) \in [Ents -> Entity]
  BY DEF Told, Nobody, Entity, Types
<1>2. NowTold(w, pend) \in [Ents -> Entity]
  BY <1>1 DEF NowTold
<1>3. ASSUME NEW e \in 0..MaxEnt
      PROVE  Marked(w, pend)[e] \subseteq Bits
  <2>1. CASE e = 0
    <3>1. Marked(w, pend)[0] = IF Wipes(pend) THEN {"remove"} ELSE pend[0]
      BY Sizes DEF Marked
    <3> QED BY <2>1, <3>1 DEF ProperBits, Bits
  <2>2. CASE e # 0
    <3>1. e \in Ents
      BY <2>2, Sizes
    <3> DEFINE bits == IF Wipes(pend) THEN {} ELSE pend[e]
    <3>2. bits \subseteq Bits
      BY DEF ProperBits, BitsOf
    <3>3. Marked(w, pend)[e] = MarkedEntity(Told(pend)[e], w[e], bits, e \in Sticky)
      BY <3>1, Marks
    <3> HIDE DEF bits
    <3> QED BY <3>2, <3>3 DEF MarkedEntity, Revived, Changed, Bits
  <2> QED BY <2>1, <2>2
<1>4. Marked(w, pend) \in BitsOf
  BY <1>3 DEF Marked, BitsOf
<1>5. Marked(w, pend)[0] = IF Wipes(pend) THEN {"remove"} ELSE pend[0]
  BY Sizes DEF Marked
<1>6. ~Wipes(pend) => pend[0] = {}
  BY DEF Wipes, ProperBits
<1> QED BY <1>1, <1>2, <1>4, <1>5, <1>6 DEF ProperBits

\* A field that is not marked is what it was, and what was owed of it still is.
LEMMA MarkedField ==
    ASSUME Types, NEW w \in [Ents -> Entity], NEW pend, ProperBits(pend),
           NEW e \in Ents, NEW f \in Fields
    PROVE  LET m == Marked(w, pend)
               v == Told(pend)[e][f]
               v2 == NowTold(w, pend)[e][f]
           IN  /\ \/ Covers(m[e], v2, f)
                  \/ v2 = v /\ (~Wipes(pend) => (Covers(pend[e], v, f) => Covers(m[e], v2, f)))
               /\ Wipes(pend) /\ ~Covers(m[e], v2, f) => v2 = -2 /\ m[e] = {}
<1> DEFINE m == Marked(w, pend)
           old == Told(pend)[e]
           new == w[e]
           t == NowTold(w, pend)[e]
           bits == IF Wipes(pend) THEN {} ELSE pend[e]
<1>1. /\ m[e] = MarkedEntity(old, new, bits, e \in Sticky)
      /\ t = IF new = Absent /\ e \in Sticky THEN old ELSE new
  BY Marks
<1>2. old \in Entity /\ new \in Entity
  BY MarkTypes
<1>3. /\ old = Absent <=> old[f] = -2
      /\ new = Absent <=> new[f] = -2
      /\ Absent[f] = -2
  <2> HIDE DEF old, new
  <2> QED BY <1>2, AbsentField DEF Absent
<1>4. "remove" # f /\ f \in Fields
  BY Sizes
<1>5. Wipes(pend) => old = Absent /\ bits = {}
  BY DEF Told, Nobody
<1>6. ~Wipes(pend) => bits = pend[e]
  OBVIOUS
<1> HIDE DEF m, old, new, t, bits
<1>7. /\ Covers(m[e], t[f], f) \/ (t[f] = old[f] /\ (Covers(bits, old[f], f) => Covers(m[e], t[f], f)))
      /\ Wipes(pend) /\ ~Covers(m[e], t[f], f) => t[f] = -2 /\ m[e] = {}
  <2>1. CASE new = Absent /\ old # Absent /\ e \notin Sticky
    <3>1. m[e] = {"remove"} /\ t = Absent
      BY <1>1, <2>1 DEF MarkedEntity
    <3> QED BY <3>1, <1>3 DEF Covers
  <2>2. CASE new = Absent /\ (old = Absent \/ e \in Sticky)
    <3>1. m[e] = bits /\ t = old
      BY <1>1, <2>2 DEF MarkedEntity
    <3> QED BY <3>1, <1>3, <1>5
  <2>3. CASE new # Absent /\ old = Absent
    <3>1. m[e] = {"reset", "reset2"} /\ t = new
      BY <1>1, <2>3 DEF MarkedEntity
    <3> QED BY <3>1, <1>3, <2>3 DEF Covers
  <2>4. CASE new # Absent /\ old # Absent
    <3>1. m[e] = Revived(bits) \cup Changed(old, new) /\ t = new
      BY <1>1, <2>4 DEF MarkedEntity
    <3>2. CASE old[f] # new[f]
      BY <3>1, <3>2, <1>3, <1>4, <2>4 DEF Covers, Changed
    <3>3. CASE old[f] = new[f]
      <4>1. bits \ {"remove"} \subseteq m[e]
        BY <3>1 DEF Revived
      <4> QED BY <3>1, <3>3, <4>1, <1>3, <1>4, <1>5, <2>4 DEF Covers
    <3> QED BY <3>2, <3>3
  <2> QED BY <2>1, <2>2, <2>3, <2>4
<1> QED BY <1>6, <1>7 DEF m, old, t

\* Only what is PVSF_NOREMOVE can be removed while it is told to be there.
LEMMA MarkedRemove ==
    ASSUME NEW w, NEW pend, NEW e \in Ents,
           "remove" \in Marked(w, pend)[e], NowTold(w, pend)[e] # Absent
    PROVE  e \in Sticky
<1>1. /\ Marked(w, pend)[e] = MarkedEntity(Told(pend)[e], w[e],
                                 IF Wipes(pend) THEN {} ELSE pend[e], e \in Sticky)
      /\ NowTold(w, pend)[e] = IF w[e] = Absent /\ e \in Sticky THEN Told(pend)[e] ELSE w[e]
  BY Marks
<1>2. CASE w[e] = Absent
  BY <1>1, <1>2
<1>3. CASE w[e] # Absent /\ Told(pend)[e] = Absent
  BY <1>1, <1>3 DEF MarkedEntity
<1>4. CASE w[e] # Absent /\ Told(pend)[e] # Absent
  <2>1. Marked(w, pend)[e] = Revived(IF Wipes(pend) THEN {} ELSE pend[e])
                                \cup Changed(Told(pend)[e], w[e])
    BY <1>1, <1>4 DEF MarkedEntity
  <2> QED BY <2>1, Sizes DEF Revived, Changed
<1> QED BY <1>2, <1>3, <1>4

-----------------------------------------------------------------------------
(* What is written of an entity, and what is logged of it. *)

\* p says of e what the marked bits ask for.
LEMMA ItemFacts ==
    ASSUME NEW m, ProperBits(m), NEW t \in [Ents -> Entity], NEW e \in Ents,
           "remove" \in m[e] \/ t[e] # Absent
    PROVE  /\ ProperItem(Item(m, t, e))
           /\ Item(m, t, e).kind = "remove" <=> "remove" \in m[e]
           /\ Item(m, t, e).kind \in {"remove", "update"}
           /\ Item(m, t, e).kind = "update" /\ "reset" \in m[e] => Item(m, t, e).reset
           /\ "remove" \notin m[e] =>
                \A f \in Fields :
                   /\ f \in DOMAIN Item(m, t, e).data => Item(m, t, e).data[f] = t[e][f]
                   /\ f \notin DOMAIN Item(m, t, e).data =>
                         \/ Item(m, t, e).reset /\ t[e][f] = 0
                         \/ ~Item(m, t, e).reset /\ f \notin m[e] /\ "reset" \notin m[e]
<1>1. m[e] \subseteq Bits /\ t[e] \in Entity
  BY Sizes DEF ProperBits, BitsOf
<1>2. CASE "remove" \in m[e]
  <2>1. Item(m, t, e) = Removal
    BY <1>2 DEF Item
  <2> QED BY <1>2, <2>1 DEF Removal, ProperItem
<1>3. CASE "remove" \notin m[e] /\ {"reset", "reset2"} \cap m[e] # {}
  <2>1. Item(m, t, e) = Update(TRUE, Changed(Baseline, t[e]), t[e])
    BY <1>3 DEF Item
  <2>2. t[e] \in [Fields -> Nat]
    BY <1>1, <1>3 DEF Entity
  <2>3. /\ Item(m, t, e).kind = "update" /\ Item(m, t, e).reset = TRUE
        /\ Item(m, t, e).data = [f \in Changed(Baseline, t[e]) |-> t[e][f]]
    BY <2>1 DEF Update
  <2>4. \A f \in Fields : f \in Changed(Baseline, t[e]) <=> t[e][f] # 0
    BY DEF Changed, Baseline
  <2>5. Changed(Baseline, t[e]) \subseteq Fields
    BY DEF Changed
  <2> QED BY <1>3, <2>2, <2>3, <2>4, <2>5 DEF ProperItem
<1>4. CASE {"remove", "reset", "reset2"} \cap m[e] = {}
  <2>1. Item(m, t, e) = Update(FALSE, m[e], t[e])
    BY <1>4 DEF Item
  <2>2. t[e] \in [Fields -> Nat]
    BY <1>1, <1>4 DEF Entity
  <2>3. /\ Item(m, t, e).kind = "update" /\ Item(m, t, e).reset = FALSE
        /\ Item(m, t, e).data = [f \in m[e] |-> t[e][f]]
    BY <2>1 DEF Update
  <2>4. m[e] \subseteq Fields
    BY <1>1, <1>4 DEF Bits
  <2> QED BY <1>4, <2>2, <2>3, <2>4 DEF ProperItem
<1> QED BY <1>2, <1>3, <1>4

\* Unless it removes what is told to be there, an item keeps every field, and sets and
\* logs those that are marked.
LEMMA ItemTells ==
    ASSUME NEW m, ProperBits(m), NEW t \in [Ents -> Entity], NEW e \in Ents, NEW f \in Fields,
           "remove" \in m[e] <=> t[e] = Absent,
           NEW p, p.items[e] = Item(m, t, e),
           p.clear /\ "remove" \notin m[e] => "reset" \in m[e]
    PROVE  /\ Keeps(p, t[e][f], e, f)
           /\ Covers(m[e], t[e][f], f) => /\ Sets(p, t[e][f], e, f)
                                          /\ Covers(Logged(m[e]), t[e][f], f)
<1> DEFINE v == t[e][f]
<1>1. t[e] = Absent <=> v = -2
  BY AbsentField
<1>2. /\ p.items[e].kind = "remove" <=> "remove" \in m[e]
      /\ p.items[e].kind \in {"remove", "update"}
      /\ p.items[e].kind = "update" /\ "reset" \in m[e] => p.items[e].reset
      /\ p.items[e].reset \in BOOLEAN
      /\ "remove" \notin m[e] =>
             /\ f \in DOMAIN p.items[e].data => p.items[e].data[f] = v
             /\ f \notin DOMAIN p.items[e].data =>
                   \/ p.items[e].reset /\ v = 0
                   \/ ~p.items[e].reset /\ f \notin m[e] /\ "reset" \notin m[e]
  BY ItemFacts DEF ProperItem
<1> HIDE DEF v
<1>3. Covers(m[e], v, f) => Sets(p, v, e, f)
  BY <1>1, <1>2 DEF Covers, Sets
<1>4. Keeps(p, v, e, f)
  <2>1. CASE "remove" \in m[e]
    BY <1>1, <1>2, <2>1 DEF Keeps, Sets
  <2>2. CASE "remove" \notin m[e] /\ f \in DOMAIN p.items[e].data
    BY <1>1, <1>2, <2>2 DEF Keeps, Sets
  <2>3. CASE "remove" \notin m[e] /\ f \notin DOMAIN p.items[e].data
    BY <1>1, <1>2, <2>3 DEF Keeps, Sets
  <2> QED BY <2>1, <2>2, <2>3
<1>5. Covers(m[e], v, f) => Covers(Logged(m[e]), v, f)
  <2>1. "reset2" # f /\ "remove" # f /\ "reset" # f
    BY Sizes
  <2>2. CASE "remove" \in m[e]
    BY <1>1, <2>2 DEF Logged, Covers
  <2>3. CASE "remove" \notin m[e] /\ "reset2" \in m[e]
    BY <1>1, <2>1, <2>3 DEF Logged, Covers
  <2>4. CASE {"remove", "reset2"} \cap m[e] = {} /\ "reset" \in m[e]
    <3>1. Logged(m[e]) = {"reset"}
      BY <2>4 DEF Logged
    <3> QED BY <1>1, <2>4, <3>1 DEF Covers
  <2>5. CASE {"remove", "reset2", "reset"} \cap m[e] = {}
    <3>1. Logged(m[e]) = m[e]
      BY <2>5 DEF Logged
    <3> QED BY <3>1
  <2> QED BY <2>2, <2>3, <2>4, <2>5
<1> QED BY <1>3, <1>4, <1>5 DEF v

-----------------------------------------------------------------------------
(* A packet leaves. *)

LEMMA MarkedWhenWiped ==
    ASSUME NEW w, NEW pend, Wipes(pend), NEW e \in Ents
    PROVE  Marked(w, pend)[e] \in {{}, {"reset", "reset2"}}
<1>1. Marked(w, pend)[e] = MarkedEntity(Absent, w[e], {}, e \in Sticky)
  BY Marks DEF Told, Nobody
<1> QED BY <1>1 DEF MarkedEntity

\* The packet, what is still to be sent after it, and what is logged for it.
PacketOf(m, t, section, stop) ==
    [seq |-> Sequence, section |-> section, clear |-> section /\ m[0] # {},
     items |-> [e \in Ents |-> IF section /\ e \in Written(m, t, stop)
                               THEN Item(m, t, e) ELSE Nothing]]

RestOf(m, t, section, stop) == IF section THEN Rest(m, t, stop) ELSE m

LogAt(m, t, section, stop, stale) == IF section THEN LogOf(m, t, stop, stale) ELSE NoBits

MisledBy(m, t, section, stop) == IF section THEN Misled(m, t, stop) ELSE {}

LEMMA WrittenItem ==
    ASSUME NEW m, NEW t, NEW stop, NEW e \in Written(m, t, stop)
    PROVE  /\ e \in Ents /\ m[e] # {}
           /\ "remove" \in m[e] \/ t[e] # Absent
BY DEF Written, Due, Ghosts

\* What is owed of a field is written, or is owed still.
LEMMA EmitField ==
    ASSUME Types, NEW w \in [Ents -> Entity], NEW pend, ProperBits(pend),
           NEW section \in BOOLEAN, NEW stop, NEW stale,
           NEW m, m = Marked(w, pend), NEW t, t = NowTold(w, pend),
           NEW p, p = PacketOf(m, t, section, stop),
           NEW e \in Ents \ MisledBy(m, t, section, stop), NEW f \in Fields
    PROVE  /\ ~p.clear => Keeps(p, t[e][f], e, f)
           /\ p.clear => Owed(m, t[e][f], e, f)
           /\ Owed(m, t[e][f], e, f) =>
                 \/ Owed(RestOf(m, t, section, stop), t[e][f], e, f)
                 \/ /\ Sets(p, t[e][f], e, f)
                    /\ Owed(LogAt(m, t, section, stop, stale), t[e][f], e, f)
<1> DEFINE v == t[e][f]
           written == section /\ e \in Written(m, t, stop)
<1>1. /\ ProperBits(m) /\ t \in [Ents -> Entity]
      /\ m[0] # {} <=> Wipes(pend)
  BY MarkTypes
<1>2. /\ p.clear = (section /\ m[0] # {})
      /\ p.items[e] = IF written THEN Item(m, t, e) ELSE Nothing
  BY DEF PacketOf
<1>3. t[e] = Absent <=> v = -2
  BY <1>1, AbsentField
<1>4. Wipes(pend) /\ ~Covers(m[e], v, f) => v = -2 /\ m[e] = {}
  BY MarkedField
<1>5. m[0] # {} => m[0] = {"remove"}
  BY <1>1 DEF ProperBits
<1>6. p.clear => Owed(m, v, e, f)
  BY <1>2, <1>5 DEF Owed
<1>7. CASE written
  <2>1. "remove" \in m[e] <=> t[e] = Absent
    BY <1>7, WrittenItem DEF MisledBy, Misled
  <2>2. p.clear /\ "remove" \notin m[e] => "reset" \in m[e]
    <3>1. m[e] # {}
      BY <1>7, WrittenItem
    <3>2. p.clear => Wipes(pend)
      BY <1>1, <1>2
    <3>3. Wipes(pend) => m[e] \in {{}, {"reset", "reset2"}}
      BY MarkedWhenWiped
    <3> QED BY <3>1, <3>2, <3>3
  <2>3. /\ Keeps(p, v, e, f)
        /\ Covers(m[e], v, f) => Sets(p, v, e, f) /\ Covers(Logged(m[e]), v, f)
    BY <1>1, <1>2, <1>7, <2>1, <2>2, ItemTells
  <2>4. Owed(m, v, e, f) => Covers(m[e], v, f)
    <3>1. "remove" \in m[0] => Wipes(pend)
      BY <1>1
    <3>2. m[e] # {}
      BY <1>7, WrittenItem
    <3> QED BY <1>4, <3>1, <3>2 DEF Owed
  <2>5. LogAt(m, t, section, stop, stale)[e] = Logged(m[e])
    <3>1. e \in 0..MaxEnt /\ e # 0
      BY Sizes
    <3> QED BY <1>7, <3>1 DEF LogAt, LogOf
  <2> QED BY <1>6, <2>3, <2>4, <2>5 DEF Owed
<1>8. CASE ~written
  <2>1. p.items[e].kind = "nothing"
    BY <1>2, <1>8 DEF Nothing
  <2>2. ~p.clear => Keeps(p, v, e, f)
    BY <2>1 DEF Keeps
  <2>3. ASSUME Owed(m, v, e, f)
        PROVE  \/ Owed(RestOf(m, t, section, stop), v, e, f)
               \/ /\ Sets(p, v, e, f)
                  /\ Owed(LogAt(m, t, section, stop, stale), v, e, f)
    <3>1. CASE ~section
      BY <2>3, <3>1 DEF RestOf
    <3>2. CASE section /\ Covers(m[e], v, f)
      <4>1. e \notin Ghosts(m, t)
        BY <1>3, <3>2 DEF Ghosts, Covers
      <4>2. e \in 0..MaxEnt /\ e # 0
        BY Sizes
      <4>3. RestOf(m, t, section, stop)[e] = m[e]
        BY <1>8, <3>2, <4>1, <4>2 DEF RestOf, Rest
      <4> QED BY <3>2, <4>3 DEF Owed
    <3>3. CASE section /\ ~Covers(m[e], v, f)
      <4>1. "remove" \in m[0]
        BY <2>3, <3>3 DEF Owed
      <4>2. p.clear /\ v = -2
        BY <1>1, <1>2, <1>4, <3>3, <4>1
      <4>3. Sets(p, v, e, f)
        BY <2>1, <4>2 DEF Sets
      <4>4. LogAt(m, t, section, stop, stale)[0] = m[0]
        BY <3>3, Sizes DEF LogAt, LogOf
      <4> QED BY <4>1, <4>3, <4>4 DEF Owed
    <3> QED BY <3>1, <3>2, <3>3
  <2> QED BY <1>6, <2>2, <2>3
<1> QED BY <1>7, <1>8

\* What Emit leaves, part by part.
LEMMA EmitParts ==
    ASSUME NEW w, NEW pend, NEW fr, NEW acked,
           NEW section, NEW stop, NEW stale,
           NEW burst,
           Emit(w, pend, fr, acked, section, stop, stale, burst),
           NEW m, m = Marked(w, pend), NEW t, t = NowTold(w, pend)
    PROVE  /\ world' = w /\ sentents' = t
           /\ changes' = IF w = world THEN changes ELSE changes + 1
           /\ lapsed' = (lapsed \/ Lapses(fr, acked))
           /\ misled' = misled \cup MisledBy(m, t, section, stop)
           /\ waits' = IF section THEN Waiting(m, t, stop) ELSE [e \in Ents |-> 0]
BY DEF Emit, MisledBy

LEMMA EmitSends ==
    ASSUME NEW w, NEW pend, NEW fr, NEW acked,
           NEW section, NEW stop, NEW stale,
           NEW burst,
           Emit(w, pend, fr, acked, section, stop, stale, burst),
           NEW m, m = Marked(w, pend), NEW t, t = NowTold(w, pend)
    PROVE  /\ pendingdeltabits' = RestOf(m, t, section, stop)
           /\ frames' = [fr EXCEPT ![Slot(Sequence)] =
                            [sequence |-> Sequence,
                             resend |-> LogAt(m, t, section, stop, stale)]]
           /\ s2c' = s2c \cup {PacketOf(m, t, section, stop)}
<1>1. pendingdeltabits' = RestOf(m, t, section, stop)
  BY DEF Emit, RestOf
<1>2. frames' = [fr EXCEPT ![Slot(Sequence)] =
                    [sequence |-> Sequence, resend |-> LogAt(m, t, section, stop, stale)]]
  BY DEF Emit, LogAt
<1>3. s2c' = s2c \cup {PacketOf(m, t, section, stop)}
  BY DEF Emit, PacketOf
<1> QED BY <1>1, <1>2, <1>3

LEMMA EmitServerType ==
    ASSUME Types, NEW w, NEW pend, NEW fr, NEW acked \in Int,
           NEW section, NEW stop \in 1..MaxEnt + 1, NEW stale, NEW burst \in BOOLEAN,
           Emit(w, pend, fr, acked, section, stop, stale, burst)
    PROVE  server' \in Server
<1>1. NextIndex(section, stop) \in Nat
  BY Sizes DEF NextIndex
<1>2. server \in Server
  BY DEF Types
<1> DEFINE next == NextIndex(section, stop)
           out == IF protocol = "NQ" THEN server.outgoing ELSE server.outgoing + 1
           in == IF protocol = "NQ" THEN server.incoming + 1 ELSE server.incoming
           unreliable == IF protocol = "NQ" THEN server.unreliable + 1 ELSE server.unreliable
<1>3. server' = [server EXCEPT !.acked = acked, !.next = next, !.send = FALSE, !.burst = burst,
                               !.outgoing = out, !.incoming = in, !.unreliable = unreliable]
  BY <1>2 DEF Emit, Server
<1>4. out \in Nat /\ in \in Nat /\ unreliable \in Nat /\ next \in Nat
  BY <1>1, <1>2 DEF Server
<1> HIDE DEF out, in, unreliable, next
<1> QED BY <1>2, <1>3, <1>4 DEF Server

LEMMA EmitServer ==
    ASSUME Types, NEW w, NEW pend, NEW fr, NEW acked \in Int,
           NEW section, NEW stop \in 1..MaxEnt + 1, NEW stale, NEW burst \in BOOLEAN,
           Emit(w, pend, fr, acked, section, stop, stale, burst)
    PROVE  /\ server'.acked = acked /\ server'.send = FALSE /\ server'.burst = burst
           /\ server'.next = NextIndex(section, stop)
<1>1. server \in Server
  BY DEF Types
<1> DEFINE out == IF protocol = "NQ" THEN server.outgoing ELSE server.outgoing + 1
           in == IF protocol = "NQ" THEN server.incoming + 1 ELSE server.incoming
           unreliable == IF protocol = "NQ" THEN server.unreliable + 1 ELSE server.unreliable
<1>2. server' = [server EXCEPT !.acked = acked, !.next = NextIndex(section, stop), !.send = FALSE,
                               !.burst = burst, !.outgoing = out, !.incoming = in,
                               !.unreliable = unreliable]
  BY <1>1 DEF Emit, Server
<1> HIDE DEF out, in, unreliable
<1> QED BY <1>1, <1>2 DEF Server

LEMMA EmitSequences ==
    ASSUME Types, NEW w, NEW pend, NEW fr, NEW acked \in Int,
           NEW section, NEW stop \in 1..MaxEnt + 1, NEW stale, NEW burst \in BOOLEAN,
           Emit(w, pend, fr, acked, section, stop, stale, burst)
    PROVE  /\ server'.outgoing = IF protocol = "NQ" THEN server.outgoing ELSE server.outgoing + 1
           /\ server'.incoming = IF protocol = "NQ" THEN server.incoming + 1 ELSE server.incoming
           /\ server'.unreliable = IF protocol = "NQ" THEN server.unreliable + 1
                                                      ELSE server.unreliable
<1>1. server \in Server
  BY DEF Types
<1> DEFINE out == IF protocol = "NQ" THEN server.outgoing ELSE server.outgoing + 1
           in == IF protocol = "NQ" THEN server.incoming + 1 ELSE server.incoming
           unreliable == IF protocol = "NQ" THEN server.unreliable + 1 ELSE server.unreliable
<1>2. server' = [server EXCEPT !.acked = acked, !.next = NextIndex(section, stop), !.send = FALSE,
                               !.burst = burst, !.outgoing = out, !.incoming = in,
                               !.unreliable = unreliable]
  BY <1>1 DEF Emit, Server
<1> HIDE DEF out, in, unreliable
<1>3. server'.outgoing = out /\ server'.incoming = in /\ server'.unreliable = unreliable
  BY <1>1, <1>2 DEF Server
<1> QED BY <1>3 DEF out, in, unreliable

\* Types of what Emit leaves.
LEMMA EmitTypes ==
    ASSUME Types, NEW w \in [Ents -> Entity], NEW pend, ProperBits(pend),
           NEW section \in BOOLEAN, NEW stop, NEW stale \in SUBSET Bits, Sequence \in Nat,
           NEW m, m = Marked(w, pend), NEW t, t = NowTold(w, pend)
    PROVE  /\ ProperBits(RestOf(m, t, section, stop))
           /\ ProperBits(LogAt(m, t, section, stop, stale))
           /\ ProperPacket(PacketOf(m, t, section, stop))
           /\ MisledBy(m, t, section, stop) \subseteq Sticky
           /\ Waiting(m, t, stop) \in [Ents -> Nat]
<1>1. /\ ProperBits(m) /\ t \in [Ents -> Entity]
      /\ m[0] # {} <=> Wipes(pend)
  BY MarkTypes
<1>2. m \in BitsOf /\ \A e \in 0..MaxEnt : m[e] \subseteq Bits
  BY <1>1 DEF ProperBits, BitsOf
<1>3. ProperBits(RestOf(m, t, section, stop))
  <2>1. CASE ~section
    BY <1>1, <2>1 DEF RestOf
  <2>2. CASE section
    BY <1>2, <2>2, Sizes DEF RestOf, Rest, ProperBits, BitsOf
  <2> QED BY <2>1, <2>2
<1>4. ProperBits(LogAt(m, t, section, stop, stale))
  <2>1. CASE ~section
    BY <2>1, NoBitsProper DEF LogAt
  <2>2. CASE section
    <3>1. \A e \in 0..MaxEnt : Logged(m[e]) \subseteq Bits
      BY <1>2 DEF Logged, Bits
    <3> QED BY <1>1, <1>2, <2>2, <3>1, Sizes DEF LogAt, LogOf, ProperBits, BitsOf
  <2> QED BY <2>1, <2>2
<1>5. ProperPacket(PacketOf(m, t, section, stop))
  <2> DEFINE p == PacketOf(m, t, section, stop)
  <2>1. /\ p.seq = Sequence /\ p.section = section /\ p.clear = (section /\ m[0] # {})
        /\ \A e \in Ents : p.items[e] = IF section /\ e \in Written(m, t, stop)
                                        THEN Item(m, t, e) ELSE Nothing
    BY DEF PacketOf
  <2>2. ASSUME NEW e \in Ents
        PROVE  /\ ProperItem(p.items[e])
               /\ p.clear /\ p.items[e].kind = "update" => p.items[e].reset
    <3>1. CASE section /\ e \in Written(m, t, stop)
      <4>1. m[e] # {} /\ ("remove" \in m[e] \/ t[e] # Absent)
        BY <3>1, WrittenItem
      <4>2. p.items[e] = Item(m, t, e)
        BY <2>1, <3>1
      <4>3. p.clear => m[e] \in {{}, {"reset", "reset2"}}
        BY <1>1, <2>1, MarkedWhenWiped
      <4>4. /\ ProperItem(Item(m, t, e))
            /\ Item(m, t, e).kind = "update" /\ "reset" \in m[e] => Item(m, t, e).reset
        BY <1>1, <4>1, ItemFacts
      <4> HIDE DEF p
      <4> QED BY <4>1, <4>2, <4>3, <4>4
    <3>2. CASE ~(section /\ e \in Written(m, t, stop))
      <4>1. p.items[e] = Nothing
        BY <2>1, <3>2
      <4> QED BY <4>1 DEF ProperItem, Nothing
    <3> QED BY <3>1, <3>2
  <2>3. p.seq \in Nat /\ p.section \in BOOLEAN /\ p.clear \in BOOLEAN
    BY <2>1
  <2>4. ~p.section => ~p.clear /\ \A e \in Ents : p.items[e] = Nothing
    BY <2>1
  <2> HIDE DEF p
  <2>5. ProperPacket(p)
    BY <2>2, <2>3, <2>4 DEF ProperPacket
  <2> QED BY <2>5 DEF p
<1>6. MisledBy(m, t, section, stop) \subseteq Sticky
  <2>1. \A e \in Written(m, t, stop) : e \in Ents
    BY WrittenItem
  <2> QED BY <2>1, MarkedRemove DEF MisledBy, Misled
<1>7. Waiting(m, t, stop) \in [Ents -> Nat]
  BY DEF Waiting, Types
<1> QED BY <1>3, <1>4, <1>5, <1>6, <1>7

\* The state as it is once a frame has been folded back.
TrackedWith(pend, fr, acked) ==
    \A e \in Ents \ misled, f \in Fields :
        LET on(s) == OnBooks(pend, fr, acked, Reported, s2c, s, sentents[e][f], e, f)
        IN  /\ client.valid # 0 => on(-1) \/ Shown(e, f)
            /\ \A p \in s2c : p.clear => on(p.seq) \/ Brings(p, e, f)

LEMMA EmitTracks ==
    ASSUME Types, NEW w \in [Ents -> Entity], NEW pend, ProperBits(pend),
           NEW fr, ProperFrames(fr), NEW acked \in Int,
           NEW section \in BOOLEAN, NEW stop \in 1..MaxEnt + 1, NEW stale \in SUBSET Bits,
           NEW burst \in BOOLEAN, Sequence \in Nat,
           Emit(w, pend, fr, acked, section, stop, stale, burst),
           UNCHANGED <<protocol, client, c2s>>,
           server.acked <= acked, acked < Sequence,
           \A i \in 0..Backup - 1 : fr[i].resend # NoBits => fr[i].sequence < Sequence,
           \A p \in s2c : p.seq < Sequence,
           \A s \in Reported : s < Sequence,
           ~Lapses(fr, acked), TrackedWith(pend, fr, acked),
           NEW m, m = Marked(w, pend), NEW t, t = NowTold(w, pend),
           NEW p, p = PacketOf(m, t, section, stop)
    PROVE  Tracked'
<1> DEFINE rest == RestOf(m, t, section, stop)
           log == LogAt(m, t, section, stop, stale)
<1>1. /\ sentents' = t
      /\ pendingdeltabits' = rest
      /\ frames' = [fr EXCEPT ![Slot(Sequence)] = [sequence |-> Sequence, resend |-> log]]
      /\ Slot(Sequence) \in 0..Backup - 1
      /\ s2c' = s2c \cup {p}
      /\ misled' = misled \cup MisledBy(m, t, section, stop)
      /\ server'.acked = acked
  <2>1. server'.acked = acked
    BY EmitServer
  <2>2. sentents' = t /\ misled' = misled \cup MisledBy(m, t, section, stop)
    BY EmitParts
  <2>3. pendingdeltabits' = rest /\ s2c' = s2c \cup {p}
    BY EmitSends
  <2>4. frames' = [fr EXCEPT ![Slot(Sequence)] = [sequence |-> Sequence, resend |-> log]]
    BY EmitSends
  <2>5. Slot(Sequence) \in 0..Backup - 1
    BY Sizes DEF Slot
  <2> QED BY <2>1, <2>2, <2>3, <2>4, <2>5
<1>2. Reported' = Reported /\ client' = client
  BY DEF Reported
<1>3. /\ \A i \in 0..Backup - 1 : fr[i].sequence \in Nat
      /\ \A q \in s2c : q.seq \in Nat
      /\ server.acked \in Int
      /\ DOMAIN fr = 0..Backup - 1
  BY DEF ProperFrames, Types, ProperPacket, Server
<1>4. p.seq = Sequence
  BY DEF PacketOf
<1>5. \A i \in 0..Backup - 1 : i # Slot(Sequence) => frames'[i] = fr[i]
  BY <1>1, <1>3
<1>6. frames'[Slot(Sequence)] = [sequence |-> Sequence, resend |-> log]
  BY <1>1, <1>3
<1> SUFFICES ASSUME NEW e \in Ents \ misled', NEW f \in Fields
             PROVE  /\ client.valid # 0 => Books(-1, e, f)' \/ Shown(e, f)'
                    /\ \A q \in s2c' : q.clear => Books(q.seq, e, f)' \/ Brings(q, e, f)'
  BY <1>2 DEF Tracked
<1> DEFINE v == sentents[e][f]
           v2 == t[e][f]
<1>7. /\ e \in Ents \ misled /\ e \in Ents \ MisledBy(m, t, section, stop)
  BY <1>1
<1>8. /\ ~p.clear => Keeps(p, v2, e, f)
      /\ p.clear => Owed(m, v2, e, f)
      /\ Owed(m, v2, e, f) => Owed(rest, v2, e, f) \/ (Sets(p, v2, e, f) /\ Owed(log, v2, e, f))
  <2>1. p.clear => Owed(m, v2, e, f)
    BY <1>7, EmitField
  <2>2. ~p.clear => Keeps(p, v2, e, f)
    BY <1>7, EmitField
  <2>3. Owed(m, v2, e, f) => Owed(rest, v2, e, f) \/ (Sets(p, v2, e, f) /\ Owed(log, v2, e, f))
    BY <1>7, EmitField, ZenonT(60)
  <2> QED BY <2>1, <2>2, <2>3
<1> HIDE DEF rest, log
<1>9. CASE Owed(m, v2, e, f)
  <2>1. ASSUME NEW s \in Int, s < Sequence
        PROVE  Books(s, e, f)'
    <3> SUFFICES OnBooks(rest, frames', acked, Reported', s2c', s, v2, e, f)
      BY <1>1 DEF Books
    <3>1. CASE Owed(rest, v2, e, f)
      BY <3>1 DEF OnBooks
    <3>2. CASE Sets(p, v2, e, f) /\ Owed(log, v2, e, f)
      <4> DEFINE frame == frames'[Slot(Sequence)]
      <4>1. frame.sequence = Sequence /\ frame.resend = log
        BY <1>6
      <4> HIDE DEF frame
      <4>2. \A q \in s2c' : q.seq = Sequence => Sets(q, v2, e, f)
        BY <1>1, <1>3, <3>2
      <4>3. Steady(s2c', Sequence, v2, e, f)
        BY <1>1, <1>3, <1>4 DEF Steady
      <4>4. Sequence \notin Reported'
        BY <1>2
      <4>5. Logs(frame, acked, Reported', s2c', v2, e, f)
        BY <3>2, <4>1, <4>2, <4>3, <4>4 DEF Logs
      <4> QED BY <1>1, <2>1, <4>1, <4>5 DEF OnBooks, frame
    <3> QED BY <1>8, <1>9, <3>1, <3>2
  <2>2. Books(-1, e, f)'
    BY <2>1
  <2>3. \A q \in s2c : Books(q.seq, e, f)'
    BY <1>3, <2>1
  <2>4. p.clear => Books(p.seq, e, f)' \/ Brings(p, e, f)'
    <3>1. CASE Owed(rest, v2, e, f)
      BY <1>1, <3>1 DEF Books, OnBooks
    <3>2. CASE Sets(p, v2, e, f)
      <4>1. Steady(s2c', p.seq, v2, e, f)
        BY <1>1, <1>3, <1>4 DEF Steady
      <4>2. sentents'[e][f] = v2
        BY <1>1
      <4> HIDE DEF v2
      <4>3. Brings(p, e, f)' <=> Sets(p, v2, e, f) /\ Steady(s2c', p.seq, v2, e, f)
        BY <4>2 DEF Brings
      <4> QED BY <3>2, <4>1, <4>3
    <3> QED BY <1>8, <1>9, <3>1, <3>2
  <2>5. \A q \in s2c' : q.clear => Books(q.seq, e, f)' \/ Brings(q, e, f)'
    BY <1>1, <2>3, <2>4
  <2> QED BY <2>2, <2>5
<1>10. CASE ~Owed(m, v2, e, f)
  <2>1. ~p.clear /\ Keeps(p, v2, e, f)
    BY <1>8, <1>10
  <2>2. ~Covers(m[e], v2, f) /\ "remove" \notin m[0]
    BY <1>10 DEF Owed
  <2>3. ~Wipes(pend)
    BY <2>2, Marks
  <2>4. Told(pend)[e][f] = v
    BY <2>3 DEF Told
  <2>5. v2 = v /\ ~Covers(pend[e], v, f)
    BY <2>2, <2>3, <2>4, MarkedField
  <2>6. ~Owed(pend, v, e, f)
    BY <2>3, <2>5 DEF Owed, Wipes
  <2>7. \A s \in Int : Steady(s2c, s, v, e, f) => Steady(s2c', s, v2, e, f)
    BY <1>1, <2>1, <2>5 DEF Steady
  <2>8. ASSUME NEW s \in Int, OnBooks(pend, fr, acked, Reported, s2c, s, v, e, f)
        PROVE  Books(s, e, f)'
    <3>1. PICK i \in 0..Backup - 1 :
             fr[i].sequence > s /\ Logs(fr[i], acked, Reported, s2c, v, e, f)
      BY <2>6, <2>8 DEF OnBooks
    <3>2. fr[i].resend # NoBits /\ fr[i].sequence > acked
      BY <3>1, OwedIsSome DEF Logs
    <3>3. i # Slot(Sequence)
      BY <1>3, <3>2 DEF Lapses
    <3>4. frames'[i] = fr[i]
      BY <1>5, <3>3
    <3>5. \A q \in s2c' : q.seq = fr[i].sequence => Sets(q, v2, e, f)
      BY <1>1, <1>3, <1>4, <2>5, <3>1, <3>2 DEF Logs
    <3>6. Logs(fr[i], acked, Reported', s2c', v2, e, f)
      BY <1>2, <1>3, <2>5, <2>7, <3>1, <3>5 DEF Logs
    <3> QED BY <1>1, <3>1, <3>4, <3>6 DEF Books, OnBooks
  <2>9. Shown(e, f) => Shown(e, f)'
    <3>1. client.incoming \in Int
      BY DEF Types, Client
    <3> QED BY <1>1, <1>2, <2>5, <2>7, <3>1 DEF Shown
  <2>10. ASSUME NEW q \in s2c, Brings(q, e, f)
         PROVE  Brings(q, e, f)'
    <3>1. Sets(q, v, e, f) /\ Steady(s2c, q.seq, v, e, f)
      BY <2>10 DEF Brings
    <3>2. Steady(s2c', q.seq, v2, e, f)
      BY <1>3, <2>7, <3>1
    <3>3. Sets(q, v2, e, f)
      BY <2>5, <3>1
    <3> QED BY <1>1, <3>2, <3>3 DEF Brings
  <2>11. client.valid # 0 => Books(-1, e, f)' \/ Shown(e, f)'
    BY <1>7, <2>8, <2>9 DEF TrackedWith
  <2>12. \A q \in s2c : q.clear => Books(q.seq, e, f)' \/ Brings(q, e, f)'
    BY <1>3, <1>7, <2>8, <2>10 DEF TrackedWith
  <2>13. \A q \in s2c' : q.clear => Books(q.seq, e, f)' \/ Brings(q, e, f)'
    BY <1>1, <2>1, <2>12
  <2> QED BY <2>11, <2>13
<1> QED BY <1>9, <1>10

LEMMA EmitKeepsTypes ==
    ASSUME Types, NEW w \in [Ents -> Entity], NEW pend, ProperBits(pend),
           NEW fr, ProperFrames(fr), NEW acked \in Int,
           NEW section \in BOOLEAN, NEW stop \in 1..MaxEnt + 1, NEW stale \in SUBSET Bits,
           NEW burst \in BOOLEAN, Sequence \in Nat,
           Emit(w, pend, fr, acked, section, stop, stale, burst),
           UNCHANGED <<protocol, client, c2s>>,
           NEW m, m = Marked(w, pend), NEW t, t = NowTold(w, pend)
    PROVE  Types'
<1>1. /\ ProperBits(RestOf(m, t, section, stop))
      /\ ProperBits(LogAt(m, t, section, stop, stale))
  BY EmitTypes
<1>2. /\ ProperPacket(PacketOf(m, t, section, stop))
      /\ MisledBy(m, t, section, stop) \subseteq Sticky
      /\ Waiting(m, t, stop) \in [Ents -> Nat]
  BY EmitTypes
<1>3. t \in [Ents -> Entity]
  BY MarkTypes
<1>4. world' \in [Ents -> Entity] /\ sentents' \in [Ents -> Entity]
  BY <1>3, EmitParts
<1>5. changes' \in Nat /\ lapsed' \in BOOLEAN
  <2>1. changes' = IF w = world THEN changes ELSE changes + 1
    BY EmitParts
  <2>2. lapsed' = (lapsed \/ Lapses(fr, acked))
    BY EmitParts
  <2>3. changes' \in Nat
    BY <2>1 DEF Types
  <2> QED BY <2>2, <2>3 DEF Types
<1>6. misled' \subseteq Sticky
  <2>1. misled' = misled \cup MisledBy(m, t, section, stop)
    BY EmitParts
  <2> QED BY <1>2, <2>1 DEF Types
<1>7. waits' \in [Ents -> Nat]
  BY <1>2, EmitParts
<1>8. ProperBits(pendingdeltabits')
  BY <1>1, EmitSends
<1>9. ProperFrames(frames')
  <2> DEFINE log == LogAt(m, t, section, stop, stale)
  <2>1. frames' = [fr EXCEPT ![Slot(Sequence)] = [sequence |-> Sequence, resend |-> log]]
    BY EmitSends
  <2>2. ProperBits(log) /\ log \in BitsOf
    BY <1>1 DEF ProperBits
  <2> HIDE DEF log
  <2> QED BY <2>1, <2>2 DEF ProperFrames
<1>10. server' \in Server
  BY EmitServerType
<1>11. \A p \in s2c' : ProperPacket(p)
  BY <1>2, EmitSends DEF Types
<1>12. /\ protocol' \in {"QW", "NQ"} /\ client' \in Client
       /\ \A p \in c2s' : ProperReport(p)'
  BY DEF Types, ProperReport
<1> QED BY <1>4, <1>5, <1>6, <1>7, <1>8, <1>9, <1>10, <1>11, <1>12 DEF Types

LEMMA EmitKeepsOrder ==
    ASSUME Types, Order,
           NEW w \in [Ents -> Entity], NEW pend, ProperBits(pend),
           NEW fr, ProperFrames(fr), NEW acked \in Int,
           NEW section \in BOOLEAN, NEW stop \in 1..MaxEnt + 1, NEW stale \in SUBSET Bits,
           NEW burst \in BOOLEAN, Sequence = NextSequence,
           Emit(w, pend, fr, acked, section, stop, stale, burst),
           UNCHANGED <<protocol, client, c2s>>,
           acked < Sequence, Placed(fr, acked),
           protocol = "QW" => /\ server.send /\ ~burst
                              /\ ~Lapses(fr, acked) /\ Sequence <= acked + Backup
    PROVE  Order'
<1>1. PICK m : m = Marked(w, pend)
  OBVIOUS
<1>2. PICK t : t = NowTold(w, pend)
  OBVIOUS
<1>3. PICK p : p = PacketOf(m, t, section, stop)
  OBVIOUS
<1>4. PICK log : log = LogAt(m, t, section, stop, stale)
  OBVIOUS
<1>5. p.seq = Sequence
  BY <1>3 DEF PacketOf
<1>6. /\ server' \in Server /\ server'.acked = acked /\ server'.send = FALSE
      /\ server'.burst = burst
  BY EmitServer, EmitServerType, ZenonT(60)
<1>7. server \in Server /\ protocol \in {"QW", "NQ"} /\ client \in Client
  BY DEF Types
<1>8. NextSequence' = Sequence + 1 /\ Sequence \in Nat
  <2>1. /\ server'.incoming = IF protocol = "NQ" THEN server.incoming + 1 ELSE server.incoming
        /\ server'.unreliable = IF protocol = "NQ" THEN server.unreliable + 1
                                                   ELSE server.unreliable
    BY EmitSequences
  <2>2. Sequence \in Nat
    BY <1>7 DEF Sequence, Server
  <2> QED BY <1>6, <1>7, <2>1, <2>2 DEF NextSequence, Sequence
<1>9. Reported' = Reported
  BY DEF Reported
<1>10. s2c' = s2c \cup {p} /\ lapsed' = (lapsed \/ Lapses(fr, acked))
  <2>1. s2c' = s2c \cup {p}
    BY <1>1, <1>2, <1>3, EmitSends
  <2>2. lapsed' = (lapsed \/ Lapses(fr, acked))
    BY <1>1, <1>2, EmitParts
  <2> QED BY <2>1, <2>2
<1>11. Placed(frames, server.acked)'
  <2>1. frames' = [fr EXCEPT ![Slot(Sequence)] = [sequence |-> Sequence, resend |-> log]]
    BY <1>1, <1>2, <1>4, EmitSends
  <2> SUFFICES ASSUME NEW i \in 0..Backup - 1, frames'[i].resend # NoBits
               PROVE  /\ frames'[i].sequence < Sequence + 1
                      /\ Slot(frames'[i].sequence) = i
                      /\ protocol = "QW" => frames'[i].sequence <= acked + Backup
    BY <1>6, <1>8 DEF Placed
  <2>2. DOMAIN fr = 0..Backup - 1 /\ fr[i].sequence \in Nat
    BY DEF ProperFrames
  <2>3. CASE i = Slot(Sequence)
    <3>1. frames'[i] = [sequence |-> Sequence, resend |-> log]
      BY <2>1, <2>2, <2>3
    <3>2. frames'[i].sequence = Sequence
      BY <3>1
    <3> QED BY <1>8, <2>3, <3>2
  <2>4. CASE i # Slot(Sequence)
    <3>1. frames'[i] = fr[i]
      BY <2>1, <2>2, <2>4
    <3>2. /\ fr[i].sequence < NextSequence /\ Slot(fr[i].sequence) = i
          /\ protocol = "QW" => fr[i].sequence <= acked + Backup
      BY <3>1 DEF Placed
    <3> QED BY <1>8, <2>2, <3>1, <3>2
  <2> QED BY <2>3, <2>4
<1>12. /\ server'.acked < NextSequence'
       /\ client'.incoming < NextSequence'
       /\ \A q \in s2c' : client'.incoming < q.seq /\ q.seq < NextSequence'
       /\ \A s \in Reported' : s <= client'.incoming
  <2>1. client.incoming \in Int /\ \A q \in s2c : q.seq \in Nat
    BY <1>7 DEF Client, Types, ProperPacket
  <2> QED BY <1>5, <1>6, <1>8, <1>9, <1>10, <2>1 DEF Order
<1>13. ASSUME protocol' = "QW"
       PROVE  /\ ~lapsed' /\ ~server'.burst
              /\ server'.incoming < client'.outgoing
              /\ \A q \in c2s' : server'.incoming < q.seq /\ q.seq < client'.outgoing
              /\ server'.outgoing \in {server'.incoming, server'.incoming + 1}
              /\ server'.send => server'.outgoing = server'.incoming
  <2>1. server'.outgoing = server.outgoing + 1 /\ server'.incoming = server.incoming
    BY <1>13, EmitSequences
  <2>2. server.outgoing = server.incoming
    BY <1>13 DEF Order
  <2> QED BY <1>6, <1>10, <1>13, <2>1, <2>2 DEF Order
<1>14. ASSUME protocol' = "NQ"
       PROVE  /\ server'.incoming = server'.unreliable
              /\ server'.outgoing <= server'.incoming \/ server'.outgoing = 1
  <2>1. /\ server'.outgoing = server.outgoing /\ server'.incoming = server.incoming + 1
        /\ server'.unreliable = server.unreliable + 1
    BY <1>14, EmitSequences
  <2> QED BY <1>7, <1>14, <2>1 DEF Order, Server
<1> QED BY <1>11, <1>12, <1>13, <1>14 DEF Order

LEMMA EmitKeeps ==
    ASSUME Types, Order,
           NEW w \in [Ents -> Entity], NEW pend, ProperBits(pend),
           NEW fr, ProperFrames(fr), NEW acked \in Int,
           NEW section \in BOOLEAN, NEW stop \in 1..MaxEnt + 1, NEW stale \in SUBSET Bits,
           NEW burst \in BOOLEAN, Sequence = NextSequence,
           Emit(w, pend, fr, acked, section, stop, stale, burst),
           UNCHANGED <<protocol, client, c2s>>,
           server.acked <= acked, acked < Sequence, Placed(fr, acked),
           protocol = "QW" => /\ server.send /\ ~burst
                              /\ ~Lapses(fr, acked) /\ Sequence <= acked + Backup,
           lapsed \/ Lapses(fr, acked) \/ TrackedWith(pend, fr, acked)
    PROVE  IInv'
<1>1. PICK m : m = Marked(w, pend)
  OBVIOUS
<1>2. PICK t : t = NowTold(w, pend)
  OBVIOUS
<1>3. PICK p : p = PacketOf(m, t, section, stop)
  OBVIOUS
<1>4. Sequence \in Nat
  BY DEF Types, Sequence, Server
<1>5. Types'
  BY <1>1, <1>2, <1>4, EmitKeepsTypes
<1>6. Order'
  BY EmitKeepsOrder
<1>7. lapsed' = (lapsed \/ Lapses(fr, acked))
  BY <1>1, <1>2, EmitParts
<1>8. ASSUME ~lapsed' PROVE Tracked'
  <2>1. ~Lapses(fr, acked) /\ TrackedWith(pend, fr, acked)
    BY <1>7, <1>8
  <2>2. \A i \in 0..Backup - 1 : fr[i].resend # NoBits => fr[i].sequence < Sequence
    BY DEF Placed
  <2>3. /\ \A q \in s2c : q.seq < Sequence
        /\ \A s \in Reported : s < Sequence
    <3>1. client.incoming \in Int
      BY DEF Types, Client
    <3>2. \A s \in Reported : s \in Int
      <4>1. CASE protocol = "QW"
        BY <3>1, <4>1 DEF Reported, Types, ProperReport
      <4>2. CASE protocol = "NQ"
        <5>1. client.acks \in Seq(Int) /\ \A q \in c2s : q.acks \in Seq(Int)
          BY <4>2 DEF Types, Client, ProperReport
        <5>2. \A a \in Seq(Int) : Range(a) \subseteq Int
          BY DEF Range
        <5> QED BY <4>2, <5>1, <5>2 DEF Reported
      <4> QED BY <4>1, <4>2 DEF Types
    <3> QED BY <1>4, <3>1, <3>2 DEF Order
  <2> QED BY <1>1, <1>2, <1>3, <1>4, <2>1, <2>2, <2>3, EmitTracks
<1> QED BY <1>5, <1>6, <1>8 DEF IInv

-----------------------------------------------------------------------------
(* A frame is built. *)

LEMMA Remainder ==
    ASSUME NEW x \in Nat, NEW b \in Nat \ {0}
    PROVE  x % b = x - b * (x \div b)
BY SMT

\* Two frames in the same place are Backup apart.
LEMMA SamePlace ==
    ASSUME NEW x \in Nat, NEW y \in Nat, x < y, Slot(x) = Slot(y)
    PROVE  x <= y - Backup
<1>1. Backup \in Nat \ {0} /\ x % Backup = y % Backup
  BY Sizes DEF Slot
<1>2. PICK q \in Int : q = x \div Backup
  BY <1>1
<1>3. PICK r \in Int : r = y \div Backup
  BY <1>1
<1>4. x - Backup * q = y - Backup * r
  BY <1>1, <1>2, <1>3, Remainder
<1>5. PICK u \in Int : u = Backup * q
  BY <1>1
<1>6. PICK v \in Int : v = Backup * r
  BY <1>1
<1>7. v - u >= 1
  BY <1>4, <1>5, <1>6
<1>8. Backup * (r - q) = v - u
  BY <1>1, <1>5, <1>6, SMT
<1>9. r - q >= 1
  BY <1>1, <1>7, <1>8, SMT
<1>10. Backup * (r - q) >= Backup
  BY <1>1, <1>9, SMT
<1> QED BY <1>1, <1>4, <1>5, <1>6, <1>8, <1>10

LEMMA SnapshotTypes ==
    ASSUME Types, NEW w \in Snapshots
    PROVE  w \in [Ents -> Entity]
<1>1. CASE w = world
  BY <1>1 DEF Types
<1>2. CASE w # world
  <2>1. /\ w \in [Ents -> UNION {Afterwards(world[e]) : e \in Ents}]
        /\ \A e \in Ents : w[e] \in Afterwards(world[e])
    BY <1>2 DEF Snapshots
  <2>2. changes + 1 \in Nat /\ Baseline \in [Fields -> Nat]
    BY DEF Types, Baseline
  <2>3. ASSUME NEW e \in Ents PROVE Afterwards(world[e]) \subseteq Entity
    <3>1. world[e] \in Entity
      BY DEF Types
    <3>2. \A f \in Fields : [Baseline EXCEPT ![f] = changes + 1] \in [Fields -> Nat]
      BY <2>2
    <3>3. world[e] # Absent => \A f \in Fields : [world[e] EXCEPT ![f] = changes + 1] \in [Fields -> Nat]
      BY <2>2, <3>1 DEF Entity
    <3>4. CASE world[e] = Absent
      BY <3>2, <3>4 DEF Afterwards, Entity
    <3>5. CASE world[e] # Absent
      BY <3>1, <3>3, <3>5 DEF Afterwards, Entity
    <3> QED BY <3>4, <3>5
  <2> QED BY <2>1, <2>3
<1> QED BY <1>1, <1>2

LEMMA StopsAndStale ==
    /\ \A m, t : Stops(m, t) \subseteq 1..MaxEnt + 1
    /\ StaleBits \subseteq SUBSET Bits
<1>1. \A m, t : Stops(m, t) \subseteq 1..MaxEnt + 1
  BY Sizes DEF Stops, Due
<1>2. StaleBits \subseteq SUBSET Bits
  BY DEF StaleBits, Bits
<1> QED BY <1>1, <1>2

\* Unless a frame lapses, the frame that is given up is not missed.
LEMMA FoldTracks ==
    ASSUME Types, Tracked, NEW run, NEW acked \in Int,
           NEW fr, fr = FoldFrames(frames, run),
           NEW pend, pend = FoldBits(pendingdeltabits, frames, run),
           ~Lapses(fr, acked)
    PROVE  TrackedWith(pend, fr, acked)
<1>1. /\ ProperBits(pendingdeltabits) /\ ProperFrames(frames) /\ server.acked \in Int
      /\ DOMAIN fr = 0..Backup - 1 /\ DOMAIN frames = 0..Backup - 1
      /\ \A q \in s2c : q.seq \in Int
  BY DEF Types, Server, ProperFrames, FoldFrames, ProperPacket
<1>2. ASSUME NEW i \in 0..Backup - 1,
             frames[i].sequence > server.acked, frames[i].resend # NoBits,
             frames[i].sequence \notin run
      PROVE  frames[i].sequence > acked
  <2>1. fr[i] = frames[i]
    BY <1>1, <1>2, FoldedFrame, ZenonT(60)
  <2>2. ~(frames[i].sequence <= acked)
    BY <1>1, <1>2, <2>1 DEF Lapses
  <2>3. frames[i].sequence \in Nat
    BY <1>1 DEF ProperFrames
  <2> QED BY <2>2, <2>3
<1>3. ASSUME NEW e \in Ents, NEW f \in Fields, NEW s \in Int, Books(s, e, f)
      PROVE  OnBooks(pend, fr, acked, Reported, s2c, s, sentents[e][f], e, f)
  <2>1. OnBooks(pendingdeltabits, frames, server.acked, Reported, s2c, s, sentents[e][f], e, f)
    BY <1>3 DEF Books
  <2>2. \A x \in 0..MaxEnt : FoldBits(pendingdeltabits, frames, run)[x] \subseteq pend[x]
    OBVIOUS
  <2> QED BY <1>1, <1>2, <2>1, <2>2, FoldKeeps
<1> SUFFICES ASSUME NEW e \in Ents \ misled, NEW f \in Fields
             PROVE  LET on(s) == OnBooks(pend, fr, acked, Reported, s2c, s, sentents[e][f], e, f)
                    IN  /\ client.valid # 0 => on(-1) \/ Shown(e, f)
                        /\ \A p \in s2c : p.clear => on(p.seq) \/ Brings(p, e, f)
  BY DEF TrackedWith
<1>4. client.valid # 0 => Books(-1, e, f) \/ Shown(e, f)
  BY DEF Tracked
<1>5. \A p \in s2c : p.clear => Books(p.seq, e, f) \/ Brings(p, e, f)
  BY DEF Tracked
<1> QED BY <1>1, <1>3, <1>4, <1>5

\* What SV_ReplaceEntityFrame leaves of the log, and the acknowledgement it implies.
LEMMA ReplaceKeeps ==
    ASSUME Types, Order, ~server.burst, protocol = "QW" => server.send,
           NEW run, run = ReplaceRun(server.acked, server.outgoing),
           NEW fr, fr = FoldFrames(frames, run),
           NEW acked, acked = Acked(server.acked, server.outgoing - Backup)
    PROVE  /\ acked \in Int /\ server.acked <= acked /\ acked < Sequence
           /\ Sequence = NextSequence
           /\ Placed(fr, acked)
           /\ protocol = "QW" => ~Lapses(fr, acked) /\ Sequence <= acked + Backup
<1>1. server \in Server /\ ProperFrames(frames) /\ protocol \in {"QW", "NQ"}
  BY DEF Types
<1>2. /\ server.acked \in Int /\ server.outgoing \in Nat /\ server.incoming \in Nat
      /\ server.unreliable \in Nat /\ Sequence \in Nat
  BY <1>1 DEF Server, Sequence
<1>3. server.outgoing - Backup \in Int
  BY <1>2, Sizes
<1>4. acked = IF server.acked >= server.outgoing - Backup THEN server.acked
              ELSE server.outgoing - Backup
  BY <1>2, <1>3, Runs
<1>5. Sequence = NextSequence
  BY <1>1 DEF Sequence, NextSequence
<1>6. server.outgoing - Backup < Sequence
  BY <1>1, <1>2, Sizes DEF Order, Sequence
<1>7. acked \in Int /\ server.acked <= acked /\ acked < Sequence
  BY <1>2, <1>3, <1>4, <1>5, <1>6, Sizes DEF Order
<1>8. Placed(fr, acked)
  BY <1>1, <1>2, <1>7, FoldPlaced DEF Order
<1>9. ASSUME protocol = "QW"
      PROVE  ~Lapses(fr, acked) /\ Sequence <= acked + Backup
  <2>1. Sequence = server.outgoing
    BY <1>9 DEF Order, Sequence
  <2>2. Sequence <= acked + Backup
    BY <1>2, <1>4, <2>1, Sizes
  <2>3. SUFFICES ASSUME NEW i \in 0..Backup - 1,
                        fr[i].sequence > server.acked, fr[i].resend # NoBits,
                        i = Slot(Sequence) \/ fr[i].sequence <= acked
                 PROVE  FALSE
    <3>1. DOMAIN fr = 0..Backup - 1
      BY <1>1 DEF FoldFrames, ProperFrames
    <3> QED BY <2>2, <3>1 DEF Lapses
  <2>4. frames[i].sequence \in Nat
    BY <1>1 DEF ProperFrames
  <2>5. fr[i] = frames[i] /\ frames[i].sequence \notin run
    BY <1>1, <2>3, FoldedFrame
  <2>6. /\ frames[i].sequence < Sequence /\ Slot(frames[i].sequence) = i
        /\ frames[i].sequence <= server.acked + Backup
    BY <1>5, <1>9, <2>3, <2>5 DEF Order, Placed
  <2>7. frames[i].sequence <= server.outgoing - Backup
    <3>1. CASE i = Slot(Sequence)
      BY <1>2, <2>1, <2>4, <2>6, <3>1, SamePlace
    <3>2. CASE fr[i].sequence <= acked
      BY <1>2, <1>4, <2>3, <2>4, <2>5, <3>2
    <3> QED BY <2>3, <3>1, <3>2
  <2>8. run = server.acked + 1 .. (IF server.outgoing - Backup <= server.acked + 1 + Backup
                                   THEN server.outgoing - Backup ELSE server.acked + 1 + Backup)
    <3>1. server.acked \in Int /\ server.outgoing \in Int
      BY <1>2
    <3> QED BY <3>1, Runs, Zenon
  <2> QED BY <1>2, <2>3, <2>4, <2>5, <2>6, <2>7, <2>8, Sizes
<1> QED BY <1>5, <1>7, <1>8, <1>9

LEMMA SendFrameEmits ==
    ASSUME SendFrame,
           NEW run, run = ReplaceRun(server.acked, server.outgoing),
           NEW pend, pend = FoldBits(pendingdeltabits, frames, run),
           NEW fr, fr = FoldFrames(frames, run),
           NEW acked, acked = Acked(server.acked, server.outgoing - Backup)
    PROVE  \E w \in Snapshots, section \in BOOLEAN, stop \in 1..MaxEnt + 1,
              stale \in SUBSET Bits, burst \in BOOLEAN :
              /\ Emit(w, pend, fr, acked, section, stop, stale, burst)
              /\ protocol = "QW" => ~burst
              /\ section => stop \in Stops(Marked(w, pend), NowTold(w, pend))
<1>1. PICK w \in Snapshots :
         \/ Emit(w, pend, fr, acked, FALSE, MaxEnt + 1, {}, FALSE)
         \/ \E stop \in Stops(Marked(w, pend), NowTold(w, pend)) :
              \E stale \in IF Ghosts(Marked(w, pend), NowTold(w, pend)) = {}
                           THEN {{}} ELSE StaleBits,
                 burst \in IF protocol = "NQ" /\ stop <= MaxEnt THEN BOOLEAN ELSE {FALSE} :
                   Emit(w, pend, fr, acked, TRUE, stop, stale, burst)
  BY ZenonT(60) DEF SendFrame
<1>2. MaxEnt + 1 \in 1..MaxEnt + 1 /\ {} \in SUBSET Bits
  BY Sizes
<1>3. CASE Emit(w, pend, fr, acked, FALSE, MaxEnt + 1, {}, FALSE)
  <2>1. FALSE \in BOOLEAN
    OBVIOUS
  <2> QED BY <1>2, <1>3, <2>1, Zenon
<1>4. CASE \E stop \in Stops(Marked(w, pend), NowTold(w, pend)) :
              \E stale \in IF Ghosts(Marked(w, pend), NowTold(w, pend)) = {}
                           THEN {{}} ELSE StaleBits,
                 burst \in IF protocol = "NQ" /\ stop <= MaxEnt THEN BOOLEAN ELSE {FALSE} :
                   Emit(w, pend, fr, acked, TRUE, stop, stale, burst)
  <2>1. PICK stop \in Stops(Marked(w, pend), NowTold(w, pend)) :
              \E stale \in IF Ghosts(Marked(w, pend), NowTold(w, pend)) = {}
                           THEN {{}} ELSE StaleBits,
                 burst \in IF protocol = "NQ" /\ stop <= MaxEnt THEN BOOLEAN ELSE {FALSE} :
                   Emit(w, pend, fr, acked, TRUE, stop, stale, burst)
    BY <1>4
  <2>2. PICK stale \in IF Ghosts(Marked(w, pend), NowTold(w, pend)) = {}
                       THEN {{}} ELSE StaleBits,
             burst \in IF protocol = "NQ" /\ stop <= MaxEnt THEN BOOLEAN ELSE {FALSE} :
               Emit(w, pend, fr, acked, TRUE, stop, stale, burst)
    BY <2>1
  <2>3. stop \in 1..MaxEnt + 1
    BY StopsAndStale
  <2>4. stale \in SUBSET Bits
    BY <1>2, StopsAndStale
  <2>5. burst \in BOOLEAN /\ (protocol = "QW" => ~burst)
    OBVIOUS
  <2>6. TRUE \in BOOLEAN
    OBVIOUS
  <2> QED BY <2>2, <2>3, <2>4, <2>5, <2>6, Zenon
<1> QED BY <1>1, <1>3, <1>4

LEMMA SendFrameKeeps ==
    ASSUME IInv, SendFrame
    PROVE  IInv'
<1>1. PICK run : run = ReplaceRun(server.acked, server.outgoing)
  OBVIOUS
<1>2. PICK pend : pend = FoldBits(pendingdeltabits, frames, run)
  OBVIOUS
<1>3. PICK fr : fr = FoldFrames(frames, run)
  OBVIOUS
<1>4. PICK acked : acked = Acked(server.acked, server.outgoing - Backup)
  OBVIOUS
<1>5. PICK w \in Snapshots, section \in BOOLEAN, stop \in 1..MaxEnt + 1,
           stale \in SUBSET Bits, burst \in BOOLEAN :
              /\ Emit(w, pend, fr, acked, section, stop, stale, burst)
              /\ protocol = "QW" => ~burst
  BY <1>1, <1>2, <1>3, <1>4, SendFrameEmits
<1>6. /\ ~server.burst /\ (protocol = "QW" => server.send)
      /\ UNCHANGED <<protocol, client, c2s>>
  BY DEF SendFrame
<1>7. Types /\ Order
  BY DEF IInv
<1>8. /\ acked \in Int /\ server.acked <= acked /\ acked < Sequence
      /\ Sequence = NextSequence
      /\ Placed(fr, acked)
      /\ protocol = "QW" => ~Lapses(fr, acked) /\ Sequence <= acked + Backup
  BY <1>1, <1>3, <1>4, <1>6, <1>7, ReplaceKeeps
<1>9. lapsed \/ Lapses(fr, acked) \/ TrackedWith(pend, fr, acked)
  BY <1>2, <1>3, <1>7, <1>8, FoldTracks DEF IInv
<1>10. ProperBits(pend) /\ ProperFrames(fr)
  BY <1>2, <1>3, <1>7, FoldTypes DEF Types
<1>11. w \in [Ents -> Entity]
  BY <1>7, SnapshotTypes
<1> QED BY <1>5, <1>6, <1>7, <1>8, <1>9, <1>10, <1>11, EmitKeeps

LEMMA SendMoreKeeps ==
    ASSUME IInv, SendMore
    PROVE  IInv'
<1>1. Types /\ Order
  BY DEF IInv
<1>2. server.burst /\ protocol = "NQ" /\ server \in Server /\ UNCHANGED <<protocol, client, c2s>>
  BY <1>1 DEF SendMore, Types, Order
<1>3. CASE \E stop \in Stops(Marked(world, pendingdeltabits), NowTold(world, pendingdeltabits)) :
              \E stale \in IF Ghosts(Marked(world, pendingdeltabits),
                                     NowTold(world, pendingdeltabits)) = {}
                           THEN {{}} ELSE StaleBits,
                 burst \in IF stop <= MaxEnt THEN BOOLEAN ELSE {FALSE} :
                   Emit(world, pendingdeltabits, frames, server.acked, TRUE, stop, stale, burst)
  <2>1. PICK w : w = world
    OBVIOUS
  <2>2. PICK pend : pend = pendingdeltabits
    OBVIOUS
  <2>3. PICK fr : fr = frames
    OBVIOUS
  <2>4. PICK acked : acked = server.acked
    OBVIOUS
  <2>5. PICK stop \in Stops(Marked(w, pend), NowTold(w, pend)) :
              \E stale \in IF Ghosts(Marked(w, pend), NowTold(w, pend)) = {}
                           THEN {{}} ELSE StaleBits,
                 burst \in IF stop <= MaxEnt THEN BOOLEAN ELSE {FALSE} :
                   Emit(w, pend, fr, acked, TRUE, stop, stale, burst)
    BY <1>3, <2>1, <2>2, <2>3, <2>4
  <2>6. PICK stale \in IF Ghosts(Marked(w, pend), NowTold(w, pend)) = {}
                       THEN {{}} ELSE StaleBits,
             burst \in IF stop <= MaxEnt THEN BOOLEAN ELSE {FALSE} :
               Emit(w, pend, fr, acked, TRUE, stop, stale, burst)
    BY <2>5
  <2>7. stop \in 1..MaxEnt + 1 /\ stale \in SUBSET Bits /\ burst \in BOOLEAN /\ TRUE \in BOOLEAN
    BY StopsAndStale
  <2>8. /\ acked \in Int /\ server.acked <= acked
        /\ ProperBits(pend) /\ ProperFrames(fr) /\ w \in [Ents -> Entity]
    BY <1>1, <1>2, <2>1, <2>2, <2>3, <2>4 DEF Types, Server
  <2>9. Sequence = NextSequence
    BY <1>2 DEF Sequence, NextSequence
  <2>10. acked < Sequence /\ Placed(fr, acked)
    BY <1>1, <2>3, <2>4, <2>9 DEF Order
  <2>11. lapsed \/ TrackedWith(pend, fr, acked)
    BY <2>2, <2>3, <2>4 DEF IInv, Tracked, TrackedWith, Books
  <2> QED BY <1>1, <1>2, <2>6, <2>7, <2>8, <2>9, <2>10, <2>11, EmitKeeps
<1>4. CASE /\ server' = [server EXCEPT !.burst = FALSE]
           /\ UNCHANGED <<world, changes, sentents, pendingdeltabits,
                          frames, s2c, waits, lapsed, misled>>
  <2>1. /\ server' \in Server /\ server'.acked = server.acked /\ server'.burst = FALSE
        /\ server'.send = server.send /\ server'.incoming = server.incoming
        /\ server'.outgoing = server.outgoing /\ server'.unreliable = server.unreliable
    BY <1>2, <1>4 DEF Server
  <2>2. Reported' = Reported /\ NextSequence' = NextSequence
    BY <1>2, <2>1 DEF Reported, NextSequence
  <2>3. Types'
    BY <1>1, <1>2, <1>4, <2>1 DEF Types, ProperReport
  <2>4. Placed(frames, server.acked)'
    BY <1>1, <1>2, <1>4, <2>1, <2>2 DEF Order, Placed
  <2>5. Order'
    BY <1>1, <1>2, <1>4, <2>1, <2>2, <2>4 DEF Order
  <2>6. lapsed' \/ Tracked'
    BY <1>1, <1>2, <1>4, <2>1, <2>2, SameBooks DEF IInv
  <2> QED BY <2>3, <2>5, <2>6 DEF IInv
<1> QED BY <1>3, <1>4 DEF SendMore

-----------------------------------------------------------------------------
(* Nothing is forgotten. *)

LEMMA InitIsRight ==
    ASSUME Init
    PROVE  IInv
<1>1. protocol \in {"QW", "NQ"}
  BY DeltaAssumption DEF Init
<1>2. Never \in Int /\ Never < 0
  BY Sizes DEF Never
<1>3. /\ server = [incoming |-> 0, outgoing |-> 1, unreliable |-> 0,
                   delta |-> 0, acked |-> Never, next |-> 0, send |-> FALSE, burst |-> FALSE]
      /\ client = [ents |-> Nobody, valid |-> 0, parsed |-> 0,
                   incoming |-> IF protocol = "NQ" THEN -1 ELSE 0,
                   outgoing |-> 1, acks |-> << >>]
      /\ s2c = {} /\ c2s = {} /\ lapsed = FALSE /\ misled = {} /\ changes = 0
      /\ world = Nobody /\ sentents = Nobody /\ waits = [e \in Ents |-> 0]
      /\ pendingdeltabits = [NoBits EXCEPT ![0] = {"remove"}]
      /\ frames = [i \in 0..Backup - 1 |-> [sequence |-> 0, resend |-> NoBits]]
  BY DEF Init
<1>4. /\ server.acked < 0 /\ server.incoming = 0 /\ server.outgoing = 1 /\ server.unreliable = 0
      /\ server.send = FALSE /\ server.burst = FALSE
      /\ client.incoming = (IF protocol = "NQ" THEN -1 ELSE 0) /\ client.outgoing = 1
      /\ client.valid = 0 /\ client.acks = << >>
  BY <1>2, <1>3
<1>5. Types
  <2>1. Nobody \in [Ents -> Entity] /\ Nobody \in [Ents -> Seen]
    BY DEF Nobody, Entity, Seen
  <2>2. ProperBits(pendingdeltabits)
    BY <1>3, NoBitsProper DEF ProperBits, BitsOf, Bits
  <2>3. ProperFrames(frames)
    BY <1>3, NoBitsProper DEF ProperFrames, ProperBits
  <2>4. server \in Server
    BY <1>2, <1>3 DEF Server
  <2>5. client \in Client
    <3>1. << >> \in Seq(Int) /\ (IF protocol = "NQ" THEN -1 ELSE 0) \in Int
      OBVIOUS
    <3> QED BY <1>3, <2>1, <3>1 DEF Client
  <2>6. waits \in [Ents -> Nat] /\ lapsed \in BOOLEAN /\ changes \in Nat
    BY <1>3
  <2> QED BY <1>1, <1>3, <2>1, <2>2, <2>3, <2>4, <2>5, <2>6 DEF Types
<1>6. Order
  <2>1. NextSequence = IF protocol = "NQ" THEN 0 ELSE 1
    BY <1>4 DEF NextSequence
  <2>2. \A s \in Reported : s <= client.incoming
    <3>1. Range(client.acks) = {}
      <4>1. DOMAIN << >> = {}
        OBVIOUS
      <4> QED BY <1>4, <4>1 DEF Range
    <3>2. Reported = IF protocol = "NQ" THEN {} ELSE {client.incoming}
      BY <1>3, <3>1 DEF Reported
    <3>3. client.incoming \in Int
      BY <1>4
    <3> QED BY <3>2, <3>3
  <2>3. Placed(frames, server.acked)
    BY <1>3 DEF Placed
  <2>4. server.acked \in Int
    BY <1>2, <1>3
  <2> QED BY <1>1, <1>3, <1>4, <2>1, <2>2, <2>3, <2>4 DEF Order
<1>7. Tracked
  BY <1>3, <1>4 DEF Tracked
<1> QED BY <1>5, <1>6, <1>7 DEF IInv

LEMMA NextKeeps ==
    ASSUME IInv, [Next]_vars
    PROVE  IInv'
<1>1. CASE SendFrame
  BY <1>1, SendFrameKeeps
<1>2. CASE SendMore
  BY <1>2, SendMoreKeeps
<1>3. CASE Choke
  BY <1>3, ChokeKeeps
<1>4. CASE \E p \in c2s : ServerReceive(p)
  <2>1. protocol \in {"QW", "NQ"}
    BY DEF IInv, Types
  <2> QED BY <1>4, <2>1, ReceiveQWKeeps, ReceiveNQKeeps
<1>5. CASE ClientSend
  BY <1>5, ClientSendKeeps
<1>6. CASE \E p \in s2c : ClientReceive(p)
  BY <1>6, ClientReceiveKeeps
<1>7. CASE Lose
  BY <1>7, LoseKeeps
<1>8. CASE UNCHANGED vars
  <2>1. /\ UNCHANGED <<protocol, world, changes, sentents, pendingdeltabits, frames, server>>
        /\ UNCHANGED <<client, s2c, c2s, waits, lapsed, misled>>
    BY <1>8 DEF vars
  <2>2. Reported' = Reported /\ NextSequence' = NextSequence
    BY <2>1 DEF Reported, NextSequence
  <2>3. Types'
    BY <2>1 DEF IInv, Types, ProperReport
  <2>4. Placed(frames, server.acked)'
    BY <2>1, <2>2 DEF IInv, Order, Placed
  <2>5. Order'
    BY <2>1, <2>2, <2>4 DEF IInv, Order
  <2>6. lapsed' \/ Tracked'
    BY <2>1, <2>2, SameBooks DEF IInv
  <2> QED BY <2>3, <2>5, <2>6 DEF IInv
<1> QED BY <1>1, <1>2, <1>3, <1>4, <1>5, <1>6, <1>7, <1>8 DEF Next

\* The books, the order of the sequences and the types, in every state.
THEOREM Invariance == Spec => []IInv
<1>1. Init => IInv
  BY InitIsRight
<1>2. IInv /\ [Next]_vars => IInv'
  BY NextKeeps
<1> QED BY <1>1, <1>2, PTL DEF Spec

LEMMA BooksAreKept ==
    ASSUME IInv
    PROVE  NothingForgotten
<1> SUFFICES ASSUME ~(protocol = "NQ" /\ lapsed)
             PROVE  LossesAreTracked
  BY DEF NothingForgotten
<1>1. Types /\ Order /\ protocol \in {"QW", "NQ"}
  BY DEF IInv, Types
<1>2. Tracked
  BY <1>1 DEF IInv, Order
<1> SUFFICES ASSUME ~StartsAfresh, NEW e \in Ents \ misled, client.ents[e] # sentents[e]
             PROVE  InTheBooks(e)
  BY DEF LossesAreTracked
<1>3. client.valid # 0 /\ "remove" \notin pendingdeltabits[0]
  BY DEF StartsAfresh
<1>4. client.ents[e] \in Seen /\ sentents[e] \in Entity
  BY <1>1 DEF Types, Client
<1>5. PICK f \in Fields : client.ents[e][f] # sentents[e][f]
  BY <1>4 DEF Seen, Entity, Absent
<1>6. Books(-1, e, f)
  BY <1>2, <1>3, <1>5 DEF Tracked, Shown
<1>7. DOMAIN frames = 0..Backup - 1
  BY <1>1 DEF Types, ProperFrames
<1>8. "reset2" # f
  BY Sizes
<1>9. CASE Owed(pendingdeltabits, sentents[e][f], e, f)
  <2>1. Covers(pendingdeltabits[e], sentents[e][f], f)
    BY <1>3, <1>9 DEF Owed
  <2>2. e \in Due(pendingdeltabits)
    BY <1>8, <2>1 DEF Covers, Due
  <2> QED BY <2>2 DEF InTheBooks
<1>10. CASE ~Owed(pendingdeltabits, sentents[e][f], e, f)
  <2>1. PICK i \in 0..Backup - 1 :
           Logs(frames[i], server.acked, Reported, s2c, sentents[e][f], e, f)
    BY <1>6, <1>10 DEF Books, OnBooks
  <2>2. /\ frames[i].sequence > server.acked
        /\ frames[i].resend[e] # {} \/ frames[i].resend[0] # {}
    BY <2>1 DEF Logs, Owed, Covers
  <2> QED BY <1>7, <2>2 DEF InTheBooks
<1> QED BY <1>9, <1>10

\* SVFTE_EmitPacketEntities, SV_AckEntityFrame and SV_ReplaceEntityFrame: where the
\* client's picture differs from what the server believes it told the client, it is
\* pending or in a log that will be folded back, whatever is lost or delayed.
THEOREM NothingIsForgotten == Spec => []NothingForgotten
<1>1. IInv => NothingForgotten
  BY BooksAreKept
<1> QED BY <1>1, Invariance, PTL

-----------------------------------------------------------------------------
(* Everyone has a turn. *)

\* Packets e can have waited when the next one starts at next.
Longest(next, e) == IF next = 0 THEN MaxEnt - e
                    ELSE IF e < next THEN next - e - 1
                    ELSE MaxEnt - e + next - 1

Turns == /\ server.next <= MaxEnt
         /\ \A e \in Ents : waits[e] <= Longest(server.next, e)

\* There is room for more than the players, so a packet that is full has come past
\* the one it started with.
LEMMA FullPacket ==
    ASSUME NEW m, NEW t, NEW stop \in Stops(m, t), stop <= MaxEnt, server.next \in Nat
    PROVE  \E x \in Written(m, t, stop) :
              /\ x > Slots /\ x < stop
              /\ "remove" \notin m[x] => x >= server.next
<1>1. Cardinality(Written(m, t, stop)) >= Room /\ stop \in Ents
  BY Sizes DEF Stops, Due
<1>2. \E x \in Written(m, t, stop) : x > Slots
  <2> SUFFICES ASSUME \A x \in Written(m, t, stop) : ~(x > Slots)
               PROVE  FALSE
    OBVIOUS
  <2>1. Written(m, t, stop) \subseteq 1..Slots
    <3>1. \A x \in Written(m, t, stop) : x \in Ents
      BY WrittenItem
    <3> QED BY <3>1, Sizes
  <2>2. IsFiniteSet(1..Slots) /\ Cardinality(1..Slots) = Slots
    <3>1. 1 \in Int /\ Slots \in Int
      BY Sizes
    <3>2. IsFiniteSet(1..Slots) /\ Cardinality(1..Slots) = IF 1 > Slots THEN 0 ELSE Slots - 1 + 1
      BY <3>1, FS_Interval, Zenon
    <3> QED BY <3>2, Sizes
  <2>3. /\ Cardinality(Written(m, t, stop)) <= Slots
        /\ Cardinality(Written(m, t, stop)) \in Nat
    BY <2>1, <2>2, FS_Subset, FS_CardinalityType
  <2> QED BY <1>1, <2>3, Sizes
<1>3. PICK x \in Written(m, t, stop) : x > Slots
  BY <1>2
<1>4. x \in Due(m) /\ x \notin Ghosts(m, t) /\ x \notin Skipped(m, t) /\ x < stop
  BY DEF Written
<1>5. "remove" \notin m[x] => t[x] # Absent
  BY <1>4 DEF Ghosts
<1>6. "remove" \notin m[x] => ~(x < server.next)
  BY <1>3, <1>4, <1>5 DEF Skipped
<1>7. x \in Int
  BY <1>4, Sizes DEF Due
<1> QED BY <1>3, <1>4, <1>6, <1>7

LEMMA PacketTurns ==
    ASSUME Types, Turns, NEW m, NEW t, NEW section \in BOOLEAN, NEW stop \in 1..MaxEnt + 1,
           section => stop \in Stops(m, t),
           waits' = IF section THEN Waiting(m, t, stop) ELSE [e \in Ents |-> 0],
           server'.next = NextIndex(section, stop)
    PROVE  Turns'
<1>1. server.next \in Nat /\ \A e \in Ents : waits[e] \in Nat
  BY DEF Types, Server
<1>2. server'.next \in 0..MaxEnt
  BY Sizes DEF NextIndex
<1>3. ASSUME NEW e \in Ents, waits'[e] = 0
      PROVE  waits'[e] <= Longest(server'.next, e)
  BY <1>2, <1>3, Sizes DEF Longest
<1>4. ASSUME NEW e \in Ents, waits'[e] # 0
      PROVE  waits'[e] <= Longest(server'.next, e)
  <2>1. section /\ waits'[e] = Waiting(m, t, stop)[e] /\ stop \in Stops(m, t)
    BY <1>4
  <2>2. /\ waits'[e] = waits[e] + 1
        /\ e \in Due(m) \ (Written(m, t, stop) \cup Ghosts(m, t))
        /\ \A x \in Written(m, t, stop) : "remove" \notin m[x]
    BY <1>4, <2>1 DEF Waiting
  <2>3. waits[e] <= Longest(server.next, e)
    BY DEF Turns
  <2>4. stop <= MaxEnt => stop >= 2 /\ stop > server.next
    <3>1. ASSUME stop <= MaxEnt
          PROVE  stop >= 2 /\ stop > server.next
      <4>1. PICK x \in Written(m, t, stop) :
               x > Slots /\ x < stop /\ ("remove" \notin m[x] => x >= server.next)
        BY <1>1, <2>1, <3>1, FullPacket
      <4>2. x \in Ents
        BY WrittenItem
      <4> QED BY <1>1, <2>2, <4>1, <4>2, Sizes
    <3> QED BY <3>1
  <2>5. e \in Skipped(m, t) \/ e >= stop
    BY <2>2, Sizes DEF Written
  <2>6. e \in Int /\ 1 <= e /\ e <= MaxEnt /\ server.next <= MaxEnt
    BY Sizes DEF Turns
  <2>7. CASE e >= stop
    <3>1. server'.next = stop /\ stop <= e
      BY <2>1, <2>6, <2>7, Sizes DEF NextIndex
    <3>2. CASE server.next = 0
      BY <1>1, <2>2, <2>3, <2>4, <2>6, <3>1, <3>2, Sizes DEF Longest
    <3>3. CASE server.next # 0
      <4>1. server.next < stop /\ stop <= MaxEnt
        BY <2>4, <2>6, <3>1, Sizes
      <4>2. Longest(server.next, e) = MaxEnt - e + server.next - 1
        BY <1>1, <2>6, <3>1, <3>3, <4>1, Sizes DEF Longest
      <4>3. Longest(stop, e) = MaxEnt - e + stop - 1
        BY <2>6, <3>1, Sizes DEF Longest
      <4> QED BY <1>1, <2>2, <2>3, <2>6, <3>1, <4>1, <4>2, <4>3, Sizes
    <3> QED BY <3>2, <3>3
  <2>8. CASE e \in Skipped(m, t) /\ ~(e >= stop)
    <3>1. e < server.next /\ e < stop
      BY <2>6, <2>8 DEF Skipped
    <3>2. Longest(server.next, e) = server.next - e - 1
      BY <1>1, <2>6, <3>1, Sizes DEF Longest
    <3>3. CASE stop <= MaxEnt
      <4>1. server'.next = stop /\ stop > server.next
        BY <2>1, <2>4, <3>3 DEF NextIndex
      <4>2. Longest(stop, e) = stop - e - 1
        BY <2>6, <3>1, Sizes DEF Longest
      <4> QED BY <1>1, <2>2, <2>3, <2>6, <3>2, <4>1, <4>2, Sizes
    <3>4. CASE ~(stop <= MaxEnt)
      <4>1. server'.next = 0
        BY <3>4 DEF NextIndex
      <4>2. Longest(0, e) = MaxEnt - e
        BY DEF Longest
      <4> QED BY <1>1, <2>2, <2>3, <2>6, <3>2, <4>1, <4>2, Sizes
    <3> QED BY <3>3, <3>4
  <2> QED BY <2>5, <2>7, <2>8
<1> QED BY <1>2, <1>3, <1>4 DEF Turns

LEMMA TurnsKept ==
    ASSUME IInv, Turns, [Next]_vars
    PROVE  Turns'
<1>1. Types
  BY DEF IInv
<1>2. ASSUME waits' = waits, server'.next = server.next
      PROVE  Turns'
  BY <1>2 DEF Turns
<1>3. ASSUME NEW w, NEW pend, NEW fr, NEW acked \in Int, NEW section \in BOOLEAN,
             NEW stop \in 1..MaxEnt + 1, NEW stale, NEW burst \in BOOLEAN,
             Emit(w, pend, fr, acked, section, stop, stale, burst),
             section => stop \in Stops(Marked(w, pend), NowTold(w, pend))
      PROVE  Turns'
  <2>1. PICK m : m = Marked(w, pend)
    OBVIOUS
  <2>2. PICK t : t = NowTold(w, pend)
    OBVIOUS
  <2>3. waits' = IF section THEN Waiting(m, t, stop) ELSE [e \in Ents |-> 0]
    BY <1>3, <2>1, <2>2 DEF Emit
  <2>4. server'.next = NextIndex(section, stop)
    <3>1. server \in Server
      BY <1>1 DEF Types
    <3> QED BY <1>3, <3>1 DEF Emit, Server
  <2> QED BY <1>1, <1>3, <2>1, <2>2, <2>3, <2>4, PacketTurns
<1>4. CASE SendFrame
  <2>1. PICK run : run = ReplaceRun(server.acked, server.outgoing)
    OBVIOUS
  <2>2. PICK pend : pend = FoldBits(pendingdeltabits, frames, run)
    OBVIOUS
  <2>3. PICK fr : fr = FoldFrames(frames, run)
    OBVIOUS
  <2>4. PICK acked : acked = Acked(server.acked, server.outgoing - Backup)
    OBVIOUS
  <2>5. acked \in Int
    <3>1. /\ Order /\ ~server.burst /\ (protocol = "QW" => server.send)
      BY <1>4 DEF SendFrame, IInv
    <3> QED BY <1>1, <2>1, <2>3, <2>4, <3>1, ReplaceKeeps
  <2>6. PICK w \in Snapshots, section \in BOOLEAN, stop \in 1..MaxEnt + 1,
             stale \in SUBSET Bits, burst \in BOOLEAN :
                /\ Emit(w, pend, fr, acked, section, stop, stale, burst)
                /\ section => stop \in Stops(Marked(w, pend), NowTold(w, pend))
    BY <1>4, <2>1, <2>2, <2>3, <2>4, SendFrameEmits
  <2> QED BY <1>3, <2>5, <2>6
<1>5. CASE SendMore
  <2>1. CASE \E stop \in Stops(Marked(world, pendingdeltabits), NowTold(world, pendingdeltabits)) :
              \E stale \in IF Ghosts(Marked(world, pendingdeltabits),
                                     NowTold(world, pendingdeltabits)) = {}
                           THEN {{}} ELSE StaleBits,
                 burst \in IF stop <= MaxEnt THEN BOOLEAN ELSE {FALSE} :
                   Emit(world, pendingdeltabits, frames, server.acked, TRUE, stop, stale, burst)
    <3>1. PICK w : w = world
      OBVIOUS
    <3>2. PICK pend : pend = pendingdeltabits
      OBVIOUS
    <3>3. PICK fr : fr = frames
      OBVIOUS
    <3>4. PICK acked : acked = server.acked
      OBVIOUS
    <3>5. PICK stop \in Stops(Marked(w, pend), NowTold(w, pend)) :
              \E stale \in IF Ghosts(Marked(w, pend), NowTold(w, pend)) = {}
                           THEN {{}} ELSE StaleBits,
                 burst \in IF stop <= MaxEnt THEN BOOLEAN ELSE {FALSE} :
                   Emit(w, pend, fr, acked, TRUE, stop, stale, burst)
      BY <2>1, <3>1, <3>2, <3>3, <3>4
    <3>6. PICK stale \in IF Ghosts(Marked(w, pend), NowTold(w, pend)) = {}
                         THEN {{}} ELSE StaleBits,
               burst \in IF stop <= MaxEnt THEN BOOLEAN ELSE {FALSE} :
                 Emit(w, pend, fr, acked, TRUE, stop, stale, burst)
      BY <3>5
    <3>7. stop \in 1..MaxEnt + 1 /\ acked \in Int /\ TRUE \in BOOLEAN /\ burst \in BOOLEAN
      BY <1>1, <3>4, StopsAndStale DEF Types, Server
    <3> QED BY <1>3, <3>6, <3>7
  <2>2. CASE server' = [server EXCEPT !.burst = FALSE] /\ UNCHANGED waits
    <3>1. server'.next = server.next
      BY <1>1, <2>2 DEF Types, Server
    <3> QED BY <1>2, <2>2, <3>1
  <2> QED BY <1>5, <2>1, <2>2 DEF SendMore
<1>6. CASE Choke
  <2>1. server'.next = server.next
    BY <1>1, <1>6 DEF Choke, Types, Server
  <2> QED BY <1>2, <1>6, <2>1 DEF Choke
<1>7. CASE \E p \in c2s : ServerReceive(p)
  <2>1. PICK p \in c2s : ServerReceive(p)
    BY <1>7
  <2>2. server \in Server
    BY <1>1 DEF Types
  <2>3. CASE protocol = "NQ"
    BY <1>2, <2>1, <2>2, <2>3 DEF ServerReceive, ReceiveNQ, Server
  <2>4. CASE protocol # "NQ"
    BY <1>2, <2>1, <2>2, <2>4 DEF ServerReceive, ReceiveQW, Server
  <2> QED BY <2>3, <2>4
<1>8. CASE ClientSend
  BY <1>2, <1>8 DEF ClientSend
<1>9. CASE \E p \in s2c : ClientReceive(p)
  BY <1>2, <1>9 DEF ClientReceive
<1>10. CASE Lose
  BY <1>2, <1>10 DEF Lose
<1>11. CASE UNCHANGED vars
  BY <1>2, <1>11 DEF vars
<1> QED BY <1>4, <1>5, <1>6, <1>7, <1>8, <1>9, <1>10, <1>11 DEF Next

\* SVFTE_EmitPacketEntities and nextdeltaindex: no entity that is due waits for more
\* packets than there are entities before it is written, as long as nothing is removed.
THEOREM EveryoneGetsATurn == Spec => []EveryoneHasATurn
<1>1. Init => Turns
  <2> SUFFICES ASSUME Init PROVE Turns
    OBVIOUS
  <2>1. server.next = 0 /\ waits = [e \in Ents |-> 0]
    BY DEF Init
  <2> QED BY <2>1, Sizes DEF Turns, Longest
<1>2. IInv /\ Turns /\ [Next]_vars => Turns'
  BY TurnsKept
<1>3. IInv /\ Turns => EveryoneHasATurn
  <2> SUFFICES ASSUME IInv, Turns, NEW e \in Ents
               PROVE  waits[e] < MaxEnt
    BY DEF EveryoneHasATurn
  <2>1. server.next \in Nat /\ waits[e] \in Nat /\ waits[e] <= Longest(server.next, e)
        /\ server.next <= MaxEnt
    BY DEF IInv, Types, Server, Turns
  <2>2. e \in Int /\ 1 <= e /\ e <= MaxEnt /\ MaxEnt \in Int
    BY Sizes
  <2> QED BY <2>1, <2>2 DEF Longest
<1> QED BY <1>1, <1>2, <1>3, Invariance, PTL DEF Spec

-----------------------------------------------------------------------------
(* The client never goes back. *)

Says(p, e, f) == p.items[e].kind = "update" /\ f \in DOMAIN p.items[e].data
Said(p, e, f) == p.items[e].data[f]

\* x is not younger than what there is and what the server believes it told.
NotYounger(x, e, f) == /\ x <= changes
                       /\ world[e][f] > 0 => x <= world[e][f]
                       /\ sentents[e][f] > 0 => x <= sentents[e][f]

\* A field's values have the order of the changes that set them: at the client, in
\* flight, in the server's books and in the world.  Only the baseline is outside it.
Ages ==
    \A e \in Ents, f \in Fields :
        /\ world[e][f] <= changes /\ sentents[e][f] <= changes
        /\ world[e][f] > 0 => sentents[e][f] <= world[e][f]
        /\ NotYounger(client.ents[e][f], e, f)
        /\ \A p \in s2c : Says(p, e, f) =>
              /\ NotYounger(Said(p, e, f), e, f)
              /\ Said(p, e, f) > 0 => client.ents[e][f] <= Said(p, e, f)
        /\ \A p, q \in s2c : /\ Says(p, e, f) /\ Says(q, e, f)
                             /\ p.seq < q.seq /\ Said(q, e, f) > 0
                             => Said(p, e, f) <= Said(q, e, f)

\* A field of an entity that is there is set by a change, or is as it was.
LEMMA SnapshotFields ==
    ASSUME Types, NEW w \in Snapshots, NEW e \in Ents, NEW f \in Fields
    PROVE  \/ w[e][f] = world[e][f]
           \/ w[e][f] \in {-2, 0}
           \/ w # world /\ w[e][f] = changes + 1
<1>1. CASE w = world
  BY <1>1
<1>2. CASE w # world
  <2>1. w[e] \in Afterwards(world[e])
    BY <1>2 DEF Snapshots
  <2>2. world[e] \in Entity
    BY DEF Types
  <2>3. CASE w[e] = Absent \/ w[e] = world[e]
    BY <2>3 DEF Absent
  <2>4. CASE world[e] = Absent /\ \E g \in Fields : w[e] = [Baseline EXCEPT ![g] = changes + 1]
    BY <1>2, <2>4 DEF Baseline
  <2>5. CASE world[e] # Absent /\ \E g \in Fields : w[e] = [world[e] EXCEPT ![g] = changes + 1]
    <3>1. DOMAIN world[e] = Fields
      BY <2>2, <2>5 DEF Entity
    <3> QED BY <1>2, <2>5, <3>1
  <2> QED BY <2>1, <2>3, <2>4, <2>5 DEF Afterwards
<1> QED BY <1>1, <1>2

\* What a packet makes of an entity, and of a field of it.
LEMMA PictureOf ==
    ASSUME Types, NEW p \in s2c, ClientReceive(p), p.section, NEW e \in Ents
    PROVE  client'.ents[e] \in
              {Absent, Apply(p.items[e], IF p.clear THEN Absent ELSE client.ents[e])}
<1>1. client \in Client /\ p.clear \in BOOLEAN
  BY DEF Types, ProperPacket
<1> DEFINE parsed == IF protocol = "NQ" THEN client.parsed + 1 ELSE p.seq
           usable == /\ client.valid # 0
                     /\ parsed - client.valid < Backup - 1
                     /\ Slot(parsed) # Slot(client.valid)
           old == IF usable /\ ~p.clear THEN client.ents ELSE Nobody
           ents2 == IF usable \/ p.clear THEN [x \in Ents |-> Apply(p.items[x], old[x])] ELSE Nobody
<1>2. client'.ents = ents2
  BY <1>1 DEF ClientReceive, ParseEntities, Client
<1>3. old[e] = IF usable /\ ~p.clear THEN client.ents[e] ELSE Absent
  BY DEF Nobody
<1>4. ents2[e] = IF usable \/ p.clear THEN Apply(p.items[e], old[e]) ELSE Absent
  BY DEF Nobody
<1> HIDE DEF parsed, usable, old, ents2
<1> QED BY <1>2, <1>3, <1>4

LEMMA PictureField ==
    ASSUME Types, NEW p \in s2c, ClientReceive(p), NEW e \in Ents, NEW f \in Fields
    PROVE  /\ \/ client'.ents[e][f] = client.ents[e][f]
              \/ client'.ents[e][f] \in {-2, -1, 0}
              \/ Says(p, e, f) /\ client'.ents[e][f] = Said(p, e, f)
           /\ client.ents[e] # Absent /\ client'.ents[e] # Absent /\ client'.ents[e][f] # 0 =>
                 \/ client'.ents[e][f] = client.ents[e][f]
                 \/ Says(p, e, f) /\ client'.ents[e][f] = Said(p, e, f)
<1>1. client \in Client /\ ProperPacket(p) /\ Absent[f] = -2
  BY DEF Types, Absent
<1>2. CASE ~p.section
  <2>1. client'.ents = client.ents
    BY <1>2, Parsed
  <2> QED BY <2>1
<1>3. CASE p.section
  <2> DEFINE old == IF p.clear THEN Absent ELSE client.ents[e]
             item == p.items[e]
  <2>1. client'.ents[e] = Absent \/ client'.ents[e] = Apply(item, old)
    BY <1>3, PictureOf
  <2>2. /\ item.kind \in {"nothing", "remove", "update"}
        /\ p.clear /\ item.kind = "update" => item.reset
    BY <1>1 DEF ProperPacket, ProperItem
  <2>3. CASE client'.ents[e] = Absent
    BY <1>1, <2>3
  <2>4. CASE client'.ents[e] = Apply(item, old) /\ item.kind = "nothing"
    <3>1. client'.ents[e] = old
      BY <2>4 DEF Apply
    <3> QED BY <1>1, <3>1
  <2>5. CASE client'.ents[e] = Apply(item, old) /\ item.kind = "remove"
    <3>1. client'.ents[e] = Absent
      BY <2>5 DEF Apply
    <3> QED BY <1>1, <3>1
  <2>6. CASE client'.ents[e] = Apply(item, old) /\ item.kind = "update"
    <3>1. client'.ents[e][f] = IF f \in DOMAIN item.data THEN item.data[f]
                               ELSE IF item.reset THEN 0
                               ELSE IF old = Absent THEN -1 ELSE old[f]
      BY <2>6, ApplyField
    <3>2. CASE f \in DOMAIN item.data
      BY <2>6, <3>1, <3>2 DEF Says, Said
    <3>3. CASE f \notin DOMAIN item.data /\ item.reset
      BY <3>1, <3>3
    <3>4. CASE f \notin DOMAIN item.data /\ ~item.reset
      <4>1. ~p.clear /\ old = client.ents[e]
        BY <2>2, <2>6, <3>4
      <4> QED BY <3>1, <3>4, <4>1
    <3> QED BY <3>2, <3>3, <3>4
  <2> QED BY <2>1, <2>2, <2>3, <2>4, <2>5, <2>6
<1> QED BY <1>2, <1>3

\* The numbers there are.
LEMMA AgeTypes ==
    ASSUME Types, NEW e \in Ents, NEW f \in Fields
    PROVE  /\ world[e][f] \in Int /\ sentents[e][f] \in Int /\ client.ents[e][f] \in Int
           /\ changes \in Nat
           /\ \A p \in s2c : p.seq \in Nat /\ (Says(p, e, f) => Said(p, e, f) \in Nat)
<1>1. world[e] \in Entity /\ sentents[e] \in Entity /\ client.ents[e] \in Seen /\ changes \in Nat
  BY DEF Types, Client
<1>2. client.ents[e][f] \in Int
  BY <1>1 DEF Seen, Absent
<1>3. \A p \in s2c : p.seq \in Nat /\ (Says(p, e, f) => Said(p, e, f) \in Nat)
  BY DEF Types, ProperPacket, ProperItem, Says, Said
<1> QED BY <1>1, <1>2, <1>3, AbsentField

\* The client's picture may fall back to the baseline; what a packet says was in order.
LEMMA ReceiveAges ==
    ASSUME Types, Ages, NEW p \in s2c, ClientReceive(p)
    PROVE  Ages'
<1>1. UNCHANGED <<world, sentents, changes>>
  BY DEF ClientReceive
<1>2. s2c' \subseteq s2c /\ \A q \in s2c' : q.seq > p.seq
  BY DEF ClientReceive, After
<1> SUFFICES ASSUME NEW e \in Ents, NEW f \in Fields
             PROVE  /\ NotYounger(client.ents[e][f], e, f)'
                    /\ \A q \in s2c' : Says(q, e, f) /\ Said(q, e, f) > 0
                                          => client'.ents[e][f] <= Said(q, e, f)
  BY <1>1, <1>2 DEF Ages, NotYounger
<1> DEFINE a == client.ents[e][f]
           b == client'.ents[e][f]
<1>3. /\ world[e][f] \in Int /\ sentents[e][f] \in Int /\ a \in Int /\ changes \in Nat
      /\ \A q \in s2c : q.seq \in Nat /\ (Says(q, e, f) => Said(q, e, f) \in Nat)
  BY AgeTypes
<1>4. /\ NotYounger(a, e, f)
      /\ \A q \in s2c : Says(q, e, f) =>
            NotYounger(Said(q, e, f), e, f) /\ (Said(q, e, f) > 0 => a <= Said(q, e, f))
      /\ \A q \in s2c : Says(p, e, f) /\ Says(q, e, f) /\ p.seq < q.seq /\ Said(q, e, f) > 0
                          => Said(p, e, f) <= Said(q, e, f)
  BY DEF Ages
<1>5. b = a \/ b \in {-2, -1, 0} \/ (Says(p, e, f) /\ b = Said(p, e, f))
  BY PictureField
<1> HIDE DEF a, b
<1>6. NotYounger(b, e, f) /\ \A q \in s2c' : Says(q, e, f) /\ Said(q, e, f) > 0
                                               => b <= Said(q, e, f)
  <2>1. CASE b = a
    BY <1>2, <1>4, <2>1
  <2>2. CASE b \in {-2, -1, 0}
    BY <1>2, <1>3, <2>2 DEF NotYounger
  <2>3. CASE Says(p, e, f) /\ b = Said(p, e, f)
    BY <1>2, <1>3, <1>4, <2>3
  <2> QED BY <1>5, <2>1, <2>2, <2>3
<1> QED BY <1>1, <1>6 DEF NotYounger, b

\* A packet says what the server believes it told from then on.
LEMMA PacketSays ==
    ASSUME Types, NEW w \in [Ents -> Entity], NEW pend, ProperBits(pend),
           NEW section, NEW stop,
           NEW m, m = Marked(w, pend), NEW t, t = NowTold(w, pend),
           NEW p, p = PacketOf(m, t, section, stop),
           NEW e \in Ents, NEW f \in Fields, Says(p, e, f)
    PROVE  Said(p, e, f) = t[e][f]
<1>1. ProperBits(m) /\ t \in [Ents -> Entity]
  BY MarkTypes
<1>2. p.items[e] = IF section /\ e \in Written(m, t, stop) THEN Item(m, t, e) ELSE Nothing
  BY DEF PacketOf
<1>3. e \in Written(m, t, stop) /\ p.items[e] = Item(m, t, e)
  BY <1>2 DEF Says, Nothing
<1>4. "remove" \in m[e] \/ t[e] # Absent
  BY <1>3, WrittenItem
<1>5. "remove" \notin m[e]
  BY <1>1, <1>3, <1>4, ItemFacts DEF Says
<1>6. f \in DOMAIN Item(m, t, e).data => Item(m, t, e).data[f] = t[e][f]
  BY <1>1, <1>4, <1>5, ItemFacts
<1> QED BY <1>3, <1>6 DEF Says, Said

LEMMA EmitAges ==
    ASSUME Types, Order, Ages, NEW w \in [Ents -> Entity], NEW pend, ProperBits(pend),
           \A e \in Ents, f \in Fields : \/ w[e][f] = world[e][f]
                                         \/ w[e][f] \in {-2, 0}
                                         \/ w # world /\ w[e][f] = changes + 1,
           NEW fr, NEW acked \in Int, NEW section \in BOOLEAN, NEW stop \in 1..MaxEnt + 1,
           NEW stale, NEW burst \in BOOLEAN, Sequence = NextSequence,
           Emit(w, pend, fr, acked, section, stop, stale, burst),
           UNCHANGED client
    PROVE  Ages'
<1>1. PICK m : m = Marked(w, pend)
  OBVIOUS
<1>2. PICK t : t = NowTold(w, pend)
  OBVIOUS
<1>3. PICK p : p = PacketOf(m, t, section, stop)
  OBVIOUS
<1>4. world' = w /\ sentents' = t /\ changes' = IF w = world THEN changes ELSE changes + 1
  BY <1>1, <1>2 DEF Emit
<1>5. s2c' = s2c \cup {p}
  BY <1>1, <1>2, <1>3, EmitSends
<1>6. p.seq = Sequence /\ \A q \in s2c : q.seq < Sequence
  BY <1>3 DEF PacketOf, Order
<1> SUFFICES ASSUME NEW e \in Ents, NEW f \in Fields
             PROVE  /\ w[e][f] <= changes' /\ t[e][f] <= changes'
                    /\ w[e][f] > 0 => t[e][f] <= w[e][f]
                    /\ NotYounger(client.ents[e][f], e, f)'
                    /\ \A q \in s2c' : Says(q, e, f) =>
                          /\ NotYounger(Said(q, e, f), e, f)'
                          /\ Said(q, e, f) > 0 => client.ents[e][f] <= Said(q, e, f)
                    /\ \A q, r \in s2c' : /\ Says(q, e, f) /\ Says(r, e, f)
                                          /\ q.seq < r.seq /\ Said(r, e, f) > 0
                                          => Said(q, e, f) <= Said(r, e, f)
  BY <1>4 DEF Ages, NotYounger
<1> DEFINE a == client.ents[e][f]
           s == sentents[e][f]
           v == w[e][f]
           u == t[e][f]
           old == world[e][f]
           Older(x) == x <= changes' /\ (v > 0 => x <= v) /\ (u > 0 => x <= u)
<1>7. /\ old \in Int /\ s \in Int /\ a \in Int /\ changes \in Nat
      /\ \A q \in s2c : q.seq \in Nat /\ (Says(q, e, f) => Said(q, e, f) \in Nat)
  BY AgeTypes
<1>8. v = old \/ v \in {-2, 0} \/ (w # world /\ v = changes + 1)
  OBVIOUS
<1>9. u = v \/ (v = -2 /\ u \in {s, -2})
  <2>1. t[e] = IF w[e] = Absent /\ e \in Sticky THEN Told(pend)[e] ELSE w[e]
    BY <1>2, Marks
  <2>2. Told(pend)[e] \in {sentents[e], Absent}
    BY DEF Told, Nobody
  <2>3. Absent[f] = -2
    BY DEF Absent
  <2> QED BY <2>1, <2>2, <2>3
<1>10. /\ old <= changes /\ s <= changes /\ (old > 0 => s <= old)
       /\ NotYounger(a, e, f)
       /\ \A q \in s2c : Says(q, e, f) =>
            NotYounger(Said(q, e, f), e, f) /\ (Said(q, e, f) > 0 => a <= Said(q, e, f))
       /\ \A q, r \in s2c : /\ Says(q, e, f) /\ Says(r, e, f)
                            /\ q.seq < r.seq /\ Said(r, e, f) > 0
                            => Said(q, e, f) <= Said(r, e, f)
  BY DEF Ages
<1>11. Says(p, e, f) => Said(p, e, f) = u
  BY <1>1, <1>2, <1>3, PacketSays
<1>12. changes' = IF w = world THEN changes ELSE changes + 1
  BY <1>4
<1>13. ASSUME NEW x \in Int
       PROVE  NotYounger(x, e, f)' <=> Older(x)
  BY <1>4 DEF NotYounger
<1> HIDE DEF a, s, v, u, old
<1>14. v \in Int /\ u \in Int /\ changes' \in Nat
  BY <1>7, <1>8, <1>9, <1>12
<1>15. v <= changes' /\ u <= changes' /\ (v > 0 => u <= v)
  BY <1>7, <1>8, <1>9, <1>10, <1>12
<1>16. ASSUME NEW x \in Int, NotYounger(x, e, f)
       PROVE  Older(x)
  <2>1. x <= changes /\ (old > 0 => x <= old) /\ (s > 0 => x <= s)
    BY <1>16 DEF NotYounger, old, s
  <2> QED BY <1>7, <1>8, <1>9, <1>12, <1>14, <2>1
<1>17. Older(a) /\ \A q \in s2c : Says(q, e, f) => Older(Said(q, e, f))
  BY <1>7, <1>10, <1>16
<1>18. Older(u)
  BY <1>14, <1>15
<1>19. NotYounger(client.ents[e][f], e, f)'
  BY <1>4, <1>17 DEF NotYounger, a, v, u
<1>20. ASSUME NEW q \in s2c', Says(q, e, f)
       PROVE  NotYounger(Said(q, e, f), e, f)' /\ (Said(q, e, f) > 0 => a <= Said(q, e, f))
  <2>1. CASE q \in s2c
    BY <1>7, <1>10, <1>13, <1>17, <1>20, <2>1
  <2>2. CASE q = p
    BY <1>11, <1>13, <1>14, <1>17, <1>18, <1>20, <2>2
  <2> QED BY <1>5, <2>1, <2>2
<1>21. ASSUME NEW q \in s2c', NEW r \in s2c', Says(q, e, f), Says(r, e, f),
              q.seq < r.seq, Said(r, e, f) > 0
       PROVE  Said(q, e, f) <= Said(r, e, f)
  <2>1. CASE q \in s2c /\ r \in s2c
    BY <1>10, <1>21, <2>1
  <2>2. CASE q \in s2c /\ r = p
    BY <1>11, <1>17, <1>21, <2>2
  <2>3. q # p
    <3>1. Sequence \in Nat
      BY DEF Types, Sequence, Server
    <3> QED BY <1>5, <1>6, <1>7, <1>21, <3>1
  <2> QED BY <1>5, <2>1, <2>2, <2>3
<1>22. v = w[e][f] /\ u = t[e][f]
  BY DEF v, u
<1> QED BY <1>15, <1>19, <1>20, <1>21, <1>22 DEF a

LEMMA AgesKept ==
    ASSUME IInv, Ages, [Next]_vars
    PROVE  Ages'
<1>1. Types /\ Order
  BY DEF IInv
<1>2. ASSUME UNCHANGED <<world, changes, sentents>>, client'.ents = client.ents, s2c' \subseteq s2c
      PROVE  Ages'
  BY <1>2 DEF Ages, NotYounger
<1>3. CASE SendFrame
  <2>1. PICK run : run = ReplaceRun(server.acked, server.outgoing)
    OBVIOUS
  <2>2. PICK pend : pend = FoldBits(pendingdeltabits, frames, run)
    OBVIOUS
  <2>3. PICK fr : fr = FoldFrames(frames, run)
    OBVIOUS
  <2>4. PICK acked : acked = Acked(server.acked, server.outgoing - Backup)
    OBVIOUS
  <2>5. ~server.burst /\ (protocol = "QW" => server.send) /\ UNCHANGED client
    BY <1>3 DEF SendFrame
  <2>6. acked \in Int /\ Sequence = NextSequence
    BY <1>1, <2>1, <2>3, <2>4, <2>5, ReplaceKeeps
  <2>7. ProperBits(pend)
    BY <1>1, <2>2, FoldTypes DEF Types
  <2>8. PICK w \in Snapshots, section \in BOOLEAN, stop \in 1..MaxEnt + 1,
             stale \in SUBSET Bits, burst \in BOOLEAN :
                Emit(w, pend, fr, acked, section, stop, stale, burst)
    BY <1>3, <2>1, <2>2, <2>3, <2>4, SendFrameEmits
  <2>9. w \in [Ents -> Entity]
    BY <1>1, SnapshotTypes
  <2>10. \A e \in Ents, f \in Fields : \/ w[e][f] = world[e][f]
                                       \/ w[e][f] \in {-2, 0}
                                       \/ w # world /\ w[e][f] = changes + 1
    BY <1>1, SnapshotFields
  <2> QED BY <1>1, <2>5, <2>6, <2>7, <2>8, <2>9, <2>10, EmitAges
<1>4. CASE SendMore
  <2>1. CASE \E stop \in Stops(Marked(world, pendingdeltabits), NowTold(world, pendingdeltabits)) :
              \E stale \in IF Ghosts(Marked(world, pendingdeltabits),
                                     NowTold(world, pendingdeltabits)) = {}
                           THEN {{}} ELSE StaleBits,
                 burst \in IF stop <= MaxEnt THEN BOOLEAN ELSE {FALSE} :
                   Emit(world, pendingdeltabits, frames, server.acked, TRUE, stop, stale, burst)
    <3>1. PICK w : w = world
      OBVIOUS
    <3>2. PICK pend : pend = pendingdeltabits
      OBVIOUS
    <3>3. PICK fr : fr = frames
      OBVIOUS
    <3>4. PICK acked : acked = server.acked
      OBVIOUS
    <3>5. PICK stop \in Stops(Marked(w, pend), NowTold(w, pend)) :
              \E stale \in IF Ghosts(Marked(w, pend), NowTold(w, pend)) = {}
                           THEN {{}} ELSE StaleBits,
                 burst \in IF stop <= MaxEnt THEN BOOLEAN ELSE {FALSE} :
                   Emit(w, pend, fr, acked, TRUE, stop, stale, burst)
      BY <2>1, <3>1, <3>2, <3>3, <3>4
    <3>6. PICK stale \in IF Ghosts(Marked(w, pend), NowTold(w, pend)) = {}
                         THEN {{}} ELSE StaleBits,
               burst \in IF stop <= MaxEnt THEN BOOLEAN ELSE {FALSE} :
                 Emit(w, pend, fr, acked, TRUE, stop, stale, burst)
      BY <3>5
    <3>7. stop \in 1..MaxEnt + 1 /\ burst \in BOOLEAN /\ TRUE \in BOOLEAN
      BY StopsAndStale
    <3>8. acked \in Int /\ ProperBits(pend) /\ w \in [Ents -> Entity]
      BY <1>1, <3>1, <3>2, <3>4 DEF Types, Server
    <3>9. Sequence = NextSequence /\ UNCHANGED client
      <4>1. server.burst /\ UNCHANGED client
        BY <1>4 DEF SendMore
      <4>2. protocol = "NQ"
        BY <1>1, <4>1 DEF Order, Types
      <4> QED BY <4>1, <4>2 DEF Sequence, NextSequence
    <3>10. \A e \in Ents, f \in Fields : w[e][f] = world[e][f]
      BY <3>1
    <3> QED BY <1>1, <3>6, <3>7, <3>8, <3>9, <3>10, EmitAges
  <2>2. CASE UNCHANGED <<world, changes, sentents, client, s2c>>
    BY <1>2, <2>2
  <2> QED BY <1>4, <2>1, <2>2 DEF SendMore
<1>5. CASE Choke
  BY <1>2, <1>5 DEF Choke
<1>6. CASE \E p \in c2s : ServerReceive(p)
  BY <1>2, <1>6 DEF ServerReceive
<1>7. CASE ClientSend
  <2>1. UNCHANGED <<world, changes, sentents, s2c>> /\ client \in Client
    BY <1>1, <1>7 DEF ClientSend, Types
  <2>2. client'.ents = client.ents
    <3>1. CASE protocol = "NQ"
      BY <1>7, <2>1, <3>1 DEF ClientSend, SendNQ, Client
    <3>2. CASE protocol # "NQ"
      BY <1>7, <2>1, <3>2 DEF ClientSend, SendQW, Client
    <3> QED BY <3>1, <3>2
  <2> QED BY <1>2, <2>1, <2>2
<1>8. CASE \E p \in s2c : ClientReceive(p)
  BY <1>1, <1>8, ReceiveAges
<1>9. CASE Lose
  <2>1. UNCHANGED <<world, changes, sentents, client>> /\ s2c' \subseteq s2c
    BY <1>9 DEF Lose
  <2> QED BY <1>2, <2>1
<1>10. CASE UNCHANGED vars
  BY <1>2, <1>10 DEF vars
<1> QED BY <1>3, <1>4, <1>5, <1>6, <1>7, <1>8, <1>9, <1>10 DEF Next

\* Only a packet that arrives changes a field the client has.
LEMMA StepIsNotOlder ==
    ASSUME IInv, Ages, [Next]_vars, NEW e \in Ents, NEW f \in Fields,
           client.ents[e] # Absent, client'.ents[e] # Absent, client'.ents[e][f] # 0
    PROVE  client'.ents[e][f] >= client.ents[e][f]
<1>1. Types /\ client \in Client
  BY DEF IInv, Types
<1>2. client.ents[e][f] \in Int
  BY <1>1, AgeTypes
<1>3. CASE \E p \in s2c : ClientReceive(p)
  <2>1. PICK p \in s2c : ClientReceive(p)
    BY <1>3
  <2>2. \/ client'.ents[e][f] = client.ents[e][f]
        \/ Says(p, e, f) /\ client'.ents[e][f] = Said(p, e, f)
    BY <1>1, <2>1, PictureField
  <2>3. CASE Says(p, e, f) /\ client'.ents[e][f] = Said(p, e, f)
    <3>1. Said(p, e, f) \in Nat
      BY <1>1, <2>3, AgeTypes
    <3>2. client.ents[e][f] <= Said(p, e, f)
      BY <2>3, <3>1 DEF Ages
    <3> QED BY <1>2, <2>3, <3>1, <3>2
  <2> QED BY <1>2, <2>2, <2>3
<1>4. CASE client'.ents = client.ents
  BY <1>2, <1>4
<1>5. CASE ClientSend
  <2>1. client'.ents = client.ents
    <3>1. CASE protocol = "NQ"
      BY <1>1, <1>5, <3>1 DEF ClientSend, SendNQ, Client
    <3>2. CASE protocol # "NQ"
      BY <1>1, <1>5, <3>2 DEF ClientSend, SendQW, Client
    <3> QED BY <3>1, <3>2
  <2> QED BY <1>4, <2>1
<1> QED BY <1>3, <1>4, <1>5
    DEF Next, vars, SendFrame, SendMore, Choke, ServerReceive, Lose

\* CLFTE_ParseEntities: what a client shows of a field is never replaced by an older
\* change, whatever is resent and however packets overtake each other.
THEOREM NothingGetsOlder == Spec => NeverOlder
<1>1. Init => Ages
  <2> SUFFICES ASSUME Init PROVE Ages
    OBVIOUS
  <2>1. /\ world = Nobody /\ sentents = Nobody /\ client.ents = Nobody
        /\ s2c = {} /\ changes = 0
    BY DEF Init
  <2>2. \A e \in Ents, f \in Fields : Nobody[e][f] = -2
    BY DEF Nobody, Absent
  <2> QED BY <2>1, <2>2 DEF Ages, NotYounger
<1>2. IInv /\ Ages /\ [Next]_vars => Ages'
  BY AgesKept
<1>3. IInv /\ Ages /\ [Next]_vars
        => [\A e \in Ents, f \in Fields :
              /\ client.ents[e] # Absent /\ client'.ents[e] # Absent
              /\ client'.ents[e][f] # 0
              => client'.ents[e][f] >= client.ents[e][f]]_vars
  BY StepIsNotOlder
<1> QED BY <1>1, <1>2, <1>3, Invariance, PTL DEF Spec, NeverOlder
=============================================================================
