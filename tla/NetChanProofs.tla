---------------------------- MODULE NetChanProofs ----------------------------
(***************************************************************************)
(* NetChan keeps its inductive invariant, hence delivers the reliable      *)
(* stream, for every buffer size and every bound, over a network that      *)
(* loses, repeats and reorders without limit.                              *)
(*                                                                         *)
(* The two directions of the connection are treated separately: the        *)
(* lemmas of the first part follow one direction, from writer a to reader  *)
(* b, through everything that can happen at either end, and the theorem    *)
(* only has to say which lemma applies.  The last three parts add what the *)
(* channel promises above it: the refinement of ReliableStream, the        *)
(* numbers of the server's replies, and the hole an overflow leaves.       *)
(***************************************************************************)
EXTENDS NetChan, SequenceTheorems, TLAPS

-----------------------------------------------------------------------------
(* Sequences. *)

\* Taking the last part away leaves the rest.
LEMMA WithoutLast ==
    ASSUME NEW S, NEW s \in Seq(S), NEW t \in Seq(S)
    PROVE  /\ SubSeq(s \o t, 1, Len(s \o t) - Len(t)) = s
           /\ Len(s \o t) - Len(t) = Len(s)
<1>1. Len(s \o t) - Len(t) = Len(s)
  BY ConcatProperties, LenProperties
<1>2. CASE s = <<>>
  <2>1. Len(s) = 0
    BY <1>2, EmptySeq
  <2> QED BY <1>1, <1>2, <2>1, SubSeqEmpty
<1>3. CASE s # <<>>
  <2>1. Len(s) \in Nat \ {0}
    BY <1>3, EmptySeq
  <2>2. SubSeq(s \o t, 1, Len(s)) = SubSeq(s, 1, Len(s))
    BY <2>1, SubSeqOfConcat1
  <2> QED BY <1>1, <2>2, SubSeqFull
<1> QED BY <1>2, <1>3

-----------------------------------------------------------------------------
(* Types of what the channel operators return. *)

\* What Load does to each field that matters, one equation per field.
LEMMA LoadFields ==
    ASSUME NEW c \in Channel
    PROVE  /\ Load(c) \in Channel
           /\ Load(c).outgoing_sequence = c.outgoing_sequence
           /\ Load(c).incoming_sequence = c.incoming_sequence
           /\ Load(c).incoming_acknowledged = c.incoming_acknowledged
           /\ Load(c).incoming_reliable_acknowledged = c.incoming_reliable_acknowledged
           /\ Load(c).incoming_reliable_sequence = c.incoming_reliable_sequence
           /\ Load(c).last_reliable_sequence = c.last_reliable_sequence
           /\ CanLoad(c) => /\ Load(c).reliable_buf = c.message
                            /\ Load(c).message = <<>>
                            /\ Load(c).reliable_sequence = 1 - c.reliable_sequence
           /\ ~CanLoad(c) => Load(c) = c
<1>1. CASE CanLoad(c)
  <2>1. Load(c) = [c EXCEPT !.reliable_buf = c.message, !.message = <<>>,
                            !.reliable_sequence = 1 - c.reliable_sequence]
    BY <1>1 DEF Load
  <2>2. c.message \in Seq(Message) /\ 1 - c.reliable_sequence \in {0, 1}
    BY DEF Channel
  <2>3. <<>> \in Seq(Message)
    BY EmptySeq
  <2> QED BY <1>1, <2>1, <2>2, <2>3 DEF Channel
<1>2. CASE ~CanLoad(c)
  BY <1>2 DEF Load
<1> QED BY <1>1, <1>2

\* Netchan_Transmit leaves a channel whose fields are known.
LEMMA TransmitFields ==
    ASSUME NEW c \in Channel
    PROVE  /\ AfterTransmit(c) \in Channel
           /\ AfterTransmit(c).outgoing_sequence = c.outgoing_sequence + 1
           /\ AfterTransmit(c).incoming_sequence = c.incoming_sequence
           /\ AfterTransmit(c).incoming_acknowledged = c.incoming_acknowledged
           /\ AfterTransmit(c).incoming_reliable_acknowledged = c.incoming_reliable_acknowledged
           /\ AfterTransmit(c).incoming_reliable_sequence = c.incoming_reliable_sequence
           /\ AfterTransmit(c).last_reliable_sequence =
                 IF SendReliable(c) THEN c.outgoing_sequence + 1
                 ELSE c.last_reliable_sequence
           /\ AfterTransmit(c).reliable_buf = Load(c).reliable_buf
           /\ AfterTransmit(c).message = Load(c).message
           /\ AfterTransmit(c).reliable_sequence = Load(c).reliable_sequence
<1> DEFINE l == IF SendReliable(c) THEN c.outgoing_sequence + 1
                ELSE c.last_reliable_sequence
<1>1. l \in Nat
  BY DEF Channel
<1>2. AfterTransmit(c) = [Load(c) EXCEPT !.outgoing_sequence = c.outgoing_sequence + 1,
                                         !.last_reliable_sequence = l]
  BY LoadFields DEF AfterTransmit
<1> HIDE DEF l
<1>3. /\ AfterTransmit(c) \in Channel
      /\ AfterTransmit(c).last_reliable_sequence = l
  <2>1. ASSUME NEW x \in Channel, NEW o \in Nat, NEW n \in Nat
        PROVE  /\ [x EXCEPT !.outgoing_sequence = o, !.last_reliable_sequence = n] \in Channel
               /\ [x EXCEPT !.outgoing_sequence = o, !.last_reliable_sequence = n]
                     .last_reliable_sequence = n
    BY DEF Channel
  <2>2. c.outgoing_sequence + 1 \in Nat /\ Load(c) \in Channel
    BY LoadFields DEF Channel
  <2>3. [Load(c) EXCEPT !.outgoing_sequence = c.outgoing_sequence + 1,
                        !.last_reliable_sequence = l] \in Channel
    BY <1>1, <2>1, <2>2, Zenon
  <2>4. [Load(c) EXCEPT !.outgoing_sequence = c.outgoing_sequence + 1,
                        !.last_reliable_sequence = l].last_reliable_sequence = l
    BY <1>1, <2>1, <2>2, ZenonT(60)
  <2> QED BY <1>2, <2>3, <2>4, Zenon
<1>4. /\ AfterTransmit(c).outgoing_sequence = c.outgoing_sequence + 1
      /\ AfterTransmit(c).incoming_sequence = c.incoming_sequence
      /\ AfterTransmit(c).incoming_acknowledged = c.incoming_acknowledged
      /\ AfterTransmit(c).incoming_reliable_acknowledged = c.incoming_reliable_acknowledged
      /\ AfterTransmit(c).incoming_reliable_sequence = c.incoming_reliable_sequence
      /\ AfterTransmit(c).reliable_buf = Load(c).reliable_buf
      /\ AfterTransmit(c).message = Load(c).message
      /\ AfterTransmit(c).reliable_sequence = Load(c).reliable_sequence
  BY <1>2, LoadFields DEF Channel
<1> QED BY <1>3, <1>4 DEF l

\* What it emits is a packet.
LEMMA PacketFields ==
    ASSUME NEW c \in Channel, NEW final \in BOOLEAN
    PROVE  /\ PacketFrom(c, final) \in Packet
           /\ PacketFrom(c, final).seq = c.outgoing_sequence
           /\ PacketFrom(c, final).ack = c.incoming_sequence
           /\ PacketFrom(c, final).relack = c.incoming_reliable_sequence
           /\ PacketFrom(c, final).rel = SendReliable(c)
           /\ SendReliable(c) => PacketFrom(c, final).data = Load(c).reliable_buf
           /\ ~SendReliable(c) => PacketFrom(c, final).data = <<>>
<1> DEFINE d == IF SendReliable(c) THEN Load(c).reliable_buf ELSE <<>>
<1>1. SendReliable(c) \in BOOLEAN
  BY DEF SendReliable, ReliableLost, CanLoad
<1>2. d \in Seq(Message)
  BY LoadFields, EmptySeq DEF Channel
<1>3. PacketFrom(c, final) = [seq |-> c.outgoing_sequence, rel |-> SendReliable(c),
                       ack |-> c.incoming_sequence,
                       relack |-> c.incoming_reliable_sequence, data |-> d,
                              final |-> final]
  BY DEF PacketFrom
<1> HIDE DEF d
<1>4. PacketFrom(c, final) \in Packet /\ PacketFrom(c, final).data = d
  BY <1>1, <1>2, <1>3 DEF Packet, Channel
<1>5. /\ PacketFrom(c, final).seq = c.outgoing_sequence
      /\ PacketFrom(c, final).ack = c.incoming_sequence
      /\ PacketFrom(c, final).relack = c.incoming_reliable_sequence
      /\ PacketFrom(c, final).rel = SendReliable(c)
  BY <1>3
<1> QED BY <1>4, <1>5 DEF d

\* Netchan_Process leaves a channel whose fields are known.
LEMMA ProcessFields ==
    ASSUME NEW c \in Channel, NEW p \in Packet
    PROVE  /\ AfterProcess(c, p) \in Channel
           /\ AfterProcess(c, p).outgoing_sequence = c.outgoing_sequence
           /\ AfterProcess(c, p).incoming_sequence = p.seq
           /\ AfterProcess(c, p).incoming_acknowledged = p.ack
           /\ AfterProcess(c, p).incoming_reliable_acknowledged = p.relack
           /\ AfterProcess(c, p).incoming_reliable_sequence =
                 IF p.rel THEN 1 - c.incoming_reliable_sequence
                 ELSE c.incoming_reliable_sequence
           /\ AfterProcess(c, p).last_reliable_sequence = c.last_reliable_sequence
           /\ AfterProcess(c, p).reliable_buf =
                 IF Acknowledges(c, p) THEN <<>> ELSE c.reliable_buf
           /\ AfterProcess(c, p).message = c.message
           /\ AfterProcess(c, p).reliable_sequence = c.reliable_sequence
<1> DEFINE r == IF Acknowledges(c, p) THEN <<>> ELSE c.reliable_buf
           i == IF p.rel THEN 1 - c.incoming_reliable_sequence
                ELSE c.incoming_reliable_sequence
<1>1. r \in Seq(Message) /\ i \in {0, 1}
  BY EmptySeq DEF Channel
<1>2. AfterProcess(c, p) = [c EXCEPT !.reliable_buf = r, !.incoming_sequence = p.seq,
                                     !.incoming_acknowledged = p.ack,
                                     !.incoming_reliable_acknowledged = p.relack,
                                     !.incoming_reliable_sequence = i]
  BY DEF AfterProcess
<1> HIDE DEF r, i
<1>3. /\ AfterProcess(c, p) \in Channel
      /\ AfterProcess(c, p).reliable_buf = r
      /\ AfterProcess(c, p).incoming_reliable_sequence = i
  BY <1>1, <1>2, ZenonT(60) DEF Channel, Packet
<1>4. /\ AfterProcess(c, p).outgoing_sequence = c.outgoing_sequence
      /\ AfterProcess(c, p).incoming_sequence = p.seq
      /\ AfterProcess(c, p).incoming_acknowledged = p.ack
      /\ AfterProcess(c, p).incoming_reliable_acknowledged = p.relack
      /\ AfterProcess(c, p).last_reliable_sequence = c.last_reliable_sequence
      /\ AfterProcess(c, p).message = c.message
      /\ AfterProcess(c, p).reliable_sequence = c.reliable_sequence
  BY <1>2 DEF Channel
<1> QED BY <1>3, <1>4 DEF r, i

-----------------------------------------------------------------------------
(* One direction of the connection, through everything that can happen to  *)
(* the writer a and to the reader b.                                       *)

\* A direction only depends on a few fields of the reader.
LEMMA SameReader ==
    ASSUME NEW a \in Channel, NEW b \in Channel, NEW c \in Channel,
           NEW toA \in SUBSET Packet, NEW toB \in SUBSET Packet,
           NEW w, NEW d, NEW k,
           Direction(a, b, toA, toB, w, d, k),
           c.incoming_sequence = b.incoming_sequence,
           c.incoming_reliable_sequence = b.incoming_reliable_sequence
    PROVE  Direction(a, c, toA, toB, w, d, k)
<1>1. Received(a, c) = Received(a, b)
  BY DEF Received
<1>2. InFlight(a, c) = InFlight(a, b)
  BY <1>1 DEF InFlight
<1>3. \A p \in Packet : Stale(c, p) = Stale(b, p)
  BY DEF Stale
<1>4. Fresh(c, toB) = Fresh(b, toB)
  BY <1>3 DEF Fresh
<1>5. Intact(a, c, w, d) /\ AckedCount(a, c, d, k)
  BY <1>1, <1>2 DEF Direction, Intact, AckedCount
<1>6. SequencesOrdered(a, c, toA, toB)
  BY DEF Direction, SequencesOrdered
<1>7. ReliablesFresh(a, c, toB)
  BY <1>1, <1>4 DEF Direction, ReliablesFresh
<1>8. AcksFresh(a, c, toA) /\ IdleSettled(a, c, toA)
  BY <1>1 DEF Direction, AcksFresh, IdleSettled
<1> QED BY <1>1, <1>5, <1>6, <1>7, <1>8 DEF Direction

\* ... and, but for the stream itself, only on the writer's protocol fields;
\* the writer may number its packets ahead.
LEMMA SameWriter ==
    ASSUME NEW a \in Channel, NEW b \in Channel, NEW c \in Channel,
           NEW toA \in SUBSET Packet, NEW toB \in SUBSET Packet,
           NEW w, NEW v, NEW d, NEW k,
           Direction(a, b, toA, toB, w, d, k),
           Intact(c, b, v, d),
           c.outgoing_sequence >= a.outgoing_sequence,
           c.incoming_sequence = a.incoming_sequence,
           c.incoming_acknowledged = a.incoming_acknowledged,
           c.last_reliable_sequence = a.last_reliable_sequence,
           c.incoming_reliable_acknowledged = a.incoming_reliable_acknowledged,
           c.reliable_sequence = a.reliable_sequence,
           c.reliable_buf = a.reliable_buf
    PROVE  Direction(c, b, toA, toB, v, d, k)
<1>1. Received(c, b) = Received(a, b) /\ ReliableLost(c) = ReliableLost(a)
  BY DEF Received, ReliableLost
<1>2. \A p \in Packet : Stale(c, p) = Stale(a, p) /\ Acknowledges(c, p) = Acknowledges(a, p)
  BY DEF Stale, Acknowledges
<1>3. Fresh(c, toA) = Fresh(a, toA) /\ Fresh(a, toA) \subseteq Packet
  BY <1>2 DEF Fresh
<1>4. AckedCount(c, b, d, k)
  BY <1>1 DEF Direction, AckedCount
<1>5. SequencesOrdered(c, b, toA, toB)
  <2>1. /\ \A p \in toB : p.seq \in Nat
        /\ a.outgoing_sequence \in Nat /\ c.outgoing_sequence \in Nat
        /\ a.last_reliable_sequence \in Nat /\ b.incoming_sequence \in Nat
    BY DEF Packet, Channel
  <2> QED BY <2>1 DEF Direction, SequencesOrdered
<1>6. ReliablesFresh(c, b, toB)
  BY <1>1 DEF Direction, ReliablesFresh
<1>7. AcksFresh(c, b, toA)
  BY <1>1, <1>2, <1>3 DEF Direction, AcksFresh
<1>8. IdleSettled(c, b, toA)
  BY <1>1, <1>2, <1>3 DEF Direction, IdleSettled
<1> QED BY <1>1, <1>4, <1>5, <1>6, <1>7, <1>8 DEF Direction

\* The reader answers: its packet tells the writer the truth, and every
\* older packet under way tells it no more than that.
LEMMA ReaderTransmits ==
    ASSUME NEW a \in Channel, NEW b \in Channel, NEW final \in BOOLEAN,
           NEW toA \in SUBSET Packet, NEW toB \in SUBSET Packet,
           NEW w, NEW d, NEW k,
           Direction(a, b, toA, toB, w, d, k),
           \A p \in toA : p.seq < b.outgoing_sequence
    PROVE  Direction(a, AfterTransmit(b), toA \cup {PacketFrom(b, final)}, toB, w, d, k)
<1> DEFINE q == PacketFrom(b, final)
           to == toA \cup {q}
<1>1. /\ q \in Packet
      /\ q.seq = b.outgoing_sequence
      /\ q.ack = b.incoming_sequence
      /\ q.relack = b.incoming_reliable_sequence
  BY PacketFields
<1> HIDE DEF q
<1>2. Acknowledges(a, q) <=> Received(a, b)
  BY <1>1 DEF Acknowledges, Received
<1>3. Fresh(a, to) \subseteq Fresh(a, toA) \cup {q}
  BY DEF Fresh
<1>4. SequencesOrdered(a, b, to, toB)
  BY <1>1, SMTT(40) DEF Direction, SequencesOrdered, Channel
<1>5. AcksFresh(a, b, to)
  <2>1. ASSUME NEW p \in Fresh(a, to)
        PROVE  IF Acknowledges(a, p) THEN Received(a, b)
               ELSE p.ack > a.last_reliable_sequence => ~Received(a, b)
    BY <1>2, <1>3 DEF Direction, AcksFresh
  <2>2. ASSUME NEW p \in Fresh(a, to), NEW r \in Fresh(a, to),
               p.seq < r.seq, Acknowledges(a, p)
        PROVE  Acknowledges(a, r)
    <3>1. CASE r = q
      BY <1>2, <2>1, <2>2, <3>1
    <3>2. CASE r # q
      <4>1. r \in toA /\ r.seq < b.outgoing_sequence
        BY <3>2 DEF Fresh
      <4>2. r \in Packet /\ p \in Packet
        BY <1>1, <4>1 DEF Fresh
      <4>3. p # q
        BY <1>1, <2>2, <4>1, <4>2, SMTT(40) DEF Channel, Packet
      <4> QED BY <1>3, <2>2, <3>2, <4>3 DEF Direction, AcksFresh
    <3> QED BY <3>1, <3>2
  <2> QED BY <2>1, <2>2 DEF AcksFresh
<1>6. IdleSettled(a, b, to)
  BY <1>2, <1>3 DEF Direction, IdleSettled
<1>7. Direction(a, b, to, toB, w, d, k)
  BY <1>4, <1>5, <1>6 DEF Direction
<1>8. to \in SUBSET Packet
  BY <1>1
<1> HIDE DEF to
<1>9. Direction(a, AfterTransmit(b), to, toB, w, d, k)
  BY <1>7, <1>8, TransmitFields, SameReader
<1> QED BY <1>9 DEF to, q

\* The writer sends: a packet carries the reliable in flight only if the
\* reader lacks it, and a new reliable leaves no packet or acknowledgement
\* under way that could be mistaken for its own.
LEMMA WriterTransmits ==
    ASSUME NEW a \in Channel, NEW b \in Channel, NEW final \in BOOLEAN,
           NEW toA \in SUBSET Packet, NEW toB \in SUBSET Packet,
           NEW w, NEW d \in Seq(Message), NEW k \in Nat,
           Direction(a, b, toA, toB, w, d, k)
    PROVE  Direction(AfterTransmit(a), b, toA, toB \cup {PacketFrom(a, final)}, w, d, k)
<1> DEFINE c == AfterTransmit(a)
           q == PacketFrom(a, final)
           to == toB \cup {q}
<1>1. /\ c \in Channel
      /\ c.outgoing_sequence = a.outgoing_sequence + 1
      /\ c.incoming_sequence = a.incoming_sequence
      /\ c.incoming_acknowledged = a.incoming_acknowledged
      /\ c.incoming_reliable_acknowledged = a.incoming_reliable_acknowledged
      /\ c.last_reliable_sequence = IF SendReliable(a) THEN a.outgoing_sequence + 1
                                    ELSE a.last_reliable_sequence
      /\ c.reliable_buf = Load(a).reliable_buf
      /\ c.message = Load(a).message
      /\ c.reliable_sequence = Load(a).reliable_sequence
  BY TransmitFields
<1>2. /\ q \in Packet
      /\ q.seq = a.outgoing_sequence
      /\ q.rel = SendReliable(a)
      /\ SendReliable(a) => q.data = c.reliable_buf
      /\ ~SendReliable(a) => q.data = <<>>
  BY PacketFields, TransmitFields
<1>3. /\ CanLoad(a) => /\ Load(a).reliable_buf = a.message
                       /\ Load(a).message = <<>>
                       /\ Load(a).reliable_sequence = 1 - a.reliable_sequence
      /\ ~CanLoad(a) => Load(a) = a
  BY LoadFields
<1> SUFFICES Direction(c, b, toA, to, w, d, k)
  OBVIOUS
<1> HIDE DEF c, q
<1>4. Fresh(c, toA) = Fresh(a, toA) /\ Fresh(a, toA) \subseteq toA
  BY <1>1 DEF Fresh, Stale
<1>5. SequencesOrdered(c, b, toA, to)
  <2>1. \A p \in to : p.seq < c.outgoing_sequence
    <3>1. a.outgoing_sequence \in Nat /\ \A p \in toB : p.seq \in Nat
      BY DEF Channel, Packet
    <3>2. \A p \in toB : p.seq < a.outgoing_sequence
      BY DEF Direction, SequencesOrdered
    <3> QED BY <1>1, <1>2, <3>1, <3>2
  <2> QED BY <1>1, <2>1, SMTT(40) DEF Direction, SequencesOrdered, Channel
<1>6. \A p \in toA : ~(p.ack > a.outgoing_sequence + 1)
  BY SMTT(40) DEF Direction, SequencesOrdered, Channel, Packet
<1>7. ~(a.incoming_acknowledged > a.outgoing_sequence + 1)
  BY SMTT(40) DEF Direction, SequencesOrdered, Channel
<1>8. CASE CanLoad(a)
  <2>1. SendReliable(a)
    BY <1>8 DEF SendReliable
  <2>2. /\ c.reliable_buf = a.message /\ c.message = <<>>
        /\ c.reliable_sequence = 1 - a.reliable_sequence
        /\ c.last_reliable_sequence = a.outgoing_sequence + 1
    BY <1>1, <1>3, <1>8, <2>1
  <2>3. a.reliable_buf = <<>> /\ a.message # <<>>
    BY <1>8 DEF CanLoad
  <2>4. Received(a, b) /\ \A p \in Fresh(a, toA) : Acknowledges(a, p)
    BY <2>3 DEF Direction, IdleSettled
  <2>5. ~Received(c, b) /\ \A p \in Fresh(a, toA) : ~Acknowledges(c, p)
    BY <2>2, <2>4, SMTT(40) DEF Received, Acknowledges, Channel
  <2>6. Intact(c, b, w, d)
    <3>1. w = d \o <<>> \o a.message
      BY <2>4 DEF Direction, Intact, InFlight
    <3>2. a.message \in Seq(Message)
      BY DEF Channel
    <3>3. w = d \o a.message \o <<>>
      BY <3>1, <3>2, ConcatEmptySeq, ConcatProperties
    <3> QED BY <2>2, <2>5, <3>3 DEF Intact, InFlight
  <2>7. ReliablesFresh(c, b, to)
    <3>1. ASSUME NEW p \in Fresh(b, to), p.rel
          PROVE  p.data = c.reliable_buf /\ p.seq + 1 = c.last_reliable_sequence
      <4>1. CASE p = q
        BY <1>2, <2>1, <2>2, <4>1
      <4>2. CASE p # q
        BY <2>4, <3>1, <4>2 DEF Direction, ReliablesFresh, Fresh
      <4> QED BY <4>1, <4>2
    <3>2. \A p \in to : ~p.rel => p.data = <<>>
      BY <1>2, <2>1 DEF Direction, ReliablesFresh
    <3> QED BY <2>5, <3>1, <3>2 DEF ReliablesFresh
  <2>8. AcksFresh(c, b, toA)
    BY <1>4, <1>6, <2>2, <2>5 DEF AcksFresh
  <2>9. IdleSettled(c, b, toA)
    BY <2>2, <2>3 DEF IdleSettled
  <2>10. ~ReliableLost(c)
    BY <1>1, <1>7, <2>2 DEF ReliableLost
  <2>11. AckedCount(c, b, d, k)
    <3>1. Len(d) = k + Len(<<>>)
      BY <2>3, <2>4 DEF Direction, AckedCount
    <3> QED BY <2>5, <3>1, EmptySeq DEF AckedCount
  <2> QED BY <1>5, <2>6, <2>7, <2>8, <2>9, <2>10, <2>11 DEF Direction
<1>9. CASE ~CanLoad(a)
  <2>1. /\ c.reliable_buf = a.reliable_buf /\ c.message = a.message
        /\ c.reliable_sequence = a.reliable_sequence
    BY <1>1, <1>3, <1>9
  <2>2. Received(c, b) = Received(a, b)
    BY <2>1 DEF Received
  <2>3. \A p \in toA : Acknowledges(c, p) = Acknowledges(a, p)
    BY <2>1 DEF Acknowledges
  <2>4. Intact(c, b, w, d) /\ AckedCount(c, b, d, k)
    BY <2>1, <2>2 DEF Direction, Intact, InFlight, AckedCount
  <2>5. IdleSettled(c, b, toA)
    BY <1>1, <1>4, <2>1, <2>2, <2>3 DEF Direction, IdleSettled
  <2>6. CASE ReliableLost(a)
    <3>1. SendReliable(a) /\ c.last_reliable_sequence = a.outgoing_sequence + 1
      BY <1>1, <2>6 DEF SendReliable
    <3>2. ~Received(a, b)
      BY <2>6 DEF Direction
    <3>3. ReliablesFresh(c, b, to)
      <4>1. ASSUME NEW p \in Fresh(b, to), p.rel
            PROVE  p.data = c.reliable_buf /\ p.seq + 1 = c.last_reliable_sequence
        <5>1. CASE p = q
          BY <1>2, <3>1, <5>1
        <5>2. CASE p # q
          <6>1. p \in Fresh(b, toB) /\ p \in Packet
            BY <5>2 DEF Fresh
          <6>2. p.seq + 1 = a.last_reliable_sequence
            BY <4>1, <6>1 DEF Direction, ReliablesFresh
          <6>3. p.seq > b.incoming_sequence
            BY <6>1, SMTT(40) DEF Fresh, Stale, Packet, Channel
          <6>4. a.last_reliable_sequence < b.incoming_sequence
            BY <2>6, SMTT(40) DEF Direction, SequencesOrdered, ReliableLost, Channel
          <6> QED BY <6>1, <6>2, <6>3, <6>4, SMTT(40) DEF Packet, Channel
        <5> QED BY <5>1, <5>2
      <4>2. \A p \in to : ~p.rel => p.data = <<>>
        BY <1>2, <3>1 DEF Direction, ReliablesFresh
      <4> QED BY <2>2, <3>2, <4>1, <4>2 DEF ReliablesFresh
    <3>4. AcksFresh(c, b, toA)
      BY <1>4, <1>6, <2>2, <2>3, <3>1 DEF Direction, AcksFresh
    <3>5. ~ReliableLost(c)
      BY <1>1, <1>7, <3>1 DEF ReliableLost
    <3> QED BY <1>5, <2>4, <2>5, <3>3, <3>4, <3>5 DEF Direction
  <2>7. CASE ~ReliableLost(a)
    <3>1. ~SendReliable(a) /\ c.last_reliable_sequence = a.last_reliable_sequence
      BY <1>1, <1>9, <2>7 DEF SendReliable
    <3>2. ReliablesFresh(c, b, to)
      BY <1>2, <2>1, <2>2, <3>1 DEF Direction, ReliablesFresh, Fresh
    <3>3. AcksFresh(c, b, toA)
      BY <1>4, <2>2, <2>3, <3>1 DEF Direction, AcksFresh
    <3>4. ~ReliableLost(c)
      BY <1>1, <2>1, <2>7, <3>1 DEF ReliableLost
    <3> QED BY <1>5, <2>4, <2>5, <3>2, <3>3, <3>4 DEF Direction
  <2> QED BY <2>6, <2>7
<1> QED BY <1>8, <1>9

\* A packet reaches the writer: if it acknowledges the current parity, the
\* reliable in flight was delivered, and so say all packets still to come.
LEMMA WriterReceives ==
    ASSUME NEW a \in Channel, NEW b \in Channel,
           NEW toA \in SUBSET Packet, NEW toB \in SUBSET Packet,
           NEW w, NEW d, NEW k \in Nat,
           Direction(a, b, toA, toB, w, d, k),
           NEW p \in Fresh(a, toA)
    PROVE  Direction(AfterProcess(a, p), b, toA, toB, w, d,
                     IF Acknowledges(a, p) THEN k + Len(a.reliable_buf) ELSE k)
<1> DEFINE c == AfterProcess(a, p)
           n == IF Acknowledges(a, p) THEN k + Len(a.reliable_buf) ELSE k
<1> SUFFICES Direction(c, b, toA, toB, w, d, n)
  OBVIOUS
<1>1. p \in Packet /\ p \in toA
  BY DEF Fresh
<1>2. /\ c \in Channel
      /\ c.outgoing_sequence = a.outgoing_sequence
      /\ c.incoming_sequence = p.seq
      /\ c.incoming_acknowledged = p.ack
      /\ c.incoming_reliable_acknowledged = p.relack
      /\ c.last_reliable_sequence = a.last_reliable_sequence
      /\ c.reliable_buf = IF Acknowledges(a, p) THEN <<>> ELSE a.reliable_buf
      /\ c.message = a.message
      /\ c.reliable_sequence = a.reliable_sequence
  BY <1>1, ProcessFields
<1> HIDE DEF c
<1>3. Received(c, b) = Received(a, b)
  BY <1>2 DEF Received
<1>4. \A r \in toA : Acknowledges(c, r) = Acknowledges(a, r)
  BY <1>2 DEF Acknowledges
<1>5. \A r \in Fresh(c, toA) : r \in Fresh(a, toA) /\ p.seq < r.seq
  <2>1. p.seq \in Nat /\ a.incoming_sequence \in Nat
    BY <1>1 DEF Packet, Channel
  <2>2. a.incoming_sequence < p.seq
    BY <2>1 DEF Fresh, Stale
  <2>3. SUFFICES ASSUME NEW r \in Fresh(c, toA)
                 PROVE  r \in Fresh(a, toA) /\ p.seq < r.seq
    OBVIOUS
  <2>4. r \in toA /\ ~(r.seq <= p.seq)
    BY <1>2, <2>3 DEF Fresh, Stale
  <2>5. r.seq \in Nat
    BY <2>4 DEF Packet
  <2>6. p.seq < r.seq /\ ~(r.seq <= a.incoming_sequence)
    BY <2>1, <2>2, <2>4, <2>5
  <2> QED BY <2>4, <2>6 DEF Fresh, Stale
<1>6. SequencesOrdered(c, b, toA, toB)
  BY <1>1, <1>2 DEF Direction, SequencesOrdered
<1>7. AcksFresh(c, b, toA)
  BY <1>2, <1>3, <1>4, <1>5 DEF Direction, AcksFresh, Fresh
<1>8. CASE Acknowledges(a, p)
  <2>1. c.reliable_buf = <<>> /\ n = k + Len(a.reliable_buf) /\ Received(a, b)
    BY <1>2, <1>8 DEF Direction, AcksFresh
  <2>2. Intact(c, b, w, d)
    BY <1>2, <1>3, <2>1 DEF Direction, Intact, InFlight
  <2>3. ReliablesFresh(c, b, toB)
    BY <1>3, <2>1 DEF Direction, ReliablesFresh
  <2>4. \A r \in Fresh(c, toA) : Acknowledges(c, r)
    BY <1>4, <1>5, <1>8 DEF Direction, AcksFresh, Fresh
  <2>5. c.incoming_reliable_acknowledged = c.reliable_sequence
    BY <1>2, <1>8 DEF Acknowledges
  <2>6. IdleSettled(c, b, toA) /\ ~ReliableLost(c)
    BY <1>3, <2>1, <2>4, <2>5 DEF IdleSettled, ReliableLost
  <2>7. AckedCount(c, b, d, n)
    <3>1. Len(d) = n + Len(<<>>)
      <4>1. Len(a.reliable_buf) \in Nat
        BY LenProperties DEF Channel
      <4> QED BY <2>1, <4>1, EmptySeq DEF Direction, AckedCount
    <3> QED BY <1>3, <2>1, <3>1 DEF AckedCount
  <2> QED BY <1>6, <1>7, <2>2, <2>3, <2>6, <2>7 DEF Direction
<1>9. CASE ~Acknowledges(a, p)
  <2>1. c.reliable_buf = a.reliable_buf /\ n = k
    BY <1>2, <1>9
  <2>2. Intact(c, b, w, d) /\ AckedCount(c, b, d, n)
    BY <1>2, <1>3, <2>1 DEF Direction, Intact, InFlight, AckedCount
  <2>3. ReliablesFresh(c, b, toB)
    BY <1>2, <1>3, <2>1 DEF Direction, ReliablesFresh
  <2>4. IdleSettled(c, b, toA)
    BY <1>9, <2>1 DEF Direction, IdleSettled
  <2>5. ReliableLost(c) => ~Received(c, b)
    BY <1>2, <1>3, <1>9 DEF Direction, AcksFresh, ReliableLost
  <2> QED BY <1>6, <1>7, <2>2, <2>3, <2>4, <2>5 DEF Direction
<1> QED BY <1>8, <1>9

\* A packet reaches the reader: if it carries a reliable, it is the one in
\* flight, delivered for the first time.
LEMMA ReaderReceives ==
    ASSUME NEW a \in Channel, NEW b \in Channel,
           NEW toA \in SUBSET Packet, NEW toB \in SUBSET Packet,
           NEW w, NEW d \in Seq(Message), NEW k \in Nat,
           Direction(a, b, toA, toB, w, d, k),
           NEW p \in Fresh(b, toB)
    PROVE  Direction(a, AfterProcess(b, p), toA, toB, w, d \o p.data, k)
<1> DEFINE c == AfterProcess(b, p)
           f == d \o p.data
<1> SUFFICES Direction(a, c, toA, toB, w, f, k)
  OBVIOUS
<1>1. p \in Packet /\ p \in toB /\ p.seq > b.incoming_sequence
  BY SMTT(40) DEF Fresh, Stale, Packet, Channel
<1>2. /\ c \in Channel
      /\ c.incoming_sequence = p.seq
      /\ c.incoming_reliable_sequence = IF p.rel THEN 1 - b.incoming_reliable_sequence
                                        ELSE b.incoming_reliable_sequence
  BY <1>1, ProcessFields
<1> HIDE DEF c
<1>3. /\ p.seq \in Nat /\ b.incoming_sequence \in Nat
      /\ a.outgoing_sequence \in Nat /\ a.last_reliable_sequence \in Nat
      /\ a.incoming_acknowledged \in Nat
      /\ \A r \in toA : r.ack \in Nat
      /\ \A r \in toB : r.seq \in Nat
  BY <1>1 DEF Packet, Channel
<1>4. \A r \in Fresh(c, toB) : r \in Fresh(b, toB) /\ p.seq < r.seq
  BY <1>1, <1>2, <1>3 DEF Fresh, Stale
<1>5. SequencesOrdered(a, c, toA, toB)
  <2>1. p.seq < a.outgoing_sequence
    BY <1>1 DEF Direction, SequencesOrdered
  <2> QED BY <1>1, <1>2, <1>3, <2>1 DEF Direction, SequencesOrdered
<1>6. CASE p.rel
  <2>1. /\ ~Received(a, b) /\ p.data = a.reliable_buf
        /\ p.seq + 1 = a.last_reliable_sequence
    BY <1>6 DEF Direction, ReliablesFresh
  <2>2. Received(a, c)
    <3>1. a.reliable_sequence \in {0, 1} /\ b.incoming_reliable_sequence \in {0, 1}
      BY DEF Channel
    <3>2. c.incoming_reliable_sequence = 1 - b.incoming_reliable_sequence
      BY <1>2, <1>6
    <3>3. b.incoming_reliable_sequence # a.reliable_sequence
      BY <2>1 DEF Received
    <3> QED BY <3>1, <3>2, <3>3 DEF Received
  <2>3. /\ a.reliable_buf \in Seq(Message) /\ a.message \in Seq(Message)
        /\ f \in Seq(Message) /\ Len(f) = Len(d) + Len(a.reliable_buf)
    BY <2>1, ConcatProperties DEF Channel
  <2>4. Intact(a, c, w, f)
    <3>1. w = f \o a.message
      BY <2>1 DEF Direction, Intact, InFlight
    <3>2. f \o <<>> = f
      BY <2>3, ConcatEmptySeq
    <3> QED BY <2>2, <3>1, <3>2 DEF Intact, InFlight
  <2>5. ReliablesFresh(a, c, toB)
    <3>1. \A r \in Fresh(c, toB) : ~r.rel
      <4>1. ASSUME NEW r \in Fresh(c, toB), r.rel
            PROVE  FALSE
        <5>1. r.seq + 1 = a.last_reliable_sequence /\ p.seq < r.seq /\ r \in toB
          BY <1>4, <4>1 DEF Direction, ReliablesFresh, Fresh
        <5> QED BY <1>3, <2>1, <5>1
      <4> QED BY <4>1
    <3> QED BY <3>1 DEF Direction, ReliablesFresh
  <2>6. AcksFresh(a, c, toA)
    <3>1. \A r \in toA : ~(r.ack > a.last_reliable_sequence)
      BY <1>1, <1>3, <2>1 DEF Direction, SequencesOrdered
    <3> QED BY <2>2, <3>1 DEF Direction, AcksFresh, Fresh
  <2>7. IdleSettled(a, c, toA)
    BY <2>2 DEF Direction, IdleSettled
  <2>8. ~ReliableLost(a)
    BY <1>1, <1>3, <2>1 DEF Direction, SequencesOrdered, ReliableLost
  <2>9. AckedCount(a, c, f, k)
    <3>1. Len(d) = k + 0
      BY <2>1 DEF Direction, AckedCount
    <3>2. Len(a.reliable_buf) \in Nat /\ Len(d) \in Nat
      BY <2>3, LenProperties
    <3> QED BY <2>2, <2>3, <3>1, <3>2 DEF AckedCount
  <2> QED BY <1>5, <2>4, <2>5, <2>6, <2>7, <2>8, <2>9 DEF Direction
<1>7. CASE ~p.rel
  <2>1. Received(a, c) = Received(a, b)
    BY <1>2, <1>7 DEF Received
  <2>2. f = d
    <3>1. p.data = <<>>
      BY <1>1, <1>7 DEF Direction, ReliablesFresh
    <3> QED BY <3>1, ConcatEmptySeq
  <2>3. Intact(a, c, w, f) /\ AckedCount(a, c, f, k)
    BY <2>1, <2>2 DEF Direction, Intact, InFlight, AckedCount
  <2>4. ReliablesFresh(a, c, toB)
    BY <1>4, <2>1 DEF Direction, ReliablesFresh
  <2>5. AcksFresh(a, c, toA) /\ IdleSettled(a, c, toA)
    BY <2>1 DEF Direction, AcksFresh, IdleSettled
  <2> QED BY <1>5, <2>1, <2>3, <2>4, <2>5 DEF Direction
<1> QED BY <1>6, <1>7

-----------------------------------------------------------------------------
(* The steps of the system. *)

\* The connection has two ends.
LEMMA TwoEnds ==
    \A e \in End : Peer[e] \in End /\ Peer[e] # e /\ Peer[Peer[e]] = e
BY DEF End, Peer

\* Stream bookkeeping when the waiting messages are thrown away.
LEMMA WithdrawKeepsStream ==
    ASSUME NEW a \in Channel, NEW b \in Channel,
           NEW w \in Seq(Message), NEW d \in Seq(Message),
           Intact(a, b, w, d)
    PROVE  LET kept == SubSeq(w, 1, Len(w) - Len(a.message))
           IN  /\ kept \in Seq(Message)
               /\ Len(kept) = Len(w) - Len(a.message)
               /\ kept = d \o InFlight(a, b)
               /\ kept = d \o InFlight(a, b) \o <<>>
<1> DEFINE i == InFlight(a, b)
           u == a.message
           kept == SubSeq(w, 1, Len(w) - Len(u))
<1>1. i \in Seq(Message) /\ u \in Seq(Message)
  BY EmptySeq DEF InFlight, Channel
<1>2. w = d \o i \o u
  BY DEF Intact
<1> HIDE DEF i, u
<1>3. d \o i \in Seq(Message)
  BY <1>1, ConcatProperties
<1>4. kept = d \o i /\ Len(kept) = Len(w) - Len(u)
  <2>1. /\ SubSeq(d \o i \o u, 1, Len(d \o i \o u) - Len(u)) = d \o i
        /\ Len(d \o i \o u) - Len(u) = Len(d \o i)
    BY <1>1, <1>3, WithoutLast
  <2> QED BY <1>2, <2>1
<1>5. kept = d \o i \o <<>>
  BY <1>3, <1>4, ConcatEmptySeq
<1> QED BY <1>3, <1>4, <1>5 DEF i, u

\* Stream bookkeeping of a write, with and without what waited before it.
LEMMA WriteKeepsStream ==
    ASSUME NEW a \in Channel, NEW b \in Channel,
           NEW w \in Seq(Message), NEW d \in Seq(Message), NEW m \in Message,
           Intact(a, b, w, d)
    PROVE  /\ Append(w, m) = d \o InFlight(a, b) \o Append(a.message, m)
           /\ Append(SubSeq(w, 1, Len(w) - Len(a.message)), m)
                 = d \o InFlight(a, b) \o <<m>>
<1> DEFINE i == InFlight(a, b)
           u == a.message
           kept == SubSeq(w, 1, Len(w) - Len(u))
<1>1. i \in Seq(Message) /\ u \in Seq(Message)
  BY EmptySeq DEF InFlight, Channel
<1>2. w = d \o i \o u
  BY DEF Intact
<1>3. kept = d \o i
  BY WithdrawKeepsStream, ZenonT(60)
<1> HIDE DEF i, u, kept
<1>4. d \o i \in Seq(Message) /\ <<m>> \in Seq(Message)
  BY <1>1, ConcatProperties
<1>5. Append(w, m) = d \o i \o Append(u, m)
  <2>1. Append(d \o i \o u, m) = (d \o i \o u) \o <<m>>
    BY <1>1, <1>4, ConcatProperties, AppendIsConcat
  <2>2. Append(u, m) = u \o <<m>>
    BY <1>1, AppendIsConcat
  <2>3. (d \o i \o u) \o <<m>> = (d \o i) \o (u \o <<m>>)
    BY <1>1, <1>4, ConcatAssociative, SMTT(40)
  <2> QED BY <1>2, <2>1, <2>2, <2>3
<1>6. Append(kept, m) = d \o i \o <<m>>
  BY <1>3, <1>4, AppendIsConcat
<1> QED BY <1>5, <1>6 DEF i, u, kept

-----------------------------------------------------------------------------
(* Both directions at once.  Sound says of the two channels, the wire and   *)
(* the histories what IInv says of the variables, so that a step that sends *)
(* twice or three times is followed one packet at a time.                   *)
Ends == [chan: [End -> Channel], net: [End -> SUBSET Packet]]

Sound(l, w, d, k) ==
    /\ l \in Ends
    /\ w \in [End -> Seq(Message)] /\ d \in [End -> Seq(Message)]
    /\ k \in [End -> Nat]
    /\ \A e \in End : Direction(l.chan[e], l.chan[Peer[e]], l.net[e], l.net[Peer[e]],
                                w[e], d[Peer[e]], k[e])

\* What Sound says of one end and its peer.
LEMMA SoundEnds ==
    ASSUME NEW l, NEW w, NEW d, NEW k, Sound(l, w, d, k), NEW e \in End
    PROVE  /\ l.chan[e] \in Channel /\ l.chan[Peer[e]] \in Channel
           /\ l.net[e] \in SUBSET Packet /\ l.net[Peer[e]] \in SUBSET Packet
           /\ w[e] \in Seq(Message) /\ d[e] \in Seq(Message)
           /\ d[Peer[e]] \in Seq(Message) /\ k[e] \in Nat
           /\ Direction(l.chan[e], l.chan[Peer[e]], l.net[e], l.net[Peer[e]],
                        w[e], d[Peer[e]], k[e])
           /\ Peer[e] \in End /\ Peer[e] # e
<1>1. Peer[e] \in End /\ Peer[e] # e
  BY TwoEnds
<1> QED BY <1>1 DEF Sound, Ends

\* Whether end x changes only what its peer cannot see.
LEMMA LocalKeeps ==
    ASSUME NEW l, NEW w, NEW d, NEW k, Sound(l, w, d, k),
           NEW x \in End, NEW c \in Channel, NEW v \in Seq(Message),
           Intact(c, l.chan[Peer[x]], v, d[Peer[x]]),
           c.outgoing_sequence >= l.chan[x].outgoing_sequence,
           c.incoming_sequence = l.chan[x].incoming_sequence,
           c.incoming_acknowledged = l.chan[x].incoming_acknowledged,
           c.last_reliable_sequence = l.chan[x].last_reliable_sequence,
           c.incoming_reliable_acknowledged = l.chan[x].incoming_reliable_acknowledged,
           c.incoming_reliable_sequence = l.chan[x].incoming_reliable_sequence,
           c.reliable_sequence = l.chan[x].reliable_sequence,
           c.reliable_buf = l.chan[x].reliable_buf
    PROVE  Sound([chan |-> [l.chan EXCEPT ![x] = c], net |-> l.net],
                 [w EXCEPT ![x] = v], d, k)
<1> DEFINE ch == [l.chan EXCEPT ![x] = c]
           wr == [w EXCEPT ![x] = v]
<1>1. /\ l.chan \in [End -> Channel] /\ l.net \in [End -> SUBSET Packet]
      /\ w \in [End -> Seq(Message)] /\ d \in [End -> Seq(Message)] /\ k \in [End -> Nat]
  BY DEF Sound, Ends
<1>2. /\ ch \in [End -> Channel] /\ ch[x] = c /\ wr \in [End -> Seq(Message)] /\ wr[x] = v
      /\ \A e \in End : e # x => ch[e] = l.chan[e] /\ wr[e] = w[e]
  BY <1>1
<1> HIDE DEF ch, wr
<1>3. ASSUME NEW e \in End
      PROVE  Direction(ch[e], ch[Peer[e]], l.net[e], l.net[Peer[e]], wr[e], d[Peer[e]], k[e])
  <2>1. /\ l.chan[e] \in Channel /\ l.chan[Peer[e]] \in Channel
        /\ l.net[e] \in SUBSET Packet /\ l.net[Peer[e]] \in SUBSET Packet
        /\ Direction(l.chan[e], l.chan[Peer[e]], l.net[e], l.net[Peer[e]],
                     w[e], d[Peer[e]], k[e])
        /\ Peer[e] \in End /\ Peer[e] # e
    BY SoundEnds
  <2>2. CASE e = x
    <3>1. ch[e] = c /\ ch[Peer[e]] = l.chan[Peer[e]] /\ wr[e] = v
      BY <1>2, <2>1, <2>2
    <3> QED BY <2>1, <2>2, <3>1, SameWriter
  <2>3. CASE e # x
    <3>1. Peer[e] = x
      BY <2>3 DEF End, Peer
    <3>2. ch[e] = l.chan[e] /\ ch[Peer[e]] = c /\ wr[e] = w[e]
      BY <1>2, <2>3, <3>1
    <3> QED BY <2>1, <3>1, <3>2, SameReader
  <2> QED BY <2>2, <2>3
<1>4. [chan |-> ch, net |-> l.net] \in Ends
  BY <1>1, <1>2 DEF Ends
<1>5. Sound([chan |-> ch, net |-> l.net], wr, d, k)
  BY <1>1, <1>2, <1>3, <1>4 DEF Sound
<1> QED BY <1>5 DEF ch, wr

\* End x calls Netchan_Transmit.
LEMMA SentKeeps ==
    ASSUME NEW l, NEW w, NEW d, NEW k, Sound(l, w, d, k),
           NEW x \in End, NEW final \in BOOLEAN
    PROVE  Sound(Sent(l, x, final), w, d, k)
<1>1. CASE l.chan[x].overflowed
  BY <1>1 DEF Sent
<1>2. CASE ~l.chan[x].overflowed
  <2> DEFINE ch == [l.chan EXCEPT ![x] = AfterTransmit(l.chan[x])]
             q == PacketFrom(l.chan[x], final)
             nt == [l.net EXCEPT ![Peer[x]] = l.net[Peer[x]] \cup {q}]
  <2>1. /\ l.chan \in [End -> Channel] /\ l.net \in [End -> SUBSET Packet]
        /\ w \in [End -> Seq(Message)] /\ d \in [End -> Seq(Message)] /\ k \in [End -> Nat]
    BY DEF Sound, Ends
  <2>2. AfterTransmit(l.chan[x]) \in Channel /\ q \in Packet
    BY <2>1, TransmitFields, PacketFields
  <2>3. /\ ch \in [End -> Channel] /\ ch[x] = AfterTransmit(l.chan[x])
        /\ \A e \in End : e # x => ch[e] = l.chan[e]
    BY <2>1, <2>2
  <2>4. /\ nt \in [End -> SUBSET Packet] /\ nt[Peer[x]] = l.net[Peer[x]] \cup {q}
        /\ nt[x] = l.net[x]
    BY <2>1, <2>2, TwoEnds
  <2>5. Sent(l, x, final) = [chan |-> ch, net |-> nt]
    BY <1>2 DEF Sent
  <2> HIDE DEF ch, nt
  <2>6. ASSUME NEW e \in End
        PROVE  Direction(ch[e], ch[Peer[e]], nt[e], nt[Peer[e]], w[e], d[Peer[e]], k[e])
    <3>1. /\ l.chan[e] \in Channel /\ l.chan[Peer[e]] \in Channel
          /\ l.net[e] \in SUBSET Packet /\ l.net[Peer[e]] \in SUBSET Packet
          /\ d[Peer[e]] \in Seq(Message) /\ k[e] \in Nat
          /\ Direction(l.chan[e], l.chan[Peer[e]], l.net[e], l.net[Peer[e]],
                       w[e], d[Peer[e]], k[e])
          /\ Peer[e] \in End /\ Peer[e] # e
      BY SoundEnds
    <3>2. CASE e = x
      <4>1. /\ ch[e] = AfterTransmit(l.chan[e]) /\ ch[Peer[e]] = l.chan[Peer[e]]
            /\ nt[e] = l.net[e]
            /\ nt[Peer[e]] = l.net[Peer[e]] \cup {PacketFrom(l.chan[e], final)}
        BY <2>3, <2>4, <3>1, <3>2
      <4> QED BY <3>1, <4>1, WriterTransmits
    <3>3. CASE e # x
      <4>1. Peer[e] = x /\ Peer[x] = e
        BY <3>3 DEF End, Peer
      <4>2. /\ ch[e] = l.chan[e] /\ ch[Peer[e]] = AfterTransmit(l.chan[Peer[e]])
            /\ nt[e] = l.net[e] \cup {PacketFrom(l.chan[Peer[e]], final)}
            /\ nt[Peer[e]] = l.net[Peer[e]]
        BY <2>3, <2>4, <3>3, <4>1
      <4>3. \A p \in l.net[e] : p.seq < l.chan[Peer[e]].outgoing_sequence
        <5>1. Direction(l.chan[x], l.chan[Peer[x]], l.net[x], l.net[Peer[x]],
                        w[x], d[Peer[x]], k[x])
          BY SoundEnds
        <5> QED BY <4>1, <5>1 DEF Direction, SequencesOrdered
      <4> QED BY <3>1, <4>2, <4>3, ReaderTransmits
    <3> QED BY <3>2, <3>3
  <2>7. [chan |-> ch, net |-> nt] \in Ends
    BY <2>3, <2>4 DEF Ends
  <2> QED BY <2>1, <2>5, <2>6, <2>7 DEF Sound
<1> QED BY <1>1, <1>2

\* SV_DropClient and CL_Disconnect call it twice and three times.
LEMMA FinalsKeep ==
    ASSUME NEW l, NEW w, NEW d, NEW k, Sound(l, w, d, k)
    PROVE  Sound(ServerFinal(l), w, d, k) /\ Sound(ClientFinal(l), w, d, k)
<1>1. "client" \in End /\ "server" \in End /\ TRUE \in BOOLEAN
  BY DEF End
<1>2. \A e \in End : Sound(Sent(l, e, TRUE), w, d, k)
  BY <1>1, SentKeeps
<1>3. \A e \in End : Sound(Sent(Sent(l, e, TRUE), e, TRUE), w, d, k)
  BY <1>1, <1>2, SentKeeps
<1>4. \A e \in End : Sound(Sent(Sent(Sent(l, e, TRUE), e, TRUE), e, TRUE), w, d, k)
  BY <1>1, <1>3, SentKeeps
<1> QED BY <1>1, <1>3, <1>4 DEF ServerFinal, ClientFinal

\* End x accepts a packet and may move its numbering up.
LEMMA ReceiveKeeps ==
    ASSUME NEW l, NEW w, NEW d, NEW k, Sound(l, w, d, k),
           NEW x \in End, NEW p \in l.net[x], ~Stale(l.chan[x], p),
           NEW n \in Nat, n >= l.chan[x].outgoing_sequence
    PROVE  Sound([chan |-> [l.chan EXCEPT ![x] = [AfterProcess(l.chan[x], p)
                                                     EXCEPT !.outgoing_sequence = n]],
                  net |-> l.net],
                 w, [d EXCEPT ![x] = d[x] \o p.data],
                 [k EXCEPT ![x] = IF Acknowledges(l.chan[x], p)
                                  THEN k[x] + Len(l.chan[x].reliable_buf) ELSE k[x]])
<1> DEFINE c == AfterProcess(l.chan[x], p)
           f == [c EXCEPT !.outgoing_sequence = n]
           h == d[x] \o p.data
           m == IF Acknowledges(l.chan[x], p)
                THEN k[x] + Len(l.chan[x].reliable_buf) ELSE k[x]
           ch == [l.chan EXCEPT ![x] = f]
           de == [d EXCEPT ![x] = h]
           ac == [k EXCEPT ![x] = m]
<1>1. /\ l.chan \in [End -> Channel] /\ l.net \in [End -> SUBSET Packet]
      /\ w \in [End -> Seq(Message)] /\ d \in [End -> Seq(Message)] /\ k \in [End -> Nat]
  BY DEF Sound, Ends
<1>2. p \in Packet /\ p \in Fresh(l.chan[x], l.net[x])
  BY <1>1 DEF Fresh
<1>3. c \in Channel /\ c.outgoing_sequence = l.chan[x].outgoing_sequence
  BY <1>1, <1>2, ProcessFields
<1>4. h \in Seq(Message)
  BY <1>1, <1>2, ConcatProperties DEF Packet
<1>5. m \in Nat
  <2>1. Len(l.chan[x].reliable_buf) \in Nat
    BY <1>1, LenProperties DEF Channel
  <2> QED BY <1>1, <2>1, SMTT(40)
<1>6. /\ f \in Channel
      /\ f.outgoing_sequence = n
      /\ f.incoming_sequence = c.incoming_sequence
      /\ f.incoming_acknowledged = c.incoming_acknowledged
      /\ f.last_reliable_sequence = c.last_reliable_sequence
      /\ f.incoming_reliable_acknowledged = c.incoming_reliable_acknowledged
      /\ f.incoming_reliable_sequence = c.incoming_reliable_sequence
      /\ f.reliable_sequence = c.reliable_sequence
      /\ f.reliable_buf = c.reliable_buf
      /\ f.message = c.message
  <2> HIDE DEF c
  <2> QED BY <1>3 DEF Channel
<1> HIDE DEF f
<1>7. /\ ch \in [End -> Channel] /\ ch[x] = f
      /\ \A e \in End : e # x => ch[e] = l.chan[e]
  BY <1>1, <1>6
<1> HIDE DEF ch, h, m
<1>8. /\ de \in [End -> Seq(Message)] /\ de[x] = h
      /\ ac \in [End -> Nat] /\ ac[x] = m
      /\ \A e \in End : e # x => de[e] = d[e] /\ ac[e] = k[e]
  BY <1>1, <1>4, <1>5
<1> HIDE DEF de, ac
<1>9. ASSUME NEW e \in End
      PROVE  Direction(ch[e], ch[Peer[e]], l.net[e], l.net[Peer[e]],
                       w[e], de[Peer[e]], ac[e])
  <2>1. /\ l.chan[e] \in Channel /\ l.chan[Peer[e]] \in Channel
        /\ l.net[e] \in SUBSET Packet /\ l.net[Peer[e]] \in SUBSET Packet
        /\ d[Peer[e]] \in Seq(Message) /\ k[e] \in Nat
        /\ Direction(l.chan[e], l.chan[Peer[e]], l.net[e], l.net[Peer[e]],
                     w[e], d[Peer[e]], k[e])
        /\ Peer[e] \in End /\ Peer[e] # e
    BY SoundEnds
  <2>2. CASE e = x
    <3>1. /\ ch[e] = f /\ ch[Peer[e]] = l.chan[Peer[e]]
          /\ de[Peer[e]] = d[Peer[e]] /\ ac[e] = m
      BY <1>7, <1>8, <2>1, <2>2
    <3>2. Direction(c, l.chan[Peer[e]], l.net[e], l.net[Peer[e]], w[e], d[Peer[e]], m)
      BY <1>2, <2>1, <2>2, WriterReceives, SMTT(40) DEF m
    <3> HIDE DEF c
    <3>3. Received(f, l.chan[Peer[e]]) = Received(c, l.chan[Peer[e]])
      BY <1>6 DEF Received
    <3>4. Intact(f, l.chan[Peer[e]], w[e], d[Peer[e]])
      BY <1>6, <3>2, <3>3 DEF Direction, Intact, InFlight
    <3>5. f.outgoing_sequence >= c.outgoing_sequence
      BY <1>3, <1>6, <2>2
    <3>6. Direction(f, l.chan[Peer[e]], l.net[e], l.net[Peer[e]], w[e], d[Peer[e]], m)
      BY <1>3, <1>6, <2>1, <3>2, <3>4, <3>5, SameWriter
    <3> QED BY <3>1, <3>6
  <2>3. CASE e # x
    <3>1. Peer[e] = x
      BY <2>3 DEF End, Peer
    <3>2. /\ ch[e] = l.chan[e] /\ ch[Peer[e]] = f
          /\ de[Peer[e]] = h /\ ac[e] = k[e]
      BY <1>7, <1>8, <2>3, <3>1
    <3>3. Direction(l.chan[e], c, l.net[e], l.net[Peer[e]], w[e], h, k[e])
      BY <1>2, <2>1, <3>1, ReaderReceives DEF h
    <3> HIDE DEF c
    <3>4. Direction(l.chan[e], f, l.net[e], l.net[Peer[e]], w[e], h, k[e])
      BY <1>3, <1>6, <2>1, <3>3, SameReader, SMTT(40)
    <3> QED BY <3>2, <3>4
  <2> QED BY <2>2, <2>3
<1>10. [chan |-> ch, net |-> l.net] \in Ends
  BY <1>1, <1>7 DEF Ends
<1>11. Sound([chan |-> ch, net |-> l.net], w, de, ac)
  BY <1>1, <1>8, <1>9, <1>10 DEF Sound
<1> QED BY <1>11 DEF ch, f, c, de, ac, h, m

\* The code above the channel writes a message, or throws the waiting ones
\* away (z is <<>>) or replaces them by one (z is a message).
LEMMA WriteKeeps ==
    ASSUME NEW l, NEW w, NEW d, NEW k, Sound(l, w, d, k),
           NEW x \in End, NEW z \in Seq(Message), NEW v \in Seq(Message),
           NEW o \in BOOLEAN,
           v = d[Peer[x]] \o InFlight(l.chan[x], l.chan[Peer[x]]) \o z
    PROVE  Sound([chan |-> [l.chan EXCEPT ![x] = [l.chan[x] EXCEPT !.message = z,
                                                                   !.overflowed = o]],
                  net |-> l.net],
                 [w EXCEPT ![x] = v], d, k)
<1> DEFINE c == [l.chan[x] EXCEPT !.message = z, !.overflowed = o]
<1>1. l.chan[x] \in Channel /\ l.chan[Peer[x]] \in Channel
  BY SoundEnds
<1>2. /\ c \in Channel
      /\ c.message = z
      /\ c.outgoing_sequence = l.chan[x].outgoing_sequence
      /\ c.incoming_sequence = l.chan[x].incoming_sequence
      /\ c.incoming_acknowledged = l.chan[x].incoming_acknowledged
      /\ c.last_reliable_sequence = l.chan[x].last_reliable_sequence
      /\ c.incoming_reliable_acknowledged = l.chan[x].incoming_reliable_acknowledged
      /\ c.incoming_reliable_sequence = l.chan[x].incoming_reliable_sequence
      /\ c.reliable_sequence = l.chan[x].reliable_sequence
      /\ c.reliable_buf = l.chan[x].reliable_buf
  BY <1>1 DEF Channel
<1> HIDE DEF c
<1>3. InFlight(c, l.chan[Peer[x]]) = InFlight(l.chan[x], l.chan[Peer[x]])
  BY <1>2 DEF InFlight, Received
<1>4. Intact(c, l.chan[Peer[x]], v, d[Peer[x]])
  BY <1>2, <1>3 DEF Intact
<1>5. c.outgoing_sequence >= l.chan[x].outgoing_sequence
  BY <1>1, <1>2, SMTT(40) DEF Channel
<1>6. Sound([chan |-> [l.chan EXCEPT ![x] = c], net |-> l.net], [w EXCEPT ![x] = v], d, k)
  BY <1>2, <1>4, <1>5, LocalKeeps
<1> QED BY <1>6 DEF c

-----------------------------------------------------------------------------
(* The invariant. *)

Bounded == /\ offered \in [End -> 0..MaxWrites + 1]
           /\ \A e \in End : connected[e] => offered[e] <= MaxWrites

Flags == /\ send_message \in BOOLEAN /\ drop \in BOOLEAN
         /\ connected \in [End -> BOOLEAN]

\* IInv in terms of Sound.
LEMMA SoundInvariant == IInv <=> Sound(Link, written, delivered, acked) /\ Bounded /\ Flags
<1>1. Link.chan = chan /\ Link.net = net
  BY DEF Link
<1>2. Link \in Ends <=> chan \in [End -> Channel] /\ net \in [End -> SUBSET Packet]
  BY DEF Link, Ends
<1> QED BY <1>1, <1>2 DEF IInv, TypeOK, Sound, Bounded, Flags

\* A freshly set up connection satisfies it.
LEMMA InitInvariant == Init => IInv
<1> SUFFICES ASSUME Init PROVE IInv
  OBVIOUS
<1>1. Setup \in Channel /\ <<>> \in Seq(Message)
  BY EmptySeq DEF Setup, Channel
<1>2. TypeOK /\ \A e \in End : offered[e] <= MaxWrites
  <2>1. 0 \in 0..MaxWrites + 1 /\ 0 <= MaxWrites
    BY BoundsAssumption
  <2> QED BY <1>1, <2>1 DEF Init, TypeOK
<1>3. ASSUME NEW e \in End
      PROVE  Direction(Setup, Setup, {}, {}, <<>>, <<>>, 0)
  <2>1. Received(Setup, Setup) /\ ~ReliableLost(Setup)
    BY DEF Received, ReliableLost, Setup
  <2>2. Intact(Setup, Setup, <<>>, <<>>)
    BY <2>1, <1>1, ConcatEmptySeq DEF Intact, InFlight, Setup
  <2>3. SequencesOrdered(Setup, Setup, {}, {})
    BY DEF SequencesOrdered, Setup
  <2>4. Fresh(Setup, {}) = {}
    BY DEF Fresh
  <2>5. ReliablesFresh(Setup, Setup, {}) /\ AcksFresh(Setup, Setup, {})
    BY <2>4 DEF ReliablesFresh, AcksFresh
  <2>6. IdleSettled(Setup, Setup, {})
    BY <2>1, <2>4 DEF IdleSettled, Setup
  <2>7. AckedCount(Setup, Setup, <<>>, 0)
    BY <2>1, <1>1, EmptySeq DEF AckedCount, Setup
  <2> QED BY <2>1, <2>2, <2>3, <2>5, <2>6, <2>7 DEF Direction
<1> QED BY <1>2, <1>3, TwoEnds DEF Init, IInv

\* A step whose effect on the ends, the wire and the histories is sound.
LEMMA SoundStep ==
    ASSUME IInv, NEW l, Becomes(l), Sound(l, written', delivered', acked'),
           Bounded', Flags'
    PROVE  IInv'
<1>1. l = [chan |-> chan', net |-> net']
  BY DEF Becomes, Sound, Ends
<1>2. l = Link'
  BY <1>1 DEF Link
<1>3. Sound(Link', written', delivered', acked')
  BY <1>2
<1>4. Link'.chan = chan' /\ Link'.net = net'
  BY DEF Link
<1>5. chan' \in [End -> Channel] /\ net' \in [End -> SUBSET Packet]
  BY <1>3, <1>4, SMTT(40) DEF Sound, Ends
<1> QED BY <1>3, <1>4, <1>5, SMTT(40) DEF IInv, TypeOK, Sound, Bounded, Flags

\* What the waiting messages of end x leave of its stream when thrown away.
LEMMA WithdrawnStream ==
    ASSUME IInv, NEW x \in End
    PROVE  /\ Withdrawn(x) \in Seq(Message)
           /\ Withdrawn(x) = delivered[Peer[x]] \o InFlight(chan[x], chan[Peer[x]]) \o <<>>
           /\ \A m \in Message :
                 /\ Append(Withdrawn(x), m) \in Seq(Message)
                 /\ Append(Withdrawn(x), m)
                      = delivered[Peer[x]] \o InFlight(chan[x], chan[Peer[x]]) \o <<m>>
                 /\ Append(written[x], m) \in Seq(Message)
                 /\ Append(written[x], m)
                      = delivered[Peer[x]] \o InFlight(chan[x], chan[Peer[x]])
                          \o Append(chan[x].message, m)
<1>1. /\ chan[x] \in Channel /\ chan[Peer[x]] \in Channel /\ written[x] \in Seq(Message)
      /\ delivered[Peer[x]] \in Seq(Message)
      /\ Intact(chan[x], chan[Peer[x]], written[x], delivered[Peer[x]])
  BY TwoEnds DEF IInv, TypeOK, Direction
<1>2. /\ Withdrawn(x) \in Seq(Message)
      /\ Withdrawn(x) = delivered[Peer[x]] \o InFlight(chan[x], chan[Peer[x]]) \o <<>>
  BY <1>1, WithdrawKeepsStream, ZenonT(60) DEF Withdrawn
<1>3. ASSUME NEW m \in Message
      PROVE  /\ Append(Withdrawn(x), m) \in Seq(Message)
             /\ Append(written[x], m) \in Seq(Message)
             /\ Append(Withdrawn(x), m)
                  = delivered[Peer[x]] \o InFlight(chan[x], chan[Peer[x]]) \o <<m>>
             /\ Append(written[x], m)
                  = delivered[Peer[x]] \o InFlight(chan[x], chan[Peer[x]])
                      \o Append(chan[x].message, m)
  <2>1. Append(Withdrawn(x), m) \in Seq(Message) /\ Append(written[x], m) \in Seq(Message)
    BY <1>1, <1>2, AppendProperties
  <2>2. Append(Withdrawn(x), m)
          = delivered[Peer[x]] \o InFlight(chan[x], chan[Peer[x]]) \o <<m>>
    BY <1>1, WriteKeepsStream, ZenonT(60) DEF Withdrawn
  <2>3. Append(written[x], m)
          = delivered[Peer[x]] \o InFlight(chan[x], chan[Peer[x]])
              \o Append(chan[x].message, m)
    BY <1>1, WriteKeepsStream, ZenonT(60)
  <2> QED BY <2>1, <2>2, <2>3
<1> QED BY <1>2, <1>3

\* Every step of either end preserves it.
LEMMA NextInvariant == IInv /\ [Next]_vars => IInv'
<1> SUFFICES ASSUME IInv, [Next]_vars PROVE IInv'
  OBVIOUS
<1>1. /\ Sound(Link, written, delivered, acked) /\ Bounded /\ Flags
      /\ Link.chan = chan /\ Link.net = net
      /\ "client" \in End /\ "server" \in End
  BY SoundInvariant DEF Link, End
<1>2. /\ chan \in [End -> Channel] /\ net \in [End -> SUBSET Packet]
      /\ written \in [End -> Seq(Message)]
  BY DEF IInv, TypeOK
<1>3. ASSUME NEW e \in End, Write(e)
      PROVE  IInv'
  <2> DEFINE m == offered[e] + 1
  <2>1. m \in Message /\ <<m>> \in Seq(Message) /\ Append(chan[e].message, m) \in Seq(Message)
    <3>1. m \in Message
      BY <1>1, <1>3, BoundsAssumption, SMTT(40) DEF Write, Message, Bounded
    <3> QED BY <1>2, <3>1, AppendProperties DEF Channel
  <2>2. Bounded' /\ Flags'
    BY <1>1, <1>3, BoundsAssumption, SMTT(40) DEF Write, Bounded, Flags
  <2>3. CASE Fits(chan[e])
    <3> DEFINE z == Append(chan[e].message, m)
               v == Append(written[e], m)
               c == [chan[e] EXCEPT !.message = z, !.overflowed = chan[e].overflowed]
               l == [chan |-> [chan EXCEPT ![e] = c], net |-> net]
    <3>1. chan' = [chan EXCEPT ![e] = [chan[e] EXCEPT !.message = z]]
          /\ written' = [written EXCEPT ![e] = v] /\ net' = net
          /\ delivered' = delivered /\ acked' = acked
      BY <1>3, <2>3 DEF Write
    <3>2. [chan[e] EXCEPT !.message = z] = c
      BY <1>2 DEF Channel
    <3>3. Becomes(l)
      BY <3>1, <3>2 DEF Becomes
    <3>4. v \in Seq(Message) /\ v = delivered[Peer[e]] \o InFlight(chan[e], chan[Peer[e]]) \o z
      BY <2>1, WithdrawnStream
    <3>5. chan[e].overflowed \in BOOLEAN
      BY <1>2 DEF Channel
    <3>6. Sound(l, [written EXCEPT ![e] = v], delivered, acked)
      <4> HIDE DEF m, v, z
      <4> QED BY <1>1, <2>1, <3>4, <3>5, WriteKeeps DEF z
    <3> HIDE DEF l, v
    <3> QED BY <2>2, <3>1, <3>3, <3>6, SoundStep
  <2>4. CASE ~Fits(chan[e])
    <3> DEFINE v == Append(Withdrawn(e), m)
               c == [chan[e] EXCEPT !.message = <<m>>, !.overflowed = TRUE]
               l == [chan |-> [chan EXCEPT ![e] = c], net |-> net]
    <3>1. chan' = [chan EXCEPT ![e] = c]
          /\ written' = [written EXCEPT ![e] = v] /\ net' = net
          /\ delivered' = delivered /\ acked' = acked
      BY <1>2, <1>3, <2>4 DEF Write
    <3>2. Becomes(l)
      BY <3>1 DEF Becomes
    <3>3. v \in Seq(Message)
          /\ v = delivered[Peer[e]] \o InFlight(chan[e], chan[Peer[e]]) \o <<m>>
      BY <2>1, WithdrawnStream
    <3>4. Sound(l, [written EXCEPT ![e] = v], delivered, acked)
      <4> HIDE DEF m, v
      <4> QED BY <1>1, <2>1, <3>3, WriteKeeps
    <3> HIDE DEF l, v
    <3> QED BY <2>2, <3>1, <3>2, <3>4, SoundStep
  <2> QED BY <2>3, <2>4
<1>4. ASSUME ClientTransmit PROVE IInv'
  <2>1. Becomes(Sent(Link, "client", FALSE)) /\ Bounded' /\ Flags'
        /\ written' = written /\ delivered' = delivered /\ acked' = acked
    BY <1>1, <1>4 DEF ClientTransmit, Transmit, history, Bounded, Flags
  <2>2. Sound(Sent(Link, "client", FALSE), written, delivered, acked)
    BY <1>1, SentKeeps
  <2> QED BY <2>1, <2>2, SoundStep
<1>5. ASSUME ClientOverflow PROVE IInv'
  <2> DEFINE c == [chan["client"] EXCEPT !.message = <<>>, !.overflowed = FALSE]
             l == [chan |-> [chan EXCEPT !["client"] = c], net |-> net]
             v == Withdrawn("client")
  <2>1. /\ chan' = [chan EXCEPT !["client"] = c] /\ net' = net
        /\ written' = [written EXCEPT !["client"] = v]
        /\ delivered' = delivered /\ acked' = acked
        /\ Bounded' /\ Flags'
    BY <1>1, <1>2, <1>5 DEF ClientOverflow, Bounded, Flags
  <2>2. Becomes(l)
    BY <2>1 DEF Becomes
  <2>3. /\ v \in Seq(Message)
        /\ v = delivered[Peer["client"]] \o InFlight(chan["client"], chan[Peer["client"]])
                 \o <<>>
    BY <1>1, WithdrawnStream
  <2> HIDE DEF v
  <2>4. Sound(l, [written EXCEPT !["client"] = v], delivered, acked)
    BY <1>1, <2>3, EmptySeq, WriteKeeps
  <2> HIDE DEF l
  <2> QED BY <2>1, <2>2, <2>4, SoundStep
<1>6. ASSUME ClientSkip PROVE IInv'
  <2> DEFINE n == chan["client"].outgoing_sequence + 1
             c == [chan["client"] EXCEPT !.outgoing_sequence = n]
             l == [chan |-> [chan EXCEPT !["client"] = c], net |-> net]
  <2>1. /\ chan' = [chan EXCEPT !["client"] = c] /\ net' = net
        /\ written' = written /\ delivered' = delivered /\ acked' = acked
        /\ Bounded' /\ Flags'
    BY <1>1, <1>6 DEF ClientSkip, history, Bounded, Flags
  <2>2. Becomes(l)
    BY <2>1 DEF Becomes
  <2>3. /\ chan["client"] \in Channel /\ chan[Peer["client"]] \in Channel
        /\ written["client"] \in Seq(Message)
        /\ Intact(chan["client"], chan[Peer["client"]], written["client"],
                  delivered[Peer["client"]])
    BY <1>1, <1>2, TwoEnds DEF IInv, Direction
  <2>4. /\ c \in Channel
        /\ c.message = chan["client"].message
        /\ c.outgoing_sequence >= chan["client"].outgoing_sequence
        /\ c.incoming_sequence = chan["client"].incoming_sequence
        /\ c.incoming_acknowledged = chan["client"].incoming_acknowledged
        /\ c.last_reliable_sequence = chan["client"].last_reliable_sequence
        /\ c.incoming_reliable_acknowledged = chan["client"].incoming_reliable_acknowledged
        /\ c.incoming_reliable_sequence = chan["client"].incoming_reliable_sequence
        /\ c.reliable_sequence = chan["client"].reliable_sequence
        /\ c.reliable_buf = chan["client"].reliable_buf
    <3>1. n \in Nat /\ n >= chan["client"].outgoing_sequence
      <4>1. chan["client"].outgoing_sequence \in Nat
        BY <2>3 DEF Channel
      <4> QED BY <4>1
    <3> HIDE DEF n
    <3>2. c \in Channel /\ c.outgoing_sequence = n
      BY <2>3, <3>1 DEF Channel
    <3>3. /\ c.message = chan["client"].message
          /\ c.incoming_sequence = chan["client"].incoming_sequence
          /\ c.incoming_acknowledged = chan["client"].incoming_acknowledged
          /\ c.last_reliable_sequence = chan["client"].last_reliable_sequence
          /\ c.incoming_reliable_acknowledged = chan["client"].incoming_reliable_acknowledged
          /\ c.incoming_reliable_sequence = chan["client"].incoming_reliable_sequence
          /\ c.reliable_sequence = chan["client"].reliable_sequence
          /\ c.reliable_buf = chan["client"].reliable_buf
      BY <2>3 DEF Channel
    <3> QED BY <3>1, <3>2, <3>3
  <2> HIDE DEF c
  <2>5. Intact(c, chan[Peer["client"]], written["client"], delivered[Peer["client"]])
    <3>1. InFlight(c, chan[Peer["client"]]) = InFlight(chan["client"], chan[Peer["client"]])
      BY <2>4 DEF InFlight, Received
    <3> QED BY <2>3, <2>4, <3>1 DEF Intact
  <2>6. Sound(l, [written EXCEPT !["client"] = written["client"]], delivered, acked)
    BY <1>1, <2>3, <2>4, <2>5, LocalKeeps
  <2>7. [written EXCEPT !["client"] = written["client"]] = written
    BY <1>2
  <2> HIDE DEF l
  <2> QED BY <2>1, <2>2, <2>6, <2>7, SoundStep
<1>7. ASSUME ClientDisconnect PROVE IInv'
  <2>1. Becomes(ClientFinal(Link)) /\ Bounded' /\ Flags'
        /\ written' = written /\ delivered' = delivered /\ acked' = acked
    BY <1>1, <1>7 DEF ClientDisconnect, history, Bounded, Flags
  <2>2. Sound(ClientFinal(Link), written, delivered, acked)
    BY <1>1, FinalsKeep
  <2> QED BY <2>1, <2>2, SoundStep
<1>8. ASSUME NEW x \in End, NEW p \in net[x], ~Stale(chan[x], p), Delivery(x, p),
             NEW n \in Nat, n >= chan[x].outgoing_sequence, written' = written
      PROVE  Sound([chan |-> [chan EXCEPT ![x] = [AfterProcess(chan[x], p)
                                                     EXCEPT !.outgoing_sequence = n]],
                    net |-> net], written', delivered', acked')
  <2> DEFINE de == [delivered EXCEPT ![x] = delivered[x] \o p.data]
             ac == [acked EXCEPT ![x] = IF Acknowledges(chan[x], p)
                                        THEN acked[x] + Len(chan[x].reliable_buf)
                                        ELSE acked[x]]
  <2>1. delivered' = de /\ acked' = ac
    BY <1>8 DEF Delivery
  <2>2. Sound([chan |-> [chan EXCEPT ![x] = [AfterProcess(chan[x], p)
                                               EXCEPT !.outgoing_sequence = n]],
               net |-> net], written, de, ac)
    BY <1>1, <1>8, ReceiveKeeps
  <2> HIDE DEF de, ac
  <2> QED BY <1>8, <2>1, <2>2
<1>9. ASSUME NEW p \in net["client"], ClientReceive(p) PROVE IInv'
  <2> DEFINE c == AfterProcess(chan["client"], p)
             n == IF c.incoming_sequence > c.outgoing_sequence
                  THEN c.incoming_sequence ELSE c.outgoing_sequence
             l == [chan |-> [chan EXCEPT !["client"] = [c EXCEPT !.outgoing_sequence = n]],
                   net |-> net]
  <2>1. c \in Channel /\ c.outgoing_sequence = chan["client"].outgoing_sequence
    <3>1. p \in Packet /\ chan["client"] \in Channel
      BY <1>1, <1>2
    <3> QED BY <3>1, ProcessFields
  <2>2. CatchUp(c) = [c EXCEPT !.outgoing_sequence = n]
    BY DEF CatchUp
  <2>3. [Link EXCEPT !.chan["client"] = CatchUp(AfterProcess(@, p))] = l
    <3> HIDE DEF n
    <3> QED BY <2>2 DEF Link
  <2>4. n \in Nat /\ n >= chan["client"].outgoing_sequence
    <3> HIDE DEF c
    <3> QED BY <2>1 DEF Channel
  <2>5. Becomes(IF p.final THEN ClientFinal(l) ELSE l)
    <3> HIDE DEF l
    <3> QED BY <1>9, <2>3 DEF ClientReceive
  <2>6. ~Stale(chan["client"], p) /\ Delivery("client", p) /\ written' = written
    BY <1>9 DEF ClientReceive
  <2>7. Bounded' /\ Flags'
    BY <1>1, <1>9 DEF ClientReceive, Bounded, Flags
  <2>8. Sound(l, written', delivered', acked')
    <3> HIDE DEF n
    <3> QED BY <1>1, <1>8, <2>4, <2>6
  <2> HIDE DEF l
  <2>9. Sound(ClientFinal(l), written', delivered', acked')
    BY <2>8, FinalsKeep
  <2> QED BY <2>5, <2>7, <2>8, <2>9, SoundStep
<1>10. ASSUME NEW p \in net["server"], ServerReceive(p) PROVE IInv'
  <2> DEFINE c == AfterProcess(chan["server"], p)
             n == IF Slipped(c) THEN c.outgoing_sequence ELSE c.incoming_sequence
             l == [chan |-> [chan EXCEPT !["server"] = [c EXCEPT !.outgoing_sequence = n]],
                   net |-> net]
  <2>1. /\ c \in Channel /\ c.outgoing_sequence = chan["server"].outgoing_sequence
        /\ p.final \in BOOLEAN
    <3>1. p \in Packet /\ chan["server"] \in Channel
      BY <1>1, <1>2
    <3> QED BY <3>1, ProcessFields DEF Packet
  <2>2. MatchSequence(c) = [c EXCEPT !.outgoing_sequence = n]
    <3> HIDE DEF c
    <3>1. CASE Slipped(c)
      BY <2>1, <3>1 DEF MatchSequence, Channel
    <3>2. CASE ~Slipped(c)
      BY <3>2 DEF MatchSequence
    <3> QED BY <3>1, <3>2
  <2>3. Becomes(l)
    <3> HIDE DEF n
    <3> QED BY <1>10, <2>2 DEF ServerReceive, Becomes
  <2>4. ~Stale(chan["server"], p) /\ Delivery("server", p) /\ written' = written
    BY <1>10 DEF ServerReceive
  <2>5. Bounded' /\ Flags'
    BY <1>1, <1>10, <2>1 DEF ServerReceive, Slipped, Bounded, Flags
  <2>6. n \in Nat /\ n >= chan["server"].outgoing_sequence
    <3> HIDE DEF c
    <3> QED BY <2>1 DEF Channel, Slipped
  <2>7. Sound(l, written', delivered', acked')
    <3> HIDE DEF n
    <3> QED BY <1>1, <1>8, <2>4, <2>6
  <2> HIDE DEF l
  <2> QED BY <2>3, <2>5, <2>7, SoundStep
<1>11. ASSUME ServerTransmit PROVE IInv'
  <2>1. Becomes(Sent(Link, "server", FALSE)) /\ Bounded' /\ Flags'
        /\ written' = written /\ delivered' = delivered /\ acked' = acked
    BY <1>1, <1>11 DEF ServerTransmit, Transmit, history, Bounded, Flags
  <2>2. Sound(Sent(Link, "server", FALSE), written, delivered, acked)
    BY <1>1, SentKeeps
  <2> QED BY <2>1, <2>2, SoundStep
<1>12. ASSUME ServerChoke PROVE IInv'
  <2>1. /\ chan' = chan /\ net' = net
        /\ written' = written /\ delivered' = delivered /\ acked' = acked
        /\ Bounded' /\ Flags'
    BY <1>1, <1>12 DEF ServerChoke, history, Bounded, Flags
  <2>2. Becomes(Link)
    BY <2>1 DEF Becomes, Link
  <2> QED BY <1>1, <2>1, <2>2, SoundStep
<1>13. ASSUME ServerOverflow PROVE IInv'
  <2> DEFINE c == [chan["server"] EXCEPT !.message = <<Notice>>, !.overflowed = FALSE]
             l == [chan |-> [chan EXCEPT !["server"] = c], net |-> net]
             v == Append(Withdrawn("server"), Notice)
  <2>1. Overflowed = l
    BY DEF Overflowed
  <2>2. Notice \in Message /\ <<Notice>> \in Seq(Message)
    BY <1>1, <1>13, BoundsAssumption DEF ServerOverflow, Notice, Bounded, Message
  <2>3. Bounded' /\ Flags'
    BY <1>1, <1>13, BoundsAssumption DEF ServerOverflow, Notice, Bounded, Flags
  <2>4. /\ v \in Seq(Message)
        /\ v = delivered[Peer["server"]] \o InFlight(chan["server"], chan[Peer["server"]])
                 \o <<Notice>>
    BY <1>1, <2>2, WithdrawnStream
  <2>5. /\ Becomes(ServerFinal(l)) /\ written' = [written EXCEPT !["server"] = v]
        /\ delivered' = delivered /\ acked' = acked
    <3> HIDE DEF l
    <3> QED BY <1>13, <2>1 DEF ServerOverflow
  <2>6. Sound(l, [written EXCEPT !["server"] = v], delivered, acked)
    <3> HIDE DEF v
    <3> QED BY <1>1, <2>2, <2>4, WriteKeeps
  <2> HIDE DEF l, v
  <2>7. Sound(ServerFinal(l), [written EXCEPT !["server"] = v], delivered, acked)
    BY <2>6, FinalsKeep
  <2> QED BY <2>3, <2>5, <2>7, SoundStep
<1>14. ASSUME ServerDrop PROVE IInv'
  <2>1. Becomes(ServerFinal(Link)) /\ Bounded' /\ Flags'
        /\ written' = written /\ delivered' = delivered /\ acked' = acked
    BY <1>1, <1>14 DEF ServerDrop, history, Bounded, Flags
  <2>2. Sound(ServerFinal(Link), written, delivered, acked)
    BY <1>1, FinalsKeep
  <2> QED BY <2>1, <2>2, SoundStep
<1>15. ASSUME UNCHANGED vars PROVE IInv'
  BY <1>15 DEF vars, IInv, TypeOK
<1> QED BY <1>3, <1>4, <1>5, <1>6, <1>7, <1>9, <1>10, <1>11, <1>12, <1>13, <1>14, <1>15
        DEF Next

\* The inductive invariant holds in every reachable state: the packets a
\* channel still accepts never contradict what their sender has become.
THEOREM Invariant == Spec => []IInv
BY InitInvariant, NextInvariant, PTL DEF Spec

\* Every netchan_t field keeps its type and the reliable bits stay bits.
THEOREM TypeCorrect == Spec => []TypeOK
<1>1. IInv => TypeOK
  BY DEF IInv
<1> QED BY <1>1, Invariant, PTL

\* Netchan_Transmit and Netchan_Process carry the reliable stream intact:
\* delivered, in flight and waiting are all that was written, in order.
THEOREM StreamIsIntact == Spec => []StreamIntact
<1>1. IInv => StreamIntact
  BY DEF IInv, StreamIntact, Direction
<1> QED BY <1>1, Invariant, PTL

\* Netchan_Process clears reliable_buf only when the peer's parser got it.
THEOREM AcknowledgedWasDelivered == Spec => []AckedWasDelivered
<1>1. IInv => AckedWasDelivered
  <2> SUFFICES ASSUME IInv, NEW e \in End
               PROVE  acked[e] <= Len(delivered[Peer[e]])
    BY DEF AckedWasDelivered
  <2>1. Len(chan[e].reliable_buf) \in Nat /\ acked[e] \in Nat
    BY LenProperties DEF IInv, TypeOK, Channel
  <2>2. AckedCount(chan[e], chan[Peer[e]], delivered[Peer[e]], acked[e])
    BY DEF IInv, Direction
  <2> QED BY <2>1, <2>2 DEF AckedCount
<1> QED BY <1>1, Invariant, PTL

\* Netchan_Transmit repeats a reliable only while the peer lacks it.
THEOREM LossInferenceIsSound == Spec => []LossIsReal
<1>1. IInv => LossIsReal
  BY DEF IInv, Direction, IdleSettled, LossIsReal
<1> QED BY <1>1, Invariant, PTL

-----------------------------------------------------------------------------
(* The refinement of ReliableStream. *)

\* What was delivered comes first in what was written, what waits comes last, and
\* no more was acknowledged than delivered.
LEMMA StreamOrder ==
    ASSUME NEW a \in Channel, NEW b \in Channel,
           NEW w \in Seq(Message), NEW d \in Seq(Message), NEW k \in Nat,
           Intact(a, b, w, d), AckedCount(a, b, d, k)
    PROVE  /\ Len(w) \in Nat /\ Len(d) \in Nat
           /\ Len(d) <= Len(w)
           /\ SubSeq(w, 1, Len(d)) = d
           /\ Len(w) - Len(a.message) \in Len(d) .. Len(w)
           /\ k <= Len(d)
<1> DEFINE i == InFlight(a, b)
           m == a.message
<1>1. i \in Seq(Message) /\ m \in Seq(Message) /\ a.reliable_buf \in Seq(Message)
  BY EmptySeq DEF InFlight, Channel
<1>2. w = (d \o i) \o m
  BY DEF Intact
<1>3. k <= Len(d)
  <2>1. Len(a.reliable_buf) \in Nat
    BY <1>1, LenProperties
  <2> QED BY <2>1 DEF AckedCount
<1> HIDE DEF i, m
<1>4. /\ d \o i \in Seq(Message) /\ Len(d \o i) = Len(d) + Len(i)
      /\ Len(w) = Len(d \o i) + Len(m)
      /\ Len(d) \in Nat /\ Len(i) \in Nat /\ Len(m) \in Nat
  BY <1>1, <1>2, ConcatProperties, LenProperties
<1>5. SubSeq(w, 1, Len(d)) = d
  <2>1. w = d \o (i \o m) /\ i \o m \in Seq(Message)
    BY <1>1, <1>2, ConcatAssociative, ConcatProperties, SMTT(40)
  <2>2. CASE d = <<>>
    <3>1. Len(d) = 0
      BY <2>2, EmptySeq
    <3> QED BY <2>2, <3>1, SubSeqEmpty
  <2>3. CASE d # <<>>
    <3>1. Len(d) \in Nat \ {0}
      BY <2>3, EmptySeq
    <3>2. SubSeq(d \o (i \o m), 1, Len(d)) = SubSeq(d, 1, Len(d))
      BY <2>1, <3>1, SubSeqOfConcat1
    <3> QED BY <2>1, <3>2, SubSeqFull
  <2> QED BY <2>2, <2>3
<1>6. Len(w) \in Nat /\ Len(d) <= Len(w) /\ Len(w) - Len(m) \in Len(d) .. Len(w)
  BY <1>4
<1> QED BY <1>3, <1>4, <1>5, <1>6 DEF m

\* The same of either end.
Ordered(w, d, k, ch, x) ==
    /\ w[x] \in Seq(Message) /\ d[x] \in Seq(Message) /\ d[Peer[x]] \in Seq(Message)
    /\ k[x] \in Nat /\ Len(w[x]) \in Nat /\ Len(d[Peer[x]]) \in Nat
    /\ Len(d[Peer[x]]) <= Len(w[x])
    /\ SubSeq(w[x], 1, Len(d[Peer[x]])) = d[Peer[x]]
    /\ Len(w[x]) - Len(ch[x].message) \in Len(d[Peer[x]]) .. Len(w[x])
    /\ k[x] <= Len(d[Peer[x]])

\* Both directions are in such an order ...
LEMMA EndsOrdered ==
    ASSUME NEW l, NEW w, NEW d, NEW k, Sound(l, w, d, k), NEW x \in End
    PROVE  Ordered(w, d, k, l.chan, x)
<1>1. /\ l.chan[x] \in Channel /\ l.chan[Peer[x]] \in Channel
      /\ w[x] \in Seq(Message) /\ d[x] \in Seq(Message) /\ d[Peer[x]] \in Seq(Message)
      /\ k[x] \in Nat
      /\ Intact(l.chan[x], l.chan[Peer[x]], w[x], d[Peer[x]])
      /\ AckedCount(l.chan[x], l.chan[Peer[x]], d[Peer[x]], k[x])
  BY TwoEnds DEF Sound, Ends, Direction
<1>2. /\ Len(w[x]) \in Nat /\ Len(d[Peer[x]]) \in Nat
      /\ Len(d[Peer[x]]) <= Len(w[x])
      /\ SubSeq(w[x], 1, Len(d[Peer[x]])) = d[Peer[x]]
      /\ Len(w[x]) - Len(l.chan[x].message) \in Len(d[Peer[x]]) .. Len(w[x])
      /\ k[x] <= Len(d[Peer[x]])
  BY <1>1, StreamOrder, Zenon
<1> QED BY <1>1, <1>2, Zenon DEF Ordered

\* ... before and after a step.
LEMMA BothOrdered ==
    ASSUME IInv, IInv', NEW x \in End
    PROVE  /\ Ordered(written, delivered, acked, chan, x)
           /\ Ordered(written', delivered', acked', chan', x)
<1>1. Sound(Link, written, delivered, acked) /\ Link.chan = chan
  BY SoundInvariant DEF Link
<1> DEFINE l == [chan |-> chan', net |-> net']
<1>2. Sound(l, written', delivered', acked') /\ l.chan = chan'
  BY DEF IInv, TypeOK, Sound, Ends
<1> HIDE DEF l
<1> QED BY <1>1, <1>2, EndsOrdered

\* A packet of either end is an arrival.
LEMMA DeliveryArrives ==
    ASSUME IInv, IInv', NEW e \in End, NEW p \in Packet,
           Delivery(e, p), written' = written
    PROVE  Stream!Arrive(e)
<1> DEFINE f == Peer[e]
<1>1. f \in End /\ Peer[f] = e /\ f # e
  BY TwoEnds
<1>2. /\ delivered' = [delivered EXCEPT ![e] = delivered[e] \o p.data]
      /\ acked' = [acked EXCEPT ![e] = IF Acknowledges(chan[e], p)
                                       THEN acked[e] + Len(chan[e].reliable_buf)
                                       ELSE acked[e]]
  BY DEF Delivery
<1>3. /\ delivered \in [End -> Seq(Message)] /\ delivered' \in [End -> Seq(Message)]
      /\ acked \in [End -> Nat] /\ acked' \in [End -> Nat]
      /\ chan[e].reliable_buf \in Seq(Message)
  BY DEF IInv, TypeOK, Channel
<1> HIDE DEF f
<1>4. \E n \in Len(delivered[e]) .. Len(written[f]) :
         delivered'[e] = SubSeq(written[f], 1, n)
  <2> DEFINE n == Len(delivered'[e])
  <2>1. SubSeq(written[f], 1, n) = delivered'[e] /\ n \in Nat /\ n <= Len(written[f])
        /\ Len(written[f]) \in Nat
    <3>1. SubSeq(written'[f], 1, Len(delivered'[Peer[f]])) = delivered'[Peer[f]]
          /\ Len(delivered'[Peer[f]]) \in Nat
          /\ Len(delivered'[Peer[f]]) <= Len(written'[f]) /\ Len(written'[f]) \in Nat
      BY <1>1, BothOrdered DEF Ordered
    <3> QED BY <1>1, <3>1
  <2>2. Len(delivered[e]) <= n /\ Len(delivered[e]) \in Nat
    <3>1. p.data \in Seq(Message)
      BY DEF Packet
    <3>2. delivered'[e] = delivered[e] \o p.data
      BY <1>2, <1>3
    <3> QED BY <1>3, <3>1, <3>2, ConcatProperties, LenProperties
  <2> HIDE DEF n
  <2> QED BY <2>1, <2>2
<1>5. acked'[e] \in acked[e] .. Len(delivered[f])
  <2>1. acked'[e] >= acked[e] /\ acked'[e] \in Nat /\ acked[e] \in Nat
    <3>1. Len(chan[e].reliable_buf) \in Nat
      BY <1>3, LenProperties
    <3> QED BY <1>2, <1>3, <3>1
  <2>2. acked'[e] <= Len(delivered'[f]) /\ Len(delivered'[f]) \in Nat
    BY BothOrdered DEF f, Ordered
  <2>3. delivered'[f] = delivered[f]
    BY <1>1, <1>2, <1>3
  <2> QED BY <2>1, <2>2, <2>3
<1>6. /\ delivered' = [delivered EXCEPT ![e] = delivered'[e]]
      /\ acked' = [acked EXCEPT ![e] = acked'[e]]
  BY <1>2, <1>3
<1> QED BY <1>4, <1>5, <1>6 DEF Stream!Arrive, f

\* Emptying the write buffer gives up nothing that was delivered.
LEMMA WithdrawnIsKept ==
    ASSUME IInv, NEW x \in End
    PROVE  \E k \in Stream!HandedOver(x) .. Len(written[x]) :
              Withdrawn(x) = Stream!Kept(x, k)
<1> DEFINE k == Len(written[x]) - Len(chan[x].message)
<1>1. Sound(Link, written, delivered, acked) /\ Link.chan = chan
  BY SoundInvariant DEF Link
<1>2. k \in Len(delivered[Peer[x]]) .. Len(written[x])
  BY <1>1, EndsOrdered DEF Ordered
<1>3. Withdrawn(x) = Stream!Kept(x, k)
  BY DEF Withdrawn, Stream!Kept
<1> QED BY <1>2, <1>3 DEF Stream!HandedOver

\* Every step of either end is a step of the stream, or none.
LEMMA StreamStep == IInv /\ IInv' /\ [Next]_vars => [Stream!Next]_Stream!vars
<1> SUFFICES ASSUME IInv, IInv', [Next]_vars PROVE [Stream!Next]_Stream!vars
  OBVIOUS
<1>1. /\ "client" \in End /\ "server" \in End
      /\ net \in [End -> SUBSET Packet]
      /\ \A e \in End : offered[e] \in Nat
      /\ \A e \in End : connected[e] => offered[e] <= MaxWrites
  BY SMTT(40) DEF End, IInv, TypeOK
<1>2. ASSUME NEW e \in End, Write(e)
      PROVE  Stream!Next
  <2> DEFINE m == offered[e] + 1
  <2>1. m \in Message
    BY <1>1, <1>2, BoundsAssumption DEF Write, Message
  <2>2. UNCHANGED <<delivered, acked>>
    BY <1>2 DEF Write
  <2>3. CASE Fits(chan[e])
    <3>1. written' = [written EXCEPT ![e] = Append(@, m)]
      BY <1>2, <2>3 DEF Write
    <3>2. Stream!Write(e)
      BY <2>1, <2>2, <3>1 DEF Stream!Write
    <3> QED BY <3>2 DEF Stream!Next
  <2>4. CASE ~Fits(chan[e])
    <3>1. written' = [written EXCEPT ![e] = Append(Withdrawn(e), m)]
      BY <1>2, <2>4 DEF Write
    <3>2. Stream!WriteOverflowing(e)
      BY <2>1, <2>2, <3>1, WithdrawnIsKept DEF Stream!WriteOverflowing
    <3> QED BY <3>2 DEF Stream!Next
  <2> QED BY <2>3, <2>4
<1>3. ASSUME ClientOverflow PROVE Stream!Next
  <2>1. Stream!GiveUp("client")
    BY <1>1, <1>3, WithdrawnIsKept DEF ClientOverflow, Stream!GiveUp
  <2> QED BY <1>1, <2>1 DEF Stream!Next
<1>4. ASSUME ServerOverflow PROVE Stream!Next
  <2>1. Notice \in Message
    BY <1>1, <1>4, BoundsAssumption DEF ServerOverflow, Notice, Message
  <2>2. Stream!WriteOverflowing("server")
    BY <1>1, <1>4, <2>1, WithdrawnIsKept DEF ServerOverflow, Stream!WriteOverflowing
  <2> QED BY <1>1, <2>2 DEF Stream!Next
<1>5. ASSUME NEW p \in net["client"], ClientReceive(p) PROVE Stream!Next
  <2>1. p \in Packet /\ Delivery("client", p) /\ written' = written
    BY <1>1, <1>5 DEF ClientReceive
  <2>2. Stream!Arrive("client")
    BY <1>1, <2>1, DeliveryArrives
  <2> QED BY <1>1, <2>2 DEF Stream!Next
<1>6. ASSUME NEW p \in net["server"], ServerReceive(p) PROVE Stream!Next
  <2>1. p \in Packet /\ Delivery("server", p) /\ written' = written
    BY <1>1, <1>6 DEF ServerReceive
  <2>2. Stream!Arrive("server")
    BY <1>1, <2>1, DeliveryArrives
  <2> QED BY <1>1, <2>2 DEF Stream!Next
<1>7. ASSUME \/ ClientTransmit \/ ClientSkip \/ ClientDisconnect
             \/ ServerTransmit \/ ServerChoke \/ ServerDrop \/ UNCHANGED vars
      PROVE  UNCHANGED Stream!vars
  BY <1>7 DEF ClientTransmit, ClientSkip, ClientDisconnect, ServerTransmit, ServerChoke,
              ServerDrop, history, vars, Stream!vars
<1> QED BY <1>2, <1>3, <1>4, <1>5, <1>6, <1>7 DEF Next

\* The even/odd bit over a wire that loses, repeats and reorders implements the
\* stream the code above the channel relies on.
THEOREM ImplementsStream == Spec => StreamSpec
<1>1. Init => Stream!Init
  BY DEF Init, Stream!Init
<1> QED BY <1>1, Invariant, StreamStep, PTL DEF Spec, StreamSpec, Stream!Spec

-----------------------------------------------------------------------------
(* The server's replies. *)

\* What sending at x leaves alone: the other end, x's own inbox and x's view of
\* its peer; and the one packet it adds bears x's numbers and the given mark.
SendsOnly(l, r, x, final) ==
    /\ r \in Ends
    /\ r.chan[Peer[x]] = l.chan[Peer[x]]
    /\ r.net[x] = l.net[x]
    /\ r.chan[x].incoming_sequence = l.chan[x].incoming_sequence
    /\ r.chan[x].incoming_reliable_sequence = l.chan[x].incoming_reliable_sequence
    /\ r.chan[x].outgoing_sequence >= l.chan[x].outgoing_sequence
    /\ \A p \in r.net[Peer[x]] :
          p \in l.net[Peer[x]] \/ p = PacketFrom(l.chan[x], final)

\* Netchan_Transmit is such a send.
LEMMA SentSendsOnly ==
    ASSUME NEW l \in Ends, NEW x \in End, NEW final \in BOOLEAN
    PROVE  /\ Sent(l, x, final) \in Ends
           /\ SendsOnly(l, Sent(l, x, final), x, final)
           /\ ~l.chan[x].overflowed =>
                 Sent(l, x, final).chan[x] = AfterTransmit(l.chan[x])
<1> DEFINE q == PacketFrom(l.chan[x], final)
           r == Sent(l, x, final)
<1>1. /\ l.chan[x] \in Channel /\ l.chan \in [End -> Channel]
      /\ l.net \in [End -> SUBSET Packet]
      /\ Peer[x] \in End /\ Peer[x] # x
  BY TwoEnds DEF Ends
<1>2. CASE l.chan[x].overflowed
  <2>1. r = l
    BY <1>2 DEF Sent
  <2>2. l.chan[x].outgoing_sequence \in Nat
    BY <1>1 DEF Channel
  <2>3. SendsOnly(l, l, x, final)
    BY <2>2 DEF SendsOnly
  <2> QED BY <1>2, <2>1, <2>3
<1>3. CASE ~l.chan[x].overflowed
  <2>1. r = [chan |-> [l.chan EXCEPT ![x] = AfterTransmit(l.chan[x])],
             net |-> [l.net EXCEPT ![Peer[x]] = l.net[Peer[x]] \cup {q}]]
    BY <1>3 DEF Sent
  <2>2. /\ AfterTransmit(l.chan[x]) \in Channel
        /\ AfterTransmit(l.chan[x]).outgoing_sequence = l.chan[x].outgoing_sequence + 1
        /\ AfterTransmit(l.chan[x]).incoming_sequence = l.chan[x].incoming_sequence
        /\ AfterTransmit(l.chan[x]).incoming_reliable_sequence
              = l.chan[x].incoming_reliable_sequence
    BY <1>1, TransmitFields
  <2>3. /\ q \in Packet /\ q.seq = l.chan[x].outgoing_sequence
        /\ q.ack = l.chan[x].incoming_sequence
    BY <1>1, PacketFields
  <2> HIDE DEF q, r
  <2>4. /\ r.chan[x] = AfterTransmit(l.chan[x])
        /\ r.chan[Peer[x]] = l.chan[Peer[x]]
        /\ r.net[x] = l.net[x]
        /\ r.net[Peer[x]] = l.net[Peer[x]] \cup {q}
        /\ r \in Ends
    BY <1>1, <2>1, <2>2, <2>3 DEF Ends
  <2>5. l.chan[x].outgoing_sequence \in Nat
    BY <1>1 DEF Channel
  <2>6. SendsOnly(l, r, x, final)
    BY <2>2, <2>4, <2>5 DEF SendsOnly, q
  <2> QED BY <2>4, <2>6 DEF r
<1> QED BY <1>2, <1>3

\* A farewell is the only packet that may be added twice over.
Farewell(l, r, x) ==
    /\ r \in Ends
    /\ r.chan[Peer[x]] = l.chan[Peer[x]]
    /\ r.net[x] = l.net[x]
    /\ r.chan[x].incoming_sequence = l.chan[x].incoming_sequence
    /\ r.chan[x].outgoing_sequence >= l.chan[x].outgoing_sequence
    /\ \A p \in r.net[Peer[x]] : p \in l.net[Peer[x]] \/ p.final

\* CL_Disconnect and SV_DropClient say farewell.
LEMMA FinalsAreFarewells ==
    ASSUME NEW l \in Ends
    PROVE  /\ Farewell(l, ServerFinal(l), "server")
           /\ Farewell(l, ClientFinal(l), "client")
<1>1. ASSUME NEW m \in Ends, NEW x \in End
      PROVE  Sent(m, x, TRUE) \in Ends /\ Farewell(m, Sent(m, x, TRUE), x)
  <2> DEFINE r == Sent(m, x, TRUE)
  <2>1. /\ r \in Ends /\ Peer[x] \in End
        /\ r.chan[Peer[x]] = m.chan[Peer[x]] /\ r.net[x] = m.net[x]
        /\ r.chan[x].incoming_sequence = m.chan[x].incoming_sequence
        /\ r.chan[x].outgoing_sequence >= m.chan[x].outgoing_sequence
    BY SentSendsOnly, TwoEnds, ZenonT(60) DEF SendsOnly
  <2>2. \A p \in r.net[Peer[x]] : p \in m.net[Peer[x]] \/ p.final
    <3>1. PacketFrom(m.chan[x], TRUE).final
      BY DEF PacketFrom
    <3>2. \A p \in r.net[Peer[x]] :
             p \in m.net[Peer[x]] \/ p = PacketFrom(m.chan[x], TRUE)
      BY SentSendsOnly DEF SendsOnly
    <3> QED BY <3>1, <3>2, Zenon
  <2> HIDE DEF r
  <2>3. Farewell(m, r, x)
    BY <2>1, <2>2 DEF Farewell
  <2> QED BY <2>1, <2>3 DEF r
<1>2. ASSUME NEW m \in Ends, NEW r \in Ends, NEW s \in Ends, NEW x \in End,
             Farewell(m, r, x), Farewell(r, s, x)
      PROVE  Farewell(m, s, x)
  <2>1. /\ m.chan[x].outgoing_sequence \in Nat /\ r.chan[x].outgoing_sequence \in Nat
        /\ s.chan[x].outgoing_sequence \in Nat
    BY DEF Ends, Channel
  <2> QED BY <1>2, <2>1 DEF Farewell
<1>3. "client" \in End /\ "server" \in End
  BY DEF End
<1>4. Farewell(l, ServerFinal(l), "server")
  <2> DEFINE m == Sent(l, "server", TRUE)
             r == Sent(m, "server", TRUE)
  <2>1. m \in Ends /\ Farewell(l, m, "server")
    BY <1>1, <1>3
  <2> HIDE DEF m
  <2>2. r \in Ends /\ Farewell(m, r, "server")
    BY <1>1, <1>3, <2>1
  <2>3. r = ServerFinal(l)
    BY DEF ServerFinal, m
  <2> HIDE DEF r
  <2>4. Farewell(l, r, "server")
    BY <1>2, <1>3, <2>1, <2>2
  <2> QED BY <2>3, <2>4
<1>5. Farewell(l, ClientFinal(l), "client")
  <2> DEFINE m == Sent(l, "client", TRUE)
             r == Sent(m, "client", TRUE)
             s == Sent(r, "client", TRUE)
  <2>1. m \in Ends /\ Farewell(l, m, "client")
    BY <1>1, <1>3
  <2> HIDE DEF m
  <2>2. r \in Ends /\ Farewell(m, r, "client")
    BY <1>1, <1>3, <2>1
  <2> HIDE DEF r
  <2>3. s \in Ends /\ Farewell(r, s, "client")
    BY <1>1, <1>3, <2>2
  <2>4. s = ClientFinal(l)
    BY DEF ClientFinal, m, r
  <2> HIDE DEF s
  <2>5. Farewell(l, r, "client")
    BY <1>2, <1>3, <2>1, <2>2
  <2>6. Farewell(l, s, "client")
    BY <1>2, <1>3, <2>1, <2>2, <2>3, <2>5
  <2> QED BY <2>4, <2>6
<1> QED BY <1>4, <1>5

\* What the server's numbers and its mark say of one end of the link and the packets
\* sent to the client.
Replies(l, alive, owes) ==
    /\ alive => l.chan["server"].outgoing_sequence
                   <= l.chan["server"].incoming_sequence + 1
    /\ alive /\ owes => l.chan["server"].outgoing_sequence
                           = l.chan["server"].incoming_sequence
    /\ \A p \in l.net["client"] : ~p.final =>
          p.seq = p.ack /\ p.seq < l.chan["client"].outgoing_sequence

\* Every step keeps the replies on their numbers.
LEMMA RepliesStep == IInv /\ RepliesMatch /\ [Next]_vars => RepliesMatch'
<1> SUFFICES ASSUME IInv, RepliesMatch, [Next]_vars PROVE RepliesMatch'
  OBVIOUS
<1>1. /\ "client" \in End /\ "server" \in End
      /\ Peer["client"] = "server" /\ Peer["server"] = "client"
  BY DEF End, Peer
<1>2. /\ chan \in [End -> Channel] /\ net \in [End -> SUBSET Packet]
      /\ connected \in [End -> BOOLEAN]
      /\ chan["client"] \in Channel /\ chan["server"] \in Channel
      /\ net["client"] \in SUBSET Packet /\ net["server"] \in SUBSET Packet
  BY <1>1 DEF IInv, TypeOK
<1>3. /\ Link \in Ends /\ Link.chan = chan /\ Link.net = net
  BY <1>2 DEF Link, Ends
<1>4. Replies(Link, connected["server"], send_message)
  BY <1>3 DEF Replies, RepliesMatch
<1>5. ASSUME NEW l, Becomes(l), Replies(l, connected'["server"], send_message')
      PROVE  RepliesMatch'
  BY <1>5 DEF Becomes, Replies, RepliesMatch
<1>6. ASSUME NEW l \in Ends, Replies(l, connected["server"], send_message)
      PROVE  /\ Replies(ClientFinal(l), connected["server"], send_message)
             /\ \A owes : Replies(ServerFinal(l), FALSE, owes)
  <2> DEFINE r == ClientFinal(l)
             s == ServerFinal(l)
  <2>1. Farewell(l, r, "client") /\ Farewell(l, s, "server")
    BY FinalsAreFarewells
  <2> HIDE DEF r, s
  <2>2. Replies(r, connected["server"], send_message)
    <3>1. /\ l.net["client"] \in SUBSET Packet
          /\ l.chan["client"].outgoing_sequence \in Nat
          /\ r.chan["client"].outgoing_sequence \in Nat
      BY <1>1, <2>1 DEF Farewell, Ends, Channel
    <3>2. \A p \in l.net["client"] : p.seq \in Nat
      BY <3>1 DEF Packet
    <3> QED BY <1>1, <1>6, <2>1, <3>1, <3>2 DEF Farewell, Replies
  <2>3. ASSUME NEW owes PROVE Replies(s, FALSE, owes)
    BY <1>1, <1>6, <2>1 DEF Farewell, Replies
  <2> QED BY <2>2, <2>3 DEF r, s
<1>7. ASSUME NEW e \in End, Write(e) PROVE RepliesMatch'
  <2>1. PICK c : /\ chan' = [chan EXCEPT ![e] = c]
                 /\ c.outgoing_sequence = chan[e].outgoing_sequence
                 /\ c.incoming_sequence = chan[e].incoming_sequence
    <3> DEFINE z == Append(chan[e].message, offered[e] + 1)
               y == <<offered[e] + 1>>
    <3>1. \/ chan' = [chan EXCEPT ![e] = [chan[e] EXCEPT !.message = z]]
          \/ chan' = [chan EXCEPT ![e] = [chan[e] EXCEPT !.message = y, !.overflowed = TRUE]]
      BY <1>7 DEF Write
    <3> HIDE DEF y, z
    <3>2. chan[e] \in Channel
      BY <1>2
    <3>3. /\ [chan[e] EXCEPT !.message = z].outgoing_sequence = chan[e].outgoing_sequence
          /\ [chan[e] EXCEPT !.message = z].incoming_sequence = chan[e].incoming_sequence
          /\ [chan[e] EXCEPT !.message = y, !.overflowed = TRUE].outgoing_sequence
                = chan[e].outgoing_sequence
          /\ [chan[e] EXCEPT !.message = y, !.overflowed = TRUE].incoming_sequence
                = chan[e].incoming_sequence
      BY <3>2 DEF Channel
    <3> QED BY <3>1, <3>3
  <2>2. \A x \in End : /\ chan'[x].outgoing_sequence = chan[x].outgoing_sequence
                       /\ chan'[x].incoming_sequence = chan[x].incoming_sequence
    BY <1>2, <2>1
  <2>3. UNCHANGED <<net, send_message, connected>>
    BY <1>7 DEF Write
  <2> QED BY <1>1, <2>2, <2>3 DEF RepliesMatch
<1>8. ASSUME ClientTransmit PROVE RepliesMatch'
  <2> DEFINE r == Sent(Link, "client", FALSE)
  <2>1. SendsOnly(Link, r, "client", FALSE)
    BY <1>1, <1>3, SentSendsOnly
  <2>2. Becomes(r) /\ connected' = connected /\ send_message' = send_message
    BY <1>8 DEF ClientTransmit, Transmit
  <2> HIDE DEF r
  <2>3. r.chan["client"].outgoing_sequence \in Nat /\ chan["client"].outgoing_sequence \in Nat
    BY <1>1, <1>2, <2>1 DEF SendsOnly, Ends, Channel
  <2>4. \A p \in net["client"] : p.seq \in Nat
    BY <1>2 DEF Packet
  <2>5. Replies(r, connected["server"], send_message)
    BY <1>1, <1>3, <1>4, <2>1, <2>3, <2>4 DEF SendsOnly, Replies
  <2> QED BY <1>5, <2>2, <2>5
<1>9. ASSUME ClientOverflow \/ ClientSkip PROVE RepliesMatch'
  <2>1. /\ chan'["server"] = chan["server"]
        /\ chan'["client"].outgoing_sequence >= chan["client"].outgoing_sequence
        /\ chan'["client"].outgoing_sequence \in Nat
        /\ chan["client"].outgoing_sequence \in Nat
    <3>1. CASE ClientOverflow
      <4>1. chan' = [chan EXCEPT !["client"] = [chan["client"] EXCEPT
                                   !.message = <<>>, !.overflowed = FALSE]]
        BY <3>1 DEF ClientOverflow
      <4> QED BY <1>1, <1>2, <4>1 DEF Channel
    <3>2. CASE ClientSkip
      <4>1. chan' = [chan EXCEPT !["client"] = [chan["client"] EXCEPT
                                   !.outgoing_sequence = @ + 1]]
        BY <3>2 DEF ClientSkip
      <4> QED BY <1>1, <1>2, <4>1, SMTT(40) DEF Channel
    <3> QED BY <1>9, <3>1, <3>2
  <2>2. UNCHANGED <<net, send_message, connected>>
    BY <1>9 DEF ClientOverflow, ClientSkip
  <2>3. \A p \in net["client"] : p.seq \in Nat
    BY <1>2 DEF Packet
  <2> QED BY <2>1, <2>2, <2>3 DEF RepliesMatch
<1>10. ASSUME ClientDisconnect PROVE RepliesMatch'
  <2>1. Becomes(ClientFinal(Link)) /\ send_message' = send_message
        /\ connected'["server"] = connected["server"]
    BY <1>1, <1>2, <1>10 DEF ClientDisconnect
  <2> QED BY <1>3, <1>4, <1>5, <1>6, <2>1
<1>11. ASSUME NEW p \in net["client"], ClientReceive(p) PROVE RepliesMatch'
  <2> DEFINE c == CatchUp(AfterProcess(chan["client"], p))
             l == [chan |-> [chan EXCEPT !["client"] = c], net |-> net]
  <2>1. /\ c \in Channel /\ c.outgoing_sequence >= chan["client"].outgoing_sequence
        /\ c.outgoing_sequence \in Nat
    <3> DEFINE d == AfterProcess(chan["client"], p)
    <3>1. d \in Channel /\ d.outgoing_sequence = chan["client"].outgoing_sequence
      BY <1>2, ProcessFields
    <3> HIDE DEF d
    <3>2. CatchUp(d) \in Channel /\ CatchUp(d).outgoing_sequence >= d.outgoing_sequence
          /\ CatchUp(d).outgoing_sequence \in Nat
      BY <3>1 DEF CatchUp, Channel
    <3> QED BY <3>1, <3>2 DEF d
  <2>2. [Link EXCEPT !.chan["client"] = CatchUp(AfterProcess(@, p))] = l
    BY DEF Link
  <2>3. Becomes(IF p.final THEN ClientFinal(l) ELSE l)
    <3> HIDE DEF l
    <3> QED BY <1>11, <2>2 DEF ClientReceive
  <2>4. send_message' = send_message /\ connected'["server"] = connected["server"]
    BY <1>1, <1>2, <1>11 DEF ClientReceive
  <2> HIDE DEF c
  <2>5. l \in Ends /\ l.chan["server"] = chan["server"] /\ l.chan["client"] = c
        /\ l.net = net
    BY <1>1, <1>2, <2>1 DEF Ends
  <2> HIDE DEF l
  <2>6. Replies(l, connected["server"], send_message)
    <3>1. \A q \in net["client"] : q.seq \in Nat
      BY <1>2 DEF Packet
    <3>2. chan["client"].outgoing_sequence \in Nat
      BY <1>2 DEF Channel
    <3> QED BY <1>3, <1>4, <2>1, <2>5, <3>1, <3>2 DEF Replies
  <2> QED BY <1>5, <1>6, <2>3, <2>4, <2>5, <2>6
<1>12. ASSUME NEW p \in net["server"], ServerReceive(p) PROVE RepliesMatch'
  <2> DEFINE c == AfterProcess(chan["server"], p)
  <2>1. /\ c \in Channel /\ c.outgoing_sequence = chan["server"].outgoing_sequence
        /\ c.incoming_sequence = p.seq /\ p.seq \in Nat
        /\ c.outgoing_sequence \in Nat /\ chan["server"].incoming_sequence \in Nat
    BY <1>2, ProcessFields DEF Packet, Channel
  <2>2. /\ chan' = [chan EXCEPT !["server"] = MatchSequence(c)]
        /\ send_message' = ~Slipped(c)
        /\ connected["server"] /\ ~Stale(chan["server"], p)
        /\ UNCHANGED <<net, connected>>
    BY <1>12 DEF ServerReceive
  <2> HIDE DEF c
  <2>3. ~Slipped(c)
    BY <2>1, <2>2, <1>4, <1>3 DEF Slipped, Stale, Replies
  <2>4. MatchSequence(c).outgoing_sequence = c.incoming_sequence
        /\ MatchSequence(c).incoming_sequence = c.incoming_sequence
    BY <2>1, <2>3 DEF MatchSequence, Channel
  <2>5. chan'["server"] = MatchSequence(c) /\ chan'["client"] = chan["client"]
    BY <1>1, <1>2, <2>2
  <2> QED BY <2>1, <2>2, <2>4, <2>5 DEF RepliesMatch
<1>13. ASSUME ServerTransmit PROVE RepliesMatch'
  <2> DEFINE r == Sent(Link, "server", FALSE)
             q == PacketFrom(chan["server"], FALSE)
  <2>1. SendsOnly(Link, r, "server", FALSE)
    BY <1>1, <1>3, SentSendsOnly
  <2>2. /\ Becomes(r) /\ connected' = connected /\ send_message' = FALSE
        /\ connected["server"] /\ send_message /\ ~chan["server"].overflowed
    BY <1>13 DEF ServerTransmit, Transmit
  <2>3. r.chan["server"] = AfterTransmit(chan["server"])
    BY <1>1, <1>3, <2>2, SentSendsOnly
  <2>4. /\ AfterTransmit(chan["server"]).outgoing_sequence
              = chan["server"].outgoing_sequence + 1
        /\ AfterTransmit(chan["server"]).incoming_sequence
              = chan["server"].incoming_sequence
    BY <1>2, TransmitFields
  <2>5. q.seq = chan["server"].outgoing_sequence /\ q.ack = chan["server"].incoming_sequence
    BY <1>2, PacketFields
  <2>6. chan["server"].incoming_sequence < chan["client"].outgoing_sequence
    BY <1>1 DEF IInv, Direction, SequencesOrdered
  <2> HIDE DEF r, q
  <2>7. chan["server"].outgoing_sequence = chan["server"].incoming_sequence
        /\ chan["server"].incoming_sequence \in Nat
    BY <1>2, <1>3, <1>4, <2>2 DEF Replies, Channel
  <2>8. \A p \in r.net["client"] : p \in net["client"] \/ p = q
    BY <1>1, <1>3, <2>1 DEF SendsOnly, q
  <2>9. r.chan["client"] = chan["client"]
    BY <1>1, <1>3, <2>1 DEF SendsOnly
  <2>10. Replies(r, TRUE, FALSE)
    BY <1>3, <1>4, <2>3, <2>4, <2>5, <2>6, <2>7, <2>8, <2>9 DEF Replies
  <2> QED BY <1>5, <2>2, <2>10 DEF Replies
<1>14. ASSUME ServerChoke PROVE RepliesMatch'
  BY <1>14 DEF ServerChoke, history, RepliesMatch
<1>15. ASSUME ServerOverflow PROVE RepliesMatch'
  <2> DEFINE c == [chan["server"] EXCEPT !.message = <<Notice>>, !.overflowed = FALSE]
  <2>1. /\ Notice \in Message
    BY <1>15, <1>1, BoundsAssumption, SMTT(40) DEF ServerOverflow, Notice, IInv, TypeOK, Message
  <2>2. c \in Channel /\ c.outgoing_sequence = chan["server"].outgoing_sequence
        /\ c.incoming_sequence = chan["server"].incoming_sequence
    <3>1. <<Notice>> \in Seq(Message)
      BY <2>1
    <3> QED BY <1>2, <3>1 DEF Channel
  <2>3. Overflowed = [chan |-> [chan EXCEPT !["server"] = c], net |-> net]
    BY DEF Overflowed
  <2> HIDE DEF c
  <2>4. /\ Overflowed \in Ends /\ Overflowed.chan["server"] = c
        /\ Overflowed.chan["client"] = chan["client"] /\ Overflowed.net = net
    BY <1>1, <1>2, <2>2, <2>3 DEF Ends
  <2>5. Replies(Overflowed, connected["server"], send_message)
    BY <1>3, <1>4, <2>2, <2>4 DEF Replies
  <2>6. Becomes(ServerFinal(Overflowed)) /\ connected'["server"] = FALSE
    BY <1>1, <1>2, <1>15 DEF ServerOverflow
  <2> QED BY <1>5, <1>6, <2>4, <2>5, <2>6
<1>16. ASSUME ServerDrop PROVE RepliesMatch'
  <2>1. Becomes(ServerFinal(Link)) /\ connected'["server"] = FALSE
    BY <1>1, <1>2, <1>16 DEF ServerDrop
  <2> QED BY <1>3, <1>4, <1>5, <1>6, <2>1
<1>17. ASSUME UNCHANGED vars PROVE RepliesMatch'
  BY <1>17 DEF vars, RepliesMatch
<1> QED BY <1>7, <1>8, <1>9, <1>10, <1>11, <1>12, <1>13, <1>14, <1>15, <1>16, <1>17 DEF Next

\* SV_ExecuteClientMessage: every reply bears the number of the packet it answers.
THEOREM RepliesBearTheirNumbers == Spec => []RepliesMatch
<1>1. Init => RepliesMatch
  BY DEF Init, Setup, RepliesMatch, End
<1> QED BY <1>1, Invariant, RepliesStep, PTL DEF Spec

-----------------------------------------------------------------------------
(* The hole an overflow leaves in the server's stream. *)

\* The server numbers its messages as it writes them, so a sequence without a hole
\* counts up from 1.
Counts(s) == \A i \in 1..Len(s) : s[i] = i

\* Nothing a connected reader may still be given leaves a hole behind it.
Arriving(b, toB, d) ==
    \A p \in Fresh(b, toB) : p.rel /\ ~p.final => Counts(d \o p.data)

\* An overflow leaves the hole after what the server had already handed to
\* Netchan_Transmit, and whatever it sends after that says goodbye.
Whole ==
    /\ connected["server"] /\ ~chan["server"].overflowed =>
          Counts(written["server"]) /\ Len(written["server"]) = offered["server"]
    /\ connected["server"] => Counts(Withdrawn("server"))
    /\ connected["client"] => Counts(delivered["client"])
    /\ connected["client"] =>
          Arriving(chan["client"], net["client"], delivered["client"])

\* The beginning of a sequence counts if the whole does, and one more message makes
\* it count on.
LEMMA CountsParts ==
    ASSUME NEW s \in Seq(Message), NEW t \in Seq(Message)
    PROVE  /\ Counts(s \o t) => Counts(s)
           /\ Counts(s) => Counts(Append(s, Len(s) + 1))
           /\ Len(Append(s, Len(s) + 1)) = Len(s) + 1
<1>1. /\ Len(s) \in Nat /\ Len(t) \in Nat
      /\ Len(s \o t) = Len(s) + Len(t)
      /\ \A i \in 1..Len(s) : (s \o t)[i] = s[i]
  BY ConcatProperties, LenProperties
<1>2. Counts(s \o t) => Counts(s)
  BY <1>1 DEF Counts
<1>3. /\ Len(Append(s, Len(s) + 1)) = Len(s) + 1
      /\ \A i \in 1..Len(s) : Append(s, Len(s) + 1)[i] = s[i]
      /\ Append(s, Len(s) + 1)[Len(s) + 1] = Len(s) + 1
  OBVIOUS
<1>4. Counts(s) => Counts(Append(s, Len(s) + 1))
  <2> DEFINE r == Append(s, Len(s) + 1)
  <2> HIDE DEF r
  <2>1. /\ Len(r) = Len(s) + 1 /\ \A i \in 1..Len(s) : r[i] = s[i]
        /\ r[Len(s) + 1] = Len(s) + 1
    BY <1>3 DEF r
  <2>2. Counts(s) => Counts(r)
    BY <1>1, <2>1 DEF Counts
  <2> QED BY <2>2 DEF r
<1> QED BY <1>2, <1>3, <1>4

\* The head of a sequence counts if the sequence does; a write that fits leaves
\* the head that does not wait as it was.
LEMMA HeadCounts ==
    ASSUME NEW w \in Seq(Message), NEW u \in Seq(Message), NEW m \in Message
    PROVE  /\ Counts(w) => Counts(SubSeq(w, 1, Len(w) - Len(u)))
           /\ Len(u) <= Len(w) =>
                 SubSeq(Append(w, m), 1, Len(Append(w, m)) - Len(Append(u, m)))
                    = SubSeq(w, 1, Len(w) - Len(u))
<1> DEFINE n == Len(w) - Len(u)
<1>1. n \in Int /\ n <= Len(w) /\ Len(w) \in Nat
  <2>1. Len(w) \in Nat /\ Len(u) \in Nat
    BY LenProperties
  <2> QED BY <2>1
<1>2. Len(u) <= Len(w) => n >= 0
  <2>1. Len(w) \in Nat /\ Len(u) \in Nat
    BY LenProperties
  <2> QED BY <2>1
<1>3. Len(Append(w, m)) - Len(Append(u, m)) = n
  <2>1. /\ Len(w) \in Nat /\ Len(u) \in Nat
        /\ Len(Append(w, m)) = Len(w) + 1 /\ Len(Append(u, m)) = Len(u) + 1
    BY LenProperties, AppendProperties
  <2> QED BY <2>1
<1> HIDE DEF n
<1>4. Counts(w) => Counts(SubSeq(w, 1, n))
  BY <1>1 DEF Counts
<1>5. n >= 0 => SubSeq(Append(w, m), 1, n) = SubSeq(w, 1, n)
  BY <1>1
<1> QED BY <1>2, <1>3, <1>4, <1>5 DEF n

\* While the server is connected, what the client was given and may still be given
\* is the head of what the server handed over.
LEMMA ArrivingCounts ==
    ASSUME NEW a \in Channel, NEW b \in Channel,
           NEW toA \in SUBSET Packet, NEW toB \in SUBSET Packet,
           NEW w \in Seq(Message), NEW d \in Seq(Message), NEW k,
           Direction(a, b, toA, toB, w, d, k),
           Counts(SubSeq(w, 1, Len(w) - Len(a.message)))
    PROVE  Counts(d) /\ Arriving(b, toB, d)
<1>1. SubSeq(w, 1, Len(w) - Len(a.message)) = d \o InFlight(a, b)
  BY WithdrawKeepsStream, ZenonT(60) DEF Direction
<1>2. InFlight(a, b) \in Seq(Message)
  BY EmptySeq DEF InFlight, Channel
<1>3. Counts(d)
  BY <1>1, <1>2, CountsParts
<1>4. ASSUME NEW p \in Fresh(b, toB), p.rel PROVE Counts(d \o p.data)
  <2>1. ~Received(a, b) /\ p.data = a.reliable_buf
    BY <1>4 DEF Direction, ReliablesFresh
  <2>2. p.data = InFlight(a, b)
    BY <2>1 DEF InFlight
  <2> QED BY <1>1, <2>2
<1> QED BY <1>3, <1>4 DEF Arriving

\* Once the server is gone, a reliable that arrives is the last one.
LEMMA LastArrival ==
    ASSUME NEW a \in Channel, NEW b \in Channel, NEW c \in Channel,
           NEW toA \in SUBSET Packet, NEW toB \in SUBSET Packet,
           NEW w \in Seq(Message), NEW d \in Seq(Message), NEW k,
           Direction(a, b, toA, toB, w, d, k),
           Counts(d), Arriving(b, toB, d),
           NEW p \in toB, ~Stale(b, p), ~p.final, c.incoming_sequence = p.seq
    PROVE  Counts(d \o p.data) /\ Arriving(c, toB, d \o p.data)
<1>1. p \in Fresh(b, toB) /\ p \in Packet
  BY DEF Fresh
<1>2. ASSUME NEW q \in Fresh(c, toB)
      PROVE  q \in Fresh(b, toB) /\ q.seq > p.seq /\ q.seq \in Nat /\ p.seq \in Nat
  <2>1. q \in toB /\ q \in Packet /\ ~(q.seq <= p.seq)
    BY DEF Fresh, Stale
  <2>2. /\ q.seq \in Nat /\ p.seq \in Nat /\ b.incoming_sequence \in Nat
        /\ ~(p.seq <= b.incoming_sequence)
    BY <1>1, <2>1 DEF Packet, Channel, Stale
  <2> QED BY <2>1, <2>2 DEF Fresh, Stale
<1>3. CASE p.rel
  <2>1. Counts(d \o p.data)
    BY <1>1, <1>3 DEF Arriving
  <2>2. ASSUME NEW q \in Fresh(c, toB) PROVE ~q.rel
    <3>1. ASSUME q.rel PROVE FALSE
      <4>1. q.seq + 1 = a.last_reliable_sequence /\ p.seq + 1 = a.last_reliable_sequence
        BY <1>1, <1>2, <1>3, <3>1 DEF Direction, ReliablesFresh
      <4> QED BY <1>2, <4>1
    <3> QED BY <3>1
  <2> QED BY <2>1, <2>2 DEF Arriving
<1>4. CASE ~p.rel
  <2>1. p.data = <<>>
    BY <1>4 DEF Direction, ReliablesFresh
  <2>2. d \o p.data = d
    BY <2>1, ConcatEmptySeq
  <2> QED BY <1>2, <2>2 DEF Arriving
<1> QED BY <1>3, <1>4

\* Every step keeps the hole out of the client's reach.
LEMMA WholeStep == IInv /\ IInv' /\ Whole /\ [Next]_vars => Whole'
<1> SUFFICES ASSUME IInv, IInv', Whole, [Next]_vars PROVE Whole'
  OBVIOUS
<1>1. /\ "client" \in End /\ "server" \in End
      /\ Peer["client"] = "server" /\ Peer["server"] = "client"
  BY DEF End, Peer
<1>2. /\ chan \in [End -> Channel] /\ net \in [End -> SUBSET Packet]
      /\ connected \in [End -> BOOLEAN]
      /\ chan["client"] \in Channel /\ chan["server"] \in Channel
      /\ net["client"] \in SUBSET Packet /\ net["server"] \in SUBSET Packet
      /\ written \in [End -> Seq(Message)] /\ written["server"] \in Seq(Message)
      /\ delivered \in [End -> Seq(Message)] /\ delivered["client"] \in Seq(Message)
      /\ \A e \in End : offered[e] \in Nat
      /\ offered \in [End -> 0..MaxWrites + 1]
  BY <1>1, SMTT(40) DEF IInv, TypeOK
<1>3. /\ Link \in Ends /\ Link.chan = chan /\ Link.net = net
  BY <1>2 DEF Link, Ends
<1>4. Direction(chan["server"], chan["client"], net["server"], net["client"],
                written["server"], delivered["client"], acked["server"])
  BY <1>1 DEF IInv
<1>5. ASSUME connected'["server"],
             ~chan'["server"].overflowed =>
                 Counts(written'["server"]) /\ Len(written'["server"]) = offered'["server"],
             Counts(SubSeq(written'["server"], 1,
                           Len(written'["server"]) - Len(chan'["server"].message)))
      PROVE  Whole'
  <2>1. /\ chan'["client"] \in Channel /\ chan'["server"] \in Channel
        /\ net'["client"] \in SUBSET Packet /\ net'["server"] \in SUBSET Packet
        /\ written'["server"] \in Seq(Message) /\ delivered'["client"] \in Seq(Message)
        /\ Direction(chan'["server"], chan'["client"], net'["server"], net'["client"],
                     written'["server"], delivered'["client"], acked'["server"])
    BY <1>1 DEF IInv, TypeOK
  <2>2. /\ Counts(delivered'["client"])
        /\ Arriving(chan'["client"], net'["client"], delivered'["client"])
    BY <1>5, <2>1, ArrivingCounts
  <2> QED BY <1>5, <2>2 DEF Whole, Withdrawn
\* the server's buffer and its stream stay as they are
<1>6. ASSUME connected'["server"], connected["server"],
             chan'["server"].message = chan["server"].message,
             chan'["server"].overflowed = chan["server"].overflowed,
             written'["server"] = written["server"],
             offered'["server"] = offered["server"]
      PROVE  Whole'
  BY <1>5, <1>6 DEF Whole, Withdrawn
\* the server is gone and the client is given nothing
<1>7. ASSUME ~connected'["server"],
             connected'["client"] => connected["client"],
             chan'["client"].incoming_sequence = chan["client"].incoming_sequence,
             delivered'["client"] = delivered["client"],
             \A p \in net'["client"] : p \in net["client"] \/ p.final
      PROVE  Whole'
  <2>1. Arriving(chan["client"], net["client"], delivered["client"]) =>
           Arriving(chan'["client"], net'["client"], delivered'["client"])
    BY <1>7 DEF Arriving, Fresh, Stale
  <2> QED BY <1>7, <2>1 DEF Whole
\* the server and the client's side of its stream are left alone
<1>8. ASSUME connected'["server"] = connected["server"],
             chan'["server"].message = chan["server"].message,
             chan'["server"].overflowed = chan["server"].overflowed,
             written'["server"] = written["server"],
             offered'["server"] = offered["server"],
             connected'["client"] => connected["client"],
             chan'["client"].incoming_sequence = chan["client"].incoming_sequence,
             delivered'["client"] = delivered["client"],
             net'["client"] = net["client"]
      PROVE  Whole'
  BY <1>6, <1>7, <1>8, <1>2, <1>1
<1>9. ASSUME Write("client") PROVE Whole'
  <2>1. /\ connected' = connected /\ net' = net /\ delivered' = delivered
        /\ offered'["server"] = offered["server"]
        /\ written'["server"] = written["server"]
        /\ chan'["server"] = chan["server"]
        /\ chan'["client"].incoming_sequence = chan["client"].incoming_sequence
    <3> DEFINE c == chan["client"]
               z == Append(c.message, offered["client"] + 1)
               y == <<offered["client"] + 1>>
    <3>1. /\ connected' = connected /\ net' = net /\ delivered' = delivered
          /\ offered'["server"] = offered["server"]
      BY <1>1, <1>2, <1>9 DEF Write
    <3>2. written'["server"] = written["server"]
      BY <1>1, <1>2, <1>9 DEF Write
    <3>3. \/ chan' = [chan EXCEPT !["client"] = [c EXCEPT !.message = z]]
          \/ chan' = [chan EXCEPT !["client"] = [c EXCEPT !.message = y, !.overflowed = TRUE]]
      BY <1>9 DEF Write
    <3> HIDE DEF y, z
    <3>4. chan'["server"] = chan["server"]
          /\ chan'["client"].incoming_sequence = c.incoming_sequence
      BY <1>1, <1>2, <3>3, ZenonT(60) DEF Channel
    <3> QED BY <3>1, <3>2, <3>4
  <2> QED BY <1>8, <2>1
<1>10. ASSUME Write("server") PROVE Whole'
  <2> DEFINE m == offered["server"] + 1
             w == written["server"]
             c == chan["server"]
             kept == SubSeq(w, 1, Len(w) - Len(c.message))
  <2>1. connected["server"] /\ connected' = connected
        /\ offered' = [offered EXCEPT !["server"] = m]
        /\ offered["server"] < MaxWrites
    BY <1>10 DEF Write
  <2>2. offered'["server"] = m /\ m \in Message
    BY <1>1, <1>2, <2>1, BoundsAssumption DEF Message
  <2>3. Counts(kept) /\ kept \in Seq(Message)
    BY <1>1, <2>1, WithdrawnStream DEF Whole, Withdrawn
  <2>4. c.message \in Seq(Message) /\ Len(c.message) \in Nat /\ Len(w) \in Nat
        /\ c.overflowed \in BOOLEAN
    BY <1>2, LenProperties DEF Channel
  <2>5. CASE Fits(c)
    <3>1. /\ chan' = [chan EXCEPT !["server"] = [c EXCEPT !.message = Append(c.message, m)]]
          /\ written' = [written EXCEPT !["server"] = Append(w, m)]
      BY <2>5, <1>10 DEF Write
    <3>2. chan'["server"] = [c EXCEPT !.message = Append(c.message, m)]
          /\ written'["server"] = Append(w, m)
      BY <1>1, <1>2, <3>1
    <3>3. chan'["server"].message = Append(c.message, m)
          /\ chan'["server"].overflowed = c.overflowed
      BY <3>2, <1>2 DEF Channel
    <3>4. ~c.overflowed => Counts(Append(w, m)) /\ Len(Append(w, m)) = m
      BY <1>2, <2>1, CountsParts DEF Whole
    <3>5. SubSeq(Append(w, m), 1, Len(Append(w, m)) - Len(Append(c.message, m))) = kept
      <4>1. Len(c.message) <= Len(w)
        <5>1. Sound(Link, written, delivered, acked)
          BY SoundInvariant
        <5>2. /\ Len(w) - Len(c.message) \in Len(delivered[Peer["server"]]) .. Len(w)
              /\ Len(delivered[Peer["server"]]) \in Nat
          BY <1>1, <1>3, <5>1, EndsOrdered DEF Ordered
        <5> HIDE DEF w, c
        <5> QED BY <2>4, <5>2
      <4> QED BY <1>2, <2>2, <2>4, <4>1, HeadCounts
    <3> HIDE DEF m, w, c, kept
    <3> QED BY <1>5, <2>1, <2>2, <2>3, <3>2, <3>3, <3>4, <3>5
  <2>6. CASE ~Fits(c)
    <3>1. /\ chan' = [chan EXCEPT !["server"] = [c EXCEPT !.message = <<m>>,
                                                          !.overflowed = TRUE]]
          /\ written' = [written EXCEPT !["server"] = Append(kept, m)]
      BY <2>6, <1>10 DEF Write, Withdrawn
    <3>2. /\ chan'["server"].message = <<m>> /\ chan'["server"].overflowed = TRUE
          /\ written'["server"] = Append(kept, m)
      BY <1>1, <1>2, <3>1 DEF Channel
    <3>3. SubSeq(Append(kept, m), 1, Len(Append(kept, m)) - Len(<<m>>)) = kept
      <4> HIDE DEF kept
      <4>1. <<m>> \in Seq(Message) /\ Append(kept, m) = kept \o <<m>>
        BY <2>2, <2>3, AppendIsConcat
      <4> QED BY <2>3, <4>1, WithoutLast
    <3> HIDE DEF m, w, c, kept
    <3> QED BY <1>5, <2>1, <2>3, <3>2, <3>3
  <2> QED BY <2>5, <2>6
<1>11. ASSUME ClientTransmit PROVE Whole'
  <2> DEFINE r == Sent(Link, "client", FALSE)
  <2>1. SendsOnly(Link, r, "client", FALSE)
    BY <1>1, <1>3, SentSendsOnly
  <2>2. Becomes(r) /\ UNCHANGED <<connected, history>>
    BY <1>11 DEF ClientTransmit, Transmit
  <2> HIDE DEF r
  <2> QED BY <1>1, <1>3, <1>8, <2>1, <2>2 DEF SendsOnly, Becomes, history
<1>12. ASSUME ClientOverflow PROVE Whole'
  <2>1. /\ connected' = connected /\ net' = net /\ delivered' = delivered
        /\ offered' = offered
        /\ written'["server"] = written["server"]
        /\ chan'["server"] = chan["server"]
        /\ chan'["client"].incoming_sequence = chan["client"].incoming_sequence
    BY <1>1, <1>2, <1>12 DEF ClientOverflow, Channel
  <2> QED BY <1>8, <2>1
<1>13. ASSUME ClientSkip PROVE Whole'
  <2>1. /\ connected' = connected /\ net' = net /\ delivered' = delivered
        /\ offered' = offered /\ written' = written
        /\ chan'["server"] = chan["server"]
        /\ chan'["client"].incoming_sequence = chan["client"].incoming_sequence
    BY <1>1, <1>2, <1>13 DEF ClientSkip, Channel, history
  <2> QED BY <1>8, <2>1
<1>14. ASSUME ClientDisconnect PROVE Whole'
  <2> DEFINE r == ClientFinal(Link)
  <2>1. Farewell(Link, r, "client")
    BY <1>3, FinalsAreFarewells
  <2>2. Becomes(r) /\ UNCHANGED history
        /\ connected' = [connected EXCEPT !["client"] = FALSE]
    BY <1>14 DEF ClientDisconnect
  <2> HIDE DEF r
  <2>3. ~connected'["client"] /\ connected'["server"] = connected["server"]
    BY <1>1, <1>2, <2>2
  <2> QED BY <1>1, <1>3, <1>8, <2>1, <2>2, <2>3 DEF Farewell, Becomes, history
<1>15. ASSUME NEW p \in net["client"], ClientReceive(p) PROVE Whole'
  <2> DEFINE c == CatchUp(AfterProcess(chan["client"], p))
             l == [chan |-> [chan EXCEPT !["client"] = c], net |-> net]
             r == IF p.final THEN ClientFinal(l) ELSE l
  <2>1. c \in Channel /\ c.incoming_sequence = p.seq
    <3> DEFINE d == AfterProcess(chan["client"], p)
    <3>1. d \in Channel /\ d.incoming_sequence = p.seq
      BY <1>2, ProcessFields
    <3> HIDE DEF d
    <3>2. CatchUp(d) \in Channel /\ CatchUp(d).incoming_sequence = d.incoming_sequence
      BY <3>1 DEF CatchUp, Channel
    <3> QED BY <3>1, <3>2 DEF d
  <2>2. [Link EXCEPT !.chan["client"] = CatchUp(AfterProcess(@, p))] = l
    BY DEF Link
  <2>3. Becomes(r)
    <3> HIDE DEF l
    <3> QED BY <1>15, <2>2 DEF ClientReceive
  <2>4. /\ connected["client"] /\ ~Stale(chan["client"], p)
        /\ connected' = [connected EXCEPT !["client"] = ~p.final]
        /\ delivered' = [delivered EXCEPT !["client"] = delivered["client"] \o p.data]
        /\ UNCHANGED <<offered, written>>
    BY <1>15 DEF ClientReceive, Delivery
  <2>5. /\ connected'["server"] = connected["server"] /\ connected'["client"] = ~p.final
        /\ delivered'["client"] = delivered["client"] \o p.data
    BY <1>1, <1>2, <2>4
  <2> HIDE DEF c
  <2>6. l \in Ends /\ l.chan["server"] = chan["server"] /\ l.chan["client"] = c
        /\ l.net = net
    BY <1>1, <1>2, <2>1 DEF Ends
  <2> HIDE DEF l
  <2>7. r.chan["server"] = chan["server"]
    BY <1>1, <2>6, FinalsAreFarewells DEF Farewell
  <2>8. ~p.final => chan'["client"] = c /\ net' = net
    BY <2>3, <2>6 DEF Becomes
  <2>9. chan'["server"] = chan["server"]
    BY <2>3, <2>7 DEF Becomes
  <2>10. CASE connected["server"]
    BY <1>6, <2>4, <2>5, <2>9, <2>10
  <2>11. CASE ~connected["server"] /\ p.final
    BY <2>5, <2>11 DEF Whole
  <2>12. CASE ~connected["server"] /\ ~p.final
    <3>1. /\ Counts(delivered["client"] \o p.data)
          /\ Arriving(c, net["client"], delivered["client"] \o p.data)
      BY <1>2, <1>4, <2>1, <2>4, <2>12, LastArrival DEF Whole
    <3> QED BY <2>5, <2>8, <2>12, <3>1 DEF Whole
  <2> QED BY <2>10, <2>11, <2>12
<1>16. ASSUME NEW p \in net["server"], ServerReceive(p) PROVE Whole'
  <2> DEFINE c == AfterProcess(chan["server"], p)
  <2>1. c \in Channel /\ c.message = chan["server"].message
        /\ c.overflowed = chan["server"].overflowed
    <3>1. c.overflowed = chan["server"].overflowed
      BY <1>2 DEF AfterProcess, Channel
    <3> QED BY <1>2, <3>1, ProcessFields
  <2>2. /\ chan' = [chan EXCEPT !["server"] = MatchSequence(c)]
        /\ connected["server"]
        /\ UNCHANGED <<connected, offered, written>>
    BY <1>16 DEF ServerReceive
  <2> HIDE DEF c
  <2>3. MatchSequence(c).message = c.message /\ MatchSequence(c).overflowed = c.overflowed
    BY <2>1 DEF MatchSequence, Channel
  <2>4. chan'["server"] = MatchSequence(c)
    BY <1>1, <1>2, <2>2
  <2> QED BY <1>6, <2>1, <2>2, <2>3, <2>4
<1>17. ASSUME ServerTransmit PROVE Whole'
  <2> DEFINE r == Sent(Link, "server", FALSE)
             w == written["server"]
  <2>1. /\ Becomes(r) /\ UNCHANGED <<connected, history>>
        /\ connected["server"] /\ ~chan["server"].overflowed
    BY <1>17 DEF ServerTransmit, Transmit
  <2>2. chan'["server"] \in Channel /\ Len(chan'["server"].message) \in Nat
    BY <1>1, LenProperties DEF IInv, TypeOK, Channel
  <2>3. Counts(w) /\ Len(w) = offered["server"]
    BY <2>1 DEF Whole
  <2>4. written' = written /\ offered' = offered
    BY <2>1 DEF history
  <2>5. Counts(SubSeq(w, 1, Len(w) - Len(chan'["server"].message)))
    <3>1. chan'["server"].message \in Seq(Message)
      BY <2>2 DEF Channel
    <3>2. 1 \in Message
      BY BoundsAssumption DEF Message
    <3> QED BY <1>2, <2>3, <3>1, <3>2, HeadCounts
  <2> QED BY <1>5, <2>1, <2>3, <2>4, <2>5
<1>18. ASSUME ServerChoke PROVE Whole'
  BY <1>8, <1>18 DEF ServerChoke, history
<1>19. ASSUME ServerOverflow PROVE Whole'
  <2> DEFINE c == [chan["server"] EXCEPT !.message = <<Notice>>, !.overflowed = FALSE]
             r == ServerFinal(Overflowed)
  <2>1. c \in Channel
    <3>1. Notice \in Message
      BY <1>19, <1>1, <1>2, BoundsAssumption, SMTT(40) DEF ServerOverflow, Notice, IInv, Message
    <3>2. <<Notice>> \in Seq(Message)
      BY <3>1
    <3> QED BY <1>2, <3>2 DEF Channel
  <2>2. Overflowed = [chan |-> [chan EXCEPT !["server"] = c], net |-> net]
    BY DEF Overflowed
  <2> HIDE DEF c
  <2>3. /\ Overflowed \in Ends /\ Overflowed.chan["client"] = chan["client"]
        /\ Overflowed.net = net
    BY <1>1, <1>2, <2>1, <2>2 DEF Ends
  <2>4. Farewell(Overflowed, r, "server")
    BY <2>3, FinalsAreFarewells
  <2>5. /\ Becomes(r) /\ delivered' = delivered
        /\ connected' = [connected EXCEPT !["server"] = FALSE]
    BY <1>19 DEF ServerOverflow
  <2> HIDE DEF r
  <2>6. ~connected'["server"] /\ connected'["client"] = connected["client"]
    BY <1>1, <1>2, <2>5
  <2> QED BY <1>1, <1>7, <2>3, <2>4, <2>5, <2>6 DEF Farewell, Becomes
<1>20. ASSUME ServerDrop PROVE Whole'
  <2> DEFINE r == ServerFinal(Link)
  <2>1. Farewell(Link, r, "server")
    BY <1>3, FinalsAreFarewells
  <2>2. /\ Becomes(r) /\ delivered' = delivered
        /\ connected' = [connected EXCEPT !["server"] = FALSE]
    BY <1>20 DEF ServerDrop, history
  <2> HIDE DEF r
  <2>3. ~connected'["server"] /\ connected'["client"] = connected["client"]
    BY <1>1, <1>2, <2>2
  <2> QED BY <1>1, <1>3, <1>7, <2>1, <2>2, <2>3 DEF Farewell, Becomes
<1>21. ASSUME UNCHANGED vars PROVE Whole'
  BY <1>21, <1>8 DEF vars
<1>22. ASSUME NEW e \in End, Write(e) PROVE Whole'
  <2>1. e = "client" \/ e = "server"
    BY DEF End
  <2> QED BY <1>9, <1>10, <1>22, <2>1
<1> QED BY <1>11, <1>12, <1>13, <1>14, <1>15, <1>16, <1>17, <1>18, <1>19, <1>20, <1>21,
           <1>22 DEF Next

\* SV_SendClientMessages: no connected client parses a message out of step with what
\* the server wrote, though an overflow threw some of it away.
THEOREM HolesAreNotParsed == Spec => []NoHoleFromServer
<1>1. Init => Whole
  <2>1. Init => /\ written["server"] = <<>> /\ delivered["client"] = <<>>
                /\ offered["server"] = 0 /\ net["client"] = {}
                /\ chan["server"].message = <<>>
    BY DEF Init, Setup, End
  <2> SUFFICES ASSUME Init PROVE Whole
    OBVIOUS
  <2>2. /\ Len(<<>>) = 0 /\ Counts(<<>>)
    BY EmptySeq DEF Counts
  <2>3. Withdrawn("server") = <<>>
    <3>1. Len(<<>>) - Len(<<>>) = 0
      BY <2>2
    <3>2. SubSeq(<<>>, 1, Len(<<>>) - Len(<<>>)) = <<>>
      <4> DEFINE n == Len(<<>>) - Len(<<>>)
      <4>1. n \in Int /\ n < 1 /\ 1 \in Int
        BY <3>1
      <4> HIDE DEF n
      <4>2. SubSeq(<<>>, 1, n) = <<>>
        BY <4>1, SubSeqEmpty, Zenon
      <4> QED BY <4>2 DEF n
    <3> QED BY <2>1, <3>2, Zenon DEF Withdrawn
  <2>4. Arriving(chan["client"], net["client"], delivered["client"])
    BY <2>1 DEF Arriving, Fresh
  <2> QED BY <2>1, <2>2, <2>3, <2>4, Zenon DEF Whole
<1>2. Whole => NoHoleFromServer
  BY DEF Whole, Counts, NoHoleFromServer
<1> QED BY <1>1, <1>2, Invariant, WholeStep, PTL DEF Spec
=============================================================================
