------------------------ MODULE ClientReliableProofs ------------------------
(***************************************************************************)
(* What ClientReliable keeps for every size of the buffers, every number   *)
(* of them and every mix of writers: buffers do not grow beyond their      *)
(* size, a slow client does not end the server, and no block is lost or    *)
(* overtaken on its way through the back buffers.                          *)
(*                                                                         *)
(* The first part is about Waiting, the contents of any row of buffers     *)
(* one after the other; the second has a lemma per invariant and a step    *)
(* per action.                                                             *)
(***************************************************************************)
EXTENDS ClientReliable, SequenceTheorems, WellFoundedInduction, TLAPS

-----------------------------------------------------------------------------
(* Induction, about sets and functions: what first-order provers can use. *)

\* A set of natural numbers that is not empty has a smallest element.
LEMMA SmallestElement ==
    ASSUME NEW T \in SUBSET Nat, T # {}
    PROVE  \E x \in T : \A y \in T : x <= y
<1>1. PICK x \in T : \A y \in T : ~(<<y, x>> \in OpToRel(<, Nat))
  BY NatLessThanWellFounded, WFMin, Zenon
<1>2. \A a, b \in Nat : a < b => <<a, b>> \in OpToRel(<, Nat)
  BY Zenon DEF OpToRel
<1>3. \A y \in T : ~(y < x)
  BY <1>1, <1>2, Zenon
<1> QED BY <1>3

\* A set that has 0 and with every number up to n its successor has them all.
LEMMA SetInductionUpTo ==
    ASSUME NEW n \in Nat, NEW S, 0 \in S,
           \A i \in 0..n - 1 : i \in S => i + 1 \in S
    PROVE  \A i \in 0..n : i \in S
<1> DEFINE T == {i \in 0..n : i \notin S}
<1> SUFFICES ASSUME T # {} PROVE FALSE
  OBVIOUS
<1>1. \E x \in T : \A y \in T : x <= y
  <2>1. T \in SUBSET Nat
    OBVIOUS
  <2> HIDE DEF T
  <2> QED BY <2>1, SmallestElement
<1>2. PICK x \in T : \A y \in T : x <= y
  BY <1>1
<1>3. x \in 1..n /\ x - 1 \in 0..n - 1 /\ x - 1 \in S
  <2>1. x \in 1..n /\ x - 1 \in 0..n - 1
    OBVIOUS
  <2> QED BY <1>2, <2>1
<1>4. (x - 1) + 1 \in S
  BY <1>3
<1> QED BY <1>3, <1>4

\* f starts at base and goes on with D, up to n
Recursion(f, n, base, D) == /\ f[0] = base
                            /\ \A i \in 1..n : f[i] = D[<<i, f[i - 1]>>]

\* There is such a function, up to any n.
LEMMA RecursionExists ==
    ASSUME NEW n \in Nat, NEW S, NEW base \in S, NEW D \in [(1..n) \X S -> S]
    PROVE  \E f \in [0..n -> S] : Recursion(f, n, base, D)
<1> DEFINE T == {m \in 0..n : \E f \in [0..m -> S] : Recursion(f, m, base, D)}
<1>1. 0 \in T
  <2>1. /\ [i \in 0..0 |-> base] \in [0..0 -> S]
        /\ Recursion([i \in 0..0 |-> base], 0, base, D)
    BY DEF Recursion
  <2>2. 0 \in 0..n
    OBVIOUS
  <2> QED BY <2>1, <2>2
<1>2. ASSUME NEW m \in 0..n - 1, m \in T PROVE m + 1 \in T
  <2>1. PICK f \in [0..m -> S] : Recursion(f, m, base, D)
    BY <1>2
  <2> DEFINE g == [i \in 0..m + 1 |-> IF i = m + 1 THEN D[<<m + 1, f[m]>>] ELSE f[i]]
  <2>2. D[<<m + 1, f[m]>>] \in S
    OBVIOUS
  <2>3. g \in [0..m + 1 -> S]
    BY <2>2
  <2>4. /\ g[m + 1] = D[<<m + 1, f[m]>>]
        /\ \A i \in 0..m : g[i] = f[i]
    OBVIOUS
  <2> HIDE DEF g
  <2>5. Recursion(g, m + 1, base, D)
    <3>1. g[0] = base
      BY <2>1, <2>4 DEF Recursion
    <3>2. ASSUME NEW i \in 1..m + 1 PROVE g[i] = D[<<i, g[i - 1]>>]
      <4>1. CASE i = m + 1
        BY <2>4, <4>1
      <4>2. CASE i \in 1..m
        BY <2>1, <2>4, <4>2 DEF Recursion
      <4> QED BY <4>1, <4>2
    <3> QED BY <3>1, <3>2 DEF Recursion
  <2> QED BY <2>3, <2>5
<1> HIDE DEF T
<1>3. n \in T
  <2>1. \A m \in 0..n : m \in T
    BY <1>1, <1>2, SetInductionUpTo, Zenon
  <2> QED BY <2>1
<1> QED BY <1>3 DEF T

\* Two functions that start alike and go on alike are alike.
LEMMA SameRecursion ==
    ASSUME NEW n \in Nat, NEW f, NEW g, f[0] = g[0],
           \A i \in 0..n - 1 : f[i] = g[i] => f[i + 1] = g[i + 1]
    PROVE  f[n] = g[n]
<1> DEFINE S == {i \in 0..n : f[i] = g[i]}
<1>1. 0 \in S
  OBVIOUS
<1>2. \A i \in 0..n - 1 : i \in S => i + 1 \in S
  OBVIOUS
<1> HIDE DEF S
<1>3. \A i \in 0..n : i \in S
  BY <1>1, <1>2, SetInductionUpTo, Zenon
<1> QED BY <1>3 DEF S

-----------------------------------------------------------------------------
(* What a row of back buffers holds. *)

Block == 1..MaxBlocks

\* u[i] is what the first i of the buffers hold
Contents(bufs, u) ==
    /\ u[0] = <<>>
    /\ \A i \in 1..Len(bufs) : u[i] = u[i - 1] \o bufs[i].blocks

\* Waiting, for any row
Joined(bufs) ==
    LET upTo[i \in 0..Len(bufs)] ==
            IF i = 0 THEN <<>> ELSE upTo[i - 1] \o bufs[i].blocks
    IN  upTo[Len(bufs)]

\* Concatenation of blocks is associative.
LEMMA BlocksAssociative ==
    \A a, b, c \in Seq(Block) : (a \o b) \o c = a \o (b \o c)
BY ConcatAssociative

\* The recursive function in Waiting exists, and is what it says.
LEMMA JoinedExists ==
    ASSUME NEW bufs \in Seq(Buffer)
    PROVE  \E u \in [0..Len(bufs) -> Seq(Block)] :
              Contents(bufs, u) /\ Joined(bufs) = u[Len(bufs)]
<1> DEFINE n == Len(bufs)
           D == [x \in (1..n) \X Seq(Block) |-> x[2] \o bufs[x[1]].blocks]
<1>1. n \in Nat /\ \A i \in 1..n : bufs[i] \in Buffer
  BY LenProperties, ElementOfSeq
<1>2. D \in [(1..n) \X Seq(Block) -> Seq(Block)]
  <2> SUFFICES ASSUME NEW i \in 1..n, NEW s \in Seq(Block)
               PROVE  s \o bufs[i].blocks \in Seq(Block)
    OBVIOUS
  <2>1. bufs[i].blocks \in Seq(Block)
    BY <1>1 DEF Buffer, Block
  <2> QED BY <2>1, ConcatProperties
<1>3. <<>> \in Seq(Block)
  BY EmptySeq
<1>4. \A i \in 1..n, s \in Seq(Block) : D[<<i, s>>] = s \o bufs[i].blocks
  OBVIOUS
<1> HIDE DEF D, n
<1>5. PICK u \in [0..n -> Seq(Block)] : Recursion(u, n, <<>>, D)
  BY <1>1, <1>2, <1>3, RecursionExists, Zenon
<1>6. u[0] = <<>> /\ \A i \in 1..n : u[i] = u[i - 1] \o bufs[i].blocks
  <2>1. \A i \in 1..n : i - 1 \in 0..n
    BY <1>1
  <2> QED BY <1>4, <1>5, <2>1 DEF Recursion
<1> DEFINE g == CHOOSE f : f = [i \in 0..Len(bufs) |->
                                  IF i = 0 THEN <<>> ELSE f[i - 1] \o bufs[i].blocks]
<1>7. u = [i \in 0..Len(bufs) |-> IF i = 0 THEN <<>> ELSE u[i - 1] \o bufs[i].blocks]
  <2>1. u = [i \in 0..n |-> u[i]]
    BY <1>5
  <2>2. \A i \in 0..n : i # 0 => i \in 1..n
    BY <1>1
  <2>3. \A i \in 0..n : u[i] = IF i = 0 THEN <<>> ELSE u[i - 1] \o bufs[i].blocks
    BY <1>6, <2>2, Zenon
  <2> QED BY <2>1, <2>3, Zenon DEF n
<1>8. g = [i \in 0..Len(bufs) |-> IF i = 0 THEN <<>> ELSE g[i - 1] \o bufs[i].blocks]
  BY <1>7, Zenon
<1>9. Joined(bufs) = g[Len(bufs)]
  BY Zenon DEF Joined
<1> HIDE DEF g
<1>10. g[0] = <<>> /\ \A i \in 1..n : g[i] = g[i - 1] \o bufs[i].blocks
  <2>1. \A i \in 0..n : g[i] = IF i = 0 THEN <<>> ELSE g[i - 1] \o bufs[i].blocks
    BY <1>8, Zenon DEF n
  <2> QED BY <1>1, <2>1, SMTT(40)
<1>11. g[n] = u[n]
  <2>1. \A i \in 0..n - 1 : i + 1 \in 1..n /\ (i + 1) - 1 = i
    BY <1>1
  <2>2. \A i \in 0..n - 1 : /\ g[i + 1] = g[i] \o bufs[i + 1].blocks
                            /\ u[i + 1] = u[i] \o bufs[i + 1].blocks
    BY <1>6, <1>10, <2>1
  <2>3. g[0] = u[0] /\ \A i \in 0..n - 1 : g[i] = u[i] => g[i + 1] = u[i + 1]
    BY <1>6, <1>10, <2>2
  <2> QED BY <1>1, <2>3, SameRecursion, Zenon
<1> QED BY <1>5, <1>6, <1>9, <1>11 DEF n, Contents

\* The contents of a row determine what it holds.
LEMMA JoinedIs ==
    ASSUME NEW bufs \in Seq(Buffer), NEW v, Contents(bufs, v)
    PROVE  Joined(bufs) = v[Len(bufs)]
<1>1. PICK u \in [0..Len(bufs) -> Seq(Block)] :
         Contents(bufs, u) /\ Joined(bufs) = u[Len(bufs)]
  BY JoinedExists
<1> DEFINE n == Len(bufs)
<1>2. n \in Nat
  BY LenProperties
<1>3. u[0] = v[0]
  BY <1>1 DEF Contents
<1>4. ASSUME NEW i \in 0..n - 1, u[i] = v[i] PROVE u[i + 1] = v[i + 1]
  <2>1. i + 1 \in 1..n /\ (i + 1) - 1 = i
    BY <1>2
  <2>2. u[i + 1] = u[i] \o bufs[i + 1].blocks /\ v[i + 1] = v[i] \o bufs[i + 1].blocks
    BY <1>1, <2>1 DEF Contents
  <2> QED BY <1>4, <2>2, Zenon
<1> HIDE DEF n
<1>5. u[n] = v[n]
  BY <1>2, <1>3, <1>4, SameRecursion, Zenon
<1> QED BY <1>1, <1>5 DEF n

\* A row holds a sequence of blocks, and an empty row nothing.
LEMMA JoinedType ==
    /\ \A bufs \in Seq(Buffer) : Joined(bufs) \in Seq(Block)
    /\ Joined(<<>>) = <<>>
<1>1. ASSUME NEW bufs \in Seq(Buffer) PROVE Joined(bufs) \in Seq(Block)
  <2>1. PICK u \in [0..Len(bufs) -> Seq(Block)] : Joined(bufs) = u[Len(bufs)]
    BY JoinedExists
  <2>2. Len(bufs) \in 0..Len(bufs)
    BY LenProperties
  <2> QED BY <2>1, <2>2
<1>2. Joined(<<>>) = <<>>
  <2>1. <<>> \in Seq(Buffer) /\ Len(<<>>) = 0
    BY EmptySeq
  <2>2. PICK u \in [0..0 -> Seq(Block)] : Contents(<<>>, u) /\ Joined(<<>>) = u[0]
    BY <2>1, JoinedExists
  <2> QED BY <2>2 DEF Contents
<1> QED BY <1>1, <1>2

\* Rows that agree up to one buffer from the end hold the same up to there, and
\* then what the last buffer holds.
LEMMA JoinedLast ==
    ASSUME NEW s \in Seq(Buffer), NEW b \in Buffer
    PROVE  Joined(Append(s, b)) = Joined(s) \o b.blocks
<1> DEFINE r == Append(s, b)
           n == Len(s)
<1>1. n \in Nat
  BY LenProperties
<1>2. /\ r \in Seq(Buffer) /\ Len(r) = n + 1 /\ r[n + 1] = b
      /\ \A i \in 1..n : r[i] = s[i]
  BY AppendProperties
<1> HIDE DEF r, n
<1>3. PICK u \in [0..n + 1 -> Seq(Block)] : Contents(r, u) /\ Joined(r) = u[n + 1]
  BY <1>2, JoinedExists
<1>4. Contents(s, u)
  <2>1. ASSUME NEW i \in 1..n PROVE u[i] = u[i - 1] \o s[i].blocks
    <3>1. i \in 1..n + 1
      BY <1>1
    <3> QED BY <1>2, <1>3, <3>1 DEF Contents
  <2> QED BY <1>3, <2>1 DEF Contents, n
<1>5. Joined(s) = u[n]
  BY <1>4, JoinedIs, Zenon DEF n
<1>6. n + 1 \in 1..n + 1 /\ (n + 1) - 1 = n
  BY <1>1
<1>7. u[n + 1] = u[n] \o r[n + 1].blocks
  BY <1>2, <1>3, <1>6 DEF Contents
<1> QED BY <1>2, <1>3, <1>5, <1>7 DEF r

\* A block put at the end of the last buffer is the last of the row.
LEMMA JoinedFilled ==
    ASSUME NEW s \in Seq(Buffer), s # <<>>, NEW b \in Buffer, NEW x \in Block,
           b.blocks = Append(s[Len(s)].blocks, x)
    PROVE  Joined([s EXCEPT ![Len(s)] = b]) = Append(Joined(s), x)
<1>1. PICK f \in Seq(Buffer), l \in Buffer : s = Append(f, l)
  BY SequenceEmptyOrAppend
<1>2. Len(s) = Len(f) + 1 /\ s[Len(s)] = l /\ Len(f) \in Nat
  BY <1>1, AppendProperties, LenProperties
<1>3. [s EXCEPT ![Len(s)] = b] = Append(f, b)
  <2> DEFINE z == [s EXCEPT ![Len(s)] = b]
             y == Append(f, b)
  <2>1. /\ z \in Seq(Buffer) /\ Len(z) = Len(s)
        /\ \A i \in 1..Len(s) : z[i] = IF i = Len(s) THEN b ELSE s[i]
    BY <1>2, ExceptSeq
  <2>2. /\ y \in Seq(Buffer) /\ Len(y) = Len(f) + 1 /\ y[Len(f) + 1] = b
        /\ \A i \in 1..Len(f) : y[i] = f[i]
    BY AppendProperties
  <2>3. \A i \in 1..Len(f) : s[i] = f[i]
    BY <1>1, AppendProperties
  <2> HIDE DEF y, z
  <2>4. \A i \in 1..Len(z) : z[i] = y[i]
    BY <1>2, <2>1, <2>2, <2>3, SMTT(40)
  <2>5. z = y
    BY <1>2, <2>1, <2>2, <2>4, SeqEqual
  <2> QED BY <2>5 DEF y, z
<1>4. /\ Joined(Append(f, b)) = Joined(f) \o b.blocks
      /\ Joined(s) = Joined(f) \o l.blocks
  BY <1>1, JoinedLast
<1>5. b.blocks = l.blocks \o <<x>> /\ l.blocks \in Seq(Block) /\ <<x>> \in Seq(Block)
  <2>1. l.blocks \in Seq(Block)
    BY DEF Buffer, Block
  <2> QED BY <1>2, <2>1, AppendIsConcat
<1>6. Joined(f) \in Seq(Block) /\ Joined(f) \o l.blocks \in Seq(Block)
  BY <1>5, JoinedType, ConcatProperties
<1>7. Joined(f) \o (l.blocks \o <<x>>) = (Joined(f) \o l.blocks) \o <<x>>
  BY <1>5, <1>6, BlocksAssociative, ZenonT(60)
<1>8. (Joined(f) \o l.blocks) \o <<x>> = Append(Joined(f) \o l.blocks, x)
  BY <1>6, AppendIsConcat
<1> QED BY <1>3, <1>4, <1>5, <1>7, <1>8

\* The flush takes the first buffer and leaves what the others hold.
LEMMA JoinedFirst ==
    ASSUME NEW s \in Seq(Buffer), s # <<>>
    PROVE  Joined(s) = s[1].blocks \o Joined(Tail(s))
<1> DEFINE t == Tail(s)
           n == Len(t)
           h == s[1].blocks
<1>1. /\ t \in Seq(Buffer) /\ Len(s) = n + 1 /\ n \in Nat
      /\ \A i \in 1..n : t[i] = s[i + 1] /\ t[i].blocks \in Seq(Block)
      /\ h \in Seq(Block)
  <2>1. Len(s) \in Nat \ {0}
    BY EmptySeq, LenProperties
  <2>2. /\ t \in Seq(Buffer) /\ Len(t) = Len(s) - 1
        /\ \A i \in 1..n : t[i] = s[i + 1]
    BY HeadTailProperties
  <2>3. s[1] \in Buffer /\ \A i \in 1..n : t[i] \in Buffer
    BY <2>1, <2>2, ElementOfSeq
  <2> QED BY <2>1, <2>2, <2>3, SMTT(40) DEF Buffer, Block
<1> HIDE DEF t, n, h
<1>2. PICK u \in [0..n + 1 -> Seq(Block)] : Contents(s, u) /\ Joined(s) = u[n + 1]
  BY <1>1, JoinedExists
<1>3. PICK w \in [0..n -> Seq(Block)] : Contents(t, w) /\ Joined(t) = w[n]
  BY <1>1, JoinedExists DEF n
<1> DEFINE f == [i \in 0..n |-> u[i + 1]]
           g == [i \in 0..n |-> h \o w[i]]
<1>4. f[0] = g[0]
  <2>1. f[0] = u[1] /\ g[0] = h \o w[0] /\ 1 \in 1..n + 1 /\ 1 - 1 = 0
    BY <1>1
  <2>2. u[1] = u[0] \o s[1].blocks /\ u[0] = <<>> /\ w[0] = <<>>
    BY <1>1, <1>2, <1>3, <2>1 DEF Contents
  <2> QED BY <1>1, <2>1, <2>2, ConcatEmptySeq, ZenonT(60) DEF h
<1>5. ASSUME NEW i \in 0..n - 1, f[i] = g[i] PROVE f[i + 1] = g[i + 1]
  <2>1. /\ i \in 0..n /\ i + 1 \in 1..n /\ i + 1 \in 0..n /\ i + 2 \in 1..n + 1
        /\ (i + 1) + 1 = i + 2 /\ (i + 2) - 1 = i + 1 /\ (i + 1) - 1 = i
    BY <1>1
  <2>2. /\ f[i] = u[i + 1] /\ f[i + 1] = u[i + 2]
        /\ g[i] = h \o w[i] /\ g[i + 1] = h \o w[i + 1]
    BY <2>1
  <2> HIDE DEF f, g
  <2>3. u[i + 2] = u[i + 1] \o s[i + 2].blocks
    BY <1>1, <1>2, <2>1 DEF Contents
  <2>4. w[i + 1] = w[i] \o t[i + 1].blocks
    BY <1>1, <1>3, <2>1 DEF Contents, n
  <2>5. t[i + 1] = s[i + 2] /\ t[i + 1].blocks \in Seq(Block) /\ w[i] \in Seq(Block)
    BY <1>1, <1>3, <2>1
  <2>6. h \o (w[i] \o t[i + 1].blocks) = (h \o w[i]) \o t[i + 1].blocks
    BY <1>1, <2>5, BlocksAssociative, ZenonT(60)
  <2> QED BY <1>5, <2>2, <2>3, <2>4, <2>5, <2>6, Zenon
<1> HIDE DEF f, g
<1>6. f[n] = g[n]
  BY <1>1, <1>4, <1>5, SameRecursion, Zenon
<1>7. f[n] = u[n + 1] /\ g[n] = h \o w[n]
  BY <1>1 DEF f, g
<1> QED BY <1>2, <1>3, <1>6, <1>7 DEF h, t

-----------------------------------------------------------------------------
(* The operators of the model. *)

\* The constants and the empty buffer.
LEMMA Sizes ==
    /\ MaxSize \in Nat /\ MaxBackSize \in Nat /\ MaxBackBuffers \in Nat \ {0}
    /\ MaxBackSize <= MaxSize /\ MaxBlocks \in Nat
    /\ \A block \in Blocks : /\ block.size \in 1..MaxBackSize
                              /\ block.estimate \in Nat
    /\ Empty \in Buffer /\ Empty.size = 0 /\ Empty.blocks = <<>>
<1>1. Empty \in Buffer /\ Empty.size = 0 /\ Empty.blocks = <<>>
  BY EmptySeq DEF Empty, Buffer
<1>2. /\ MaxSize \in Nat /\ MaxBackSize \in Nat /\ MaxBackBuffers \in Nat \ {0}
      /\ MaxBackSize <= MaxSize /\ MaxBlocks \in Nat
  BY SizesAssumption
<1>3. \A block \in Blocks : /\ block.size \in 1..MaxBackSize
                            /\ block.estimate \in Nat
  BY SizesAssumption
<1> QED BY <1>1, <1>2, <1>3

\* SZ_GetSpace leaves a buffer; one that did not overflow has the block at its end.
LEMMA AddedFields ==
    ASSUME NEW b \in Buffer, NEW size \in Nat, NEW max \in Nat,
           offered \in Nat, offered < MaxBlocks
    PROVE  /\ Added(b, size, max) \in Buffer
           /\ size <= max => Added(b, size, max).size <= max
           /\ ~Overflows(b, size, max) =>
                 Added(b, size, max).blocks = Append(b.blocks, offered + 1)
<1>1. b.size \in Nat /\ b.blocks \in Seq(Block) /\ offered + 1 \in Block
  BY Sizes DEF Buffer, Block
<1>2. Append(b.blocks, offered + 1) \in Seq(Block) /\ <<offered + 1>> \in Seq(Block)
  BY <1>1, AppendProperties
<1>3. CASE Overflows(b, size, max)
  <2>1. Added(b, size, max) = [size |-> size, blocks |-> <<offered + 1>>]
    BY <1>3 DEF Added
  <2> QED BY <1>2, <1>3, <2>1 DEF Buffer, Block
<1>4. CASE ~Overflows(b, size, max)
  <2>1. Added(b, size, max) = [size |-> b.size + size, blocks |-> Append(b.blocks, offered + 1)]
    BY <1>4 DEF Added
  <2> QED BY <1>1, <1>2, <1>4, <2>1 DEF Buffer, Block, Overflows
<1> QED BY <1>3, <1>4

\* Buffers of a row are buffers of the right size, and the one written to is one of them.
BackBuffers(bufs) ==
    /\ bufs \in Seq(Buffer)
    /\ Len(bufs) <= MaxBackBuffers
    /\ \A i \in 1..Len(bufs) : bufs[i].size <= MaxBackSize

\* ClientReliableCheckBlock begins another back buffer if it has to: what waits stays.
LEMMA StartedType ==
    ASSUME BackBuffers(backbufs)
    PROVE  /\ BackBuffers(Started) /\ Started # <<>>
           /\ Len(Started) \in Nat \ {0}
           /\ Current \in Buffer /\ Current.size \in Nat
           /\ Joined(Started) = Joined(backbufs)
<1>1. CASE backbufs = <<>>
  <2>1. Started = <<Empty>> /\ Len(Started) = 1 /\ Started[1] = Empty
    BY <1>1 DEF Started
  <2>2. Started \in Seq(Buffer)
    BY <2>1, Sizes
  <2>3. Started = Append(<<>>, Empty) /\ <<>> \in Seq(Buffer)
    BY <2>1, EmptySeq
  <2>4. Joined(Started) = <<>>
    <3>1. Joined(Started) = Joined(<<>>) \o Empty.blocks
      BY <2>3, Sizes, JoinedLast, Zenon
    <3> QED BY <3>1, Sizes, JoinedType, EmptySeq, ConcatEmptySeq
  <2>5. Current = Empty
    BY <2>1 DEF Current
  <2>6. \A i \in 1..Len(Started) : Started[i].size <= MaxBackSize
    BY <2>1, Sizes
  <2> QED BY <1>1, <2>1, <2>2, <2>4, <2>5, <2>6, Sizes, JoinedType DEF BackBuffers
<1>2. CASE backbufs # <<>>
  <2>1. Started = backbufs
    BY <1>2 DEF Started
  <2>2. Len(backbufs) \in Nat \ {0}
    BY <1>2, EmptySeq, LenProperties DEF BackBuffers
  <2>3. Current \in Buffer
    BY <2>1, <2>2, ElementOfSeq DEF BackBuffers, Current
  <2> QED BY <1>2, <2>1, <2>2, <2>3 DEF BackBuffers, Buffer
<1> QED BY <1>1, <1>2

\* Writing the last buffer of a row leaves a row of as many.
LEMMA FilledType ==
    ASSUME NEW bufs, BackBuffers(bufs), bufs # <<>>, NEW b \in Buffer, b.size <= MaxBackSize
    PROVE  BackBuffers([bufs EXCEPT ![Len(bufs)] = b])
<1>1. Len(bufs) \in 1..Len(bufs)
  BY EmptySeq, LenProperties DEF BackBuffers
<1> DEFINE z == [bufs EXCEPT ![Len(bufs)] = b]
<1>2. /\ z \in Seq(Buffer) /\ Len(z) = Len(bufs)
      /\ \A i \in 1..Len(bufs) : z[i] = IF i = Len(bufs) THEN b ELSE bufs[i]
  BY <1>1, ExceptSeq DEF BackBuffers
<1> HIDE DEF z
<1>3. \A i \in 1..Len(z) : z[i].size <= MaxBackSize
  BY <1>2 DEF BackBuffers
<1>4. BackBuffers(z)
  BY <1>2, <1>3 DEF BackBuffers
<1> QED BY <1>4 DEF z

\* A new buffer at the end of a row.
LEMMA LongerType ==
    ASSUME NEW bufs, BackBuffers(bufs), Len(bufs) < MaxBackBuffers
    PROVE  BackBuffers(Append(bufs, Empty)) /\ Append(bufs, Empty) # <<>>
<1> DEFINE z == Append(bufs, Empty)
<1>1. /\ z \in Seq(Buffer) /\ z # <<>> /\ Len(z) = Len(bufs) + 1
      /\ z[Len(bufs) + 1] = Empty /\ Len(bufs) \in Nat
      /\ \A i \in 1..Len(bufs) : z[i] = bufs[i]
  BY Sizes, AppendProperties, LenProperties DEF BackBuffers
<1> HIDE DEF z
<1>2. \A i \in 1..Len(z) : z[i].size <= MaxBackSize
  BY <1>1, Sizes DEF BackBuffers
<1>3. BackBuffers(z) /\ z # <<>>
  BY <1>1, <1>2, Sizes DEF BackBuffers
<1> QED BY <1>3 DEF z

\* The flush leaves a message of the right size and a shorter row.
LEMMA FlushedType ==
    ASSUME TypeOK
    PROVE  /\ Flushed \in Buffer /\ Flushed.size <= MaxSize
           /\ Flushes => BackBuffers(Tail(backbufs))
<1>1. CASE Flushes
  <2>1. Len(backbufs) \in Nat \ {0} /\ backbufs # <<>> /\ backbufs \in Seq(Buffer)
    BY <1>1, EmptySeq, LenProperties DEF Flushes, TypeOK
  <2>2. backbufs[1] \in Buffer /\ message \in Buffer
    BY <2>1, ElementOfSeq DEF TypeOK
  <2>3. message.blocks \o backbufs[1].blocks \in Seq(Block)
    <3>1. message.blocks \in Seq(Block) /\ backbufs[1].blocks \in Seq(Block)
      BY <2>2 DEF Buffer, Block
    <3> QED BY <3>1, ConcatProperties
  <2>4. Flushed = [size |-> message.size + backbufs[1].size,
                   blocks |-> message.blocks \o backbufs[1].blocks]
    BY <1>1 DEF Flushed
  <2>5. Flushed \in Buffer /\ Flushed.size <= MaxSize
    BY <1>1, <2>2, <2>3, <2>4, Sizes DEF Buffer, Block, Flushes, FitsMessage
  <2> DEFINE z == Tail(backbufs)
  <2>6. /\ z \in Seq(Buffer) /\ Len(z) = Len(backbufs) - 1
        /\ \A i \in 1..Len(z) : z[i] = backbufs[i + 1]
    BY <2>1, HeadTailProperties
  <2> HIDE DEF z
  <2>7. BackBuffers(z)
    <3>1. \A i \in 1..Len(z) : i + 1 \in 1..Len(backbufs)
      BY <2>1, <2>6
    <3>2. \A i \in 1..Len(z) : z[i].size <= MaxBackSize
      BY <2>6, <3>1 DEF TypeOK
    <3>3. Len(z) <= MaxBackBuffers
      BY <2>1, <2>6, Sizes DEF TypeOK
    <3> QED BY <2>6, <3>2, <3>3 DEF BackBuffers
  <2> QED BY <2>5, <2>7 DEF z
<1>2. CASE ~Flushes
  BY <1>2 DEF Flushed, TypeOK
<1> QED BY <1>1, <1>2

\* The part of TypeOK about the back buffers, and the flags that are only set to
\* truth values.
Flags == /\ overflowed \in BOOLEAN /\ allowoverflow \in BOOLEAN /\ drop \in BOOLEAN
         /\ in_flight \in BOOLEAN /\ dropped \in BOOLEAN /\ sys_error \in BOOLEAN
         /\ exceeded \in BOOLEAN

\* TypeOK, part by part.
LEMMA TypeParts ==
    TypeOK <=> /\ message \in Buffer /\ message.size <= MaxSize
               /\ BackBuffers(backbufs)
               /\ Flags
               /\ offered \in 0..MaxBlocks /\ handed \in Seq(Block)
BY DEF TypeOK, BackBuffers, Flags, Block

\* What filling a back buffer does: the row keeps its type, and unless the buffer
\* overflowed the block is now the last of the row.
LEMMA FillBackKeeps ==
    ASSUME NEW buffers, BackBuffers(buffers), buffers # <<>>,
           NEW b \in Buffer, NEW block \in Blocks, NEW allowed \in BOOLEAN,
           NEW over \in BOOLEAN, offered \in Nat, offered < MaxBlocks,
           FillBack(buffers, b, block, allowed, over)
    PROVE  /\ BackBuffers(backbufs')
           /\ message' = message
           /\ allowoverflow' = allowed
           /\ overflowed' = (over \/ Overflows(b, block.size, MaxBackSize))
           /\ sys_error' = (Overflows(b, block.size, MaxBackSize) /\ ~allowed)
           /\ ~overflowed' /\ b.blocks = buffers[Len(buffers)].blocks =>
                 Joined(backbufs') = Append(Joined(buffers), offered + 1)
<1> DEFINE a == Added(b, block.size, MaxBackSize)
<1>1. /\ backbufs' = [buffers EXCEPT ![Len(buffers)] = a]
      /\ message' = message
      /\ allowoverflow' = allowed
      /\ overflowed' = (over \/ Overflows(b, block.size, MaxBackSize))
      /\ sys_error' = (Overflows(b, block.size, MaxBackSize) /\ ~allowed)
  BY DEF FillBack
<1>2. block.size \in Nat /\ block.size <= MaxBackSize /\ MaxBackSize \in Nat
  BY Sizes
<1>3. /\ a \in Buffer /\ a.size <= MaxBackSize
      /\ ~Overflows(b, block.size, MaxBackSize) => a.blocks = Append(b.blocks, offered + 1)
  BY <1>2, AddedFields
<1> HIDE DEF a
<1>4. BackBuffers(backbufs')
  BY <1>1, <1>3, FilledType
<1>5. ASSUME ~overflowed', b.blocks = buffers[Len(buffers)].blocks
      PROVE  Joined(backbufs') = Append(Joined(buffers), offered + 1)
  <2>1. a.blocks = Append(buffers[Len(buffers)].blocks, offered + 1)
    BY <1>1, <1>3, <1>5
  <2>2. offered + 1 \in Block
    BY Sizes DEF Block
  <2>3. buffers \in Seq(Buffer)
    BY DEF BackBuffers
  <2> QED BY <1>1, <1>3, <2>1, <2>2, <2>3, JoinedFilled
<1> QED BY <1>1, <1>4, <1>5

-----------------------------------------------------------------------------
(* TypeOK. *)

\* A client's buffers are well formed when it connects.
LEMMA InitType == Init => TypeOK
<1> SUFFICES ASSUME Init PROVE TypeOK
  OBVIOUS
<1>1. /\ message = Empty /\ backbufs = <<>> /\ handed = <<>> /\ offered = 0
      /\ Flags
  BY DEF Init, Flags
<1>2. BackBuffers(backbufs) /\ handed \in Seq(Block)
  BY <1>1, EmptySeq, Sizes DEF BackBuffers
<1> QED BY <1>1, <1>2, Sizes, TypeParts

\* ClientReliableCheckBlock and the write, whichever way it takes.
LEMMA WriteType ==
    ASSUME TypeOK, NEW block \in Blocks, Write(block)
    PROVE  TypeOK'
<1>1. /\ offered \in Nat /\ offered < MaxBlocks /\ offered' = offered + 1
      /\ exceeded' = (exceeded \/ block.size > block.estimate)
      /\ in_flight' = in_flight /\ dropped' = dropped /\ handed' = handed
      /\ \/ WriteMessage(block) \/ WriteBack(block)
         \/ WriteNextBack(block) \/ WriteNoBack(block)
  BY Sizes DEF Write, TypeOK
<1>2. /\ message \in Buffer /\ message.size <= MaxSize /\ BackBuffers(backbufs) /\ Flags
      /\ handed \in Seq(Block)
  BY TypeParts
<1>3. /\ offered' \in 0..MaxBlocks /\ handed' \in Seq(Block)
      /\ in_flight' \in BOOLEAN /\ dropped' \in BOOLEAN /\ exceeded' \in BOOLEAN
  BY <1>1, <1>2, Sizes DEF Flags
<1>4. /\ BackBuffers(Started) /\ Started # <<>> /\ Len(Started) \in Nat
      /\ Current \in Buffer
  BY <1>2, StartedType
<1>5. SUFFICES /\ message' \in Buffer /\ message'.size <= MaxSize /\ BackBuffers(backbufs')
               /\ overflowed' \in BOOLEAN /\ allowoverflow' \in BOOLEAN
               /\ drop' \in BOOLEAN /\ sys_error' \in BOOLEAN
  BY <1>3 DEF TypeOK, Flags, BackBuffers, Block
<1>6. CASE WriteMessage(block)
  <2>1. /\ message' = Added(message, block.size, MaxSize)
        /\ overflowed' = (overflowed \/ Overflows(message, block.size, MaxSize))
        /\ UNCHANGED <<backbufs, allowoverflow, drop, sys_error>>
    BY <1>6 DEF WriteMessage
  <2>2. block.size \in Nat /\ block.size <= MaxSize
    BY Sizes
  <2>3. message' \in Buffer /\ message'.size <= MaxSize
    BY <1>1, <1>2, <2>1, <2>2, Sizes, AddedFields
  <2> QED BY <1>2, <2>1, <2>3 DEF Flags
<1>7. CASE WriteBack(block)
  <2>1. /\ FillBack(Started, Current, block, allowoverflow \/ backbufs = <<>>, overflowed)
        /\ drop' = drop
    BY <1>7 DEF WriteBack
  <2>2. (allowoverflow \/ backbufs = <<>>) \in BOOLEAN /\ overflowed \in BOOLEAN
    BY <1>2 DEF Flags
  <2> QED BY <1>1, <1>2, <1>4, <2>1, <2>2, FillBackKeeps, ZenonT(60) DEF Flags
<1>8. CASE WriteNextBack(block)
  <2> DEFINE z == Append(Started, Empty)
  <2>1. /\ FillBack(z, Empty, block, TRUE, overflowed)
        /\ Len(Started) < MaxBackBuffers /\ drop' = drop
    BY <1>8 DEF WriteNextBack
  <2>2. BackBuffers(z) /\ z # <<>>
    BY <1>4, <2>1, LongerType
  <2> HIDE DEF z
  <2> QED BY <1>1, <1>2, <2>1, <2>2, Sizes, FillBackKeeps, ZenonT(60) DEF Flags
<1>9. CASE WriteNoBack(block)
  <2>1. /\ FillBack(Started, Empty, block, allowoverflow \/ backbufs = <<>>, TRUE)
        /\ drop' = TRUE
    BY <1>9 DEF WriteNoBack
  <2>2. (allowoverflow \/ backbufs = <<>>) \in BOOLEAN
    BY <1>2 DEF Flags
  <2> QED BY <1>1, <1>2, <1>4, <2>1, <2>2, Sizes, FillBackKeeps DEF Flags
<1> QED BY <1>1, <1>6, <1>7, <1>8, <1>9

\* They stay so, whatever is written and flushed.
LEMMA NextType == TypeOK /\ [Next]_vars => TypeOK'
<1> SUFFICES ASSUME TypeOK, [Next]_vars PROVE TypeOK'
  OBVIOUS
<1>1. ASSUME NEW block \in Blocks, Write(block) PROVE TypeOK'
  BY <1>1, WriteType
<1>2. ASSUME NEW block \in Blocks, WriteDirect(block) PROVE TypeOK'
  <2>1. /\ offered \in Nat /\ offered < MaxBlocks /\ offered' = offered + 1
        /\ message' = Added(message, block.size, MaxSize)
        /\ UNCHANGED <<overflowed, backbufs, allowoverflow, drop, in_flight,
                       dropped, sys_error, exceeded, handed>>
    BY <1>2 DEF WriteDirect, TypeOK
  <2>2. block.size \in Nat /\ block.size <= MaxSize
    BY Sizes
  <2>3. message' \in Buffer /\ message'.size <= MaxSize
    BY <2>1, <2>2, Sizes, AddedFields DEF TypeOK
  <2>4. offered' \in 0..MaxBlocks
    BY <2>1, Sizes
  <2> QED BY <2>1, <2>3, <2>4 DEF TypeOK
<1>3. ASSUME NEW sends \in BOOLEAN, Turn(sends) PROVE TypeOK'
  <2> DEFINE taken == sends /\ ~in_flight /\ Flushed.size > 0
  <2>1. /\ Shifted
        /\ handed' = IF taken THEN handed \o Flushed.blocks ELSE handed
        /\ message' = IF taken THEN Empty ELSE Flushed
        /\ in_flight' = (in_flight \/ taken)
        /\ UNCHANGED <<overflowed, drop, dropped, sys_error, offered, exceeded>>
    BY <1>3 DEF Turn
  <2>2. /\ Flushed \in Buffer /\ Flushed.size <= MaxSize
        /\ Flushes => BackBuffers(Tail(backbufs))
    BY FlushedType
  <2>3. BackBuffers(backbufs') /\ allowoverflow' \in BOOLEAN
    BY <2>1, <2>2 DEF Shifted, TypeOK, BackBuffers
  <2>4. handed \o Flushed.blocks \in Seq(Block) /\ handed \in Seq(Block)
    <3>1. Flushed.blocks \in Seq(Block) /\ handed \in Seq(Block)
      BY <2>2 DEF Buffer, Block, TypeOK
    <3> QED BY <3>1, ConcatProperties
  <2> HIDE DEF taken
  <2>5. handed' \in Seq(Block) /\ message' \in Buffer /\ message'.size <= MaxSize
    BY <2>1, <2>2, <2>4, Sizes
  <2>6. in_flight' \in BOOLEAN
    BY <2>1 DEF TypeOK, taken
  <2> QED BY <2>1, <2>3, <2>5, <2>6 DEF TypeOK, BackBuffers, Block
<1>4. ASSUME DropFlagged PROVE TypeOK'
  BY <1>4 DEF DropFlagged, DropClient, TypeOK
<1>5. ASSUME DropOverflowed PROVE TypeOK'
  <2>1. /\ message' = Empty /\ overflowed' = FALSE /\ dropped' = TRUE
        /\ backbufs' = IF Flushes THEN Tail(backbufs) ELSE backbufs
        /\ UNCHANGED <<allowoverflow, in_flight, handed, drop, sys_error, offered, exceeded>>
    BY <1>5 DEF DropOverflowed, DropClient
  <2>2. BackBuffers(backbufs')
    BY <2>1, FlushedType DEF TypeOK, BackBuffers
  <2>3. message' \in Buffer /\ message'.size <= MaxSize
    BY <2>1, Sizes
  <2> QED BY <2>1, <2>2, <2>3 DEF TypeOK, BackBuffers
<1>6. ASSUME Acknowledged PROVE TypeOK'
  BY <1>6 DEF Acknowledged, TypeOK
<1>7. ASSUME UNCHANGED vars PROVE TypeOK'
  BY <1>7 DEF vars, TypeOK
<1> QED BY <1>1, <1>2, <1>3, <1>4, <1>5, <1>6, <1>7 DEF Next

\* No buffer of sv_nchan.c holds more than it may, and there are at most
\* MAX_BACK_BUFFERS of them.
THEOREM TypeCorrect == Spec => []TypeOK
BY InitType, NextType, PTL DEF Spec

-----------------------------------------------------------------------------
(* SurvivesSlowClients. *)

\* No step brings the server down while writers keep to their estimates.
LEMMA NextSurvives ==
    TypeOK /\ SurvivesSlowClients /\ [Next]_vars => SurvivesSlowClients'
<1> SUFFICES ASSUME TypeOK, SurvivesSlowClients, [Next]_vars, sys_error'
             PROVE  exceeded'
  BY DEF SurvivesSlowClients
<1>1. ASSUME NEW block \in Blocks, Write(block) PROVE exceeded'
  <2>1. /\ ~sys_error
        /\ exceeded' = (exceeded \/ block.size > block.estimate)
        /\ \/ WriteMessage(block) \/ WriteBack(block)
           \/ WriteNextBack(block) \/ WriteNoBack(block)
    BY <1>1 DEF Write, Running
  <2>2. /\ block.size \in Nat /\ block.size <= MaxBackSize /\ block.estimate \in Nat
        /\ MaxBackSize \in Nat /\ Empty.size = 0
    BY Sizes
  <2>3. ~WriteMessage(block)
    BY <2>1 DEF WriteMessage
  <2>4. CASE WriteBack(block)
    <3>1. /\ ~MightOverflow(Current, MaxBackSize, block.estimate)
          /\ Overflows(Current, block.size, MaxBackSize)
      BY <2>4 DEF WriteBack, FillBack
    <3>2. Current.size \in Nat
      BY StartedType, TypeParts
    <3>3. block.size > block.estimate
      BY <2>2, <3>1, <3>2 DEF MightOverflow, Overflows
    <3> QED BY <2>1, <3>3
  <2>5. ~WriteNextBack(block)
    BY DEF WriteNextBack, FillBack
  <2>6. ~WriteNoBack(block)
    <3>1. ~Overflows(Empty, block.size, MaxBackSize)
      BY <2>2 DEF Overflows
    <3> QED BY <3>1 DEF WriteNoBack, FillBack
  <2> QED BY <2>1, <2>3, <2>4, <2>5, <2>6
<1>2. ASSUME NEW block \in Blocks, WriteDirect(block) PROVE exceeded'
  BY <1>2 DEF WriteDirect, SurvivesSlowClients
<1>3. ASSUME NEW sends \in BOOLEAN, Turn(sends) PROVE exceeded'
  BY <1>3 DEF Turn, SurvivesSlowClients
<1>4. CASE DropFlagged
  BY <1>4 DEF DropFlagged, SurvivesSlowClients
<1>5. CASE DropOverflowed
  BY <1>5 DEF DropOverflowed, SurvivesSlowClients
<1>6. CASE Acknowledged
  BY <1>6 DEF Acknowledged, SurvivesSlowClients
<1>7. CASE UNCHANGED vars
  BY <1>7 DEF vars, SurvivesSlowClients
<1> QED BY <1>1, <1>2, <1>3, <1>4, <1>5, <1>6, <1>7 DEF Next

\* With writers that keep to the length they told ClientReliableCheckBlock, the
\* Sys_Error of SZ_GetSpace is out of reach: a back buffer overflows only with
\* allowoverflow, or with a block longer than its estimate.
THEOREM SlowClientsSurvived == Spec => []SurvivesSlowClients
<1>1. Init => SurvivesSlowClients
  BY DEF Init, SurvivesSlowClients
<1> QED BY <1>1, TypeCorrect, NextSurvives, PTL DEF Spec

-----------------------------------------------------------------------------
(* NothingLost. *)

\* every block handed over, in the message or waiting, in this order
Queue == handed \o message.blocks \o Waiting

\* One more block written.
LEMMA CountsUp ==
    ASSUME NEW n \in Nat
    PROVE  Append([i \in 1..n |-> i], n + 1) = [i \in 1..n + 1 |-> i]
OBVIOUS

\* Waiting is what the row of back buffers holds.
LEMMA WaitingJoined == Waiting = Joined(backbufs) /\ Waiting' = Joined(backbufs')
BY DEF Waiting, Joined

\* What was handed over, is in the message and waits are sequences of blocks.
LEMMA QueueParts ==
    ASSUME TypeOK
    PROVE  /\ handed \in Seq(Block) /\ message.blocks \in Seq(Block)
           /\ Waiting \in Seq(Block) /\ handed \o message.blocks \in Seq(Block)
           /\ offered \in Nat
<1>1. handed \in Seq(Block) /\ message.blocks \in Seq(Block) /\ Waiting \in Seq(Block)
  BY JoinedType, WaitingJoined DEF TypeOK, Buffer, Block
<1> QED BY <1>1, ConcatProperties DEF TypeOK

\* A block at the end of one of the last two parts is at the end of the queue.
LEMMA LastInQueue ==
    ASSUME NEW a \in Seq(Block), NEW b \in Seq(Block), NEW x \in Block
    PROVE  a \o Append(b, x) = Append(a \o b, x)
<1>1. /\ Append(b, x) = b \o <<x>> /\ <<x>> \in Seq(Block)
      /\ a \o b \in Seq(Block) /\ Append(a \o b, x) = (a \o b) \o <<x>>
  BY AppendIsConcat, ConcatProperties
<1>2. (a \o b) \o <<x>> = a \o (b \o <<x>>)
  BY <1>1, BlocksAssociative, Zenon
<1> QED BY <1>1, <1>2

\* ClientReliableCheckBlock and the write: the block is the last of the queue, or
\* the client is to be dropped.
LEMMA WriteLosesNothing ==
    ASSUME TypeOK, NothingLost, NEW block \in Blocks, Write(block)
    PROVE  NothingLost'
<1>1. /\ offered \in Nat /\ offered < MaxBlocks /\ offered' = offered + 1
      /\ dropped' = dropped /\ handed' = handed
      /\ \/ WriteMessage(block) \/ WriteBack(block)
         \/ WriteNextBack(block) \/ WriteNoBack(block)
  BY Sizes DEF Write, TypeOK
<1>2. SUFFICES ASSUME ~overflowed', ~drop', ~dropped'
               PROVE  Queue' = [i \in 1..offered' |-> i]
  BY DEF NothingLost, Queue
<1>3. /\ message \in Buffer /\ BackBuffers(backbufs) /\ overflowed \in BOOLEAN
      /\ allowoverflow \in BOOLEAN
  BY TypeParts DEF Flags
<1>4. /\ handed \in Seq(Block) /\ message.blocks \in Seq(Block)
      /\ Waiting \in Seq(Block) /\ handed \o message.blocks \in Seq(Block)
      /\ offered + 1 \in Block
  BY <1>1, QueueParts, Sizes DEF Block
<1>5. /\ BackBuffers(Started) /\ Started # <<>> /\ Len(Started) \in Nat
      /\ Current \in Buffer /\ Joined(Started) = Joined(backbufs)
  BY <1>3, StartedType
<1>6. ~overflowed /\ ~drop /\ Queue' = Append(Queue, offered + 1)
  <2>1. CASE WriteMessage(block)
    <3>1. /\ ~overflowed /\ ~drop /\ ~Overflows(message, block.size, MaxSize)
          /\ backbufs = <<>> /\ backbufs' = <<>>
          /\ message' = Added(message, block.size, MaxSize)
      BY <1>2, <2>1 DEF WriteMessage, GoesBack
    <3>2. message'.blocks = Append(message.blocks, offered + 1)
      <4>1. block.size \in Nat /\ block.size <= MaxSize /\ MaxSize \in Nat
        BY Sizes
      <4> QED BY <1>1, <1>3, <3>1, <4>1, AddedFields
    <3>3. Waiting = <<>> /\ Waiting' = <<>>
      BY <3>1, WaitingJoined, JoinedType
    <3>4. handed \o message'.blocks = Append(handed \o message.blocks, offered + 1)
      BY <1>4, <3>2, LastInQueue, SMTT(40)
    <3>5. Append(handed \o message.blocks, offered + 1) \in Seq(Block)
      BY <1>4, AppendProperties
    <3>6. /\ Queue = handed \o message.blocks
          /\ Queue' = Append(handed \o message.blocks, offered + 1)
      BY <1>1, <1>4, <3>3, <3>4, <3>5, ConcatEmptySeq DEF Queue
    <3> QED BY <3>1, <3>6
  <2>2. ASSUME ~overflowed, ~drop, message' = message,
               Joined(backbufs') = Append(Joined(backbufs), offered + 1)
        PROVE  Queue' = Append(Queue, offered + 1)
    <3>1. Queue' = (handed \o message.blocks) \o Append(Waiting, offered + 1)
      BY <1>1, <2>2, WaitingJoined DEF Queue
    <3> QED BY <1>4, <3>1, LastInQueue DEF Queue
  <2>3. CASE WriteBack(block)
    <3>1. /\ FillBack(Started, Current, block, allowoverflow \/ backbufs = <<>>, overflowed)
          /\ drop' = drop
      BY <2>3 DEF WriteBack
    <3>2. (allowoverflow \/ backbufs = <<>>) \in BOOLEAN
      BY <1>3
    <3>3. /\ message' = message /\ ~overflowed
          /\ Joined(backbufs') = Append(Joined(Started), offered + 1)
      BY <1>1, <1>2, <1>3, <1>5, <3>1, <3>2, FillBackKeeps DEF Current
    <3> QED BY <1>2, <1>5, <2>2, <3>1, <3>3
  <2>4. CASE WriteNextBack(block)
    <3> DEFINE z == Append(Started, Empty)
    <3>1. /\ FillBack(z, Empty, block, TRUE, overflowed)
          /\ Len(Started) < MaxBackBuffers /\ drop' = drop
      BY <2>4 DEF WriteNextBack
    <3>2. BackBuffers(z) /\ z # <<>> /\ z[Len(z)] = Empty
      <4>1. z[Len(z)] = Empty
        BY <1>5, Sizes, AppendProperties DEF BackBuffers
      <4> QED BY <1>5, <3>1, <4>1, LongerType
    <3>3. Joined(z) = Joined(Started)
      <4>1. Joined(z) = Joined(Started) \o Empty.blocks
        BY <1>5, Sizes, JoinedLast DEF BackBuffers
      <4>2. Joined(Started) \in Seq(Block)
        BY <1>5, JoinedType DEF BackBuffers
      <4> QED BY <4>1, <4>2, Sizes, ConcatEmptySeq
    <3> HIDE DEF z
    <3>4. /\ message' = message /\ ~overflowed
          /\ Joined(backbufs') = Append(Joined(z), offered + 1)
      BY <1>1, <1>2, <1>3, <3>1, <3>2, Sizes, FillBackKeeps
    <3> QED BY <1>2, <1>5, <2>2, <3>1, <3>3, <3>4
  <2>5. ~WriteNoBack(block)
    BY <1>2 DEF WriteNoBack
  <2> QED BY <1>1, <2>1, <2>3, <2>4, <2>5
<1>7. Queue = [i \in 1..offered |-> i]
  BY <1>1, <1>2, <1>6 DEF NothingLost, Queue
<1> QED BY <1>1, <1>6, <1>7, CountsUp

\* A write past the back buffers: only when there are none, so it overtakes nothing.
LEMMA WriteDirectLosesNothing ==
    ASSUME TypeOK, NothingLost, NEW block \in Blocks, WriteDirect(block)
    PROVE  NothingLost'
<1>1. /\ offered < MaxBlocks /\ offered' = offered + 1
      /\ backbufs = <<>> /\ ~Overflows(message, block.size, MaxSize)
      /\ message' = Added(message, block.size, MaxSize)
      /\ UNCHANGED <<overflowed, backbufs, drop, dropped, handed>>
  BY DEF WriteDirect, MayWriteDirect
<1>2. /\ handed \in Seq(Block) /\ message.blocks \in Seq(Block) /\ offered \in Nat
      /\ handed \o message.blocks \in Seq(Block) /\ offered + 1 \in Block
  BY <1>1, QueueParts, Sizes DEF Block
<1>3. message'.blocks = Append(message.blocks, offered + 1)
  <2>1. block.size \in Nat /\ block.size <= MaxSize /\ MaxSize \in Nat /\ message \in Buffer
    BY Sizes DEF TypeOK
  <2> QED BY <1>1, <1>2, <2>1, AddedFields
<1>4. Waiting = <<>> /\ Waiting' = <<>>
  BY <1>1, WaitingJoined, JoinedType
<1>5. handed \o message'.blocks = Append(handed \o message.blocks, offered + 1)
  BY <1>2, <1>3, LastInQueue, SMTT(40)
<1>6. Append(handed \o message.blocks, offered + 1) \in Seq(Block)
  BY <1>2, AppendProperties
<1>7. /\ Queue = handed \o message.blocks
      /\ Queue' = Append(Queue, offered + 1)
  BY <1>1, <1>2, <1>4, <1>5, <1>6, ConcatEmptySeq DEF Queue
<1> QED BY <1>1, <1>2, <1>7, CountsUp DEF NothingLost, Queue

\* The flush moves the first back buffer behind the message: the queue is the same.
LEMMA FlushKeepsQueue ==
    ASSUME TypeOK, Shifted
    PROVE  (handed \o Flushed.blocks) \o Waiting' = Queue
<1>1. /\ handed \in Seq(Block) /\ message.blocks \in Seq(Block)
      /\ handed \o message.blocks \in Seq(Block)
  BY QueueParts
<1>2. CASE Flushes
  <2> DEFINE first == backbufs[1].blocks
  <2>1. /\ backbufs \in Seq(Buffer) /\ backbufs # <<>> /\ backbufs' = Tail(backbufs)
        /\ Flushed.blocks = message.blocks \o first
    BY <1>2 DEF Flushes, Shifted, Flushed, TypeOK
  <2>2. first \in Seq(Block) /\ Waiting' \in Seq(Block)
    <3>1. Len(backbufs) \in Nat \ {0}
      BY <2>1, EmptySeq, LenProperties
    <3>2. backbufs[1] \in Buffer
      BY <2>1, <3>1, ElementOfSeq
    <3>3. Tail(backbufs) \in Seq(Buffer)
      BY <2>1, HeadTailProperties
    <3> QED BY <2>1, <3>2, <3>3, JoinedType, WaitingJoined DEF Buffer, Block
  <2>3. Waiting = first \o Waiting'
    BY <2>1, JoinedFirst, WaitingJoined
  <2> HIDE DEF first
  <2>4. handed \o (message.blocks \o first) = (handed \o message.blocks) \o first
    BY <1>1, <2>2, BlocksAssociative, ZenonT(60)
  <2>5. ((handed \o message.blocks) \o first) \o Waiting'
          = (handed \o message.blocks) \o (first \o Waiting')
    BY <1>1, <2>2, BlocksAssociative, ZenonT(60)
  <2> QED BY <2>1, <2>3, <2>4, <2>5 DEF Queue
<1>3. CASE ~Flushes
  <2>1. backbufs' = backbufs /\ Flushed = message
    BY <1>3 DEF Shifted, Flushed
  <2> QED BY <2>1, WaitingJoined DEF Queue
<1> QED BY <1>2, <1>3

\* SV_SendClientMessages for one client: back buffers move behind what the message has.
LEMMA TurnLosesNothing ==
    ASSUME TypeOK, NothingLost, NEW sends \in BOOLEAN, Turn(sends)
    PROVE  NothingLost'
<1> DEFINE taken == sends /\ ~in_flight /\ Flushed.size > 0
<1>1. /\ Shifted
      /\ handed' = IF taken THEN handed \o Flushed.blocks ELSE handed
      /\ message' = IF taken THEN Empty ELSE Flushed
      /\ UNCHANGED <<overflowed, drop, dropped, offered>>
  BY DEF Turn
<1> HIDE DEF taken
<1>2. (handed \o Flushed.blocks) \o Waiting' = Queue
  BY <1>1, FlushKeepsQueue
<1>3. Queue' = Queue
  <2>1. CASE taken
    <3>1. handed \o Flushed.blocks \in Seq(Block)
      <4>1. handed \in Seq(Block) /\ Flushed.blocks \in Seq(Block)
        BY QueueParts, FlushedType DEF Buffer, Block
      <4> QED BY <4>1, ConcatProperties
    <3>2. handed' = handed \o Flushed.blocks /\ message'.blocks = <<>>
      BY <1>1, <2>1, Sizes
    <3>3. handed' \o message'.blocks = handed \o Flushed.blocks
      BY <3>1, <3>2, ConcatEmptySeq
    <3> QED BY <1>2, <3>3 DEF Queue
  <2>2. CASE ~taken
    BY <1>1, <1>2, <2>2 DEF Queue
  <2> QED BY <2>1, <2>2
<1> QED BY <1>1, <1>3 DEF NothingLost, Queue

\* No step loses, repeats or reorders a block.
LEMMA NextLosesNothing ==
    TypeOK /\ NothingLost /\ [Next]_vars => NothingLost'
<1> SUFFICES ASSUME TypeOK, NothingLost, [Next]_vars PROVE NothingLost'
  OBVIOUS
<1>1. ASSUME NEW block \in Blocks, Write(block) PROVE NothingLost'
  BY <1>1, WriteLosesNothing
<1>2. ASSUME NEW block \in Blocks, WriteDirect(block) PROVE NothingLost'
  BY <1>2, WriteDirectLosesNothing
<1>3. ASSUME NEW sends \in BOOLEAN, Turn(sends) PROVE NothingLost'
  BY <1>3, TurnLosesNothing
<1>4. CASE DropFlagged
  BY <1>4 DEF DropFlagged, DropClient, NothingLost
<1>5. CASE DropOverflowed
  BY <1>5 DEF DropOverflowed, DropClient, NothingLost
<1>6. CASE Acknowledged
  BY <1>6, WaitingJoined DEF Acknowledged, NothingLost
<1>7. CASE UNCHANGED vars
  BY <1>7, WaitingJoined DEF vars, NothingLost
<1> QED BY <1>1, <1>2, <1>3, <1>4, <1>5, <1>6, <1>7 DEF Next

\* Whatever the sizes of the buffers and the number of back buffers, the blocks of
\* ClientReliableWrite_*, the direct writes of the list stages and the flush keep
\* the order of the writes, and none goes missing before the client is dropped.
THEOREM NothingIsLost == Spec => []NothingLost
<1>1. Init => NothingLost
  <2> SUFFICES ASSUME Init PROVE NothingLost
    OBVIOUS
  <2>1. handed = <<>> /\ message.blocks = <<>> /\ Waiting = <<>> /\ offered = 0
    BY WaitingJoined, JoinedType DEF Init, Empty
  <2>2. <<>> \o <<>> \o <<>> = [i \in 1..0 |-> i]
    OBVIOUS
  <2> QED BY <2>1, <2>2 DEF NothingLost
<1> QED BY <1>1, TypeCorrect, NextLosesNothing, PTL DEF Spec
=============================================================================
