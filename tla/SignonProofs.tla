---------------------------- MODULE SignonProofs ----------------------------
(***************************************************************************)
(* What a client that goes by its lists, takes an entity frame for the end *)
(* of the signon, or is let into the game, may rely on: for every length   *)
(* of the lists, every number of maps and of reconnects.                   *)
(*                                                                         *)
(* The heart of it is Run.  Parsing what is under way to the client, one   *)
(* message after the other, takes it from what it knows to what the server *)
(* believes it knows at its stage, and whoever looks at a list on the way  *)
(* finds the whole of it.  The rest says that a map's commands do not mix  *)
(* with those of the map before.                                           *)
(***************************************************************************)
EXTENDS Signon, SequenceTheorems, WellFoundedInduction, TLAPS

-----------------------------------------------------------------------------
(* Induction, about sets and functions: what first-order provers can use. *)

\* A set of natural numbers that is not empty has a smallest element.
LEMMA SmallestElement ==
    ASSUME NEW T \in SUBSET Nat, T # {}
    PROVE  \E x \in T : \A y \in T : x <= y
<1>1. PICK x \in T : \A y \in T : ~(<<y, x>> \in OpToRel(<, Nat))
  BY NatLessThanWellFounded, WFMin, Zenon
<1>2. \A a, b \in Nat : a < b => <<a, b>> \in OpToRel(<, Nat)
  BY Zenon DEF OpToRel
<1>3. \A y \in T : ~(y < x)
  BY <1>1, <1>2, Zenon
<1> QED BY <1>3

\* A set that has 0 and with every number up to n its successor has them all.
LEMMA SetInductionUpTo ==
    ASSUME NEW n \in Nat, NEW S, 0 \in S,
           \A i \in 0..n - 1 : i \in S => i + 1 \in S
    PROVE  \A i \in 0..n : i \in S
<1> DEFINE T == {i \in 0..n : i \notin S}
<1> SUFFICES ASSUME T # {} PROVE FALSE
  OBVIOUS
<1>1. \E x \in T : \A y \in T : x <= y
  <2>1. T \in SUBSET Nat
    OBVIOUS
  <2> HIDE DEF T
  <2> QED BY <2>1, SmallestElement
<1>2. PICK x \in T : \A y \in T : x <= y
  BY <1>1
<1>3. x \in 1..n /\ x - 1 \in 0..n - 1 /\ x - 1 \in S
  <2>1. x \in 1..n /\ x - 1 \in 0..n - 1
    OBVIOUS
  <2> QED BY <1>2, <2>1
<1>4. (x - 1) + 1 \in S
  BY <1>3
<1> QED BY <1>3, <1>4

\* f starts at base and goes on with D, up to n
Recursion(f, n, base, D) == /\ f[0] = base
                            /\ \A i \in 1..n : f[i] = D[<<i, f[i - 1]>>]

\* There is such a function, up to any n.
LEMMA RecursionExists ==
    ASSUME NEW n \in Nat, NEW S, NEW base \in S, NEW D \in [(1..n) \X S -> S]
    PROVE  \E f \in [0..n -> S] : Recursion(f, n, base, D)
<1> DEFINE T == {m \in 0..n : \E f \in [0..m -> S] : Recursion(f, m, base, D)}
<1>1. 0 \in T
  <2>1. /\ [i \in 0..0 |-> base] \in [0..0 -> S]
        /\ Recursion([i \in 0..0 |-> base], 0, base, D)
    BY DEF Recursion
  <2>2. 0 \in 0..n
    OBVIOUS
  <2> QED BY <2>1, <2>2
<1>2. ASSUME NEW m \in 0..n - 1, m \in T PROVE m + 1 \in T
  <2>1. PICK f \in [0..m -> S] : Recursion(f, m, base, D)
    BY <1>2
  <2> DEFINE g == [i \in 0..m + 1 |-> IF i = m + 1 THEN D[<<m + 1, f[m]>>] ELSE f[i]]
  <2>2. D[<<m + 1, f[m]>>] \in S
    OBVIOUS
  <2>3. g \in [0..m + 1 -> S]
    BY <2>2
  <2>4. /\ g[m + 1] = D[<<m + 1, f[m]>>]
        /\ \A i \in 0..m : g[i] = f[i]
    OBVIOUS
  <2> HIDE DEF g
  <2>5. Recursion(g, m + 1, base, D)
    <3>1. g[0] = base
      BY <2>1, <2>4 DEF Recursion
    <3>2. ASSUME NEW i \in 1..m + 1 PROVE g[i] = D[<<i, g[i - 1]>>]
      <4>1. CASE i = m + 1
        BY <2>4, <4>1
      <4>2. CASE i \in 1..m
        BY <2>1, <2>4, <4>2 DEF Recursion
      <4> QED BY <4>1, <4>2
    <3> QED BY <3>1, <3>2 DEF Recursion
  <2> QED BY <2>3, <2>5
<1> HIDE DEF T
<1>3. n \in T
  <2>1. \A m \in 0..n : m \in T
    BY <1>1, <1>2, SetInductionUpTo, Zenon
  <2> QED BY <2>1
<1> QED BY <1>3 DEF T

\* Two functions that start alike and go on alike are alike.
LEMMA SameRecursion ==
    ASSUME NEW n \in Nat, NEW f, NEW g, f[0] = g[0],
           \A i \in 0..n - 1 : f[i] = g[i] => f[i + 1] = g[i + 1]
    PROVE  f[n] = g[n]
<1> DEFINE S == {i \in 0..n : f[i] = g[i]}
<1>1. 0 \in S
  OBVIOUS
<1>2. \A i \in 0..n - 1 : i \in S => i + 1 \in S
  OBVIOUS
<1> HIDE DEF S
<1>3. \A i \in 0..n : i \in S
  BY <1>1, <1>2, SetInductionUpTo, Zenon
<1> QED BY <1>3 DEF S

-----------------------------------------------------------------------------
(* Types. *)

Kinds == {"changing", "serverdata", "serverinfo", "soundlist", "modellist", "signon",
          "pext", "spawn", "skins"}
Stages == {INVALID, SERVERINFO, SOUNDLIST, MODELLIST, MAPCHECK, SIGNON, COMPLETED}
Listed == {"new", "pext", "soundlist", "modellist", "prespawn", "spawn", "begin"}

Message == [kind: Kinds, map: Nat, names: SUBSET Nat, last: BOOLEAN]
ListedCommand == [name: Listed, map: Nat]
SentCommand == [name: Listed \cup {"setinfo"}, map: Nat, info: Nat]

Server == [spawncount: Nat \ {0}, state: {"connected", "spawned"}, stage: Stages, idx: Nat,
           soundlist: BOOLEAN, modellist: BOOLEAN, pextknown: BOOLEAN, setup: BOOLEAN,
           spawned: BOOLEAN, info: Nat]
Out == [message: Seq(Message), backbuf: Seq(Message)]
Lists == SUBSET (Nat \X Nat)
Client == [state: {"connected", "onserver", "active"}, servercount: Nat, serverinfo: Nat,
           sounds: Lists, models: Lists, signon: Lists, sendprespawn: BOOLEAN,
           worldmodel: BOOLEAN, valid: BOOLEAN, downloading: BOOLEAN, info: Nat,
           sync: BOOLEAN, cmds: Seq(ListedCommand)]

\* What the server has written and the client not parsed.
Stream(o) == o.message \o o.backbuf
-----------------------------------------------------------------------------
(* What the client knows, and will know. *)

View == [count: Nat, info: Nat, sounds: Lists, models: Lists, signon: Lists, ready: BOOLEAN]

Seen(c) == [count |-> c.servercount, info |-> c.serverinfo, sounds |-> c.sounds,
            models |-> c.models, signon |-> c.signon,
            ready |-> c.sendprespawn \/ c.worldmodel]

UpTo(map, n) == {map} \X (1..n)

\* what Parsed makes of it
Step(v, msg) ==
    LET got == {msg.map} \X msg.names
    IN CASE msg.kind = "serverdata" -> [count |-> msg.map, info |-> 0, sounds |-> {},
                                        models |-> {}, signon |-> {}, ready |-> FALSE]
         [] msg.kind = "serverinfo" -> [v EXCEPT !.info = msg.map]
         [] msg.kind = "soundlist" -> [v EXCEPT !.sounds = @ \cup got]
         [] msg.kind = "modellist" -> [v EXCEPT !.models = @ \cup got, !.ready = @ \/ msg.last]
         [] msg.kind = "signon" -> [v EXCEPT !.signon = @ \cup got]
         [] OTHER -> v

\* Who goes by the lists has the whole of them.
Good(v) ==
    v.ready => /\ v.info = v.count
               /\ v.sounds = UpTo(v.count, Sounds)
               /\ v.models = UpTo(v.count, Models)

Complete(v) == v.info = v.count /\ v.signon = UpTo(v.count, SignonData)

\* The message finds a client for whom it is meant.
Fitting(v, msg) ==
    /\ msg.kind \in {"serverdata", "changing"} => v.count <= msg.map
    /\ msg.kind \notin {"serverdata", "changing", "pext"} => msg.map = v.count
    /\ msg.kind = "signon" => msg.names \subseteq 1..SignonData
    /\ msg.kind \in {"spawn", "skins"} => Complete(v)

\* What the client knows when it has parsed all, at the stage the server has reached.
Reached(s, v) ==
    /\ v.count <= s.spawncount
    /\ s.stage # INVALID => v.count = s.spawncount /\ s.pextknown
    /\ s.stage \in {SERVERINFO, SOUNDLIST, MODELLIST} => ~v.ready
    /\ s.stage > SERVERINFO => v.info = v.count
    /\ s.stage = SERVERINFO => v.sounds = {}
    /\ s.stage \in {SERVERINFO, SOUNDLIST} => v.models = {}
    /\ s.stage \in SERVERINFO..MAPCHECK => v.signon = {}
    /\ s.stage = SOUNDLIST => s.idx <= Sounds /\ v.sounds = UpTo(v.count, s.idx)
    /\ s.stage > SOUNDLIST => v.sounds = UpTo(v.count, Sounds)
    /\ s.stage = MODELLIST => s.idx <= Models /\ v.models = UpTo(v.count, s.idx)
    /\ s.stage > MODELLIST => v.models = UpTo(v.count, Models)
    /\ s.stage = SIGNON => s.idx <= SignonData /\ v.signon = UpTo(v.count, s.idx)
    /\ s.stage = COMPLETED => v.signon = UpTo(v.count, SignonData)
\* V[i] is what it knows after i messages of S, v at first and L in the end.
RunOf(V, S, v, L) ==
    /\ V[0] = v /\ V[Len(S)] = L
    /\ \A i \in 1..Len(S) : Fitting(V[i - 1], S[i]) /\ V[i] = Step(V[i - 1], S[i])
    /\ \A i \in 0..Len(S) : Good(V[i])
    /\ \A i, j \in 0..Len(S) : i <= j => V[i].count <= V[j].count

Run(S, v, L) == \E V \in [0..Len(S) -> View] : RunOf(V, S, v, L)

Told(s, S, c) == \E L \in View : Run(S, Seen(c), L) /\ Reached(s, L)
-----------------------------------------------------------------------------
(* Maps. *)

\* Messages and commands are of this map or of earlier ones, and whoever is told of a
\* change has not got to this map.
Maps(m, S, c, q) ==
    /\ \A i \in 1..Len(S) : S[i].map <= m /\ (S[i].kind = "changing" => S[i].map < m)
    /\ c.servercount <= m
    /\ c.state = "connected" => c.servercount < m
    /\ \A i \in 1..Len(c.cmds) :
          c.cmds[i].map <= c.servercount /\ (c.cmds[i].name = "new" => c.cmds[i].map < m)
    /\ \A i \in 1..Len(q) :
          q[i].map <= c.servercount /\ (q[i].name = "new" => q[i].map < m)

Of(cmd, m) == cmd.name # "setinfo" /\ cmd.map = m
NotOf(cmd, m) == cmd.name # "setinfo" /\ cmd.map # m

\* Behind a command of this map there are none of earlier ones.
Behind(m, c, q) ==
    /\ \A i, j \in 1..Len(q) : i < j /\ Of(q[i], m) => ~NotOf(q[j], m)
    /\ \A i \in 1..Len(q), j \in 1..Len(c.cmds) : Of(q[i], m) => ~NotOf(c.cmds[j], m)
    /\ \A i, j \in 1..Len(c.cmds) : i < j /\ Of(c.cmds[i], m) => ~NotOf(c.cmds[j], m)

\* Once a prespawn was taken nothing of an earlier map is under way to the server.
Settled(s, c, q) ==
    s.state = "connected" /\ s.stage >= SIGNON =>
        /\ c.servercount = s.spawncount
        /\ \A i \in 1..Len(q) : ~NotOf(q[i], s.spawncount)
        /\ \A i \in 1..Len(c.cmds) : ~NotOf(c.cmds[i], s.spawncount)
-----------------------------------------------------------------------------
(* The way into the game. *)

Commanded(name, m, c, q) ==
    \/ \E i \in 1..Len(c.cmds) : c.cmds[i].name = name /\ c.cmds[i].map = m
    \/ \E i \in 1..Len(q) : q[i].name = name /\ q[i].map = m

Stuffed(kind, m, S) == \E i \in 1..Len(S) : S[i].kind = kind /\ S[i].map = m

Entering(s, S, c, q, lost) ==
    LET m == s.spawncount IN
    /\ s.state = "connected" /\ s.stage # COMPLETED =>
          /\ ~s.setup
          /\ ~Stuffed("spawn", m, S)
          /\ ~Commanded("spawn", m, c, q)
    /\ \A i, j \in 1..Len(S) : i < j /\ S[i].kind = "spawn" /\ S[i].map = m =>
          S[j].kind # "serverdata"
    /\ s.setup \/ Commanded("spawn", m, c, q) =>
          /\ \A i \in 1..Len(S) : S[i].kind # "serverdata"
          /\ c.servercount = m
          /\ Complete(Seen(c))
    /\ Stuffed("skins", m, S) \/ Commanded("begin", m, c, q) => s.setup
    /\ s.state = "spawned" /\ m \notin lost => s.spawned /\ s.setup

Frames(s, S, c, f, lost) ==
    /\ f <= s.spawncount
    /\ f = s.spawncount => s.state = "spawned"
    /\ f # 0 => \/ f \in lost /\ f >= c.servercount
                \/ /\ f = c.servercount /\ Complete(Seen(c))
                   /\ \A i \in 1..Len(S) : S[i].kind = "serverdata" => S[i].map > f
    /\ c.valid => \/ Complete(Seen(c))
                  \/ \E map \in lost : map >= c.servercount
    /\ c.state = "active" => c.valid /\ c.worldmodel

\* The userinfo the user had when a spawn of this map was written is known or ahead of it.
Known(x, s, q, n) == \/ s.info >= x
                     \/ \E i \in 1..n : q[i].name = "setinfo" /\ q[i].info >= x

Userinfo(s, c, q) ==
    /\ s.info <= c.info
    /\ \A i \in 1..Len(q) : s.info <= q[i].info /\ q[i].info <= c.info
    /\ \A i, j \in 1..Len(q) : i < j => q[i].info <= q[j].info
    /\ ~c.sync => Known(c.info, s, q, Len(q))
    /\ \A i \in 1..Len(q) : q[i].name = "spawn" /\ q[i].map = s.spawncount =>
          Known(q[i].info, s, q, i - 1)
-----------------------------------------------------------------------------
Typed(s, S, c, q, f, lost) ==
    /\ s \in Server /\ S \in Seq(Message) /\ c \in Client /\ q \in Seq(SentCommand)
    /\ f \in Nat /\ lost \in SUBSET Nat

Inv(s, S, c, q, f, lost) ==
    /\ Typed(s, S, c, q, f, lost)
    /\ Told(s, S, c)
    /\ Maps(s.spawncount, S, c, q)
    /\ Behind(s.spawncount, c, q)
    /\ Settled(s, c, q)
    /\ Entering(s, S, c, q, lost)
    /\ Frames(s, S, c, f, lost)
    /\ Userinfo(s, c, q)
-----------------------------------------------------------------------------
(* Sequences. *)

\* r is q without its head
Dropped(q, r) == /\ Len(q) > 0 /\ Len(r) = Len(q) - 1
                 /\ \A i \in 1..Len(r) : r[i] = q[i + 1]

\* r is q with x behind it
Added(q, r, x) == /\ Len(r) = Len(q) + 1 /\ r[Len(q) + 1] = x
                  /\ \A i \in 1..Len(q) : r[i] = q[i]

\* Taking the head of a sequence.
LEMMA TailDrops ==
    ASSUME NEW T, NEW q \in Seq(T), q # <<>>
    PROVE  Tail(q) \in Seq(T) /\ Dropped(q, Tail(q)) /\ Head(q) = q[1] /\ Head(q) \in T
<1>1. /\ Len(q) \in Nat /\ Len(q) # 0 /\ Tail(q) \in Seq(T) /\ Len(Tail(q)) = Len(q) - 1
      /\ \A i \in 1..Len(Tail(q)) : Tail(q)[i] = q[i + 1]
      /\ Head(q) = q[1] /\ Head(q) \in T
  BY HeadTailProperties, EmptySeq, LenProperties
<1> QED BY <1>1 DEF Dropped

\* Putting one more behind a sequence.
LEMMA AppendAdds ==
    ASSUME NEW T, NEW q \in Seq(T), NEW x \in T
    PROVE  Append(q, x) \in Seq(T) /\ Added(q, Append(q, x), x)
<1>1. /\ Append(q, x) \in Seq(T) /\ Len(Append(q, x)) = Len(q) + 1
      /\ \A i \in 1..Len(q) : Append(q, x)[i] = q[i]
      /\ Append(q, x)[Len(q) + 1] = x
  BY AppendProperties
<1> QED BY <1>1 DEF Added
-----------------------------------------------------------------------------
(* What the client will know. *)

\* What a message makes of a view is a view.
LEMMA StepType ==
    ASSUME NEW v \in View, NEW msg \in Message
    PROVE  Step(v, msg) \in View
<1> DEFINE got == {msg.map} \X msg.names
<1>1. got \in Lists /\ \A x \in Lists : x \cup got \in Lists
  BY DEF Message, Lists
<1>2. /\ v.count \in Nat /\ v.info \in Nat /\ v.sounds \in Lists /\ v.models \in Lists
      /\ v.signon \in Lists /\ v.ready \in BOOLEAN /\ {} \in Lists
      /\ msg.map \in Nat /\ msg.last \in BOOLEAN
  BY DEF View, Message, Lists
<1> HIDE DEF got
<1>3. CASE msg.kind = "serverdata"
  BY <1>2, <1>3 DEF Step, View
<1>4. CASE msg.kind = "serverinfo"
  BY <1>2, <1>4 DEF Step, View
<1>5. CASE msg.kind = "soundlist"
  <2>1. Step(v, msg) = [v EXCEPT !.sounds = v.sounds \cup got]
    BY <1>5 DEF Step, got
  <2> QED BY <1>1, <1>2, <2>1 DEF View
<1>6. CASE msg.kind = "modellist"
  <2>1. Step(v, msg) = [v EXCEPT !.models = v.models \cup got, !.ready = v.ready \/ msg.last]
    BY <1>6 DEF Step, got
  <2> QED BY <1>1, <1>2, <2>1 DEF View
<1>7. CASE msg.kind = "signon"
  <2>1. Step(v, msg) = [v EXCEPT !.signon = v.signon \cup got]
    BY <1>7 DEF Step, got
  <2> QED BY <1>1, <1>2, <2>1 DEF View
<1>8. CASE msg.kind \notin {"serverdata", "serverinfo", "soundlist", "modellist", "signon"}
  BY <1>8 DEF Step
<1> QED BY <1>3, <1>4, <1>5, <1>6, <1>7, <1>8

\* Only a serverdata moves the client on, and never back.
LEMMA StepCount ==
    ASSUME NEW v \in View, NEW msg \in Message
    PROVE  /\ Step(v, msg).count = IF msg.kind = "serverdata" THEN msg.map ELSE v.count
           /\ Fitting(v, msg) => v.count <= Step(v, msg).count
<1>1. Step(v, msg).count = IF msg.kind = "serverdata" THEN msg.map ELSE v.count
  BY DEF Step, View
<1> QED BY <1>1 DEF Fitting, View

\* One message is parsed.
LEMMA RunTail ==
    ASSUME NEW S \in Seq(Message), NEW R \in Seq(Message), Dropped(S, R),
           NEW v \in View, NEW L \in View, Run(S, v, L)
    PROVE  /\ Fitting(v, S[1]) /\ Good(Step(v, S[1]))
           /\ Run(R, Step(v, S[1]), L)
<1>1. PICK V \in [0..Len(S) -> View] : RunOf(V, S, v, L)
  BY DEF Run
<1> DEFINE n == Len(S)
           m == Len(R)
           W == [i \in 0..m |-> V[i + 1]]
<1>2. n \in Nat /\ m \in Nat /\ n > 0 /\ m = n - 1
  BY LenProperties DEF Dropped
<1>3. \A i \in 1..m : R[i] = S[i + 1]
  BY DEF Dropped
<1>4. W \in [0..m -> View] /\ \A i \in 0..m : W[i] = V[i + 1]
  BY <1>2
<1> HIDE DEF n, m, W
<1>5. W[0] = Step(v, S[1]) /\ Fitting(v, S[1]) /\ Good(W[0])
  <2>1. 1 \in 1..n /\ 1 \in 0..n /\ 1 - 1 = 0 /\ 0 \in 0..m
    BY <1>2
  <2>2. V[0] = v /\ Fitting(V[1 - 1], S[1]) /\ V[1] = Step(V[1 - 1], S[1]) /\ Good(V[1])
    BY <1>1, <2>1 DEF RunOf, n
  <2>3. W[0] = V[1]
    BY <1>4, <2>1
  <2> QED BY <2>1, <2>2, <2>3
<1>6. RunOf(W, R, W[0], L)
  <2>1. W[m] = L
    <3>1. m \in 0..m /\ m + 1 = n
      BY <1>2
    <3> QED BY <1>1, <1>4, <3>1 DEF RunOf, n
  <2>2. ASSUME NEW i \in 1..m
        PROVE  Fitting(W[i - 1], R[i]) /\ W[i] = Step(W[i - 1], R[i])
    <3>1. i + 1 \in 1..n /\ (i + 1) - 1 = i /\ i - 1 \in 0..m /\ i \in 0..m /\ (i - 1) + 1 = i
      BY <1>2
    <3>2. Fitting(V[(i + 1) - 1], S[i + 1]) /\ V[i + 1] = Step(V[(i + 1) - 1], S[i + 1])
      BY <1>1, <3>1 DEF RunOf, n
    <3>3. R[i] = S[i + 1] /\ W[i] = V[i + 1] /\ W[i - 1] = V[i]
      BY <1>3, <1>4, <3>1
    <3> QED BY <3>1, <3>2, <3>3
  <2>3. \A i \in 0..m : Good(W[i])
    <3>1. \A i \in 0..m : i + 1 \in 0..n
      BY <1>2
    <3> QED BY <1>1, <1>4, <3>1 DEF RunOf, n
  <2>4. \A i, j \in 0..m : i <= j => W[i].count <= W[j].count
    <3> SUFFICES ASSUME NEW i \in 0..m, NEW j \in 0..m, i <= j
                 PROVE  W[i].count <= W[j].count
      OBVIOUS
    <3>1. i + 1 \in 0..n /\ j + 1 \in 0..n /\ i + 1 <= j + 1
      BY <1>2
    <3>2. V[i + 1].count <= V[j + 1].count
      BY <1>1, <3>1 DEF RunOf, n
    <3> QED BY <1>4, <3>2
  <2> QED BY <2>1, <2>2, <2>3, <2>4 DEF RunOf, m
<1> QED BY <1>4, <1>5, <1>6 DEF Run, m

\* One message more is written.
LEMMA RunAppend ==
    ASSUME NEW S \in Seq(Message), NEW R \in Seq(Message), NEW msg \in Message, Added(S, R, msg),
           NEW v \in View, NEW L \in View, Run(S, v, L),
           Fitting(L, msg), Good(Step(L, msg))
    PROVE  Run(R, v, Step(L, msg))
<1>1. PICK V \in [0..Len(S) -> View] : RunOf(V, S, v, L)
  BY DEF Run
<1> DEFINE n == Len(S)
           m == Len(R)
           M == Step(L, msg)
           W == [i \in 0..m |-> IF i = m THEN M ELSE V[i]]
<1>2. n \in Nat /\ m \in Nat /\ m = n + 1
  BY LenProperties DEF Added
<1>3. R[m] = msg /\ \A i \in 1..n : R[i] = S[i]
  BY DEF Added
<1>4. M \in View /\ L.count <= M.count
  BY StepType, StepCount
<1>5. W \in [0..m -> View] /\ W[m] = M /\ \A i \in 0..n : W[i] = V[i]
  BY <1>2, <1>4
<1>6. V[0] = v /\ V[n] = L
  BY <1>1 DEF RunOf
<1> HIDE DEF n, m, W
<1>7. W[0] = v
  BY <1>2, <1>5, <1>6
<1>8. ASSUME NEW i \in 1..m
      PROVE  Fitting(W[i - 1], R[i]) /\ W[i] = Step(W[i - 1], R[i])
  <2>1. CASE i = m
    <3>1. i - 1 = n /\ n \in 0..n
      BY <1>2, <2>1
    <3> QED BY <1>3, <1>5, <1>6, <2>1, <3>1
  <2>2. CASE i \in 1..n
    <3>1. i - 1 \in 0..n /\ i \in 0..n
      BY <1>2, <2>2
    <3>2. Fitting(V[i - 1], S[i]) /\ V[i] = Step(V[i - 1], S[i])
      BY <1>1, <2>2 DEF RunOf, n
    <3> QED BY <1>3, <1>5, <2>2, <3>1, <3>2
  <2> QED BY <1>2, <2>1, <2>2
<1>9. ASSUME NEW i \in 0..m PROVE Good(W[i])
  <2>1. CASE i = m
    BY <1>5, <2>1
  <2>2. CASE i \in 0..n
    BY <1>1, <1>5, <2>2 DEF RunOf, n
  <2> QED BY <1>2, <2>1, <2>2
<1>10. ASSUME NEW i \in 0..m, NEW j \in 0..m, i <= j PROVE W[i].count <= W[j].count
  <2>1. CASE j \in 0..n
    <3>1. i \in 0..n
      BY <1>2, <1>10, <2>1
    <3> QED BY <1>1, <1>5, <1>10, <2>1, <3>1 DEF RunOf, n
  <2>2. CASE i = m
    <3>1. j = m
      BY <1>2, <1>10, <2>2
    <3> QED BY <1>4, <1>5, <2>2, <3>1 DEF View
  <2>3. CASE i \in 0..n /\ j = m
    <3>1. n \in 0..n /\ i <= n
      BY <1>2, <2>3
    <3>2. V[i].count <= V[n].count /\ V[i] \in View /\ V[n] \in View
      BY <1>1, <2>3, <3>1 DEF RunOf, n
    <3>3. V[i].count <= L.count /\ V[i].count \in Nat /\ L.count \in Nat /\ M.count \in Nat
      BY <1>4, <1>6, <3>2 DEF View
    <3>4. V[i].count <= M.count
      BY <1>4, <3>3
    <3> QED BY <1>5, <2>3, <3>4
  <2> QED BY <1>2, <2>1, <2>2, <2>3
<1>11. RunOf(W, R, v, M)
  BY <1>5, <1>7, <1>8, <1>9, <1>10, Zenon DEF RunOf, m
<1> QED BY <1>5, <1>11 DEF Run, m

\* With nothing under way it knows what it will know.
LEMMA RunStarts ==
    ASSUME NEW S \in Seq(Message), Len(S) = 0, NEW v \in View, Good(v)
    PROVE  Run(S, v, v)
<1>1. [i \in 0..0 |-> v] \in [0..0 -> View] /\ [i \in 0..0 |-> v][0] = v
  OBVIOUS
<1>2. RunOf([i \in 0..0 |-> v], S, v, v)
  BY <1>1 DEF RunOf, View
<1> QED BY <1>1, <1>2 DEF Run

\* The first view is good and not ahead of the last.
LEMMA RunBegins ==
    ASSUME NEW S \in Seq(Message), NEW v \in View, NEW L \in View, Run(S, v, L)
    PROVE  Good(v) /\ v.count <= L.count
<1>1. PICK V \in [0..Len(S) -> View] : RunOf(V, S, v, L)
  BY DEF Run
<1>2. Len(S) \in Nat
  BY LenProperties
<1>3. 0 \in 0..Len(S) /\ Len(S) \in 0..Len(S) /\ 0 <= Len(S)
  BY <1>2
<1> QED BY <1>1, <1>3 DEF RunOf
-----------------------------------------------------------------------------
(* The client's list of commands. *)

\* r has some of the first n of q, none called name, in the order of q.
Picked(r, q, n, name) ==
    /\ \A i \in 1..Len(r) : r[i].name # name /\ \E k \in 1..n : r[i] = q[k]
    /\ \A i, j \in 1..Len(r) : i < j =>
          \E k, l \in 1..n : k < l /\ r[i] = q[k] /\ r[j] = q[l]

\* CL_RemoveClientCommands keeps the other commands, in their order.
LEMMA WithoutIs ==
    ASSUME NEW cmds \in Seq(ListedCommand), NEW name
    PROVE  /\ Without(cmds, name) \in Seq(ListedCommand)
           /\ Picked(Without(cmds, name), cmds, Len(cmds), name)
<1> DEFINE n == Len(cmds)
           C == Seq(ListedCommand)
           D == [x \in (1..n) \X C |->
                    IF cmds[x[1]].name = name THEN x[2] ELSE Append(x[2], cmds[x[1]])]
<1>1. n \in Nat /\ \A i \in 1..n : cmds[i] \in ListedCommand
  BY LenProperties, ElementOfSeq
<1>2. D \in [(1..n) \X C -> C]
  <2> SUFFICES ASSUME NEW i \in 1..n, NEW s \in C
               PROVE  (IF cmds[i].name = name THEN s ELSE Append(s, cmds[i])) \in C
    OBVIOUS
  <2> QED BY <1>1, AppendProperties
<1>3. <<>> \in C
  BY EmptySeq
<1>4. \A i \in 1..n, s \in C :
         D[<<i, s>>] = IF cmds[i].name = name THEN s ELSE Append(s, cmds[i])
  OBVIOUS
<1> HIDE DEF D, n, C
<1>5. PICK u \in [0..n -> C] : Recursion(u, n, <<>>, D)
  BY <1>1, <1>2, <1>3, RecursionExists, Zenon
<1>6. /\ u[0] = <<>>
      /\ \A i \in 1..n :
            u[i] = IF cmds[i].name = name THEN u[i - 1] ELSE Append(u[i - 1], cmds[i])
  <2>1. \A i \in 1..n : i - 1 \in 0..n
    BY <1>1
  <2> QED BY <1>4, <1>5, <2>1 DEF Recursion
<1> DEFINE g == CHOOSE f : f = [i \in 0..Len(cmds) |->
                     IF i = 0 THEN <<>>
                     ELSE IF cmds[i].name = name THEN f[i - 1] ELSE Append(f[i - 1], cmds[i])]
<1>7. u = [i \in 0..Len(cmds) |->
              IF i = 0 THEN <<>>
              ELSE IF cmds[i].name = name THEN u[i - 1] ELSE Append(u[i - 1], cmds[i])]
  <2>1. u = [i \in 0..n |-> u[i]]
    BY <1>5
  <2>2. \A i \in 0..n : i # 0 => i \in 1..n
    BY <1>1
  <2>3. \A i \in 0..n : u[i] = IF i = 0 THEN <<>>
              ELSE IF cmds[i].name = name THEN u[i - 1] ELSE Append(u[i - 1], cmds[i])
    BY <1>6, <2>2, Zenon
  <2> QED BY <2>1, <2>3, Zenon DEF n
<1>8. g = [i \in 0..Len(cmds) |->
              IF i = 0 THEN <<>>
              ELSE IF cmds[i].name = name THEN g[i - 1] ELSE Append(g[i - 1], cmds[i])]
  BY <1>7, Zenon
<1>9. Without(cmds, name) = g[Len(cmds)]
  BY Zenon DEF Without
<1> HIDE DEF g
<1>10. /\ g[0] = <<>>
       /\ \A i \in 1..n :
             g[i] = IF cmds[i].name = name THEN g[i - 1] ELSE Append(g[i - 1], cmds[i])
  <2>1. \A i \in 0..n : g[i] = IF i = 0 THEN <<>>
              ELSE IF cmds[i].name = name THEN g[i - 1] ELSE Append(g[i - 1], cmds[i])
    BY <1>8, Zenon DEF n
  <2> QED BY <1>1, <2>1
<1>11. g[n] = u[n]
  <2>1. \A i \in 0..n - 1 : i + 1 \in 1..n /\ (i + 1) - 1 = i
    BY <1>1
  <2>2. ASSUME NEW i \in 0..n - 1, g[i] = u[i] PROVE g[i + 1] = u[i + 1]
    <3>1. i + 1 \in 1..n /\ (i + 1) - 1 = i
      BY <2>1
    <3> QED BY <1>6, <1>10, <2>2, <3>1, Zenon
  <2>3. g[0] = u[0]
    BY <1>6, <1>10
  <2> QED BY <1>1, <2>2, <2>3, SameRecursion, Zenon
<1> DEFINE T == {i \in 0..n : Picked(u[i], cmds, i, name)}
<1>12. 0 \in T
  <2>1. Len(u[0]) = 0
    BY <1>6, EmptySeq
  <2> QED BY <1>1, <2>1 DEF Picked
<1>13. ASSUME NEW i \in 0..n - 1, i \in T PROVE i + 1 \in T
  <2>1. /\ i + 1 \in 1..n /\ (i + 1) - 1 = i /\ i \in Nat /\ i \in 0..n
        /\ Picked(u[i], cmds, i, name)
    BY <1>1, <1>13
  <2>2. \A k \in 1..i : k \in 1..i + 1 /\ k < i + 1
    BY <2>1
  <2>3. i + 1 \in 1..i + 1
    BY <2>1
  <2>4. CASE cmds[i + 1].name = name
    <3>1. u[i + 1] = u[i]
      BY <1>6, <2>1, <2>4
    <3>2. Picked(u[i + 1], cmds, i + 1, name)
      BY <2>1, <2>2, <3>1 DEF Picked
    <3> QED BY <2>1, <3>2
  <2>5. CASE cmds[i + 1].name # name
    <3> DEFINE s == u[i]
               r == u[i + 1]
               c == cmds[i + 1]
    <3>1. r = Append(s, c) /\ s \in Seq(ListedCommand) /\ c \in ListedCommand
      BY <1>1, <1>5, <1>6, <2>1, <2>5 DEF C
    <3>2. Added(s, r, c) /\ Len(s) \in Nat
      BY <3>1, AppendAdds, LenProperties
    <3>3. Picked(s, cmds, i, name) /\ c.name # name /\ c = cmds[i + 1]
      BY <2>1, <2>5
    <3> HIDE DEF s, r, c
    <3>4. ASSUME NEW a \in 1..Len(r)
          PROVE  r[a].name # name /\ \E k \in 1..i + 1 : r[a] = cmds[k]
      <4>1. CASE a \in 1..Len(s)
        BY <2>2, <3>2, <3>3, <4>1 DEF Added, Picked
      <4>2. CASE a = Len(s) + 1
        BY <2>3, <3>2, <3>3, <4>2 DEF Added
      <4> QED BY <3>2, <4>1, <4>2 DEF Added
    <3>5. ASSUME NEW a \in 1..Len(r), NEW b \in 1..Len(r), a < b
          PROVE  \E k, l \in 1..i + 1 : k < l /\ r[a] = cmds[k] /\ r[b] = cmds[l]
      <4>1. a \in 1..Len(s) /\ r[a] = s[a]
        BY <3>2, <3>5 DEF Added
      <4>2. CASE b \in 1..Len(s)
        <5>1. PICK k, l \in 1..i : k < l /\ s[a] = cmds[k] /\ s[b] = cmds[l]
          BY <3>3, <3>5, <4>1, <4>2 DEF Picked
        <5>2. r[b] = s[b]
          BY <3>2, <4>2 DEF Added
        <5> QED BY <2>2, <4>1, <5>1, <5>2
      <4>3. CASE b = Len(s) + 1
        <5>1. PICK k \in 1..i : s[a] = cmds[k]
          BY <3>3, <4>1 DEF Picked
        <5>2. r[b] = cmds[i + 1]
          BY <3>2, <3>3, <4>3 DEF Added
        <5> QED BY <2>2, <2>3, <4>1, <5>1, <5>2
      <4> QED BY <3>2, <4>2, <4>3 DEF Added
    <3>6. Picked(r, cmds, i + 1, name)
      BY <3>4, <3>5 DEF Picked
    <3> QED BY <2>1, <3>6 DEF r
  <2> QED BY <2>4, <2>5
<1> HIDE DEF T
<1>14. n \in T
  <2>1. \A i \in 0..n : i \in T
    BY <1>1, <1>12, <1>13, SetInductionUpTo, Zenon
  <2> QED BY <1>1, <2>1
<1>15. Picked(u[n], cmds, n, name) /\ u[n] \in C
  <2>1. n \in 0..n
    BY <1>1
  <2> QED BY <1>5, <1>14, <2>1 DEF T
<1> QED BY <1>9, <1>11, <1>15 DEF n, C
-----------------------------------------------------------------------------
(* The server writes. *)

\* Concatenation of messages is associative, and one more is a concatenation.
LEMMA MessagesAssociative ==
    \A a, b, c \in Seq(Message) : (a \o b) \o c = a \o (b \o c)
BY ConcatAssociative

\* Appending is concatenating one.
LEMMA OneMore ==
    \A a \in Seq(Message), msg \in Message :
        /\ <<msg>> \in Seq(Message) /\ Append(a, msg) = a \o <<msg>>
        /\ Append(a, msg) \in Seq(Message)
BY AppendIsConcat, AppendProperties

\* Changing one of the two parts.
LEMMA OutParts ==
    ASSUME NEW X, NEW o \in [message: X, backbuf: X], NEW y
    PROVE  /\ [o EXCEPT !.message = y] = [message |-> y, backbuf |-> o.backbuf]
           /\ [o EXCEPT !.backbuf = y] = [message |-> o.message, backbuf |-> y]
OBVIOUS

\* message and back buffers, one after the other
LEMMA StreamType ==
    ASSUME NEW o \in Out
    PROVE  Stream(o) \in Seq(Message)
BY ConcatProperties DEF Stream, Out

\* MSG_Write to the message: behind all, when there are no back buffers.
LEMMA DirectAppends ==
    ASSUME NEW o \in Out, NEW msg \in Message, o.backbuf = <<>>
    PROVE  Direct(o, msg) \in Out /\ Stream(Direct(o, msg)) = Append(Stream(o), msg)
<1>1. o.message \in Seq(Message) /\ Append(o.message, msg) \in Seq(Message)
  BY AppendProperties DEF Out
<1>2. Direct(o, msg) = [message |-> Append(o.message, msg), backbuf |-> <<>>]
  BY OutParts DEF Direct, Out
<1>3. Append(o.message, msg) \o <<>> = Append(o.message, msg) /\ o.message \o <<>> = o.message
  BY <1>1, ConcatEmptySeq
<1>4. <<>> \in Seq(Message)
  BY EmptySeq
<1> QED BY <1>1, <1>2, <1>3, <1>4 DEF Stream, Out

\* ClientReliableWrite: behind all there is, wherever it goes.
LEMMA WriteAppends ==
    ASSUME NEW o \in Out, NEW msg \in Message, NEW p \in Write(o, msg)
    PROVE  p \in Out /\ Stream(p) = Append(Stream(o), msg)
<1> DEFINE back == [message |-> o.message, backbuf |-> Append(o.backbuf, msg)]
<1>1. /\ o.message \in Seq(Message) /\ o.backbuf \in Seq(Message)
      /\ Append(o.backbuf, msg) \in Seq(Message)
  BY AppendProperties DEF Out
<1>2. back \in Out
  BY <1>1 DEF Out
<1>3. Stream(back) = Append(Stream(o), msg)
  <2>1. /\ <<msg>> \in Seq(Message) /\ Append(o.backbuf, msg) = o.backbuf \o <<msg>>
        /\ o.message \o o.backbuf \in Seq(Message)
        /\ Append(o.message \o o.backbuf, msg) = (o.message \o o.backbuf) \o <<msg>>
    BY <1>1, OneMore, ConcatProperties
  <2>2. (o.message \o o.backbuf) \o <<msg>> = o.message \o (o.backbuf \o <<msg>>)
    BY <1>1, <2>1, MessagesAssociative, ZenonT(60)
  <2> QED BY <2>1, <2>2 DEF Stream
<1>4. p = back \/ (o.backbuf = <<>> /\ p = Direct(o, msg))
  <2>1. [o EXCEPT !.backbuf = Append(@, msg)] = back
    BY OutParts DEF Out
  <2> QED BY <2>1 DEF Write
<1> QED BY <1>2, <1>3, <1>4, DirectAppends

\* SV_SendClientMessages moves back buffers without a change of what is under way.
LEMMA FlushedKeeps ==
    ASSUME NEW o \in Out, NEW p \in Flushed(o)
    PROVE  p \in Out /\ Stream(p) = Stream(o)
<1> DEFINE b == o.backbuf
           a == o.message
<1>1. a \in Seq(Message) /\ b \in Seq(Message) /\ Len(b) \in Nat
  BY LenProperties DEF Out
<1>2. PICK n \in 0..Len(b) : p = [message |-> a \o SubSeq(b, 1, n),
                                  backbuf |-> SubSeq(b, n + 1, Len(b))]
  <2>1. \A n \in (IF o.message = << >> /\ o.backbuf # << >> THEN 1 ELSE 0)..Len(b) : n \in 0..Len(b)
    BY <1>1
  <2> QED BY <2>1 DEF Flushed
<1> HIDE DEF a, b
<1>3. /\ SubSeq(b, 1, n) \in Seq(Message) /\ SubSeq(b, n + 1, Len(b)) \in Seq(Message)
      /\ SubSeq(b, 1, n) \o SubSeq(b, n + 1, Len(b)) = b
  <2>1. \A i \in 1..Len(b) : b[i] \in Message
    BY <1>1, ElementOfSeq
  <2>2. SubSeq(b, 1, n) \in Seq(Message)
    <3>1. 1 \in Int /\ n \in Int /\ \A i \in 1..n : b[i] \in Message
      BY <1>1, <2>1
    <3> QED BY <3>1, SubSeqProperties
  <2>3. SubSeq(b, n + 1, Len(b)) \in Seq(Message)
    <3>1. n + 1 \in Int /\ Len(b) \in Int /\ \A i \in n + 1..Len(b) : b[i] \in Message
      BY <1>1, <2>1
    <3> QED BY <3>1, SubSeqProperties
  <2>4. SubSeq(b, 1, n) \o SubSeq(b, n + 1, Len(b)) = SubSeq(b, 1, Len(b))
    <3>1. 1 \in 1..Len(b) + 1 /\ n \in 1 - 1..Len(b) /\ Len(b) \in n..Len(b)
      BY <1>1
    <3> QED BY <1>1, <3>1, ConcatAdjacentSubSeq, Zenon
  <2>5. SubSeq(b, 1, Len(b)) = b
    BY <1>1, SubSeqFull
  <2> QED BY <2>2, <2>3, <2>4, <2>5
<1>4. p \in Out
  <2>1. a \o SubSeq(b, 1, n) \in Seq(Message)
    BY <1>1, <1>3, ConcatProperties
  <2> QED BY <1>2, <1>3, <2>1 DEF Out
<1>5. (a \o SubSeq(b, 1, n)) \o SubSeq(b, n + 1, Len(b))
         = a \o (SubSeq(b, 1, n) \o SubSeq(b, n + 1, Len(b)))
  BY <1>1, <1>3, MessagesAssociative, Zenon
<1> QED BY <1>2, <1>3, <1>4, <1>5 DEF Stream, a, b

\* What a client has seen is a view.
LEMMA SeenType ==
    ASSUME NEW c \in Client
    PROVE  Seen(c) \in View
BY DEF Seen, View, Client

\* What a message adds.
LEMMA StepFields ==
    ASSUME NEW v \in View, NEW msg \in Message, msg.kind # "serverdata"
    PROVE  /\ Step(v, msg).count = v.count
           /\ Step(v, msg).info = IF msg.kind = "serverinfo" THEN msg.map ELSE v.info
           /\ Step(v, msg).sounds = IF msg.kind = "soundlist"
                                    THEN v.sounds \cup ({msg.map} \X msg.names) ELSE v.sounds
           /\ Step(v, msg).models = IF msg.kind = "modellist"
                                    THEN v.models \cup ({msg.map} \X msg.names) ELSE v.models
           /\ Step(v, msg).ready = IF msg.kind = "modellist" THEN v.ready \/ msg.last ELSE v.ready
           /\ Step(v, msg).signon = IF msg.kind = "signon"
                                    THEN v.signon \cup ({msg.map} \X msg.names) ELSE v.signon
<1> DEFINE got == {msg.map} \X msg.names
<1> HIDE DEF got
<1>1. CASE msg.kind = "serverinfo"
  BY <1>1 DEF Step, View
<1>2. CASE msg.kind = "soundlist"
  <2>1. Step(v, msg) = [v EXCEPT !.sounds = v.sounds \cup got]
    BY <1>2 DEF Step, got
  <2> QED BY <1>2, <2>1 DEF View, got
<1>3. CASE msg.kind = "modellist"
  <2>1. Step(v, msg) = [v EXCEPT !.models = v.models \cup got, !.ready = v.ready \/ msg.last]
    BY <1>3 DEF Step, got
  <2> QED BY <1>3, <2>1 DEF View, got
<1>4. CASE msg.kind = "signon"
  <2>1. Step(v, msg) = [v EXCEPT !.signon = v.signon \cup got]
    BY <1>4 DEF Step, got
  <2> QED BY <1>4, <2>1 DEF View, got
<1>5. CASE msg.kind \notin {"serverinfo", "soundlist", "modellist", "signon"}
  BY <1>5 DEF Step
<1> QED BY <1>1, <1>2, <1>3, <1>4, <1>5

\* The names from where a piece begins to where it ends.
LEMMA PiecesJoin ==
    ASSUME NEW map \in Nat, NEW i \in Nat, NEW n \in Nat
    PROVE  UpTo(map, i) \cup ({map} \X (i + 1..i + n)) = UpTo(map, i + n)
<1>1. (1..i) \cup (i + 1..i + n) = 1..i + n
  OBVIOUS
<1>2. ({map} \X (1..i)) \cup ({map} \X (i + 1..i + n)) = {map} \X ((1..i) \cup (i + 1..i + n))
  OBVIOUS
<1> QED BY <1>1, <1>2 DEF UpTo

\* Of a list that has not begun there is nothing.
LEMMA NothingYet ==
    ASSUME NEW map
    PROVE  UpTo(map, 0) = {}
BY DEF UpTo

\* A message is written for the client at the end of all that is under way.
LEMMA TellsOneMore ==
    ASSUME NEW s \in Server, NEW t \in Server, NEW S \in Seq(Message), NEW R \in Seq(Message),
           NEW c \in Client, NEW msg \in Message, Added(S, R, msg), Told(s, S, c),
           \A L \in View : Reached(s, L) => /\ Fitting(L, msg) /\ Reached(t, Step(L, msg))
                                            /\ Good(L) => Good(Step(L, msg))
    PROVE  Told(t, R, c)
<1>1. PICK L \in View : Run(S, Seen(c), L) /\ Reached(s, L)
  BY DEF Told
<1>2. Good(L)
  <2>1. PICK V \in [0..Len(S) -> View] : RunOf(V, S, Seen(c), L)
    BY <1>1 DEF Run
  <2>2. Len(S) \in 0..Len(S)
    BY LenProperties
  <2> QED BY <2>1, <2>2 DEF RunOf
<1>3. Run(R, Seen(c), Step(L, msg))
  BY <1>1, <1>2, SeenType, RunAppend
<1> QED BY <1>1, <1>3, StepType DEF Told

\* Stages as numbers.
StageNumbers == /\ INVALID = 0 /\ SERVERINFO = 1 /\ SOUNDLIST = 2 /\ MODELLIST = 3
                /\ MAPCHECK = 4 /\ SIGNON = 5 /\ SPAWN = 6 /\ COMPLETED = 7

\* They are the numbers of the prespawn stages.
LEMMA Numbers == StageNumbers
BY DEF StageNumbers, INVALID, SERVERINFO, SOUNDLIST, MODELLIST, MAPCHECK, SIGNON, SPAWN, COMPLETED

\* The lists have lengths.
LEMMA Totals == Sounds \in Nat /\ Models \in Nat /\ SignonData \in Nat
BY SignonAssumption

\* SendServerinfo
LEMMA TellsServerinfo ==
    ASSUME NEW s \in Server, NEW t \in Server, NEW L \in View, NEW msg \in Message, Reached(s, L),
           s.stage = SERVERINFO, msg.kind = "serverinfo", msg.map = s.spawncount,
           t.spawncount = s.spawncount, t.pextknown = s.pextknown,
           t.stage = SOUNDLIST, t.idx = 0
    PROVE  Fitting(L, msg) /\ Reached(t, Step(L, msg)) /\ Good(Step(L, msg))
<1> DEFINE M == Step(L, msg)
<1>1. /\ L.count = s.spawncount /\ s.pextknown /\ ~L.ready
      /\ L.sounds = {} /\ L.models = {} /\ L.signon = {}
  BY Numbers DEF StageNumbers, Reached
<1>2. /\ M.count = L.count /\ M.info = L.count /\ M.sounds = {} /\ M.models = {} /\ ~M.ready
      /\ M.signon = {}
  BY <1>1, StepFields
<1> HIDE DEF M
<1>3. Good(M)
  BY <1>2 DEF Good
<1>4. Fitting(L, msg)
  BY <1>1 DEF Fitting
<1>5. s.spawncount \in Nat /\ L.count \in Nat
  BY DEF Server, View
<1>6. Reached(t, M)
  BY <1>1, <1>2, <1>5, Numbers, Totals, NothingYet DEF StageNumbers, Reached
<1> QED BY <1>3, <1>4, <1>6 DEF M

\* t is s with a piece of n names sent, the last of the stage or not
Further(s, t, n, last) ==
    /\ t.spawncount = s.spawncount /\ t.pextknown = s.pextknown
    /\ t.stage = IF last THEN s.stage + 1 ELSE s.stage
    /\ t.idx = IF last THEN 0 ELSE s.idx + n

PieceOf(s, msg, kind, n, last, total) ==
    /\ msg.kind = kind /\ msg.map = s.spawncount /\ msg.names = s.idx + 1..s.idx + n
    /\ msg.last = last /\ last \in BOOLEAN
    /\ n \in 0..total - s.idx
    /\ last => n = total - s.idx

\* SendSoundlist
LEMMA TellsSounds ==
    ASSUME NEW s \in Server, NEW t \in Server, NEW L \in View, NEW msg \in Message, Reached(s, L),
           NEW n, NEW last, s.stage = SOUNDLIST, PieceOf(s, msg, "soundlist", n, last, Sounds),
           Further(s, t, n, last)
    PROVE  Fitting(L, msg) /\ Reached(t, Step(L, msg)) /\ Good(Step(L, msg))
<1> DEFINE M == Step(L, msg)
           i == s.idx
<1>1. /\ L.count = s.spawncount /\ s.pextknown /\ ~L.ready /\ L.info = L.count
      /\ L.sounds = UpTo(L.count, i) /\ i <= Sounds /\ L.models = {} /\ L.signon = {}
  BY Numbers DEF StageNumbers, Reached
<1>2. i \in Nat /\ n \in Nat /\ i + n <= Sounds /\ (last => i + n = Sounds) /\ last \in BOOLEAN
  BY <1>1, Totals DEF Server, PieceOf
<1>3. s.spawncount \in Nat /\ L.count \in Nat
  BY DEF Server, View
<1>4. L.sounds \cup ({msg.map} \X msg.names) = UpTo(L.count, i + n)
  BY <1>1, <1>2, <1>3, PiecesJoin DEF PieceOf
<1>5. /\ M.count = L.count /\ M.info = L.count /\ M.sounds = UpTo(L.count, i + n)
      /\ M.models = {} /\ ~M.ready /\ M.signon = {}
  BY <1>1, <1>4, StepFields DEF PieceOf
<1> HIDE DEF M
<1>6. Good(M)
  BY <1>5 DEF Good
<1>7. Fitting(L, msg)
  BY <1>1 DEF Fitting, PieceOf
<1>8. Reached(t, M)
  <2>1. CASE last
    <3>1. t.stage = MODELLIST /\ t.idx = 0 /\ M.sounds = UpTo(L.count, Sounds)
      BY <1>2, <1>5, <2>1, Numbers DEF StageNumbers, Further
    <3> QED BY <1>1, <1>3, <1>5, <3>1, Numbers, Totals, NothingYet
            DEF StageNumbers, Reached, Further
  <2>2. CASE ~last
    <3>1. t.stage = SOUNDLIST /\ t.idx = i + n
      BY <2>2 DEF Further
    <3> QED BY <1>1, <1>2, <1>3, <1>5, <3>1, Numbers DEF StageNumbers, Reached, Further
  <2> QED BY <2>1, <2>2
<1> QED BY <1>6, <1>7, <1>8 DEF M

\* SendModellist
LEMMA TellsModels ==
    ASSUME NEW s \in Server, NEW t \in Server, NEW L \in View, NEW msg \in Message, Reached(s, L),
           NEW n, NEW last, s.stage = MODELLIST, PieceOf(s, msg, "modellist", n, last, Models),
           Further(s, t, n, last)
    PROVE  Fitting(L, msg) /\ Reached(t, Step(L, msg)) /\ Good(Step(L, msg))
<1> DEFINE M == Step(L, msg)
           i == s.idx
<1>1. /\ L.count = s.spawncount /\ s.pextknown /\ ~L.ready /\ L.info = L.count
      /\ L.sounds = UpTo(L.count, Sounds) /\ L.models = UpTo(L.count, i) /\ i <= Models
      /\ L.signon = {}
  BY Numbers DEF StageNumbers, Reached
<1>2. i \in Nat /\ n \in Nat /\ i + n <= Models /\ (last => i + n = Models) /\ last \in BOOLEAN
  BY <1>1, Totals DEF Server, PieceOf
<1>3. s.spawncount \in Nat /\ L.count \in Nat
  BY DEF Server, View
<1>4. L.models \cup ({msg.map} \X msg.names) = UpTo(L.count, i + n)
  BY <1>1, <1>2, <1>3, PiecesJoin DEF PieceOf
<1>5. /\ M.count = L.count /\ M.info = L.count /\ M.sounds = UpTo(L.count, Sounds)
      /\ M.models = UpTo(L.count, i + n) /\ (M.ready <=> last) /\ M.signon = {}
  <2>1. M.ready = (L.ready \/ last)
    BY StepFields DEF PieceOf
  <2>2. M.ready <=> last
    BY <1>1, <2>1, Zenon
  <2>3. /\ M.count = L.count /\ M.info = L.count /\ M.sounds = UpTo(L.count, Sounds)
        /\ M.models = UpTo(L.count, i + n) /\ M.signon = {}
    BY <1>1, <1>4, StepFields DEF PieceOf
  <2> QED BY <2>2, <2>3
<1> HIDE DEF M
<1>6. Good(M)
  BY <1>2, <1>5 DEF Good
<1>7. Fitting(L, msg)
  BY <1>1 DEF Fitting, PieceOf
<1>8. Reached(t, M)
  <2>1. CASE last
    <3>1. t.stage = MAPCHECK /\ t.idx = 0 /\ M.models = UpTo(L.count, Models)
      BY <1>2, <1>5, <2>1, Numbers DEF StageNumbers, Further
    <3> QED BY <1>1, <1>3, <1>5, <3>1, Numbers DEF StageNumbers, Reached, Further
  <2>2. CASE ~last
    <3>1. t.stage = MODELLIST /\ t.idx = i + n /\ ~M.ready
      BY <1>5, <2>2 DEF Further
    <3> QED BY <1>1, <1>2, <1>3, <1>5, <3>1, Numbers DEF StageNumbers, Reached, Further
  <2> QED BY <2>1, <2>2
<1> QED BY <1>6, <1>7, <1>8 DEF M

\* SendSignon: a piece, which does not end the stage yet
LEMMA TellsSignon ==
    ASSUME NEW s \in Server, NEW t \in Server, NEW L \in View, NEW msg \in Message, Reached(s, L),
           NEW n, NEW last, s.stage = SIGNON, PieceOf(s, msg, "signon", n, last, SignonData),
           Further(s, t, n, FALSE), Good(L)
    PROVE  Fitting(L, msg) /\ Reached(t, Step(L, msg)) /\ Good(Step(L, msg))
<1> DEFINE M == Step(L, msg)
           i == s.idx
<1>1. /\ L.count = s.spawncount /\ s.pextknown /\ L.info = L.count
      /\ L.sounds = UpTo(L.count, Sounds) /\ L.models = UpTo(L.count, Models)
      /\ L.signon = UpTo(L.count, i) /\ i <= SignonData
  BY Numbers DEF StageNumbers, Reached
<1>2. i \in Nat /\ n \in Nat /\ i + n <= SignonData
  BY <1>1, Totals DEF Server, PieceOf
<1>3. s.spawncount \in Nat /\ L.count \in Nat
  BY DEF Server, View
<1>4. L.signon \cup ({msg.map} \X msg.names) = UpTo(L.count, i + n)
  BY <1>1, <1>2, <1>3, PiecesJoin DEF PieceOf
<1>5. /\ M.count = L.count /\ M.info = L.count /\ M.sounds = UpTo(L.count, Sounds)
      /\ M.models = UpTo(L.count, Models) /\ M.ready = L.ready
      /\ M.signon = UpTo(L.count, i + n)
  BY <1>1, <1>4, StepFields DEF PieceOf
<1> HIDE DEF M
<1>6. Good(M)
  BY <1>5 DEF Good
<1>7. Fitting(L, msg)
  <2>1. s.idx + 1..s.idx + n \subseteq 1..SignonData
    BY <1>2, Totals
  <2> QED BY <1>1, <2>1 DEF Fitting, PieceOf
<1>8. Reached(t, M)
  <2>1. t.stage = SIGNON /\ t.idx = i + n
    BY DEF Further
  <2> QED BY <1>1, <1>2, <1>3, <1>5, <2>1, Numbers DEF StageNumbers, Reached, Further
<1> QED BY <1>6, <1>7, <1>8 DEF M

\* Of what else is written nothing is added to what the client knows.
LEMMA TellsNothing ==
    ASSUME NEW L \in View, NEW msg \in Message, msg.kind \in {"changing", "pext", "spawn", "skins"}
    PROVE  Step(L, msg) = L
BY DEF Step

\* SV_New_f's serverdata
LEMMA TellsServerdata ==
    ASSUME NEW s \in Server, NEW t \in Server, NEW L \in View, NEW msg \in Message, Reached(s, L),
           msg.kind = "serverdata", msg.map = s.spawncount,
           t.spawncount = s.spawncount, t.pextknown, t.stage = SERVERINFO, t.idx = 0
    PROVE  Fitting(L, msg) /\ Reached(t, Step(L, msg)) /\ Good(Step(L, msg))
<1> DEFINE M == Step(L, msg)
<1>1. M = [count |-> msg.map, info |-> 0, sounds |-> {}, models |-> {}, signon |-> {},
           ready |-> FALSE]
  BY DEF Step
<1>2. /\ M.count = s.spawncount /\ M.sounds = {} /\ M.models = {} /\ M.signon = {}
      /\ M.ready = FALSE
  BY <1>1
<1>3. s.spawncount \in Nat /\ L.count <= s.spawncount
  BY DEF Server, Reached
<1> HIDE DEF M
<1>4. Fitting(L, msg) /\ Good(M)
  BY <1>2, <1>3 DEF Fitting, Good
<1>5. Reached(t, M)
  BY <1>2, <1>3, Numbers DEF StageNumbers, Reached
<1> QED BY <1>4, <1>5 DEF M
-----------------------------------------------------------------------------
(* The invariant, kept by what the server does. *)

\* Besides its stage, its index and its permissions t is as s.
Kept(s, t) == /\ t.spawncount = s.spawncount /\ t.state = s.state /\ t.setup = s.setup
              /\ t.spawned = s.spawned /\ t.info = s.info

\* The stage of t is no further on than that of s, where it matters.
NoFurther(s, t) ==
    t.state = "connected" => /\ t.stage >= SIGNON => s.stage >= SIGNON
                             /\ t.stage # COMPLETED => s.stage # COMPLETED

\* The elements of a sequence with one more.
LEMMA AddedIs ==
    ASSUME NEW T, NEW q \in Seq(T), NEW r \in Seq(T), NEW x, Added(q, r, x)
    PROVE  /\ Len(q) \in Nat /\ Len(r) = Len(q) + 1
           /\ \A i \in 1..Len(r) : \/ i \in 1..Len(q) /\ r[i] = q[i]
                                   \/ i = Len(q) + 1 /\ r[i] = x
           /\ \A i \in 1..Len(q) : i \in 1..Len(r) /\ r[i] = q[i]
           /\ Len(q) + 1 \in 1..Len(r) /\ r[Len(q) + 1] = x
<1>1. Len(q) \in Nat
  BY LenProperties
<1> QED BY <1>1 DEF Added

\* Another stage.
LEMMA StageKeeps ==
    ASSUME NEW s, NEW t, NEW S, NEW c, NEW q, NEW f, NEW lost,
           Inv(s, S, c, q, f, lost), t \in Server, Kept(s, t), NoFurther(s, t), Told(t, S, c)
    PROVE  Inv(t, S, c, q, f, lost)
<1>1. Typed(t, S, c, q, f, lost)
  BY DEF Inv, Typed
<1>2. Maps(t.spawncount, S, c, q) /\ Behind(t.spawncount, c, q)
  BY DEF Inv, Kept
<1>3. Settled(t, c, q)
  BY DEF Inv, Kept, NoFurther, Settled
<1>4. Entering(t, S, c, q, lost)
  BY DEF Inv, Kept, NoFurther, Entering
<1>5. Frames(t, S, c, f, lost)
  BY DEF Inv, Kept, Frames
<1>6. Userinfo(t, c, q)
  BY DEF Inv, Kept, Userinfo, Known
<1> QED BY <1>1, <1>2, <1>3, <1>4, <1>5, <1>6 DEF Inv

\* A message of this map is written.
LEMMA WriteKeeps ==
    ASSUME NEW s, NEW t, NEW S, NEW R, NEW c, NEW q, NEW f, NEW lost, NEW msg \in Message,
           Inv(s, S, c, q, f, lost), t \in Server, Kept(s, t), NoFurther(s, t),
           R \in Seq(Message), Added(S, R, msg), Told(t, R, c),
           msg.map = s.spawncount, msg.kind # "changing",
           msg.kind = "spawn" /\ t.state = "connected" => t.stage = COMPLETED,
           msg.kind = "serverdata" => s.state = "connected" /\ s.stage # COMPLETED,
           msg.kind = "skins" => s.setup
    PROVE  Inv(t, R, c, q, f, lost)
<1> DEFINE n == Len(S)
           m == s.spawncount
<1>1. /\ S \in Seq(Message) /\ s \in Server
      /\ t.spawncount = m /\ t.state = s.state /\ t.setup = s.setup /\ t.spawned = s.spawned
      /\ t.info = s.info /\ m \in Nat
  BY DEF Inv, Typed, Kept, Server
<1>2. /\ n \in Nat /\ Len(R) = n + 1
      /\ \A i \in 1..Len(R) : \/ i \in 1..n /\ R[i] = S[i]
                              \/ i = n + 1 /\ R[i] = msg
  BY <1>1, AddedIs
<1> HIDE DEF n
<1>3. Typed(t, R, c, q, f, lost)
  BY DEF Inv, Typed
<1>4. Maps(m, R, c, q)
  BY <1>1, <1>2 DEF Inv, Maps, n
<1>5. Settled(t, c, q)
  BY DEF Inv, Kept, NoFurther, Settled
<1>6. Entering(t, R, c, q, lost)
  <2>1. ASSUME NEW kind, Stuffed(kind, m, R)
        PROVE  Stuffed(kind, m, S) \/ msg.kind = kind
    <3>1. PICK i \in 1..Len(R) : R[i].kind = kind /\ R[i].map = m
      BY <2>1 DEF Stuffed
    <3> QED BY <1>2, <3>1 DEF Stuffed, n
  <2>2. t.state = "connected" /\ t.stage # COMPLETED =>
           ~t.setup /\ ~Stuffed("spawn", m, R) /\ ~Commanded("spawn", m, c, q)
    BY <1>1, <2>1 DEF Inv, NoFurther, Entering
  <2>3. ASSUME NEW i \in 1..Len(R), NEW j \in 1..Len(R), i < j,
               R[i].kind = "spawn", R[i].map = m
        PROVE  R[j].kind # "serverdata"
    <3>1. i \in 1..n /\ R[i] = S[i]
      BY <1>2, <2>3
    <3>2. Stuffed("spawn", m, S)
      BY <2>3, <3>1 DEF Stuffed, n
    <3>3. CASE j \in 1..n /\ R[j] = S[j]
      BY <2>3, <3>1, <3>3 DEF Inv, Entering, n
    <3>4. CASE R[j] = msg
      BY <3>2, <3>4 DEF Inv, Entering
    <3> QED BY <1>2, <3>3, <3>4
  <2>4. ASSUME t.setup \/ Commanded("spawn", m, c, q)
        PROVE  /\ \A i \in 1..Len(R) : R[i].kind # "serverdata"
               /\ c.servercount = m
               /\ Complete(Seen(c))
    <3>1. /\ \A i \in 1..Len(S) : S[i].kind # "serverdata"
          /\ c.servercount = m
          /\ Complete(Seen(c))
      BY <1>1, <2>4 DEF Inv, Entering
    <3>2. msg.kind # "serverdata"
      BY <1>1, <2>4 DEF Inv, Entering
    <3> QED BY <1>2, <3>1, <3>2 DEF n
  <2>5. Stuffed("skins", m, R) \/ Commanded("begin", m, c, q) => t.setup
    BY <1>1, <2>1 DEF Inv, Entering
  <2>6. t.state = "spawned" /\ m \notin lost => t.spawned /\ t.setup
    BY <1>1 DEF Inv, Entering
  <2> QED BY <1>1, <2>2, <2>3, <2>4, <2>5, <2>6 DEF Entering
<1>7. Frames(t, R, c, f, lost)
  <2>1. \A i \in 1..Len(R) : R[i].kind = "serverdata" =>
           \/ \E j \in 1..Len(S) : R[i] = S[j]
           \/ R[i].map = m /\ s.state = "connected"
    BY <1>2 DEF n
  <2>2. f <= m /\ (f = m => s.state = "spawned") /\ f \in Nat
    BY DEF Inv, Typed, Frames
  <2>3. ASSUME \A i \in 1..Len(S) : S[i].kind = "serverdata" => S[i].map > f,
               NEW i \in 1..Len(R), R[i].kind = "serverdata"
        PROVE  R[i].map > f
    BY <1>1, <2>1, <2>2, <2>3
  <2>4. /\ f # 0 => \/ f \in lost /\ f >= c.servercount
                    \/ /\ f = c.servercount /\ Complete(Seen(c))
                       /\ \A i \in 1..Len(S) : S[i].kind = "serverdata" => S[i].map > f
        /\ c.valid => \/ Complete(Seen(c))
                      \/ \E map \in lost : map >= c.servercount
        /\ c.state = "active" => c.valid /\ c.worldmodel
    BY DEF Inv, Frames
  <2> QED BY <1>1, <2>2, <2>3, <2>4 DEF Frames
<1>8. Userinfo(t, c, q)
  BY <1>1 DEF Inv, Userinfo, Known
<1> QED BY <1>1, <1>3, <1>4, <1>5, <1>6, <1>7, <1>8 DEF Inv

\* A command is taken.  The userinfo of SV_SetInfo_f is never older than what is known.
LEMMA TakeKeeps ==
    ASSUME NEW s, NEW t, NEW S, NEW c, NEW q, NEW r, NEW f, NEW lost, Inv(s, S, c, q, f, lost),
           t \in Server,
           t = [s EXCEPT !.info = IF q[1].name = "setinfo" THEN q[1].info ELSE s.info],
           r \in Seq(SentCommand), Dropped(q, r)
    PROVE  Inv(t, S, c, r, f, lost)
<1> DEFINE n == Len(r)
           m == s.spawncount
<1>1. /\ n \in Nat /\ Len(q) = n + 1
      /\ \A i \in 1..n : i + 1 \in 1..Len(q) /\ r[i] = q[i + 1]
      /\ 1 \in 1..Len(q)
  BY LenProperties DEF Dropped
<1> HIDE DEF n
<1>2. /\ t.spawncount = m /\ t.state = s.state /\ t.setup = s.setup /\ t.spawned = s.spawned
      /\ t.stage = s.stage /\ t.idx = s.idx /\ t.pextknown = s.pextknown
      /\ t.info = IF q[1].name = "setinfo" THEN q[1].info ELSE s.info
  BY DEF Inv, Typed, Server
<1>3. Typed(t, S, c, r, f, lost)
  BY DEF Inv, Typed
<1>4. Told(t, S, c)
  BY <1>2 DEF Inv, Told, Reached
<1>5. Maps(m, S, c, r)
  BY <1>1 DEF Inv, Maps, n
<1>6. Behind(m, c, r)
  <2>1. ASSUME NEW i \in 1..n, NEW j \in 1..n, i < j, Of(r[i], m) PROVE ~NotOf(r[j], m)
    <3>1. i + 1 < j + 1 /\ i + 1 \in 1..Len(q) /\ j + 1 \in 1..Len(q)
      BY <1>1, <2>1
    <3> QED BY <1>1, <2>1, <3>1 DEF Inv, Behind
  <2>2. ASSUME NEW i \in 1..n, NEW j \in 1..Len(c.cmds), Of(r[i], m) PROVE ~NotOf(c.cmds[j], m)
    BY <1>1, <2>2 DEF Inv, Behind
  <2> QED BY <2>1, <2>2 DEF Inv, Behind, n
<1>7. Settled(t, c, r)
  BY <1>1, <1>2 DEF Inv, Settled, n
<1>8. Entering(t, S, c, r, lost)
  <2>1. \A name : Commanded(name, m, c, r) => Commanded(name, m, c, q)
    BY <1>1 DEF Commanded, n
  <2> QED BY <1>2, <2>1 DEF Inv, Entering
<1>9. Frames(t, S, c, f, lost)
  BY <1>2 DEF Inv, Frames
<1>10. Userinfo(t, c, r)
  <2>1. /\ s.info \in Nat /\ t.info \in Nat /\ c.info \in Nat
        /\ \A i \in 1..Len(q) : q[i].info \in Nat
    <3>1. \A i \in 1..Len(q) : q[i] \in SentCommand
      BY ElementOfSeq DEF Inv, Typed
    <3> QED BY <3>1 DEF Inv, Typed, Server, Client, SentCommand
  <2>2. s.info <= t.info
    BY <1>1, <1>2, <2>1 DEF Inv, Userinfo
  <2>3. ASSUME NEW x \in Nat, NEW k \in 0..n, Known(x, s, q, k + 1) PROVE Known(x, t, r, k)
    <3>1. CASE s.info >= x
      BY <2>1, <2>2, <3>1 DEF Known
    <3>2. CASE \E i \in 1..k + 1 : q[i].name = "setinfo" /\ q[i].info >= x
      <4>1. PICK i \in 1..k + 1 : q[i].name = "setinfo" /\ q[i].info >= x
        BY <3>2
      <4>2. CASE i = 1
        BY <1>2, <4>1, <4>2 DEF Known
      <4>3. CASE i # 1
        <5>1. i - 1 \in 1..k /\ i - 1 \in 1..n /\ (i - 1) + 1 = i
          BY <1>1, <4>3
        <5>2. r[i - 1] = q[i]
          BY <1>1, <5>1
        <5> QED BY <4>1, <5>1, <5>2 DEF Known
      <4> QED BY <4>2, <4>3
    <3> QED BY <2>3, <3>1, <3>2 DEF Known
  <2>4. t.info <= c.info
    BY <1>1, <1>2 DEF Inv, Userinfo
  <2>5. ASSUME NEW i \in 1..n PROVE t.info <= r[i].info /\ r[i].info <= c.info
    <3>1. 1 < i + 1 /\ i + 1 \in 1..Len(q)
      BY <1>1
    <3> QED BY <1>1, <1>2, <3>1 DEF Inv, Userinfo
  <2>6. ASSUME NEW i \in 1..n, NEW j \in 1..n, i < j PROVE r[i].info <= r[j].info
    <3>1. i + 1 < j + 1 /\ i + 1 \in 1..Len(q) /\ j + 1 \in 1..Len(q)
      BY <1>1, <2>6
    <3> QED BY <1>1, <3>1 DEF Inv, Userinfo
  <2>7. ~c.sync => Known(c.info, t, r, n)
    <3>1. n \in 0..n
      BY <1>1
    <3>2. ~c.sync => Known(c.info, s, q, n + 1)
      BY <1>1 DEF Inv, Userinfo
    <3> QED BY <2>1, <2>3, <3>1, <3>2
  <2>8. ASSUME NEW i \in 1..n, r[i].name = "spawn", r[i].map = m
        PROVE  Known(r[i].info, t, r, i - 1)
    <3>1. i - 1 \in 0..n /\ (i - 1) + 1 = i /\ (i + 1) - 1 = i /\ i + 1 \in 1..Len(q)
      BY <1>1
    <3>2. Known(q[i + 1].info, s, q, (i + 1) - 1)
      BY <1>1, <2>8, <3>1 DEF Inv, Userinfo
    <3> QED BY <1>1, <2>1, <2>3, <3>1, <3>2
  <2> QED BY <1>2, <2>4, <2>5, <2>6, <2>7, <2>8 DEF Userinfo, n
<1> QED BY <1>2, <1>3, <1>4, <1>5, <1>6, <1>7, <1>8, <1>9, <1>10 DEF Inv

\* SVQW_PreSpawn_f: the commands behind the prespawn are of this map.
LEMMA PrespawnKeeps ==
    ASSUME NEW s, NEW t, NEW S, NEW c, NEW q, NEW r, NEW f, NEW lost, Inv(s, S, c, q, f, lost),
           t \in Server, t = [s EXCEPT !.stage = SIGNON, !.idx = 0], s.stage = MAPCHECK,
           r \in Seq(SentCommand), Dropped(q, r),
           q[1].name = "prespawn", q[1].map = s.spawncount
    PROVE  Inv(t, S, c, r, f, lost)
<1> DEFINE m == s.spawncount
<1>1. s \in Server /\ c \in Client /\ m \in Nat /\ Len(q) \in Nat /\ Len(r) \in Nat
  BY LenProperties DEF Inv, Typed, Server
<1>2. /\ t.spawncount = m /\ t.state = s.state /\ t.setup = s.setup /\ t.spawned = s.spawned
      /\ t.info = s.info /\ t.pextknown = s.pextknown /\ t.stage = SIGNON /\ t.idx = 0
  BY <1>1 DEF Server
<1>3. Inv(s, S, c, r, f, lost)
  <2>1. s = [s EXCEPT !.info = IF q[1].name = "setinfo" THEN q[1].info ELSE s.info]
    BY <1>1 DEF Server
  <2> QED BY <1>1, <2>1, TakeKeeps
<1>4. /\ c.servercount = m
      /\ \A i \in 1..Len(r) : ~NotOf(r[i], m)
      /\ \A i \in 1..Len(c.cmds) : ~NotOf(c.cmds[i], m)
  <2>1. 1 \in 1..Len(q) /\ Of(q[1], m)
    BY <1>1 DEF Dropped, Of
  <2>2. c.servercount = m
    <3>1. q[1].map <= c.servercount /\ c.servercount <= m /\ c.servercount \in Nat
      BY <2>1 DEF Inv, Typed, Maps, Client
    <3> QED BY <1>1, <3>1
  <2>3. ASSUME NEW i \in 1..Len(r) PROVE ~NotOf(r[i], m)
    <3>1. i + 1 \in 1..Len(q) /\ 1 < i + 1 /\ r[i] = q[i + 1]
      BY <1>1 DEF Dropped
    <3> QED BY <2>1, <3>1 DEF Inv, Behind
  <2>4. ASSUME NEW i \in 1..Len(c.cmds) PROVE ~NotOf(c.cmds[i], m)
    BY <2>1 DEF Inv, Behind
  <2> QED BY <2>2, <2>3, <2>4
<1>5. Typed(t, S, c, r, f, lost) /\ Maps(m, S, c, r) /\ Behind(m, c, r)
  BY <1>3 DEF Inv, Typed
<1>6. Told(t, S, c)
  <2>1. PICK L \in View : Run(S, Seen(c), L) /\ Reached(s, L)
    BY DEF Inv, Told
  <2>2. /\ L.count = m /\ s.pextknown /\ L.info = L.count /\ L.signon = {}
        /\ L.sounds = UpTo(L.count, Sounds) /\ L.models = UpTo(L.count, Models)
    BY <2>1, Numbers DEF Reached, StageNumbers
  <2>3. L.signon = UpTo(L.count, t.idx) /\ t.idx <= SignonData /\ m <= m
    BY <1>1, <1>2, <2>2, NothingYet, Totals
  <2> HIDE DEF m
  <2>4. Reached(t, L)
    BY <1>2, <2>2, <2>3, Numbers DEF Reached, StageNumbers
  <2> QED BY <2>1, <2>4 DEF Told
<1>7. Settled(t, c, r)
  BY <1>2, <1>4 DEF Settled
<1>8. Entering(t, S, c, r, lost)
  <2>1. s.stage # COMPLETED
    BY Numbers DEF StageNumbers
  <2> QED BY <1>2, <1>3, <2>1 DEF Inv, Entering
<1>9. Frames(t, S, c, f, lost) /\ Userinfo(t, c, r)
  BY <1>2, <1>3 DEF Inv, Frames, Userinfo, Known
<1> QED BY <1>2, <1>5, <1>6, <1>7, <1>8, <1>9 DEF Inv

\* SVQW_Spawn_f: the player is set up.
LEMMA SetupKeeps ==
    ASSUME NEW s, NEW t, NEW S, NEW c, NEW q, NEW f, NEW lost, Inv(s, S, c, q, f, lost),
           t \in Server, t = [s EXCEPT !.setup = TRUE],
           s.state = "connected" => s.stage = COMPLETED,
           Commanded("spawn", s.spawncount, c, q)
    PROVE  Inv(t, S, c, q, f, lost)
<1>1. s \in Server
  BY DEF Inv, Typed
<1>2. /\ t.spawncount = s.spawncount /\ t.state = s.state /\ t.setup /\ t.spawned = s.spawned
      /\ t.info = s.info /\ t.pextknown = s.pextknown /\ t.stage = s.stage /\ t.idx = s.idx
  BY <1>1 DEF Server
<1>3. Typed(t, S, c, q, f, lost) /\ Maps(t.spawncount, S, c, q) /\ Behind(t.spawncount, c, q)
  BY <1>2 DEF Inv, Typed
<1>4. Told(t, S, c) /\ Settled(t, c, q)
  BY <1>2 DEF Inv, Told, Reached, Settled
<1>5. Entering(t, S, c, q, lost)
  BY <1>2 DEF Inv, Entering
<1>6. Frames(t, S, c, f, lost) /\ Userinfo(t, c, q)
  BY <1>2 DEF Inv, Frames, Userinfo, Known
<1> QED BY <1>3, <1>4, <1>5, <1>6 DEF Inv

\* SV_Begin_f: the client is let in, on the map it was set up on or, late, on another.
LEMMA BeginKeeps ==
    ASSUME NEW s, NEW t, NEW S, NEW c, NEW q, NEW f, NEW lost, NEW more,
           Inv(s, S, c, q, f, lost), s.state = "connected",
           t \in Server, t.state = "spawned", t.spawncount = s.spawncount, t.setup = s.setup,
           t.info = s.info, t.pextknown = s.pextknown,
           \/ more = lost \cup {s.spawncount} /\ t.stage = INVALID
           \/ more = lost /\ t.spawned /\ s.setup /\ t.stage = s.stage /\ t.idx = s.idx
    PROVE  Inv(t, S, c, q, f, more)
<1>1. s \in Server /\ s.spawncount \in Nat /\ lost \in SUBSET Nat
  BY DEF Inv, Typed, Server
<1>2. more \in SUBSET Nat /\ lost \subseteq more
  BY <1>1
<1>3. Typed(t, S, c, q, f, more) /\ Maps(t.spawncount, S, c, q) /\ Behind(t.spawncount, c, q)
  BY <1>2 DEF Inv, Typed
<1>4. Told(t, S, c)
  <2>1. PICK L \in View : Run(S, Seen(c), L) /\ Reached(s, L)
    BY DEF Inv, Told
  <2>2. Reached(t, L)
    BY <2>1, Numbers DEF Reached, StageNumbers
  <2> QED BY <2>1, <2>2 DEF Told
<1>5. Settled(t, c, q)
  BY DEF Settled
<1>6. Entering(t, S, c, q, more)
  BY DEF Inv, Entering
<1>7. Frames(t, S, c, f, more)
  BY <1>2 DEF Inv, Frames
<1>8. Userinfo(t, c, q)
  BY DEF Inv, Userinfo, Known
<1> QED BY <1>3, <1>4, <1>5, <1>6, <1>7, <1>8 DEF Inv

\* SV_New_f by a client in the game.
LEMMA NewInGameKeeps ==
    ASSUME NEW s, NEW t, NEW S, NEW c, NEW q, NEW f, NEW lost, Inv(s, S, c, q, f, lost),
           s.state = "spawned", t \in Server, Kept(s, t), t.stage = INVALID
    PROVE  Inv(t, S, c, q, f, lost)
<1>1. NoFurther(s, t)
  BY DEF Kept, NoFurther
<1>2. Told(t, S, c)
  <2>1. PICK L \in View : Run(S, Seen(c), L) /\ Reached(s, L)
    BY DEF Inv, Told
  <2>2. Reached(t, L)
    BY <2>1, Numbers DEF Reached, StageNumbers, Kept
  <2> QED BY <2>1, <2>2 DEF Told
<1> QED BY <1>1, <1>2, StageKeeps

\* SV_New_f by one that is not, as far as the prespawn: it starts again.
LEMMA GreetKeeps ==
    ASSUME NEW s, NEW t, NEW S, NEW R, NEW c, NEW q, NEW f, NEW lost, NEW msg \in Message,
           Inv(s, S, c, q, f, lost), s.state = "connected", s.stage # COMPLETED, s.stage # SIGNON,
           t \in Server, Kept(s, t), t.idx = 0, msg.map = s.spawncount,
           \/ msg.kind = "pext" /\ t.stage = INVALID
           \/ msg.kind = "serverdata" /\ t.stage = SERVERINFO /\ t.pextknown,
           R \in Seq(Message), Added(S, R, msg)
    PROVE  Inv(t, R, c, q, f, lost)
<1>1. s \in Server /\ S \in Seq(Message) /\ c \in Client /\ Told(s, S, c)
  BY DEF Inv, Typed
<1>2. NoFurther(s, t)
  BY Numbers DEF NoFurther, StageNumbers
<1>3. ASSUME NEW L \in View, Reached(s, L)
      PROVE  /\ Fitting(L, msg) /\ Reached(t, Step(L, msg))
             /\ Good(L) => Good(Step(L, msg))
  <2>1. CASE msg.kind = "pext"
    <3>1. Step(L, msg) = L
      BY <2>1, TellsNothing
    <3>2. Fitting(L, msg)
      BY <2>1 DEF Fitting
    <3>3. Reached(t, L)
      BY <1>3, <2>1, Numbers DEF Reached, StageNumbers, Kept
    <3> QED BY <3>1, <3>2, <3>3
  <2>2. CASE msg.kind = "serverdata"
    BY <1>1, <1>3, <2>2, TellsServerdata DEF Kept
  <2> QED BY <2>1, <2>2
<1>4. Told(t, R, c)
  BY <1>1, <1>3, TellsOneMore
<1> QED BY <1>2, <1>4, WriteKeeps

\* SV_Map_f: the next map.
LEMMA ChangeKeeps ==
    ASSUME NEW s, NEW t, NEW S, NEW R, NEW c, NEW q, NEW f, NEW lost, NEW msg \in Message,
           Inv(s, S, c, q, f, lost), t \in Server, t.spawncount = s.spawncount + 1,
           t.state = "connected", ~t.setup, t.stage = INVALID, t.info = s.info,
           msg.kind = "changing", msg.map = s.spawncount,
           R \in Seq(Message), Added(S, R, msg)
    PROVE  Inv(t, R, c, q, f, lost)
<1> DEFINE n == Len(S)
           m == s.spawncount
           k == t.spawncount
<1>1. /\ S \in Seq(Message) /\ s \in Server /\ c \in Client /\ m \in Nat /\ k = m + 1 /\ k \in Nat
      /\ f \in Nat /\ c.servercount \in Nat
  BY DEF Inv, Typed, Server, Client
<1>2. /\ n \in Nat /\ Len(R) = n + 1
      /\ \A i \in 1..Len(R) : \/ i \in 1..n /\ R[i] = S[i]
                              \/ i = n + 1 /\ R[i] = msg
  BY <1>1, AddedIs
<1>3. /\ \A i \in 1..Len(S) : S[i].map \in Nat
      /\ \A i \in 1..Len(q) : q[i].map \in Nat
      /\ \A i \in 1..Len(c.cmds) : c.cmds[i].map \in Nat
  <2>1. /\ \A i \in 1..Len(S) : S[i] \in Message
        /\ \A i \in 1..Len(q) : q[i] \in SentCommand
        /\ \A i \in 1..Len(c.cmds) : c.cmds[i] \in ListedCommand
    BY <1>1, ElementOfSeq DEF Inv, Typed, Client
  <2> QED BY <2>1 DEF Message, SentCommand, ListedCommand
<1> HIDE DEF n, k, m
<1>4. Typed(t, R, c, q, f, lost)
  BY DEF Inv, Typed
<1>5. Told(t, R, c)
  <2>1. ASSUME NEW L \in View, Reached(s, L)
        PROVE  /\ Fitting(L, msg) /\ Reached(t, Step(L, msg))
               /\ Good(L) => Good(Step(L, msg))
    <3>1. Step(L, msg) = L
      BY TellsNothing
    <3>2. L.count <= m /\ L.count \in Nat
      BY <2>1 DEF Reached, View, m
    <3>3. Fitting(L, msg)
      BY <3>2 DEF Fitting, m
    <3>4. Reached(t, L)
      BY <1>1, <3>2, Numbers DEF Reached, StageNumbers, k
    <3> QED BY <3>1, <3>3, <3>4
  <2> QED BY <1>1, <2>1, TellsOneMore DEF Inv
<1>6. /\ c.servercount < k
      /\ \A i \in 1..Len(S) : S[i].map < k
      /\ \A i \in 1..Len(q) : q[i].map < k
      /\ \A i \in 1..Len(c.cmds) : c.cmds[i].map < k
  BY <1>1, <1>3, SMTT(40) DEF Inv, Maps, m
<1>7. \A i \in 1..Len(R) : R[i].map < k
  BY <1>1, <1>2, <1>6, SMTT(40) DEF m, n
<1>8. Maps(k, R, c, q)
  <2>1. /\ \A i \in 1..Len(c.cmds) : c.cmds[i].map <= c.servercount
        /\ \A i \in 1..Len(q) : q[i].map <= c.servercount
    BY DEF Inv, Maps
  <2>2. \A i \in 1..Len(R) : R[i].map <= k
    <3>1. \A i \in 1..Len(R) : R[i].map \in Nat
      BY <1>1, <1>2, <1>3 DEF m, n
    <3> QED BY <1>1, <1>7, <3>1
  <2>3. c.servercount <= k
    BY <1>1, <1>6
  <2> QED BY <1>6, <1>7, <2>1, <2>2, <2>3 DEF Maps
<1>9. /\ \A i \in 1..Len(q) : q[i].map # k
      /\ \A i \in 1..Len(c.cmds) : c.cmds[i].map # k
      /\ \A i \in 1..Len(R) : R[i].map # k
  <2>1. \A i \in 1..Len(R) : R[i].map \in Nat
    BY <1>1, <1>2, <1>3 DEF m, n
  <2> QED BY <1>1, <1>3, <1>6, <1>7, <2>1
<1>10. Behind(k, c, q)
  BY <1>9 DEF Behind, Of
<1>11. Settled(t, c, q)
  BY Numbers DEF Settled, StageNumbers
<1>12. Entering(t, R, c, q, lost)
  BY <1>9 DEF Entering, Stuffed, Commanded, k
<1>13. Frames(t, R, c, f, lost)
  <2>1. f <= m /\ f < k
    BY <1>1 DEF Inv, Frames, m
  <2>2. \A i \in 1..Len(R) : R[i].kind = "serverdata" => \E j \in 1..Len(S) : R[i] = S[j]
    BY <1>2 DEF n
  <2>3. f <= k /\ f # k
    BY <1>1, <2>1
  <2> QED BY <2>2, <2>3 DEF Inv, Frames, k
<1>14. Userinfo(t, c, q)
  <2>1. \A i \in 1..Len(q) : q[i].map # t.spawncount
    BY <1>9 DEF k
  <2> QED BY <2>1 DEF Inv, Userinfo, Known
<1> QED BY <1>4, <1>5, <1>8, <1>10, <1>11, <1>12, <1>13, <1>14 DEF Inv, k

\* SV_SendClientDatagram: a frame for a player in the game.
LEMMA FrameKeeps ==
    ASSUME NEW s, NEW S, NEW c, NEW q, NEW f, NEW lost, Inv(s, S, c, q, f, lost),
           s.state = "spawned"
    PROVE  Inv(s, S, c, q, s.spawncount, lost)
<1>1. s.spawncount \in Nat /\ c.servercount \in Nat
  BY DEF Inv, Typed, Server, Client
<1>2. s.spawncount >= c.servercount
  BY <1>1 DEF Inv, Maps
<1>3. s.spawncount \notin lost =>
         /\ \A i \in 1..Len(S) : S[i].kind # "serverdata"
         /\ c.servercount = s.spawncount
         /\ Complete(Seen(c))
  BY DEF Inv, Entering
<1>4. Frames(s, S, c, s.spawncount, lost)
  BY <1>1, <1>2, <1>3 DEF Inv, Frames
<1> QED BY <1>1, <1>4 DEF Inv, Typed
-----------------------------------------------------------------------------
(* The invariant, kept by what the client does. *)

\* What there is to know about the client besides its commands and what it has seen.
Alike(c, d) == /\ Seen(d) = Seen(c) /\ d.servercount = c.servercount /\ d.info = c.info
               /\ d.sync = c.sync

\* Neither commands nor what it has seen change: downloads, the loading of the
\* models, an entity frame, and the end of the signon.
LEMMA ClientKeeps ==
    ASSUME NEW s, NEW S, NEW c, NEW d, NEW q, NEW f, NEW g, NEW lost,
           Inv(s, S, c, q, f, lost), d \in Client, Alike(c, d), d.cmds = c.cmds,
           d.state = "connected" => c.state = "connected",
           d.state = "active" => d.valid /\ d.worldmodel,
           g = f \/ g = 0,
           d.valid => c.valid \/ f # 0
    PROVE  Inv(s, S, d, q, g, lost)
<1>1. s \in Server /\ f \in Nat /\ 0 \in Nat /\ g \in Nat
  BY DEF Inv, Typed
<1>2. Typed(s, S, d, q, g, lost)
  BY <1>1 DEF Inv, Typed
<1>3. Told(s, S, d)
  BY DEF Inv, Told, Alike
<1>4. Maps(s.spawncount, S, d, q) /\ Behind(s.spawncount, d, q) /\ Settled(s, d, q)
  BY DEF Inv, Maps, Behind, Settled, Alike
<1>5. Entering(s, S, d, q, lost)
  BY DEF Inv, Entering, Commanded, Alike
<1>6. Frames(s, S, d, g, lost)
  <2>1. 0 <= s.spawncount /\ s.spawncount # 0
    BY <1>1 DEF Server
  <2>2. d.valid => \/ Complete(Seen(d))
                   \/ \E map \in lost : map >= d.servercount
    BY DEF Inv, Frames, Alike
  <2>3. /\ g <= s.spawncount
        /\ g = s.spawncount => s.state = "spawned"
        /\ g # 0 => \/ g \in lost /\ g >= d.servercount
                    \/ /\ g = d.servercount /\ Complete(Seen(d))
                       /\ \A i \in 1..Len(S) : S[i].kind = "serverdata" => S[i].map > g
    BY <2>1 DEF Inv, Frames, Alike
  <2> QED BY <2>2, <2>3 DEF Frames
<1>7. Userinfo(s, d, q)
  BY DEF Inv, Userinfo, Alike
<1> QED BY <1>2, <1>3, <1>4, <1>5, <1>6, <1>7 DEF Inv

\* d is c with another list of commands.
Rewritten(c, d) == /\ Alike(c, d) /\ d.state = c.state /\ d.valid = c.valid
                   /\ d.worldmodel = c.worldmodel

\* CL_RemoveClientCommands
LEMMA WithoutKeeps ==
    ASSUME NEW s, NEW S, NEW c, NEW d, NEW q, NEW f, NEW lost, NEW name,
           Inv(s, S, c, q, f, lost), d \in Client, Rewritten(c, d),
           d.cmds = Without(c.cmds, name)
    PROVE  Inv(s, S, d, q, f, lost)
<1> DEFINE m == s.spawncount
<1>1. Picked(d.cmds, c.cmds, Len(c.cmds), name)
  BY WithoutIs DEF Inv, Typed, Client
<1>2. \A i \in 1..Len(d.cmds) : \E k \in 1..Len(c.cmds) : d.cmds[i] = c.cmds[k]
  BY <1>1 DEF Picked
<1>3. Typed(s, S, d, q, f, lost)
  BY DEF Inv, Typed
<1>4. Told(s, S, d)
  BY DEF Inv, Told, Alike, Rewritten
<1>5. Maps(m, S, d, q)
  BY <1>2 DEF Inv, Maps, Alike, Rewritten
<1>6. Behind(m, d, q)
  <2>1. ASSUME NEW i \in 1..Len(d.cmds), NEW j \in 1..Len(d.cmds), i < j, Of(d.cmds[i], m)
        PROVE  ~NotOf(d.cmds[j], m)
    <3>1. PICK k, l \in 1..Len(c.cmds) : k < l /\ d.cmds[i] = c.cmds[k] /\ d.cmds[j] = c.cmds[l]
      BY <1>1, <2>1 DEF Picked
    <3> QED BY <2>1, <3>1 DEF Inv, Behind
  <2>2. ASSUME NEW i \in 1..Len(q), NEW j \in 1..Len(d.cmds), Of(q[i], m)
        PROVE  ~NotOf(d.cmds[j], m)
    BY <1>2, <2>2 DEF Inv, Behind
  <2> QED BY <2>1, <2>2 DEF Inv, Behind
<1>7. Settled(s, d, q)
  BY <1>2 DEF Inv, Settled, Alike, Rewritten
<1>8. Entering(s, S, d, q, lost)
  <2>1. \A x : Commanded(x, m, d, q) => Commanded(x, m, c, q)
    BY <1>2 DEF Commanded
  <2> QED BY <2>1 DEF Inv, Entering, Alike, Rewritten
<1>9. Frames(s, S, d, f, lost)
  BY DEF Inv, Frames, Alike, Rewritten
<1>10. Userinfo(s, d, q)
  BY DEF Inv, Userinfo, Alike, Rewritten
<1> QED BY <1>3, <1>4, <1>5, <1>6, <1>7, <1>8, <1>9, <1>10 DEF Inv

\* CL_SendClientCommand
LEMMA CommandKeeps ==
    ASSUME NEW s, NEW S, NEW c, NEW d, NEW q, NEW f, NEW lost, NEW x \in ListedCommand,
           Inv(s, S, c, q, f, lost), d \in Client, Rewritten(c, d),
           Added(c.cmds, d.cmds, x), x.map = c.servercount,
           x.name = "new" => c.state = "connected",
           x.name = "spawn" /\ x.map = s.spawncount =>
              /\ s.state = "connected" => s.stage = COMPLETED
              /\ \A i \in 1..Len(S) : S[i].kind # "serverdata"
              /\ Complete(Seen(c)),
           x.name = "begin" /\ x.map = s.spawncount => s.setup
    PROVE  Inv(s, S, d, q, f, lost)
<1> DEFINE m == s.spawncount
           n == Len(c.cmds)
<1>1. /\ n \in Nat /\ Len(d.cmds) = n + 1
      /\ \A i \in 1..Len(d.cmds) : \/ i \in 1..n /\ d.cmds[i] = c.cmds[i]
                                   \/ i = n + 1 /\ d.cmds[i] = x
  BY AddedIs, SMTT(40) DEF Inv, Typed, Client
<1>2. m \in Nat /\ c.servercount \in Nat /\ c.servercount <= m
      /\ (c.state = "connected" => c.servercount < m)
  BY DEF Inv, Typed, Maps, Server, Client
<1> HIDE DEF n
<1>3. Typed(s, S, d, q, f, lost)
  BY DEF Inv, Typed
<1>4. Told(s, S, d)
  BY DEF Inv, Told, Alike, Rewritten
<1>5. Maps(m, S, d, q)
  BY <1>1, <1>2, SMTT(40) DEF Inv, Maps, Alike, Rewritten, n
<1>6. Behind(m, d, q)
  <2>1. \/ x.map = m
        \/ /\ \A i \in 1..n : ~Of(c.cmds[i], m)
           /\ \A i \in 1..Len(q) : ~Of(q[i], m)
    <3>1. /\ \A i \in 1..n : c.cmds[i].map \in Nat /\ c.cmds[i].map <= c.servercount
          /\ \A i \in 1..Len(q) : q[i].map \in Nat /\ q[i].map <= c.servercount
      <4>1. /\ \A i \in 1..Len(q) : q[i] \in SentCommand
            /\ \A i \in 1..n : c.cmds[i] \in ListedCommand
        BY ElementOfSeq DEF Inv, Typed, Client, n
      <4> QED BY <4>1 DEF Inv, Maps, n, SentCommand, ListedCommand
    <3>2. CASE c.servercount < m
      BY <1>2, <3>1, <3>2 DEF Of
    <3> QED BY <1>2, <3>2
  <2>2. ASSUME NEW i \in 1..Len(d.cmds), NEW j \in 1..Len(d.cmds), i < j, Of(d.cmds[i], m)
        PROVE  ~NotOf(d.cmds[j], m)
    <3>1. i \in 1..n /\ d.cmds[i] = c.cmds[i]
      BY <1>1, <2>2
    <3>2. CASE j \in 1..n /\ d.cmds[j] = c.cmds[j]
      BY <2>2, <3>1, <3>2 DEF Inv, Behind, n
    <3>3. CASE d.cmds[j] = x
      BY <2>1, <2>2, <3>1, <3>3 DEF NotOf
    <3> QED BY <1>1, <3>2, <3>3
  <2>3. ASSUME NEW i \in 1..Len(q), NEW j \in 1..Len(d.cmds), Of(q[i], m)
        PROVE  ~NotOf(d.cmds[j], m)
    <3>1. CASE j \in 1..n /\ d.cmds[j] = c.cmds[j]
      BY <2>3, <3>1 DEF Inv, Behind, n
    <3>2. CASE d.cmds[j] = x
      BY <2>1, <2>3, <3>2 DEF NotOf
    <3> QED BY <1>1, <3>1, <3>2
  <2> QED BY <2>2, <2>3 DEF Inv, Behind
<1>7. Settled(s, d, q)
  BY <1>1 DEF Inv, Settled, Alike, Rewritten, NotOf, n
<1>8. Entering(s, S, d, q, lost)
  <2>1. ASSUME NEW name, Commanded(name, m, d, q)
        PROVE  Commanded(name, m, c, q) \/ (x.name = name /\ x.map = m)
    BY <1>1, <2>1 DEF Commanded, n
  <2>2. s.state = "connected" /\ s.stage # COMPLETED =>
           ~s.setup /\ ~Stuffed("spawn", m, S) /\ ~Commanded("spawn", m, d, q)
    BY <2>1 DEF Inv, Entering
  <2>3. ASSUME s.setup \/ Commanded("spawn", m, d, q)
        PROVE  /\ \A i \in 1..Len(S) : S[i].kind # "serverdata"
               /\ c.servercount = m
               /\ Complete(Seen(c))
    <3>1. CASE s.setup \/ Commanded("spawn", m, c, q)
      BY <3>1 DEF Inv, Entering
    <3>2. CASE x.name = "spawn" /\ x.map = m
      BY <3>2
    <3> QED BY <2>1, <2>3, <3>1, <3>2
  <2>4. Stuffed("skins", m, S) \/ Commanded("begin", m, d, q) => s.setup
    BY <2>1 DEF Inv, Entering
  <2> QED BY <2>2, <2>3, <2>4 DEF Inv, Entering, Alike, Rewritten
<1>9. Frames(s, S, d, f, lost)
  BY DEF Inv, Frames, Alike, Rewritten
<1>10. Userinfo(s, d, q)
  BY DEF Inv, Userinfo, Alike, Rewritten
<1> QED BY <1>3, <1>4, <1>5, <1>6, <1>7, <1>8, <1>9, <1>10 DEF Inv
-----------------------------------------------------------------------------
(* The invariant, kept by what the client parses. *)

\* What msg makes of the client c, before it answers.
Informs(c, d, msg) ==
    /\ Seen(d) = Step(Seen(c), msg)
    /\ d.cmds = c.cmds /\ d.info = c.info /\ d.sync = c.sync
    /\ d.state = "connected" => \/ msg.kind = "changing"
                                \/ c.state = "connected" /\ msg.kind # "serverdata"
    /\ d.state = "active" =>
          c.state = "active" /\ d.worldmodel = c.worldmodel /\ msg.kind # "serverdata"
    /\ d.valid <=> c.valid /\ msg.kind # "serverdata"

\* Nobody who has all of a map loses it, but by the next serverdata.
LEMMA CompleteStays ==
    ASSUME NEW v \in View, NEW msg \in Message, Complete(v), Fitting(v, msg),
           msg.kind # "serverdata"
    PROVE  Complete(Step(v, msg))
<1>1. /\ Step(v, msg).count = v.count
      /\ Step(v, msg).info = IF msg.kind = "serverinfo" THEN msg.map ELSE v.info
      /\ Step(v, msg).signon = IF msg.kind = "signon"
                               THEN v.signon \cup ({msg.map} \X msg.names) ELSE v.signon
  BY StepFields
<1>2. Step(v, msg).info = v.count
  BY <1>1 DEF Fitting, Complete
<1>3. Step(v, msg).signon = UpTo(v.count, SignonData)
  <2>1. CASE msg.kind = "signon"
    <3>1. msg.map = v.count /\ msg.names \subseteq 1..SignonData
      BY <2>1 DEF Fitting
    <3>2. {msg.map} \X msg.names \subseteq UpTo(v.count, SignonData)
      BY <3>1 DEF UpTo
    <3> QED BY <1>1, <2>1, <3>2 DEF Complete
  <2>2. CASE msg.kind # "signon"
    BY <1>1, <2>2 DEF Complete
  <2> QED BY <2>1, <2>2
<1> QED BY <1>1, <1>2, <1>3 DEF Complete

\* A message is parsed.  A packet of the next map overtakes the frames of the last one.
LEMMA ParseKeeps ==
    ASSUME NEW s, NEW S, NEW R, NEW c, NEW d, NEW q, NEW f, NEW g, NEW lost,
           Inv(s, S, c, q, f, lost), d \in Client, Informs(c, d, S[1]),
           R \in Seq(Message), Dropped(S, R),
           g = IF S[1].kind = "serverdata" /\ f < S[1].map THEN 0 ELSE f
    PROVE  Inv(s, R, d, q, g, lost) /\ Fitting(Seen(c), S[1])
<1> DEFINE m == s.spawncount
           n == Len(R)
           msg == S[1]
<1>1. /\ n \in Nat /\ Len(S) = n + 1 /\ 1 \in 1..Len(S)
      /\ \A i \in 1..n : i + 1 \in 1..Len(S) /\ R[i] = S[i + 1]
  BY LenProperties DEF Dropped
<1>2. /\ S \in Seq(Message) /\ s \in Server /\ m \in Nat /\ m # 0 /\ c \in Client /\ f \in Nat
      /\ msg \in Message /\ msg.map \in Nat /\ c.servercount \in Nat /\ d.servercount \in Nat
  <2>1. S \in Seq(Message)
    BY DEF Inv, Typed
  <2>2. S[1] \in Message
    BY <1>1, <2>1, ElementOfSeq
  <2> QED BY <2>1, <2>2 DEF Inv, Typed, Server, Client, Message
<1> HIDE DEF n
<1>3. PICK L \in View : Run(S, Seen(c), L) /\ Reached(s, L)
  BY DEF Inv, Told
<1>4. Seen(c) \in View /\ Seen(d) \in View
  BY <1>2, SeenType
<1>5. Fitting(Seen(c), msg) /\ Run(R, Seen(d), L)
  <2>1. Dropped(S, R)
    OBVIOUS
  <2> QED BY <1>2, <1>3, <1>4, <2>1, RunTail DEF Informs
<1>6. /\ d.servercount = IF msg.kind = "serverdata" THEN msg.map ELSE c.servercount
      /\ c.servercount <= d.servercount
      /\ msg.kind = "changing" => c.servercount <= msg.map
  <2>1. Seen(c).count = c.servercount /\ Seen(d).count = d.servercount
    BY DEF Seen
  <2> QED BY <1>2, <1>4, <1>5, <2>1, StepCount DEF Informs, Fitting
<1>7. msg.map <= m /\ (msg.kind = "changing" => msg.map < m) /\ c.servercount <= m
      /\ (c.state = "connected" => c.servercount < m)
  BY <1>1 DEF Inv, Maps
<1>8. ASSUME Complete(Seen(c)), msg.kind # "serverdata"
      PROVE  Complete(Seen(d))
  BY <1>2, <1>4, <1>5, <1>8, CompleteStays DEF Informs
<1> HIDE DEF m, msg
<1>9. Typed(s, R, d, q, g, lost)
  <2>1. g \in Nat
    BY <1>2 DEF msg
  <2> QED BY <2>1 DEF Inv, Typed
<1>10. Told(s, R, d)
  BY <1>3, <1>5 DEF Told
<1>11. Maps(m, R, d, q)
  <2>1. \A i \in 1..n : R[i].map <= m /\ (R[i].kind = "changing" => R[i].map < m)
    BY <1>1 DEF Inv, Maps, m
  <2>2. d.servercount <= m
    BY <1>6, <1>7
  <2>3. d.state = "connected" => d.servercount < m
    <3>1. CASE msg.kind = "changing"
      BY <1>2, <1>6, <1>7, <3>1
    <3>2. CASE msg.kind # "changing"
      BY <1>6, <1>7, <3>2 DEF Informs, msg
    <3> QED BY <3>1, <3>2
  <2>4. /\ \A i \in 1..Len(c.cmds) : c.cmds[i].map \in Nat
        /\ \A i \in 1..Len(q) : q[i].map \in Nat
    <3>1. /\ \A i \in 1..Len(q) : q[i] \in SentCommand
          /\ \A i \in 1..Len(c.cmds) : c.cmds[i] \in ListedCommand
      BY ElementOfSeq DEF Inv, Typed, Client
    <3> QED BY <3>1 DEF SentCommand, ListedCommand
  <2>5. /\ \A i \in 1..Len(d.cmds) :
              d.cmds[i].map <= d.servercount /\ (d.cmds[i].name = "new" => d.cmds[i].map < m)
        /\ \A i \in 1..Len(q) :
              q[i].map <= d.servercount /\ (q[i].name = "new" => q[i].map < m)
    <3>1. /\ \A i \in 1..Len(c.cmds) :
                c.cmds[i].map <= c.servercount /\ (c.cmds[i].name = "new" => c.cmds[i].map < m)
          /\ \A i \in 1..Len(q) :
                q[i].map <= c.servercount /\ (q[i].name = "new" => q[i].map < m)
          /\ d.cmds = c.cmds
      BY DEF Inv, Maps, Informs, m
    <3>2. c.servercount \in Nat /\ d.servercount \in Nat /\ c.servercount <= d.servercount
      BY <1>2, <1>6
    <3> QED BY <2>4, <3>1, <3>2
  <2> QED BY <2>1, <2>2, <2>3, <2>5 DEF Maps, n
<1>12. Behind(m, d, q)
  BY DEF Inv, Behind, Informs, m
<1>13. Settled(s, d, q)
  <2>1. c.servercount = m => d.servercount = m
    BY <1>2, <1>6, <1>7
  <2> QED BY <2>1 DEF Inv, Settled, Informs, m
<1>14. Entering(s, R, d, q, lost)
  <2>1. /\ \A kind : Stuffed(kind, m, R) => Stuffed(kind, m, S)
        /\ \A name : Commanded(name, m, d, q) <=> Commanded(name, m, c, q)
    BY <1>1 DEF Stuffed, Commanded, Informs, n
  <2>2. ASSUME NEW i \in 1..n, NEW j \in 1..n, i < j, R[i].kind = "spawn", R[i].map = m
        PROVE  R[j].kind # "serverdata"
    <3>1. i + 1 < j + 1 /\ i + 1 \in 1..Len(S) /\ j + 1 \in 1..Len(S)
      BY <1>1, <2>2
    <3> QED BY <1>1, <2>2, <3>1 DEF Inv, Entering, m
  <2>3. ASSUME s.setup \/ Commanded("spawn", m, d, q)
        PROVE  /\ \A i \in 1..n : R[i].kind # "serverdata"
               /\ d.servercount = m
               /\ Complete(Seen(d))
    <3>1. /\ \A i \in 1..Len(S) : S[i].kind # "serverdata"
          /\ c.servercount = m
          /\ Complete(Seen(c))
      BY <2>1, <2>3 DEF Inv, Entering, m
    <3>2. msg.kind # "serverdata"
      BY <1>1, <3>1 DEF msg
    <3> QED BY <1>1, <1>6, <1>8, <3>1, <3>2
  <2>4. Stuffed("skins", m, R) \/ Commanded("begin", m, d, q) => s.setup
    BY <2>1 DEF Inv, Entering, m
  <2>5. /\ s.state = "connected" /\ s.stage # COMPLETED =>
              ~s.setup /\ ~Stuffed("spawn", m, R) /\ ~Commanded("spawn", m, d, q)
        /\ s.state = "spawned" /\ m \notin lost => s.spawned /\ s.setup
    BY <2>1 DEF Inv, Entering, m
  <2> QED BY <2>2, <2>3, <2>4, <2>5 DEF Entering, m, n
<1>15. Frames(s, R, d, g, lost)
  <2>1. g \in {0, f} /\ 0 <= m
    BY <1>2
  <2>2. g <= m /\ (g = m => s.state = "spawned")
    BY <1>2, <2>1 DEF Inv, Frames, m
  <2>3. ASSUME g # 0
        PROVE  \/ g \in lost /\ g >= d.servercount
               \/ /\ g = d.servercount /\ Complete(Seen(d))
                  /\ \A i \in 1..n : R[i].kind = "serverdata" => R[i].map > g
    <3>1. g = f /\ (msg.kind = "serverdata" => f >= msg.map)
      BY <1>2, <2>3 DEF msg
    <3>2. CASE f \in lost /\ f >= c.servercount
      BY <1>6, <3>1, <3>2
    <3>3. CASE /\ f = c.servercount /\ Complete(Seen(c))
               /\ \A i \in 1..Len(S) : S[i].kind = "serverdata" => S[i].map > f
      <4>1. msg.kind # "serverdata"
        BY <1>1, <1>2, <3>1, <3>3 DEF msg
      <4> QED BY <1>1, <1>6, <1>8, <3>1, <3>3, <4>1
    <3> QED BY <2>3, <3>1, <3>2, <3>3 DEF Inv, Frames
  <2>4. d.valid => \/ Complete(Seen(d))
                   \/ \E map \in lost : map >= d.servercount
    BY <1>6, <1>8 DEF Inv, Frames, Informs, msg
  <2>5. d.state = "active" => d.valid /\ d.worldmodel
    BY DEF Inv, Frames, Informs
  <2> QED BY <2>2, <2>3, <2>4, <2>5 DEF Frames, m, n
<1>16. Userinfo(s, d, q)
  BY DEF Inv, Userinfo, Informs
<1> QED BY <1>5, <1>9, <1>10, <1>11, <1>12, <1>13, <1>14, <1>15, <1>16 DEF Inv, m, msg
-----------------------------------------------------------------------------
(* The invariant, kept by what the client answers. *)

\* Another list of commands changes nothing else of the client.
LEMMA Rewrites ==
    ASSUME NEW c \in Client, NEW r \in Seq(ListedCommand)
    PROVE  /\ [c EXCEPT !.cmds = r] \in Client /\ [c EXCEPT !.cmds = r].cmds = r
           /\ Rewritten(c, [c EXCEPT !.cmds = r])
  BY DEF Client, Rewritten, Alike, Seen

\* A command is put into the list.
LEMMA ListedKeeps ==
    ASSUME NEW s, NEW S, NEW c, NEW q, NEW f, NEW lost, NEW x \in ListedCommand,
           Inv(s, S, c, q, f, lost), x.map = c.servercount,
           x.name = "new" => c.state = "connected",
           x.name = "spawn" /\ x.map = s.spawncount =>
              /\ s.state = "connected" => s.stage = COMPLETED
              /\ \A i \in 1..Len(S) : S[i].kind # "serverdata"
              /\ Complete(Seen(c)),
           x.name = "begin" /\ x.map = s.spawncount => s.setup
    PROVE  Inv(s, S, [c EXCEPT !.cmds = Append(c.cmds, x)], q, f, lost)
<1> DEFINE r == Append(c.cmds, x)
           d == [c EXCEPT !.cmds = r]
<1>1. c \in Client /\ c.cmds \in Seq(ListedCommand)
  BY DEF Inv, Typed, Client
<1>2. r \in Seq(ListedCommand) /\ Added(c.cmds, r, x)
  BY <1>1, AppendAdds
<1> HIDE DEF r
<1>3. d \in Client /\ d.cmds = r /\ Rewritten(c, d)
  BY <1>1, <1>2, Rewrites
<1> HIDE DEF d
<1>4. Added(c.cmds, d.cmds, x)
  BY <1>2, <1>3
<1>5. Inv(s, S, d, q, f, lost)
  BY <1>3, <1>4, CommandKeeps
<1> QED BY <1>5 DEF d, r

\* CL_SendClientCommand of most commands
LEMMA SendKeeps ==
    ASSUME NEW s, NEW S, NEW c, NEW q, NEW f, NEW lost, NEW name \in Listed \ {"spawn"},
           Inv(s, S, c, q, f, lost),
           name = "new" => c.state = "connected",
           name = "begin" /\ c.servercount = s.spawncount => s.setup
    PROVE  Inv(s, S, Send(c, name), q, f, lost)
<1> DEFINE x == [name |-> name, map |-> c.servercount]
<1>1. x \in ListedCommand /\ x.map = c.servercount /\ x.name = name
  BY DEF Inv, Typed, Client, ListedCommand
<1> HIDE DEF x
<1>2. Inv(s, S, [c EXCEPT !.cmds = Append(c.cmds, x)], q, f, lost)
  BY <1>1, ListedKeeps
<1>3. Send(c, name) = [c EXCEPT !.cmds = Append(c.cmds, x)]
  BY DEF Send, x
<1> QED BY <1>2, <1>3

\* CL_RemoveClientCommands and CL_SendClientCommand
LEMMA ResendKeeps ==
    ASSUME NEW s, NEW S, NEW c, NEW q, NEW f, NEW lost,
           NEW name \in {"soundlist", "modellist", "prespawn"}, Inv(s, S, c, q, f, lost)
    PROVE  Inv(s, S, Resend(c, name), q, f, lost)
<1> DEFINE d == [c EXCEPT !.cmds = Without(c.cmds, name)]
<1>1. c \in Client /\ c.cmds \in Seq(ListedCommand)
  BY DEF Inv, Typed, Client
<1>2. Without(c.cmds, name) \in Seq(ListedCommand)
  BY <1>1, WithoutIs
<1>3. d \in Client /\ d.cmds = Without(c.cmds, name) /\ Rewritten(c, d)
  BY <1>1, <1>2, Rewrites
<1>4. Resend(c, name) = Send(d, name)
  BY DEF Resend
<1> HIDE DEF d
<1>5. Inv(s, S, d, q, f, lost)
  BY <1>3, WithoutKeeps
<1>6. name \in Listed \ {"spawn"} /\ name # "new" /\ name # "begin"
  BY DEF Listed
<1>7. Inv(s, S, Send(d, name), q, f, lost)
  BY <1>5, <1>6, SendKeeps
<1> QED BY <1>4, <1>7

\* What the lists and the serverinfo bring, for a client that has not answered yet.
LEMMA InformsOf ==
    ASSUME NEW c \in Client, NEW msg \in Message
    PROVE  /\ msg.kind = "changing" =>
                 Changing(c) \in Client /\ Informs(c, Changing(c), msg)
           /\ msg.kind = "serverdata" =>
                 LET d == [Cleared(c, msg.map) EXCEPT !.state = "onserver"]
                 IN d \in Client /\ Informs(c, d, msg)
           /\ msg.kind = "serverinfo" =>
                 LET d == [c EXCEPT !.serverinfo = msg.map]
                 IN d \in Client /\ Informs(c, d, msg)
           /\ msg.kind \in {"pext", "spawn", "skins"} => Informs(c, c, msg)
<1>1. msg.map \in Nat /\ {} \in Lists
  BY DEF Message, Lists
<1>2. CASE msg.kind = "changing"
  <2>1. Step(Seen(c), msg) = Seen(c)
    BY <1>2, SeenType, TellsNothing
  <2>2. Changing(c) \in Client /\ Seen(Changing(c)) = Seen(c)
    BY DEF Changing, Client, Seen
  <2>3. Informs(c, Changing(c), msg)
    BY <1>2, <2>1, <2>2 DEF Informs, Changing, Client
  <2> QED BY <1>2, <2>2, <2>3
<1>3. CASE msg.kind = "serverdata"
  <2> DEFINE d == [Cleared(c, msg.map) EXCEPT !.state = "onserver"]
  <2>1. /\ d.servercount = msg.map /\ d.serverinfo = 0 /\ d.sounds = {} /\ d.models = {}
        /\ d.signon = {} /\ ~d.sendprespawn /\ ~d.worldmodel /\ ~d.valid
        /\ d.state = "onserver" /\ d.cmds = c.cmds /\ d.info = c.info /\ d.sync = c.sync
    BY DEF Cleared, Client
  <2>2. d \in Client
    BY <1>1 DEF Cleared, Client
  <2> HIDE DEF d
  <2>3. Seen(d) = Step(Seen(c), msg)
    BY <1>3, <2>1 DEF Seen, Step
  <2>4. Informs(c, d, msg)
    BY <1>3, <2>1, <2>3 DEF Informs
  <2> QED BY <1>3, <2>2, <2>4 DEF d
<1>4. CASE msg.kind = "serverinfo"
  <2> DEFINE d == [c EXCEPT !.serverinfo = msg.map]
  <2>1. d \in Client
    BY <1>1 DEF Client
  <2>2. Seen(d) = Step(Seen(c), msg)
    BY <1>4 DEF Seen, Step, Client
  <2>3. Informs(c, d, msg)
    BY <1>4, <2>2 DEF Informs, Client
  <2> QED BY <1>4, <2>1, <2>3
<1>5. CASE msg.kind \in {"pext", "spawn", "skins"}
  <2>1. Step(Seen(c), msg) = Seen(c)
    BY <1>5, SeenType, TellsNothing
  <2> QED BY <1>5, <2>1 DEF Informs
<1> QED BY <1>2, <1>3, <1>4, <1>5

\* What the pieces of lists bring.
LEMMA InformsPieces ==
    ASSUME NEW c \in Client, NEW msg \in Message
    PROVE  LET got == {msg.map} \X msg.names IN
           /\ msg.kind = "soundlist" =>
                 LET d == [c EXCEPT !.sounds = @ \cup got]
                 IN d \in Client /\ Informs(c, d, msg)
           /\ msg.kind = "modellist" =>
                 LET d == IF msg.last THEN [c EXCEPT !.models = @ \cup got, !.sendprespawn = TRUE]
                          ELSE [c EXCEPT !.models = @ \cup got]
                 IN d \in Client /\ Informs(c, d, msg)
           /\ msg.kind = "signon" =>
                 LET d == [c EXCEPT !.signon = @ \cup got]
                 IN d \in Client /\ Informs(c, d, msg)
<1> DEFINE got == {msg.map} \X msg.names
<1>1. \A x \in Lists : x \cup got \in Lists
  BY DEF Message, Lists
<1>2. got = {msg.map} \X msg.names
  OBVIOUS
<1> HIDE DEF got
<1>3. /\ c.sounds \cup got \in Lists /\ c.models \cup got \in Lists
      /\ c.signon \cup got \in Lists
  BY <1>1 DEF Client
<1>4. CASE msg.kind = "soundlist"
  <2> DEFINE d == [c EXCEPT !.sounds = @ \cup got]
  <2>1. d \in Client
    BY <1>3 DEF Client
  <2>2. Seen(d) = Step(Seen(c), msg)
    BY <1>2, <1>4 DEF Seen, Step, Client
  <2>3. Informs(c, d, msg)
    BY <1>4, <2>2 DEF Informs, Client
  <2> QED BY <1>2, <1>4, <2>1, <2>3
<1>5. CASE msg.kind = "modellist" /\ msg.last
  <2> DEFINE d == [c EXCEPT !.models = @ \cup got, !.sendprespawn = TRUE]
  <2>1. d \in Client
    BY <1>3 DEF Client
  <2>2. Seen(d) = Step(Seen(c), msg)
    BY <1>2, <1>5 DEF Seen, Step, Client
  <2>3. Informs(c, d, msg)
    BY <1>5, <2>2 DEF Informs, Client
  <2> QED BY <1>2, <1>5, <2>1, <2>3
<1>6. CASE msg.kind = "modellist" /\ ~msg.last
  <2> DEFINE d == [c EXCEPT !.models = @ \cup got]
  <2>1. d \in Client
    BY <1>3 DEF Client
  <2>2. Seen(d) = Step(Seen(c), msg)
    BY <1>2, <1>6 DEF Seen, Step, Client
  <2>3. Informs(c, d, msg)
    BY <1>6, <2>2 DEF Informs, Client
  <2> QED BY <1>2, <1>6, <2>1, <2>3
<1>7. CASE msg.kind = "signon"
  <2> DEFINE d == [c EXCEPT !.signon = @ \cup got]
  <2>1. d \in Client
    BY <1>3 DEF Client
  <2>2. Seen(d) = Step(Seen(c), msg)
    BY <1>2, <1>7 DEF Seen, Step, Client
  <2>3. Informs(c, d, msg)
    BY <1>7, <2>2 DEF Informs, Client
  <2> QED BY <1>2, <1>7, <2>1, <2>3
<1> QED BY <1>2, <1>4, <1>5, <1>6, <1>7

\* A message is parsed and answered.
LEMMA ReceiveKeeps ==
    ASSUME NEW s, NEW S, NEW R, NEW c, NEW q, NEW f, NEW g, NEW lost,
           Inv(s, S, c, q, f, lost), R \in Seq(Message), Dropped(S, R),
           g = IF S[1].kind = "serverdata" /\ f < S[1].map THEN 0 ELSE f
    PROVE  Inv(s, R, Parsed(c, S[1]), q, g, lost)
<1> DEFINE msg == S[1]
           got == {msg.map} \X msg.names
           I(d) == Inv(s, R, d, q, g, lost)
<1>1. c \in Client /\ S \in Seq(Message) /\ 1 \in 1..Len(S)
  BY LenProperties DEF Inv, Typed, Dropped
<1>2. msg \in Message
  BY <1>1, ElementOfSeq
<1>3. ASSUME NEW d \in Client, Informs(c, d, msg)
      PROVE  I(d) /\ Fitting(Seen(c), msg)
  BY <1>3, ParseKeeps
<1> HIDE DEF I
<1>4. ASSUME NEW d, I(d), NEW name \in {"soundlist", "modellist"} PROVE I(Resend(d, name))
  BY <1>4, ResendKeeps DEF I
<1>5. CASE msg.kind = "changing"
  <2>1. Parsed(c, msg) = Changing(c)
    BY <1>5 DEF Parsed
  <2> QED BY <1>1, <1>2, <1>3, <1>5, <2>1, InformsOf DEF I
<1>6. CASE msg.kind = "serverdata"
  <2> DEFINE d == [Cleared(c, msg.map) EXCEPT !.state = "onserver"]
             e == [d EXCEPT !.cmds = Without(d.cmds, "new")]
  <2>1. d \in Client /\ Informs(c, d, msg)
    BY <1>1, <1>2, <1>6, InformsOf
  <2>2. I(d)
    BY <1>3, <2>1
  <2>3. Parsed(c, msg) = Resend(e, "soundlist")
    BY <1>6 DEF Parsed, ParseServerData
  <2> HIDE DEF d
  <2>4. Without(d.cmds, "new") \in Seq(ListedCommand)
    BY <2>1, WithoutIs DEF Client
  <2>5. e \in Client /\ e.cmds = Without(d.cmds, "new") /\ Rewritten(d, e)
    BY <2>1, <2>4, Rewrites
  <2> HIDE DEF e
  <2>6. I(e)
    BY <2>2, <2>5, WithoutKeeps DEF I
  <2> QED BY <1>4, <2>3, <2>6 DEF I
<1>7. CASE msg.kind = "serverinfo"
  <2>1. Parsed(c, msg) = [c EXCEPT !.serverinfo = msg.map]
    BY <1>7 DEF Parsed
  <2> QED BY <1>1, <1>2, <1>3, <1>7, <2>1, InformsOf DEF I
<1>8. CASE msg.kind = "soundlist"
  <2> DEFINE d == [c EXCEPT !.sounds = @ \cup got]
  <2>1. Parsed(c, msg) = Resend(d, IF msg.last THEN "modellist" ELSE "soundlist")
    BY <1>8 DEF Parsed
  <2>2. d \in Client /\ Informs(c, d, msg)
    BY <1>1, <1>2, <1>8, InformsPieces
  <2> HIDE DEF d
  <2>3. I(d)
    BY <1>3, <2>2
  <2> QED BY <1>4, <2>1, <2>3 DEF I
<1>9. CASE msg.kind = "modellist"
  <2> DEFINE d == IF msg.last THEN [c EXCEPT !.models = @ \cup got, !.sendprespawn = TRUE]
                  ELSE [c EXCEPT !.models = @ \cup got]
  <2>1. Parsed(c, msg) = IF msg.last THEN d ELSE Resend(d, "modellist")
    BY <1>9 DEF Parsed
  <2>2. d \in Client /\ Informs(c, d, msg)
    BY <1>1, <1>2, <1>9, InformsPieces
  <2> HIDE DEF d
  <2>3. I(d)
    BY <1>3, <2>2
  <2> QED BY <1>4, <2>1, <2>3 DEF I
<1>10. CASE msg.kind = "signon"
  <2> DEFINE d == [c EXCEPT !.signon = @ \cup got]
  <2>1. Parsed(c, msg) = d
    BY <1>10 DEF Parsed
  <2>2. d \in Client /\ Informs(c, d, msg)
    BY <1>1, <1>2, <1>10, InformsPieces
  <2> HIDE DEF d
  <2> QED BY <1>3, <2>1, <2>2 DEF I
<1>11. CASE msg.kind \in {"pext", "spawn", "skins"}
  <2>1. Informs(c, c, msg)
    BY <1>1, <1>2, <1>11, InformsOf
  <2>2. I(c) /\ Fitting(Seen(c), msg)
    BY <1>1, <1>3, <2>1
  <2>3. msg.kind \in {"spawn", "skins"} => msg.map = c.servercount /\ Complete(Seen(c))
    BY <2>2 DEF Fitting, Seen
  <2>4. CASE msg.kind = "pext"
    <3>1. Parsed(c, msg) = Send(c, "pext")
      BY <2>4 DEF Parsed
    <3>2. "pext" \in Listed \ {"spawn"}
      BY DEF Listed
    <3>3. Inv(s, R, Send(c, "pext"), q, g, lost)
      BY <2>2, <3>2, SendKeeps DEF I
    <3> QED BY <3>1, <3>3
  <2>5. CASE msg.kind = "skins"
    <3>1. Parsed(c, msg) = Send(c, "begin")
      BY <2>5 DEF Parsed
    <3>2. "begin" \in Listed \ {"spawn"}
      BY DEF Listed
    <3>3. c.servercount = s.spawncount => Stuffed("skins", s.spawncount, S)
      BY <1>1, <2>3, <2>5 DEF Stuffed
    <3>4. c.servercount = s.spawncount => s.setup
      BY <3>3 DEF Inv, Entering
    <3>5. Inv(s, R, Send(c, "begin"), q, g, lost)
      BY <2>2, <3>2, <3>4, SendKeeps DEF I
    <3> QED BY <3>1, <3>5
  <2>6. CASE msg.kind = "spawn"
    <3> DEFINE x == [name |-> "spawn", map |-> msg.map]
    <3>1. Parsed(c, msg) = [c EXCEPT !.cmds = Append(c.cmds, x)]
      BY <2>6 DEF Parsed
    <3>2. x \in ListedCommand /\ x.name = "spawn" /\ x.map = c.servercount
      BY <1>2, <2>3, <2>6 DEF Message, ListedCommand, Listed
    <3>3. x.map = s.spawncount =>
             /\ s.state = "connected" => s.stage = COMPLETED
             /\ \A i \in 1..Len(R) : R[i].kind # "serverdata"
             /\ Complete(Seen(c))
      <4> SUFFICES ASSUME msg.map = s.spawncount
                   PROVE  /\ s.state = "connected" => s.stage = COMPLETED
                          /\ \A i \in 1..Len(R) : R[i].kind # "serverdata"
                          /\ Complete(Seen(c))
        OBVIOUS
      <4>1. Stuffed("spawn", s.spawncount, S)
        BY <1>1, <2>6 DEF Stuffed
      <4>2. s.state = "connected" => s.stage = COMPLETED
        BY <4>1 DEF Inv, Entering
      <4>3. ASSUME NEW i \in 1..Len(R) PROVE R[i].kind # "serverdata"
        <5>1. 1 < i + 1 /\ i + 1 \in 1..Len(S) /\ R[i] = S[i + 1]
          BY <1>1, LenProperties DEF Dropped
        <5> QED BY <1>1, <2>6, <5>1 DEF Inv, Entering
      <4> QED BY <2>3, <2>6, <4>2, <4>3
    <3> HIDE DEF x
    <3>4. Inv(s, R, [c EXCEPT !.cmds = Append(c.cmds, x)], q, g, lost)
      BY <2>2, <3>2, <3>3, ListedKeeps DEF I
    <3> QED BY <3>1, <3>4
  <2> QED BY <1>11, <2>4, <2>5, <2>6
<1> QED BY <1>2, <1>5, <1>6, <1>7, <1>8, <1>9, <1>10, <1>11 DEF Message, Kinds
-----------------------------------------------------------------------------
(* The invariant, kept by what the client writes. *)

\* The user changes the userinfo.
LEMMA SetInfoKeeps ==
    ASSUME NEW s, NEW S, NEW c, NEW d, NEW q, NEW f, NEW lost, Inv(s, S, c, q, f, lost),
           d = [c EXCEPT !.info = c.info + 1, !.sync = TRUE]
    PROVE  Inv(s, S, d, q, f, lost)
<1>1. c \in Client /\ s \in Server
  BY DEF Inv, Typed
<1>2. d \in Client /\ d.info = c.info + 1 /\ d.sync
  <2>1. c.info + 1 \in Nat
    BY <1>1 DEF Client
  <2> QED BY <1>1, <2>1 DEF Client
<1>3. /\ Seen(d) = Seen(c) /\ d.servercount = c.servercount /\ d.state = c.state
      /\ d.valid = c.valid /\ d.worldmodel = c.worldmodel /\ d.cmds = c.cmds
  BY <1>1 DEF Seen, Client
<1>4. Typed(s, S, d, q, f, lost)
  BY <1>2 DEF Inv, Typed
<1>5. Told(s, S, d) /\ Maps(s.spawncount, S, d, q) /\ Behind(s.spawncount, d, q)
      /\ Settled(s, d, q)
  BY <1>3 DEF Inv, Told, Maps, Behind, Settled
<1>6. Entering(s, S, d, q, lost)
  BY <1>3 DEF Inv, Entering, Commanded
<1>7. Frames(s, S, d, f, lost)
  BY <1>3 DEF Inv, Frames
<1>8. Userinfo(s, d, q)
  <2>1. s.info \in Nat /\ c.info \in Nat /\ \A i \in 1..Len(q) : q[i].info \in Nat
    <3>1. \A i \in 1..Len(q) : q[i] \in SentCommand
      BY ElementOfSeq DEF Inv, Typed
    <3> QED BY <1>1, <3>1 DEF Server, Client, SentCommand
  <2> QED BY <1>2, <2>1 DEF Inv, Userinfo
<1> QED BY <1>4, <1>5, <1>6, <1>7, <1>8 DEF Inv

\* What is known ahead of a command is known ahead of it when more is written.
LEMMA KnownStays ==
    ASSUME NEW s, NEW q, NEW r, NEW x, NEW n, NEW k,
           \A i \in 1..n : i \in 1..k /\ r[i] = q[i],
           Known(x, s, q, n)
    PROVE  Known(x, s, r, k)
  BY DEF Known

\* The userinfo is sent.
LEMMA UserinfoKeeps ==
    ASSUME NEW s, NEW S, NEW c, NEW d, NEW q, NEW r, NEW f, NEW lost, NEW x \in SentCommand,
           Inv(s, S, c, q, f, lost), d = [c EXCEPT !.sync = FALSE],
           r \in Seq(SentCommand), Added(q, r, x),
           x.name = "setinfo", x.map = c.servercount, x.info = c.info
    PROVE  Inv(s, S, d, r, f, lost)
<1> DEFINE n == Len(q)
           m == s.spawncount
<1>1. c \in Client /\ s \in Server /\ q \in Seq(SentCommand)
  BY DEF Inv, Typed
<1>2. /\ n \in Nat /\ Len(r) = n + 1
      /\ \A i \in 1..Len(r) : \/ i \in 1..n /\ r[i] = q[i]
                              \/ i = n + 1 /\ r[i] = x
      /\ \A i \in 1..n : i \in 1..Len(r) /\ r[i] = q[i]
      /\ n + 1 \in 1..Len(r) /\ r[n + 1] = x
  BY <1>1, AddedIs
<1> HIDE DEF n
<1>3. /\ d \in Client /\ d.info = c.info /\ ~d.sync
      /\ Seen(d) = Seen(c) /\ d.servercount = c.servercount /\ d.state = c.state
      /\ d.valid = c.valid /\ d.worldmodel = c.worldmodel /\ d.cmds = c.cmds
  BY <1>1 DEF Client, Seen
<1>4. Typed(s, S, d, r, f, lost)
  BY <1>3 DEF Inv, Typed
<1>5. Told(s, S, d)
  BY <1>3 DEF Inv, Told
<1>6. Maps(m, S, d, r)
  <2>1. c.servercount <= c.servercount
    BY <1>1 DEF Client
  <2> QED BY <1>2, <1>3, <2>1 DEF Inv, Maps, n
<1>7. ~NotOf(x, m) /\ ~Of(x, m)
  BY DEF NotOf, Of
<1>8. Behind(m, d, r)
  <2>1. ASSUME NEW i \in 1..Len(r), NEW j \in 1..Len(r), i < j, Of(r[i], m)
        PROVE  ~NotOf(r[j], m)
    <3>1. i \in 1..n /\ r[i] = q[i]
      BY <1>2, <2>1
    <3>2. CASE j \in 1..n /\ r[j] = q[j]
      BY <2>1, <3>1, <3>2 DEF Inv, Behind, n
    <3> QED BY <1>2, <1>7, <3>2
  <2>2. ASSUME NEW i \in 1..Len(r), NEW j \in 1..Len(c.cmds), Of(r[i], m)
        PROVE  ~NotOf(c.cmds[j], m)
    BY <1>2, <1>7, <2>2 DEF Inv, Behind, n
  <2> QED BY <1>3, <2>1, <2>2 DEF Inv, Behind
<1>9. Settled(s, d, r)
  BY <1>2, <1>3, <1>7 DEF Inv, Settled, n
<1>10. Entering(s, S, d, r, lost)
  <2>1. \A name \in {"spawn", "begin"} : Commanded(name, m, d, r) => Commanded(name, m, c, q)
    BY <1>2, <1>3 DEF Commanded, n
  <2> QED BY <1>3, <2>1 DEF Inv, Entering
<1>11. Frames(s, S, d, f, lost)
  BY <1>3 DEF Inv, Frames
<1>12. Userinfo(s, d, r)
  <2>1. s.info \in Nat /\ c.info \in Nat /\ \A i \in 1..n : q[i].info \in Nat
    <3>1. \A i \in 1..n : q[i] \in SentCommand
      BY <1>1, ElementOfSeq DEF n
    <3> QED BY <1>1, <3>1 DEF Server, Client, SentCommand
  <2>2. /\ s.info <= c.info
        /\ \A i \in 1..n : s.info <= q[i].info /\ q[i].info <= c.info
        /\ \A i, j \in 1..n : i < j => q[i].info <= q[j].info
    BY DEF Inv, Userinfo, n
  <2>3. \A i \in 1..Len(r) : s.info <= r[i].info /\ r[i].info <= c.info
    BY <1>2, <2>1, <2>2
  <2>4. ASSUME NEW i \in 1..Len(r), NEW j \in 1..Len(r), i < j PROVE r[i].info <= r[j].info
    <3>1. i \in 1..n /\ r[i] = q[i]
      BY <1>2, <2>4
    <3> QED BY <1>2, <2>2, <2>4, <3>1
  <2>5. Known(c.info, s, r, Len(r))
    BY <1>2, <2>1 DEF Known
  <2>6. ASSUME NEW i \in 1..Len(r), r[i].name = "spawn", r[i].map = m
        PROVE  Known(r[i].info, s, r, i - 1)
    <3>1. i \in 1..n /\ r[i] = q[i]
      BY <1>2, <2>6
    <3>2. Known(q[i].info, s, q, i - 1)
      BY <2>6, <3>1 DEF Inv, Userinfo, n
    <3>3. \A j \in 1..i - 1 : j \in 1..i - 1 /\ r[j] = q[j]
      BY <1>2, <3>1
    <3> QED BY <3>1, <3>2, <3>3, KnownStays
  <2> QED BY <1>3, <2>2, <2>3, <2>4, <2>5, <2>6 DEF Userinfo
<1> QED BY <1>4, <1>5, <1>6, <1>8, <1>9, <1>10, <1>11, <1>12 DEF Inv

\* A command is sent.  The userinfo is on its way ahead of a spawn.
LEMMA SentKeeps ==
    ASSUME NEW s, NEW S, NEW c, NEW d, NEW q, NEW r, NEW f, NEW lost, NEW x \in SentCommand,
           Inv(s, S, c, q, f, lost), d \in Client, Rewritten(c, d),
           Dropped(c.cmds, d.cmds), r \in Seq(SentCommand), Added(q, r, x),
           x.name = c.cmds[1].name, x.map = c.cmds[1].map, x.info = c.info,
           x.name = "spawn" => ~(c.sync /\ c.serverinfo # 0)
    PROVE  Inv(s, S, d, r, f, lost)
<1> DEFINE n == Len(q)
           m == s.spawncount
           l == Len(d.cmds)
<1>1. c \in Client /\ s \in Server /\ q \in Seq(SentCommand)
  BY DEF Inv, Typed
<1>2. /\ n \in Nat /\ Len(r) = n + 1
      /\ \A i \in 1..Len(r) : \/ i \in 1..n /\ r[i] = q[i]
                              \/ i = n + 1 /\ r[i] = x
      /\ \A i \in 1..n : i \in 1..Len(r) /\ r[i] = q[i]
      /\ n + 1 \in 1..Len(r) /\ r[n + 1] = x
  BY <1>1, AddedIs
<1>3. /\ l \in Nat /\ Len(c.cmds) = l + 1 /\ 1 \in 1..Len(c.cmds)
      /\ \A i \in 1..l : i + 1 \in 1..Len(c.cmds) /\ 1 < i + 1 /\ d.cmds[i] = c.cmds[i + 1]
  <2>1. d.cmds \in Seq(ListedCommand)
    BY DEF Client
  <2> QED BY <2>1, LenProperties DEF Dropped
<1> HIDE DEF n, l
<1>4. /\ Of(x, m) => Of(c.cmds[1], m)
      /\ NotOf(x, m) => NotOf(c.cmds[1], m)
  BY DEF Of, NotOf
<1>5. Typed(s, S, d, r, f, lost)
  BY DEF Inv, Typed
<1>6. Told(s, S, d)
  BY DEF Inv, Told, Rewritten, Alike
<1>7. Maps(m, S, d, r)
  <2>1. Maps(m, S, c, q) /\ d.servercount = c.servercount /\ d.state = c.state
    BY DEF Inv, Rewritten, Alike
  <2>2. \A i \in 1..l :
           d.cmds[i].map <= c.servercount /\ (d.cmds[i].name = "new" => d.cmds[i].map < m)
    BY <1>3, <2>1 DEF Maps
  <2>3. x.map <= c.servercount /\ (x.name = "new" => x.map < m)
    BY <1>3, <2>1 DEF Maps
  <2>4. \A i \in 1..Len(r) :
           r[i].map <= c.servercount /\ (r[i].name = "new" => r[i].map < m)
    BY <1>2, <2>1, <2>3 DEF Maps, n
  <2> QED BY <2>1, <2>2, <2>4 DEF Maps, l
<1>8. Behind(m, d, r)
  <2>1. ASSUME NEW i \in 1..Len(r), NEW j \in 1..Len(r), i < j, Of(r[i], m)
        PROVE  ~NotOf(r[j], m)
    <3>1. i \in 1..n /\ r[i] = q[i]
      BY <1>2, <2>1
    <3>2. CASE j \in 1..n /\ r[j] = q[j]
      BY <2>1, <3>1, <3>2 DEF Inv, Behind, n
    <3>3. CASE r[j] = x
      BY <1>3, <1>4, <2>1, <3>1, <3>3 DEF Inv, Behind, n
    <3> QED BY <1>2, <3>2, <3>3
  <2>2. ASSUME NEW i \in 1..Len(r), NEW j \in 1..l, Of(r[i], m)
        PROVE  ~NotOf(d.cmds[j], m)
    <3>1. CASE i \in 1..n /\ r[i] = q[i]
      BY <1>3, <2>2, <3>1 DEF Inv, Behind, n
    <3>2. CASE r[i] = x
      BY <1>3, <1>4, <2>2, <3>2 DEF Inv, Behind
    <3> QED BY <1>2, <3>1, <3>2
  <2>3. ASSUME NEW i \in 1..l, NEW j \in 1..l, i < j, Of(d.cmds[i], m)
        PROVE  ~NotOf(d.cmds[j], m)
    <3>1. i + 1 < j + 1 /\ i + 1 \in 1..Len(c.cmds) /\ j + 1 \in 1..Len(c.cmds)
      BY <1>3, <2>3
    <3> QED BY <1>3, <2>3, <3>1 DEF Inv, Behind
  <2> QED BY <2>1, <2>2, <2>3 DEF Behind, l
<1>9. Settled(s, d, r)
  BY <1>2, <1>3, <1>4 DEF Inv, Settled, Rewritten, Alike, n, l
<1>10. Entering(s, S, d, r, lost)
  <2>1. \A name : Commanded(name, m, d, r) => Commanded(name, m, c, q)
    BY <1>2, <1>3, ZenonT(60) DEF Commanded, n, l
  <2> QED BY <2>1 DEF Inv, Entering, Rewritten, Alike
<1>11. Frames(s, S, d, f, lost)
  BY DEF Inv, Frames, Rewritten, Alike
<1>12. Userinfo(s, d, r)
  <2>1. s.info \in Nat /\ c.info \in Nat /\ \A i \in 1..n : q[i].info \in Nat
    <3>1. \A i \in 1..n : q[i] \in SentCommand
      BY <1>1, ElementOfSeq DEF n
    <3> QED BY <1>1, <3>1 DEF Server, Client, SentCommand
  <2>2. /\ s.info <= c.info
        /\ \A i \in 1..n : s.info <= q[i].info /\ q[i].info <= c.info
        /\ \A i, j \in 1..n : i < j => q[i].info <= q[j].info
    BY DEF Inv, Userinfo, n
  <2>3. \A i \in 1..Len(r) : s.info <= r[i].info /\ r[i].info <= c.info
    BY <1>2, <2>1, <2>2
  <2>4. ASSUME NEW i \in 1..Len(r), NEW j \in 1..Len(r), i < j PROVE r[i].info <= r[j].info
    <3>1. i \in 1..n /\ r[i] = q[i]
      BY <1>2, <2>4
    <3> QED BY <1>2, <2>2, <2>4, <3>1
  <2>5. ASSUME ~c.sync PROVE Known(c.info, s, r, Len(r)) /\ Known(c.info, s, r, n)
    <3>1. Known(c.info, s, q, n)
      BY <2>5 DEF Inv, Userinfo, n
    <3>2. /\ \A i \in 1..n : i \in 1..n /\ r[i] = q[i]
          /\ \A i \in 1..n : i \in 1..Len(r) /\ r[i] = q[i]
      BY <1>2
    <3> QED BY <3>1, <3>2, KnownStays
  <2>6. ASSUME NEW i \in 1..Len(r), r[i].name = "spawn", r[i].map = m
        PROVE  Known(r[i].info, s, r, i - 1)
    <3>1. CASE i \in 1..n /\ r[i] = q[i]
      <4>1. Known(q[i].info, s, q, i - 1)
        BY <2>6, <3>1 DEF Inv, Userinfo, n
      <4>2. \A j \in 1..i - 1 : j \in 1..i - 1 /\ r[j] = q[j]
        BY <1>2, <3>1
      <4> QED BY <3>1, <4>1, <4>2, KnownStays
    <3>2. CASE i = n + 1 /\ r[i] = x
      <4>1. Commanded("spawn", m, c, q)
        BY <1>3, <2>6, <3>2 DEF Commanded
      <4>2. c.serverinfo # 0
        <5>1. c.servercount = m /\ Complete(Seen(c))
          BY <4>1 DEF Inv, Entering
        <5> QED BY <1>1, <5>1 DEF Complete, Seen, Server
      <4>3. ~c.sync
        BY <2>6, <3>2, <4>2
      <4>4. i - 1 = n
        BY <1>2, <3>2
      <4> QED BY <2>5, <3>2, <4>3, <4>4
    <3> QED BY <1>2, <3>1, <3>2
  <2> QED BY <2>2, <2>3, <2>4, <2>5, <2>6 DEF Userinfo, Rewritten, Alike
<1> QED BY <1>5, <1>6, <1>7, <1>8, <1>9, <1>10, <1>11, <1>12 DEF Inv
-----------------------------------------------------------------------------
(* The steps of the server. *)

\* The client and the server, and the buffers between them
Sound(s, o, c, q, f, lost) == o \in Out /\ Inv(s, Stream(o), c, q, f, lost)

\* What Msg writes is a message.
LEMMA Worded ==
    ASSUME NEW kind \in Kinds, NEW map \in Nat
    PROVE  /\ Msg(kind, map) \in Message
           /\ Msg(kind, map).kind = kind /\ Msg(kind, map).map = map
  BY DEF Msg, Message

\* p is o with msg behind it
Says(o, p, msg) == p \in Out /\ Stream(p) = Append(Stream(o), msg)

\* The stream with a message more.
LEMMA SaysAdds ==
    ASSUME NEW o \in Out, NEW p, NEW msg \in Message, Says(o, p, msg)
    PROVE  /\ Stream(o) \in Seq(Message) /\ Stream(p) \in Seq(Message)
           /\ Added(Stream(o), Stream(p), msg)
<1>1. Stream(o) \in Seq(Message) /\ Stream(p) = Append(Stream(o), msg)
  BY StreamType DEF Says
<1> QED BY <1>1, AppendAdds

\* A message of the map is written, at a stage where it may be.
LEMMA SayKeeps ==
    ASSUME NEW s, NEW t, NEW o, NEW p, NEW c, NEW q, NEW f, NEW lost, NEW msg \in Message,
           Sound(s, o, c, q, f, lost), Says(o, p, msg),
           t \in Server, Kept(s, t), NoFurther(s, t),
           \A L \in View : Reached(s, L) => /\ Fitting(L, msg) /\ Reached(t, Step(L, msg))
                                            /\ Good(L) => Good(Step(L, msg)),
           msg.map = s.spawncount, msg.kind # "changing",
           msg.kind = "spawn" /\ t.state = "connected" => t.stage = COMPLETED,
           msg.kind = "serverdata" => s.state = "connected" /\ s.stage # COMPLETED,
           msg.kind = "skins" => s.setup
    PROVE  Sound(t, p, c, q, f, lost)
<1> DEFINE S == Stream(o)
           R == Stream(p)
<1>1. Inv(s, S, c, q, f, lost) /\ o \in Out
  BY DEF Sound
<1>2. S \in Seq(Message) /\ R \in Seq(Message) /\ Added(S, R, msg)
  BY <1>1, SaysAdds
<1> HIDE DEF S, R
<1>3. s \in Server /\ c \in Client /\ Told(s, S, c)
  BY <1>1 DEF Inv, Typed
<1>4. Told(t, R, c)
  BY <1>2, <1>3, TellsOneMore
<1>5. Inv(t, R, c, q, f, lost)
  BY <1>1, <1>2, <1>4, WriteKeeps
<1> QED BY <1>5 DEF Sound, Says, R

\* SV_New_f sets the stage and the index back, and nothing else.
LEMMA RestartedIs ==
    ASSUME NEW s \in Server
    PROVE  /\ Restarted(s) \in Server /\ Kept(s, Restarted(s)) /\ Restarted(s).idx = 0
           /\ Restarted(s).pextknown = s.pextknown
           /\ Restarted(s).stage = IF s.state = "spawned" \/ ~s.pextknown THEN INVALID
                                   ELSE SERVERINFO
<1>1. INVALID \in Stages /\ SERVERINFO \in Stages /\ 0 \in Nat
  BY DEF Stages
<1> QED BY <1>1 DEF Restarted, Server, Kept

\* SV_New_f, before the prespawn or in the game
LEMMA NewKeeps ==
    ASSUME NEW s, NEW o, NEW p, NEW c, NEW q, NEW f, NEW lost, Sound(s, o, c, q, f, lost),
           s.state = "connected" => s.stage # SIGNON /\ s.stage # COMPLETED,
           p \in Greeted(s, o)
    PROVE  Sound(Restarted(s), p, c, q, f, lost)
<1> DEFINE t == Restarted(s)
<1>1. s \in Server /\ o \in Out /\ Inv(s, Stream(o), c, q, f, lost)
  BY DEF Sound, Inv, Typed
<1>2. /\ t \in Server /\ Kept(s, t) /\ t.idx = 0 /\ t.pextknown = s.pextknown
      /\ t.stage = IF s.state = "spawned" \/ ~s.pextknown THEN INVALID ELSE SERVERINFO
  BY <1>1, RestartedIs
<1> HIDE DEF t
<1>3. CASE s.state = "spawned"
  <2>1. p = o /\ t.stage = INVALID
    BY <1>2, <1>3 DEF Greeted
  <2>2. Inv(t, Stream(o), c, q, f, lost)
    BY <1>1, <1>2, <1>3, <2>1, NewInGameKeeps
  <2> QED BY <1>1, <2>1, <2>2 DEF Sound, t
<1>4. CASE s.state = "connected"
  <2> DEFINE msg == Msg(IF s.pextknown THEN "serverdata" ELSE "pext", s.spawncount)
  <2>1. msg \in Message /\ msg.map = s.spawncount
        /\ (s.pextknown => msg.kind = "serverdata") /\ (~s.pextknown => msg.kind = "pext")
    <3>1. s.spawncount \in Nat /\ "serverdata" \in Kinds /\ "pext" \in Kinds
      BY <1>1 DEF Server, Kinds
    <3> QED BY <3>1, Worded
  <2>2. p \in Write(o, msg)
    BY <1>1, <1>4 DEF Greeted, Server
  <2> HIDE DEF msg
  <2>3. Says(o, p, msg)
    BY <1>1, <2>1, <2>2, WriteAppends DEF Says
  <2>4. Stream(p) \in Seq(Message) /\ Added(Stream(o), Stream(p), msg)
    BY <1>1, <2>1, <2>3, SaysAdds
  <2>5. \/ msg.kind = "pext" /\ t.stage = INVALID
        \/ msg.kind = "serverdata" /\ t.stage = SERVERINFO /\ t.pextknown
    BY <1>2, <1>4, <2>1
  <2>6. Inv(t, Stream(p), c, q, f, lost)
    BY <1>1, <1>2, <1>4, <2>1, <2>4, <2>5, GreetKeeps
  <2> QED BY <2>3, <2>6 DEF Sound, Says, t
<1> QED BY <1>1, <1>3, <1>4 DEF Server

\* SV_Map_f
LEMMA MapChangeKeeps ==
    ASSUME NEW s, NEW t, NEW o, NEW p, NEW told, NEW sent, NEW c, NEW q, NEW f, NEW lost,
           Sound(s, o, c, q, f, lost), t = [TakenOut(s) EXCEPT !.spawncount = @ + 1],
           told \in Write(o, Msg("changing", s.spawncount)), sent \in Flushed(told),
           p \in Greeted(t, sent)
    PROVE  Sound(Restarted(t), p, c, q, f, lost)
<1> DEFINE u == [t EXCEPT !.stage = INVALID]
           msg == Msg("changing", s.spawncount)
<1>1. s \in Server /\ s.spawncount \in Nat /\ o \in Out /\ Inv(s, Stream(o), c, q, f, lost)
  BY DEF Sound, Inv, Typed, Server
<1>2. t \in Server /\ t.spawncount = s.spawncount + 1 /\ t.state = "connected"
      /\ ~t.setup /\ t.info = s.info
  <2>1. s.spawncount + 1 \in Nat \ {0}
    BY <1>1 DEF Server
  <2> QED BY <1>1, <2>1 DEF TakenOut, Server
<1>3. /\ u \in Server /\ u.spawncount = t.spawncount /\ u.state = "connected" /\ ~u.setup
      /\ u.info = s.info /\ u.stage = INVALID /\ u.pextknown = t.pextknown
  BY <1>2 DEF Server, Stages
<1>4. Restarted(t) = Restarted(u) /\ Greeted(t, sent) = Greeted(u, sent)
  <2>1. Restarted(t) = Restarted(u)
    BY <1>2, <1>3 DEF Restarted, Server
  <2>2. Greeted(t, sent) = Greeted(u, sent)
    BY <1>2, <1>3 DEF Greeted
  <2> QED BY <2>1, <2>2
<1>5. msg \in Message /\ msg.kind = "changing" /\ msg.map = s.spawncount
  BY <1>1, Worded DEF Kinds
<1> HIDE DEF u, msg
<1>6. Says(o, told, msg)
  BY <1>1, <1>5, WriteAppends DEF Says, msg
<1>7. Stream(told) \in Seq(Message) /\ Added(Stream(o), Stream(told), msg)
  BY <1>1, <1>5, <1>6, SaysAdds
<1>8. Inv(u, Stream(told), c, q, f, lost)
  BY <1>1, <1>2, <1>3, <1>5, <1>7, ChangeKeeps
<1>9. sent \in Out /\ Stream(sent) = Stream(told)
  BY <1>6, FlushedKeeps DEF Says
<1>10. Sound(u, sent, c, q, f, lost)
  BY <1>8, <1>9 DEF Sound
<1>11. u.stage # SIGNON /\ u.stage # COMPLETED
  BY <1>3, Numbers DEF StageNumbers
<1>12. Sound(Restarted(u), p, c, q, f, lost)
  BY <1>4, <1>10, <1>11, NewKeeps
<1> QED BY <1>4, <1>12

\* The next command is taken.
LEMMA Taken ==
    ASSUME NEW s, NEW o, NEW c, NEW q, NEW f, NEW lost, Sound(s, o, c, q, f, lost), q # << >>
    PROVE  /\ Tail(q) \in Seq(SentCommand) /\ Dropped(q, Tail(q))
           /\ Head(q) = q[1] /\ Head(q) \in SentCommand /\ 1 \in 1..Len(q)
           /\ Head(q).name # "setinfo" => Sound(s, o, c, Tail(q), f, lost)
<1>1. q \in Seq(SentCommand) /\ s \in Server /\ Inv(s, Stream(o), c, q, f, lost) /\ o \in Out
  BY DEF Sound, Inv, Typed
<1>2. /\ Tail(q) \in Seq(SentCommand) /\ Dropped(q, Tail(q))
      /\ Head(q) = q[1] /\ Head(q) \in SentCommand
  BY <1>1, TailDrops
<1>3. 1 \in 1..Len(q)
  BY <1>1, <1>2, LenProperties DEF Dropped
<1>4. ASSUME Head(q).name # "setinfo" PROVE Sound(s, o, c, Tail(q), f, lost)
  <2>1. s = [s EXCEPT !.info = IF q[1].name = "setinfo" THEN q[1].info ELSE s.info]
    BY <1>1, <1>2, <1>4 DEF Server
  <2>2. Inv(s, Stream(o), c, Tail(q), f, lost)
    BY <1>1, <1>2, <2>1, TakeKeeps
  <2> QED BY <1>1, <2>2 DEF Sound
<1> QED BY <1>2, <1>3, <1>4

\* A command of an earlier map finds a server that has not sent what follows the
\* prespawn of this one.
LEMMA StaleIsEarly ==
    ASSUME NEW s, NEW o, NEW c, NEW q, NEW f, NEW lost, Sound(s, o, c, q, f, lost), q # << >>,
           Head(q).name # "setinfo", Head(q).map # s.spawncount, s.state = "connected"
    PROVE  s.stage # SIGNON /\ s.stage # COMPLETED
<1>1. Head(q) = q[1] /\ 1 \in 1..Len(q)
  BY Taken
<1>2. NotOf(q[1], s.spawncount)
  BY <1>1 DEF NotOf
<1>3. ~(s.stage >= SIGNON)
  BY <1>1, <1>2 DEF Sound, Inv, Settled
<1> QED BY <1>3, Numbers DEF StageNumbers

\* SV_Pext_f tells the server what it wants to know: it had not begun.
LEMMA PextKeeps ==
    ASSUME NEW s, NEW t, NEW o, NEW c, NEW q, NEW f, NEW lost, Sound(s, o, c, q, f, lost),
           ~s.pextknown, t = [s EXCEPT !.pextknown = TRUE]
    PROVE  Sound(t, o, c, q, f, lost) /\ t.stage = INVALID
<1> DEFINE S == Stream(o)
<1>1. s \in Server /\ o \in Out /\ Inv(s, S, c, q, f, lost)
  BY DEF Sound, Inv, Typed
<1> HIDE DEF S
<1>2. t \in Server /\ Kept(s, t) /\ t.stage = s.stage /\ t.idx = s.idx
  BY <1>1 DEF Server, Kept
<1>3. NoFurther(s, t)
  BY <1>2 DEF NoFurther
<1>4. PICK L \in View : Run(S, Seen(c), L) /\ Reached(s, L)
  BY <1>1 DEF Inv, Told
<1>5. s.stage = INVALID
  BY <1>4 DEF Reached
<1>6. Reached(t, L)
  BY <1>2, <1>4, <1>5, Numbers DEF Reached, StageNumbers, Kept
<1>7. Told(t, S, c)
  BY <1>4, <1>6 DEF Told
<1>8. Inv(t, S, c, q, f, lost)
  BY <1>1, <1>2, <1>3, <1>7, StageKeeps
<1> QED BY <1>1, <1>2, <1>5, <1>8 DEF Sound, S

\* Whether a list may be sent is no part of the invariant.
LEMMA PermitKeeps ==
    ASSUME NEW s, NEW t, NEW o, NEW c, NEW q, NEW f, NEW lost, Sound(s, o, c, q, f, lost),
           \/ \E may \in BOOLEAN : t = [s EXCEPT !.soundlist = may]
           \/ \E may \in BOOLEAN : t = [s EXCEPT !.modellist = may]
    PROVE  /\ Sound(t, o, c, q, f, lost) /\ t \in Server /\ Kept(s, t)
           /\ t.stage = s.stage /\ t.idx = s.idx /\ t.pextknown = s.pextknown
<1> DEFINE S == Stream(o)
<1>1. s \in Server /\ o \in Out /\ Inv(s, S, c, q, f, lost)
  BY DEF Sound, Inv, Typed
<1> HIDE DEF S
<1>2. t \in Server /\ Kept(s, t) /\ t.stage = s.stage /\ t.idx = s.idx /\ t.pextknown = s.pextknown
  BY <1>1 DEF Server, Kept
<1>3. NoFurther(s, t)
  BY <1>2 DEF NoFurther
<1>4. Told(t, S, c)
  BY <1>1, <1>2 DEF Inv, Told, Reached, Kept
<1>5. Inv(t, S, c, q, f, lost)
  BY <1>1, <1>2, <1>3, <1>4, StageKeeps
<1> QED BY <1>1, <1>2, <1>5 DEF Sound, S

\* SVQW_Spawn_f sets the player up and says so.
LEMMA SpawnKeeps ==
    ASSUME NEW s, NEW t, NEW o, NEW p, NEW c, NEW q, NEW f, NEW lost, Sound(s, o, c, q, f, lost),
           s.state = "connected", s.stage = COMPLETED, t = [s EXCEPT !.setup = TRUE],
           q # << >>, Head(q).name = "spawn", Head(q).map = s.spawncount,
           p \in Write(o, Msg("skins", s.spawncount))
    PROVE  Sound(t, p, c, Tail(q), f, lost)
<1> DEFINE msg == Msg("skins", s.spawncount)
<1>1. s \in Server /\ o \in Out /\ Inv(s, Stream(o), c, q, f, lost)
  BY DEF Sound, Inv, Typed
<1>2. t \in Server /\ t.spawncount = s.spawncount /\ t.setup /\ t.stage = s.stage
  BY <1>1 DEF Server
<1>3. Commanded("spawn", s.spawncount, c, q)
  BY Taken DEF Commanded
<1>4. Inv(t, Stream(o), c, q, f, lost)
  BY <1>1, <1>2, <1>3, SetupKeeps
<1>5. Sound(t, o, c, q, f, lost)
  BY <1>1, <1>4 DEF Sound
<1>6. Sound(t, o, c, Tail(q), f, lost)
  BY <1>5, Taken
<1>7. msg \in Message /\ msg.kind = "skins" /\ msg.map = s.spawncount
  BY <1>1, Worded DEF Kinds, Server
<1> HIDE DEF msg
<1>8. Says(o, p, msg)
  BY <1>1, <1>7, WriteAppends DEF Says, msg
<1>9. Kept(t, t) /\ NoFurther(t, t)
  BY DEF Kept, NoFurther
<1>10. ASSUME NEW L \in View, Reached(t, L)
       PROVE  Fitting(L, msg) /\ Step(L, msg) = L
  <2>1. Step(L, msg) = L
    BY <1>7, TellsNothing
  <2>2. L.count = s.spawncount /\ Complete(L)
    BY <1>2, <1>10, Numbers DEF Reached, StageNumbers, Complete
  <2>3. Fitting(L, msg)
    BY <1>7, <2>2 DEF Fitting
  <2> QED BY <2>1, <2>3
<1> QED BY <1>2, <1>6, <1>7, <1>8, <1>9, <1>10, SayKeeps

\* A piece of a list, or of what follows the prespawn.
LEMMA PieceIs ==
    ASSUME NEW s \in Server, NEW o \in Out, o.backbuf = <<>>, NEW kind \in Kinds,
           NEW last \in BOOLEAN, NEW total \in Nat, NEW n \in 0..total - s.idx,
           last => n = total - s.idx
    PROVE  LET msg == Piece(kind, s.spawncount, s.idx + 1..s.idx + n, last)
           IN /\ msg \in Message /\ PieceOf(s, msg, kind, n, last, total)
              /\ Says(o, Direct(o, msg), msg)
<1> DEFINE msg == Piece(kind, s.spawncount, s.idx + 1..s.idx + n, last)
<1>1. s.idx \in Nat /\ s.spawncount \in Nat
  BY DEF Server
<1>2. s.idx + 1..s.idx + n \in SUBSET Nat
  BY <1>1
<1>3. msg \in Message
  BY <1>1, <1>2 DEF Message, Piece
<1>4. PieceOf(s, msg, kind, n, last, total)
  BY DEF PieceOf, Piece
<1> HIDE DEF msg
<1>5. Says(o, Direct(o, msg), msg)
  BY <1>3, DirectAppends DEF Says
<1> QED BY <1>3, <1>4, <1>5 DEF msg

\* SV_SendClientPrespawnInfo moves on in its list, or to the next one.
LEMMA AdvancedIs ==
    ASSUME NEW s \in Server, NEW n \in Nat, NEW last \in BOOLEAN, NEW t,
           t = Advanced(s, [n |-> n, last |-> last]), s.stage \in {SOUNDLIST, MODELLIST}
    PROVE  t \in Server /\ Kept(s, t) /\ NoFurther(s, t) /\ Further(s, t, n, last)
<1>1. s.stage + 1 \in Stages /\ s.stage \in Stages /\ s.idx + n \in Nat /\ 0 \in Nat
  BY Numbers DEF StageNumbers, Stages, Server
<1>2. t \in Server /\ Kept(s, t) /\ Further(s, t, n, last)
  BY <1>1 DEF Advanced, Server, Kept, Further
<1>3. NoFurther(s, t)
  BY <1>2, Numbers DEF StageNumbers, NoFurther, Further
<1> QED BY <1>2, <1>3

\* SV_SendClientPrespawnInfo, the lists
LEMMA ListKeeps ==
    ASSUME NEW s, NEW t, NEW o, NEW c, NEW q, NEW f, NEW lost, Sound(s, o, c, q, f, lost),
           o.backbuf = <<>>, NEW kind, NEW last \in BOOLEAN, NEW total, NEW n,
           \/ s.stage = SOUNDLIST /\ kind = "soundlist" /\ total = Sounds
           \/ s.stage = MODELLIST /\ kind = "modellist" /\ total = Models,
           n \in 0..total - s.idx, last => n = total - s.idx,
           t = Advanced(s, [n |-> n, last |-> last])
    PROVE  Sound(t, Direct(o, Piece(kind, s.spawncount, s.idx + 1..s.idx + n, last)),
                 c, q, f, lost)
<1> DEFINE msg == Piece(kind, s.spawncount, s.idx + 1..s.idx + n, last)
           p == Direct(o, msg)
<1>1. s \in Server /\ o \in Out /\ s.idx \in Nat
  BY DEF Sound, Inv, Typed, Server
<1>2. kind \in Kinds /\ total \in Nat /\ n \in Nat
  BY <1>1, Totals DEF Kinds
<1>3. msg \in Message /\ PieceOf(s, msg, kind, n, last, total) /\ Says(o, p, msg)
  BY <1>1, <1>2, PieceIs
<1> HIDE DEF msg, p
<1>4. t \in Server /\ Kept(s, t) /\ NoFurther(s, t) /\ Further(s, t, n, last)
  BY <1>1, <1>2, AdvancedIs
<1>5. ASSUME NEW L \in View, Reached(s, L)
      PROVE  Fitting(L, msg) /\ Reached(t, Step(L, msg)) /\ Good(Step(L, msg))
  <2>1. CASE s.stage = SOUNDLIST /\ kind = "soundlist" /\ total = Sounds
    BY <1>1, <1>3, <1>4, <1>5, <2>1, TellsSounds
  <2>2. CASE s.stage = MODELLIST /\ kind = "modellist" /\ total = Models
    BY <1>1, <1>3, <1>4, <1>5, <2>2, TellsModels
  <2> QED BY <2>1, <2>2
<1>6. msg.map = s.spawncount /\ msg.kind \in {"soundlist", "modellist"}
  BY <1>3 DEF PieceOf
<1>7. Sound(t, p, c, q, f, lost)
  BY <1>3, <1>4, <1>5, <1>6, SayKeeps
<1> QED BY <1>7 DEF p, msg

\* SV_SendClientPrespawnInfo, what follows the prespawn
LEMMA SignonKeeps ==
    ASSUME NEW s, NEW t, NEW o, NEW c, NEW q, NEW f, NEW lost, Sound(s, o, c, q, f, lost),
           o.backbuf = <<>>, NEW last \in BOOLEAN, NEW n \in 0..SignonData - s.idx,
           s.stage = SIGNON, last => n = SignonData - s.idx,
           t = [s EXCEPT !.idx = s.idx + n]
    PROVE  LET p == Direct(o, Piece("signon", s.spawncount, s.idx + 1..s.idx + n, last))
           IN Sound(t, IF n = 0 THEN o ELSE p, c, q, f, lost)
<1> DEFINE msg == Piece("signon", s.spawncount, s.idx + 1..s.idx + n, last)
           p == Direct(o, msg)
<1>1. s \in Server /\ o \in Out /\ s.idx \in Nat
  BY DEF Sound, Inv, Typed, Server
<1>2. "signon" \in Kinds /\ SignonData \in Nat /\ n \in Nat /\ s.idx + n \in Nat
  BY <1>1, Totals DEF Kinds
<1>3. msg \in Message /\ PieceOf(s, msg, "signon", n, last, SignonData) /\ Says(o, p, msg)
  BY <1>1, <1>2, PieceIs
<1>4. n = 0 => t = s
  BY <1>1, <1>2 DEF Server
<1> HIDE DEF msg, p
<1>5. t \in Server /\ Kept(s, t) /\ Further(s, t, n, FALSE)
  BY <1>1, <1>2 DEF Server, Kept, Further
<1>6. NoFurther(s, t)
  BY <1>5 DEF NoFurther, Further
<1>7. ASSUME NEW L \in View, Reached(s, L)
      PROVE  /\ Fitting(L, msg) /\ Reached(t, Step(L, msg))
             /\ Good(L) => Good(Step(L, msg))
  <2>1. L.info = L.count /\ L.count = s.spawncount
    BY <1>7, Numbers DEF Reached, StageNumbers
  <2>2. CASE Good(L)
    BY <1>1, <1>3, <1>5, <1>7, <2>2, TellsSignon
  <2>3. CASE ~Good(L)
    <3>1. FALSE
      BY <1>7, <2>1, <2>3, Numbers DEF Reached, StageNumbers, Good
    <3> QED BY <3>1
  <2> QED BY <2>2, <2>3
<1>8. msg.map = s.spawncount /\ msg.kind = "signon"
  BY <1>3 DEF PieceOf
<1>9. Sound(t, p, c, q, f, lost)
  BY <1>3, <1>5, <1>6, <1>7, <1>8, SayKeeps
<1>10. Sound(t, IF n = 0 THEN o ELSE p, c, q, f, lost)
  BY <1>4, <1>9
<1> QED BY <1>10 DEF p, msg

\* The last of it, with "cmd spawn" behind.
LEMMA CompletedKeeps ==
    ASSUME NEW s, NEW t, NEW o, NEW p, NEW c, NEW q, NEW f, NEW lost, Sound(s, o, c, q, f, lost),
           s.stage = SIGNON, s.idx = SignonData, t = [s EXCEPT !.stage = COMPLETED, !.idx = 0],
           p \in Write(o, Msg("spawn", s.spawncount))
    PROVE  Sound(t, p, c, q, f, lost)
<1> DEFINE msg == Msg("spawn", s.spawncount)
<1>1. s \in Server /\ o \in Out
  BY DEF Sound, Inv, Typed
<1>2. msg \in Message /\ msg.kind = "spawn" /\ msg.map = s.spawncount
  BY <1>1, Worded DEF Kinds, Server
<1> HIDE DEF msg
<1>3. Says(o, p, msg)
  BY <1>1, <1>2, WriteAppends DEF Says, msg
<1>4. /\ t \in Server /\ Kept(s, t) /\ t.stage = COMPLETED /\ t.idx = 0
      /\ t.pextknown = s.pextknown
  BY <1>1 DEF Server, Kept, Stages
<1>5. NoFurther(s, t)
  BY <1>4, Numbers DEF StageNumbers, NoFurther
<1>6. ASSUME NEW L \in View, Reached(s, L)
      PROVE  Fitting(L, msg) /\ Reached(t, Step(L, msg)) /\ Step(L, msg) = L
  <2>1. Step(L, msg) = L
    BY <1>2, TellsNothing
  <2>2. L.count = s.spawncount /\ Complete(L)
    BY <1>6, Numbers DEF Reached, StageNumbers, Complete
  <2>3. Fitting(L, msg)
    BY <1>2, <2>2 DEF Fitting
  <2>4. Reached(t, L)
    BY <1>4, <1>6, Numbers DEF Reached, StageNumbers, Kept
  <2> QED BY <2>1, <2>3, <2>4
<1> QED BY <1>2, <1>3, <1>4, <1>5, <1>6, SayKeeps, ZenonT(60)
-----------------------------------------------------------------------------
(* The invariant, kept by every step. *)

IInv == Sound(server, out, client, c2s, frame, left)

\* SV_ExecuteUserCommand, up to the prespawn
LEMMA FirstCommandsKeep ==
    ASSUME IInv, ExecNew \/ ExecPext \/ ExecList \/ ExecSetinfo \/ ExecPrespawn
    PROVE  IInv'
<1> DEFINE q == Tail(c2s)
           I(s, o) == Sound(s, o, client, q, frame, left)
<1>1. Sound(server, out, client, c2s, frame, left)
  BY DEF IInv
<1>2. c2s # << >> /\ c2s' = q /\ client' = client /\ frame' = frame /\ left' = left
  BY DEF ExecNew, ExecPext, ExecList, ExecSetinfo, ExecPrespawn, Takes
<1>3. /\ q \in Seq(SentCommand) /\ Dropped(c2s, q) /\ Head(c2s) = c2s[1]
      /\ Head(c2s) \in SentCommand /\ 1 \in 1..Len(c2s)
      /\ Head(c2s).name # "setinfo" => I(server, out)
  BY <1>1, <1>2, Taken
<1>4. server \in Server /\ out \in Out /\ Inv(server, Stream(out), client, c2s, frame, left)
  BY <1>1 DEF Sound, Inv, Typed
<1>5. SUFFICES I(server', out')
  BY <1>2 DEF IInv
<1> HIDE DEF q, I
<1>6. ASSUME NEW s, I(s, out), New(s),
             s.state = "connected" => s.stage # SIGNON /\ s.stage # COMPLETED
      PROVE  I(server', out')
  BY <1>6, NewKeeps DEF New, I
<1>7. CASE ExecNew
  <2>1. Head(c2s).name = "new" /\ New(server)
    BY <1>7 DEF ExecNew, Takes
  <2>2. Head(c2s).map # server.spawncount
    <3>1. Head(c2s).map < server.spawncount
      BY <1>3, <1>4, <2>1 DEF Inv, Maps
    <3> QED BY <1>3, <1>4, <3>1 DEF SentCommand, Server
  <2>3. server.state = "connected" => server.stage # SIGNON /\ server.stage # COMPLETED
    BY <1>1, <1>2, <2>1, <2>2, StaleIsEarly
  <2> QED BY <1>3, <1>6, <2>1, <2>3
<1>8. CASE ExecPext
  <2>1. Head(c2s).name = "pext" /\ I(server, out)
    BY <1>3, <1>8 DEF ExecPext, Takes
  <2>2. CASE server' = server /\ out' = out
    BY <2>1, <2>2
  <2>3. CASE ~server.pextknown /\ New([server EXCEPT !.pextknown = TRUE])
    <3> DEFINE s == [server EXCEPT !.pextknown = TRUE]
    <3>1. I(s, out) /\ s.stage = INVALID
      BY <2>1, <2>3, PextKeeps DEF I
    <3>2. s.stage # SIGNON /\ s.stage # COMPLETED
      BY <3>1, Numbers DEF StageNumbers
    <3>3. New(s)
      BY <2>3
    <3> HIDE DEF s
    <3> QED BY <1>6, <3>1, <3>2, <3>3
  <2> QED BY <1>8, <2>2, <2>3 DEF ExecPext
<1>9. CASE ExecList
  <2>1. I(server, out) /\ out' = out
    BY <1>3, <1>9 DEF ExecList, Takes
  <2>2. \/ \E may \in BOOLEAN : server' = [server EXCEPT !.soundlist = may]
        \/ \E may \in BOOLEAN : server' = [server EXCEPT !.modellist = may]
    BY <1>9 DEF ExecList
  <2> QED BY <2>1, <2>2, PermitKeeps DEF I
<1>10. CASE ExecSetinfo
  <2>1. /\ Head(c2s).name = "setinfo" /\ out' = out
        /\ server' = [server EXCEPT !.info = Head(c2s).info]
    BY <1>10 DEF ExecSetinfo, Takes
  <2>2. /\ server' = [server EXCEPT !.info = IF c2s[1].name = "setinfo" THEN c2s[1].info
                                              ELSE server.info]
        /\ server' \in Server
    <3>1. Head(c2s).info \in Nat
      BY <1>3 DEF SentCommand
    <3> QED BY <1>3, <1>4, <2>1, <3>1 DEF Server
  <2>3. Inv(server', Stream(out), client, q, frame, left)
    BY <1>3, <1>4, <2>2, TakeKeeps
  <2> QED BY <1>4, <2>1, <2>3 DEF I, Sound
<1>11. CASE ExecPrespawn
  <2>1. Head(c2s).name = "prespawn" /\ I(server, out)
    BY <1>3, <1>11 DEF ExecPrespawn, Takes
  <2>2. CASE server' = server /\ out' = out
    BY <2>1, <2>2
  <2>3. CASE server.stage = MAPCHECK /\ New(server)
    <3>1. server.stage # SIGNON /\ server.stage # COMPLETED
      BY <2>3, Numbers DEF StageNumbers
    <3> QED BY <1>6, <2>1, <2>3, <3>1
  <2>4. CASE /\ server.stage = MAPCHECK /\ ~Stale
             /\ server' = [server EXCEPT !.stage = MAPCHECK + 1, !.idx = 0]
             /\ out' = out
    <3>1. server' = [server EXCEPT !.stage = SIGNON, !.idx = 0] /\ server' \in Server
      <4>1. MAPCHECK + 1 = SIGNON
        BY Numbers DEF StageNumbers
      <4>2. SIGNON \in Stages /\ 0 \in Nat
        BY DEF Stages
      <4>3. server' = [server EXCEPT !.stage = SIGNON, !.idx = 0]
        BY <2>4, <4>1
      <4> QED BY <1>4, <4>2, <4>3 DEF Server
    <3>2. Inv(server', Stream(out), client, q, frame, left)
      BY <1>3, <1>4, <2>1, <2>4, <3>1, PrespawnKeeps DEF Stale
    <3> QED BY <1>4, <2>4, <3>2 DEF I, Sound
  <2> QED BY <1>11, <2>2, <2>3, <2>4 DEF ExecPrespawn
<1> QED BY <1>7, <1>8, <1>9, <1>10, <1>11

\* SV_ExecuteUserCommand, spawn
LEMMA SpawnCommandKeeps ==
    ASSUME IInv, ExecSpawn PROVE IInv'
<1> DEFINE q == Tail(c2s)
           I(s, o) == Sound(s, o, client, q, frame, left)
<1>1. Sound(server, out, client, c2s, frame, left)
  BY DEF IInv
<1>2. /\ c2s # << >> /\ c2s' = q /\ client' = client /\ frame' = frame /\ left' = left
      /\ Head(c2s).name = "spawn"
  BY DEF ExecSpawn, Takes
<1>3. I(server, out) /\ Head(c2s) = c2s[1] /\ 1 \in 1..Len(c2s)
  BY <1>1, <1>2, Taken
<1>4. server \in Server /\ Inv(server, Stream(out), client, c2s, frame, left)
  BY <1>1 DEF Sound, Inv, Typed
<1>5. SUFFICES I(server', out')
  BY <1>2 DEF IInv
<1>6. Commanded("spawn", Head(c2s).map, client, c2s)
  BY <1>2, <1>3 DEF Commanded
<1> HIDE DEF q, I
<1>7. CASE server' = server /\ out' = out
  BY <1>3, <1>7
<1>8. CASE server.state = "connected" /\ SpawnIsEarly /\ New(server)
  <2>1. CASE Stale
    <3>1. server.stage # SIGNON /\ server.stage # COMPLETED
      BY <1>1, <1>2, <1>8, <2>1, StaleIsEarly DEF Stale
    <3> QED BY <1>3, <1>8, <3>1, NewKeeps DEF New, I
  <2>2. CASE server.stage <= SPAWN /\ ~Stale
    <3>1. server.stage = COMPLETED
      BY <1>4, <1>6, <1>8, <2>2 DEF Inv, Entering, Stale
    <3> QED BY <2>2, <3>1, Numbers DEF StageNumbers
  <2> QED BY <1>8, <2>1, <2>2 DEF SpawnIsEarly
<1>9. CASE /\ server.state = "connected" /\ ~SpawnIsEarly
           /\ server' = [server EXCEPT !.setup = TRUE]
           /\ out' \in Write(out, Msg("skins", server.spawncount))
  <2>1. server.stage = COMPLETED /\ Head(c2s).map = server.spawncount
    BY <1>4, <1>9, Numbers DEF StageNumbers, SpawnIsEarly, Stale, Server, Stages
  <2> QED BY <1>1, <1>2, <1>9, <2>1, SpawnKeeps DEF I, q
<1> QED BY <1>7, <1>8, <1>9 DEF ExecSpawn

\* SV_ExecuteUserCommand, begin
LEMMA BeginCommandKeeps ==
    ASSUME IInv, ExecBegin PROVE IInv'
<1> DEFINE q == Tail(c2s)
           S == Stream(out)
<1>1. Sound(server, out, client, c2s, frame, left)
  BY DEF IInv
<1>2. /\ c2s # << >> /\ c2s' = q /\ client' = client /\ frame' = frame
      /\ Head(c2s).name = "begin"
  BY DEF ExecBegin, Takes
<1>3. Sound(server, out, client, q, frame, left) /\ Head(c2s) = c2s[1] /\ 1 \in 1..Len(c2s)
  BY <1>1, <1>2, Taken
<1>4. /\ server \in Server /\ out \in Out /\ Inv(server, S, client, c2s, frame, left)
      /\ Inv(server, S, client, q, frame, left)
  BY <1>1, <1>3 DEF Sound, Inv, Typed
<1>5. SUFFICES out' \in Out /\ Inv(server', Stream(out'), client, q, frame, left')
  BY <1>2 DEF IInv, Sound
<1> HIDE DEF q, S
<1>6. CASE server' = server /\ out' = out /\ left' = left
  BY <1>4, <1>6 DEF S
<1>7. CASE /\ server.state = "connected" /\ New([server EXCEPT !.state = "spawned"])
           /\ left' = left \cup {server.spawncount}
  <2> DEFINE s == [server EXCEPT !.state = "spawned"]
  <2>1. /\ s \in Server /\ s.state = "spawned" /\ s.spawncount = server.spawncount
        /\ s.setup = server.setup /\ s.info = server.info /\ s.pextknown = server.pextknown
    BY <1>4 DEF Server
  <2>2. server' = Restarted(s) /\ out' = out
    BY <1>7, <2>1 DEF New, Greeted
  <2> HIDE DEF s
  <2>3. /\ server' \in Server /\ Kept(s, server') /\ server'.stage = INVALID
        /\ server'.pextknown = s.pextknown
    BY <2>1, <2>2, RestartedIs
  <2>4. Inv(server', S, client, q, frame, left')
    BY <1>4, <1>7, <2>1, <2>3, BeginKeeps DEF Kept
  <2> QED BY <1>4, <2>2, <2>4 DEF S
<1>8. CASE /\ server.state = "connected" /\ ~BeginIsStale
           /\ server' = [server EXCEPT !.state = "spawned", !.spawned = TRUE]
           /\ out' = out /\ left' = left
  <2>1. /\ server' \in Server /\ server'.state = "spawned" /\ server'.spawned
        /\ server'.spawncount = server.spawncount /\ server'.setup = server.setup
        /\ server'.info = server.info /\ server'.pextknown = server.pextknown
        /\ server'.stage = server.stage /\ server'.idx = server.idx
    BY <1>4, <1>8 DEF Server
  <2>2. server.setup
    <3>1. Commanded("begin", server.spawncount, client, c2s)
      BY <1>2, <1>3, <1>8 DEF Commanded, BeginIsStale, Stale
    <3> QED BY <1>4, <3>1 DEF Inv, Entering
  <2>3. Inv(server', S, client, q, frame, left')
    BY <1>4, <1>8, <2>1, <2>2, BeginKeeps
  <2> QED BY <1>4, <1>8, <2>3 DEF S
<1> QED BY <1>6, <1>7, <1>8 DEF ExecBegin

\* SV_Map_f, SV_SendClientMessages and the stages of SV_SendClientPrespawnInfo
LEMMA ServerKeeps ==
    ASSUME IInv, \/ MapChange \/ SendBackbuf \/ SendServerinfo \/ SendSoundlist
                 \/ SendModellist \/ SendSignon \/ SendFrame
    PROVE  IInv'
<1> DEFINE I(s, o) == Sound(s, o, client, c2s, frame, left)
<1>1. Sound(server, out, client, c2s, frame, left)
  BY DEF IInv
<1>2. server \in Server /\ out \in Out /\ Inv(server, Stream(out), client, c2s, frame, left)
  BY <1>1 DEF Sound, Inv, Typed
<1>3. CASE SendFrame
  <2>1. /\ server.state = "spawned" /\ frame' = server.spawncount /\ server' = server
        /\ out' = out /\ client' = client /\ c2s' = c2s /\ left' = left
    BY <1>3 DEF SendFrame
  <2>2. Inv(server, Stream(out), client, c2s, server.spawncount, left)
    BY <1>2, <2>1, FrameKeeps
  <2> QED BY <1>2, <2>1, <2>2 DEF IInv, Sound
<1>4. SUFFICES ASSUME ~SendFrame PROVE I(server', out')
  <2>1. ~SendFrame => client' = client /\ c2s' = c2s /\ frame' = frame /\ left' = left
    BY DEF MapChange, SendBackbuf, SendServerinfo, SendSoundlist, SendModellist, SendSignon
  <2> QED BY <1>3, <2>1 DEF IInv
<1> HIDE DEF I
<1>5. CASE MapChange
  <2> DEFINE s == [TakenOut(server) EXCEPT !.spawncount = @ + 1]
  <2>1. PICK told \in Write(out, Msg("changing", server.spawncount)) :
          \E sent \in Flushed(told) : out' \in Greeted(s, sent)
    BY <1>5 DEF MapChange
  <2>2. PICK sent \in Flushed(told) : out' \in Greeted(s, sent)
    BY <2>1
  <2>3. server' = Restarted(s)
    BY <1>5 DEF MapChange
  <2>4. s = [TakenOut(server) EXCEPT !.spawncount = @ + 1]
    OBVIOUS
  <2> HIDE DEF s
  <2>5. Sound(Restarted(s), out', client, c2s, frame, left)
    BY <1>1, <2>1, <2>2, <2>4, MapChangeKeeps
  <2> QED BY <2>3, <2>5 DEF I
<1>6. CASE SendBackbuf
  <2>1. out' \in Flushed(out) /\ server' = server
    BY <1>6 DEF SendBackbuf
  <2> QED BY <1>2, <2>1, FlushedKeeps DEF I, Sound
<1>7. CASE SendServerinfo
  <2> DEFINE msg == Msg("serverinfo", server.spawncount)
  <2>1. /\ server.stage = SERVERINFO /\ out' \in Write(out, msg)
        /\ server' = [server EXCEPT !.stage = SOUNDLIST, !.idx = 0]
    BY <1>7 DEF SendServerinfo
  <2>2. msg \in Message /\ msg.kind = "serverinfo" /\ msg.map = server.spawncount
    BY <1>2, Worded DEF Kinds, Server
  <2> HIDE DEF msg
  <2>3. Says(out, out', msg)
    BY <1>2, <2>1, <2>2, WriteAppends DEF Says
  <2>4. /\ server' \in Server /\ Kept(server, server') /\ server'.stage = SOUNDLIST
        /\ server'.idx = 0 /\ server'.pextknown = server.pextknown
    BY <1>2, <2>1 DEF Server, Kept, Stages
  <2>5. NoFurther(server, server')
    BY <2>1, <2>4, Numbers DEF StageNumbers, NoFurther
  <2>6. ASSUME NEW L \in View, Reached(server, L)
        PROVE  Fitting(L, msg) /\ Reached(server', Step(L, msg)) /\ Good(Step(L, msg))
    BY <1>2, <2>1, <2>2, <2>4, <2>6, TellsServerinfo DEF Kept
  <2> QED BY <1>1, <2>2, <2>3, <2>4, <2>5, <2>6, SayKeeps DEF I
<1>8. ASSUME NEW s, I(s, out), s.idx = server.idx, s.spawncount = server.spawncount,
             NEW kind, NEW total, NEW p \in Pieces(total), out.backbuf = <<>>,
             server' = Advanced(s, p),
             out' = Direct(out, Piece(kind, server.spawncount, Names(p), p.last)),
             \/ s.stage = SOUNDLIST /\ kind = "soundlist" /\ total = Sounds
             \/ s.stage = MODELLIST /\ kind = "modellist" /\ total = Models
      PROVE  I(server', out')
  <2>1. /\ p.n \in 0..total - s.idx /\ p.last \in BOOLEAN
        /\ p.last => p.n = total - s.idx
    BY <1>8 DEF Pieces
  <2>2. server' = Advanced(s, [n |-> p.n, last |-> p.last])
    BY <1>8 DEF Advanced
  <2>3. out' = Direct(out, Piece(kind, s.spawncount, s.idx + 1..s.idx + p.n, p.last))
    BY <1>8 DEF Names
  <2>4. /\ Sound(s, out, client, c2s, frame, left) /\ out.backbuf = <<>>
        /\ \/ s.stage = SOUNDLIST /\ kind = "soundlist" /\ total = Sounds
           \/ s.stage = MODELLIST /\ kind = "modellist" /\ total = Models
    BY <1>8 DEF I
  <2>5. Sound(server', Direct(out, Piece(kind, s.spawncount, s.idx + 1..s.idx + p.n, p.last)),
              client, c2s, frame, left)
    BY <2>1, <2>2, <2>4, ListKeeps
  <2> QED BY <2>3, <2>5 DEF I
<1>9. CASE SendSoundlist
  <2> DEFINE s == [server EXCEPT !.soundlist = FALSE]
  <2>1. PICK p \in Pieces(Sounds) :
          /\ server' = Advanced(s, p)
          /\ out' = Direct(out, Piece("soundlist", server.spawncount, Names(p), p.last))
    BY <1>9 DEF SendSoundlist
  <2>2. I(s, out) /\ s.stage = server.stage /\ s.idx = server.idx /\ Kept(server, s)
    BY <1>1, PermitKeeps DEF I
  <2>3. server.stage = SOUNDLIST /\ out.backbuf = <<>>
    BY <1>9 DEF SendSoundlist, ListsMayGo
  <2> HIDE DEF s
  <2> QED BY <1>8, <2>1, <2>2, <2>3 DEF Kept
<1>10. CASE SendModellist
  <2> DEFINE s == [server EXCEPT !.modellist = FALSE]
  <2>1. PICK p \in Pieces(Models) :
          /\ server' = Advanced(s, p)
          /\ out' = Direct(out, Piece("modellist", server.spawncount, Names(p), p.last))
    BY <1>10 DEF SendModellist
  <2>2. I(s, out) /\ s.stage = server.stage /\ s.idx = server.idx /\ Kept(server, s)
    BY <1>1, PermitKeeps DEF I
  <2>3. server.stage = MODELLIST /\ out.backbuf = <<>>
    BY <1>10 DEF SendModellist, ListsMayGo
  <2> HIDE DEF s
  <2> QED BY <1>8, <2>1, <2>2, <2>3 DEF Kept
<1>11. CASE SendSignon
  <2>1. server.stage = SIGNON /\ out.backbuf = <<>>
    BY <1>11 DEF SendSignon, Idle
  <2>2. PICK p \in Pieces(SignonData) :
          LET sent == IF p.n = 0 THEN out
                      ELSE Direct(out, Piece("signon", server.spawncount, Names(p), p.last))
          IN IF p.last
             THEN /\ server' = [server EXCEPT !.stage = COMPLETED, !.idx = 0]
                  /\ out' \in Write(sent, Msg("spawn", server.spawncount))
             ELSE /\ server' = Advanced(server, p)
                  /\ out' = sent
    BY <1>11 DEF SendSignon
  <2> DEFINE sent == IF p.n = 0 THEN out
                     ELSE Direct(out, Piece("signon", server.spawncount, Names(p), p.last))
             s == [server EXCEPT !.idx = server.idx + p.n]
  <2>3. /\ p.n \in 0..SignonData - server.idx /\ p.last \in BOOLEAN
        /\ p.last => p.n = SignonData - server.idx
    BY DEF Pieces
  <2>4. I(s, sent)
    BY <1>1, <2>1, <2>3, SignonKeeps DEF I, Names
  <2>5. /\ s.stage = SIGNON /\ s.idx = server.idx + p.n /\ s.spawncount = server.spawncount
        /\ [s EXCEPT !.stage = COMPLETED, !.idx = 0]
             = [server EXCEPT !.stage = COMPLETED, !.idx = 0]
    BY <1>2, <2>1 DEF Server
  <2>6. ~p.last => server' = s /\ out' = sent
    <3>1. ~p.last => Advanced(server, p) = s
      BY <1>2 DEF Advanced, Server
    <3> QED BY <2>2, <3>1
  <2>7. p.last => /\ server' = [s EXCEPT !.stage = COMPLETED, !.idx = 0]
                  /\ out' \in Write(sent, Msg("spawn", s.spawncount))
                  /\ s.idx = SignonData
    <3>1. p.last => s.idx = SignonData
      BY <1>2, <2>3, <2>5, Totals DEF Server
    <3> QED BY <2>2, <2>5, <3>1
  <2> HIDE DEF s, sent
  <2>8. CASE ~p.last
    BY <2>4, <2>6, <2>8
  <2>9. CASE p.last
    BY <2>4, <2>5, <2>7, <2>9, CompletedKeeps DEF I
  <2> QED BY <2>8, <2>9
<1> QED BY <1>4, <1>5, <1>6, <1>7, <1>9, <1>10, <1>11

\* The message parsed is the first of the stream.
LEMMA StreamTail ==
    ASSUME NEW o \in Out, NEW p, o.message # << >>, p = [o EXCEPT !.message = Tail(@)]
    PROVE  /\ p \in Out /\ Stream(p) \in Seq(Message)
           /\ Dropped(Stream(o), Stream(p)) /\ Stream(o)[1] = Head(o.message)
<1> DEFINE a == o.message
           b == o.backbuf
           r == Tail(a)
<1>1. a \in Seq(Message) /\ b \in Seq(Message)
  BY DEF Out
<1>2. r \in Seq(Message) /\ Dropped(a, r) /\ Head(a) = a[1]
  BY <1>1, TailDrops
<1>3. p = [message |-> r, backbuf |-> b]
  BY OutParts DEF Out
<1> HIDE DEF a, b, r
<1>4. p \in Out /\ Stream(p) = r \o b /\ Stream(o) = a \o b
  <2>1. p \in Out
    <3>1. [message |-> r, backbuf |-> b] \in Out
      BY <1>1, <1>2 DEF Out
    <3> QED BY <1>3, <3>1, Zenon
  <2>2. Stream(p) = r \o b
    BY <1>3, SMTT(40) DEF Stream
  <2>3. Stream(o) = a \o b
    BY DEF Stream, a, b
  <2> QED BY <2>1, <2>2, <2>3
<1>5. /\ r \o b \in Seq(Message) /\ a \o b \in Seq(Message)
      /\ Len(a \o b) = Len(a) + Len(b) /\ Len(r \o b) = Len(r) + Len(b)
      /\ \A i \in 1..Len(a) + Len(b) :
            (a \o b)[i] = IF i <= Len(a) THEN a[i] ELSE b[i - Len(a)]
      /\ \A i \in 1..Len(r) + Len(b) :
            (r \o b)[i] = IF i <= Len(r) THEN r[i] ELSE b[i - Len(r)]
      /\ Len(a) \in Nat /\ Len(b) \in Nat /\ Len(r) \in Nat
  BY <1>1, <1>2, ConcatProperties, LenProperties
<1>6. Dropped(a \o b, r \o b) /\ (a \o b)[1] = a[1]
  BY <1>2, <1>5, SMTT(40) DEF Dropped
<1> QED BY <1>2, <1>4, <1>5, <1>6 DEF a

\* What the client is sent, and what it does by itself
LEMMA ClientStepsKeep ==
    ASSUME IInv, \/ Receive \/ ReceiveFrame \/ Download \/ DownloadEnds \/ Load \/ MakeActive
                 \/ Reconnect \/ SetInfo
    PROVE  IInv'
<1> DEFINE S == Stream(out)
           I(c) == Inv(server, S, c, c2s, frame, left)
<1>1. /\ out \in Out /\ I(client) /\ client \in Client /\ server \in Server
      /\ server' = server /\ c2s' = c2s /\ left' = left
  <2>1. Sound(server, out, client, c2s, frame, left)
    BY DEF IInv
  <2> QED BY <2>1 DEF Sound, Inv, Typed, Receive, ReceiveFrame, Download, DownloadEnds, Load,
                      MakeActive, Reconnect, SetInfo
<1> HIDE DEF S, I
<1>2. CASE Receive
  <2>1. /\ out.message # << >> /\ out' = [out EXCEPT !.message = Tail(@)]
        /\ client' = Parsed(client, Head(out.message))
        /\ frame' = IF Head(out.message).kind = "serverdata" /\ frame < Head(out.message).map
                    THEN 0 ELSE frame
    BY <1>2 DEF Receive
  <2>2. /\ out' \in Out /\ Stream(out') \in Seq(Message)
        /\ Dropped(S, Stream(out')) /\ S[1] = Head(out.message)
    BY <1>1, <2>1, StreamTail DEF S
  <2>3. Inv(server, Stream(out'), client', c2s, frame', left)
    BY <1>1, <2>1, <2>2, ReceiveKeeps DEF I
  <2> QED BY <1>1, <2>2, <2>3 DEF IInv, Sound
<1>3. SUFFICES ASSUME ~Receive PROVE Inv(server, S, client', c2s, frame', left)
  <2>1. ~Receive => out' = out
    BY DEF ReceiveFrame, Download, DownloadEnds, Load, MakeActive, Reconnect, SetInfo
  <2> QED BY <1>1, <1>2, <2>1 DEF IInv, Sound, S
<1>4. CASE ReceiveFrame
  <2>1. client' = [client EXCEPT !.valid = TRUE] /\ frame' = 0 /\ frame # 0
    BY <1>4 DEF ReceiveFrame
  <2>2. /\ client' \in Client /\ Alike(client, client') /\ client'.cmds = client.cmds
        /\ client'.state = client.state /\ client'.valid /\ client'.worldmodel = client.worldmodel
    BY <1>1, <2>1 DEF Client, Alike, Seen
  <2>3. client'.state = "active" => client'.valid /\ client'.worldmodel
    BY <1>1, <2>2 DEF I, Inv, Frames
  <2> QED BY <1>1, <2>1, <2>2, <2>3, ClientKeeps DEF I
<1>5. SUFFICES ASSUME ~ReceiveFrame PROVE I(client')
  <2>1. ~ReceiveFrame => frame' = frame
    BY <1>3 DEF Download, DownloadEnds, Load, MakeActive, Reconnect, SetInfo
  <2> QED BY <1>4, <2>1 DEF I
<1>6. ASSUME NEW d \in Client, Alike(client, d), d.cmds = client.cmds,
             d.state = "connected" => client.state = "connected",
             d.state = "active" => d.valid /\ d.worldmodel,
             d.valid => client.valid
      PROVE  I(d)
  BY <1>1, <1>6, ClientKeeps DEF I
<1>7. client.state = "active" => client.valid /\ client.worldmodel
  BY <1>1 DEF I, Inv, Frames
<1>8. CASE Download \/ DownloadEnds
  <2>1. \E now \in BOOLEAN : client' = [client EXCEPT !.downloading = now]
    BY <1>8 DEF Download, DownloadEnds
  <2>2. /\ client' \in Client /\ Alike(client, client') /\ client'.cmds = client.cmds
        /\ client'.state = client.state /\ client'.valid = client.valid
        /\ client'.worldmodel = client.worldmodel
    BY <1>1, <2>1 DEF Client, Alike, Seen
  <2> QED BY <1>6, <1>7, <2>2
<1>9. CASE Load
  <2> DEFINE d == [client EXCEPT !.sendprespawn = FALSE, !.worldmodel = TRUE]
  <2>1. client' = Resend(d, "prespawn") /\ client.sendprespawn
    BY <1>9 DEF Load
  <2>2. /\ d \in Client /\ d.servercount = client.servercount /\ d.info = client.info
        /\ d.sync = client.sync /\ d.cmds = client.cmds
        /\ d.state = client.state /\ d.valid = client.valid /\ d.worldmodel
        /\ Seen(d) = Seen(client)
    BY <1>1, <2>1 DEF Client, Seen
  <2> HIDE DEF d
  <2>3. Alike(client, d)
    BY <2>2 DEF Alike
  <2>4. I(d)
    BY <1>6, <1>7, <2>2, <2>3
  <2>5. I(Resend(d, "prespawn"))
    BY <2>4, ResendKeeps DEF I
  <2> QED BY <2>1, <2>5
<1>10. CASE MakeActive
  <2>1. client' = [client EXCEPT !.state = "active"] /\ client.valid /\ client.worldmodel
    BY <1>10 DEF MakeActive
  <2>2. /\ client' \in Client /\ Alike(client, client') /\ client'.cmds = client.cmds
        /\ client'.state = "active" /\ client'.valid = client.valid
        /\ client'.worldmodel = client.worldmodel
    BY <1>1, <2>1 DEF Client, Alike, Seen
  <2> QED BY <1>6, <2>1, <2>2
<1>11. CASE Reconnect
  <2>1. client' = Send(client, "new") /\ client.state = "connected"
    BY <1>11 DEF Reconnect
  <2>2. "new" \in Listed \ {"spawn"} /\ "new" # "begin"
    BY DEF Listed
  <2> QED BY <1>1, <2>1, <2>2, SendKeeps DEF I
<1>12. CASE SetInfo
  <2>1. client' = [client EXCEPT !.info = client.info + 1, !.sync = TRUE]
    BY <1>12 DEF SetInfo
  <2> QED BY <1>1, <2>1, SetInfoKeeps DEF I
<1> QED BY <1>3, <1>4, <1>5, <1>8, <1>9, <1>10, <1>11, <1>12

\* CL_SendCmd
LEMMA ClientWritesKeep ==
    ASSUME IInv, SendUserinfo \/ SendCommands PROVE IInv'
<1> DEFINE S == Stream(out)
<1>1. /\ out \in Out /\ Inv(server, S, client, c2s, frame, left)
      /\ client \in Client /\ c2s \in Seq(SentCommand)
      /\ server' = server /\ out' = out /\ frame' = frame /\ left' = left
  <2>1. Sound(server, out, client, c2s, frame, left)
    BY DEF IInv
  <2> QED BY <2>1 DEF Sound, Inv, Typed, SendUserinfo, SendCommands
<1> HIDE DEF S
<1>2. SUFFICES Inv(server, S, client', c2s', frame, left)
  BY <1>1 DEF IInv, Sound, S
<1>3. CASE SendUserinfo
  <2> DEFINE x == Command("setinfo", client.servercount)
  <2>1. c2s' = Append(c2s, x) /\ client' = [client EXCEPT !.sync = FALSE]
    BY <1>3 DEF SendUserinfo
  <2>2. /\ x \in SentCommand /\ x.name = "setinfo" /\ x.map = client.servercount
        /\ x.info = client.info
    BY <1>1 DEF Command, SentCommand, Client
  <2> HIDE DEF x
  <2>3. c2s' \in Seq(SentCommand) /\ Added(c2s, c2s', x)
    BY <1>1, <2>1, <2>2, AppendAdds
  <2> QED BY <1>1, <2>1, <2>2, <2>3, UserinfoKeeps
<1>4. CASE SendCommands
  <2> DEFINE cmds == client.cmds
             x == Command(Head(cmds).name, Head(cmds).map)
  <2>1. /\ cmds # << >> /\ ~Holds(client, Head(cmds))
        /\ c2s' = Append(c2s, x) /\ client' = [client EXCEPT !.cmds = Tail(client.cmds)]
    BY <1>4 DEF SendCommands
  <2>2. cmds \in Seq(ListedCommand)
    BY <1>1 DEF Client
  <2>3. /\ Tail(cmds) \in Seq(ListedCommand) /\ Dropped(cmds, Tail(cmds))
        /\ Head(cmds) = cmds[1] /\ Head(cmds) \in ListedCommand
    BY <2>1, <2>2, TailDrops
  <2>4. /\ x \in SentCommand /\ x.name = cmds[1].name /\ x.map = cmds[1].map
        /\ x.info = client.info
    BY <1>1, <2>3 DEF Command, SentCommand, ListedCommand, Client
  <2>5. x.name = "spawn" => ~(client.sync /\ client.serverinfo # 0)
    BY <2>1, <2>3, <2>4 DEF Holds
  <2>6. /\ client' \in Client /\ client'.cmds = Tail(client.cmds)
        /\ Rewritten(client, client')
    BY <1>1, <2>1, <2>3, Rewrites
  <2> HIDE DEF x
  <2>7. c2s' \in Seq(SentCommand) /\ Added(c2s, c2s', x)
    BY <1>1, <2>1, <2>4, AppendAdds
  <2> QED BY <1>1, <2>3, <2>4, <2>5, <2>6, <2>7, SentKeeps
<1> QED BY <1>3, <1>4

\* Every step keeps the invariant.
LEMMA NextKeepsIInv == IInv /\ [Next]_vars => IInv'
<1> SUFFICES ASSUME IInv, [Next]_vars PROVE IInv'
  OBVIOUS
<1>1. CASE Execute
  BY <1>1, FirstCommandsKeep, SpawnCommandKeeps, BeginCommandKeeps DEF Execute
<1>2. CASE \/ MapChange \/ SendBackbuf \/ SendServerinfo \/ SendSoundlist
           \/ SendModellist \/ SendSignon \/ SendFrame
  BY <1>2, ServerKeeps
<1>3. CASE \/ Receive \/ ReceiveFrame \/ Download \/ DownloadEnds \/ Load \/ MakeActive
           \/ Reconnect \/ SetInfo
  BY <1>3, ClientStepsKeep
<1>4. CASE SendUserinfo \/ SendCommands
  BY <1>4, ClientWritesKeep
<1>5. CASE UNCHANGED vars
  BY <1>5 DEF vars, IInv
<1> QED BY <1>1, <1>2, <1>3, <1>4, <1>5 DEF Next

\* A client that asks for new has been told nothing.
LEMMA InitIInv == Init => IInv
<1> SUFFICES ASSUME Init PROVE IInv
  OBVIOUS
<1> DEFINE S == Stream(out)
<1>1. /\ server.spawncount = 1 /\ server.state = "connected" /\ server.stage = INVALID
      /\ ~server.setup /\ server.info = 0 /\ server \in Server
  BY DEF Init, Server, Stages
<1>2. out \in Out /\ S \in Seq(Message) /\ Len(S) = 0
  <2>1. <<>> \in Seq(Message) /\ <<>> \o <<>> \in Seq(Message) /\ Len(<<>> \o <<>>) = 0
    OBVIOUS
  <2>2. out = [message |-> <<>>, backbuf |-> <<>>]
    BY DEF Init
  <2> QED BY <2>1, <2>2 DEF Out, Stream
<1> HIDE DEF S
<1>3. /\ client.state = "connected" /\ client.servercount = 0 /\ client.info = 0
      /\ client.cmds = <<[name |-> "new", map |-> 0]>> /\ ~client.sync /\ ~client.valid
      /\ ~client.sendprespawn /\ ~client.worldmodel /\ client.servercount = 0
      /\ client \in Client
  <2>1. <<[name |-> "new", map |-> 0]>> \in Seq(ListedCommand)
    BY DEF ListedCommand, Listed
  <2>2. {} \in Lists
    BY DEF Lists
  <2> QED BY <2>1, <2>2 DEF Init, Client
<1>4. /\ Len(client.cmds) = 1 /\ \A i \in 1..Len(client.cmds) :
            i = 1 /\ client.cmds[i].name = "new" /\ client.cmds[i].map = 0
  BY <1>3
<1>5. c2s = << >> /\ Len(c2s) = 0 /\ c2s \in Seq(SentCommand) /\ frame = 0 /\ left = {}
  BY DEF Init
<1>6. Told(server, S, client)
  <2>1. Seen(client) \in View /\ Seen(client).count = 0 /\ ~Seen(client).ready
    BY <1>3, SeenType DEF Seen
  <2>2. Run(S, Seen(client), Seen(client))
    BY <1>2, <2>1, RunStarts DEF Good
  <2>3. Reached(server, Seen(client))
    BY <1>1, <2>1, Numbers DEF Reached, StageNumbers
  <2> QED BY <2>1, <2>2, <2>3 DEF Told
<1>7. Typed(server, S, client, c2s, frame, left)
  BY <1>1, <1>2, <1>3, <1>5 DEF Typed
<1>8. Maps(1, S, client, c2s) /\ Behind(1, client, c2s)
  BY <1>2, <1>3, <1>4, <1>5 DEF Maps, Behind
<1>9. Settled(server, client, c2s)
  BY <1>1, Numbers DEF Settled, StageNumbers
<1>10. Entering(server, S, client, c2s, left)
  BY <1>1, <1>2, <1>4, <1>5 DEF Entering, Stuffed, Commanded
<1>11. Frames(server, S, client, frame, left)
  BY <1>1, <1>3, <1>5 DEF Frames
<1>12. Userinfo(server, client, c2s)
  BY <1>1, <1>3, <1>5 DEF Userinfo, Known
<1> QED BY <1>1, <1>2, <1>6, <1>7, <1>8, <1>9, <1>10, <1>11, <1>12 DEF IInv, Sound, Inv, S
-----------------------------------------------------------------------------
(* What the client and the server may rely on. *)

\* The invariant: what is under way takes the client from what it knows to what the
\* server believes it knows, and no command of an earlier map is behind one of this.
THEOREM Invariant == Spec => []IInv
  BY InitIInv, NextKeepsIInv, PTL DEF Spec

\* A client that fetches what is missing, loads the models or plays has the whole
\* serverinfo, sound and model list of the map it was told of
\* (SV_SendClientPrespawnInfo and CL_ParseSoundlist, CL_ParseModellist).
THEOREM ListsAreAlwaysWhole == Spec => []ListsAreWhole
<1>1. ASSUME IInv PROVE ListsAreWhole
  <2>1. Inv(server, Stream(out), client, c2s, frame, left)
    BY <1>1 DEF IInv, Sound
  <2>2. client \in Client /\ Stream(out) \in Seq(Message)
    BY <2>1 DEF Inv, Typed
  <2>3. PICK L \in View : Run(Stream(out), Seen(client), L)
    BY <2>1 DEF Inv, Told
  <2>4. Good(Seen(client))
    BY <2>2, <2>3, SeenType, RunBegins
  <2> QED BY <2>4 DEF ListsAreWhole, Whole, Good, Seen, UpTo
<1> QED BY <1>1, Invariant, PTL

\* A client that is active has all of the map it plays, unless a begin of another
\* map was taken on it (Host_Frame and SV_Begin_f).
THEOREM ActiveIsAlwaysComplete == Spec => []ActiveIsComplete
<1>1. ASSUME IInv PROVE ActiveIsComplete
  <2>1. Inv(server, Stream(out), client, c2s, frame, left)
    BY <1>1 DEF IInv, Sound
  <2>2. client.servercount \in Nat /\ left \in SUBSET Nat
    BY <2>1 DEF Inv, Typed, Client
  <2>3. ASSUME client.state = "active", \A map \in left : map < client.servercount
        PROVE  client.worldmodel /\ Complete(Seen(client))
    <3>1. client.valid /\ client.worldmodel
      BY <2>1, <2>3 DEF Inv, Frames
    <3>2. ~ \E map \in left : map >= client.servercount
      BY <2>2, <2>3
    <3> QED BY <2>1, <3>1, <3>2 DEF Inv, Frames
  <2> QED BY <2>3 DEF ActiveIsComplete, Whole, Complete, Seen, UpTo
<1> QED BY <1>1, Invariant, PTL

\* Who is in the game was set up and let in on this map, knows it and has all of it,
\* unless a begin of another map was taken on it (SVQW_Spawn_f and SV_Begin_f).
THEOREM SpawnedIsAlwaysThere == Spec => []SpawnedIsThere
<1>1. ASSUME IInv PROVE SpawnedIsThere
  <2>1. Inv(server, Stream(out), client, c2s, frame, left)
    BY <1>1 DEF IInv, Sound
  <2>2. ASSUME server.state = "spawned", server.spawncount \notin left
        PROVE  /\ server.spawned /\ server.setup
               /\ client.servercount = server.spawncount /\ Complete(Seen(client))
    BY <2>1, <2>2 DEF Inv, Entering
  <2> QED BY <2>2 DEF SpawnedIsThere, Whole, Complete, Seen, UpTo
<1> QED BY <1>1, Invariant, PTL

\* A player is set up with the userinfo the user had when the spawn was sent, or a
\* later one (SVQW_Spawn_f, and CL_SendCmd that holds the spawn back).
THEOREM SpawnAlwaysKnowsUserinfo == Spec => SpawnKnowsUserinfo
<1> DEFINE A == ~server.setup /\ server'.setup => server.info >= Head(c2s).info
<1>1. ASSUME IInv, [Next]_vars PROVE [A]_vars
  <2> SUFFICES ASSUME ~server.setup, server'.setup PROVE server.info >= Head(c2s).info
    OBVIOUS
  <2>1. /\ Sound(server, out, client, c2s, frame, left)
        /\ Inv(server, Stream(out), client, c2s, frame, left) /\ server \in Server
    BY <1>1 DEF IInv, Sound, Inv, Typed
  <2>2. CASE ExecSpawn /\ ~SpawnIsEarly
    <3>1. c2s # << >> /\ Head(c2s).name = "spawn" /\ Head(c2s).map = server.spawncount
      BY <2>2 DEF ExecSpawn, Takes, SpawnIsEarly, Stale
    <3>2. Head(c2s) = c2s[1] /\ 1 \in 1..Len(c2s)
      BY <2>1, <3>1, Taken
    <3>3. Known(c2s[1].info, server, c2s, 1 - 1)
      BY <2>1, <3>1, <3>2 DEF Inv, Userinfo
    <3> QED BY <3>2, <3>3 DEF Known
  <2>3. \A s \in Server : Restarted(s).setup = s.setup
    BY RestartedIs DEF Kept
  <2>4. CASE ~(ExecSpawn /\ ~SpawnIsEarly)
    <3>1. server'.setup = server.setup \/ ~server'.setup
      <4>1. CASE MapChange
        <5> DEFINE s == [TakenOut(server) EXCEPT !.spawncount = @ + 1]
        <5>1. server' = Restarted(s)
          BY <4>1 DEF MapChange
        <5>2. s.setup = FALSE
          BY <2>1 DEF TakenOut, Server
        <5>3. Restarted(s).setup = s.setup
          BY <2>1 DEF Restarted, TakenOut, Server
        <5> QED BY <5>1, <5>2, <5>3
      <4>2. CASE Execute
        <5>1. ASSUME NEW s \in Server, s.setup = server.setup, New(s)
              PROVE  server'.setup = server.setup
          BY <2>3, <5>1 DEF New
        <5>2. CASE ExecNew \/ ExecPext \/ ExecPrespawn \/ ExecSpawn \/ ExecBegin
          <6>1. /\ [server EXCEPT !.pextknown = TRUE] \in Server
                /\ [server EXCEPT !.pextknown = TRUE].setup = server.setup
                /\ [server EXCEPT !.state = "spawned"] \in Server
                /\ [server EXCEPT !.state = "spawned"].setup = server.setup
                /\ [server EXCEPT !.stage = MAPCHECK + 1, !.idx = 0].setup = server.setup
                /\ [server EXCEPT !.state = "spawned", !.spawned = TRUE].setup = server.setup
            BY <2>1 DEF Server
          <6>2. \/ server' = server \/ New(server)
                \/ New([server EXCEPT !.pextknown = TRUE])
                \/ New([server EXCEPT !.state = "spawned"])
                \/ server' = [server EXCEPT !.stage = MAPCHECK + 1, !.idx = 0]
                \/ server' = [server EXCEPT !.state = "spawned", !.spawned = TRUE]
            BY <2>4, <5>2 DEF ExecNew, ExecPext, ExecPrespawn, ExecSpawn, ExecBegin
          <6> QED BY <2>1, <5>1, <6>1, <6>2
        <5>3. CASE ExecList \/ ExecSetinfo
          BY <2>1, <5>3 DEF ExecList, ExecSetinfo, Server
        <5> QED BY <4>2, <5>2, <5>3 DEF Execute
      <4>3. CASE \/ SendServerinfo \/ SendSoundlist \/ SendModellist \/ SendSignon
        BY <2>1, <4>3 DEF SendServerinfo, SendSoundlist, SendModellist, SendSignon, Advanced,
                          Server
      <4>4. CASE \/ SendBackbuf \/ SendFrame \/ Receive \/ ReceiveFrame \/ Download
                 \/ DownloadEnds \/ Load \/ MakeActive \/ Reconnect \/ SetInfo
                 \/ SendUserinfo \/ SendCommands \/ UNCHANGED vars
        BY <4>4 DEF SendBackbuf, SendFrame, Receive, ReceiveFrame, Download, DownloadEnds, Load,
                    MakeActive, Reconnect, SetInfo, SendUserinfo, SendCommands, vars
      <4> QED BY <1>1, <4>1, <4>2, <4>3, <4>4 DEF Next
    <3> QED BY <3>1
  <2> QED BY <2>2, <2>4
<1> QED BY <1>1, Invariant, PTL DEF Spec, SpawnKnowsUserinfo
=============================================================================
