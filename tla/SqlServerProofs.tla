--------------------------- MODULE SqlServerProofs ---------------------------
(***************************************************************************)
(* What SqlServer keeps for every number of queries, of results to a query *)
(* and of query numbers: the callbacks see all results in order, what a    *)
(* thread can reach is allocated, and no two open queries have one number. *)
(*                                                                         *)
(* A query goes from the queue to the worker, and each of its results from *)
(* the worker to results and then to the callback.  The argument follows   *)
(* that line: what waits for the callback comes after what it was given,   *)
(* then comes the query at work, and after it those in the queue.          *)
(***************************************************************************)
EXTENDS SqlServer, SequenceTheorems, FiniteSetTheorems, WellFoundedInduction, TLAPS

-----------------------------------------------------------------------------
(* Choosing the smallest. *)

\* A set of natural numbers that is not empty has a smallest element.
LEMMA SmallestElement ==
    ASSUME NEW T \in SUBSET Nat, T # {}
    PROVE  \E x \in T : \A y \in T : x <= y
<1>1. PICK x \in T : \A y \in T : ~(<<y, x>> \in OpToRel(<, Nat))
  BY NatLessThanWellFounded, WFMin, Zenon
<1>2. \A a, b \in Nat : a < b => <<a, b>> \in OpToRel(<, Nat)
  BY Zenon DEF OpToRel
<1>3. \A y \in T : ~(y < x)
  BY <1>1, <1>2, Zenon
<1> QED BY <1>3

-----------------------------------------------------------------------------
(* The inductive invariant. *)

States == {"none", "PENDING", "PARTIAL", "FINISHED", "ABORTED", "freed"}
Result == [query : Query, part : Nat, eof : BOOLEAN]

Types ==
    /\ active \in BOOLEAN
    /\ queue \in Seq(Query)
    /\ results \in Seq(Result \union {NoJob})
    /\ answers \in Seq(Result)
    /\ job \in [query : Query, parts : Nat] \union {NoJob}
    /\ state \in [Query -> States]
    /\ num \in [Query -> 0 .. MaxNum]
    /\ persistant \in [Query -> BOOLEAN]
    /\ querynum \in 1 .. MaxNum

\* The worker has a query exactly while it runs it, and reports its own error last.
Places ==
    /\ worker = "run" <=> job # NoJob
    /\ \A i \in DOMAIN results :
          results[i] = NoJob => i = Len(results) /\ worker = "dead"

\* a query whose last result has not been handed over
Live(q) == state[q] \in {"PENDING", "PARTIAL", "ABORTED"}

Lives ==
    /\ \A i \in DOMAIN queue : Live(queue[i])
    /\ job # NoJob => Live(job.query)
    /\ \A i \in DOMAIN results : results[i] # NoJob => Live(results[i].query)

\* Queries are asked in the order of their places, and queued so.
Asked ==
    /\ \A p, q \in Query : p < q /\ state[p] = "none" => state[q] = "none"
    /\ \A i \in DOMAIN answers : state[answers[i].query] # "none"
    /\ \A i, j \in DOMAIN queue : i < j => queue[i] < queue[j]
    /\ \A i \in DOMAIN queue : job # NoJob => job.query < queue[i]

\* the parts of q among the first n of the results s
Parts(s, n, q) == {s[j].part : j \in {j \in 1 .. n : s[j].query = q}}

\* those of q given to the callback and those among the first n that wait to be
Due(n, q) == Parts(answers, Len(answers), q) \union Parts(results, n, q)

Precedes(r, x) == /\ r.query <= x.query
                  /\ r.query = x.query => ~r.eof

\* Results wait in order behind the answers, and what is queued comes after them.
\* Of an aborted query results may have been dropped.
Waits(j) ==
    /\ state[results[j].query] # "ABORTED" =>
          Due(j - 1, results[j].query) = 1 .. results[j].part - 1
    /\ \A i \in DOMAIN answers : Precedes(answers[i], results[j])
    /\ \A i \in 1 .. j - 1 : Precedes(results[i], results[j])
    /\ \A k \in DOMAIN queue : results[j].query < queue[k]

\* The query at work comes after them, with no result but those.
Works ==
    /\ state[job.query] # "ABORTED" => Due(Len(results), job.query) = 1 .. job.parts
    /\ \A i \in DOMAIN answers : Precedes(answers[i], job)
    /\ \A i \in DOMAIN results : Precedes(results[i], job)

Ordered ==
    /\ AnswersInOrder
    /\ \A j \in DOMAIN results : results[j] # NoJob => Waits(j)
    /\ \A i \in DOMAIN answers, k \in DOMAIN queue : answers[i].query < queue[k]
    /\ job # NoJob => Works

Numbered ==
    /\ \A q \in Open : num[q] # querynum
    /\ NumbersAreUnique

IInv == Types /\ Places /\ Lives /\ Asked /\ Ordered /\ Numbered

-----------------------------------------------------------------------------
(* The operators. *)

Bounded == MaxQueries \in Nat \ {0} /\ MaxNum \in Nat /\ MaxLive \in Nat \ {0} /\ MaxLive < MaxNum

\* The bounds, and that there are more numbers than open queries.
LEMMA Bounds == Bounded
BY QueryNumbersSuffice DEF Bounded

\* A result at the end adds its part.
LEMMA PartsAppend ==
    ASSUME NEW S, NEW s \in Seq(S), NEW x \in S, NEW q
    PROVE  /\ Parts(Append(s, x), Len(s) + 1, q)
                = Parts(s, Len(s), q) \union (IF x.query = q THEN {x.part} ELSE {})
           /\ \A n \in 0 .. Len(s) : Parts(Append(s, x), n, q) = Parts(s, n, q)
<1> DEFINE t == Append(s, x)
<1>1. /\ Len(s) \in Nat /\ t[Len(s) + 1] = x
      /\ \A i \in 1 .. Len(s) : t[i] = s[i]
  BY AppendProperties, LenProperties
<1> HIDE DEF t
<1>2. \A n \in 0 .. Len(s) : Parts(t, n, q) = Parts(s, n, q)
  BY <1>1 DEF Parts
<1>3. Parts(t, Len(s) + 1, q) = Parts(t, Len(s), q) \union (IF x.query = q THEN {x.part} ELSE {})
  <2>1. 1 .. Len(s) + 1 = (1 .. Len(s)) \union {Len(s) + 1}
    BY <1>1
  <2> QED BY <1>1, <2>1 DEF Parts
<1>4. Len(s) \in 0 .. Len(s)
  BY <1>1
<1> QED BY <1>2, <1>3, <1>4 DEF t

\* Without the first result its part is missing.
LEMMA PartsTail ==
    ASSUME NEW S, NEW s \in Seq(S), s # <<>>, NEW n \in Nat, n + 1 <= Len(s), NEW q
    PROVE  Parts(s, n + 1, q)
             = Parts(Tail(s), n, q) \union (IF s[1].query = q THEN {s[1].part} ELSE {})
<1> DEFINE t == Tail(s)
<1>1. /\ Len(s) \in Nat /\ Len(t) = Len(s) - 1
      /\ \A i \in 1 .. Len(t) : t[i] = s[i + 1]
  BY HeadTailProperties, LenProperties
<1> HIDE DEF t
<1>2. \A i \in 1 .. n : t[i] = s[i + 1]
  BY <1>1
<1>3. ASSUME NEW y PROVE y \in Parts(s, n + 1, q) <=>
        y \in Parts(t, n, q) \union (IF s[1].query = q THEN {s[1].part} ELSE {})
  <2>1. y \in Parts(s, n + 1, q) <=> \E j \in 1 .. n + 1 : s[j].query = q /\ y = s[j].part
    BY DEF Parts
  <2>2. y \in Parts(t, n, q) <=> \E j \in 1 .. n : s[j + 1].query = q /\ y = s[j + 1].part
    BY <1>2 DEF Parts
  <2>3. (\E j \in 1 .. n + 1 : s[j].query = q /\ y = s[j].part) <=>
          \/ s[1].query = q /\ y = s[1].part
          \/ \E j \in 1 .. n : s[j + 1].query = q /\ y = s[j + 1].part
    <3>1. ASSUME NEW j \in 1 .. n + 1, s[j].query = q, y = s[j].part, j # 1
          PROVE  \E i \in 1 .. n : s[i + 1].query = q /\ y = s[i + 1].part
      <4>1. j - 1 \in 1 .. n /\ (j - 1) + 1 = j
        BY <3>1
      <4> QED BY <3>1, <4>1
    <3>2. \A j \in 1 .. n : j + 1 \in 1 .. n + 1
      OBVIOUS
    <3> QED BY <3>1, <3>2
  <2> QED BY <2>1, <2>2, <2>3
<1> QED BY <1>3 DEF t

-----------------------------------------------------------------------------
(* The steps. *)

\* What is queued, at work, waiting or answered is a query's.
LEMMA Elements ==
    ASSUME Types
    PROVE  /\ Len(queue) \in Nat /\ DOMAIN queue = 1 .. Len(queue)
           /\ Len(results) \in Nat /\ DOMAIN results = 1 .. Len(results)
           /\ Len(answers) \in Nat /\ DOMAIN answers = 1 .. Len(answers)
           /\ \A i \in DOMAIN queue : queue[i] \in Query
           /\ \A i \in DOMAIN answers : answers[i] \in Result
           /\ \A i \in DOMAIN answers : answers[i].query \in Query
           /\ \A i \in DOMAIN results : results[i] # NoJob => results[i] \in Result
           /\ \A i \in DOMAIN results : results[i] # NoJob => results[i].query \in Query
           /\ job # NoJob => job.query \in Query /\ job.parts \in Nat
<1>1. /\ Len(queue) \in Nat /\ DOMAIN queue = 1 .. Len(queue)
      /\ Len(results) \in Nat /\ DOMAIN results = 1 .. Len(results)
      /\ Len(answers) \in Nat /\ DOMAIN answers = 1 .. Len(answers)
  BY LenProperties DEF Types
<1>2. \A i \in DOMAIN queue : queue[i] \in Query
  BY <1>1, ElementOfSeq DEF Types
<1>3. \A i \in DOMAIN answers : answers[i] \in Result
  BY <1>1, ElementOfSeq DEF Types
<1>4. \A i \in DOMAIN results : results[i] \in Result \union {NoJob}
  BY <1>1, ElementOfSeq DEF Types
<1>5. \A r \in Result : r.query \in Query
  BY DEF Result
<1>6. job # NoJob => job.query \in Query /\ job.parts \in Nat
  BY DEF Types
<1> QED BY <1>1, <1>2, <1>3, <1>4, <1>5, <1>6

\* A connection begins with empty queues.
LEMMA InitIInv == Init => IInv
<1> SUFFICES ASSUME Init PROVE IInv
  OBVIOUS
<1> USE Bounds DEF Bounded
<1>1. /\ queue = <<>> /\ results = <<>> /\ job = NoJob /\ active = TRUE
      /\ worker # "run" /\ worker # "dead"
  BY DEF Init, NewServer, OldServer
<1>2. CASE NewServer
  <2>1. /\ state = [q \in Query |-> "none"] /\ num = [q \in Query |-> 0]
        /\ persistant = [q \in Query |-> FALSE] /\ querynum = 1 /\ answers = <<>>
    BY <1>2 DEF NewServer, Empty
  <2>2. Open = {}
    BY <2>1 DEF Open
  <2>3. Types
    BY <1>1, <2>1 DEF Types, States
  <2>4. Places /\ Lives /\ Asked /\ Ordered
    BY <1>1, <2>1 DEF Places, Lives, Asked, Ordered, AnswersInOrder
  <2>5. Numbered
    BY <2>2 DEF Numbered, NumbersAreUnique
  <2> QED BY <2>3, <2>4, <2>5 DEF IInv
<1>3. CASE OldServer
  <2> DEFINE r == [query |-> 1, part |-> 1, eof |-> TRUE]
  <2>1. 1 \in Query
    BY DEF Query
  <2>2. /\ state = [q \in Query |-> IF q = 1 THEN "FINISHED" ELSE "none"]
        /\ num = [q \in Query |-> IF q = 1 THEN 1 ELSE 0]
        /\ persistant = [q \in Query |-> IF q = 1 THEN TRUE ELSE FALSE]
        /\ querynum \in 2 .. MaxNum /\ answers = <<r>>
    BY <1>3, <2>1 DEF OldServer, Empty
  <2>3. Open = {1}
    BY <2>1, <2>2 DEF Open
  <2>4. r \in Result /\ Len(answers) = 1 /\ answers[1] = r /\ DOMAIN answers = {1}
    BY <2>1, <2>2 DEF Result
  <2>5. Types
    BY <1>1, <2>1, <2>2, <2>4 DEF Types, States
  <2>6. Places /\ Lives
    BY <1>1 DEF Places, Lives
  <2>7. Asked
    <3>1. \A p, q \in Query : p < q => q # 1
      BY DEF Query
    <3> QED BY <1>1, <2>1, <2>2, <2>4, <3>1 DEF Asked
  <2>8. AnswersInOrder
    <3>1. {answers[j].part : j \in {j \in 1 .. 1 - 1 : answers[j].query = r.query}} = 1 .. 1 - 1
      OBVIOUS
    <3> QED BY <2>4, <3>1 DEF AnswersInOrder
  <2>9. Ordered
    BY <1>1, <2>8 DEF Ordered
  <2>10. Numbered
    BY <2>1, <2>2, <2>3 DEF Numbered, NumbersAreUnique
  <2> QED BY <2>5, <2>6, <2>7, <2>9, <2>10 DEF IInv
<1> QED BY <1>2, <1>3 DEF Init

\* The steps that leave the queries, their numbers and all queues alone.
LEMMA QuietStep ==
    ASSUME IInv, active' \in BOOLEAN,
           worker' = "run" <=> worker = "run", worker = "dead" => worker' = "dead",
           UNCHANGED <<queue, results, job, state, num, persistant, querynum, answers>>
    PROVE  IInv'
<1>1. Types' /\ Places'
  BY DEF IInv, Types, Places
<1>2. Lives' /\ Asked'
  BY DEF IInv, Lives, Asked, Live
<1>3. Ordered'
  BY DEF IInv, Ordered, Waits, Works, AnswersInOrder, Due
<1>4. Numbered'
  BY DEF IInv, Numbered, NumbersAreUnique, Open
<1> QED BY <1>1, <1>2, <1>3, <1>4 DEF IInv

-----------------------------------------------------------------------------
(* The next query number. *)

\* The k-th number after n.
NumberAfter(n, k) == ((n + k - 1) % MaxNum) + 1

\* The k-th number after n, which wraps at MaxNum.
LEMMA NumberAfterIs ==
    ASSUME NEW n \in 1 .. MaxNum, NEW k \in 1 .. MaxNum
    PROVE  NumberAfter(n, k) = IF n + k <= MaxNum THEN n + k ELSE n + k - MaxNum
<1>1. MaxNum \in Nat \ {0}
  BY Bounds DEF Bounded
<1>2. CASE n + k <= MaxNum
  <2>1. (n + k - 1) % MaxNum = n + k - 1
    BY <1>1, <1>2
  <2> QED BY <1>2, <2>1 DEF NumberAfter
<1>3. CASE ~(n + k <= MaxNum)
  <2>1. (n + k - 1) % MaxNum = n + k - 1 - MaxNum
    BY <1>1, <1>3
  <2> QED BY <1>1, <1>3, <2>1 DEF NumberAfter
<1> QED BY <1>2, <1>3

\* With fewer queries open than there are numbers, the number chosen for the next
\* query is no open query's and not the one just given out.
LEMMA NextNumberIsFree ==
    ASSUME NEW n \in 1 .. MaxNum, num \in [Query -> 0 .. MaxNum],
           \A q \in Open : num[q] # n, Cardinality(Open) < MaxLive
    PROVE  /\ NextNumber(n) \in 1 .. MaxNum
           /\ NextNumber(n) # n
           /\ \A q \in Open : num[q] # NextNumber(n)
<1> DEFINE free == {k \in 1 .. MaxNum : \A q \in Open : num[q] # NumberAfter(n, k)}
           least == CHOOSE k \in free : \A j \in free : k <= j
<1>1. /\ MaxNum \in Nat \ {0} /\ MaxLive \in Nat /\ MaxLive < MaxNum /\ MaxQueries \in Nat
  BY Bounds DEF Bounded
<1>2. NextNumber(n) = NumberAfter(n, least)
  BY DEF NextNumber, NumberAfter
<1>3. \E k \in free : k # MaxNum
  <2> SUFFICES ASSUME \A k \in 1 .. MaxNum - 1 : \E q \in Open : num[q] = NumberAfter(n, k)
               PROVE  FALSE
    BY <1>1
  <2> DEFINE S == 1 .. MaxNum - 1
             f == [k \in S |-> CHOOSE q \in Open : num[q] = NumberAfter(n, k)]
  <2>1. \A k \in S : f[k] \in Open /\ num[f[k]] = NumberAfter(n, k)
    OBVIOUS
  <2>2. f \in [S -> Open]
    BY <2>1
  <2>3. IsFiniteSet(Open) /\ Cardinality(Open) \in Nat
    <3>1. IsFiniteSet(Query)
      BY <1>1, FS_Interval DEF Query
    <3>2. Open \in SUBSET Query
      BY DEF Open
    <3>3. IsFiniteSet(Open)
      BY <3>1, <3>2, FS_Subset
    <3> QED BY <3>3, FS_CardinalityType
  <2>4. IsFiniteSet(S) /\ Cardinality(S) = MaxNum - 1
    <3> DEFINE m == MaxNum - 1
    <3>1. m \in Nat /\ 1 \in Int /\ m \in Int
      BY <1>1
    <3> HIDE DEF m
    <3>2. IsFiniteSet(1 .. m) /\ Cardinality(1 .. m) = IF 1 > m THEN 0 ELSE m - 1 + 1
      BY <3>1, FS_Interval
    <3>3. IsFiniteSet(1 .. m) /\ Cardinality(1 .. m) = m
      BY <3>1, <3>2
    <3> QED BY <3>3 DEF m
  <2>5. Cardinality(Open) < Cardinality(S)
    BY <1>1, <2>3, <2>4
  <2> HIDE DEF S, f
  <2>6. PICK x, y \in S : x # y /\ f[x] = f[y]
    BY <2>2, <2>3, <2>4, <2>5, FS_PigeonHole
  <2>7. NumberAfter(n, x) = NumberAfter(n, y)
    BY <2>1, <2>6
  <2>8. x \in 1 .. MaxNum /\ y \in 1 .. MaxNum
    BY <1>1 DEF S
  <2> QED BY <1>1, <2>6, <2>7, <2>8, NumberAfterIs
<1>4. least \in free /\ \A j \in free : least <= j
  <2>1. \E k \in free : \A j \in free : k <= j
    <3>1. free \in SUBSET Nat /\ free # {}
      BY <1>1, <1>3
    <3> HIDE DEF free
    <3> QED BY <3>1, SmallestElement
  <2> HIDE DEF free
  <2> QED BY <2>1
<1>5. least \in 1 .. MaxNum - 1 /\ \A q \in Open : num[q] # NumberAfter(n, least)
  BY <1>1, <1>3, <1>4
<1> HIDE DEF least
<1>6. NumberAfter(n, least) = IF n + least <= MaxNum THEN n + least ELSE n + least - MaxNum
  BY <1>1, <1>5, NumberAfterIs
<1> QED BY <1>1, <1>2, <1>5, <1>6

-----------------------------------------------------------------------------
(* The steps of the main thread. *)

\* A new query comes behind all others.
LEMMA NewQueryStep == IInv /\ NewQuery => IInv'
<1> SUFFICES ASSUME IInv, NewQuery PROVE IInv'
  OBVIOUS
<1> USE DEF IInv
<1>1. PICK q \in Query, keep \in BOOLEAN :
        /\ state[q] = "none" /\ \A p \in 1 .. q - 1 : state[p] # "none"
        /\ num' = [num EXCEPT ![q] = querynum]
        /\ querynum' = NextNumber(querynum)
        /\ state' = [state EXCEPT ![q] = "PENDING"]
        /\ persistant' = [persistant EXCEPT ![q] = keep]
        /\ queue' = Append(queue, q)
  BY DEF NewQuery, Pushed
<1>2. /\ Cardinality(Open) < MaxLive
      /\ UNCHANGED <<worker, active, results, job, answers>>
  BY DEF NewQuery
<1>3. /\ querynum' \in 1 .. MaxNum /\ querynum' # querynum
      /\ \A p \in Open : num[p] # querynum'
  BY <1>1, <1>2, NextNumberIsFree DEF Types, Numbered
<1>4. /\ queue' \in Seq(Query) /\ Len(queue') = Len(queue) + 1
      /\ queue'[Len(queue) + 1] = q /\ \A i \in 1 .. Len(queue) : queue'[i] = queue[i]
      /\ DOMAIN queue' = 1 .. Len(queue) + 1
  BY <1>1, Elements, AppendProperties, LenProperties DEF Types
<1>5. \A p \in Query : state[p] # "none" => p < q /\ p # q
  BY <1>1 DEF Asked, Query
<1>6. \A p \in Query : p # q => state'[p] = state[p] /\ num'[p] = num[p]
  BY <1>1 DEF Types
<1>7. state'[q] = "PENDING" /\ num'[q] = querynum
  BY <1>1 DEF Types
<1>8. \A p \in Query : Live(p) => p < q /\ state'[p] = state[p] /\ Live(p)'
  BY <1>5, <1>6 DEF Live
<1>9. /\ \A i \in DOMAIN answers :
             answers[i].query < q /\ state'[answers[i].query] = state[answers[i].query]
      /\ \A i \in DOMAIN results : results[i] # NoJob =>
             results[i].query < q /\ state'[results[i].query] = state[results[i].query]
      /\ job # NoJob => job.query < q /\ state'[job.query] = state[job.query]
      /\ \A i \in DOMAIN queue : queue[i] < q /\ Live(queue[i])'
  <2>1. \A i \in DOMAIN queue : queue[i] < q /\ Live(queue[i])'
    <3>1. \A i \in DOMAIN queue : queue[i] < q /\ state'[queue[i]] \in {"PENDING", "PARTIAL", "ABORTED"}
      BY <1>8, Elements DEF Lives, Live
    <3>2. \A i \in DOMAIN queue : queue'[i] = queue[i]
      BY <1>4, Elements
    <3> QED BY <3>1, <3>2 DEF Live
  <2> QED BY <1>5, <1>6, <1>8, <2>1, Elements DEF Asked, Lives
<1>10. Types'
  BY <1>1, <1>2, <1>3, <1>4 DEF Types, States
<1>11. Places'
  BY <1>2 DEF Places
<1>12. Lives'
  <2>1. \A i \in DOMAIN queue' : state'[queue'[i]] \in {"PENDING", "PARTIAL", "ABORTED"}
    BY <1>4, <1>7, <1>9, Elements DEF Live
  <2>2. job # NoJob => Live(job.query)'
    BY <1>2, <1>9 DEF Lives, Live
  <2>3. \A i \in DOMAIN results : results[i] # NoJob => Live(results[i].query)'
    BY <1>2, <1>9 DEF Lives, Live
  <2> QED BY <1>2, <2>1, <2>2, <2>3 DEF Lives, Live
<1>13. Asked'
  <2>1. \A p, r \in Query : p < r /\ state'[p] = "none" => state'[r] = "none"
    <3> SUFFICES ASSUME NEW p \in Query, NEW r \in Query, p < r, state'[p] = "none"
                 PROVE  state'[r] = "none"
      OBVIOUS
    <3>1. p # q /\ state[p] = "none"
      BY <1>6, <1>7
    <3>2. state[r] = "none" /\ r # q
      BY <1>1, <3>1 DEF Asked, Query
    <3> QED BY <1>6, <3>2
  <2>2. \A i, j \in DOMAIN queue' : i < j => queue'[i] < queue'[j]
    BY <1>4, <1>9, Elements DEF Asked
  <2>3. \A i \in DOMAIN queue' : job' # NoJob => job'.query < queue'[i]
    BY <1>2, <1>4, <1>9, Elements DEF Asked
  <2>4. \A i \in DOMAIN answers' : state'[answers'[i].query] # "none"
    BY <1>2, <1>9 DEF Asked
  <2> QED BY <2>1, <2>2, <2>3, <2>4 DEF Asked
<1>14. Ordered'
  <2>1. AnswersInOrder'
    BY <1>2 DEF Ordered, AnswersInOrder
  <2>2. \A i \in DOMAIN answers', k \in DOMAIN queue' : answers'[i].query < queue'[k]
    BY <1>2, <1>4, <1>9, Elements DEF Ordered
  <2>3. ASSUME NEW j \in DOMAIN results, results[j] # NoJob PROVE Waits(j)'
    <3>1. Waits(j)
      BY <2>3 DEF Ordered
    <3>2. \A k \in DOMAIN queue' : results[j].query < queue'[k]
      BY <1>4, <1>9, <2>3, <3>1, Elements DEF Waits
    <3> QED BY <1>2, <1>9, <2>3, <3>1, <3>2 DEF Waits, Due
  <2>4. job # NoJob => Works'
    BY <1>2, <1>9 DEF Ordered, Works, Due
  <2> QED BY <1>2, <2>1, <2>2, <2>3, <2>4 DEF Ordered
<1>15. Numbered'
  <2>1. Open' = Open \union {q}
    BY <1>1, <1>6, <1>7 DEF Open
  <2>2. q \notin Open /\ Open \subseteq Query
    BY <1>1 DEF Open
  <2>3. \A p \in Open : num'[p] = num[p] /\ num'[p] # num'[q]
    BY <1>6, <1>7, <2>2 DEF Numbered
  <2> QED BY <1>3, <1>7, <2>1, <2>3 DEF Numbered, NumbersAreUnique
<1> QED BY <1>10, <1>11, <1>12, <1>13, <1>14, <1>15

\* PF_sqlclosequery: a query is freed only when nothing of it is on its way.
LEMMA CloseQueryStep == IInv /\ CloseQuery => IInv'
<1> SUFFICES ASSUME IInv, CloseQuery PROVE IInv'
  OBVIOUS
<1> USE DEF IInv
<1>1. PICK q \in Open : state' = [state EXCEPT ![q] = Closed(q, FALSE)]
  BY DEF CloseQuery
<1>2. UNCHANGED <<worker, active, queue, results, job, num, persistant, querynum, answers>>
  BY DEF CloseQuery
<1>3. /\ q \in Query /\ state[q] \in States \ {"none", "freed"}
      /\ \A p \in Query : p # q => state'[p] = state[p]
      /\ state'[q] = IF state[q] = "FINISHED" THEN "freed" ELSE "ABORTED"
  BY <1>1 DEF Open, Types, Closed
<1>4. /\ \A p \in Query : Live(p) => Live(p)'
      /\ \A p \in Query : state'[p] = "none" <=> state[p] = "none"
      /\ \A p \in Query : state'[p] # "ABORTED" /\ Live(p) => state'[p] = state[p]
      /\ Open' \subseteq Open
  BY <1>3 DEF Live, Open, States
<1>5. Types' /\ Places'
  BY <1>1, <1>2, <1>3 DEF Types, Places, States
<1>6. Lives' /\ Asked'
  BY <1>2, <1>4, Elements DEF Lives, Asked
<1>7. Ordered'
  <2>1. ASSUME NEW j \in DOMAIN results, results[j] # NoJob PROVE Waits(j)'
    BY <1>2, <1>4, <2>1, Elements DEF Ordered, Waits, Due, Lives
  <2>2. job # NoJob => Works'
    BY <1>2, <1>4, Elements DEF Ordered, Works, Due, Lives
  <2> QED BY <1>2, <2>1, <2>2 DEF Ordered, AnswersInOrder
<1>8. Numbered'
  BY <1>2, <1>4 DEF Numbered, NumbersAreUnique
<1> QED BY <1>5, <1>6, <1>7, <1>8

\* What taking the first result leaves.
LEMMA TailFacts ==
    ASSUME Types, results # <<>>
    PROVE  /\ Head(results) = results[1] /\ 1 \in DOMAIN results
           /\ Tail(results) \in Seq(Result \union {NoJob})
           /\ Len(Tail(results)) = Len(results) - 1
           /\ DOMAIN Tail(results) = 1 .. Len(results) - 1
           /\ \A i \in 1 .. Len(results) - 1 :
                 Tail(results)[i] = results[i + 1] /\ i + 1 \in DOMAIN results
<1>1. results \in Seq(Result \union {NoJob}) /\ Len(results) \in Nat \ {0}
  BY EmptySeq, LenProperties DEF Types
<1> QED BY <1>1, HeadTailProperties, LenProperties

\* SQL_ServerCycle takes a result: its part is no longer among those to come.
LEMMA TakenParts ==
    ASSUME Types, results # <<>>, NEW n \in Nat, n + 1 <= Len(results), NEW q
    PROVE  Parts(results, n + 1, q) = Parts(Tail(results), n, q) \union
               (IF results[1].query = q THEN {results[1].part} ELSE {})
<1> DEFINE S == Result \union {NoJob}
<1>1. results \in Seq(S)
  BY DEF Types
<1> HIDE DEF S
<1> QED BY <1>1, PartsTail

\* The worker's own error is the last result of all.
LEMMA CycleServerErrorStep == IInv /\ CycleServerError => IInv'
<1> SUFFICES ASSUME IInv, CycleServerError PROVE IInv'
  OBVIOUS
<1> USE DEF IInv
<1>1. /\ results # <<>> /\ Head(results) = NoJob /\ results' = Tail(results)
      /\ UNCHANGED <<worker, active, queue, job, state, num, persistant, querynum, answers>>
  BY DEF CycleServerError, mainOnly
<1>2. worker = "dead" /\ Len(results) = 1 /\ job = NoJob
  BY <1>1, TailFacts DEF Places
<1>3. results' = <<>> /\ DOMAIN results' = {} /\ results' \in Seq(Result \union {NoJob})
  BY <1>1, <1>2, TailFacts, EmptySeq
<1>4. Types' /\ Places' /\ Lives' /\ Asked'
  BY <1>1, <1>2, <1>3 DEF Types, Places, Lives, Live, Asked
<1>5. Ordered'
  BY <1>1, <1>2, <1>3 DEF Ordered, AnswersInOrder
<1>6. Numbered'
  BY <1>1 DEF Numbered, NumbersAreUnique, Open
<1> QED BY <1>4, <1>5, <1>6

\* Behind the last result of a query nothing of it is on its way.
LEMMA NothingBehindLast ==
    ASSUME IInv, results # <<>>, results[1] # NoJob, results[1].eof
    PROVE  /\ \A i \in 2 .. Len(results) : results[i] # NoJob => results[i].query # results[1].query
           /\ job # NoJob => job.query # results[1].query
           /\ \A k \in DOMAIN queue : queue[k] # results[1].query
<1>1. 1 \in DOMAIN results /\ Waits(1) /\ results[1].query \in Nat
  BY TailFacts, Elements DEF IInv, Ordered, Query
<1>2. ASSUME NEW i \in 2 .. Len(results), results[i] # NoJob
      PROVE  results[i].query # results[1].query
  <2>1. i \in DOMAIN results /\ 1 \in 1 .. i - 1
    BY Elements DEF IInv
  <2>2. Waits(i)
    BY <1>2, <2>1 DEF IInv, Ordered
  <2> QED BY <2>1, <2>2 DEF Waits, Precedes
<1>3. ASSUME job # NoJob PROVE job.query # results[1].query
  BY <1>1, <1>3 DEF IInv, Ordered, Works, Precedes
<1>4. ASSUME NEW k \in DOMAIN queue PROVE queue[k] # results[1].query
  BY <1>1, <1>4, Elements DEF IInv, Waits, Query
<1> QED BY <1>2, <1>3, <1>4

\* A query that is freed or finished by its last result, a query that is aborted by
\* its callback: in either case what is still on its way stays allocated.
LEMMA TakenKeepsLives ==
    ASSUME IInv, results # <<>>, results[1] # NoJob,
           results' = Tail(results), UNCHANGED <<queue, job>>,
           \A p \in Query : p # results[1].query => state'[p] = state[p],
           ~results[1].eof => Live(results[1].query) /\
                              state'[results[1].query] \in {"PENDING", "PARTIAL", "ABORTED"}
    PROVE  Lives'
<1> USE DEF IInv
<1> DEFINE L(q) == state'[q] \in {"PENDING", "PARTIAL", "ABORTED"}
<1>1. \A p \in Query : Live(p) /\ (results[1].eof => p # results[1].query) => L(p)
  BY DEF Live
<1>2. \A i \in DOMAIN queue : L(queue[i])
  BY <1>1, NothingBehindLast, Elements DEF Lives
<1>3. job # NoJob => L(job.query)
  BY <1>1, NothingBehindLast, Elements DEF Lives
<1>4. \A i \in DOMAIN results' : results'[i] # NoJob => L(results'[i].query)
  <2> SUFFICES ASSUME NEW i \in 1 .. Len(results) - 1, results[i + 1] # NoJob
               PROVE  L(results[i + 1].query)
    BY TailFacts
  <2>1. i + 1 \in DOMAIN results /\ i + 1 \in 2 .. Len(results)
    BY TailFacts, Elements
  <2> QED BY <1>1, <2>1, NothingBehindLast, Elements DEF Lives
<1> QED BY <1>2, <1>3, <1>4 DEF Lives, Live

\* A result of an aborted query is dropped; the last one frees the query.
LEMMA CycleAbortedStep == IInv /\ CycleAborted => IInv'
<1> SUFFICES ASSUME IInv, CycleAborted PROVE IInv'
  OBVIOUS
<1> USE DEF IInv
<1> DEFINE r == results[1]
<1>1. /\ results # <<>> /\ r # NoJob /\ state[r.query] = "ABORTED"
      /\ state' = [state EXCEPT ![r.query] = IF r.eof THEN "freed" ELSE @]
      /\ results' = Tail(results)
      /\ UNCHANGED <<worker, active, queue, job, num, persistant, querynum, answers>>
  BY TailFacts DEF CycleAborted, Closed
<1>2. /\ r.query \in Query
      /\ \A p \in Query : p # r.query => state'[p] = state[p]
      /\ state'[r.query] = IF r.eof THEN "freed" ELSE "ABORTED"
  BY <1>1, TailFacts, Elements DEF Types
<1>3. \A p \in Query : state'[p] = "none" <=> state[p] = "none"
  BY <1>1, <1>2
<1>4. Types'
  BY <1>1, <1>2, TailFacts DEF Types, States
<1>5. Places'
  BY <1>1, TailFacts, Elements DEF Places
<1>6. Lives'
  BY <1>1, <1>2, TakenKeepsLives DEF Live
<1>7. Asked'
  BY <1>1, <1>3, Elements DEF Asked
<1>8. Ordered'
  <2>1. ASSUME NEW n \in Nat, n + 1 <= Len(results), NEW x, x # r.query
        PROVE  Parts(results', n, x) = Parts(results, n + 1, x)
    <3>1. Types
      OBVIOUS
    <3>2. Parts(results, n + 1, x) = Parts(Tail(results), n, x) \union
            (IF results[1].query = x THEN {results[1].part} ELSE {})
      BY <1>1, <2>1, <3>1, TakenParts, Zenon
    <3> QED BY <1>1, <2>1, <3>2
  <2>2. ASSUME NEW j \in DOMAIN results', results'[j] # NoJob PROVE Waits(j)'
    <3> DEFINE x == results[j + 1].query
    <3>1. /\ j \in 1 .. Len(results) - 1 /\ j + 1 \in DOMAIN results /\ j + 1 \in 2 .. Len(results)
          /\ results'[j] = results[j + 1] /\ results[j + 1] # NoJob /\ x \in Query
          /\ j - 1 \in Nat /\ (j - 1) + 1 = j /\ j <= Len(results) /\ (j + 1) - 1 = j
      BY <1>1, <2>2, TailFacts, Elements, SMTT(40)
    <3>2. Waits(j + 1)
      BY <3>1 DEF Ordered
    <3>3. ASSUME state'[x] # "ABORTED"
          PROVE  Due(j, x) = 1 .. results[j + 1].part - 1 /\ x # r.query
      <4>1. x # r.query
        BY <1>1, <1>2, <3>1, <3>3, NothingBehindLast
      <4>2. state[x] # "ABORTED"
        BY <1>2, <3>1, <3>3, <4>1
      <4> QED BY <3>1, <3>2, <4>1, <4>2 DEF Waits
    <3>4. state'[x] # "ABORTED" => Parts(results', j - 1, x) = Parts(results, j, x)
      BY <2>1, <3>1, <3>3
    <3>5. \A i \in 1 .. j - 1 : Precedes(results'[i], results[j + 1])
      <4> SUFFICES ASSUME NEW i \in 1 .. j - 1 PROVE Precedes(results'[i], results[j + 1])
        OBVIOUS
      <4>1. results'[i] = results[i + 1] /\ i + 1 \in 1 .. j
        BY <1>1, <3>1, TailFacts, Elements, SMTT(40)
      <4> QED BY <3>1, <3>2, <4>1 DEF Waits
    <3> QED BY <1>1, <3>1, <3>2, <3>3, <3>4, <3>5 DEF Waits, Due
  <2>3. ASSUME job # NoJob PROVE Works'
    <3> DEFINE n == Len(results) - 1
    <3>1. Works
      BY <2>3 DEF Ordered
    <3>2. Len(results') = n /\ n \in Nat /\ n + 1 = Len(results)
      BY <1>1, TailFacts, Elements
    <3> HIDE DEF n
    <3>3. ASSUME state'[job.query] # "ABORTED"
          PROVE  job.query # r.query /\ state[job.query] # "ABORTED"
      BY <1>1, <1>2, <2>3, <3>3, NothingBehindLast, Elements
    <3>4. state'[job.query] # "ABORTED" =>
            Parts(results', Len(results'), job.query) = Parts(results, Len(results), job.query)
      BY <2>1, <3>2, <3>3
    <3>5. \A i \in DOMAIN results' : Precedes(results'[i], job)
      BY <1>1, <3>1, TailFacts DEF Works
    <3> QED BY <1>1, <3>1, <3>3, <3>4, <3>5 DEF Works, Due
  <2> QED BY <1>1, <2>2, <2>3, Elements DEF Ordered, AnswersInOrder
<1>9. Numbered'
  BY <1>1, <1>2 DEF Numbered, NumbersAreUnique, Open
<1> QED BY <1>4, <1>5, <1>6, <1>7, <1>8, <1>9

\* AnswersInOrder in the terms of the other parts.
LEMMA AnswersInOrderIs ==
    AnswersInOrder <=>
        \A i \in DOMAIN answers :
            /\ Parts(answers, i - 1, answers[i].query) = 1 .. answers[i].part - 1
            /\ \A j \in 1 .. i - 1 : Precedes(answers[j], answers[i])
BY DEF AnswersInOrder, Parts, Precedes

\* It calls back: the part is among the answers.
LEMMA AnsweredParts ==
    ASSUME Types, NEW r \in Result, NEW q
    PROVE  /\ Parts(Append(answers, r), Len(answers) + 1, q)
                = Parts(answers, Len(answers), q) \union (IF r.query = q THEN {r.part} ELSE {})
           /\ \A n \in 0 .. Len(answers) : Parts(Append(answers, r), n, q) = Parts(answers, n, q)
<1>1. answers \in Seq(Result)
  BY DEF Types
<1> QED BY <1>1, PartsAppend, SMTT(40)

\* The next result goes to the callback.
LEMMA CycleAnswerStep == IInv /\ CycleAnswer => IInv' /\ main' = main
<1> SUFFICES ASSUME IInv, CycleAnswer PROVE IInv' /\ main' = main
  OBVIOUS
<1> USE DEF IInv
<1> DEFINE r == results[1]
<1>1. /\ results # <<>> /\ r # NoJob /\ state[r.query] # "ABORTED"
      /\ main' = IF state[r.query] \in {"PENDING", "PARTIAL"} THEN main ELSE "error"
      /\ answers' = Append(answers, r)
      /\ results' = Tail(results)
      /\ UNCHANGED <<worker, active, queue, job, num, persistant, querynum>>
  BY TailFacts DEF CycleAnswer
<1>2. r \in Result /\ r.query \in Query /\ r.eof \in BOOLEAN /\ 1 \in DOMAIN results
  BY <1>1, TailFacts, Elements DEF Result
<1>3. /\ state' \in [Query -> States]
      /\ \A p \in Query : p # r.query => state'[p] = state[p]
      /\ r.eof => state'[r.query] \in {"FINISHED", "freed"}
      /\ ~r.eof => state'[r.query] \in {"ABORTED", "PARTIAL"}
  <2>1. PICK closes \in {FALSE, active} :
          state' = [state EXCEPT ![r.query] =
              CASE r.eof /\ (closes \/ ~persistant[r.query]) -> "freed"
                [] r.eof /\ ~closes /\ persistant[r.query] -> "FINISHED"
                [] ~r.eof /\ closes -> "ABORTED"
                [] ~r.eof /\ ~closes -> "PARTIAL"]
    BY <1>1, TailFacts, ZenonT(60) DEF CycleAnswer
  <2>2. closes \in BOOLEAN /\ persistant[r.query] \in BOOLEAN
    BY <1>2 DEF Types
  <2> DEFINE x == CASE r.eof /\ (closes \/ ~persistant[r.query]) -> "freed"
                    [] r.eof /\ ~closes /\ persistant[r.query] -> "FINISHED"
                    [] ~r.eof /\ closes -> "ABORTED"
                    [] ~r.eof /\ ~closes -> "PARTIAL"
  <2>3. /\ r.eof => x \in {"FINISHED", "freed"}
        /\ ~r.eof => x \in {"ABORTED", "PARTIAL"}
    BY <1>2, <2>2
  <2>4. state' = [state EXCEPT ![r.query] = x]
    BY <2>1
  <2> HIDE DEF x
  <2> QED BY <1>2, <2>3, <2>4 DEF Types, States
<1>4. state[r.query] \in {"PENDING", "PARTIAL"} /\ Live(r.query)
  BY <1>1, <1>2 DEF Lives, Live
<1>5. /\ Len(answers') = Len(answers) + 1 /\ answers' \in Seq(Result)
      /\ answers'[Len(answers) + 1] = r
      /\ \A i \in 1 .. Len(answers) : answers'[i] = answers[i]
      /\ DOMAIN answers' = 1 .. Len(answers) + 1
  BY <1>1, <1>2, AppendProperties, Elements, LenProperties DEF Types
<1>6. \A p \in Query : state'[p] = "none" <=> state[p] = "none"
  BY <1>3, <1>4
<1>7. Types'
  BY <1>1, <1>3, <1>5, TailFacts DEF Types
<1>8. Places'
  BY <1>1, TailFacts, Elements DEF Places
<1>9. Lives'
  BY <1>1, <1>3, <1>4, TakenKeepsLives DEF Live
<1>10. Asked'
  <2>1. \A i \in DOMAIN answers' : state'[answers'[i].query] # "none"
    BY <1>2, <1>4, <1>5, <1>6, Elements DEF Asked
  <2> QED BY <1>1, <1>6, <2>1, Elements DEF Asked
<1>11. Waits(1)
  BY <1>1, <1>2 DEF Ordered
<1>12. Ordered'
  <2>1. ASSUME NEW x
        PROVE  /\ Parts(answers', Len(answers'), x) = Parts(answers, Len(answers), x) \union
                      (IF r.query = x THEN {r.part} ELSE {})
               /\ \A n \in 0 .. Len(answers) : Parts(answers', n, x) = Parts(answers, n, x)
    <3>1. Types
      OBVIOUS
    <3> QED BY <1>1, <1>2, <1>5, <3>1, AnsweredParts
  <2>2. ASSUME NEW n \in Nat, n + 1 <= Len(results), NEW x
        PROVE  Parts(answers', Len(answers'), x) \union Parts(results', n, x)
                 = Parts(answers, Len(answers), x) \union Parts(results, n + 1, x)
    <3>1. Types
      OBVIOUS
    <3>2. Parts(results, n + 1, x) = Parts(Tail(results), n, x) \union
            (IF results[1].query = x THEN {results[1].part} ELSE {})
      BY <1>1, <2>2, <3>1, TakenParts, Zenon
    <3> QED BY <1>1, <2>1, <3>2
  <2>3. AnswersInOrder'
    <3>1. ASSUME NEW i \in 1 .. Len(answers) + 1
          PROVE  /\ Parts(answers', i - 1, answers'[i].query) = 1 .. answers'[i].part - 1
                 /\ \A j \in 1 .. i - 1 : Precedes(answers'[j], answers'[i])
      <4>1. i - 1 \in 0 .. Len(answers) /\ \A j \in 1 .. i - 1 : answers'[j] = answers[j]
        BY <1>5, Elements
      <4>2. Parts(answers', i - 1, answers'[i].query) = Parts(answers, i - 1, answers'[i].query)
        BY <2>1, <4>1
      <4>3. CASE i \in 1 .. Len(answers)
        BY <1>5, <4>1, <4>2, <4>3, AnswersInOrderIs, Elements DEF Ordered
      <4>4. CASE i = Len(answers) + 1
        <5>1. Due(0, r.query) = 1 .. r.part - 1
          BY <1>1, <1>11 DEF Waits
        <5>2. Parts(results, 0, r.query) = {}
          BY DEF Parts
        <5>3. i - 1 = Len(answers) /\ answers'[i] = r
          BY <1>5, <4>4, Elements
        <5> QED BY <1>11, <4>1, <4>2, <5>1, <5>2, <5>3, Elements DEF Due, Waits
      <4> QED BY <4>3, <4>4, Elements
    <3>2. \A i \in DOMAIN answers' :
            /\ Parts(answers', i - 1, answers'[i].query) = 1 .. answers'[i].part - 1
            /\ \A j \in 1 .. i - 1 : Precedes(answers'[j], answers'[i])
      BY <1>5, <3>1
    <3> QED BY <3>2 DEF AnswersInOrder, Parts, Precedes
  <2>4. \A i \in DOMAIN answers', k \in DOMAIN queue : answers'[i].query < queue[k]
    BY <1>5, <1>11, Elements DEF Ordered, Waits
  <2>5. ASSUME NEW j \in DOMAIN results', results'[j] # NoJob PROVE Waits(j)'
    <3> DEFINE x == results[j + 1].query
    <3>1. /\ j \in 1 .. Len(results) - 1 /\ j + 1 \in DOMAIN results /\ j + 1 \in 2 .. Len(results)
          /\ results'[j] = results[j + 1] /\ results[j + 1] # NoJob /\ x \in Query
          /\ j - 1 \in Nat /\ (j - 1) + 1 = j /\ j <= Len(results) /\ (j + 1) - 1 = j
          /\ 1 \in 1 .. j
      BY <1>1, <2>5, TailFacts, Elements, SMTT(40)
    <3>2. Waits(j + 1)
      BY <3>1 DEF Ordered
    <3>3. state'[x] # "ABORTED" => Due(j, x) = 1 .. results[j + 1].part - 1
      BY <1>1, <1>3, <3>1, <3>2 DEF Waits
    <3>4. Parts(answers', Len(answers'), x) \union Parts(results', j - 1, x)
            = Parts(answers, Len(answers), x) \union Parts(results, j, x)
      BY <2>2, <3>1
    <3>5. \A i \in 1 .. j - 1 : Precedes(results'[i], results[j + 1])
      <4> SUFFICES ASSUME NEW i \in 1 .. j - 1 PROVE Precedes(results'[i], results[j + 1])
        OBVIOUS
      <4>1. results'[i] = results[i + 1] /\ i + 1 \in 1 .. j
        BY <1>1, <3>1, TailFacts, Elements, SMTT(40)
      <4> QED BY <3>1, <3>2, <4>1 DEF Waits
    <3>6. \A i \in DOMAIN answers' : Precedes(answers'[i], results[j + 1])
      <4>1. Precedes(r, results[j + 1]) /\ \A i \in 1 .. Len(answers) : Precedes(answers[i], results[j + 1])
        BY <3>1, <3>2, Elements DEF Waits
      <4> SUFFICES ASSUME NEW i \in 1 .. Len(answers) + 1 PROVE Precedes(answers'[i], results[j + 1])
        BY <1>5
      <4>2. i \in 1 .. Len(answers) \/ i = Len(answers) + 1
        BY Elements
      <4> QED BY <1>5, <4>1, <4>2
    <3> QED BY <1>1, <3>1, <3>2, <3>3, <3>4, <3>5, <3>6 DEF Waits, Due
  <2>6. ASSUME job # NoJob PROVE Works'
    <3> DEFINE n == Len(results) - 1
    <3>1. Works
      BY <2>6 DEF Ordered
    <3>2. Len(results') = n /\ n \in Nat /\ n + 1 = Len(results)
      BY <1>1, TailFacts, Elements
    <3> HIDE DEF n
    <3>3. state'[job.query] # "ABORTED" => state[job.query] # "ABORTED"
      BY <1>1, <1>3, <2>6, Elements
    <3>4. Parts(answers', Len(answers'), job.query) \union Parts(results', Len(results'), job.query)
            = Parts(answers, Len(answers), job.query) \union Parts(results, Len(results), job.query)
      BY <2>2, <3>2
    <3>5. \A i \in DOMAIN results' : Precedes(results'[i], job)
      BY <1>1, <3>1, TailFacts DEF Works
    <3>6. \A i \in DOMAIN answers' : Precedes(answers'[i], job)
      BY <1>2, <1>5, <3>1, Elements DEF Works
    <3> QED BY <1>1, <3>1, <3>3, <3>4, <3>5, <3>6 DEF Works, Due
  <2> QED BY <1>1, <2>3, <2>4, <2>5, <2>6 DEF Ordered
<1>13. Numbered'
  BY <1>1, <1>3, <1>4, SMTT(40) DEF Numbered, NumbersAreUnique, Open
<1> QED BY <1>1, <1>4, <1>7, <1>8, <1>9, <1>10, <1>12, <1>13

\* SQL_CleanupServer after the join: nothing is on its way any more.
LEMMA JoinStep == IInv /\ Join => IInv'
<1> SUFFICES ASSUME IInv, Join PROVE IInv'
  OBVIOUS
<1> USE DEF IInv
<1>1. /\ worker = "dead"
      /\ state' = [q \in Query |-> IF q \in Open THEN "freed" ELSE state[q]]
      /\ queue' = <<>> /\ results' = <<>>
      /\ UNCHANGED <<worker, active, job, num, persistant, querynum, answers>>
  BY DEF Join, Terminated
<1>2. job = NoJob
  BY <1>1 DEF Places
<1>3. \A q \in Query : /\ state'[q] = "none" <=> state[q] = "none"
                       /\ state'[q] \in {"none", "freed"}
  BY <1>1 DEF Open
<1>4. Types'
  BY <1>1 DEF Types, States
<1>5. Places' /\ Lives' /\ Asked'
  BY <1>1, <1>2, <1>3, Elements DEF Places, Lives, Asked
<1>6. Ordered'
  BY <1>1, <1>2 DEF Ordered, AnswersInOrder
<1>7. Numbered'
  <2>1. Open' = {}
    BY <1>3 DEF Open
  <2> QED BY <2>1 DEF Numbered, NumbersAreUnique
<1> QED BY <1>4, <1>5, <1>6, <1>7

-----------------------------------------------------------------------------
(* The steps of the worker. *)

\* SQL_PullRequest: the query that comes next comes after all results.
LEMMA WPullStep == IInv /\ WPull => IInv'
<1> SUFFICES ASSUME IInv, WPull PROVE IInv'
  OBVIOUS
<1> USE DEF IInv
<1>1. /\ worker \notin {"run", "dead"} /\ job = NoJob
      /\ UNCHANGED <<active, results, state, num, persistant, querynum, answers>>
  BY DEF WPull, mainOnly, Places
<1>2. CASE queue = <<>>
  <2>1. worker' = "idle" /\ UNCHANGED <<queue, job>>
    BY <1>2 DEF WPull
  <2> QED BY <1>1, <2>1, QuietStep DEF Types
<1>3. CASE queue # <<>>
  <2> DEFINE x == queue[1]
  <2>1. /\ worker' = "run" /\ job' = [query |-> x, parts |-> 0] /\ queue' = Tail(queue)
    BY <1>3 DEF WPull, Types
  <2>2. /\ queue' \in Seq(Query) /\ DOMAIN queue' = 1 .. Len(queue) - 1
        /\ \A i \in 1 .. Len(queue) - 1 : queue'[i] = queue[i + 1] /\ i + 1 \in DOMAIN queue
        /\ 1 \in DOMAIN queue
    <3>1. queue \in Seq(Query) /\ Len(queue) \in Nat \ {0}
      BY <1>3, EmptySeq, LenProperties DEF Types
    <3> QED BY <1>3, <2>1, <3>1, HeadTailProperties, LenProperties, Elements
  <2>3. x \in Query /\ Live(x)
    BY <2>2, Elements DEF Lives
  <2>4. job' # NoJob /\ job' \in [query : Query, parts : Nat] /\ job'.query = x /\ job'.parts = 0
    BY <2>1, <2>3, Bounds DEF NoJob, Query, Bounded
  <2>5. /\ \A i \in DOMAIN results : results[i] # NoJob
        /\ \A i \in DOMAIN results : results[i].query \in Query /\ results[i].query < x
        /\ \A i \in DOMAIN answers : answers[i].query \in Query /\ answers[i].query < x
    <3>1. \A i \in DOMAIN results : results[i] # NoJob
      BY <1>1 DEF Places
    <3> QED BY <2>2, <3>1, Elements DEF Ordered, Waits
  <2>6. Types' /\ Places'
    BY <1>1, <2>1, <2>2, <2>4, <2>5 DEF Types, Places
  <2>7. Lives'
    BY <1>1, <2>2, <2>3, <2>4 DEF Lives, Live
  <2>8. Asked'
    <3>1. \A i, j \in DOMAIN queue' : i < j => queue'[i] < queue'[j]
      <4> SUFFICES ASSUME NEW i \in 1 .. Len(queue) - 1, NEW j \in 1 .. Len(queue) - 1, i < j
                   PROVE  queue'[i] < queue'[j]
        BY <2>2
      <4>1. i + 1 < j + 1
        OBVIOUS
      <4> QED BY <2>2, <4>1 DEF Asked
    <3>2. \A i \in DOMAIN queue' : x < queue'[i]
      <4> SUFFICES ASSUME NEW i \in 1 .. Len(queue) - 1 PROVE x < queue'[i]
        BY <2>2
      <4>1. 1 < i + 1
        OBVIOUS
      <4> QED BY <2>2, <4>1 DEF Asked
    <3> QED BY <1>1, <2>4, <3>1, <3>2 DEF Asked
  <2>9. Ordered'
    <3>1. ASSUME NEW j \in DOMAIN results, results[j] # NoJob PROVE Waits(j)'
      BY <1>1, <2>2, <3>1 DEF Ordered, Waits, Due
    <3>2. Works'
      <4>1. /\ \A i \in DOMAIN results : Precedes(results[i], job')
            /\ \A i \in DOMAIN answers : Precedes(answers[i], job')
        BY <2>3, <2>4, <2>5 DEF Precedes, Query
      <4>2. Due(Len(results), x) = {}
        <5>1. \A i \in 1 .. Len(results) : results[i].query # x
          BY <2>3, <2>5, Elements DEF Query
        <5>2. \A i \in 1 .. Len(answers) : answers[i].query # x
          BY <2>3, <2>5, Elements DEF Query
        <5> QED BY <5>1, <5>2 DEF Due, Parts
      <4> QED BY <1>1, <2>4, <4>1, <4>2 DEF Works, Due
    <3>3. \A i \in DOMAIN answers, k \in DOMAIN queue' : answers[i].query < queue'[k]
      BY <2>2 DEF Ordered
    <3> QED BY <1>1, <3>1, <3>2, <3>3 DEF Ordered, AnswersInOrder
  <2>10. Numbered'
    BY <1>1 DEF Numbered, NumbersAreUnique, Open
  <2> QED BY <2>6, <2>7, <2>8, <2>9, <2>10
<1> QED BY <1>2, <1>3

\* SQL_PushResult and the error of the worker: what is behind the results.
LEMMA PushedFacts ==
    ASSUME Types, NEW x \in Result \union {NoJob}
    PROVE  /\ Append(results, x) \in Seq(Result \union {NoJob})
           /\ Len(Append(results, x)) = Len(results) + 1
           /\ DOMAIN Append(results, x) = 1 .. Len(results) + 1
           /\ Append(results, x)[Len(results) + 1] = x
           /\ \A i \in 1 .. Len(results) : Append(results, x)[i] = results[i]
           /\ \A q : /\ Parts(Append(results, x), Len(results) + 1, q)
                          = Parts(results, Len(results), q) \union
                               (IF x.query = q THEN {x.part} ELSE {})
                     /\ \A n \in 0 .. Len(results) :
                           Parts(Append(results, x), n, q) = Parts(results, n, q)
<1> DEFINE S == Result \union {NoJob}
<1>1. results \in Seq(S) /\ x \in S
  BY DEF Types
<1> HIDE DEF S
<1>2. /\ Append(results, x) \in Seq(S)
      /\ Len(Append(results, x)) = Len(results) + 1
      /\ DOMAIN Append(results, x) = 1 .. Len(results) + 1
      /\ Append(results, x)[Len(results) + 1] = x
      /\ \A i \in 1 .. Len(results) : Append(results, x)[i] = results[i]
  BY <1>1, AppendProperties, LenProperties
<1> QED BY <1>1, <1>2, PartsAppend DEF S

\* sql_serverworker puts a result into the queue.
LEMMA WAnswerStep == IInv /\ WAnswer => IInv'
<1> SUFFICES ASSUME IInv, WAnswer PROVE IInv'
  OBVIOUS
<1> USE DEF IInv
<1>1. PICK eof \in BOOLEAN :
        /\ results' = Append(results, [query |-> job.query, part |-> job.parts + 1, eof |-> eof])
        /\ worker' = IF eof THEN "next" ELSE "run"
        /\ job' = IF eof THEN NoJob ELSE [job EXCEPT !.parts = @ + 1]
  BY DEF WAnswer, Pushed
<1>2. /\ worker = "run" /\ job # NoJob
      /\ UNCHANGED <<active, queue, state, num, persistant, querynum, answers>>
  BY DEF WAnswer, mainOnly, Places
<1> DEFINE r == [query |-> job.query, part |-> job.parts + 1, eof |-> eof]
           n == Len(results)
<1>3. /\ job \in [query : Query, parts : Nat] /\ job.query \in Query /\ job.parts \in Nat
      /\ r \in Result /\ r.query = job.query /\ r.part = job.parts + 1 /\ r.eof = eof
      /\ n \in Nat /\ DOMAIN results = 1 .. n
  BY <1>2, Elements DEF Types, Result
<1>4. job' # NoJob => /\ ~eof /\ job' \in [query : Query, parts : Nat]
                      /\ job'.query = job.query /\ job'.parts = job.parts + 1
  BY <1>1, <1>3
<1>5. eof <=> job' = NoJob
  BY <1>1, <1>3, Bounds DEF NoJob, Query, Bounded
<1>6. results' = Append(results, r)
  BY <1>1
<1> HIDE DEF r
<1>7. /\ results' \in Seq(Result \union {NoJob})
      /\ DOMAIN results' = 1 .. n + 1 /\ Len(results') = n + 1
      /\ results'[n + 1] = r
      /\ \A i \in 1 .. n : results'[i] = results[i]
  BY <1>3, <1>6, PushedFacts
<1>8. \A q : /\ Parts(results', n + 1, q) = Parts(results, n, q) \union
                    (IF r.query = q THEN {r.part} ELSE {})
             /\ \A m \in 0 .. n : Parts(results', m, q) = Parts(results, m, q)
  BY <1>3, <1>6, PushedFacts
<1> HIDE DEF n
<1>9. Types'
  BY <1>2, <1>4, <1>7 DEF Types
<1>10. Places'
  <2>1. \A i \in DOMAIN results' : results'[i] # NoJob
    <3>1. r # NoJob
      BY <1>3, Bounds DEF NoJob, Query, Bounded
    <3>2. \A i \in 1 .. n : results[i] # NoJob
      BY <1>2, <1>3 DEF Places
    <3>3. \A i \in 1 .. n + 1 : i \in 1 .. n \/ i = n + 1
      BY <1>3
    <3> QED BY <1>7, <3>1, <3>2, <3>3
  <2> QED BY <1>1, <1>5, <2>1 DEF Places
<1>11. Lives'
  <2>1. Live(job.query) /\ \A i \in 1 .. n : results[i] # NoJob => Live(results[i].query)
    BY <1>2, <1>3 DEF Lives
  <2>2. \A i \in DOMAIN results' : results'[i] # NoJob => state[results'[i].query] \in {"PENDING", "PARTIAL", "ABORTED"}
    <3>1. \A i \in 1 .. n + 1 : i \in 1 .. n \/ i = n + 1
      BY <1>3
    <3> QED BY <1>3, <1>7, <2>1, <3>1 DEF Live
  <2>3. \A i \in DOMAIN queue : state[queue[i]] \in {"PENDING", "PARTIAL", "ABORTED"}
    BY DEF Lives, Live
  <2> QED BY <1>2, <1>4, <2>1, <2>2, <2>3 DEF Lives, Live
<1>12. Asked'
  BY <1>2, <1>4 DEF Asked
<1>13. Works
  BY <1>2 DEF Ordered
<1>14. Ordered'
  <2>1. ASSUME NEW j \in DOMAIN results', results'[j] # NoJob PROVE Waits(j)'
    <3>1. CASE j \in 1 .. n
      <4>1. Waits(j) /\ results'[j] = results[j] /\ j - 1 \in 0 .. n
        BY <1>3, <1>7, <2>1, <3>1 DEF Ordered
      <4>2. \A i \in 1 .. j - 1 : results'[i] = results[i]
        BY <1>3, <1>7, <3>1
      <4>3. Parts(results', j - 1, results[j].query) = Parts(results, j - 1, results[j].query)
        BY <1>8, <4>1
      <4> QED BY <1>2, <4>1, <4>2, <4>3 DEF Waits, Due
    <3>2. CASE j = n + 1
      <4>1. results'[j] = r /\ j - 1 = n /\ n \in 0 .. n /\ r.part - 1 = job.parts
        BY <1>3, <1>7, <3>2
      <4>2. Parts(results', n, job.query) = Parts(results, n, job.query)
        BY <1>8, <4>1
      <4>3. /\ \A i \in DOMAIN answers : Precedes(answers[i], r)
            /\ \A i \in 1 .. j - 1 : Precedes(results'[i], r)
        BY <1>3, <1>7, <1>13, <4>1 DEF Works, Precedes
      <4>4. \A k \in DOMAIN queue : r.query < queue[k]
        BY <1>2, <1>3 DEF Asked
      <4> QED BY <1>2, <1>3, <1>13, <4>1, <4>2, <4>3, <4>4 DEF Waits, Works, Due, n
    <3> QED BY <1>3, <1>7, <3>1, <3>2
  <2>2. ASSUME job' # NoJob PROVE Works'
    <3>1. Parts(results', Len(results'), job.query) = Parts(results, n, job.query) \union {job.parts + 1}
      BY <1>3, <1>7, <1>8
    <3>2. state[job.query] # "ABORTED" =>
            Parts(answers, Len(answers), job.query) \union Parts(results', Len(results'), job.query)
              = 1 .. job.parts + 1
      <4>1. (1 .. job.parts) \union {job.parts + 1} = 1 .. job.parts + 1
        BY <1>3
      <4> QED BY <1>13, <3>1, <4>1 DEF Works, Due, n
    <3>3. \A i \in DOMAIN answers : Precedes(answers[i], job')
      BY <1>4, <1>13, <2>2 DEF Works, Precedes
    <3>4. \A i \in DOMAIN results' : Precedes(results'[i], job')
      <4>1. \A i \in 1 .. n : Precedes(results[i], job')
        BY <1>3, <1>4, <1>13, <2>2 DEF Works, Precedes
      <4>2. Precedes(r, job')
        BY <1>3, <1>4, <2>2 DEF Precedes, Query
      <4>3. \A i \in 1 .. n + 1 : i \in 1 .. n \/ i = n + 1
        BY <1>3
      <4> QED BY <1>7, <4>1, <4>2, <4>3
    <3> QED BY <1>2, <1>4, <2>2, <3>2, <3>3, <3>4 DEF Works, Due
  <2> QED BY <1>2, <2>1, <2>2 DEF Ordered, AnswersInOrder
<1>15. Numbered'
  BY <1>2 DEF Numbered, NumbersAreUnique, Open
<1> QED BY <1>9, <1>10, <1>11, <1>12, <1>14, <1>15

\* sql_serverworker reports that the connection has failed.
LEMMA WReportStep == IInv /\ WReport => IInv'
<1> SUFFICES ASSUME IInv, WReport PROVE IInv'
  OBVIOUS
<1> USE DEF IInv
<1>1. /\ worker = "left" /\ worker' = "dead" /\ job = NoJob
      /\ results' = IF failed THEN Append(results, NoJob) ELSE results
      /\ UNCHANGED <<active, queue, job, state, num, persistant, querynum, answers>>
  BY DEF WReport, Pushed, mainOnly, Places
<1>2. CASE ~failed
  BY <1>1, <1>2, QuietStep DEF Types
<1>3. CASE failed
  <2> DEFINE n == Len(results)
  <2>1. n \in Nat /\ DOMAIN results = 1 .. n /\ NoJob \in Result \union {NoJob}
        /\ results' = Append(results, NoJob)
    BY <1>1, <1>3, Elements
  <2>2. /\ results' \in Seq(Result \union {NoJob})
        /\ DOMAIN results' = 1 .. n + 1 /\ Len(results') = n + 1
        /\ results'[n + 1] = NoJob
        /\ \A i \in 1 .. n : results'[i] = results[i]
        /\ \A q, m : m \in 0 .. n => Parts(results', m, q) = Parts(results, m, q)
    BY <2>1, PushedFacts
  <2> HIDE DEF n
  <2>3. \A i \in DOMAIN results' : i \in 1 .. n \/ (i = n + 1 /\ results'[i] = NoJob)
    BY <2>1, <2>2
  <2>4. Types' /\ Places'
    <3>1. \A i \in DOMAIN results : results[i] # NoJob
      BY <1>1 DEF Places
    <3>2. \A i \in DOMAIN results' : results'[i] = NoJob => i = Len(results')
      BY <2>1, <2>2, <2>3, <3>1
    <3> QED BY <1>1, <2>2, <3>2 DEF Types, Places
  <2>5. Lives' /\ Asked'
    <3>1. \A i \in DOMAIN results' : results'[i] # NoJob => Live(results[i].query) /\ results'[i] = results[i]
      BY <2>1, <2>2, <2>3 DEF Lives
    <3> QED BY <1>1, <3>1 DEF Lives, Live, Asked
  <2>6. Ordered'
    <3>1. ASSUME NEW j \in DOMAIN results', results'[j] # NoJob PROVE Waits(j)'
      <4>1. /\ j \in 1 .. n /\ results'[j] = results[j] /\ j - 1 \in 0 .. n
            /\ \A i \in 1 .. j - 1 : results'[i] = results[i]
        BY <2>1, <2>2, <2>3, <3>1
      <4>2. Waits(j)
        BY <2>1, <3>1, <4>1 DEF Ordered
      <4>3. Parts(results', j - 1, results[j].query) = Parts(results, j - 1, results[j].query)
        BY <2>2, <4>1
      <4> QED BY <1>1, <4>1, <4>2, <4>3 DEF Waits, Due
    <3> QED BY <1>1, <3>1 DEF Ordered, AnswersInOrder
  <2>7. Numbered'
    BY <1>1 DEF Numbered, NumbersAreUnique, Open
  <2> QED BY <2>4, <2>5, <2>6, <2>7
<1> QED BY <1>2, <1>3

-----------------------------------------------------------------------------
(* The invariant, and what it says. *)

\* Every step of the two threads keeps the invariant.
LEMMA NextIInv == IInv /\ [Next]_vars => IInv'
<1> SUFFICES ASSUME IInv, [Next]_vars PROVE IInv'
  OBVIOUS
<1> USE DEF mainOnly
<1>1. active \in BOOLEAN
  BY DEF IInv, Types
<1>2. CASE NewQuery
  BY <1>2, NewQueryStep
<1>3. CASE Disconnect
  BY <1>3, QuietStep DEF Disconnect
<1>4. CASE CloseQuery
  BY <1>4, CloseQueryStep
<1>5. CASE Cleanup
  BY <1>5, QuietStep DEF Cleanup
<1>6. CASE Join
  BY <1>6, JoinStep
<1>7. CASE MainCycle
  <2>1. CASE Cycle
    BY <1>1, <2>1, QuietStep DEF Cycle
  <2>2. CASE CycleServerError
    BY <2>2, CycleServerErrorStep
  <2>3. CASE CycleAborted
    BY <2>3, CycleAbortedStep
  <2>4. CASE CycleAnswer
    BY <2>4, CycleAnswerStep
  <2>5. CASE CycleEmpty
    BY <1>1, <2>5, QuietStep DEF CycleEmpty
  <2>6. CASE CycleEnd
    BY <1>1, <2>6, QuietStep DEF CycleEnd
  <2> QED BY <1>7, <2>1, <2>2, <2>3, <2>4, <2>5, <2>6 DEF MainCycle
<1>8. CASE MainWakes
  <2>1. worker' = "run" <=> worker = "run"
    BY <1>8 DEF MainWakes, Signal, DisconnectWake, CleanupWake, Wake
  <2>2. worker = "dead" => worker' = "dead"
    BY <1>8 DEF MainWakes, Signal, DisconnectWake, CleanupWake, Wake
  <2> QED BY <1>1, <1>8, <2>1, <2>2, QuietStep DEF MainWakes, Signal, DisconnectWake, CleanupWake
<1>9. CASE WorkerStep
  <2>1. CASE WPull
    BY <2>1, WPullStep
  <2>2. CASE WAnswer
    BY <2>2, WAnswerStep
  <2>3. CASE WReport
    BY <2>3, WReportStep
  <2>4. CASE WConnect
    BY <1>1, <2>4, QuietStep DEF WConnect
  <2>5. CASE WLock
    BY <1>1, <2>5, QuietStep DEF WLock
  <2>6. CASE WSleep
    BY <1>1, <2>6, QuietStep DEF WSleep
  <2>7. CASE WWoken
    BY <1>1, <2>7, QuietStep DEF WWoken
  <2>8. CASE WIdle
    BY <1>1, <2>8, QuietStep DEF WIdle
  <2>9. CASE WLeave
    BY <2>9, QuietStep DEF WLeave
  <2> QED BY <1>9, <2>1, <2>2, <2>3, <2>4, <2>5, <2>6, <2>7, <2>8, <2>9 DEF WorkerStep
<1>10. CASE WSpurious
  BY <1>1, <1>10, QuietStep DEF WSpurious
<1>11. CASE Gone \/ UNCHANGED vars
  BY <1>1, <1>11, QuietStep DEF Gone, vars
<1> QED BY <1>2, <1>3, <1>4, <1>5, <1>6, <1>7, <1>8, <1>9, <1>10, <1>11 DEF Next

\* The invariant of the whole pipeline, from the query in the queue to the result
\* in the callback.
THEOREM Invariant == Spec => []IInv
BY InitIInv, NextIInv, PTL DEF Spec

\* Whatever SQL_PullRequest, the worker or SQL_PullResult can still reach has not
\* been freed by SQL_CloseRequest, however QuakeC closes its queries.
THEOREM NothingFreedTooEarly == Spec => []ReachableIsAllocated
<1>1. IInv => ReachableIsAllocated
  <2> SUFFICES ASSUME IInv PROVE ReachableIsAllocated
    OBVIOUS
  <2>1. \A q \in Query : Live(q) => q \in Open
    BY DEF Live, Open
  <2> QED BY <2>1, Elements DEF IInv, Lives, ReachableIsAllocated
<1> QED BY <1>1, Invariant, PTL

\* The callbacks are given the results of every query in order, complete from the
\* first one on, and the queries in the order they were asked.
THEOREM AnswersComeInOrder == Spec => []AnswersInOrder
<1>1. IInv => AnswersInOrder
  BY DEF IInv, Ordered
<1> QED BY <1>1, Invariant, PTL

\* SQL_NewQuery gives no query the number of an open one, also after the numbers
\* have wrapped: there are always more numbers than open queries.
THEOREM NumbersStayUnique == Spec => []NumbersAreUnique
<1>1. IInv => NumbersAreUnique
  BY DEF IInv, Numbered
<1> QED BY <1>1, Invariant, PTL

\* Sys_Error("SQL: Results after finished!\n") in SQL_ServerCycle is never reached:
\* a query is finished only by its last result.
NoLateResult == main # "error"

\* With the first result of a query in results, the query is live (Lives), and so
\* not finished.
THEOREM NeverAfterFinished == Spec => []NoLateResult
<1>1. Init => NoLateResult
  BY DEF Init, NoLateResult
<1>2. IInv /\ NoLateResult /\ [Next]_vars => NoLateResult'
  <2> USE DEF NoLateResult
  <2> SUFFICES ASSUME IInv, main # "error", [Next]_vars PROVE main' # "error"
    OBVIOUS
  <2>1. CASE CycleAnswer
    BY <2>1, CycleAnswerStep
  <2>2. CASE ~CycleAnswer
    BY <2>2 DEF Next, vars, NewQuery, Disconnect, CloseQuery, Cleanup, Join, MainCycle, Cycle,
       CycleServerError, CycleAborted, CycleEmpty, CycleEnd, MainWakes, Signal, DisconnectWake,
       CleanupWake, WorkerStep, WConnect, WLock, WSleep, WWoken, WPull, WIdle, WAnswer, WLeave,
       WReport, WSpurious, Gone
  <2> QED BY <2>1, <2>2
<1> QED BY <1>1, <1>2, Invariant, PTL DEF Spec
=============================================================================
