--------------------------- MODULE WorkerPoolProofs ---------------------------
(***************************************************************************)
(* What WorkerPool keeps for every number of workers, every set of jobs    *)
(* and everything the main thread may call: no job is lost from sight or   *)
(* begun twice, a full sync leaves nothing but what the loaders gave one   *)
(* another, and who was told to stop is joined.                            *)
(*                                                                         *)
(* The invariant has five parts.  JobsInv is about the lists and stacks: a *)
(* job is in one place, and what it adds is nowhere before it has run.     *)
(* PlacesOK and Counted are about who is on the rolls and how many are     *)
(* live; Stopping about who was told to stop; Flushed says that work is    *)
(* never left to loaders that are gone; and Synced is about the answers    *)
(* COM_WorkerFullSync has had.                                             *)
(***************************************************************************)
EXTENDS WorkerPool, SequenceTheorems, FiniteSetTheorems, TLAPS

Lists == {"main", "loader"}
Threads == Workers \cup {Main}
-----------------------------------------------------------------------------
(* The jobs.  W, S and R are work, stack and ran. *)

IsJob(item, j) == item.kind = "job" /\ item.of = j

Queued(W, j) == \E g \in Lists : \E i \in 1..Len(W[g]) : IsJob(W[g][i], j)

\* Each list holds what its threads may run, and the workers run the loaders' jobs.
Sorted(W, S) ==
    /\ \A i \in 1..Len(W["loader"]) :
          W["loader"][i].kind = "job" /\ W["loader"][i].of \in LoaderJobs
    /\ \A i \in 1..Len(W["main"]) :
          W["main"][i].kind = "job" => W["main"][i].of \in MainJobs
    /\ \A w \in Workers : \A i \in 1..Len(S[w]) :
          S[w][i].kind = "job" /\ S[w][i].of \in LoaderJobs
    /\ \A t \in Threads : \A i \in 1..Len(S[t]) : S[t][i].kind = "job" => S[t][i].of \in Jobs

\* A job is queued once, and then not begun.
QueuedOnce(W, R) ==
    \A g \in Lists : \A i, k \in 1..Len(W[g]) : \A j \in Jobs :
        IsJob(W[g][i], j) => R[j] = 0 /\ (IsJob(W[g][k], j) => i = k)

\* A job is begun once.
BegunOnce(S, R) ==
    \A t, u \in Threads : \A i \in 1..Len(S[t]), k \in 1..Len(S[u]) : \A j \in Jobs :
        IsJob(S[t][i], j) => R[j] = 1 /\ (IsJob(S[u][k], j) => t = u /\ i = k)

\* nobody has added j
New(W, R, j) == R[j] = 0 /\ ~Queued(W, j)

\* k has still to add what it adds
Owes(S, R, k) ==
    \/ R[k] = 0
    \/ \E t \in Threads : \E i \in 1..Len(S[t]) : IsJob(S[t][i], k) /\ ~S[t][i].posted

\* What a job adds is new until it does.
Unborn(W, S, R) ==
    \A k \in Jobs : Owes(S, R, k) /\ Posts[k] # 0 => New(W, R, Posts[k])

JobTypes(W, S, R) ==
    /\ W \in [Lists -> Seq(Items)]
    /\ S \in [Threads -> Seq(Items)]
    /\ R \in [Jobs -> 0..1]

JobsInv(W, S, R) ==
    /\ JobTypes(W, S, R)
    /\ Sorted(W, S)
    /\ QueuedOnce(W, R)
    /\ BegunOnce(S, R)
    /\ Unborn(W, S, R)

\* j may be added: it is new, and nobody else will add it
Due(W, S, R, j) ==
    New(W, R, j) /\ \A k \in Jobs : Owes(S, R, k) => Posts[k] # j

-----------------------------------------------------------------------------
(* Sequences: L is l with x put in at some place. *)

Inserted(L, l, x) ==
    /\ L \in Seq(Items) /\ l \in Seq(Items) /\ x \in Items
    /\ Len(l) \in Nat /\ Len(L) = Len(l) + 1
    /\ \E p \in 1..Len(L) :
          /\ L[p] = x
          /\ \A i \in 1..Len(L) \ {p} : L[i] = l[IF i < p THEN i ELSE i - 1]

\* What is in L is x or in l, at a place of its own; what is in l is in L.
Placed(L, l, x) ==
    \E p \in 1..Len(L), f \in [1..Len(L) -> Nat] :
       /\ L[p] = x
       /\ \A i \in 1..Len(L) : i # p => f[i] \in 1..Len(l) /\ L[i] = l[f[i]]
       /\ \A i, k \in 1..Len(L) : i # p /\ k # p /\ f[i] = f[k] => i = k
       /\ \A i \in 1..Len(l) : \E k \in 1..Len(L) : k # p /\ f[k] = i

LEMMA InsertedPlaces ==
    ASSUME NEW L, NEW l, NEW x, Inserted(L, l, x)
    PROVE  Placed(L, l, x)
<1>1. PICK p \in 1..Len(L) :
          /\ L[p] = x
          /\ \A i \in 1..Len(L) \ {p} : L[i] = l[IF i < p THEN i ELSE i - 1]
  BY DEF Inserted
<1>2. Len(l) \in Nat /\ Len(L) = Len(l) + 1
  BY DEF Inserted
<1> DEFINE f == [i \in 1..Len(L) |-> IF i < p THEN i ELSE i - 1]
<1>3. f \in [1..Len(L) -> Nat]
  BY <1>2
<1>4. \A i \in 1..Len(L) : i # p => f[i] \in 1..Len(l) /\ L[i] = l[f[i]]
  BY <1>1, <1>2
<1>5. \A i, k \in 1..Len(L) : i # p /\ k # p /\ f[i] = f[k] => i = k
  BY <1>1, <1>2
<1>6. ASSUME NEW i \in 1..Len(l) PROVE \E k \in 1..Len(L) : k # p /\ f[k] = i
  <2>1. CASE i < p BY <2>1, <1>2
  <2>2. CASE ~(i < p)
    <3>1. i + 1 \in 1..Len(L) /\ i + 1 # p /\ f[i + 1] = i
      BY <2>2, <1>2
    <3> QED BY <3>1
  <2> QED BY <2>1, <2>2
<1> HIDE DEF f
<1> QED BY <1>1, <1>3, <1>4, <1>5, <1>6, ZenonT(60) DEF Placed

\* At the end.
LEMMA Appended ==
    ASSUME NEW s \in Seq(Items), NEW x \in Items
    PROVE  Inserted(Append(s, x), s, x)
<1>1. /\ Append(s, x) \in Seq(Items) /\ Len(Append(s, x)) = Len(s) + 1 /\ Len(s) \in Nat
      /\ \A i \in 1..Len(s) : Append(s, x)[i] = s[i]
      /\ Append(s, x)[Len(s) + 1] = x
  BY AppendProperties, LenProperties
<1>2. Len(s) + 1 \in 1..Len(Append(s, x))
  BY <1>1
<1>3. \A i \in 1..Len(Append(s, x)) \ {Len(s) + 1} :
          Append(s, x)[i] = s[IF i < Len(s) + 1 THEN i ELSE i - 1]
  BY <1>1
<1> QED BY <1>1, <1>2, <1>3 DEF Inserted

LEMMA Added ==
    ASSUME NEW s \in Seq(Items), NEW x \in Items
    PROVE  Inserted(s \o <<x>>, s, x)
<1>1. s \o <<x>> = Append(s, x)
  BY AppendIsConcat
<1> QED BY <1>1, Appended

\* At the head.
LEMMA Prepended ==
    ASSUME NEW s \in Seq(Items), NEW x \in Items
    PROVE  Inserted(<<x>> \o s, s, x)
<1>1. <<x>> \in Seq(Items) /\ Len(<<x>>) = 1 /\ <<x>>[1] = x /\ Len(s) \in Nat
  BY LenProperties
<1>2. <<x>> \o s \in Seq(Items) /\ Len(<<x>> \o s) = 1 + Len(s)
      /\ \A i \in 1..1 + Len(s) : (<<x>> \o s)[i] = IF i <= 1 THEN <<x>>[i] ELSE s[i - 1]
  BY <1>1, ConcatProperties
<1>3. 1 \in 1..Len(<<x>> \o s) /\ (<<x>> \o s)[1] = x /\ Len(<<x>> \o s) = Len(s) + 1
  BY <1>1, <1>2
<1>4. \A i \in 1..Len(<<x>> \o s) \ {1} : (<<x>> \o s)[i] = s[IF i < 1 THEN i ELSE i - 1]
  BY <1>1, <1>2
<1> QED BY <1>1, <1>2, <1>3, <1>4 DEF Inserted

\* The head taken away.
LEMMA Beheaded ==
    ASSUME NEW s \in Seq(Items), s # <<>>
    PROVE  Inserted(s, Tail(s), Head(s)) /\ Head(s) = s[1] /\ 1 \in 1..Len(s)
<1>1. Len(s) \in Nat \ {0}
  BY LenProperties, EmptySeq
<1>2. /\ Tail(s) \in Seq(Items) /\ Len(Tail(s)) = Len(s) - 1
      /\ Head(s) = s[1] /\ s[1] \in Items
      /\ \A i \in 1..Len(s) - 1 : Tail(s)[i] = s[i + 1]
  BY <1>1, HeadTailProperties, ElementOfSeq
<1>3. \A i \in 1..Len(s) \ {1} : s[i] = Tail(s)[IF i < 1 THEN i ELSE i - 1]
  BY <1>1, <1>2
<1>4. 1 \in 1..Len(s) /\ Len(Tail(s)) \in Nat /\ Len(s) = Len(Tail(s)) + 1
  BY <1>1, <1>2
<1> QED BY <1>2, <1>3, <1>4 DEF Inserted

\* The last taken away.
LEMMA Curtailed ==
    ASSUME NEW s \in Seq(Items), s # <<>>
    PROVE  /\ SubSeq(s, 1, Len(s) - 1) \in Seq(Items)
           /\ Len(s) \in Nat \ {0} /\ Len(SubSeq(s, 1, Len(s) - 1)) = Len(s) - 1
           /\ \A i \in 1..Len(s) - 1 : SubSeq(s, 1, Len(s) - 1)[i] = s[i]
<1>1. Len(s) \in Nat \ {0} /\ \A i \in 1..Len(s) : s[i] \in Items
  BY LenProperties, EmptySeq, ElementOfSeq
<1> DEFINE m == Len(s) - 1
<1>2. m \in Int /\ \A i \in 1..m : s[i] \in Items
  BY <1>1
<1> HIDE DEF m
<1>3. /\ SubSeq(s, 1, m) \in Seq(Items)
      /\ Len(SubSeq(s, 1, m)) = IF 1 <= m THEN m - 1 + 1 ELSE 0
      /\ \A i \in 1..m - 1 + 1 : SubSeq(s, 1, m)[i] = s[1 + i - 1]
  BY <1>2, SubSeqProperties
<1>4. m = Len(s) - 1
  BY DEF m
<1> QED BY <1>1, <1>3, <1>4

-----------------------------------------------------------------------------
(* What is done with the jobs, one thing at a time. *)

LEMMA Posting ==
    ASSUME NEW j \in Jobs
    PROVE  /\ Posts[j] \in Jobs \cup {0} /\ 0 \notin Jobs
           /\ \A k \in Jobs : Posts[j] = Posts[k] /\ Posts[j] # 0 => j = k
BY PoolAssumption DEF Jobs

\* Fewer frames, or other kinds of those that are no jobs.
LEMMA Fewer ==
    ASSUME NEW W, NEW S, NEW R, JobsInv(W, S, R),
           NEW T \in [Threads -> Seq(Items)],
           \A t \in Threads :
              /\ Len(T[t]) <= Len(S[t])
              /\ \A i \in 1..Len(T[t]) :
                    \/ T[t][i] = S[t][i]
                    \/ T[t][i].kind # "job" /\ t = Main
    PROVE  JobsInv(W, T, R)
<1>1. ASSUME NEW t \in Threads, NEW i \in 1..Len(T[t])
      PROVE  i \in 1..Len(S[t])
  <2>1. Len(T[t]) \in Nat /\ Len(S[t]) \in Nat
    BY LenProperties DEF JobsInv, JobTypes
  <2> QED BY <2>1
<1>2. ASSUME NEW t \in Threads, NEW i \in 1..Len(T[t]), NEW j, IsJob(T[t][i], j)
      PROVE  T[t][i] = S[t][i] /\ IsJob(S[t][i], j)
  BY <1>2 DEF IsJob
<1>3. JobTypes(W, T, R)
  BY DEF JobsInv, JobTypes
<1>4. Sorted(W, T)
  <2>1. ASSUME NEW w \in Workers, NEW i \in 1..Len(T[w])
        PROVE  T[w][i].kind = "job" /\ T[w][i].of \in LoaderJobs
    <3>1. w \in Threads /\ w # Main
      BY PoolAssumption DEF Threads, Workers, Main
    <3> QED BY <3>1, <1>1 DEF JobsInv, Sorted
  <2>2. ASSUME NEW t \in Threads, NEW i \in 1..Len(T[t]), T[t][i].kind = "job"
        PROVE  T[t][i].of \in Jobs
    BY <2>2, <1>1 DEF JobsInv, Sorted
  <2> QED BY <2>1, <2>2 DEF JobsInv, Sorted
<1>5. BegunOnce(T, R)
  <2>1. ASSUME NEW t \in Threads, NEW u \in Threads,
               NEW i \in 1..Len(T[t]), NEW k \in 1..Len(T[u]), NEW j \in Jobs,
               IsJob(T[t][i], j)
        PROVE  R[j] = 1 /\ (IsJob(T[u][k], j) => t = u /\ i = k)
    <3>1. i \in 1..Len(S[t]) /\ k \in 1..Len(S[u]) /\ IsJob(S[t][i], j)
          /\ (IsJob(T[u][k], j) => IsJob(S[u][k], j))
      BY <2>1, <1>1, <1>2
    <3> QED BY <3>1 DEF JobsInv, BegunOnce
  <2> QED BY <2>1 DEF BegunOnce
<1>6. ASSUME NEW k \in Jobs, Owes(T, R, k) PROVE Owes(S, R, k)
  BY <1>1, <1>2, <1>6 DEF Owes
<1>7. Unborn(W, T, R)
  BY <1>6 DEF JobsInv, Unborn
<1> QED BY <1>3, <1>4, <1>5, <1>7 DEF JobsInv

\* What the innermost job adds may be added, once it is marked.
LEMMA Marked ==
    ASSUME NEW W, NEW S, NEW R, JobsInv(W, S, R),
           NEW t \in Threads, S[t] # <<>>,
           NEW k \in Jobs, IsJob(S[t][Len(S[t])], k), ~S[t][Len(S[t])].posted,
           Posts[k] # 0
    PROVE  LET T == [S EXCEPT ![t] = [S[t] EXCEPT ![Len(S[t])].posted = TRUE]] IN
           JobsInv(W, T, R) /\ Due(W, T, R, Posts[k])
<1> DEFINE n == Len(S[t])
           s == [S[t] EXCEPT ![n].posted = TRUE]
           T == [S EXCEPT ![t] = s]
<1>1. S \in [Threads -> Seq(Items)] /\ S[t] \in Seq(Items)
  BY DEF JobsInv, JobTypes
<1>2. n \in Nat \ {0} /\ n \in 1..n /\ S[t][n] \in Items
  BY <1>1, LenProperties, EmptySeq, ElementOfSeq
<1>3. [S[t][n] EXCEPT !.posted = TRUE] \in Items
  BY <1>2 DEF Items, IsJob
<1>4. /\ s \in Seq(Items) /\ Len(s) = n
      /\ \A i \in 1..n : s[i] = IF i = n THEN [S[t][n] EXCEPT !.posted = TRUE] ELSE S[t][i]
  <2>1. s = [S[t] EXCEPT ![n] = [S[t][n] EXCEPT !.posted = TRUE]]
    OBVIOUS
  <2> QED BY <1>1, <1>2, <1>3, <2>1, ExceptSeq
<1>5. /\ T \in [Threads -> Seq(Items)] /\ T[t] = s
      /\ \A u \in Threads : u # t => T[u] = S[u]
  BY <1>1, <1>4
<1>6. \A u \in Threads : Len(T[u]) = Len(S[u])
  BY <1>4, <1>5
<1>7. \A u \in Threads : \A i \in 1..Len(S[u]) :
          /\ u # t \/ i # n => T[u][i] = S[u][i]
          /\ T[u][i].kind = S[u][i].kind /\ T[u][i].of = S[u][i].of
  <2>1. S[t][n] \in [kind : {"job"}, of : Jobs, posted : BOOLEAN]
    BY <1>2 DEF Items, IsJob
  <2> QED BY <2>1, <1>4, <1>5
<1>8. T[t][n].posted = TRUE
  <2>1. S[t][n] \in [kind : {"job"}, of : Jobs, posted : BOOLEAN]
    BY <1>2 DEF Items, IsJob
  <2> QED BY <2>1, <1>4, <1>5, <1>2
<1> HIDE DEF T, s
<1>9. \A u \in Threads : \A i \in 1..Len(S[u]) : \A j : IsJob(T[u][i], j) <=> IsJob(S[u][i], j)
  BY <1>7 DEF IsJob
<1>10. \A j \in Jobs : Owes(T, R, j) => Owes(S, R, j)
  BY <1>6, <1>7, <1>8, <1>9, <1>2 DEF Owes
<1>11. JobsInv(W, T, R)
  <2>1. JobTypes(W, T, R)
    BY <1>5 DEF JobsInv, JobTypes
  <2>2. Sorted(W, T)
    <3>1. Workers \subseteq Threads
      BY DEF Threads
    <3>2. \A w \in Workers : \A i \in 1..Len(T[w]) :
             T[w][i].kind = "job" /\ T[w][i].of \in LoaderJobs
      BY <1>6, <1>7, <3>1, SMTT(40) DEF JobsInv, Sorted
    <3>3. \A u \in Threads : \A i \in 1..Len(T[u]) :
             T[u][i].kind = "job" => T[u][i].of \in Jobs
      BY <1>6, <1>7 DEF JobsInv, Sorted
    <3> QED BY <3>2, <3>3 DEF JobsInv, Sorted
  <2>3. BegunOnce(T, R)
    <3>1. ASSUME NEW v \in Threads, NEW u \in Threads,
                 NEW i \in 1..Len(T[v]), NEW l \in 1..Len(T[u]), NEW j \in Jobs,
                 IsJob(T[v][i], j)
          PROVE  R[j] = 1 /\ (IsJob(T[u][l], j) => v = u /\ i = l)
      <4>1. i \in 1..Len(S[v]) /\ l \in 1..Len(S[u]) /\ IsJob(S[v][i], j)
            /\ (IsJob(T[u][l], j) => IsJob(S[u][l], j))
        BY <3>1, <1>6, <1>9
      <4> QED BY <4>1 DEF JobsInv, BegunOnce
    <3> QED BY <3>1 DEF BegunOnce
  <2>4. Unborn(W, T, R)
    BY <1>10 DEF JobsInv, Unborn
  <2> QED BY <2>1, <2>2, <2>3, <2>4 DEF JobsInv
<1>12. Owes(S, R, k)
  BY <1>2 DEF Owes
<1>13. New(W, R, Posts[k])
  BY <1>12 DEF JobsInv, Unborn
<1>14. ASSUME NEW j \in Jobs, Owes(T, R, j), Posts[j] = Posts[k] PROVE FALSE
  <2>1. j = k
    BY <1>14, Posting
  <2>2. R[k] = 1
    BY <1>2 DEF JobsInv, BegunOnce
  <2>3. PICK u \in Threads : \E i \in 1..Len(T[u]) : IsJob(T[u][i], k) /\ ~T[u][i].posted
    BY <1>14, <2>1, <2>2 DEF Owes
  <2>4. PICK i \in 1..Len(S[u]) : IsJob(S[u][i], k) /\ ~T[u][i].posted
    BY <2>3, <1>6, <1>9
  <2>5. u = t /\ i = n
    BY <2>4, <1>2 DEF JobsInv, BegunOnce
  <2> QED BY <2>4, <2>5, <1>8
<1>15. Due(W, T, R, Posts[k])
  BY <1>13, <1>14 DEF Due
<1> QED BY <1>11, <1>15 DEF T, s

\* One more in a list: a job that may be added, or something else on the main list.
LEMMA Enqueued ==
    ASSUME NEW W, NEW S, NEW R, JobsInv(W, S, R),
           NEW g \in Lists, NEW L, NEW x, Inserted(L, W[g], x),
           g = "loader" => x.kind = "job" /\ x.of \in LoaderJobs,
           x.kind = "job" => Due(W, S, R, x.of) /\ (g = "main" => x.of \in MainJobs)
    PROVE  JobsInv([W EXCEPT ![g] = L], S, R)
<1> DEFINE V == [W EXCEPT ![g] = L]
<1>1. /\ W \in [Lists -> Seq(Items)] /\ L \in Seq(Items)
      /\ V \in [Lists -> Seq(Items)] /\ V[g] = L
      /\ \A h \in Lists : h # g => V[h] = W[h]
  BY DEF JobsInv, JobTypes, Inserted
<1> HIDE DEF V
<1>0. Placed(L, W[g], x)
  BY InsertedPlaces
<1>2. PICK p \in 1..Len(L), f \in [1..Len(L) -> Nat] :
              /\ L[p] = x
              /\ \A i \in 1..Len(L) : i # p => f[i] \in 1..Len(W[g]) /\ L[i] = W[g][f[i]]
              /\ \A i, k \in 1..Len(L) : i # p /\ k # p /\ f[i] = f[k] => i = k
              /\ \A i \in 1..Len(W[g]) : \E k \in 1..Len(L) : k # p /\ f[k] = i
  BY <1>0 DEF Placed
<1>3. Sorted(V, S)
  <2>1. "main" \in Lists /\ "loader" \in Lists
    BY DEF Lists
  <2>2. \A i \in 1..Len(V["loader"]) :
          V["loader"][i].kind = "job" /\ V["loader"][i].of \in LoaderJobs
    <3>1. CASE g = "loader" BY <3>1, <1>1, <1>2 DEF JobsInv, Sorted
    <3>2. CASE g # "loader" BY <3>2, <2>1, <1>1 DEF JobsInv, Sorted
    <3> QED BY <3>1, <3>2
  <2>3. \A i \in 1..Len(V["main"]) :
          V["main"][i].kind = "job" => V["main"][i].of \in MainJobs
    <3>1. CASE g = "main"
      <4>1. ASSUME NEW i \in 1..Len(L), L[i].kind = "job" PROVE L[i].of \in MainJobs
        <5>1. CASE i = p BY <5>1, <4>1, <3>1, <1>2
        <5>2. CASE i # p
          <6>1. f[i] \in 1..Len(W[g]) /\ L[i] = W[g][f[i]]
            BY <5>2, <1>2
          <6> QED BY <6>1, <4>1, <3>1 DEF JobsInv, Sorted
        <5> QED BY <5>1, <5>2
      <4> QED BY <4>1, <3>1, <1>1
    <3>2. CASE g # "main" BY <3>2, <2>1, <1>1 DEF JobsInv, Sorted
    <3> QED BY <3>1, <3>2
  <2> QED BY <2>2, <2>3 DEF JobsInv, Sorted
<1>4. ASSUME NEW j \in Jobs, Queued(V, j), ~Queued(W, j)
      PROVE  x.kind = "job" /\ x.of = j
  <2>1. PICK h \in Lists : \E i \in 1..Len(V[h]) : IsJob(V[h][i], j)
    BY <1>4 DEF Queued
  <2>2. h = g
    BY <2>1, <1>1, <1>4 DEF Queued
  <2>3. PICK i \in 1..Len(L) : IsJob(L[i], j)
    BY <2>1, <2>2, <1>1
  <2>4. i = p
    BY <2>3, <1>2, <1>4, SMTT(40) DEF Queued
  <2> QED BY <2>3, <2>4, <1>2 DEF IsJob
<1>5. QueuedOnce(V, R)
  <2>1. ASSUME NEW h \in Lists, NEW i \in 1..Len(V[h]), NEW k \in 1..Len(V[h]),
               NEW j \in Jobs, IsJob(V[h][i], j)
        PROVE  R[j] = 0 /\ (IsJob(V[h][k], j) => i = k)
    <3>1. CASE h # g
      BY <3>1, <2>1, <1>1 DEF JobsInv, QueuedOnce
    <3>2. CASE h = g /\ i = p
      <4>1. IsJob(x, j) /\ New(W, R, j)
        BY <3>2, <2>1, <1>1, <1>2 DEF IsJob, Due
      <4>2. k # p => ~IsJob(V[h][k], j)
        BY <4>1, <3>2, <1>1, <1>2 DEF New, Queued
      <4> QED BY <4>1, <4>2, <3>2 DEF New
    <3>3. CASE h = g /\ i # p /\ k = p
      <4>9. f[i] \in 1..Len(W[g]) /\ IsJob(W[g][f[i]], j)
        BY <3>3, <2>1, <1>1, <1>2
      <4>1. Queued(W, j) /\ R[j] = 0
        BY <4>9 DEF Queued, JobsInv, QueuedOnce
      <4>2. ~IsJob(x, j)
        BY <4>1 DEF IsJob, Due, New
      <4> QED BY <4>1, <4>2, <3>3, <1>1, <1>2
    <3>4. CASE h = g /\ i # p /\ k # p
      <4>1. f[i] \in 1..Len(W[g]) /\ f[k] \in 1..Len(W[g])
            /\ V[h][i] = W[g][f[i]] /\ V[h][k] = W[g][f[k]]
            /\ (f[i] = f[k] => i = k)
        BY <3>4, <1>1, <1>2
      <4> QED BY <4>1, <2>1, ZenonT(60) DEF JobsInv, QueuedOnce
    <3> QED BY <3>1, <3>2, <3>3, <3>4
  <2> QED BY <2>1 DEF QueuedOnce
<1>6. Unborn(V, S, R)
  <2>1. ASSUME NEW k \in Jobs, Owes(S, R, k), Posts[k] # 0
        PROVE  New(V, R, Posts[k])
    <3>1. New(W, R, Posts[k]) /\ Posts[k] \in Jobs
      BY <2>1, Posting DEF JobsInv, Unborn
    <3>2. ~(x.kind = "job" /\ x.of = Posts[k])
      BY <2>1 DEF Due
    <3> QED BY <3>1, <3>2, <1>4 DEF New
  <2> QED BY <2>1 DEF Unborn
<1>7. JobsInv(V, S, R)
  BY <1>1, <1>3, <1>5, <1>6 DEF JobsInv, JobTypes
<1> QED BY <1>7 DEF V

\* The head of a list taken away: nobody else adds it or has it.
LEMMA Dequeued ==
    ASSUME NEW W, NEW S, NEW R, JobsInv(W, S, R),
           NEW g \in Lists, W[g] # <<>>
    PROVE  LET V == [W EXCEPT ![g] = Tail(W[g])]
               x == Head(W[g]) IN
           /\ JobsInv(V, S, R) /\ x \in Items
           /\ x.kind = "job" => /\ x.of \in Jobs /\ Due(V, S, R, x.of)
                                /\ g = "loader" => x.of \in LoaderJobs
           /\ g = "loader" => x.kind = "job"
<1> DEFINE l == Tail(W[g])
           x == Head(W[g])
           V == [W EXCEPT ![g] = l]
<1>1. W \in [Lists -> Seq(Items)] /\ W[g] \in Seq(Items)
  BY DEF JobsInv, JobTypes
<1>2. Inserted(W[g], l, x) /\ x = W[g][1] /\ 1 \in 1..Len(W[g])
  BY <1>1, Beheaded
<1>3. /\ x \in Items /\ l \in Seq(Items) /\ Len(l) \in Nat /\ Len(W[g]) = Len(l) + 1
      /\ \A i \in 1..Len(l) : l[i] = W[g][i + 1] /\ i + 1 \in 1..Len(W[g])
  <2>1. \A i \in 1..Len(W[g]) - 1 : l[i] = W[g][i + 1]
    BY <1>1, HeadTailProperties
  <2> QED BY <1>2, <2>1 DEF Inserted
<1>4. V \in [Lists -> Seq(Items)] /\ V[g] = l /\ \A h \in Lists : h # g => V[h] = W[h]
  BY <1>1, <1>3
<1> HIDE DEF V, l, x
<1>5. "main" \in Lists /\ "loader" \in Lists
  BY DEF Lists
<1>6. Sorted(V, S)
  <2>1. \A i \in 1..Len(V["loader"]) :
          V["loader"][i].kind = "job" /\ V["loader"][i].of \in LoaderJobs
    <3>1. CASE g = "loader" BY <3>1, <1>3, <1>4, SMTT(40) DEF JobsInv, Sorted
    <3>2. CASE g # "loader" BY <3>2, <1>5, <1>4 DEF JobsInv, Sorted
    <3> QED BY <3>1, <3>2
  <2>2. \A i \in 1..Len(V["main"]) :
          V["main"][i].kind = "job" => V["main"][i].of \in MainJobs
    <3>1. CASE g = "main" BY <3>1, <1>3, <1>4 DEF JobsInv, Sorted
    <3>2. CASE g # "main" BY <3>2, <1>5, <1>4 DEF JobsInv, Sorted
    <3> QED BY <3>1, <3>2
  <2> QED BY <2>1, <2>2 DEF JobsInv, Sorted
<1>7. QueuedOnce(V, R)
  <2>1. ASSUME NEW h \in Lists, NEW i \in 1..Len(V[h]), NEW k \in 1..Len(V[h]),
               NEW j \in Jobs, IsJob(V[h][i], j)
        PROVE  R[j] = 0 /\ (IsJob(V[h][k], j) => i = k)
    <3>1. CASE h # g
      BY <3>1, <2>1, <1>4 DEF JobsInv, QueuedOnce
    <3>2. CASE h = g
      <4>1. /\ i + 1 \in 1..Len(W[g]) /\ k + 1 \in 1..Len(W[g])
            /\ V[h][i] = W[g][i + 1] /\ V[h][k] = W[g][k + 1]
            /\ (i + 1 = k + 1 => i = k)
        BY <3>2, <1>3, <1>4
      <4> QED BY <4>1, <2>1 DEF JobsInv, QueuedOnce
    <3> QED BY <3>1, <3>2
  <2> QED BY <2>1 DEF QueuedOnce
<1>8. ASSUME NEW j, Queued(V, j) PROVE Queued(W, j)
  <2>1. PICK h \in Lists : \E i \in 1..Len(V[h]) : IsJob(V[h][i], j)
    BY <1>8 DEF Queued
  <2>2. CASE h # g BY <2>1, <2>2, <1>4 DEF Queued
  <2>3. CASE h = g BY <2>1, <2>3, <1>4, <1>3 DEF Queued
  <2> QED BY <2>2, <2>3
<1>9. JobsInv(V, S, R)
  BY <1>4, <1>6, <1>7, <1>8 DEF JobsInv, JobTypes, Unborn, New
<1>10. ASSUME x.kind = "job"
       PROVE  x.of \in Jobs /\ (g = "loader" => x.of \in LoaderJobs) /\ (g = "main" => x.of \in MainJobs)
  <2>1. CASE g = "loader" BY <2>1, <1>2 DEF JobsInv, Sorted, Jobs
  <2>2. CASE g = "main" BY <2>2, <1>2, <1>10 DEF JobsInv, Sorted, Jobs
  <2> QED BY <2>1, <2>2 DEF Lists
<1>11. ASSUME x.kind = "job" PROVE Due(V, S, R, x.of)
  <2>1. IsJob(W[g][1], x.of) /\ x.of \in Jobs
    BY <1>2, <1>10, <1>11 DEF IsJob
  <2>2. R[x.of] = 0 /\ Queued(W, x.of)
    BY <2>1, <1>2 DEF JobsInv, QueuedOnce, Queued
  <2>3. ~Queued(V, x.of)
    <3> SUFFICES ASSUME NEW h \in Lists, NEW i \in 1..Len(V[h]), IsJob(V[h][i], x.of)
                 PROVE  FALSE
      BY DEF Queued
    <3>1. CASE h = g
      <4>1. i + 1 \in 1..Len(W[g]) /\ IsJob(W[g][i + 1], x.of) /\ i + 1 # 1
        BY <3>1, <1>3, <1>4
      <4> QED BY <4>1, <2>1, <1>2 DEF JobsInv, QueuedOnce
    <3>2. CASE h # g
      <4>1. V[h] = W[h] /\ i \in 1..Len(W[h])
        BY <3>2, <1>4
      <4>2. x.of \in LoaderJobs /\ x.of \in MainJobs
        <5>1. CASE g = "loader" /\ h = "main"
          BY <5>1, <4>1, <1>10, <1>11 DEF JobsInv, Sorted, IsJob
        <5>2. CASE g = "main" /\ h = "loader"
          BY <5>2, <4>1, <1>10, <1>11 DEF JobsInv, Sorted, IsJob
        <5> QED BY <5>1, <5>2, <3>2 DEF Lists
      <4> QED BY <4>2, PoolAssumption
    <3> QED BY <3>1, <3>2
  <2>4. \A k \in Jobs : Owes(S, R, k) => Posts[k] # x.of
    BY <2>1, <2>2, Posting DEF JobsInv, Unborn, New
  <2> QED BY <2>2, <2>3, <2>4 DEF Due, New
<1>12. g = "loader" => x.kind = "job"
  BY <1>2 DEF JobsInv, Sorted
<1> QED BY <1>3, <1>9, <1>10, <1>11, <1>12 DEF V, l, x

\* A frame more: a job that may be added, and is thereby begun.
LEMMA Beginning ==
    ASSUME NEW W, NEW S, NEW R, JobsInv(W, S, R),
           NEW t \in Threads, NEW j \in Jobs, Due(W, S, R, j),
           t \in Workers => j \in LoaderJobs,
           NEW x \in Items, IsJob(x, j)
    PROVE  JobsInv(W, [S EXCEPT ![t] = S[t] \o <<x>>], [R EXCEPT ![j] = R[j] + 1])
<1> DEFINE L == S[t] \o <<x>>
<1>2. Inserted(L, S[t], x)
  <2>1. S \in [Threads -> Seq(Items)]
    BY DEF JobsInv, JobTypes
  <2> QED BY <2>1, Added
<1> HIDE DEF L
<1> DEFINE l == S[t]
<1>16. Placed(L, l, x)
  BY <1>2, InsertedPlaces
<1> HIDE DEF l
<1>3. PICK p \in 1..Len(L), f \in [1..Len(L) -> Nat] :
              /\ L[p] = x
              /\ \A i \in 1..Len(L) : i # p => f[i] \in 1..Len(l) /\ L[i] = l[f[i]]
              /\ \A i, k \in 1..Len(L) : i # p /\ k # p /\ f[i] = f[k] => i = k
              /\ \A i \in 1..Len(l) : \E k \in 1..Len(L) : k # p /\ f[k] = i
  BY <1>16 DEF Placed
<1>17. l = S[t]
  BY DEF l
<1> DEFINE T == [S EXCEPT ![t] = L]
           Q == [R EXCEPT ![j] = R[j] + 1]
<1>1. S \in [Threads -> Seq(Items)] /\ R \in [Jobs -> 0..1] /\ R[j] = 0
  BY DEF JobsInv, JobTypes, Due, New
<1>4. /\ T \in [Threads -> Seq(Items)] /\ T[t] = L
      /\ \A u \in Threads : u # t => T[u] = S[u]
  BY <1>1, <1>2 DEF Inserted
<1>5. Q \in [Jobs -> 0..1] /\ Q[j] = 1 /\ \A k \in Jobs : k # j => Q[k] = R[k]
  BY <1>1
<1> HIDE DEF T, Q
\* where a frame of T comes from
<1>6. ASSUME NEW u \in Threads, NEW i \in 1..Len(T[u])
      PROVE  \/ u = t /\ i = p /\ T[u][i] = x
             \/ \E k \in 1..Len(S[u]) : T[u][i] = S[u][k] /\ (u = t => i # p /\ k = f[i])
                                        /\ (u # t => k = i)
  <2>1. CASE u # t BY <2>1, <1>4
  <2>2. CASE u = t /\ i = p BY <2>2, <1>3, <1>4
  <2>3. CASE u = t /\ i # p
    <3>1. i \in 1..Len(L) /\ f[i] \in 1..Len(S[u]) /\ T[u][i] = S[u][f[i]]
      BY <2>3, <1>3, <1>4, <1>17
    <3> QED BY <3>1, <2>3
  <2> QED BY <2>1, <2>2, <2>3
<1>7. Sorted(W, T)
  <2>1. ASSUME NEW w \in Workers, NEW i \in 1..Len(T[w])
        PROVE  T[w][i].kind = "job" /\ T[w][i].of \in LoaderJobs
    <3>1. w \in Threads BY DEF Threads
    <3> QED BY <3>1, <1>6, SMTT(40) DEF JobsInv, Sorted, IsJob
  <2>2. ASSUME NEW u \in Threads, NEW i \in 1..Len(T[u]), T[u][i].kind = "job"
        PROVE  T[u][i].of \in Jobs
    <3>1. CASE T[u][i] = x BY <3>1 DEF IsJob
    <3>2. CASE \E k \in 1..Len(S[u]) : T[u][i] = S[u][k]
      BY <3>2, <2>2 DEF JobsInv, Sorted
    <3> QED BY <3>1, <3>2, <1>6
  <2> QED BY <2>1, <2>2 DEF JobsInv, Sorted
<1>8. ASSUME NEW k, ~Queued(W, k), NEW g \in Lists, NEW i \in 1..Len(W[g])
      PROVE  ~IsJob(W[g][i], k)
  BY <1>8 DEF Queued
<1>9. QueuedOnce(W, Q)
  <2>1. ASSUME NEW g \in Lists, NEW i \in 1..Len(W[g]), NEW k \in Jobs, IsJob(W[g][i], k)
        PROVE  k # j /\ R[k] = 0
    BY <2>1, <1>8 DEF Due, New, JobsInv, QueuedOnce
  <2>2. ASSUME NEW g \in Lists, NEW i \in 1..Len(W[g]), NEW m \in 1..Len(W[g]), NEW k \in Jobs,
               IsJob(W[g][i], k)
        PROVE  Q[k] = 0 /\ (IsJob(W[g][m], k) => i = m)
    BY <2>1, <2>2, <1>5 DEF JobsInv, QueuedOnce
  <2> QED BY <2>2 DEF QueuedOnce
<1>10. ASSUME NEW u \in Threads, NEW i \in 1..Len(S[u]) PROVE ~IsJob(S[u][i], j)
  BY <1>1 DEF JobsInv, BegunOnce
<1>11. BegunOnce(T, Q)
  <2>1. ASSUME NEW v \in Threads, NEW u \in Threads,
               NEW i \in 1..Len(T[v]), NEW m \in 1..Len(T[u]), NEW k \in Jobs,
               IsJob(T[v][i], k)
        PROVE  Q[k] = 1 /\ (IsJob(T[u][m], k) => v = u /\ i = m)
    <3>1. CASE v = t /\ i = p
      <4>1. T[v][i] = x /\ k = j
        BY <3>1, <2>1, <1>3, <1>4 DEF IsJob
      <4>2. ASSUME IsJob(T[u][m], j), ~(u = t /\ m = p) PROVE FALSE
        <5>1. PICK b \in 1..Len(S[u]) : T[u][m] = S[u][b]
          BY <4>2, <1>6, ZenonT(60)
        <5> QED BY <5>1, <4>2, <1>10
      <4> QED BY <4>1, <4>2, <1>5, <3>1
    <3>2. CASE ~(v = t /\ i = p)
      <4>1. PICK a \in 1..Len(S[v]) : T[v][i] = S[v][a] /\ (v = t => i # p /\ a = f[i])
                                      /\ (v # t => a = i)
        BY <3>2, <1>6
      <4>2. k # j /\ R[k] = 1
        BY <4>1, <2>1, <1>10 DEF JobsInv, BegunOnce
      <4>3. ASSUME IsJob(T[u][m], k) PROVE v = u /\ i = m
        <5>1. ~(u = t /\ m = p)
          BY <4>2, <4>3, <1>3, <1>4 DEF IsJob
        <5>2. PICK b \in 1..Len(S[u]) : T[u][m] = S[u][b] /\ (u = t => m # p /\ b = f[m])
                                        /\ (u # t => b = m)
          BY <5>1, <1>6
        <5>3. v = u /\ a = b
          BY <4>1, <4>3, <5>2, <2>1 DEF JobsInv, BegunOnce
        <5> QED BY <5>3, <5>2, <4>1, <1>3, <1>4
      <4> QED BY <4>2, <4>3, <1>5
    <3> QED BY <3>1, <3>2
  <2> QED BY <2>1 DEF BegunOnce
<1>12. ASSUME NEW k \in Jobs, Owes(T, Q, k) PROVE Owes(S, R, k)
  <2>1. CASE k = j BY <2>1, <1>1 DEF Owes
  <2>2. CASE k # j /\ Q[k] = 0 BY <2>2, <1>5 DEF Owes
  <2>3. CASE k # j /\ Q[k] # 0
    <3>3. PICK u \in Threads : \E i \in 1..Len(T[u]) : IsJob(T[u][i], k) /\ ~T[u][i].posted
      BY <1>12, <2>3 DEF Owes
    <3>1. PICK i \in 1..Len(T[u]) : IsJob(T[u][i], k) /\ ~T[u][i].posted
      BY <3>3
    <3>2. \E m \in 1..Len(S[u]) : T[u][i] = S[u][m]
      BY <3>1, <2>3, <1>6, SMTT(40) DEF IsJob
    <3> QED BY <3>1, <3>2 DEF Owes
  <2> QED BY <2>1, <2>2, <2>3
<1>13. Unborn(W, T, Q)
  <2>1. ASSUME NEW k \in Jobs, Owes(T, Q, k), Posts[k] # 0
        PROVE  New(W, Q, Posts[k])
    <3>1. New(W, R, Posts[k]) /\ Posts[k] \in Jobs /\ Posts[k] # j
      BY <2>1, <1>12, Posting DEF JobsInv, Unborn, Due
    <3> QED BY <3>1, <1>5 DEF New
  <2> QED BY <2>1 DEF Unborn
<1>14. JobsInv(W, T, Q)
  BY <1>4, <1>5, <1>7, <1>9, <1>11, <1>13 DEF JobsInv, JobTypes
<1> QED BY <1>14 DEF L, T, Q

\* A frame more on the main thread that is no job.
LEMMA Pushed ==
    ASSUME NEW W, NEW S, NEW R, JobsInv(W, S, R),
           NEW x \in Items, x.kind # "job"
    PROVE  JobsInv(W, [S EXCEPT ![Main] = S[Main] \o <<x>>], R)
<1> DEFINE L == S[Main] \o <<x>>
           T == [S EXCEPT ![Main] = L]
<1>1. S \in [Threads -> Seq(Items)] /\ Main \in Threads
  BY DEF JobsInv, JobTypes, Threads
<1>2. /\ L \in Seq(Items) /\ Len(L) = Len(S[Main]) + 1 /\ Len(S[Main]) \in Nat
      /\ \A i \in 1..Len(L) : L[i] = x \/ (i \in 1..Len(S[Main]) /\ L[i] = S[Main][i])
  <2>1. L = Append(S[Main], x)
    BY <1>1, AppendIsConcat
  <2>2. /\ Append(S[Main], x) \in Seq(Items) /\ Len(Append(S[Main], x)) = Len(S[Main]) + 1
        /\ Len(S[Main]) \in Nat
        /\ \A i \in 1..Len(S[Main]) : Append(S[Main], x)[i] = S[Main][i]
        /\ Append(S[Main], x)[Len(S[Main]) + 1] = x
    BY <1>1, AppendProperties, LenProperties
  <2>3. \A i \in 1..Len(S[Main]) + 1 : i = Len(S[Main]) + 1 \/ i \in 1..Len(S[Main])
    BY <2>2
  <2> QED BY <2>1, <2>2, <2>3
<1>3. /\ T \in [Threads -> Seq(Items)] /\ T[Main] = L
      /\ \A u \in Threads : u # Main => T[u] = S[u]
  BY <1>1, <1>2
<1> HIDE DEF L, T
<1>4. ASSUME NEW u \in Threads, NEW i \in 1..Len(T[u]), T[u][i].kind = "job"
      PROVE  i \in 1..Len(S[u]) /\ T[u][i] = S[u][i]
  BY <1>4, <1>2, <1>3
<1>5. Sorted(W, T)
  <2>1. ASSUME NEW w \in Workers, NEW i \in 1..Len(T[w])
        PROVE  T[w][i].kind = "job" /\ T[w][i].of \in LoaderJobs
    <3>1. w \in Threads /\ w # Main
      BY PoolAssumption DEF Threads, Workers, Main
    <3> QED BY <3>1, <1>3 DEF JobsInv, Sorted
  <2>2. ASSUME NEW u \in Threads, NEW i \in 1..Len(T[u]), T[u][i].kind = "job"
        PROVE  T[u][i].of \in Jobs
    BY <2>2, <1>4 DEF JobsInv, Sorted
  <2> QED BY <2>1, <2>2 DEF JobsInv, Sorted
<1>6. BegunOnce(T, R)
  <2>1. ASSUME NEW v \in Threads, NEW u \in Threads,
               NEW i \in 1..Len(T[v]), NEW m \in 1..Len(T[u]), NEW k \in Jobs,
               IsJob(T[v][i], k)
        PROVE  R[k] = 1 /\ (IsJob(T[u][m], k) => v = u /\ i = m)
    <3>1. i \in 1..Len(S[v]) /\ IsJob(S[v][i], k)
      BY <2>1, <1>4 DEF IsJob
    <3>2. IsJob(T[u][m], k) => m \in 1..Len(S[u]) /\ IsJob(S[u][m], k)
      BY <1>4 DEF IsJob
    <3> QED BY <3>1, <3>2 DEF JobsInv, BegunOnce
  <2> QED BY <2>1 DEF BegunOnce
<1>7. ASSUME NEW k \in Jobs, Owes(T, R, k) PROVE Owes(S, R, k)
  <2>1. CASE R[k] = 0 BY <2>1 DEF Owes
  <2>2. CASE R[k] # 0
    <3>3. PICK u \in Threads : \E i \in 1..Len(T[u]) : IsJob(T[u][i], k) /\ ~T[u][i].posted
      BY <1>7, <2>2 DEF Owes
    <3>1. PICK i \in 1..Len(T[u]) : IsJob(T[u][i], k) /\ ~T[u][i].posted
      BY <3>3
    <3>2. i \in 1..Len(S[u]) /\ T[u][i] = S[u][i]
      BY <3>1, <1>4 DEF IsJob
    <3> QED BY <3>1, <3>2 DEF Owes
  <2> QED BY <2>1, <2>2
<1>8. JobsInv(W, T, R)
  BY <1>3, <1>5, <1>6, <1>7 DEF JobsInv, JobTypes, Unborn
<1> QED BY <1>8 DEF L, T

-----------------------------------------------------------------------------
(* What the actions do with the jobs. *)

JobsOK == JobsInv(work, stack, ran)

LEMMA ItemTypes ==
    /\ \A j \in Jobs : Item("job", j) \in Items
    /\ \A w \in Workers : Item("stopped", w) \in Items /\ Item("error", w) \in Items
    /\ Item("fatal", 0) \in Items
    /\ \A x \in Items : x.kind = "error" => Item("stopped", x.of) \in Items
BY DEF Item, Items

\* The head of a list is run.
LEMMA Worked ==
    ASSUME JobsOK, NEW t \in Threads, NEW g \in Lists, t \in Workers => g = "loader",
           DoWork(t, g)
    PROVE  JobsOK'
<1> DEFINE x == Head(work[g])
           V == [work EXCEPT ![g] = Tail(work[g])]
<1>1. /\ JobsInv(V, stack, ran) /\ x \in Items
      /\ x.kind = "job" => /\ x.of \in Jobs /\ Due(V, stack, ran, x.of)
                           /\ g = "loader" => x.of \in LoaderJobs
      /\ g = "loader" => x.kind = "job"
  BY Dequeued DEF JobsOK, DoWork
<1>2. work' = V
  BY DEF DoWork
<1> HIDE DEF V, x
<1>3. CASE x.kind = "job"
  <2>1. JobsInv(V, [stack EXCEPT ![t] = stack[t] \o <<x>>], [ran EXCEPT ![x.of] = ran[x.of] + 1])
    BY <1>1, <1>3, Beginning DEF IsJob
  <2>2. stack' = [stack EXCEPT ![t] = stack[t] \o <<x>>] /\ ran' = [ran EXCEPT ![x.of] = ran[x.of] + 1]
    BY <1>3 DEF DoWork, Frames, Begun, x
  <2> QED BY <2>1, <2>2, <1>2 DEF JobsOK
<1>4. CASE x.kind # "job"
  <2>1. t = Main
    BY <1>1, <1>4 DEF Threads
  <2>2. ran' = ran
    BY <1>4 DEF DoWork, Begun, x
  <2>3. CASE x.kind # "error"
    <3>1. JobsInv(V, [stack EXCEPT ![Main] = stack[Main] \o <<x>>], ran)
      BY <1>1, <1>4, Pushed
    <3>2. stack' = [stack EXCEPT ![Main] = stack[Main] \o <<x>>]
      BY <2>1, <2>3 DEF DoWork, Frames, x
    <3> QED BY <3>1, <3>2, <2>2, <1>2 DEF JobsOK
  <2>4. CASE x.kind = "error"
    <3> DEFINE a == Item("fatal", 0)
               b == Item("stopped", x.of)
               S1 == [stack EXCEPT ![Main] = stack[Main] \o <<a>>]
    <3>1. a \in Items /\ b \in Items /\ a.kind # "job" /\ b.kind # "job"
      BY <1>1, <2>4, ItemTypes DEF Item
    <3>2. JobsInv(V, S1, ran)
      BY <1>1, <3>1, Pushed
    <3>3. JobsInv(V, [S1 EXCEPT ![Main] = S1[Main] \o <<b>>], ran)
      BY <3>1, <3>2, Pushed
    <3>4. stack \in [Threads -> Seq(Items)] /\ Main \in Threads
      BY DEF JobsOK, JobsInv, JobTypes, Threads
    <3>5. (stack[Main] \o <<a>>) \o <<b>> = stack[Main] \o <<a, b>>
      BY <3>1, <3>4, SMTT(40)
    <3>6. stack' = [stack EXCEPT ![Main] = stack[Main] \o <<a, b>>]
      BY <2>1, <2>4 DEF DoWork, Frames, x
    <3>7. stack' = [S1 EXCEPT ![Main] = S1[Main] \o <<b>>]
      BY <3>4, <3>5, <3>6
    <3> QED BY <3>3, <3>7, <2>2, <1>2 DEF JobsOK
  <2> QED BY <2>3, <2>4
<1> QED BY <1>3, <1>4

\* COM_AddWork and COM_InsertWork.
LEMMA LoaderAdded ==
    ASSUME NEW t \in Threads, NEW fs, NEW j \in LoaderJobs, NEW atHead \in BOOLEAN,
           JobsInv(work, [stack EXCEPT ![t] = fs], ran),
           Due(work, [stack EXCEPT ![t] = fs], ran, j),
           stack \in [Threads -> Seq(Items)],
           AddLoader(t, fs, j, atHead)
    PROVE  JobsOK'
<1> DEFINE T == [stack EXCEPT ![t] = fs]
           x == Item("job", j)
<1>1. j \in Jobs /\ x \in Items /\ IsJob(x, j) /\ x.kind = "job" /\ x.of = j
  BY ItemTypes DEF Jobs, Item, IsJob
<1>2. T[t] = fs
  OBVIOUS
<1>3. CASE ~HasWorkers \/ error
  <2>1. JobsInv(work, [T EXCEPT ![t] = T[t] \o <<x>>], [ran EXCEPT ![j] = ran[j] + 1])
    BY <1>1, Beginning
  <2>2. stack' = [stack EXCEPT ![t] = fs \o <<x>>] /\ work' = work
        /\ ran' = [ran EXCEPT ![j] = ran[j] + 1]
    BY <1>3 DEF AddLoader
  <2>3. stack' = [T EXCEPT ![t] = T[t] \o <<x>>]
    BY <2>2, <1>2
  <2> QED BY <2>1, <2>2, <2>3 DEF JobsOK
<1>4. CASE ~(~HasWorkers \/ error)
  <2> DEFINE l == work["loader"]
             L == IF atHead THEN <<x>> \o l ELSE Append(l, x)
  <2>1. "loader" \in Lists /\ l \in Seq(Items)
    BY DEF Lists, JobsInv, JobTypes
  <2>2. Inserted(L, l, x)
    BY <2>1, <1>1, Prepended, Appended
  <2>3. work' = [work EXCEPT !["loader"] = L] /\ stack' = T /\ ran' = ran
    BY <1>4 DEF AddLoader
  <2> HIDE DEF L, x, T
  <2>4. JobsInv([work EXCEPT !["loader"] = L], T, ran)
    BY <2>1, <2>2, <1>1, Enqueued DEF T
  <2> QED BY <2>3, <2>4 DEF JobsOK
<1> QED BY <1>3, <1>4

LEMMA TopIsJob ==
    ASSUME JobsOK, NEW t \in Threads, Runs(t)
    PROVE  /\ stack \in [Threads -> Seq(Items)] /\ stack[t] # <<>>
           /\ Top(t).of \in Jobs /\ IsJob(stack[t][Len(stack[t])], Top(t).of)
<1>1. stack \in [Threads -> Seq(Items)] /\ stack[t] \in Seq(Items) /\ stack[t] # <<>>
  BY DEF JobsOK, JobsInv, JobTypes, Runs
<1>2. Len(stack[t]) \in 1..Len(stack[t])
  BY <1>1, LenProperties, EmptySeq
<1> QED BY <1>1, <1>2 DEF JobsOK, JobsInv, Sorted, Runs, Top, IsJob

\* A running job adds what it adds: the mark, and then the list or the stack.
LEMMA JobsPost ==
    ASSUME JobsOK, NEW t \in Threads, PostLoader(t) \/ PostMain(t)
    PROVE  JobsOK'
<1> DEFINE k == Top(t).of
           T == [stack EXCEPT ![t] = Posted(t)]
<1>1. Runs(t) /\ ~Top(t).posted /\ Child(t) \in LoaderJobs \cup MainJobs
  BY DEF PostLoader, PostMain
<1>2. /\ stack \in [Threads -> Seq(Items)] /\ stack[t] # <<>>
      /\ k \in Jobs /\ IsJob(stack[t][Len(stack[t])], k)
  BY <1>1, TopIsJob
<1>3. Child(t) = Posts[k] /\ Posts[k] \in Jobs /\ Posts[k] # 0
  BY <1>1, PoolAssumption DEF Child, Jobs
<1>4. JobsInv(work, T, ran) /\ Due(work, T, ran, Posts[k])
  BY <1>1, <1>2, <1>3, Marked DEF JobsOK, Posted, Top
<1> HIDE DEF T, k
<1>5. CASE PostLoader(t)
  <2>1. AddLoader(t, Posted(t), Posts[k], FALSE) /\ Posts[k] \in LoaderJobs
    BY <1>5, <1>3 DEF PostLoader
  <2> QED BY <2>1, <1>2, <1>4, LoaderAdded DEF T
<1>6. CASE PostMain(t)
  <2> DEFINE x == Item("job", Posts[k])
             l == work["main"]
             L == Append(l, x)
  <2>1. Posts[k] \in MainJobs /\ work' = [work EXCEPT !["main"] = L] /\ stack' = T /\ ran' = ran
    BY <1>6, <1>3 DEF PostMain, T
  <2>2. x \in Items /\ x.kind = "job" /\ x.of = Posts[k]
    BY <1>3, ItemTypes DEF Item
  <2>3. "main" \in Lists /\ "main" # "loader" /\ l \in Seq(Items)
    BY DEF Lists, JobsOK, JobsInv, JobTypes
  <2>4. Inserted(L, l, x)
    BY <2>2, <2>3, Appended
  <2> HIDE DEF x, L
  <2>5. JobsInv([work EXCEPT !["main"] = L], T, ran)
    BY <1>4, <2>1, <2>2, <2>3, <2>4, Enqueued
  <2> QED BY <2>1, <2>5 DEF JobsOK
<1> QED BY <1>5, <1>6

LEMMA JobsPopped ==
    ASSUME JobsOK, NEW t \in Threads, stack[t] # <<>>
    PROVE  JobsInv(work, Popped(t), ran)
<1>1. stack \in [Threads -> Seq(Items)] /\ stack[t] \in Seq(Items)
  BY DEF JobsOK, JobsInv, JobTypes
<1> DEFINE s == SubSeq(stack[t], 1, Len(stack[t]) - 1)
<1>2. /\ s \in Seq(Items)
      /\ Len(stack[t]) \in Nat \ {0} /\ Len(s) = Len(stack[t]) - 1
      /\ \A i \in 1..Len(stack[t]) - 1 : s[i] = stack[t][i]
  BY <1>1, Curtailed
<1>3. Popped(t) = [stack EXCEPT ![t] = s]
  BY DEF Popped
<1> HIDE DEF s
<1>4. Popped(t) \in [Threads -> Seq(Items)]
  BY <1>1, <1>2, <1>3
<1>5. \A u \in Threads : Len(Popped(t)[u]) <= Len(stack[u])
                         /\ \A i \in 1..Len(Popped(t)[u]) : Popped(t)[u][i] = stack[u][i]
  <2>1. ASSUME NEW u \in Threads, u # t PROVE Popped(t)[u] = stack[u] /\ Len(stack[u]) \in Nat
    BY <2>1, <1>1, <1>3, LenProperties
  <2>2. Popped(t)[t] = s
    BY <1>1, <1>3
  <2> QED BY <2>1, <2>2, <1>2
<1> QED BY <1>4, <1>5, Fewer DEF JobsOK

LEMMA JobsFinish ==
    ASSUME JobsOK, NEW t \in Threads, Finish(t)
    PROVE  JobsOK'
BY JobsPopped DEF Finish, Runs, JobsOK

LEMMA JobsAbort ==
    ASSUME JobsOK, NEW w \in Workers, Abort(w)
    PROVE  JobsOK'
<1>1. stack \in [Threads -> Seq(Items)]
  BY DEF JobsOK, JobsInv, JobTypes
<1>2. stack' = [stack EXCEPT ![w] = <<>>] /\ work' = work /\ ran' = ran
  BY DEF Abort
<1>3. stack' \in [Threads -> Seq(Items)]
  <2>1. <<>> \in Seq(Items)
    OBVIOUS
  <2> QED BY <1>1, <1>2, <2>1
<1>4. \A u \in Threads : Len(stack'[u]) <= Len(stack[u])
                         /\ \A i \in 1..Len(stack'[u]) : stack'[u][i] = stack[u][i]
  <2>1. ASSUME NEW u \in Threads, u # w PROVE stack'[u] = stack[u] /\ Len(stack[u]) \in Nat
    BY <2>1, <1>1, <1>2, LenProperties
  <2>2. w \in Threads => stack'[w] = <<>> /\ Len(stack[w]) \in Nat
    BY <1>1, <1>2, LenProperties
  <2> QED BY <2>1, <2>2
<1>5. JobsInv(work, stack', ran)
  BY <1>3, <1>4, Fewer DEF JobsOK
<1> QED BY <1>2, <1>5 DEF JobsOK

\* COM_WorkerSync_WorkerStopped: the frame ends, or goes on as another.
LEMMA JobsStopJoin ==
    ASSUME JobsOK, StopJoin
    PROVE  JobsOK'
<1> DEFINE n == Len(stack[Main])
           s == [stack[Main] EXCEPT ![n].kind = "flush"]
<1>1. Main \in Threads /\ stack \in [Threads -> Seq(Items)] /\ stack[Main] \in Seq(Items)
      /\ stack[Main] # <<>> /\ work' = work /\ ran' = ran
  BY DEF JobsOK, JobsInv, JobTypes, StopJoin, Threads
<1>2. CASE stack' = Popped(Main)
  BY <1>1, <1>2, JobsPopped DEF JobsOK
<1>3. CASE stack' = [stack EXCEPT ![Main][Len(stack[Main])].kind = "flush"]
  <2>1. n \in Nat \ {0} /\ n \in 1..n /\ stack[Main][n] \in Items
    BY <1>1, LenProperties, EmptySeq, ElementOfSeq
  <2>2. [stack[Main][n] EXCEPT !.kind = "flush"] \in Items
        /\ [stack[Main][n] EXCEPT !.kind = "flush"].kind = "flush"
    BY <2>1 DEF Items, StopJoin, Top
  <2>3. s = [stack[Main] EXCEPT ![n] = [stack[Main][n] EXCEPT !.kind = "flush"]]
    OBVIOUS
  <2>4. /\ s \in Seq(Items) /\ Len(s) = n
        /\ \A i \in 1..n : s[i] = IF i = n THEN [stack[Main][n] EXCEPT !.kind = "flush"]
                                  ELSE stack[Main][i]
    BY <1>1, <2>1, <2>2, <2>3, ExceptSeq
  <2>5. stack' = [stack EXCEPT ![Main] = s]
    BY <1>3, <1>1
  <2> HIDE DEF s
  <2>6. stack' \in [Threads -> Seq(Items)]
    BY <1>1, <2>4, <2>5
  <2>7. \A u \in Threads :
            /\ Len(stack'[u]) <= Len(stack[u])
            /\ \A i \in 1..Len(stack'[u]) :
                  stack'[u][i] = stack[u][i] \/ (stack'[u][i].kind # "job" /\ u = Main)
    <3>1. ASSUME NEW u \in Threads, u # Main PROVE stack'[u] = stack[u] /\ Len(stack[u]) \in Nat
      BY <3>1, <1>1, <2>5, LenProperties
    <3>2. stack'[Main] = s
      BY <1>1, <2>5
    <3>3. \A i \in 1..n : s[i] = stack[Main][i] \/ s[i].kind # "job"
      BY <2>2, <2>4
    <3> QED BY <3>1, <3>2, <3>3, <2>4, <2>1
  <2>8. JobsInv(work, stack', ran)
    BY <2>6, <2>7, Fewer DEF JobsOK
  <2> QED BY <2>8, <1>1 DEF JobsOK
<1> QED BY <1>2, <1>3 DEF StopJoin

LEMMA JobsStopFlush ==
    ASSUME JobsOK, StopFlush
    PROVE  JobsOK'
<1>1. Main \in Threads /\ Main \notin Workers /\ "loader" \in Lists
  BY PoolAssumption DEF Threads, Main, Workers, Lists
<1>2. CASE DoWork(Main, "loader")
  BY <1>1, <1>2, Worked
<1>3. CASE stack' = Popped(Main) /\ work' = work /\ ran' = ran
  BY <1>1, <1>3, JobsPopped DEF JobsOK, StopFlush
<1> QED BY <1>2, <1>3 DEF StopFlush

\* The two notices of a worker that ends: it failed, it leaves.
LEMMA JobsNotice ==
    ASSUME JobsOK, NEW w \in Workers, Report(w) \/ WLeave(w)
    PROVE  JobsOK'
<1>1. "main" \in Lists /\ work \in [Lists -> Seq(Items)] /\ work["main"] \in Seq(Items)
  BY DEF Lists, JobsOK, JobsInv, JobTypes
<1>2. PICK x \in Items, L \in Seq(Items) :
          /\ x.kind # "job" /\ Inserted(L, work["main"], x)
          /\ work' = [work EXCEPT !["main"] = L]
  <2>1. CASE Report(w)
    <3>1. Item("error", w) \in Items /\ Item("error", w).kind # "job"
      BY ItemTypes DEF Item
    <3>2. Inserted(<<Item("error", w)>> \o work["main"], work["main"], Item("error", w))
      BY <1>1, <3>1, Prepended
    <3>3. work' = [work EXCEPT !["main"] = <<Item("error", w)>> \o work["main"]]
      BY <2>1 DEF Report
    <3> QED BY <3>1, <3>2, <3>3 DEF Inserted
  <2>2. CASE WLeave(w)
    <3>1. Item("stopped", w) \in Items /\ Item("stopped", w).kind # "job"
      BY ItemTypes DEF Item
    <3>2. Inserted(Append(work["main"], Item("stopped", w)), work["main"], Item("stopped", w))
      BY <1>1, <3>1, Appended
    <3>3. work' = [work EXCEPT !["main"] = Append(work["main"], Item("stopped", w))]
      BY <2>2 DEF WLeave
    <3> QED BY <3>1, <3>2, <3>3 DEF Inserted
  <2> QED BY <2>1, <2>2
<1>3. JobsInv([work EXCEPT !["main"] = L], stack, ran)
  BY <1>1, <1>2, Enqueued DEF JobsOK
<1>4. stack' = stack /\ ran' = ran
  BY DEF Report, WLeave
<1> QED BY <1>2, <1>3, <1>4 DEF JobsOK

\* What the main thread adds itself: a job nobody adds, and not twice.
LEMMA JobsAddRoot ==
    ASSUME JobsOK, NEW j \in Roots, NEW atHead \in BOOLEAN, AddRoot(j, atHead)
    PROVE  JobsOK'
<1>1. Main \in Threads /\ stack \in [Threads -> Seq(Items)] /\ stack[Main] = <<>>
  BY DEF Threads, AddRoot, At, JobsOK, JobsInv, JobTypes
<1>2. [stack EXCEPT ![Main] = <<>>] = stack
  BY <1>1
<1>3. j \in LoaderJobs /\ j \in Jobs /\ ran[j] = 0 /\ AddLoader(Main, <<>>, j, atHead)
  BY DEF AddRoot, Roots, Jobs
<1>4. ~Queued(work, j)
  <2>1. \A i \in 1..Len(work["loader"]) : work["loader"][i].of # j
    BY DEF AddRoot
  <2>2. \A i \in 1..Len(work["main"]) : ~IsJob(work["main"][i], j)
    BY <1>3, PoolAssumption DEF JobsOK, JobsInv, Sorted, IsJob
  <2> QED BY <2>1, <2>2 DEF Queued, Lists, IsJob
<1>5. Due(work, stack, ran, j)
  BY <1>3, <1>4 DEF Due, New, Roots
<1> QED BY <1>1, <1>2, <1>3, <1>5, LoaderAdded DEF JobsOK

MainLoops ==
    \/ Poll \/ SyncFlush \/ SyncWork \/ Boost \/ PartialWork \/ LockWork
    \/ UnlockWork \/ CountWork \/ DestroyWork \/ CloseWork

LEMMA JobsLoop ==
    ASSUME JobsOK, MainLoops \/ \E j \in MainJobs : PartialSync(j)
    PROVE  JobsOK'
<1>1. Main \in Threads /\ Main \notin Workers /\ "loader" \in Lists /\ "main" \in Lists
  BY PoolAssumption DEF Threads, Main, Workers, Lists
<1>2. (\E g \in Lists : DoWork(Main, g)) \/ UNCHANGED <<work, stack, ran>>
  <2>1. CASE MainLoops
    BY <2>1, <1>1 DEF MainLoops, Poll, SyncFlush, SyncWork, Boost, PartialWork, LockWork,
       UnlockWork, CountWork, DestroyWork, CloseWork, Loop
  <2>2. CASE \E j \in MainJobs : PartialSync(j)
    BY <2>2, <1>1 DEF PartialSync
  <2> QED BY <2>1, <2>2
<1>3. CASE \E g \in Lists : DoWork(Main, g)
  BY <1>1, <1>3, Worked
<1>4. CASE UNCHANGED <<work, stack, ran>>
  BY <1>4 DEF JobsOK
<1> QED BY <1>2, <1>3, <1>4

\* What does nothing with the jobs.
WorkerTurns(w) == WStart(w) \/ WDie(w) \/ WAck(w) \/ WAcked(w) \/ WLook(w) \/ WSleep(w)

MainMoves ==
    \/ SyncNobody \/ SyncIdle \/ SyncWait \/ SyncWoken \/ SyncEnd
    \/ BoostEnd \/ Boosted \/ PartialRan \/ PartialWait \/ PartialWoken
    \/ UnlockEnd \/ DestroySync \/ Close \/ FullSync \/ MainAbort \/ MainSpurious
    \/ \E n \in 0..NumWorkers : CountChange(n)

MainAsks == SyncBegin \/ SyncAsk \/ SyncRan

MainStaffs == Lock \/ LockEnd \/ Unlock \/ CountFlags \/ CountWake \/ Destroy

\* The steps of the system, in the classes the proofs treat alike.
LEMMA Steps ==
    ASSUME [Next]_vars
    PROVE  \/ \E w \in Workers :
                 WorkerTurns(w) \/ WTake(w) \/ WLeave(w) \/ Report(w) \/ Abort(w)
           \/ \E t \in Threads : Running(t)
           \/ StopJoin \/ StopFlush
           \/ \E j \in Roots, atHead \in BOOLEAN : AddRoot(j, atHead)
           \/ MainLoops \/ \E j \in MainJobs : PartialSync(j)
           \/ MainMoves \/ MainAsks \/ MainStaffs
           \/ UNCHANGED vars
<1>1. CASE UNCHANGED vars
  BY <1>1
<1>2. CASE MainGoesOn
  BY <1>2 DEF MainGoesOn, MainLoops, MainMoves, MainAsks, MainStaffs, Threads
<1>3. CASE MainCalls
  BY <1>3 DEF MainCalls, MainMoves, MainStaffs
<1>4. CASE MainAbort \/ MainSpurious
  BY <1>4 DEF MainMoves
<1>5. CASE \E w \in Workers : Worker(w) \/ Running(w) \/ Abort(w)
  BY <1>5 DEF Worker, WorkerTurns, Threads
<1> QED BY <1>1, <1>2, <1>3, <1>4, <1>5 DEF Next

LEMMA JobsStep ==
    ASSUME JobsOK, [Next]_vars
    PROVE  JobsOK'
<1>1. ASSUME UNCHANGED <<work, stack, ran>> PROVE JobsOK'
  BY <1>1 DEF JobsOK
<1>2. CASE \E w \in Workers : WorkerTurns(w)
  BY <1>2, <1>1 DEF WorkerTurns, WStart, WDie, WAck, WAcked, WLook, WSleep
<1>3. ASSUME NEW w \in Workers, WTake(w) PROVE JobsOK'
  <2>1. w \in Threads /\ "loader" \in Lists /\ DoWork(w, "loader")
    BY <1>3 DEF Threads, Lists, WTake
  <2> QED BY <2>1, Worked
<1>4. CASE \E w \in Workers : WLeave(w) \/ Report(w) \/ Abort(w)
  BY <1>4, JobsNotice, JobsAbort
<1>5. CASE \E t \in Threads : Running(t)
  BY <1>5, JobsPost, JobsFinish DEF Running
<1>6. CASE StopJoin \/ StopFlush
  BY <1>6, JobsStopJoin, JobsStopFlush
<1>7. CASE \E j \in Roots, atHead \in BOOLEAN : AddRoot(j, atHead)
  BY <1>7, JobsAddRoot
<1>8. CASE MainLoops \/ \E j \in MainJobs : PartialSync(j)
  BY <1>8, JobsLoop
<1>9. CASE MainMoves
  BY <1>9, <1>1 DEF MainMoves, SyncNobody, SyncIdle, SyncWait, SyncWoken, SyncEnd, BoostEnd,
     Boosted, PartialRan, PartialWait, PartialWoken, UnlockEnd, DestroySync, Close, FullSync,
     MainAbort, MainSpurious, CountChange
<1>10. CASE MainAsks
  BY <1>10, <1>1 DEF MainAsks, SyncBegin, SyncAsk, SyncRan
<1>11. CASE MainStaffs
  BY <1>11, <1>1 DEF MainStaffs, Lock, LockEnd, Unlock, CountFlags, CountWake, Destroy
<1>12. CASE UNCHANGED vars
  BY <1>12, <1>1 DEF vars
<1> QED BY Steps, <1>2, <1>3, <1>4, <1>5, <1>6, <1>7, <1>8, <1>9, <1>10, <1>11, <1>12

LEMMA JobsInit ==
    ASSUME Init
    PROVE  JobsOK
<1>1. /\ work = [main |-> <<>>, loader |-> <<>>]
      /\ stack = [t \in Threads |-> <<>>]
      /\ ran = [j \in Jobs |-> 0]
  BY DEF Init, Threads
<1>2. <<>> \in Seq(Items) /\ Len(<<>>) = 0
  OBVIOUS
<1>3. work \in [Lists -> Seq(Items)] /\ \A g \in Lists : work[g] = <<>>
  <2>1. work = [g \in Lists |-> <<>>]
    BY <1>1 DEF Lists
  <2> QED BY <1>2, <2>1
<1>4. stack \in [Threads -> Seq(Items)] /\ \A t \in Threads : stack[t] = <<>>
  BY <1>1, <1>2
<1>5. ran \in [Jobs -> 0..1] /\ \A j \in Jobs : ran[j] = 0
  BY <1>1
<1>6. "main" \in Lists /\ "loader" \in Lists /\ Workers \subseteq Threads
  BY DEF Lists, Threads
<1>7. Sorted(work, stack)
  BY <1>2, <1>3, <1>4, <1>6 DEF Sorted
<1>8. QueuedOnce(work, ran)
  BY <1>2, <1>3 DEF QueuedOnce
<1>9. BegunOnce(stack, ran)
  BY <1>2, <1>4 DEF BegunOnce
<1>10. Unborn(work, stack, ran)
  BY <1>2, <1>3, <1>5, Posting DEF Unborn, New, Queued
<1> QED BY <1>3, <1>4, <1>5, <1>7, <1>8, <1>9, <1>10 DEF JobsOK, JobsInv, JobTypes

-----------------------------------------------------------------------------
(* The places of the threads. *)

Places ==
    /\ main \in MainPlaces
    /\ after \in {"idle", "closing"}
    /\ awaited \in MainJobs \cup {0}
    /\ noflush \in BOOLEAN
    /\ thread \in [Workers -> BOOLEAN]
    /\ request \in [Workers -> {"none", "die", "ack"}]
    /\ ackseq \in [Workers -> Nat]
    /\ acksequence \in Nat
    /\ error \in BOOLEAN
    /\ count \in 0..NumWorkers
    /\ worker \in [Workers -> WorkerPlaces]
    /\ stopping \subseteq Workers
    /\ calls \in 0..MaxCalls

\* A worker is on the rolls until it is joined, and has a stack only while it runs.
OnTheRolls ==
    /\ \A w \in Workers : thread[w] <=> worker[w] # "gone"
    /\ \A w \in Workers : stack[w] # <<>> => worker[w] = "run"
    /\ noflush => main \in {"locking", "fatal"}

PlacesOK == JobsOK /\ Places /\ OnTheRolls

\* Waking a sleeper changes nothing else.
LEMMA Woken ==
    ASSUME Places, SignalLoader \/ worker' = Awake
    PROVE  /\ worker' \in [Workers -> WorkerPlaces]
           /\ \A w \in Workers : worker'[w] = worker[w]
                                 \/ (worker[w] = "asleep" /\ worker'[w] = "ready")
<1>1. CASE worker' = Awake
  BY <1>1 DEF Awake, Asleep, Places, WorkerPlaces
<1>2. CASE SignalLoader
  BY <1>2 DEF SignalLoader, Asleep, Places, WorkerPlaces
<1> QED BY <1>1, <1>2

LEMMA MainWoken ==
    ASSUME Places
    PROVE  /\ MainAwake \in MainPlaces
           /\ MainAwake = main \/ main \in {"syncwait", "partialwait"}
           /\ main = "syncwait" => MainAwake = "syncwoken"
           /\ main = "partialwait" => MainAwake = "partialwoken"
BY DEF MainAwake, Places, MainPlaces

LEMMA ThreadNames == Main \in Threads /\ Main \notin Workers /\ Workers \subseteq Threads
BY PoolAssumption DEF Threads, Main, Workers

\* Steps of one worker.
LEMMA PlacesWorker ==
    ASSUME PlacesOK, NEW w \in Workers,
           WorkerTurns(w) \/ WLeave(w) \/ Report(w) \/ Abort(w)
    PROVE  Places' /\ OnTheRolls'
<1>1. stack \in [Threads -> Seq(Items)] /\ w \in Threads
  BY ThreadNames DEF PlacesOK, JobsOK, JobsInv, JobTypes
<1>2. /\ worker \in [Workers -> WorkerPlaces]
      /\ worker[w] \notin {"gone", "run"} \/ Abort(w)
      /\ worker[w] # "gone"
      /\ \E p \in WorkerPlaces \ {"gone"} : worker' = [worker EXCEPT ![w] = p]
  BY DEF PlacesOK, Places, WorkerPlaces, WorkerTurns, WLeave, Report, Abort, WStart, WDie, WAck,
     WAcked, WLook, WSleep, Done, Has
<1>3. \/ stack' = stack
      \/ Abort(w) /\ stack' = [stack EXCEPT ![w] = <<>>]
  BY DEF WorkerTurns, WLeave, Report, Abort, WStart, WDie, WAck, WAcked, WLook, WSleep
<1>4. main' \in {main, MainAwake}
  BY DEF WorkerTurns, WLeave, Report, Abort, WStart, WDie, WAck, WAcked, WLook, WSleep
<1>5. UNCHANGED <<after, awaited, noflush, thread, acksequence, count, stopping, calls>>
  BY DEF WorkerTurns, WLeave, Report, Abort, WStart, WDie, WAck, WAcked, WLook, WSleep, pool
<1>6. /\ request' \in [Workers -> {"none", "die", "ack"}]
      /\ ackseq' \in [Workers -> Nat]
      /\ error' \in BOOLEAN
  <2>1. CASE WAck(w) BY <2>1 DEF WAck, PlacesOK, Places
  <2>2. CASE ~WAck(w)
    BY <2>2 DEF WorkerTurns, WLeave, Report, Abort, WStart, WDie, WAcked, WLook, WSleep, pool,
       PlacesOK, Places
  <2> QED BY <2>1, <2>2
<1>7. main' \in MainPlaces /\ (noflush => main' = main)
  BY <1>4, MainWoken DEF PlacesOK, Places, OnTheRolls
<1>8. worker' \in [Workers -> WorkerPlaces]
  BY <1>2
<1>9. Places'
  BY <1>5, <1>6, <1>7, <1>8 DEF PlacesOK, Places
<1>10. \A v \in Workers : thread[v] <=> worker'[v] # "gone"
  BY <1>2 DEF PlacesOK, OnTheRolls
<1>11. ASSUME NEW v \in Workers, stack'[v] # <<>> PROVE worker'[v] = "run"
  <2>1. CASE v = w
    <3>1. stack' # [stack EXCEPT ![w] = <<>>]
      BY <2>1, <1>11, <1>1
    <3>2. stack' = stack /\ ~(stack' = [stack EXCEPT ![w] = <<>>])
      BY <3>1, <1>3
    <3>3. worker[w] = "run"
      BY <2>1, <1>11, <3>2 DEF PlacesOK, OnTheRolls
    <3>4. Abort(w)
      BY <3>3, <1>2
    <3> QED BY <3>1, <3>4 DEF Abort
  <2>2. CASE v # w BY <2>2, <1>11, <1>1, <1>2, <1>3, ThreadNames DEF PlacesOK, OnTheRolls
  <2> QED BY <2>1, <2>2
<1> QED BY <1>5, <1>7, <1>9, <1>10, <1>11 DEF PlacesOK, OnTheRolls

LEMMA PlacesTake ==
    ASSUME PlacesOK, NEW w \in Workers, WTake(w)
    PROVE  Places' /\ OnTheRolls'
<1>1. worker[w] # "gone" /\ worker' = [worker EXCEPT ![w] = "run"]
  BY DEF WTake, Has
<1>2. UNCHANGED <<main, after, awaited, noflush, thread, request, ackseq, acksequence, error,
                  count, stopping, calls>>
  BY DEF WTake, pool
<1>3. Places'
  BY <1>1, <1>2 DEF PlacesOK, Places, WorkerPlaces
<1>4. \A v \in Workers : thread[v] <=> worker'[v] # "gone"
  BY <1>1 DEF PlacesOK, Places, OnTheRolls
<1>5. ASSUME NEW v \in Workers, stack'[v] # <<>> PROVE worker'[v] = "run"
  <2>1. CASE v = w BY <2>1, <1>1 DEF PlacesOK, Places
  <2>2. CASE v # w
    <3>1. stack'[v] = stack[v]
      BY <2>2, ThreadNames DEF WTake, DoWork, PlacesOK, JobsOK, JobsInv, JobTypes
    <3> QED BY <3>1, <2>2, <1>1, <1>5 DEF PlacesOK, Places, OnTheRolls
  <2> QED BY <2>1, <2>2
<1> QED BY <1>2, <1>3, <1>4, <1>5 DEF PlacesOK, OnTheRolls

\* A loader's job added by thread t.
LEMMA PlacesAdd ==
    ASSUME PlacesOK, NEW t \in Threads, NEW fs, NEW j, NEW atHead,
           AddLoader(t, fs, j, atHead),
           t \in Workers => stack[t] # <<>>,
           UNCHANGED <<main, after, awaited, pool, error, calls>>
    PROVE  Places' /\ OnTheRolls'
<1>1. /\ worker' \in [Workers -> WorkerPlaces]
      /\ \A w \in Workers : worker'[w] = worker[w]
                            \/ (worker[w] = "asleep" /\ worker'[w] = "ready")
  BY Woken DEF AddLoader, PlacesOK, Places
<1>2. Places'
  BY <1>1 DEF PlacesOK, Places, pool
<1>3. \A v \in Workers : thread[v] <=> worker'[v] # "gone"
  BY <1>1 DEF PlacesOK, OnTheRolls
<1>4. ASSUME NEW v \in Workers, stack'[v] # <<>> PROVE worker'[v] = "run"
  <2>1. stack[v] # <<>>
    <3>1. CASE v = t BY <3>1
    <3>2. CASE v # t
      <4>1. stack'[v] = stack[v]
        BY <3>2, ThreadNames DEF AddLoader, PlacesOK, JobsOK, JobsInv, JobTypes
      <4> QED BY <4>1, <1>4
    <3> QED BY <3>1, <3>2
  <2> QED BY <2>1, <1>1 DEF PlacesOK, OnTheRolls
<1> QED BY <1>2, <1>3, <1>4 DEF PlacesOK, OnTheRolls, pool

LEMMA PlacesRunning ==
    ASSUME PlacesOK, NEW t \in Threads, Running(t)
    PROVE  Places' /\ OnTheRolls'
<1>1. stack \in [Threads -> Seq(Items)] /\ stack[t] # <<>>
  BY DEF PlacesOK, JobsOK, JobsInv, JobTypes, Running, PostLoader, PostMain, Finish, Runs
<1>2. CASE PostLoader(t)
  BY <1>1, <1>2, PlacesAdd DEF PostLoader
<1>3. CASE PostMain(t)
  <2>1. main' \in MainPlaces /\ (noflush => main' = main)
    BY <1>3, MainWoken DEF PostMain, PlacesOK, Places, OnTheRolls
  <2>2. UNCHANGED <<after, awaited, pool, error, calls, worker>>
    BY <1>3 DEF PostMain
  <2>3. \A v \in Workers : stack'[v] # <<>> => stack[v] # <<>>
    BY <1>1, <1>3, ThreadNames DEF PostMain
  <2> QED BY <2>1, <2>2, <2>3 DEF PlacesOK, Places, OnTheRolls, pool
<1>4. CASE Finish(t)
  <2>1. UNCHANGED <<main, after, awaited, pool, error, calls>>
    BY <1>4 DEF Finish
  <2>2. worker' = IF t # Main /\ Len(stack[t]) = 1 THEN [worker EXCEPT ![t] = "ran"] ELSE worker
    BY <1>4 DEF Finish
  <2>3. t # Main => t \in Workers /\ worker[t] = "run"
    BY <1>1 DEF Threads, PlacesOK, OnTheRolls
  <2>4. worker' \in [Workers -> WorkerPlaces] /\ \A v \in Workers : thread[v] <=> worker'[v] # "gone"
    BY <2>2, <2>3 DEF PlacesOK, Places, OnTheRolls, WorkerPlaces
  <2>5. ASSUME NEW v \in Workers, stack'[v] # <<>> PROVE worker'[v] = "run"
    <3>1. CASE v # t
      <4>1. stack'[v] = stack[v]
        BY <3>1, <1>1, <1>4, ThreadNames DEF Finish, Popped
      <4> QED BY <4>1, <3>1, <2>5, <2>2, <2>3 DEF PlacesOK, Places, OnTheRolls
    <3>2. CASE v = t
      <4>1. stack'[t] = SubSeq(stack[t], 1, Len(stack[t]) - 1)
        BY <1>1, <1>4 DEF Finish, Popped
      <4>2. stack'[t] \in Seq(Items) /\ Len(stack'[t]) = Len(stack[t]) - 1 /\ Len(stack[t]) \in Nat
        BY <4>1, <1>1, Curtailed
      <4>3. Len(stack[t]) # 1
        <5>1. \A s \in Seq(Items) : Len(s) = 0 => s = <<>>
          BY EmptySeq
        <5>2. stack'[t] # <<>>
          BY <3>2, <2>5
        <5>3. Len(stack'[t]) # 0
          BY <5>1, <5>2, <4>2
        <5> QED BY <5>3, <4>2
      <4> QED BY <4>3, <3>2, <2>2, <2>3, ThreadNames
    <3> QED BY <3>1, <3>2
  <2>6. Places'
    BY <2>1, <2>4 DEF PlacesOK, Places, pool
  <2> QED BY <2>1, <2>4, <2>5, <2>6 DEF PlacesOK, OnTheRolls, pool
<1> QED BY <1>2, <1>3, <1>4 DEF Running

\* Only the main thread's stack changes.
LEMMA OthersIdle ==
    ASSUME PlacesOK, NEW x, stack' = [stack EXCEPT ![Main] = x]
    PROVE  \A w \in Workers : stack'[w] = stack[w]
BY ThreadNames DEF PlacesOK, JobsOK, JobsInv, JobTypes

LEMMA StoppedIsWorker ==
    ASSUME JobsOK, stack[Main] # <<>>
    PROVE  /\ Top(Main) \in Items
           /\ Top(Main).kind = "stopped" => Top(Main).of \in Workers
<1>1. stack[Main] \in Seq(Items)
  BY ThreadNames DEF JobsOK, JobsInv, JobTypes
<1>2. Len(stack[Main]) \in 1..Len(stack[Main])
  BY <1>1, LenProperties, EmptySeq
<1>3. Top(Main) \in Items
  BY <1>1, <1>2, ElementOfSeq DEF Top
<1> QED BY <1>3 DEF Items

LEMMA PlacesStops ==
    ASSUME PlacesOK, StopJoin \/ StopFlush
    PROVE  Places' /\ OnTheRolls'
<1>1. stack[Main] # <<>> /\ stack \in [Threads -> Seq(Items)]
  BY DEF StopJoin, StopFlush, PlacesOK, JobsOK, JobsInv, JobTypes
<1>2. \A w \in Workers : stack'[w] = stack[w]
  BY <1>1, ThreadNames DEF StopJoin, StopFlush, DoWork, Popped
<1>3. CASE StopFlush
  BY <1>2, <1>3 DEF StopFlush, PlacesOK, Places, OnTheRolls, pool
<1>4. CASE StopJoin
  <2> DEFINE w == Top(Main).of
  <2>1. w \in Workers /\ worker[w] = "exited"
        /\ thread' = [thread EXCEPT ![w] = FALSE] /\ worker' = [worker EXCEPT ![w] = "gone"]
    BY <1>1, <1>4, StoppedIsWorker DEF StopJoin, PlacesOK
  <2>2. UNCHANGED <<main, after, awaited, noflush, request, ackseq, acksequence, error, count,
                    stopping, calls>>
    BY <1>4 DEF StopJoin
  <2> HIDE DEF w
  <2>3. Places'
    BY <2>1, <2>2 DEF PlacesOK, Places, WorkerPlaces
  <2>4. \A v \in Workers : thread'[v] <=> worker'[v] # "gone"
    BY <2>1 DEF PlacesOK, Places, OnTheRolls
  <2>5. \A v \in Workers : stack'[v] # <<>> => worker'[v] = "run"
    BY <2>1, <1>2 DEF PlacesOK, Places, OnTheRolls
  <2> QED BY <2>2, <2>3, <2>4, <2>5 DEF PlacesOK, OnTheRolls
<1> QED BY <1>3, <1>4

LEMMA PlacesAddRoot ==
    ASSUME PlacesOK, NEW j \in Roots, NEW atHead \in BOOLEAN, AddRoot(j, atHead)
    PROVE  Places' /\ OnTheRolls'
BY PlacesAdd, ThreadNames DEF AddRoot

LEMMA PlacesLoop ==
    ASSUME PlacesOK, MainLoops \/ \E j \in MainJobs : PartialSync(j)
    PROVE  Places' /\ OnTheRolls'
<1>1. \A w \in Workers : stack'[w] = stack[w]
  <2>1. (\E g \in Lists : DoWork(Main, g)) \/ stack' = stack
    BY DEF MainLoops, Poll, SyncFlush, SyncWork, Boost, PartialWork, LockWork, UnlockWork,
       CountWork, DestroyWork, CloseWork, Loop, PartialSync, Lists
  <2> QED BY <2>1, OthersIdle DEF DoWork
<1>2. UNCHANGED <<after, pool, error, worker>>
  BY DEF MainLoops, Poll, SyncFlush, SyncWork, Boost, PartialWork, LockWork, UnlockWork,
     CountWork, DestroyWork, CloseWork, Loop, PartialSync
<1>3. awaited' \in MainJobs \cup {0} /\ calls' \in 0..MaxCalls
  BY PoolAssumption DEF MainLoops, Poll, SyncFlush, SyncWork, Boost, PartialWork, LockWork,
     UnlockWork, CountWork, DestroyWork, CloseWork, Loop, PartialSync, PlacesOK, Places, Call
<1>4. main' \in MainPlaces /\ main \notin {"fatal"} /\ (main = "locking" => main' = "locking")
  BY DEF MainLoops, Poll, SyncFlush, SyncWork, Boost, PartialWork, LockWork, UnlockWork,
     CountWork, DestroyWork, CloseWork, PartialSync, Call, At, AtTurn, Goto, MainPlaces
<1> QED BY <1>1, <1>2, <1>3, <1>4 DEF PlacesOK, Places, OnTheRolls, pool

LEMMA Called ==
    ASSUME PlacesOK, NEW c, Call(c)
    PROVE  calls' \in 0..MaxCalls /\ main = "idle"
BY PoolAssumption DEF PlacesOK, Places, Call, At

LEMMA PlacesMoves ==
    ASSUME PlacesOK, MainMoves
    PROVE  Places' /\ OnTheRolls'
<1>1. UNCHANGED <<awaited, stack, live, noflush, thread, request, ackseq, acksequence, error,
                  worker, stopping>>
  BY DEF MainMoves, SyncNobody, SyncIdle, SyncWait, SyncWoken, SyncEnd, BoostEnd, Boosted,
     PartialRan, PartialWait, PartialWoken, UnlockEnd, DestroySync, Close, FullSync, MainAbort,
     MainSpurious, CountChange, pool
<1>2. /\ main' \in MainPlaces
      /\ noflush => main' \in {"locking", "fatal"}
  <2>1. CASE MainAbort
    BY <2>1 DEF MainAbort, MainPlaces
  <2>2. CASE MainSpurious
    BY <2>2, MainWoken DEF MainSpurious, PlacesOK, OnTheRolls, Places
  <2>3. CASE ~MainAbort /\ ~MainSpurious
    <3>1. main \notin {"locking", "fatal"}
      BY <2>3 DEF MainMoves, SyncNobody, SyncIdle, SyncWait, SyncWoken, SyncEnd, BoostEnd, Boosted,
         PartialRan, PartialWait, PartialWoken, UnlockEnd, DestroySync, Close, FullSync, CountChange,
         At, AtTurn, Call
    <3>2. main' \in MainPlaces
      BY <2>3 DEF MainMoves, SyncNobody, SyncIdle, SyncWait, SyncWoken, SyncEnd, BoostEnd, Boosted,
         PartialRan, PartialWait, PartialWoken, UnlockEnd, DestroySync, Close, FullSync, CountChange,
         Goto, MainPlaces, PlacesOK, Places
    <3> QED BY <3>1, <3>2 DEF PlacesOK, OnTheRolls
  <2> QED BY <2>1, <2>2, <2>3
<1>3. /\ after' \in {"idle", "closing"}
      /\ count' \in 0..NumWorkers
      /\ calls' \in 0..MaxCalls
  <2>1. CASE FullSync
    BY <2>1, Called DEF FullSync, pool, PlacesOK, Places
  <2>3. CASE \E n \in 0..NumWorkers : CountChange(n)
    <3>1. PICK n \in 0..NumWorkers : CountChange(n)
      BY <2>3
    <3>2. calls' \in 0..MaxCalls /\ count' = n /\ after' = after
      BY <3>1, Called DEF CountChange
    <3> QED BY <3>2 DEF PlacesOK, Places
  <2>2. CASE ~(FullSync \/ \E n \in 0..NumWorkers : CountChange(n))
    BY <2>2 DEF MainMoves, SyncNobody, SyncIdle, SyncWait, SyncWoken, SyncEnd, BoostEnd, Boosted,
       PartialRan, PartialWait, PartialWoken, UnlockEnd, DestroySync, Close, MainAbort,
       MainSpurious, pool, PlacesOK, Places
  <2> QED BY <2>1, <2>2, <2>3
<1> QED BY <1>1, <1>2, <1>3 DEF PlacesOK, Places, OnTheRolls

LEMMA PlacesAsks ==
    ASSUME PlacesOK, MainAsks
    PROVE  Places' /\ OnTheRolls'
<1>1. UNCHANGED <<after, awaited, stack, noflush, thread, ackseq, error, count, stopping, calls>>
  BY DEF MainAsks, SyncBegin, SyncAsk, SyncRan
<1>2. /\ main' \in MainPlaces /\ acksequence' \in Nat
      /\ request' \in [Workers -> {"none", "die", "ack"}]
      /\ main \notin {"locking", "fatal"}
  BY DEF MainAsks, SyncBegin, SyncAsk, SyncRan, Ask, At, Goto, MainPlaces, PlacesOK, Places
<1>3. /\ worker' \in [Workers -> WorkerPlaces]
      /\ \A w \in Workers : worker'[w] = worker[w]
                            \/ (worker[w] = "asleep" /\ worker'[w] = "ready")
  <2>1. worker' = worker \/ worker' = Awake
    BY DEF MainAsks, SyncBegin, SyncAsk, SyncRan
  <2> QED BY <2>1, Woken DEF PlacesOK, Places
<1> QED BY <1>1, <1>2, <1>3 DEF PlacesOK, Places, OnTheRolls

LEMMA PlacesStaffs ==
    ASSUME PlacesOK, MainStaffs
    PROVE  Places' /\ OnTheRolls'
<1>1. UNCHANGED <<after, awaited, stack, ackseq, acksequence, error, count>>
  BY DEF MainStaffs, Lock, LockEnd, Unlock, CountFlags, CountWake, Destroy, pool
<1>2. /\ main' \in MainPlaces
      /\ noflush' \in BOOLEAN /\ (noflush' => main' = "locking")
      /\ calls' \in 0..MaxCalls /\ stopping' \subseteq Workers
  <2>1. CASE Lock
    <3>1. calls' \in 0..MaxCalls /\ main = "idle"
      BY <2>1, Called DEF Lock
    <3>2. main' \in {"locking", "locked"} /\ stopping' \subseteq Workers
      BY <2>1 DEF Lock, Goto
    <3>3. noflush' \in BOOLEAN /\ (noflush' => main' = "locking")
      BY <2>1, <3>1 DEF Lock, Goto, PlacesOK, Places, OnTheRolls
    <3> QED BY <3>1, <3>2, <3>3 DEF MainPlaces
  <2>3. CASE LockEnd
    BY <2>3 DEF LockEnd, Goto, MainPlaces, PlacesOK, Places
  <2>2. CASE Unlock \/ CountFlags \/ CountWake \/ Destroy
    <3>1. main \notin {"locking", "fatal"} /\ noflush' = noflush
          /\ main' \in {"unlocking", "idle", "countwake", "destroy"}
      BY <2>2 DEF Unlock, CountFlags, CountWake, Destroy, Call, At, Goto, pool
    <3>2. stopping' \subseteq Workers /\ calls' \in 0..MaxCalls
      BY <2>2, Called DEF Unlock, CountFlags, CountWake, Destroy, pool, PlacesOK, Places
    <3> QED BY <3>1, <3>2 DEF MainPlaces, PlacesOK, Places, OnTheRolls
  <2> QED BY <2>1, <2>2, <2>3 DEF MainStaffs
<1>3. request' \in [Workers -> {"none", "die", "ack"}]
  BY DEF MainStaffs, Lock, LockEnd, Unlock, CountFlags, CountWake, Destroy, pool, AllDie,
     PlacesOK, Places
<1>4. CASE Unlock \/ CountFlags
  <2>1. Create(count)
    BY <1>4 DEF Unlock, CountFlags
  <2>2. thread' \in [Workers -> BOOLEAN] /\ worker' \in [Workers -> WorkerPlaces]
    BY <2>1 DEF Create, Created, PlacesOK, Places, WorkerPlaces
  <2>3. \A w \in Workers : \/ thread'[w] = thread[w] /\ worker'[w] = worker[w]
                           \/ ~thread[w] /\ thread'[w] /\ worker'[w] = "starting"
    BY <2>1 DEF Create, Created, PlacesOK, Places
  <2> QED BY <1>1, <1>2, <1>3, <2>2, <2>3 DEF PlacesOK, Places, OnTheRolls
<1>5. CASE ~(Unlock \/ CountFlags)
  <2>1. thread' = thread /\ (worker' = worker \/ worker' = Awake)
    BY <1>5 DEF MainStaffs, Lock, LockEnd, CountWake, Destroy, pool
  <2>2. /\ worker' \in [Workers -> WorkerPlaces]
        /\ \A w \in Workers : worker'[w] = worker[w]
                            \/ (worker[w] = "asleep" /\ worker'[w] = "ready")
    BY <2>1, Woken DEF PlacesOK, Places
  <2> QED BY <1>1, <1>2, <1>3, <2>1, <2>2 DEF PlacesOK, Places, OnTheRolls
<1> QED BY <1>4, <1>5

LEMMA PlacesStep ==
    ASSUME PlacesOK, [Next]_vars
    PROVE  PlacesOK'
<1>1. JobsOK'
  BY JobsStep DEF PlacesOK
<1>2. CASE UNCHANGED vars
  BY <1>2 DEF vars, PlacesOK, Places, OnTheRolls, JobsOK
<1>3. CASE Places' /\ OnTheRolls'
  BY <1>1, <1>3 DEF PlacesOK
<1> QED BY <1>2, <1>3, Steps, PlacesWorker, PlacesTake, PlacesRunning, PlacesStops, PlacesAddRoot,
       PlacesLoop, PlacesMoves, PlacesAsks, PlacesStaffs

-----------------------------------------------------------------------------
(* com_liveworkers. *)

LiveOnes == {w \in Workers : Live(w)}

Counted == live = Cardinality(LiveOnes)

LEMMA LiveFinite ==
    /\ IsFiniteSet(LiveOnes) /\ Cardinality(LiveOnes) \in Nat
    /\ (Cardinality(LiveOnes) = 0 <=> LiveOnes = {})
<1>1. IsFiniteSet(Workers)
  BY PoolAssumption, FS_Interval DEF Workers
<1>2. IsFiniteSet(LiveOnes)
  BY <1>1, FS_Subset DEF LiveOnes
<1> QED BY <1>2, FS_CardinalityType, FS_EmptySet

\* The steps that begin or join a worker, and all others.
LEMMA LiveChanges ==
    ASSUME PlacesOK, [Next]_vars
    PROVE  \/ live' = live /\ LiveOnes' = LiveOnes
           \/ \E w \in Workers : w \notin LiveOnes /\ live' = live + 1 /\ LiveOnes' = LiveOnes \cup {w}
           \/ \E w \in Workers : w \in LiveOnes /\ live' = live - 1 /\ LiveOnes' = LiveOnes \ {w}
<1>1. ASSUME live' = live, worker' = worker
      PROVE  live' = live /\ LiveOnes' = LiveOnes
  BY <1>1 DEF LiveOnes, Live
<1>2. ASSUME live' = live, NEW w \in Workers, Live(w),
             \E p \in WorkerPlaces \ {"gone", "starting"} : worker' = [worker EXCEPT ![w] = p]
      PROVE  live' = live /\ LiveOnes' = LiveOnes
  BY <1>2 DEF LiveOnes, Live, PlacesOK, Places
<1>3. ASSUME live' = live, SignalLoader \/ worker' = Awake
      PROVE  live' = live /\ LiveOnes' = LiveOnes
  BY <1>3, Woken DEF LiveOnes, Live, PlacesOK
<1>4. ASSUME NEW w \in Workers, WorkerTurns(w) \/ WTake(w) \/ WLeave(w) \/ Report(w) \/ Abort(w),
             ~WStart(w)
      PROVE  live' = live /\ LiveOnes' = LiveOnes
  <2>1. live' = live
    BY <1>4 DEF WorkerTurns, WLeave, Report, Abort, WTake, WDie, WAck, WAcked, WLook, WSleep, pool
  <2>2. Live(w)
    BY <1>4 DEF WorkerTurns, WLeave, Report, Abort, WTake, WDie, WAck, WAcked, WLook, WSleep,
       Done, Has, Live
  <2>3. \E p \in WorkerPlaces \ {"gone", "starting"} : worker' = [worker EXCEPT ![w] = p]
    BY <1>4 DEF WorkerPlaces, WorkerTurns, WLeave, Report, Abort, WTake, WDie, WAck, WAcked, WLook, WSleep
  <2> QED BY <2>1, <2>2, <2>3, <1>2
<1>5. ASSUME NEW w \in Workers, WStart(w)
      PROVE  w \notin LiveOnes /\ live' = live + 1 /\ LiveOnes' = LiveOnes \cup {w}
  <2>1. worker' = [worker EXCEPT ![w] = "holding"] /\ worker[w] = "starting" /\ live' = live + 1
    BY <1>5 DEF WStart
  <2>2. \A v \in Workers : worker'[v] = IF v = w THEN "holding" ELSE worker[v]
    BY <2>1 DEF PlacesOK, Places
  <2> QED BY <2>1, <2>2 DEF LiveOnes, Live
<1>6. ASSUME NEW t \in Threads, Running(t)
      PROVE  live' = live /\ LiveOnes' = LiveOnes
  <2>1. live' = live
    BY <1>6 DEF Running, PostLoader, PostMain, Finish, pool
  <2>2. CASE worker' = worker BY <2>1, <2>2, <1>1
  <2>3. CASE SignalLoader BY <2>1, <2>3, <1>3
  <2>4. CASE Finish(t) /\ worker' # worker
    <3>1. stack[t] # <<>> /\ t \in Workers /\ worker' = [worker EXCEPT ![t] = "ran"]
      BY <2>4 DEF Finish, Runs, Threads
    <3>2. Live(t)
      BY <3>1 DEF PlacesOK, OnTheRolls, Live
    <3>3. "ran" \in WorkerPlaces \ {"gone", "starting"}
      BY DEF WorkerPlaces
    <3> QED BY <2>1, <3>1, <3>2, <3>3, <1>2
  <2> QED BY <1>6, <2>2, <2>3, <2>4 DEF Running, PostLoader, PostMain, AddLoader
<1>7. ASSUME StopJoin
      PROVE  \E w \in Workers : w \in LiveOnes /\ live' = live - 1 /\ LiveOnes' = LiveOnes \ {w}
  <2> DEFINE w == Top(Main).of
  <2>1. w \in Workers /\ worker[w] = "exited" /\ worker' = [worker EXCEPT ![w] = "gone"]
        /\ live' = live - 1
    BY <1>7, StoppedIsWorker DEF StopJoin, PlacesOK
  <2> HIDE DEF w
  <2>2. \A v \in Workers : worker'[v] = IF v = w THEN "gone" ELSE worker[v]
    BY <2>1 DEF PlacesOK, Places
  <2>3. w \in LiveOnes /\ LiveOnes' = LiveOnes \ {w}
    BY <2>1, <2>2 DEF LiveOnes, Live
  <2> QED BY <2>1, <2>3
<1>8. ASSUME StopFlush \/ MainLoops \/ \E j \in MainJobs : PartialSync(j)
      PROVE  live' = live /\ LiveOnes' = LiveOnes
  BY <1>8, <1>1 DEF StopFlush, MainLoops, Poll, SyncFlush, SyncWork, Boost, PartialWork, LockWork,
     UnlockWork, CountWork, DestroyWork, CloseWork, Loop, PartialSync, pool
<1>9. ASSUME NEW j \in Roots, NEW atHead \in BOOLEAN, AddRoot(j, atHead)
      PROVE  live' = live /\ LiveOnes' = LiveOnes
  BY <1>9, <1>1, <1>3 DEF AddRoot, AddLoader, pool
<1>10. ASSUME MainMoves
       PROVE  live' = live /\ LiveOnes' = LiveOnes
  BY <1>10, <1>1 DEF MainMoves, SyncNobody, SyncIdle, SyncWait, SyncWoken, SyncEnd, BoostEnd,
     Boosted, PartialRan, PartialWait, PartialWoken, UnlockEnd, DestroySync, Close, FullSync,
     MainAbort, MainSpurious, CountChange, pool
<1>11. ASSUME MainAsks
       PROVE  live' = live /\ LiveOnes' = LiveOnes
  BY <1>11, <1>1, <1>3 DEF MainAsks, SyncBegin, SyncAsk, SyncRan
<1>12. ASSUME MainStaffs
       PROVE  live' = live /\ LiveOnes' = LiveOnes
  <2>1. live' = live
    BY <1>12 DEF MainStaffs, Lock, LockEnd, Unlock, CountFlags, CountWake, Destroy, pool
  <2>2. CASE Unlock \/ CountFlags
    <3>1. Create(count)
      BY <2>2 DEF Unlock, CountFlags
    <3>2. \A v \in Workers : \/ worker'[v] = worker[v]
                             \/ worker[v] = "gone" /\ worker'[v] = "starting"
      BY <3>1 DEF Create, Created, PlacesOK, OnTheRolls
    <3> QED BY <2>1, <3>2 DEF LiveOnes, Live
  <2>3. CASE Lock \/ LockEnd \/ CountWake \/ Destroy
    BY <2>1, <2>3, <1>1, <1>3 DEF Lock, LockEnd, CountWake, Destroy, pool
  <2> QED BY <1>12, <2>2, <2>3 DEF MainStaffs
<1>13. ASSUME UNCHANGED vars
       PROVE  live' = live /\ LiveOnes' = LiveOnes
  BY <1>13, <1>1 DEF vars
<1> QED BY Steps, <1>4, <1>5, <1>6, <1>7, <1>8, <1>9, <1>10, <1>11, <1>12, <1>13

LEMMA CountedStep ==
    ASSUME PlacesOK, Counted, [Next]_vars
    PROVE  Counted'
<1>1. CASE live' = live /\ LiveOnes' = LiveOnes
  BY <1>1 DEF Counted
<1>2. ASSUME NEW w \in Workers, w \notin LiveOnes, live' = live + 1, LiveOnes' = LiveOnes \cup {w}
      PROVE  Counted'
  BY <1>2, LiveFinite, FS_AddElement DEF Counted
<1>3. ASSUME NEW w \in Workers, w \in LiveOnes, live' = live - 1, LiveOnes' = LiveOnes \ {w}
      PROVE  Counted'
  BY <1>3, LiveFinite, FS_RemoveElement DEF Counted
<1> QED BY <1>1, <1>2, <1>3, LiveChanges

RosterOK == PlacesOK /\ Counted

LEMMA RosterInit ==
    ASSUME Init
    PROVE  RosterOK
<1>1. JobsOK
  BY JobsInit
<1>2. Places
  <2>1. main \in MainPlaces /\ "starting" \in WorkerPlaces
    BY DEF Init, MainPlaces, WorkerPlaces
  <2>2. /\ worker \in [Workers -> WorkerPlaces]
        /\ thread \in [Workers -> BOOLEAN]
        /\ request \in [Workers -> {"none", "die", "ack"}]
        /\ ackseq \in [Workers -> Nat]
    BY <2>1 DEF Init
  <2>3. count \in 0..NumWorkers /\ calls \in 0..MaxCalls
    BY PoolAssumption DEF Init
  <2> QED BY <2>1, <2>2, <2>3 DEF Init, Places
<1>3. OnTheRolls
  BY ThreadNames DEF Init, OnTheRolls, Threads
<1>4. LiveOnes = {} /\ live = 0
  BY DEF Init, LiveOnes, Live
<1>5. Counted
  BY <1>4, FS_EmptySet DEF Counted
<1> QED BY <1>1, <1>2, <1>3, <1>5 DEF RosterOK, PlacesOK

LEMMA RosterStep ==
    ASSUME RosterOK, [Next]_vars
    PROVE  RosterOK'
BY PlacesStep, CountedStep DEF RosterOK

LEMMA Roster == Spec => []RosterOK
<1>1. Init => RosterOK
  BY RosterInit
<1>2. RosterOK /\ [Next]_vars => RosterOK'
  BY RosterStep
<1> QED BY <1>1, <1>2, PTL DEF Spec

\* Types; COM_DoWork begins no job twice, and com_liveworkers counts the workers
\* that have begun and are not joined, whatever is called and however many there
\* are.
THEOREM TypeCorrect == Spec => []TypeOK
<1>1. RosterOK => TypeOK
  BY DEF RosterOK, Counted, LiveOnes, PlacesOK, Places, JobsOK, JobsInv, JobTypes, Lists, Threads,
     TypeOK
<1> QED BY <1>1, Roster, PTL

-----------------------------------------------------------------------------
(* What steps leave alone, by who takes them. *)

WorkerSteps(w) ==
    WorkerTurns(w) \/ WTake(w) \/ WLeave(w) \/ Report(w) \/ Abort(w) \/ Running(w)

\* The main thread inside something it runs.
MainNested == Running(Main) \/ StopJoin \/ StopFlush

\* Nobody new starts, and who is gone stays so.
NoneStarts == \A v \in Workers : /\ worker'[v] = "starting" => worker[v] = "starting"
                                 /\ worker[v] = "gone" => worker'[v] = "gone"

LEMMA StepsByThread ==
    ASSUME [Next]_vars
    PROVE  \/ \E w \in Workers : WorkerSteps(w)
           \/ MainNested
           \/ \E j \in Roots, atHead \in BOOLEAN : AddRoot(j, atHead)
           \/ MainLoops \/ \E j \in MainJobs : PartialSync(j)
           \/ MainMoves \/ MainAsks \/ MainStaffs
           \/ UNCHANGED vars
BY Steps DEF WorkerSteps, MainNested, Threads

LEMMA WorkerSide ==
    ASSUME PlacesOK, NEW w \in Workers, WorkerSteps(w)
    PROVE  /\ main' \in {main, MainAwake} /\ stack'[Main] = stack[Main]
           /\ UNCHANGED <<after, noflush, thread, acksequence, stopping>>
           /\ error => error'
           /\ thread[w] /\ NoneStarts
           /\ \/ WAck(w)
              \/ UNCHANGED <<request, ackseq>>
<1>1. stack \in [Threads -> Seq(Items)] /\ w \in Threads /\ Main \in Threads /\ w # Main
  BY ThreadNames DEF PlacesOK, JobsOK, JobsInv, JobTypes
<1>2. CASE Running(w)
  <2>1. /\ main' \in {main, MainAwake} /\ UNCHANGED <<after, pool, error>>
    BY <1>2 DEF Running, PostLoader, PostMain, Finish
  <2>2. stack'[Main] = stack[Main]
    BY <1>1, <1>2 DEF Running, PostLoader, PostMain, Finish, AddLoader, Popped
  <2>3. stack[w] # <<>> /\ worker[w] = "run" /\ thread[w]
    BY <1>2 DEF Running, PostLoader, PostMain, Finish, Runs, PlacesOK, OnTheRolls
  <2>4. \/ SignalLoader
        \/ worker' = worker
        \/ worker' = [worker EXCEPT ![w] = "ran"]
    BY <1>2 DEF Running, PostLoader, PostMain, Finish, AddLoader
  <2>5. NoneStarts
    <3>1. CASE SignalLoader BY <3>1, Woken DEF NoneStarts, PlacesOK
    <3>2. CASE ~SignalLoader BY <2>3, <2>4, <3>2 DEF NoneStarts, PlacesOK, Places
    <3> QED BY <3>1, <3>2
  <2> QED BY <2>1, <2>2, <2>3, <2>5 DEF pool
<1>3. CASE WTake(w)
  <2>1. UNCHANGED <<main, after, pool, error>> /\ worker' = [worker EXCEPT ![w] = "run"]
        /\ worker[w] # "gone"
    BY <1>3 DEF WTake, Has
  <2>2. stack'[Main] = stack[Main]
    BY <1>1, <1>3 DEF WTake, DoWork
  <2>3. NoneStarts /\ thread[w]
    BY <2>1 DEF NoneStarts, PlacesOK, Places, OnTheRolls
  <2> QED BY <2>1, <2>2, <2>3 DEF pool
<1>4. CASE WorkerTurns(w) \/ WLeave(w) \/ Report(w) \/ Abort(w)
  <2>1. /\ main' \in {main, MainAwake}
        /\ UNCHANGED <<after, noflush, thread, acksequence, stopping>>
    BY <1>4 DEF WorkerTurns, WLeave, Report, Abort, WStart, WDie, WAck, WAcked, WLook, WSleep, pool
  <2>2. stack'[Main] = stack[Main] /\ (error => error')
    BY <1>1, <1>4 DEF WorkerTurns, WLeave, Report, Abort, WStart, WDie, WAck, WAcked, WLook, WSleep
  <2>3. /\ worker[w] # "gone"
        /\ \E p \in WorkerPlaces \ {"gone", "starting"} : worker' = [worker EXCEPT ![w] = p]
    BY <1>4 DEF WorkerPlaces, WorkerTurns, WLeave, Report, Abort, WStart, WDie, WAck, WAcked,
       WLook, WSleep, Done, Has
  <2>4. NoneStarts /\ thread[w]
    BY <2>3 DEF NoneStarts, PlacesOK, Places, OnTheRolls
  <2>5. WAck(w) \/ UNCHANGED <<request, ackseq>>
    BY <1>4 DEF WorkerTurns, WLeave, Report, Abort, WStart, WDie, WAcked, WLook, WSleep, pool
  <2> QED BY <2>1, <2>2, <2>4, <2>5
<1> QED BY <1>2, <1>3, <1>4 DEF WorkerSteps

LEMMA MainSide ==
    ASSUME PlacesOK, MainNested
    PROVE  /\ stack[Main] # <<>> /\ main' \in {main, MainAwake}
           /\ UNCHANGED <<after, noflush, stopping, request, ackseq, acksequence, error>>
           /\ NoneStarts
<1>1. /\ stack[Main] # <<>> /\ main' \in {main, MainAwake}
      /\ UNCHANGED <<after, noflush, stopping, request, ackseq, acksequence, error>>
  BY DEF MainNested, Running, PostLoader, PostMain, Finish, Runs, StopJoin, StopFlush, pool
<1>2. CASE StopJoin
  <2>1. Top(Main).of \in Workers /\ worker' = [worker EXCEPT ![Top(Main).of] = "gone"]
    BY <1>2, StoppedIsWorker DEF StopJoin, PlacesOK
  <2> QED BY <1>1, <2>1 DEF NoneStarts, PlacesOK, Places
<1>3. CASE ~StopJoin
  <2>1. SignalLoader \/ worker' = worker
    BY <1>3 DEF MainNested, Running, PostLoader, PostMain, Finish, StopFlush, AddLoader
  <2> QED BY <1>1, <2>1, Woken DEF NoneStarts, PlacesOK
<1> QED BY <1>2, <1>3

LEMMA AddRootSide ==
    ASSUME PlacesOK, NEW j \in Roots, NEW atHead \in BOOLEAN, AddRoot(j, atHead)
    PROVE  /\ main = "idle" /\ main' = main
           /\ UNCHANGED <<after, noflush, stopping, thread, request, ackseq, acksequence, error>>
           /\ NoneStarts
<1>1. SignalLoader \/ worker' = worker
  BY DEF AddRoot, AddLoader
<1>2. NoneStarts
  BY <1>1, Woken DEF NoneStarts, PlacesOK
<1> QED BY <1>2 DEF AddRoot, At, pool

-----------------------------------------------------------------------------
(* Who was told to stop. *)

Turns == {"sync", "syncask", "syncturn", "syncwait", "syncwoken"}

AnswersInTime == \A w \in Workers : ackseq[w] <= acksequence

Gone == \A w \in stopping : worker[w] = "gone"

\* COM_DestroyWorkerThread keeps every worker told to die, so none answers and a
\* sync ends when all are joined; COM_WorkerLock waits until none is live.
Stopping ==
    /\ after = "closing" =>
          main \in Turns \cup {"flush", "syncran", "closing", "down", "fatal"}
    /\ main \in {"locking", "destroy"} \/ after = "closing" =>
          \A w \in stopping : worker[w] # "starting"
    /\ main = "destroy" \/ after = "closing" => \A w \in Workers : request[w] = "die"
    /\ after = "closing" /\ main \in Turns \cup {"syncran"} =>
          \A w \in Workers : ackseq[w] < acksequence
    /\ main \in {"closing", "down"} => after = "closing" /\ (~error => Gone)
    /\ main = "locked" => Gone

StoppingOK == RosterOK /\ AnswersInTime /\ Stopping

\* With com_liveworkers at 0 no worker is live.
LEMMA NoneLive ==
    ASSUME RosterOK, live = 0
    PROVE  \A w \in Workers : worker[w] \in {"gone", "starting"}
BY LiveFinite DEF RosterOK, Counted, LiveOnes, Live

LEMMA AnswersStep ==
    ASSUME RosterOK, AnswersInTime, [Next]_vars
    PROVE  AnswersInTime'
<1>0. ackseq \in [Workers -> Nat] /\ acksequence \in Nat
  BY DEF RosterOK, PlacesOK, Places
<1>1. ASSUME NEW w \in Workers, WorkerSteps(w) PROVE AnswersInTime'
  <2>1. acksequence' = acksequence /\ (WAck(w) \/ ackseq' = ackseq)
    BY <1>1, WorkerSide DEF RosterOK
  <2> QED BY <1>0, <2>1 DEF AnswersInTime, WAck
<1>2. CASE MainNested
  BY <1>2, MainSide DEF RosterOK, AnswersInTime
<1>3. CASE \E j \in Roots, atHead \in BOOLEAN : AddRoot(j, atHead)
  BY <1>3, AddRootSide DEF RosterOK, AnswersInTime
<1>4. CASE MainLoops \/ \E j \in MainJobs : PartialSync(j)
  BY <1>4 DEF MainLoops, Poll, SyncFlush, SyncWork, Boost, PartialWork, LockWork,
     UnlockWork, CountWork, DestroyWork, CloseWork, Loop, PartialSync, pool, AnswersInTime
<1>5. CASE MainMoves
  BY <1>5 DEF MainMoves, SyncNobody, SyncIdle, SyncWait, SyncWoken, SyncEnd, BoostEnd,
     Boosted, PartialRan, PartialWait, PartialWoken, UnlockEnd, DestroySync, Close, FullSync,
     MainAbort, MainSpurious, CountChange, pool, AnswersInTime
<1>6. CASE MainAsks
  BY <1>6, <1>0 DEF MainAsks, SyncBegin, SyncAsk, SyncRan, AnswersInTime
<1>7. CASE MainStaffs
  BY <1>7 DEF MainStaffs, Lock, LockEnd, Unlock, CountFlags, CountWake, Destroy, pool, AnswersInTime
<1>8. CASE UNCHANGED vars
  BY <1>8 DEF vars, AnswersInTime
<1> QED BY StepsByThread, <1>1, <1>2, <1>3, <1>4, <1>5, <1>6, <1>7, <1>8

\* Steps that bring the main thread nowhere else.
LEMMA StoppingKept ==
    ASSUME StoppingOK, main' \in {main, MainAwake}, UNCHANGED <<after, acksequence, stopping>>,
           error => error', NoneStarts,
           \A v \in Workers : request[v] = "die" => request'[v] = "die" /\ ackseq'[v] = ackseq[v]
    PROVE  Stopping'
<1>1. stopping \subseteq Workers
  BY DEF StoppingOK, RosterOK, PlacesOK, Places
<1>2. \/ main' = main
      \/ main = "syncwait" /\ main' = "syncwoken"
      \/ main = "partialwait" /\ main' = "partialwoken"
  BY MainWoken DEF StoppingOK, RosterOK, PlacesOK
<1>3. Gone => Gone'
  BY <1>1 DEF Gone, NoneStarts
<1>4. (\A w \in stopping : worker[w] # "starting") => \A w \in stopping' : worker'[w] # "starting"
  BY <1>1 DEF NoneStarts
<1>5. after = "closing" => \A w \in Workers : request[w] = "die" /\ request'[w] = "die"
                                              /\ ackseq'[w] = ackseq[w]
  BY DEF StoppingOK, Stopping
<1>6. CASE main' = main
  <2>1. main = "destroy" => \A w \in Workers : request'[w] = "die"
    BY DEF StoppingOK, Stopping
  <2> QED BY <1>6, <1>3, <1>4, <1>5, <2>1 DEF StoppingOK, Stopping
<1>7. CASE main' \in {"syncwoken", "partialwoken"}
  BY <1>7, <1>2, <1>4, <1>5 DEF StoppingOK, Stopping, Turns
<1> QED BY <1>2, <1>6, <1>7

LEMMA StoppingLoops ==
    ASSUME StoppingOK, MainLoops \/ \E j \in MainJobs : PartialSync(j)
    PROVE  Stopping'
<1>1. UNCHANGED <<after, stopping, worker, request, ackseq, acksequence, error>>
  BY DEF MainLoops, Poll, SyncFlush, SyncWork, Boost, PartialWork, LockWork,
     UnlockWork, CountWork, DestroyWork, CloseWork, Loop, PartialSync, pool
<1>2. \/ main' = main
      \/ main \in Turns /\ main' = "syncran"
      \/ main \in {"idle", "boost", "partial"} /\ main' \in {"boost", "boosted", "partialran"}
  BY DEF MainLoops, Poll, SyncFlush, SyncWork, Boost, PartialWork, LockWork, UnlockWork,
     CountWork, DestroyWork, CloseWork, PartialSync, Call, At, AtTurn, Goto, Turns
<1>3. Gone' = Gone
  BY <1>1 DEF Gone
<1> QED BY <1>1, <1>2, <1>3 DEF StoppingOK, Stopping, Turns

LEMMA StoppingMoves ==
    ASSUME StoppingOK, MainMoves
    PROVE  Stopping'
<1>1. UNCHANGED <<stopping, worker, request, ackseq, acksequence, error>>
  BY DEF MainMoves, SyncNobody, SyncIdle, SyncWait, SyncWoken, SyncEnd, BoostEnd, Boosted,
     PartialRan, PartialWait, PartialWoken, UnlockEnd, DestroySync, Close, FullSync, MainAbort,
     MainSpurious, CountChange, pool
<1>2. Gone' = Gone
  BY <1>1 DEF Gone
<1>3. after \in {"idle", "closing"} /\ stopping \subseteq Workers
  BY DEF StoppingOK, RosterOK, PlacesOK, Places
\* it goes on at after
<1>4. CASE SyncNobody \/ SyncEnd
  <2>1. main' = after /\ after' = after /\ main \in Turns \cup {"flush"}
    BY <1>4 DEF SyncNobody, SyncEnd, At, AtTurn, Goto, Turns
  <2>2. after = "closing" => Gone
    <3>1. CASE SyncNobody
      <4>1. live = 0
        BY <3>1, LiveFinite DEF SyncNobody, HasWorkers, StoppingOK, RosterOK, Counted
      <4> QED BY <4>1, <1>3, NoneLive DEF StoppingOK, Stopping, Gone
    <3>2. CASE SyncEnd /\ after = "closing"
      <4>1. \A w \in Workers : thread[w] => ackseq[w] = acksequence
        BY <3>2 DEF SyncEnd, Owed
      <4>2. \A w \in Workers : ackseq[w] < acksequence
        BY <3>2 DEF SyncEnd, AtTurn, At, StoppingOK, Stopping, Turns
      <4>3. \A w \in Workers : ackseq[w] \in Nat /\ acksequence \in Nat
        BY DEF StoppingOK, RosterOK, PlacesOK, Places
      <4>4. \A w \in Workers : ~thread[w]
        BY <4>1, <4>2, <4>3
      <4> QED BY <4>4, <1>3 DEF Gone, StoppingOK, RosterOK, PlacesOK, OnTheRolls
    <3> QED BY <1>4, <3>1, <3>2
  <2> QED BY <1>1, <1>2, <1>3, <2>1, <2>2 DEF StoppingOK, Stopping, Turns
<1>5. CASE SyncWoken
  <2>1. main' = (IF error THEN after ELSE "sync") /\ after' = after /\ main \in Turns
    BY <1>5 DEF SyncWoken, At, Goto, Turns, pool
  <2>2. CASE error
    BY <1>1, <1>2, <1>3, <2>1, <2>2 DEF StoppingOK, Stopping, Turns
  <2>3. CASE ~error
    BY <1>1, <1>2, <1>3, <2>1, <2>3 DEF StoppingOK, Stopping, Turns
  <2> QED BY <2>2, <2>3
<1>6. CASE SyncIdle \/ SyncWait
  <2>1. main' \in Turns /\ after' = after /\ main \in Turns
    BY <1>6 DEF SyncIdle, SyncWait, At, AtTurn, Goto, Turns
  <2> QED BY <1>1, <1>2, <1>3, <2>1 DEF StoppingOK, Stopping, Turns
<1>7. CASE BoostEnd \/ Boosted \/ PartialRan \/ PartialWait \/ PartialWoken \/ UnlockEnd
           \/ \E n \in 0..NumWorkers : CountChange(n)
  <2>1. /\ main' \in {"idle", "boost", "partial", "partialwait", "count"} /\ after' = after
        /\ main \notin Turns \cup {"flush", "syncran", "closing", "down", "fatal"}
    BY <1>7 DEF BoostEnd, Boosted, PartialRan, PartialWait, PartialWoken, UnlockEnd, CountChange,
       Call, At, Goto, Turns
  <2> QED BY <1>1, <1>2, <1>3, <2>1 DEF StoppingOK, Stopping, Turns
<1>8. CASE FullSync
  <2>1. main = "idle" /\ main' = "flush" /\ after' = "idle"
    BY <1>8 DEF FullSync, Call, At, Goto
  <2> QED BY <1>1, <1>2, <1>3, <2>1 DEF StoppingOK, Stopping, Turns
<1>9. CASE DestroySync
  <2>1. main = "destroy" /\ main' = "flush" /\ after' = "closing"
    BY <1>9 DEF DestroySync, At, Goto
  <2> QED BY <1>1, <1>2, <1>3, <2>1 DEF StoppingOK, Stopping, Turns
<1>10. CASE Close
  <2>1. main = "closing" /\ main' = "down" /\ after' = after
    BY <1>10 DEF Close, At, Goto
  <2> QED BY <1>1, <1>2, <1>3, <2>1 DEF StoppingOK, Stopping, Turns
<1>11. CASE MainAbort
  <2>1. main' = "fatal" /\ after' = after
    BY <1>11 DEF MainAbort
  <2> QED BY <1>1, <1>2, <1>3, <2>1 DEF StoppingOK, Stopping, Turns
<1>12. CASE MainSpurious
  <2>1. main' = MainAwake /\ after' = after
    BY <1>12 DEF MainSpurious
  <2> QED BY <1>1, <2>1, StoppingKept DEF NoneStarts
<1> QED BY <1>4, <1>5, <1>6, <1>7, <1>8, <1>9, <1>10, <1>11, <1>12 DEF MainMoves

LEMMA StoppingAsks ==
    ASSUME StoppingOK, MainAsks
    PROVE  Stopping'
<1>1. after' = after /\ stopping' = stopping /\ error' = error /\ ackseq' = ackseq
  BY DEF MainAsks, SyncBegin, SyncAsk, SyncRan
<1>2. /\ after \in {"idle", "closing"} /\ stopping \subseteq Workers /\ acksequence \in Nat
      /\ \A w \in Workers : ackseq[w] \in Nat
  BY DEF StoppingOK, RosterOK, PlacesOK, Places
<1>3. NoneStarts
  <2>1. worker' = worker \/ worker' = Awake
    BY DEF MainAsks, SyncBegin, SyncAsk, SyncRan
  <2> QED BY <2>1, Woken DEF NoneStarts, StoppingOK, RosterOK, PlacesOK
<1>4. \A w \in stopping : worker[w] # "starting" => worker'[w] # "starting"
  BY <1>2, <1>3 DEF NoneStarts
<1>5. \A w \in Workers : request[w] = "die" => request'[w] = "die"
  BY DEF MainAsks, SyncBegin, SyncAsk, SyncRan, Ask
<1>6. CASE SyncAsk
  <2>1. main \in Turns /\ main' \in Turns /\ acksequence' = acksequence
    BY <1>6 DEF SyncAsk, At, Goto, Turns
  <2> QED BY <1>1, <1>2, <1>4, <1>5, <2>1 DEF StoppingOK, Stopping, Turns
<1>7. CASE SyncBegin \/ SyncRan
  <2>1. /\ main \in {"flush", "syncran"}
        /\ main' = "sync" \/ (main' = after /\ error)
        /\ acksequence' = acksequence + 1 /\ worker' = worker
    BY <1>7 DEF SyncBegin, SyncRan, At, Goto
  <2>2. \A w \in Workers : ackseq[w] < acksequence'
    BY <1>2, <2>1 DEF StoppingOK, AnswersInTime
  <2>3. CASE main' = "sync"
    BY <1>1, <1>2, <1>4, <1>5, <2>1, <2>2, <2>3 DEF StoppingOK, Stopping, Turns
  <2>4. CASE main' = after /\ error
    BY <1>1, <1>2, <1>4, <1>5, <2>1, <2>2, <2>4 DEF StoppingOK, Stopping, Turns
  <2> QED BY <2>1, <2>3, <2>4
<1> QED BY <1>6, <1>7 DEF MainAsks

LEMMA StoppingStaffs ==
    ASSUME StoppingOK, MainStaffs
    PROVE  Stopping'
<1>1. after' = after /\ error' = error /\ ackseq' = ackseq /\ acksequence' = acksequence
  BY DEF MainStaffs, Lock, LockEnd, Unlock, CountFlags, CountWake, Destroy, pool
<1>2. stopping \subseteq Workers /\ after \in {"idle", "closing"}
  BY DEF StoppingOK, RosterOK, PlacesOK, Places
<1>3. main \in {"idle", "locking", "locked", "count", "countwake"} /\ after # "closing"
  <2>1. main \in {"idle", "locking", "locked", "count", "countwake"}
    BY DEF MainStaffs, Lock, LockEnd, Unlock, CountFlags, CountWake, Destroy, Call, At
  <2> QED BY <2>1 DEF StoppingOK, Stopping, Turns
<1>4. CASE Unlock \/ CountFlags \/ CountWake
  <2>1. main' \in {"unlocking", "idle", "countwake"}
    BY <1>4 DEF Unlock, CountFlags, CountWake, Goto
  <2> QED BY <1>1, <1>3, <2>1 DEF Stopping
<1>5. CASE Lock \/ Destroy
  <2>1. stopping' = {w \in Workers : Live(w)}
    BY <1>5 DEF Lock, Destroy
  <2>2. worker' = worker \/ worker' = Awake
    BY <1>5 DEF Lock, Destroy
  <2>3. \A w \in Workers : worker[w] # "starting" => worker'[w] # "starting"
    BY <2>2, Woken DEF StoppingOK, RosterOK, PlacesOK
  <2>4. \A w \in stopping' : worker'[w] # "starting"
    BY <2>1, <2>3 DEF Live
  <2>5. CASE Lock
    <3>1. CASE HasWorkers
      <4>1. main' = "locking"
        BY <2>5, <3>1 DEF Lock, Goto
      <4> QED BY <1>1, <1>3, <2>4, <4>1 DEF Stopping
    <3>2. CASE ~HasWorkers
      <4>1. main' = "locked" /\ worker' = worker
        BY <2>5, <3>2 DEF Lock, Goto
      <4>2. live = 0
        BY <3>2, LiveFinite DEF HasWorkers, StoppingOK, RosterOK, Counted
      <4>3. \A w \in stopping' : worker'[w] = "gone"
        BY <2>1, <4>1, <4>2, NoneLive DEF Live, StoppingOK
      <4> QED BY <1>1, <1>3, <4>1, <4>3 DEF Stopping, Gone
    <3> QED BY <3>1, <3>2
  <2>6. CASE Destroy
    <3>1. main' = "destroy" /\ \A w \in Workers : request'[w] = "die"
      BY <2>6 DEF Destroy, Goto, AllDie
    <3> QED BY <1>1, <1>3, <2>4, <3>1 DEF Stopping
  <2> QED BY <1>5, <2>5, <2>6
<1>6. CASE LockEnd
  <2>1. main = "locking" /\ main' = "locked" /\ live = 0 /\ worker' = worker /\ stopping' = stopping
    BY <1>6 DEF LockEnd, At, Goto
  <2>2. Gone'
    BY <1>2, <2>1, NoneLive DEF StoppingOK, Stopping, Gone
  <2> QED BY <1>1, <1>3, <2>1, <2>2 DEF Stopping
<1> QED BY <1>4, <1>5, <1>6 DEF MainStaffs

LEMMA StoppingStep ==
    ASSUME StoppingOK, [Next]_vars
    PROVE  StoppingOK'
<1>1. RosterOK' /\ AnswersInTime'
  BY RosterStep, AnswersStep DEF StoppingOK
<1>2. PlacesOK
  BY DEF StoppingOK, RosterOK
<1>3. ASSUME NEW w \in Workers, WorkerSteps(w) PROVE Stopping'
  <2>1. \A v \in Workers : request[v] = "die" => request'[v] = "die" /\ ackseq'[v] = ackseq[v]
    <3>1. CASE WAck(w)
      BY <3>1, <1>2 DEF WAck, PlacesOK, Places
    <3>2. CASE UNCHANGED <<request, ackseq>>
      BY <3>2
    <3> QED BY <1>2, <1>3, <3>1, <3>2, WorkerSide
  <2> QED BY <1>2, <1>3, <2>1, WorkerSide, StoppingKept
<1>4. ASSUME MainNested PROVE Stopping'
  BY <1>2, <1>4, MainSide, StoppingKept
<1>5. ASSUME \E j \in Roots, atHead \in BOOLEAN : AddRoot(j, atHead) PROVE Stopping'
  BY <1>2, <1>5, AddRootSide, StoppingKept
<1>6. ASSUME UNCHANGED vars PROVE Stopping'
  BY <1>6, StoppingKept DEF vars, NoneStarts
<1>7. Stopping'
  BY StepsByThread, <1>3, <1>4, <1>5, <1>6, StoppingLoops, StoppingMoves, StoppingAsks, StoppingStaffs
<1> QED BY <1>1, <1>7 DEF StoppingOK

LEMMA StoppingInit ==
    ASSUME Init
    PROVE  StoppingOK
<1>1. main = "idle" /\ after = "idle" /\ acksequence = 0 /\ \A w \in Workers : ackseq[w] = 0
  BY DEF Init
<1>2. AnswersInTime
  BY <1>1 DEF AnswersInTime
<1>3. Stopping
  BY <1>1 DEF Stopping
<1> QED BY <1>2, <1>3, RosterInit DEF StoppingOK

LEMMA StoppingHolds == Spec => []StoppingOK
<1> QED BY StoppingInit, StoppingStep, PTL DEF Spec

\* COM_WorkerLock and COM_DestroyWorkerThread: whoever ran when they were called
\* is joined when they return, for every number of workers and whatever is queued,
\* running or failing meanwhile.
THEOREM StopsJoined == Spec => []StopsAreJoined
<1>1. StoppingOK => StopsAreJoined
  BY DEF StoppingOK, Stopping, Gone, StopsAreJoined
<1> QED BY <1>1, StoppingHolds, PTL

-----------------------------------------------------------------------------
(* Stacks. *)

LEMMA Extended ==
    ASSUME NEW s \in Seq(Items), NEW r \in Seq(Items)
    PROVE  /\ s \o r \in Seq(Items)
           /\ \A i \in 1..Len(s) : i \in 1..Len(s \o r) /\ (s \o r)[i] = s[i]
<1>1. Len(s) \in Nat /\ Len(r) \in Nat
  BY LenProperties
<1> QED BY <1>1, ConcatProperties

LEMMA ExtendedBy ==
    ASSUME NEW s \in Seq(Items), NEW x \in Items
    PROVE  \A i \in 1..Len(s \o <<x>>) : \/ (s \o <<x>>)[i] = x
                                         \/ \E k \in 1..Len(s) : (s \o <<x>>)[i] = s[k]
<1>1. <<x>> \in Seq(Items) /\ Len(<<x>>) = 1 /\ <<x>>[1] = x /\ Len(s) \in Nat
  BY LenProperties
<1>2. Len(s \o <<x>>) = Len(s) + 1
      /\ \A i \in 1..Len(s) + 1 : (s \o <<x>>)[i] = IF i <= Len(s) THEN s[i] ELSE <<x>>[i - Len(s)]
  BY <1>1, ConcatProperties
<1> QED BY <1>1, <1>2

LEMMA FramesAreItems ==
    ASSUME NEW x \in Items
    PROVE  Frames(x) \in Seq(Items)
BY ItemTypes DEF Frames

\* The mark of a posted job changes neither kinds nor jobs.
LEMMA PostedKeeps ==
    ASSUME JobsOK, NEW t \in Threads, Runs(t)
    PROVE  /\ Posted(t) \in Seq(Items) /\ Len(Posted(t)) = Len(stack[t])
           /\ \A i \in 1..Len(stack[t]) : /\ Posted(t)[i].kind = stack[t][i].kind
                                          /\ Posted(t)[i].of = stack[t][i].of
<1> DEFINE s == stack[t]
           n == Len(s)
           x == [s[n] EXCEPT !.posted = TRUE]
<1>1. s \in Seq(Items) /\ s # <<>> /\ s[n].kind = "job"
  BY DEF JobsOK, JobsInv, JobTypes, Runs, Top
<1>2. n \in Nat \ {0} /\ n \in 1..n /\ s[n] \in Items
  BY <1>1, LenProperties, EmptySeq, ElementOfSeq
<1>3. s[n] \in [kind : {"job"}, of : Jobs, posted : BOOLEAN]
  BY <1>1, <1>2 DEF Items
<1>4. x \in Items /\ x.kind = s[n].kind /\ x.of = s[n].of
  BY <1>3 DEF Items
<1>5. Posted(t) = [s EXCEPT ![n] = x]
  BY DEF Posted
<1> HIDE DEF x, s
<1>6. /\ [s EXCEPT ![n] = x] \in Seq(Items) /\ Len([s EXCEPT ![n] = x]) = n
      /\ \A i \in 1..n : [s EXCEPT ![n] = x][i] = IF i = n THEN x ELSE s[i]
  BY <1>1, <1>2, <1>4, ExceptSeq
<1> QED BY <1>4, <1>5, <1>6 DEF s

-----------------------------------------------------------------------------
(* Nobody leaves work to nobody. *)

Abandoned == \A w \in Workers : ~thread[w]

InFlush == \E i \in 1..Len(stack[Main]) : stack[Main][i].kind = "flush"

Stopped == {"locking", "locked", "unlocking", "fatal"}

\* Work for loaders that are gone: the main thread is about to do it.
Flushed == Abandoned /\ work["loader"] # <<>> => main \in Stopped \/ InFlush

FlushedOK == RosterOK /\ Flushed

\* What makes COM_AddWork queue a job is a worker, or COM_WorkerLock.
LEMMA SomebodyThere ==
    ASSUME RosterOK, HasWorkers
    PROVE  ~Abandoned \/ main \in {"locking", "fatal"}
<1>1. CASE noflush
  BY <1>1 DEF RosterOK, PlacesOK, OnTheRolls
<1>2. CASE live > 0
  <2>1. LiveOnes # {}
    BY <1>2, LiveFinite DEF RosterOK, Counted
  <2> QED BY <2>1 DEF LiveOnes, Live, Abandoned, RosterOK, PlacesOK, OnTheRolls
<1> QED BY <1>1, <1>2 DEF HasWorkers

LEMMA FlushedNested ==
    ASSUME FlushedOK, MainNested
    PROVE  Flushed'
<1>1. /\ stack \in [Threads -> Seq(Items)] /\ stack[Main] \in Seq(Items) /\ stack[Main] # <<>>
      /\ Main \in Threads /\ PlacesOK /\ JobsOK
      /\ work \in [Lists -> Seq(Items)] /\ "loader" \in Lists
  BY ThreadNames, MainSide DEF FlushedOK, RosterOK, PlacesOK, JobsOK, JobsInv, JobTypes, Lists
<1>2. main \in Stopped => main' = main
  BY <1>1, MainSide, MainWoken DEF PlacesOK, Stopped
<1>3. Len(stack[Main]) \in Nat \ {0}
  BY <1>1, LenProperties, EmptySeq
<1>4. ASSUME NEW fs \in Seq(Items),
             \A i \in 1..Len(stack[Main]) : i \in 1..Len(fs) /\ fs[i].kind = stack[Main][i].kind,
             InFlush, NEW r \in Seq(Items), stack' = [stack EXCEPT ![Main] = fs \o r]
      PROVE  InFlush'
  <2>1. PICK i \in 1..Len(stack[Main]) : stack[Main][i].kind = "flush"
    BY <1>4 DEF InFlush
  <2>2. i \in 1..Len(fs \o r) /\ (fs \o r)[i].kind = "flush"
    BY <2>1, <1>4, Extended
  <2>3. stack'[Main] = fs \o r
    BY <1>1, <1>4
  <2> QED BY <2>2, <2>3 DEF InFlush
<1>5. ASSUME stack' = Popped(Main), InFlush, Top(Main).kind # "flush"
      PROVE  InFlush'
  <2>1. PICK i \in 1..Len(stack[Main]) : stack[Main][i].kind = "flush"
    BY <1>5 DEF InFlush
  <2>2. i \in 1..Len(stack[Main]) - 1
    BY <2>1, <1>5, <1>3 DEF Top
  <2>3. stack'[Main] = SubSeq(stack[Main], 1, Len(stack[Main]) - 1)
    BY <1>1, <1>5 DEF Popped
  <2> QED BY <2>1, <2>2, <2>3, <1>1, Curtailed DEF InFlush
<1>6. CASE PostLoader(Main)
  <2>1. Runs(Main) /\ Child(Main) \in LoaderJobs /\ AddLoader(Main, Posted(Main), Child(Main), FALSE)
        /\ thread' = thread
    BY <1>6 DEF PostLoader, pool
  <2>2. /\ Posted(Main) \in Seq(Items)
        /\ \A i \in 1..Len(stack[Main]) : i \in 1..Len(Posted(Main))
                                          /\ Posted(Main)[i].kind = stack[Main][i].kind
    BY <1>1, <2>1, PostedKeeps
  <2>3. CASE ~HasWorkers \/ error
    <3>1. <<Item("job", Child(Main))>> \in Seq(Items) /\ work' = work
          /\ stack' = [stack EXCEPT ![Main] = Posted(Main) \o <<Item("job", Child(Main))>>]
      BY <2>1, <2>3, ItemTypes DEF AddLoader, Jobs
    <3>2. InFlush => InFlush'
      BY <2>2, <3>1, <1>4
    <3> QED BY <3>1, <3>2, <2>1, <1>2 DEF FlushedOK, Flushed, Abandoned
  <2>4. CASE HasWorkers
    <3>1. ~Abandoned' \/ main' \in Stopped
      BY <2>1, <2>4, <1>2, SomebodyThere DEF FlushedOK, Abandoned, Stopped
    <3> QED BY <3>1 DEF Flushed
  <2> QED BY <2>3, <2>4
<1>7. CASE PostMain(Main)
  <2>1. Runs(Main) /\ thread' = thread /\ work'["loader"] = work["loader"]
        /\ stack' = [stack EXCEPT ![Main] = Posted(Main)]
    BY <1>7, <1>1 DEF PostMain, pool
  <2>2. stack'[Main] = Posted(Main)
    BY <1>1, <2>1
  <2>3. InFlush => InFlush'
    BY <1>1, <2>1, <2>2, PostedKeeps DEF InFlush
  <2> QED BY <2>1, <2>3, <1>2 DEF FlushedOK, Flushed, Abandoned
<1>8. CASE Finish(Main)
  <2>1. Top(Main).kind = "job" /\ thread' = thread /\ work' = work /\ stack' = Popped(Main)
    BY <1>8 DEF Finish, Runs, pool
  <2> QED BY <2>1, <1>2, <1>5 DEF FlushedOK, Flushed, Abandoned
<1>9. CASE StopFlush
  <2>1. thread' = thread
    BY <1>9 DEF StopFlush, pool
  <2>2. CASE work["loader"] # <<>>
    <3>1. DoWork(Main, "loader")
      BY <1>9, <2>2 DEF StopFlush
    <3>2. Head(work["loader"]) \in Items
      BY <1>1, <2>2, HeadTailProperties
    <3>3. Frames(Head(work["loader"])) \in Seq(Items)
          /\ stack' = [stack EXCEPT ![Main] = stack[Main] \o Frames(Head(work["loader"]))]
      BY <3>1, <3>2, FramesAreItems DEF DoWork
    <3>4. InFlush => InFlush'
      BY <3>3, <1>1, <1>4
    <3> QED BY <3>4, <2>1, <2>2, <1>2 DEF FlushedOK, Flushed, Abandoned
  <2>3. CASE work["loader"] = <<>>
    BY <1>9, <2>3 DEF StopFlush, Flushed
  <2> QED BY <2>2, <2>3
<1>10. CASE StopJoin
  <2> DEFINE w == Top(Main).of
  <2>1. w \in Workers /\ worker[w] = "exited" /\ thread' = [thread EXCEPT ![w] = FALSE]
        /\ Top(Main).kind = "stopped" /\ work' = work
    BY <1>1, <1>10, StoppedIsWorker DEF StopJoin
  <2>2. stack' = IF live = 1 /\ ~noflush
                 THEN [stack EXCEPT ![Main][Len(stack[Main])].kind = "flush"]
                 ELSE Popped(Main)
    BY <1>10 DEF StopJoin
  <2> HIDE DEF w
  <2>3. CASE noflush
    <3>1. main \in Stopped
      BY <2>3, <1>1 DEF PlacesOK, OnTheRolls, Stopped
    <3> QED BY <3>1, <1>2 DEF Flushed
  <2>4. CASE live = 1 /\ ~noflush
    <3>1. stack'[Main] = [stack[Main] EXCEPT ![Len(stack[Main])].kind = "flush"]
      BY <2>2, <2>4, <1>1
    <3>2. Len(stack[Main]) \in 1..Len(stack[Main]) /\ stack[Main][Len(stack[Main])] \in Items
      BY <1>1, <1>3, ElementOfSeq
    <3> DEFINE n == Len(stack[Main])
               x == [stack[Main][n] EXCEPT !.kind = "flush"]
    <3>3. x \in Items /\ x.kind = "flush"
      BY <3>2, <2>1 DEF Top, Items
    <3>4. stack'[Main] = [stack[Main] EXCEPT ![n] = x]
      BY <3>1
    <3> HIDE DEF n, x
    <3>5. Len(stack'[Main]) = Len(stack[Main]) /\ stack'[Main][n] = x /\ n \in 1..Len(stack[Main])
      BY <3>2, <3>3, <3>4, <1>1, ExceptSeq DEF n
    <3> QED BY <3>3, <3>5 DEF InFlush, Flushed
  <2>5. CASE live # 1
    <3>1. LiveOnes # {w}
      BY <2>5, FS_Singleton DEF FlushedOK, RosterOK, Counted
    <3>2. w \in LiveOnes
      BY <2>1 DEF LiveOnes, Live
    <3>3. PICK v \in Workers : v \in LiveOnes /\ v # w
      BY <3>1, <3>2 DEF LiveOnes
    <3>4. thread'[v]
      BY <3>3, <2>1, <1>1 DEF LiveOnes, Live, PlacesOK, Places, OnTheRolls
    <3> QED BY <3>4 DEF Flushed, Abandoned
  <2> QED BY <2>3, <2>4, <2>5
<1> QED BY <1>6, <1>7, <1>8, <1>9, <1>10 DEF MainNested, Running

LEMMA FlushedAddRoot ==
    ASSUME FlushedOK, NEW j \in Roots, NEW atHead \in BOOLEAN, AddRoot(j, atHead)
    PROVE  Flushed'
<1>1. PlacesOK /\ main = "idle" /\ stack[Main] = <<>> /\ thread' = thread
  BY AddRootSide DEF FlushedOK, RosterOK, AddRoot, At
<1>2. ~InFlush
  BY <1>1 DEF InFlush
<1>3. CASE ~HasWorkers \/ error
  <2>1. work' = work
    BY <1>3 DEF AddRoot, AddLoader
  <2> QED BY <1>1, <1>2, <2>1 DEF FlushedOK, Flushed, Abandoned, Stopped
<1>4. CASE HasWorkers
  <2>1. ~Abandoned
    BY <1>1, <1>4, SomebodyThere DEF FlushedOK
  <2> QED BY <1>1, <2>1 DEF Flushed, Abandoned
<1> QED BY <1>3, <1>4

LEMMA FlushedLoops ==
    ASSUME FlushedOK, MainLoops \/ \E j \in MainJobs : PartialSync(j)
    PROVE  Flushed'
<1>1. /\ thread' = thread /\ stack[Main] = <<>>
      /\ main \in Stopped => main' = main
  BY DEF MainLoops, Poll, SyncFlush, SyncWork, Boost, PartialWork, LockWork, UnlockWork,
     CountWork, DestroyWork, CloseWork, Loop, PartialSync, Call, At, AtTurn, Goto, Stopped, pool
<1>2. ~InFlush
  BY <1>1 DEF InFlush
<1>3. (\E g \in Lists : DoWork(Main, g)) \/ work' = work
  BY DEF MainLoops, Poll, SyncFlush, SyncWork, Boost, PartialWork, LockWork, UnlockWork,
     CountWork, DestroyWork, CloseWork, Loop, PartialSync, Lists
<1>4. work'["loader"] # <<>> => work["loader"] # <<>>
  BY <1>3 DEF DoWork, Lists, FlushedOK, RosterOK, PlacesOK, JobsOK, JobsInv, JobTypes
<1> QED BY <1>1, <1>2, <1>4 DEF FlushedOK, Flushed, Abandoned

LEMMA FlushedRest ==
    ASSUME FlushedOK, MainMoves \/ MainAsks \/ MainStaffs \/ UNCHANGED vars
    PROVE  Flushed'
<1>1. CASE MainMoves
  <2>1. UNCHANGED <<work, stack, thread>>
    BY <1>1 DEF MainMoves, SyncNobody, SyncIdle, SyncWait, SyncWoken, SyncEnd, BoostEnd, Boosted,
       PartialRan, PartialWait, PartialWoken, UnlockEnd, DestroySync, Close, FullSync, MainAbort,
       MainSpurious, CountChange, pool
  <2>2. main \in Stopped => main' = "fatal" \/ work["loader"] = <<>>
    BY <1>1 DEF MainMoves, SyncNobody, SyncIdle, SyncWait, SyncWoken, SyncEnd, BoostEnd, Boosted,
       PartialRan, PartialWait, PartialWoken, UnlockEnd, DestroySync, Close, FullSync, MainAbort,
       MainSpurious, CountChange, Call, At, AtTurn, Stopped
  <2> QED BY <2>1, <2>2 DEF FlushedOK, Flushed, Abandoned, InFlush, Stopped
<1>2. CASE MainAsks
  BY <1>2 DEF MainAsks, SyncBegin, SyncAsk, SyncRan, At, FlushedOK, Flushed, Abandoned, InFlush,
     Stopped
<1>3. CASE MainStaffs
  <2>1. UNCHANGED <<work, stack>>
    BY <1>3 DEF MainStaffs, Lock, LockEnd, Unlock, CountFlags, CountWake, Destroy
  <2>2. CASE Unlock
    <3>1. thread' = [w \in Workers |-> thread[w] \/ w \in Created(count)]
          /\ main' = IF Created(count) = {} THEN "unlocking" ELSE "idle"
      BY <2>2 DEF Unlock, Create, Goto
    <3>2. Created(count) \subseteq Workers
      BY DEF Created
    <3> QED BY <3>1, <3>2 DEF Flushed, Abandoned, Stopped
  <2>3. CASE CountFlags
    <3>1. thread' = [w \in Workers |-> thread[w] \/ w \in Created(count)] /\ main = "count"
      BY <2>3 DEF CountFlags, Create, At
    <3>2. Abandoned' => Abandoned
      BY <3>1 DEF Abandoned
    <3> QED BY <2>1, <3>1, <3>2 DEF FlushedOK, Flushed, InFlush, Stopped
  <2>4. CASE Lock \/ LockEnd
    BY <2>4 DEF Lock, LockEnd, Goto, Flushed, Stopped
  <2>5. CASE CountWake \/ Destroy
    BY <2>1, <2>5 DEF CountWake, Destroy, Call, At, pool, FlushedOK, Flushed, Abandoned, InFlush,
       Stopped
  <2> QED BY <1>3, <2>2, <2>3, <2>4, <2>5 DEF MainStaffs
<1>4. CASE UNCHANGED vars
  BY <1>4 DEF vars, FlushedOK, Flushed, Abandoned, InFlush
<1> QED BY <1>1, <1>2, <1>3, <1>4

LEMMA FlushedStep ==
    ASSUME FlushedOK, [Next]_vars
    PROVE  FlushedOK'
<1>1. RosterOK'
  BY RosterStep DEF FlushedOK
<1>2. ASSUME NEW w \in Workers, WorkerSteps(w) PROVE Flushed'
  BY <1>2, WorkerSide DEF FlushedOK, RosterOK, Flushed, Abandoned
<1>3. Flushed'
  BY StepsByThread, <1>2, FlushedNested, FlushedAddRoot, FlushedLoops, FlushedRest
<1> QED BY <1>1, <1>3 DEF FlushedOK

-----------------------------------------------------------------------------
(* COM_WorkerFullSync. *)

Answered == {w \in Workers : ackseq[w] = acksequence}

\* Once a worker has answered the list is never empty of but what loaders' jobs
\* added, and that is all that those who answered run.
AdoptedOnly ==
    /\ \A i \in 1..Len(work["loader"]) : Adopted(work["loader"][i].of)
    /\ \A w \in Answered : \A i \in 1..Len(stack[w]) : Adopted(stack[w][i].of)

Synced ==
    /\ main \in Turns => stack[Main] = <<>>
    /\ main \in Turns /\ Answered # {} => AdoptedOnly

SyncedOK == FlushedOK /\ AnswersInTime /\ Synced

\* Where nothing is added the answers stand.
LEMMA SyncedKept ==
    ASSUME Synced, main' \in Turns => main \in Turns, stack'[Main] = stack[Main],
           UNCHANGED <<ackseq, acksequence>>,
           AdoptedOnly =>
              /\ \A i \in 1..Len(work'["loader"]) : Adopted(work'["loader"][i].of)
              /\ \A w \in Workers : (\A i \in 1..Len(stack[w]) : Adopted(stack[w][i].of))
                    => \A i \in 1..Len(stack'[w]) : Adopted(stack'[w][i].of)
    PROVE  Synced'
<1>1. Answered' = Answered /\ Answered \subseteq Workers
  BY DEF Answered
<1>2. AdoptedOnly => AdoptedOnly'
  BY <1>1 DEF AdoptedOnly
<1> QED BY <1>1, <1>2 DEF Synced

LEMMA SyncedSame ==
    ASSUME Synced, main' \in Turns => main \in Turns,
           UNCHANGED <<work, stack, ackseq, acksequence>>
    PROVE  Synced'
<1>1. Answered' = Answered
  BY DEF Answered
<1>2. AdoptedOnly' = AdoptedOnly
  BY <1>1 DEF AdoptedOnly
<1> QED BY <1>1, <1>2 DEF Synced

LEMMA SyncedWorker ==
    ASSUME SyncedOK, NEW w \in Workers, WorkerSteps(w)
    PROVE  Synced'
<1>1. /\ stack \in [Threads -> Seq(Items)] /\ stack[w] \in Seq(Items) /\ w \in Threads /\ w # Main
      /\ work \in [Lists -> Seq(Items)] /\ work["loader"] \in Seq(Items) /\ "loader" \in Lists
      /\ "main" \in Lists /\ PlacesOK /\ JobsOK /\ Synced
  BY ThreadNames DEF SyncedOK, FlushedOK, RosterOK, PlacesOK, JobsOK, JobsInv, JobTypes, Lists
<1>2. (main' \in Turns => main \in Turns) /\ stack'[Main] = stack[Main] /\ acksequence' = acksequence
  BY <1>1, WorkerSide, MainWoken DEF PlacesOK, Turns
<1>3. CASE WAck(w)
  <2>1. /\ request[w] = "ack" /\ Has(w) /\ work["loader"] = <<>>
        /\ ackseq' = [ackseq EXCEPT ![w] = acksequence]
        /\ UNCHANGED <<work, stack>>
    BY <1>3 DEF WAck, Done, Breaks
  <2>2. stack[w] = <<>>
    BY <2>1, <1>1 DEF Has, PlacesOK, OnTheRolls
  <2>3. \A v \in Answered' : v = w \/ v \in Answered
    BY <1>2, <2>1 DEF Answered, SyncedOK, FlushedOK, RosterOK, PlacesOK, Places
  <2>4. AdoptedOnly' \/ (\E v \in Answered' : v # w /\ v \in Answered)
    BY <2>1, <2>2, <2>3 DEF AdoptedOnly
  <2>5. Answered # {} /\ AdoptedOnly => AdoptedOnly'
    BY <2>1, <2>2, <2>3 DEF AdoptedOnly
  <2> QED BY <1>1, <1>2, <2>1, <2>4, <2>5 DEF Synced
<1>4. CASE ~WAck(w)
  <2>1. ackseq' = ackseq
    BY <1>1, <1>4, WorkerSide
  <2>2. ASSUME NEW v \in Workers, v # w PROVE stack'[v] = stack[v]
    BY <2>2, <1>1, ThreadNames DEF WorkerSteps, WorkerTurns, WStart, WDie, WAck, WAcked, WLook,
       WSleep, WTake, DoWork, WLeave, Report, Abort, Running, PostLoader, PostMain, Finish,
       AddLoader, Popped
  <2>3. ASSUME AdoptedOnly
        PROVE  /\ \A i \in 1..Len(work'["loader"]) : Adopted(work'["loader"][i].of)
               /\ (\A i \in 1..Len(stack[w]) : Adopted(stack[w][i].of))
                    => \A i \in 1..Len(stack'[w]) : Adopted(stack'[w][i].of)
    <3>1. CASE WorkerTurns(w) \/ WLeave(w) \/ Report(w)
      BY <1>1, <2>3, <3>1 DEF WorkerTurns, WStart, WDie, WAck, WAcked, WLook, WSleep, WLeave,
         Report, AdoptedOnly
    <3>2. CASE Abort(w)
      <4>1. stack'[w] = <<>> /\ work' = work
        BY <1>1, <3>2 DEF Abort
      <4> QED BY <2>3, <4>1 DEF AdoptedOnly
    <3>3. CASE WTake(w)
      <4> DEFINE x == Head(work["loader"])
      <4>1. /\ work["loader"] # <<>> /\ work'["loader"] = Tail(work["loader"])
            /\ stack'[w] = stack[w] \o Frames(x)
        BY <1>1, <3>3 DEF WTake, DoWork
      <4>2. x = work["loader"][1] /\ 1 \in 1..Len(work["loader"]) /\ x \in Items
        BY <1>1, <4>1, Beheaded DEF Inserted
      <4>3. Frames(x) = <<x>> /\ Adopted(x.of)
        BY <1>1, <2>3, <4>2 DEF Frames, JobsOK, JobsInv, Sorted, AdoptedOnly
      <4>4. \A i \in 1..Len(Tail(work["loader"])) :
               \E k \in 1..Len(work["loader"]) : Tail(work["loader"])[i] = work["loader"][k]
        <5>1. Len(work["loader"]) \in Nat /\ Len(Tail(work["loader"])) = Len(work["loader"]) - 1
              /\ \A i \in 1..Len(work["loader"]) - 1 : Tail(work["loader"])[i] = work["loader"][i + 1]
          BY <1>1, <4>1, HeadTailProperties, LenProperties
        <5>2. \A i \in 1..Len(work["loader"]) - 1 : i + 1 \in 1..Len(work["loader"])
          BY <5>1
        <5> QED BY <5>1, <5>2
      <4> HIDE DEF x
      <4>5. \A i \in 1..Len(stack[w] \o <<x>>) :
               (stack[w] \o <<x>>)[i] = x \/ \E k \in 1..Len(stack[w]) : (stack[w] \o <<x>>)[i] = stack[w][k]
        BY <1>1, <4>2, ExtendedBy
      <4>6. \A i \in 1..Len(work'["loader"]) : Adopted(work'["loader"][i].of)
        BY <2>3, <4>1, <4>4 DEF AdoptedOnly
      <4>7. (\A i \in 1..Len(stack[w]) : Adopted(stack[w][i].of))
                    => \A i \in 1..Len(stack'[w]) : Adopted(stack'[w][i].of)
        BY <4>1, <4>3, <4>5
      <4> QED BY <4>6, <4>7
    <3>4. CASE Finish(w)
      <4>1. work' = work /\ stack[w] # <<>> /\ stack'[w] = SubSeq(stack[w], 1, Len(stack[w]) - 1)
        BY <1>1, <3>4 DEF Finish, Runs, Popped
      <4>2. /\ Len(stack[w]) \in Nat /\ Len(stack'[w]) = Len(stack[w]) - 1
            /\ \A i \in 1..Len(stack[w]) - 1 : stack'[w][i] = stack[w][i]
        BY <1>1, <4>1, Curtailed
      <4> QED BY <2>3, <4>1, <4>2 DEF AdoptedOnly
    <3>5. CASE PostMain(w)
      <4>1. Runs(w) /\ work'["loader"] = work["loader"] /\ stack'[w] = Posted(w)
        BY <1>1, <3>5 DEF PostMain
      <4>2. \A i \in 1..Len(stack[w]) : Posted(w)[i].of = stack[w][i].of
        BY <1>1, <4>1, PostedKeeps
      <4>3. Len(Posted(w)) = Len(stack[w])
        BY <1>1, <4>1, PostedKeeps
      <4> QED BY <2>3, <4>1, <4>2, <4>3 DEF AdoptedOnly
    <3>6. CASE PostLoader(w)
      <4> DEFINE j == Child(w)
                 x == Item("job", j)
      <4>1. Runs(w) /\ j \in LoaderJobs /\ AddLoader(w, Posted(w), j, FALSE)
        BY <3>6 DEF PostLoader
      <4>2. Adopted(j)
        <5>1. Len(stack[w]) \in 1..Len(stack[w]) /\ stack[w] # <<>>
          BY <1>1, <4>1, LenProperties, EmptySeq DEF Runs
        <5>2. Top(w).of \in LoaderJobs
          BY <1>1, <5>1 DEF Top, JobsOK, JobsInv, Sorted
        <5> QED BY <5>2 DEF Adopted, Child
      <4>3. x \in Items /\ x.of = j
        BY <4>1, ItemTypes DEF Jobs, Item
      <4>4. /\ Posted(w) \in Seq(Items) /\ Len(Posted(w)) = Len(stack[w])
            /\ \A i \in 1..Len(stack[w]) : Posted(w)[i].of = stack[w][i].of
        BY <1>1, <4>1, PostedKeeps
      <4>5. CASE ~HasWorkers \/ error
        <5>1. work' = work /\ stack'[w] = Posted(w) \o <<x>>
          BY <1>1, <4>1, <4>5 DEF AddLoader
        <5> HIDE DEF x, j
        <5>2. \A i \in 1..Len(Posted(w) \o <<x>>) :
                 \/ (Posted(w) \o <<x>>)[i] = x
                 \/ \E k \in 1..Len(Posted(w)) : (Posted(w) \o <<x>>)[i] = Posted(w)[k]
          BY <4>3, <4>4, ExtendedBy
        <5>3. (\A i \in 1..Len(stack[w]) : Adopted(stack[w][i].of))
                    => \A i \in 1..Len(stack'[w]) : Adopted(stack'[w][i].of)
          BY <5>1, <5>2, <4>2, <4>3, <4>4
        <5> QED BY <2>3, <5>1, <5>3 DEF AdoptedOnly
      <4>6. CASE ~(~HasWorkers \/ error)
        <5>1. work'["loader"] = Append(work["loader"], x) /\ stack'[w] = Posted(w)
          BY <1>1, <4>1, <4>6 DEF AddLoader
        <5>2. Append(work["loader"], x) = work["loader"] \o <<x>>
          BY <1>1, <4>3, AppendIsConcat
        <5> HIDE DEF x, j
        <5>3. \A i \in 1..Len(work["loader"] \o <<x>>) :
                 \/ (work["loader"] \o <<x>>)[i] = x
                 \/ \E k \in 1..Len(work["loader"]) : (work["loader"] \o <<x>>)[i] = work["loader"][k]
          BY <1>1, <4>3, ExtendedBy
        <5>4. \A i \in 1..Len(work'["loader"]) : Adopted(work'["loader"][i].of)
          BY <2>3, <5>1, <5>2, <5>3, <4>2, <4>3 DEF AdoptedOnly
        <5> QED BY <5>1, <5>4, <4>4
      <4> QED BY <4>5, <4>6
    <3> QED BY <3>1, <3>2, <3>3, <3>4, <3>5, <3>6 DEF WorkerSteps, Running
  <2> QED BY <1>1, <1>2, <2>1, <2>2, <2>3, SyncedKept
<1> QED BY <1>3, <1>4

\* Steps of the main thread that leave the answers, the work and the stacks alone,
\* or take it out of its turns.
LEMMA SyncedMoves ==
    ASSUME SyncedOK, MainMoves
    PROVE  Synced'
<1>1. UNCHANGED <<work, stack, ackseq, acksequence>>
  BY DEF MainMoves, SyncNobody, SyncIdle, SyncWait, SyncWoken, SyncEnd, BoostEnd, Boosted,
     PartialRan, PartialWait, PartialWoken, UnlockEnd, DestroySync, Close, FullSync, MainAbort,
     MainSpurious, CountChange, pool
<1>2. PlacesOK /\ after \in {"idle", "closing"} /\ Synced
  BY DEF SyncedOK, FlushedOK, RosterOK, PlacesOK, Places
<1>3. main' \in Turns => main \in Turns
  <2>1. CASE MainSpurious
    BY <1>2, <2>1, MainWoken DEF MainSpurious, PlacesOK, Turns
  <2>2. CASE SyncIdle \/ SyncWait \/ SyncWoken
    BY <2>2 DEF SyncIdle, SyncWait, SyncWoken, At, AtTurn, Turns
  <2>3. CASE SyncNobody \/ SyncEnd
    BY <1>2, <2>3 DEF SyncNobody, SyncEnd, Goto, Turns
  <2>4. CASE ~(MainSpurious \/ SyncIdle \/ SyncWait \/ SyncWoken \/ SyncNobody \/ SyncEnd)
    BY <2>4 DEF MainMoves, BoostEnd, Boosted, PartialRan, PartialWait, PartialWoken, UnlockEnd,
       DestroySync, Close, FullSync, MainAbort, CountChange, Goto, Turns
  <2> QED BY <2>1, <2>2, <2>3, <2>4
<1> QED BY <1>1, <1>2, <1>3, SyncedSame

\* With a new number no worker has answered.
LEMMA SyncedAsks ==
    ASSUME SyncedOK, MainAsks
    PROVE  Synced'
<1>1. CASE SyncAsk
  <2>1. UNCHANGED <<work, stack, ackseq, acksequence>> /\ main \in Turns
    BY <1>1 DEF SyncAsk, At, Turns
  <2> QED BY <2>1, SyncedSame DEF SyncedOK
<1>2. CASE SyncBegin \/ SyncRan
  <2>1. stack'[Main] = <<>> /\ acksequence' = acksequence + 1 /\ ackseq' = ackseq
    BY <1>2 DEF SyncBegin, SyncRan, At
  <2>2. Answered' = {}
    BY <2>1 DEF Answered, SyncedOK, FlushedOK, RosterOK, PlacesOK, Places, AnswersInTime
  <2> QED BY <2>1, <2>2 DEF Synced
<1> QED BY <1>1, <1>2 DEF MainAsks

LEMMA SyncedStep ==
    ASSUME SyncedOK, [Next]_vars
    PROVE  SyncedOK'
<1>1. FlushedOK' /\ AnswersInTime'
  BY FlushedStep, AnswersStep DEF SyncedOK, FlushedOK
<1>2. PlacesOK /\ Synced
  BY DEF SyncedOK, FlushedOK, RosterOK
<1>3. ASSUME MainNested PROVE Synced'
  <2>1. main \notin Turns
    BY <1>2, <1>3, MainSide DEF Synced
  <2>2. main' \notin Turns
    BY <1>2, <1>3, <2>1, MainSide, MainWoken DEF PlacesOK, Turns
  <2> QED BY <2>2 DEF Synced
<1>4. ASSUME NEW j \in Roots, NEW atHead \in BOOLEAN, AddRoot(j, atHead) PROVE Synced'
  BY <1>2, <1>4, AddRootSide DEF Synced, Turns
<1>5. ASSUME MainLoops \/ \E j \in MainJobs : PartialSync(j) PROVE Synced'
  <2>1. main' \notin Turns
    BY <1>5 DEF MainLoops, Poll, SyncFlush, SyncWork, Boost, PartialWork, LockWork, UnlockWork,
       CountWork, DestroyWork, CloseWork, PartialSync, Goto, Turns
  <2> QED BY <2>1 DEF Synced
<1>6. ASSUME MainStaffs PROVE Synced'
  <2>1. main' \notin Turns
    BY <1>6 DEF MainStaffs, Lock, LockEnd, Unlock, CountFlags, CountWake, Destroy, Goto, Turns
  <2> QED BY <2>1 DEF Synced
<1>7. ASSUME UNCHANGED vars PROVE Synced'
  BY <1>2, <1>7, SyncedSame DEF vars
<1>8. ASSUME NEW w \in Workers, WorkerSteps(w) PROVE Synced'
  BY <1>8, SyncedWorker
<1>9. Synced'
  BY StepsByThread, <1>3, <1>4, <1>5, <1>6, <1>7, <1>8, SyncedMoves, SyncedAsks
<1> QED BY <1>1, <1>9 DEF SyncedOK

LEMMA SyncedInit ==
    ASSUME Init
    PROVE  SyncedOK
<1>1. RosterOK /\ AnswersInTime
  BY RosterInit, StoppingInit DEF StoppingOK
<1>2. Flushed
  BY DEF Init, Flushed
<1>3. Synced
  BY DEF Init, Synced, Turns
<1> QED BY <1>1, <1>2, <1>3 DEF SyncedOK, FlushedOK

LEMMA SyncedHolds == Spec => []SyncedOK
<1> QED BY SyncedInit, SyncedStep, PTL DEF Spec

\* COM_WorkerFullSync, where it had to wait: the loaders' list holds and the workers
\* run nothing but what a loader's job added for the loaders, whoever is joined,
\* started or failing meanwhile.
THEOREM SyncFlushes == Spec => WaitedSyncFlushes
<1>1. ASSUME SyncedOK, SyncEnd
      PROVE  /\ work["main"] = <<>>
             /\ \A i \in 1..Len(work["loader"]) : Adopted(work["loader"][i].of)
             /\ \A w \in Workers : \A i \in 1..Len(stack[w]) : Adopted(stack[w][i].of)
  <2>1. work["main"] = <<>> /\ main \in Turns \ Stopped /\ stack[Main] = <<>>
    BY <1>1 DEF SyncEnd, AtTurn, At, Turns, Stopped
  <2>2. \A w \in Workers : thread[w] => w \in Answered
    BY <1>1 DEF SyncEnd, Owed, Answered
  <2>3. \A w \in Workers : ~thread[w] => stack[w] = <<>>
    BY <1>1 DEF SyncedOK, FlushedOK, RosterOK, PlacesOK, OnTheRolls
  <2>4. CASE Abandoned
    <3>1. work["loader"] = <<>>
      BY <1>1, <2>1, <2>4 DEF SyncedOK, FlushedOK, Flushed, InFlush
    <3> QED BY <2>1, <2>3, <2>4, <3>1 DEF Abandoned
  <2>5. CASE ~Abandoned
    <3>1. AdoptedOnly
      BY <1>1, <2>1, <2>2, <2>5 DEF Abandoned, SyncedOK, Synced
    <3> QED BY <2>1, <2>2, <2>3, <3>1 DEF AdoptedOnly
  <2> QED BY <2>4, <2>5
<1>2. SyncedOK /\ [Next]_vars =>
        [SyncEnd =>
          /\ work["main"] = <<>>
          /\ \A i \in 1..Len(work["loader"]) : Adopted(work["loader"][i].of)
          /\ \A w \in Workers : \A i \in 1..Len(stack[w]) : Adopted(stack[w][i].of)]_vars
  BY <1>1
<1> QED BY <1>2, SyncedHolds, PTL DEF Spec, WaitedSyncFlushes

=============================================================================
