----------------------------- MODULE WorkerPool -----------------------------
(***************************************************************************)
(* The worker threads of common/common.c: one list of work for the main    *)
(* thread and one for the loaders, each under the mutex of its condition;  *)
(* the main thread adds work, polls, waits for one object                  *)
(* (COM_WorkerPartialSync) or for everything (COM_WorkerFullSync), stops   *)
(* the workers for a while (COM_WorkerLock), changes their number and      *)
(* destroys them.                                                          *)
(*                                                                         *)
(* A step is what a thread does between two points at which another can    *)
(* see the difference.  A critical section is one step, except that a      *)
(* worker which has found nothing to do ("drowsy") keeps the loaders'      *)
(* mutex until it sleeps: COM_WorkerCount_Change does not take it.  A job  *)
(* is one call of COM_AddWork, so at most one job adds it; Posts[j] is the *)
(* job that j adds when it runs, 0 for none.                               *)
(***************************************************************************)
EXTENDS Naturals, Sequences, FiniteSets

CONSTANTS
    NumWorkers,   \* WORKERTHREADS, and the first value of worker_count
    LoaderJobs,   \* jobs for WG_LOADER
    MainJobs,     \* jobs for WG_MAIN
    Posts,        \* the job a job adds, or 0
    Failing,      \* jobs that may call Sys_Error
    Calls,        \* what the main thread may call besides COM_AddWork
    MaxCalls      \* how often it does

Jobs    == LoaderJobs \cup MainJobs
Workers == 1..NumWorkers
Main    == 0

ASSUME PoolAssumption ==
    /\ NumWorkers \in Nat \ {0}
    /\ LoaderJobs \subseteq Nat \ {0}
    /\ MainJobs \subseteq Nat \ {0}
    /\ LoaderJobs \cap MainJobs = {}
    /\ Posts \in [Jobs -> Jobs \cup {0}]
    /\ \A j, k \in Jobs : Posts[j] = Posts[k] /\ Posts[j] # 0 => j = k
    /\ Failing \subseteq LoaderJobs
    /\ Calls \subseteq {"sync", "partial", "lock", "count", "destroy"}
    /\ MaxCalls \in Nat

\* The jobs the main thread itself asks for.
Roots == {j \in LoaderJobs : \A k \in Jobs : Posts[k] # j}

VARIABLES
    main,       \* where the main thread is
    after,      \* where it goes on when COM_WorkerFullSync returns
    awaited,    \* the job COM_WorkerPartialSync waits for
    stack,      \* per thread: what it is running, innermost last
    work,       \* com_work_head, com_work_tail
    live,       \* com_liveworkers[WG_LOADER] without NOFLUSH
    noflush,    \* NOFLUSH
    thread,     \* com_worker[].thread is set
    request,    \* com_worker[].request
    ackseq,     \* com_worker[].ackseq
    acksequence,\* com_workeracksequence
    error,      \* com_workererror
    count,      \* worker_count.ival
    worker,     \* where each worker is
    ran,        \* history: how often a job was begun
    stopping,   \* history: the workers that were running when told to stop
    calls       \* how many calls were made

vars == <<main, after, awaited, stack, work, live, noflush, thread, request,
          ackseq, acksequence, error, count, worker, ran, stopping, calls>>

pool == <<live, noflush, thread, request, ackseq, acksequence, count, stopping>>
-----------------------------------------------------------------------------
Item(kind, of) == [kind |-> kind, of |-> of, posted |-> FALSE]

Live(w) == worker[w] \notin {"gone", "starting"}

\* com_liveworkers[WG_LOADER] as the tests of it see it.
HasWorkers == live > 0 \/ noflush

\* Whether the loaders' mutex is free.
LoaderFree == \A w \in Workers : worker[w] \notin {"holding", "drowsy"}

HasWork == \E g \in {"main", "loader"} : work[g] # <<>>

Asleep == {w \in Workers : worker[w] = "asleep"}

\* Sys_ConditionSignal and Sys_ConditionBroadcast on the loaders' condition.
SignalLoader ==
    IF Asleep = {} THEN worker' = worker
    ELSE \E w \in Asleep : worker' = [worker EXCEPT ![w] = "ready"]

Awake == [w \in Workers |-> IF w \in Asleep THEN "ready" ELSE worker[w]]

\* The same on the main thread's condition: only the main thread waits on it.
MainAwake == CASE main = "syncwait"    -> "syncwoken"
               [] main = "partialwait" -> "partialwoken"
               [] OTHER                -> main

Top(t) == stack[t][Len(stack[t])]
Popped(t) == [stack EXCEPT ![t] = SubSeq(@, 1, Len(@) - 1)]

\* What calling an item's function begins with.
Frames(item) ==
    IF item.kind = "error" THEN <<Item("fatal", 0), Item("stopped", item.of)>>
    ELSE <<item>>

Begun(item) == IF item.kind = "job" THEN [ran EXCEPT ![item.of] = @ + 1] ELSE ran

\* COM_DoWork with something to do: the head of the list is taken and run.
DoWork(t, g) ==
    /\ work[g] # <<>>
    /\ work' = [work EXCEPT ![g] = Tail(@)]
    /\ stack' = [stack EXCEPT ![t] = @ \o Frames(Head(work[g]))]
    /\ ran' = Begun(Head(work[g]))

\* COM_AddWork and COM_InsertWork of a loader's job on thread t, whose frames
\* are then fs: queued, or run at once where there is no worker.
AddLoader(t, fs, j, atHead) ==
    IF ~HasWorkers \/ error
    THEN /\ stack' = [stack EXCEPT ![t] = fs \o <<Item("job", j)>>]
         /\ ran' = [ran EXCEPT ![j] = @ + 1]
         /\ UNCHANGED <<work, worker>>
    ELSE /\ LoaderFree
         /\ work' = [work EXCEPT !["loader"] =
                         IF atHead THEN <<Item("job", j)>> \o @ ELSE Append(@, Item("job", j))]
         /\ SignalLoader
         /\ stack' = [stack EXCEPT ![t] = fs]
         /\ UNCHANGED ran
-----------------------------------------------------------------------------
(* Running a job, on any thread *)

Runs(t) == stack[t] # <<>> /\ Top(t).kind = "job"

Posted(t) == [stack[t] EXCEPT ![Len(stack[t])].posted = TRUE]

Child(t) == Posts[Top(t).of]

PostLoader(t) ==
    /\ Runs(t) /\ ~Top(t).posted /\ Child(t) \in LoaderJobs
    /\ AddLoader(t, Posted(t), Child(t), FALSE)
    /\ UNCHANGED <<main, after, awaited, pool, error, calls>>

\* com_liveworkers[WG_MAIN] is always 1.
PostMain(t) ==
    /\ Runs(t) /\ ~Top(t).posted /\ Child(t) \in MainJobs
    /\ work' = [work EXCEPT !["main"] = Append(@, Item("job", Child(t)))]
    /\ stack' = [stack EXCEPT ![t] = Posted(t)]
    /\ main' = MainAwake
    /\ UNCHANGED <<after, awaited, pool, error, worker, ran, calls>>

\* work->func returns.
Finish(t) ==
    /\ Runs(t) /\ (Top(t).posted \/ Child(t) = 0)
    /\ stack' = Popped(t)
    /\ worker' = IF t # Main /\ Len(stack[t]) = 1 THEN [worker EXCEPT ![t] = "ran"] ELSE worker
    /\ UNCHANGED <<main, after, awaited, work, pool, error, ran, calls>>

\* Sys_Error on a worker, COM_WorkerAbort: the flag, then the report and the
\* end of the thread.
Abort(w) ==
    /\ worker[w] = "run" /\ Runs(w) /\ Top(w).of \in Failing
    /\ error' = TRUE
    /\ worker' = [worker EXCEPT ![w] = "aborting"]
    /\ stack' = [stack EXCEPT ![w] = <<>>]
    /\ UNCHANGED <<main, after, awaited, work, pool, ran, calls>>

ReportSlip(w) ==
    /\ worker[w] = "aborting"
    /\ work' = [work EXCEPT !["main"] = <<Item("error", w)>> \o @]
    /\ main' = main
    /\ worker' = [worker EXCEPT ![w] = "exited"]
    /\ UNCHANGED <<after, awaited, stack, pool, error, ran, calls>>

Report(w) ==
    /\ worker[w] = "aborting"
    /\ work' = [work EXCEPT !["main"] = <<Item("error", w)>> \o @]
    /\ main' = MainAwake
    /\ worker' = [worker EXCEPT ![w] = "exited"]
    /\ UNCHANGED <<after, awaited, stack, pool, error, ran, calls>>

\* Sys_Error on the main thread.
MainAbort ==
    /\ stack[Main] # <<>>
    /\ \/ Top(Main).kind = "fatal"
       \/ Runs(Main) /\ Top(Main).of \in Failing
    /\ main' = "fatal"
    /\ UNCHANGED <<after, awaited, stack, work, pool, error, worker, ran, calls>>
-----------------------------------------------------------------------------
(* COM_WorkerThread *)

WStart(w) ==
    /\ worker[w] = "starting" /\ LoaderFree
    /\ live' = live + 1
    /\ worker' = [worker EXCEPT ![w] = "holding"]
    /\ UNCHANGED <<main, after, awaited, stack, work, noflush, thread, request,
                   ackseq, acksequence, error, count, ran, stopping, calls>>

\* The mutex is held, or can be taken.
Has(w) == \/ worker[w] = "holding"
          \/ worker[w] \in {"ready", "ran"} /\ LoaderFree

\* The inner loop's break, after a job.
Breaks(w) == worker[w] = "ran" /\ request[w] = "die"

WTake(w) ==
    /\ Has(w) /\ ~Breaks(w)
    /\ DoWork(w, "loader")
    /\ worker' = [worker EXCEPT ![w] = "run"]
    /\ UNCHANGED <<main, after, awaited, pool, error, calls>>

Done(w) == Has(w) /\ (work["loader"] = <<>> \/ Breaks(w))

WDie(w) ==
    /\ Done(w) /\ request[w] = "die"
    /\ worker' = [worker EXCEPT ![w] = "leaving"]
    /\ UNCHANGED <<main, after, awaited, stack, work, pool, error, ran, calls>>

WAck(w) ==
    /\ Done(w) /\ request[w] = "ack"
    /\ request' = [request EXCEPT ![w] = "none"]
    /\ ackseq' = [ackseq EXCEPT ![w] = acksequence]
    /\ worker' = [worker EXCEPT ![w] = "acking"]
    /\ UNCHANGED <<main, after, awaited, stack, work, live, noflush, thread,
                   acksequence, error, count, ran, stopping, calls>>

\* The broadcast, under the main thread's mutex.
WAcked(w) ==
    /\ worker[w] = "acking"
    /\ main' = MainAwake
    /\ worker' = [worker EXCEPT ![w] = "ready"]
    /\ UNCHANGED <<after, awaited, stack, work, pool, error, ran, calls>>

WLook(w) ==
    /\ Done(w) /\ request[w] = "none"
    /\ worker' = [worker EXCEPT ![w] = "drowsy"]
    /\ UNCHANGED <<main, after, awaited, stack, work, pool, error, ran, calls>>

\* Sys_ConditionWait gives the mutex up and sleeps in one.
WSleep(w) ==
    /\ worker[w] = "drowsy"
    /\ worker' = [worker EXCEPT ![w] = "asleep"]
    /\ UNCHANGED <<main, after, awaited, stack, work, pool, error, ran, calls>>

WLeave(w) ==
    /\ worker[w] = "leaving"
    /\ work' = [work EXCEPT !["main"] = Append(@, Item("stopped", w))]
    /\ main' = MainAwake
    /\ worker' = [worker EXCEPT ![w] = "exited"]
    /\ UNCHANGED <<after, awaited, stack, pool, error, ran, calls>>
-----------------------------------------------------------------------------
(* COM_WorkerSync_WorkerStopped, on the main thread *)

StopJoinSlip ==
    /\ stack[Main] # <<>> /\ Top(Main).kind = "stopped"
    /\ LoaderFree
    /\ LET w == Top(Main).of IN
       /\ thread[w]
       /\ worker[w] = "exited"
       /\ thread' = [thread EXCEPT ![w] = FALSE]
       /\ worker' = [worker EXCEPT ![w] = "gone"]
    /\ live' = live - 1
    /\ stack' = Popped(Main)
    /\ UNCHANGED <<main, after, awaited, work, noflush, request, ackseq,
                   acksequence, error, count, ran, stopping, calls>>

\* With the last worker gone the main thread does the loaders' work.
StopJoin ==
    /\ stack[Main] # <<>> /\ Top(Main).kind = "stopped"
    /\ LoaderFree
    /\ LET w == Top(Main).of IN
       /\ thread[w]
       /\ worker[w] = "exited"
       /\ thread' = [thread EXCEPT ![w] = FALSE]
       /\ worker' = [worker EXCEPT ![w] = "gone"]
    /\ live' = live - 1
    /\ stack' = IF live = 1 /\ ~noflush
                THEN [stack EXCEPT ![Main][Len(stack[Main])].kind = "flush"]
                ELSE Popped(Main)
    /\ UNCHANGED <<main, after, awaited, work, noflush, request, ackseq,
                   acksequence, error, count, ran, stopping, calls>>

StopFlush ==
    /\ stack[Main] # <<>> /\ Top(Main).kind = "flush"
    /\ IF work["loader"] # <<>>
       THEN LoaderFree /\ DoWork(Main, "loader")
       ELSE stack' = Popped(Main) /\ UNCHANGED <<work, ran>>
    /\ UNCHANGED <<main, after, awaited, pool, error, worker, calls>>
-----------------------------------------------------------------------------
(* The main thread.  At(p): it is at p and not inside anything it runs. *)

At(p) == main = p /\ stack[Main] = <<>>

Goto(p) == main' = p

\* A loop "while (COM_DoWork(g, false));" at p, which ends at the action Then.
Loop(g) ==
    /\ g = "loader" => LoaderFree
    /\ DoWork(Main, g)
    /\ UNCHANGED <<after, awaited, pool, error, worker, calls>>

AddRoot(j, atHead) ==
    /\ At("idle")
    /\ j \in Roots /\ ran[j] = 0
    /\ \A i \in 1..Len(work["loader"]) : work["loader"][i].of # j
    /\ AddLoader(Main, <<>>, j, atHead)
    /\ UNCHANGED <<main, after, awaited, pool, error, calls>>

\* COM_MainThreadWork, once a frame.
Poll == At("idle") /\ Loop("main") /\ Goto("idle")

Call(c) ==
    /\ At("idle") /\ c \in Calls /\ calls < MaxCalls
    /\ calls' = calls + 1

(* COM_WorkerFullSync *)

FullSync ==
    /\ Call("sync")
    /\ Goto("flush") /\ after' = "idle"
    /\ UNCHANGED <<awaited, stack, work, pool, error, worker, ran>>

SyncFlush == At("flush") /\ Loop("main") /\ Goto("flush")

SyncNobody ==
    /\ At("flush") /\ work["main"] = <<>> /\ ~HasWorkers
    /\ Goto(after)
    /\ UNCHANGED <<after, awaited, stack, work, pool, error, worker, ran, calls>>

SyncBegin ==
    /\ At("flush") /\ work["main"] = <<>> /\ HasWorkers
    /\ acksequence' = acksequence + 1
    /\ Goto("sync")
    /\ UNCHANGED <<after, awaited, stack, work, live, noflush, thread, request,
                   ackseq, error, count, worker, ran, stopping, calls>>

\* With no work anywhere every worker that owes an answer is asked for one.
Ask ==
    [w \in Workers |-> IF ackseq[w] # acksequence /\ request[w] = "none" THEN "ack" ELSE request[w]]

SyncAsk ==
    /\ At("syncask") /\ LoaderFree
    /\ request' = Ask
    /\ worker' = IF Ask # request THEN Awake ELSE worker
    /\ Goto("syncturn")
    /\ UNCHANGED <<after, awaited, stack, work, live, noflush, thread, ackseq,
                   acksequence, error, count, ran, stopping, calls>>

SyncIdle ==
    /\ At("sync") /\ ~HasWork
    /\ Goto("syncask")
    /\ UNCHANGED <<after, awaited, stack, work, pool, error, worker, ran, calls>>

\* The rest of a turn, under the main thread's mutex.
AtTurn == At("syncturn") \/ (At("sync") /\ HasWork)

Owed == \E w \in Workers : thread[w] /\ ackseq[w] # acksequence

SyncWork == AtTurn /\ Loop("main") /\ Goto("syncran")

SyncRanSlip ==
    /\ At("syncran")
    /\ acksequence' = acksequence
    /\ Goto(IF error THEN after ELSE "sync")
    /\ UNCHANGED <<after, awaited, stack, work, live, noflush, thread, request,
                   ackseq, error, count, worker, ran, stopping, calls>>

\* What was run may have added work: everyone is asked again.
SyncRan ==
    /\ At("syncran")
    /\ acksequence' = acksequence + 1
    /\ Goto(IF error THEN after ELSE "sync")
    /\ UNCHANGED <<after, awaited, stack, work, live, noflush, thread, request,
                   ackseq, error, count, worker, ran, stopping, calls>>

SyncWait ==
    /\ AtTurn /\ work["main"] = <<>> /\ Owed
    /\ Goto("syncwait")
    /\ UNCHANGED <<after, awaited, stack, work, pool, error, worker, ran, calls>>

SyncWoken ==
    /\ At("syncwoken")
    /\ Goto(IF error THEN after ELSE "sync")
    /\ UNCHANGED <<after, awaited, stack, work, pool, error, worker, ran, calls>>

SyncEnd ==
    /\ AtTurn /\ work["main"] = <<>> /\ ~Owed
    /\ Goto(after)
    /\ UNCHANGED <<after, awaited, stack, work, pool, error, worker, ran, calls>>

MainSpurious ==
    /\ main \in {"syncwait", "partialwait"}
    /\ main' = MainAwake
    /\ UNCHANGED <<after, awaited, stack, work, pool, error, worker, ran, calls>>
-----------------------------------------------------------------------------
(* COM_WorkerPartialSync: the object is loaded when the awaited job of the  *)
(* main thread has run.  The search for the job to put it first never       *)
(* happens: its loop runs from WG_LOADER, 1, while below WG_MAIN, 0.        *)

InHand(j) == \/ \E t \in Workers \cup {Main} : \E i \in 1..Len(stack[t]) :
                    stack[t][i].kind = "job" /\ stack[t][i].of = j
             \/ \E g \in {"main", "loader"} : \E i \in 1..Len(work[g]) :
                    work[g][i].kind = "job" /\ work[g][i].of = j

\* "an ancestor of the work must be pending"
Pending(j) == InHand(j) \/ \E k \in LoaderJobs : Posts[k] = j /\ InHand(k)

PartialSync(j) ==
    /\ Call("partial")
    /\ ran[j] = 0 /\ Pending(j)
    /\ awaited' = j
    /\ IF work["main"] # <<>> THEN DoWork(Main, "main") ELSE UNCHANGED <<work, stack, ran>>
    /\ Goto("boost")
    /\ UNCHANGED <<after, pool, error, worker>>

Loaded == ran[awaited] > 0

\* The loop of the search that found nothing.
Boost == At("boost") /\ Loop("main") /\ Goto("boosted")

BoostEnd ==
    /\ At("boosted")
    /\ Goto(IF Loaded THEN "idle" ELSE "boost")
    /\ UNCHANGED <<after, awaited, stack, work, pool, error, worker, ran, calls>>

Boosted ==
    /\ At("boost") /\ work["main"] = <<>>
    /\ Goto(IF error THEN "idle" ELSE "partial")
    /\ UNCHANGED <<after, awaited, stack, work, pool, error, worker, ran, calls>>

PartialWork == At("partial") /\ Loop("main") /\ Goto("partialran")

PartialRan ==
    /\ At("partialran")
    /\ Goto(IF Loaded THEN "idle" ELSE "partial")
    /\ UNCHANGED <<after, awaited, stack, work, pool, error, worker, ran, calls>>

PartialWait ==
    /\ At("partial") /\ work["main"] = <<>>
    /\ Goto(IF Loaded THEN "idle" ELSE "partialwait")
    /\ UNCHANGED <<after, awaited, stack, work, pool, error, worker, ran, calls>>

PartialWoken ==
    /\ At("partialwoken")
    /\ Goto(IF error THEN "idle" ELSE "partial")
    /\ UNCHANGED <<after, awaited, stack, work, pool, error, worker, ran, calls>>
-----------------------------------------------------------------------------
(* Stopping the workers and starting them *)

AllDie == [w \in Workers |-> "die"]

CreatedSlip(n) == {w \in Workers : w <= n}

\* Slots of threads that are not running get a new one.
Created(n) == {w \in Workers : w <= n /\ ~thread[w]}

Create(n) ==
    /\ thread' = [w \in Workers |-> thread[w] \/ w \in Created(n)]
    /\ worker' = [w \in Workers |-> IF w \in Created(n) THEN "starting" ELSE worker[w]]


\* COM_WorkerLock
Lock ==
    /\ Call("lock")
    /\ stopping' = {w \in Workers : Live(w)}
    /\ IF HasWorkers
       THEN /\ LoaderFree
            /\ noflush' = TRUE
            /\ request' = AllDie
            /\ worker' = Awake
            /\ Goto("locking")
       ELSE Goto("locked") /\ UNCHANGED <<noflush, request, worker>>
    /\ UNCHANGED <<after, awaited, stack, work, live, thread, ackseq,
                   acksequence, error, count, ran>>

LockWork ==
    /\ At("locking") /\ live > 0
    /\ Loop(IF work["main"] # <<>> THEN "main" ELSE "loader")
    /\ Goto("locking")

LockEndSlip ==
    /\ At("locking") /\ live <= 1 /\ LoaderFree
    /\ noflush' = FALSE
    /\ Goto("locked")
    /\ UNCHANGED <<after, awaited, stack, work, live, thread, request, ackseq,
                   acksequence, error, count, worker, ran, stopping, calls>>

LockEnd ==
    /\ At("locking") /\ live = 0 /\ LoaderFree
    /\ noflush' = FALSE
    /\ Goto("locked")
    /\ UNCHANGED <<after, awaited, stack, work, live, thread, request, ackseq,
                   acksequence, error, count, worker, ran, stopping, calls>>

\* COM_WorkerUnlock
Unlock ==
    /\ At("locked")
    /\ Create(count)
    /\ request' = [w \in Workers |-> IF w \in Created(count) THEN "none" ELSE request[w]]
    /\ stopping' = {}
    /\ Goto(IF Created(count) = {} THEN "unlocking" ELSE "idle")
    /\ UNCHANGED <<after, awaited, stack, work, live, noflush, ackseq,
                   acksequence, error, count, ran, calls>>

UnlockWork == At("unlocking") /\ Loop("loader") /\ Goto("unlocking")

UnlockEnd ==
    /\ At("unlocking") /\ work["loader"] = <<>>
    /\ Goto("idle")
    /\ UNCHANGED <<after, awaited, stack, work, pool, error, worker, ran, calls>>

\* COM_WorkerCount_Change: flags and broadcast without the mutex.
CountChange(n) ==
    /\ Call("count")
    /\ count' = n
    /\ Goto("count")
    /\ UNCHANGED <<after, awaited, stack, work, live, noflush, thread, request,
                   ackseq, acksequence, error, worker, ran, stopping>>

CountWork == At("count") /\ Loop("main") /\ Goto("count")

CountFlags ==
    /\ At("count") /\ work["main"] = <<>>
    /\ Create(count)
    /\ request' = [w \in Workers |-> IF w > count THEN "die"
                                     ELSE IF w \in Created(count) THEN "none" ELSE request[w]]
    /\ Goto("countwake")
    /\ UNCHANGED <<after, awaited, stack, work, live, noflush, ackseq,
                   acksequence, error, count, ran, stopping, calls>>

CountWake ==
    /\ At("countwake")
    /\ worker' = Awake
    /\ Goto("idle")
    /\ UNCHANGED <<after, awaited, stack, work, pool, error, ran, calls>>

\* COM_DestroyWorkerThread
Destroy ==
    /\ Call("destroy") /\ LoaderFree
    /\ request' = AllDie
    /\ worker' = Awake
    /\ stopping' = {w \in Workers : Live(w)}
    /\ Goto("destroy")
    /\ UNCHANGED <<after, awaited, stack, work, live, noflush, thread, ackseq,
                   acksequence, error, count, ran>>

DestroyWork == At("destroy") /\ Loop("loader") /\ Goto("destroy")

DestroySync ==
    /\ At("destroy") /\ work["loader"] = <<>>
    /\ Goto("flush") /\ after' = "closing"
    /\ UNCHANGED <<awaited, stack, work, pool, error, worker, ran, calls>>

CloseWork == At("closing") /\ Loop("main") /\ Goto("closing")

Close ==
    /\ At("closing") /\ work["main"] = <<>>
    /\ Goto("down")
    /\ UNCHANGED <<after, awaited, stack, work, pool, error, worker, ran, calls>>
-----------------------------------------------------------------------------
\* After COM_InitWorkerThread: the threads are created and not yet running.
Init ==
    /\ main = "idle" /\ after = "idle" /\ awaited = 0
    /\ stack = [t \in Workers \cup {Main} |-> <<>>]
    /\ work = [main |-> <<>>, loader |-> <<>>]
    /\ live = 0 /\ noflush = FALSE
    /\ thread = [w \in Workers |-> TRUE]
    /\ request = [w \in Workers |-> "none"]
    /\ ackseq = [w \in Workers |-> 0]
    /\ acksequence = 0
    /\ error = FALSE
    /\ count = NumWorkers
    /\ worker = [w \in Workers |-> "starting"]
    /\ ran = [j \in Jobs |-> 0]
    /\ stopping = {}
    /\ calls = 0

Worker(w) ==
    \/ WStart(w) \/ WTake(w) \/ WDie(w) \/ WAck(w) \/ WAcked(w) \/ WLook(w)
    \/ WSleep(w) \/ WLeave(w) \/ Report(w)

Running(t) == PostLoader(t) \/ PostMain(t) \/ Finish(t)

\* What the main thread goes on with, once it has begun.
MainGoesOn ==
    \/ Running(Main) \/ StopJoin \/ StopFlush \/ Poll
    \/ SyncFlush \/ SyncNobody \/ SyncBegin \/ SyncAsk \/ SyncIdle \/ SyncWork
    \/ SyncRan \/ SyncWait \/ SyncWoken \/ SyncEnd
    \/ Boost \/ BoostEnd \/ Boosted \/ PartialWork \/ PartialRan \/ PartialWait
    \/ PartialWoken
    \/ LockWork \/ LockEnd \/ Unlock \/ UnlockWork \/ UnlockEnd
    \/ CountWork \/ CountFlags \/ CountWake
    \/ DestroyWork \/ DestroySync \/ CloseWork \/ Close

MainCalls ==
    \/ \E j \in Roots, atHead \in BOOLEAN : AddRoot(j, atHead)
    \/ FullSync
    \/ \E j \in MainJobs : PartialSync(j)
    \/ Lock
    \/ \E n \in 0..NumWorkers : CountChange(n)
    \/ Destroy

\* The program is over: conditions destroyed, or aborted.
Over == main \in {"down", "fatal"}

Next ==
    \/ /\ ~Over
       /\ \/ MainGoesOn \/ MainCalls \/ MainAbort \/ MainSpurious
          \/ \E w \in Workers : Worker(w) \/ Running(w) \/ Abort(w)
    \/ (Over \/ At("idle")) /\ UNCHANGED vars

Spec == Init /\ [][Next]_vars

\* Both kinds of threads are scheduled; nobody need call anything, and nothing
\* need fail.
FairSpec ==
    /\ Spec
    /\ WF_vars(~Over /\ (MainGoesOn \/ (MainAbort /\ Top(Main).kind = "fatal")))
    /\ \A w \in Workers : WF_vars(~Over /\ (Worker(w) \/ Running(w)))
-----------------------------------------------------------------------------
(* Properties *)

MainPlaces == {"idle", "flush", "sync", "syncask", "syncturn", "syncran",
    "syncwait", "syncwoken", "boost", "boosted", "partial", "partialran",
    "partialwait", "partialwoken", "locking", "locked", "unlocking", "count",
    "countwake", "destroy", "closing", "down", "fatal"}

WorkerPlaces == {"gone", "starting", "holding", "ready", "ran", "run",
    "drowsy", "asleep", "acking", "leaving", "aborting", "exited"}

Items == [kind : {"job"}, of : Jobs, posted : BOOLEAN]
         \cup [kind : {"stopped", "error", "flush"}, of : Workers, posted : {FALSE}]
         \cup [kind : {"fatal"}, of : {0}, posted : {FALSE}]

\* Types; no job of COM_AddWork is begun twice, and com_liveworkers counts the
\* workers that have begun and are not joined.
TypeOK ==
    /\ main \in MainPlaces
    /\ after \in {"idle", "closing"}
    /\ awaited \in MainJobs \cup {0}
    /\ stack \in [Workers \cup {Main} -> Seq(Items)]
    /\ work \in [{"main", "loader"} -> Seq(Items)]
    /\ live = Cardinality({w \in Workers : Live(w)})
    /\ noflush \in BOOLEAN
    /\ thread \in [Workers -> BOOLEAN]
    /\ request \in [Workers -> {"none", "die", "ack"}]
    /\ ackseq \in [Workers -> Nat]
    /\ acksequence \in Nat
    /\ error \in BOOLEAN
    /\ count \in 0..NumWorkers
    /\ worker \in [Workers -> WorkerPlaces]
    /\ ran \in [Jobs -> 0..1]
    /\ stopping \subseteq Workers
    /\ calls \in 0..MaxCalls

\* COM_WorkerLock and COM_DestroyWorkerThread: when they have returned, every
\* worker that was running when they began is joined, and no condition that is
\* destroyed is still in use by one.
StopsAreJoined ==
    ~error /\ main \in {"locked", "down"} =>
        \A w \in stopping : worker[w] = "gone"

\* A job of the loaders that another of them added.
Adopted(j) == \E k \in LoaderJobs : Posts[k] = j

\* COM_WorkerFullSync, where it had to wait: on its normal return nothing is left,
\* queued or running, but what loaders' jobs added for the loaders: a worker answers
\* once, and may then take what the job of another adds.
WaitedSyncFlushes ==
    [][SyncEnd =>
          /\ work["main"] = <<>>
          /\ \A i \in 1..Len(work["loader"]) : Adopted(work["loader"][i].of)
          /\ \A w \in Workers : \A i \in 1..Len(stack[w]) : Adopted(stack[w][i].of)]_vars

\* The main thread is in COM_WorkerFullSync, called for its own sake and not by
\* COM_DestroyWorkerThread.
Syncing == after = "idle" /\ main \in {"flush", "sync", "syncask", "syncturn",
                                       "syncran", "syncwait", "syncwoken"}


\* COM_WorkerFullSync "fully flushes ALL pending work" (common.c 6551), and so ends.
SyncReturns == Syncing ~> (main = "idle" \/ Over)

\* Work that is queued is run, by a worker or by the main thread when the last
\* worker has gone, as long as the program runs.
EveryJobRuns ==
    \A j \in Jobs : InHand(j) ~> (ran[j] > 0 \/ Over)

\* COM_WorkerAbort: an error on a worker ends the program, wherever the main
\* thread waits.
AbortEndsProgram == error ~> Over
=============================================================================
