------------------------------ MODULE SqlServer ------------------------------
(* The server's SQL connection (src/engine/server/sv_sql.c): the main thread  *)
(* queues queries for one worker thread per connection, which runs them and   *)
(* queues their results back.  SQL_ServerCycle hands the results, once a      *)
(* frame, to the QuakeC callbacks.                                            *)
(*                                                                            *)
(* Every step is what one thread does between two points at which the other   *)
(* can be seen: a critical section is one step, a read or a write outside     *)
(* one is a step of its own.  The condition's mutex is held by the worker     *)
(* exactly while it is in WorkerLocked.  Memory that is used after it was     *)
(* freed is noted in misuse, and the run goes on as if it were still intact.  *)
EXTENDS Naturals, Sequences, FiniteSets

CONSTANTS
    MaxQueries,     \* bound: queries asked in a behaviour
    MaxParts,       \* bound: results one query is answered in
    MaxNum,         \* the last query number before they wrap, 1<<21
    MaxLive         \* bound: queries open at a time

ASSUME QueryNumbersSuffice ==
    /\ {MaxQueries, MaxParts, MaxNum, MaxLive} \subseteq Nat \ {0}
    /\ MaxLive < MaxNum

VARIABLES
    main,           \* where the main thread is
    worker,         \* where the worker thread is
    active,         \* sqlserver_t.active
    failed,         \* the worker's `error'
    queue,          \* requestqueue
    results,        \* results, records [query, part, eof]
    job,            \* the query the worker runs and the parts it has answered
    state,          \* queryrequest_t.state, "none" before and "freed" after
    num,            \* queryrequest_t.num
    persistant,     \* queryrequest_t.user.persistant
    chain,          \* queryrequest_t.results, newest first
    querynum,       \* the number of the next query
    answers,        \* history: results given to a callback, in order
    misuse          \* history: where freed memory has been used

vars == <<main, worker, active, failed, queue, results, job, state, num,
          persistant, chain, querynum, answers, misuse>>
mainOnly == <<state, num, persistant, chain, querynum, answers, misuse>>

Query == 1 .. MaxQueries
NoJob == [query |-> 0, parts |-> 0]
Open == {q \in Query : state[q] \notin {"none", "freed"}}   \* server->requests
Terminated == worker = "dead"                               \* terminated

WorkerLocked == worker \in {"sleepy", "pull"}

\* What is pushed goes to the end of its queue, and a new result to the front of
\* its request's chain.  (The Slips are the mistakes the properties must catch.)
PushedSlip(s, x) == <<x>> \o s
Pushed(s, x) == Append(s, x)

Prefixed(x, s) == <<x>> \o s

-----------------------------------------------------------------------------
Empty(default) == [q \in Query |-> default]

\* SQL_NewServer
NewServer ==
    /\ worker = "connect" /\ state = Empty("none") /\ num = Empty(0)
    /\ persistant = Empty(FALSE) /\ chain = Empty(<<>>)
    /\ querynum = 1 /\ answers = <<>>

\* A connection long in use, its numbers wrapped any number of times: of all its
\* queries one is still open, a persistant one that QuakeC has kept.
OldServer ==
    /\ worker = "asleep"
    /\ state = [Empty("none") EXCEPT ![1] = "FINISHED"]
    /\ num = [Empty(0) EXCEPT ![1] = 1]
    /\ persistant = [Empty(FALSE) EXCEPT ![1] = TRUE]
    /\ chain = [Empty(<<>>) EXCEPT ![1] = <<1>>]
    /\ querynum \in 2 .. MaxNum
    /\ answers = <<[query |-> 1, part |-> 1, eof |-> TRUE]>>

Init ==
    /\ main = "frame" /\ active = TRUE /\ failed = FALSE
    /\ queue = <<>> /\ results = <<>> /\ job = NoJob /\ misuse = {}
    /\ NewServer \/ OldServer

-----------------------------------------------------------------------------
(* The main thread: QuakeC and the console                                    *)

\* The query number after n that no open query has.
NextNumberSlip(n) == (n % MaxNum) + 1
NextNumber(n) ==
    LET After(k) == ((n + k - 1) % MaxNum) + 1
        free == {k \in 1 .. MaxNum : \A q \in Open : num[q] # After(k)}
    IN  After(CHOOSE k \in free : \A j \in free : k <= j)

\* SQL_NewQuery up to the end of SQL_PushRequest: the signal comes after the
\* unlock.  SQL_GetServer refuses a connection that is no longer active.
NewQuery ==
    /\ main = "frame" /\ active /\ ~WorkerLocked
    /\ Cardinality(Open) < MaxLive
    /\ \E q \in Query, keep \in BOOLEAN :
        /\ state[q] = "none" /\ \A p \in 1 .. q - 1 : state[p] # "none"
        /\ num' = [num EXCEPT ![q] = querynum]
        /\ querynum' = NextNumber(querynum)
        /\ state' = [state EXCEPT ![q] = "PENDING"]
        /\ persistant' = [persistant EXCEPT ![q] = keep]
        /\ queue' = Pushed(queue, q)
    /\ main' = "signal"
    /\ UNCHANGED <<worker, active, failed, results, job, chain, answers, misuse>>

\* Sys_ConditionSignal and Sys_ConditionBroadcast: one worker can be waiting.
Wake == worker' = IF worker = "asleep" THEN "woken" ELSE worker

Signal ==
    /\ main = "signal" /\ Wake /\ main' = "frame"
    /\ UNCHANGED <<active, failed, queue, results, job, mainOnly>>

\* SQL_Disconnect and SQL_Kill_f: the flag and the broadcast, without the lock.
Disconnect ==
    /\ main = "frame" /\ active
    /\ active' = FALSE /\ main' = "disconnect"
    /\ UNCHANGED <<worker, failed, queue, results, job, mainOnly>>

DisconnectWake ==
    /\ main = "disconnect" /\ Wake /\ main' = "frame"
    /\ UNCHANGED <<active, failed, queue, results, job, mainOnly>>

\* What SQL_CloseRequest does to the request: it is freed unless the worker may
\* still hold it, and then marked to be freed by its last result.
ClosedSlip(q, force) == "freed"
Closed(q, force) ==
    IF state[q] = "FINISHED" \/ force THEN "freed" ELSE "ABORTED"

\* PF_sqlclosequery
CloseQuery ==
    /\ main = "frame" /\ active
    /\ \E q \in Open :
        /\ state' = [state EXCEPT ![q] = Closed(q, FALSE)]
        /\ chain' = [chain EXCEPT ![q] = <<>>]
    /\ UNCHANGED <<main, worker, active, failed, queue, results, job, num,
                   persistant, querynum, answers, misuse>>

-----------------------------------------------------------------------------
(* The main thread: SQL_ServerCycle                                           *)

Cycle ==
    /\ main = "frame" /\ main' = "cycle"
    /\ UNCHANGED <<worker, active, failed, queue, results, job, mainOnly>>

\* One result of SQL_PullResult.  The worker's own error has no request.
CycleServerError ==
    /\ main = "cycle" /\ results # <<>> /\ Head(results) = NoJob
    /\ results' = Tail(results)
    /\ UNCHANGED <<main, worker, active, failed, queue, job, mainOnly>>

\* The result is chained to its request and freed again.  The last one closes
\* the request, and the result with it, before SQL_CloseResult reads it.
CycleAborted ==
    /\ main = "cycle" /\ results # <<>> /\ Head(results) # NoJob
    /\ LET r == Head(results)  q == r.query IN
        /\ state[q] = "ABORTED"
        /\ state' = [state EXCEPT ![q] = IF r.eof THEN Closed(q, TRUE) ELSE @]
        /\ chain' = [chain EXCEPT ![q] = IF r.eof THEN <<>> ELSE @]
        /\ misuse' = misuse \union (IF r.eof THEN {"aborted"} ELSE {})
    /\ results' = Tail(results)
    /\ UNCHANGED <<main, worker, active, failed, queue, job, num, persistant,
                   querynum, answers>>

\* The callback of a query that is not aborted, which may close the query
\* itself (closes); a query that is not persistant gives its results back.
\* Sys_Error("SQL: Results after finished!\n") ends the server.
CycleAnswer ==
    /\ main = "cycle" /\ results # <<>> /\ Head(results) # NoJob
    /\ LET r == Head(results)  q == r.query IN
        /\ state[q] # "ABORTED"
        /\ main' = IF state[q] \in {"PENDING", "PARTIAL"} THEN main ELSE "error"
        /\ answers' = Append(answers, r)
        /\ \E closes \in {FALSE, active} :
            /\ state' = [state EXCEPT ![q] =
                   CASE r.eof /\ (closes \/ ~persistant[q]) -> "freed"
                     [] r.eof /\ ~closes /\ persistant[q] -> "FINISHED"
                     [] ~r.eof /\ closes -> "ABORTED"
                     [] ~r.eof /\ ~closes -> "PARTIAL"]
            /\ chain' = [chain EXCEPT ![q] =
                   IF closes THEN <<>>
                   ELSE IF persistant[q] THEN Prefixed(r.part, @) ELSE @]
            /\ misuse' = misuse \union
                   (IF closes /\ (r.eof \/ ~persistant[q]) THEN {"callback"} ELSE {})
    /\ results' = Tail(results)
    /\ UNCHANGED <<worker, active, failed, queue, job, num, persistant, querynum>>

\* SQL_PullResult finds nothing; the flag is read afterwards.
CycleEmpty ==
    /\ main = "cycle" /\ results = <<>> /\ main' = "cycled"
    /\ UNCHANGED <<worker, active, failed, queue, results, job, mainOnly>>

CycleEnd ==
    /\ main = "cycled" /\ ~Terminated /\ main' = "frame"
    /\ UNCHANGED <<worker, active, failed, queue, results, job, mainOnly>>

-----------------------------------------------------------------------------
(* The main thread: SQL_CleanupServer, from SQL_ServerCycle once the worker   *)
(* has terminated or from SQL_KillServers at any time                         *)

Cleanup ==
    /\ main = "frame" \/ (main = "cycled" /\ Terminated)
    /\ active' = FALSE /\ main' = "cleanup"
    /\ UNCHANGED <<worker, failed, queue, results, job, mainOnly>>

CleanupWake ==
    /\ main = "cleanup" /\ Wake /\ main' = "join"
    /\ UNCHANGED <<active, failed, queue, results, job, mainOnly>>

\* Sys_WaitOnThread returns.  The queued requests are freed, then every request
\* on server->requests is, and a queued one is on both lists.
Join ==
    /\ main = "join" /\ Terminated
    /\ misuse' = misuse \union (IF \E i \in DOMAIN queue : queue[i] \in Open
                                THEN {"cleanup"} ELSE {})
    /\ state' = [q \in Query |-> IF q \in Open THEN "freed" ELSE state[q]]
    /\ chain' = [q \in Query |-> <<>>]
    /\ queue' = <<>> /\ results' = <<>>
    /\ main' = "gone"
    /\ UNCHANGED <<worker, active, failed, job, num, persistant, querynum, answers>>

-----------------------------------------------------------------------------
(* The worker thread: sql_serverworker                                        *)

WConnect ==
    /\ worker = "connect"
    /\ \E ok \in BOOLEAN :
        /\ failed' = ~ok
        /\ worker' = IF ok THEN "top" ELSE "leave"
    /\ UNCHANGED <<main, active, queue, results, job, mainOnly>>

\* Sys_LockConditional and the test for "lost" changes.
WLockSlip ==
    /\ worker = "top" /\ worker' = "sleepy"
    /\ UNCHANGED <<main, active, failed, queue, results, job, mainOnly>>

WLock ==
    /\ worker = "top"
    /\ worker' = IF queue = <<>> THEN "sleepy" ELSE "pull"
    /\ UNCHANGED <<main, active, failed, queue, results, job, mainOnly>>

\* Sys_ConditionWait gives the mutex up as it goes to sleep...
WSleep ==
    /\ worker = "sleepy" /\ worker' = "asleep"
    /\ UNCHANGED <<main, active, failed, queue, results, job, mainOnly>>

\* ... may return without having been woken, and takes the mutex again.
WSpurious ==
    /\ worker = "asleep" /\ worker' = "woken"
    /\ UNCHANGED <<main, active, failed, queue, results, job, mainOnly>>

WWoken ==
    /\ worker = "woken" /\ worker' = "pull"
    /\ UNCHANGED <<main, active, failed, queue, results, job, mainOnly>>

\* SQL_PullRequest, with the mutex held or ("next") taken for it.
WPull ==
    /\ worker \in {"pull", "next"}
    /\ IF queue = <<>>
       THEN /\ worker' = "idle"
            /\ UNCHANGED <<queue, job>>
       ELSE /\ worker' = "run"
            /\ job' = [query |-> Head(queue), parts |-> 0]
            /\ queue' = Tail(queue)
    /\ UNCHANGED <<main, active, failed, results, mainOnly>>

\* Nothing was queued: the flag is read after the unlock.
WIdle ==
    /\ worker = "idle"
    /\ worker' = IF active THEN "top" ELSE "leave"
    /\ UNCHANGED <<main, active, failed, queue, results, job, mainOnly>>

\* SQL_PushResult of the next rows, or of the one error a query ends with.
WAnswer ==
    /\ worker = "run"
    /\ \E eof \in BOOLEAN :
        /\ eof \/ job.parts + 1 < MaxParts
        /\ results' = Pushed(results, [query |-> job.query,
                                       part |-> job.parts + 1, eof |-> eof])
        /\ worker' = IF eof THEN "next" ELSE "run"
        /\ job' = IF eof THEN NoJob ELSE [job EXCEPT !.parts = @ + 1]
    /\ UNCHANGED <<main, active, failed, queue, mainOnly>>

\* The loop is left: the connection is inactive, an error is reported.
WLeave ==
    /\ worker = "leave"
    /\ active' = FALSE /\ worker' = "left"
    /\ UNCHANGED <<main, failed, queue, results, job, mainOnly>>

WReport ==
    /\ worker = "left"
    /\ results' = IF failed THEN Pushed(results, NoJob) ELSE results
    /\ worker' = "dead"
    /\ UNCHANGED <<main, active, failed, queue, job, mainOnly>>

-----------------------------------------------------------------------------
\* The server has given the connection up.
Gone ==
    /\ main \in {"gone", "error"} /\ UNCHANGED vars

MainCycle ==
    \/ Cycle \/ CycleServerError \/ CycleAborted \/ CycleAnswer
    \/ CycleEmpty \/ CycleEnd
MainWakes == Signal \/ DisconnectWake \/ CleanupWake
WorkerStep ==
    \/ WConnect \/ WLock \/ WSleep \/ WWoken \/ WPull \/ WIdle \/ WAnswer
    \/ WLeave \/ WReport

Next ==
    \/ NewQuery \/ Disconnect \/ CloseQuery \/ Cleanup \/ Join
    \/ MainCycle \/ MainWakes \/ WorkerStep \/ WSpurious \/ Gone

Spec == Init /\ [][Next]_vars

\* Both threads run: the server cycles the connection every frame and gets on
\* with what it is in the middle of, and the worker's calls return.  Nobody has
\* to query, disconnect or kill, and no wakeup has to be spurious.
FairSpec ==
    /\ Spec
    /\ WF_vars(MainCycle) /\ WF_vars(MainWakes) /\ WF_vars(Join)
    /\ WF_vars(Cleanup /\ main = "cycled") /\ WF_vars(WorkerStep)

-----------------------------------------------------------------------------
(* Properties                                                                 *)

\* The callbacks see the queries in the order they were asked, and every query's
\* results from the first on, without a gap, and nothing after its last one.
AnswersInOrder ==
    \A i \in DOMAIN answers :
        LET r == answers[i]
            earlier == {answers[j].part : j \in {j \in 1 .. i - 1 : answers[j].query = r.query}}
        IN  /\ earlier = 1 .. r.part - 1
            /\ \A j \in 1 .. i - 1 :
                /\ answers[j].query <= r.query
                /\ answers[j].query = r.query => ~answers[j].eof

\* QuakeC names a query by its number: no two open queries share one, however
\* often the numbers have wrapped.
NumbersAreUnique ==
    \A p, q \in Open : num[p] = num[q] => p = q

\* Until the connection is cleaned up, whatever a thread can still reach is
\* allocated: a queued request, the one the worker runs, and the request of a
\* result that has not been handed over.  (The worker may outlive the handle,
\* but not the cleanup, which joins it.)
ReachableIsAllocated ==
    /\ \A i \in DOMAIN queue : queue[i] \in Open
    /\ job # NoJob => job.query \in Open
    /\ \A i \in DOMAIN results : results[i] # NoJob => results[i].query \in Open

\* While nobody disconnects the server, every query gets its last result: no
\* wakeup of a new query is lost.
EveryQueryIsAnswered ==
    \A q \in Query :
        (state[q] = "PENDING" /\ active) ~>
            (state[q] \in {"FINISHED", "ABORTED", "freed"} \/ ~active)

\* Nothing is used after it was freed: not the request that was aborted while it
\* ran and is closed by its last result, not one whose callback closes it, not
\* one that was still queued when the worker left.
MemoryIsSafe == misuse = {}
=============================================================================
