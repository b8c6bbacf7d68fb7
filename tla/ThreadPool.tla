----------------------------- MODULE ThreadPool -----------------------------
(***************************************************************************)
(* The thread pool of 4/thread_pool.cpp: worker threads, and client        *)
(* threads that call the pool and task API concurrently.  An action is one *)
(* critical section of a mutex, one operation on the atomic task_count, or *)
(* a stretch of code that touches nothing shared.  A call that returns an  *)
(* error without changing anything is not a step.                          *)
(*                                                                         *)
(* Clients keep the rules of thread_pool.h: a task is deleted or detached  *)
(* only when no other thread is using it and not used after that; nobody   *)
(* pushes into a pool that is being deleted.                               *)
(***************************************************************************)
EXTENDS Integers, Sequences, FiniteSets, Functions

CONSTANTS
    Pools, Tasks,       \* addresses thread_pool_new and thread_task_new return
    Workers, Clients,   \* thread identities
    MaxThreads,         \* thread_count given to thread_pool_new
    MaxTasks,           \* TPOOL_MAX_TASKS
    Timeouts,           \* "finite" and "infinite" timeouts clients join with
    CreateMayFail,      \* pthread_create may fail
    NULL

ASSUME ThreadPoolAssumption ==
    /\ MaxThreads \in Nat \ {0}
    /\ MaxTasks \in Nat
    /\ Timeouts \subseteq {"finite", "infinite"}
    /\ CreateMayFail \in BOOLEAN
    /\ NULL \notin Pools \cup Tasks
    /\ IsFiniteSet(Tasks) /\ IsFiniteSet(Workers) /\ IsFiniteSet(Clients)

VARIABLES
    alive,      \* the allocated pools
    queue,      \* pool->queue
    count,      \* pool->task_count
    stopping,   \* pool->stopping
    threads,    \* pool->threads
    tstate,     \* task->state, "NONE" for a task that is not allocated
    tpool,      \* task->pool
    detached,   \* task->detached
    wpc,        \* where a worker is; "none" for a thread that does not exist
    wpool,      \* the worker's argument
    wtask,      \* the worker's local variable task
    cpc,        \* where a client is; "idle" between calls
    cpool, ctask,  \* the client's arguments
    expected,   \* local variable of thread_pool_push_task
    rejoined    \* history: a timed join has taken a task that was joined before

poolVars == <<alive, queue, count, stopping, threads>>
taskVars == <<tstate, tpool, detached>>
workerVars == <<wpc, wpool, wtask>>
clientVars == <<cpc, cpool, ctask, expected, rejoined>>
vars == <<poolVars, taskVars, workerVars, clientVars>>

InPool == {"QUEUED", "RUNNING", "FINISHED"}
Pushing == {"reserve", "check", "undo", "enqueue"}
Deleting == {"stop", "reap"}

(* The mutex of a task is held from one step to the next only by a client  *)
(* whose timed wait keeps failing (see TimedJoin).                         *)
Locked(t) == \E c \in Clients : cpc[c] = "spin" /\ ctask[c] = t

(* Rules the callers keep.                                                 *)
MayUse(t) ==
    /\ tstate[t] # "NONE"
    /\ ~detached[t]
    /\ \A c \in Clients : ~(cpc[c] = "dispose" /\ ctask[c] = t)
Exclusive(t) == MayUse(t) /\ \A c \in Clients : cpc[c] = "idle" \/ ctask[c] # t
MayPush(p) ==
    /\ p \in alive
    /\ \A c \in Clients : cpc[c] \in Deleting => cpool[c] # p
MayDelete(p) ==
    /\ MayPush(p)
    /\ \A c \in Clients : cpc[c] \in Pushing => cpool[c] # p

(* A client enters a call, or moves on inside it.                          *)
Call(c, at, p, t) ==
    /\ cpc' = [cpc EXCEPT ![c] = at]
    /\ cpool' = [cpool EXCEPT ![c] = p]
    /\ ctask' = [ctask EXCEPT ![c] = t]

Return(c) == Call(c, "idle", NULL, NULL)

-----------------------------------------------------------------------------
(* Mutant: nobody is signalled.                                            *)
MutantWakeWorkers(p) == wpc

(* pthread_cond_broadcast on a pool's condition.                           *)
WakeWorkers(p) ==
    [w \in Workers |-> IF wpc[w] = "wait" /\ wpool[w] = p THEN "loop" ELSE wpc[w]]

(* Mutant: nobody is signalled.                                            *)
MutantWakeJoiners(t) == cpc

(* pthread_cond_broadcast on a task's condition.                           *)
WakeJoiners(t) ==
    [c \in Clients |-> IF ctask[c] # t THEN cpc[c]
                       ELSE IF cpc[c] = "wait" THEN "join"
                       ELSE IF cpc[c] = "twait" THEN "tjoin"
                       ELSE cpc[c]]

-----------------------------------------------------------------------------
(* thread_pool_worker.                                                     *)
(* The first critical section: wait, leave, or take the oldest task.       *)
WorkerLoop(w) ==
    /\ wpc[w] = "loop"
    /\ LET p == wpool[w] IN
         \/ /\ queue[p] = <<>> /\ ~stopping[p]
            /\ wpc' = [wpc EXCEPT ![w] = "wait"]
            /\ UNCHANGED <<queue, wtask>>
         \/ /\ queue[p] = <<>> /\ stopping[p]
            /\ wpc' = [wpc EXCEPT ![w] = "exit"]
            /\ UNCHANGED <<queue, wtask>>
         \/ /\ queue[p] # <<>>
            /\ wtask' = [wtask EXCEPT ![w] = Head(queue[p])]
            /\ queue' = [queue EXCEPT ![p] = Tail(@)]
            /\ wpc' = [wpc EXCEPT ![w] = "start"]
    /\ UNCHANGED <<alive, count, stopping, threads, taskVars, wpool, clientVars>>

(* pthread_cond_wait may return with no signal; the loop tests again.      *)
WorkerSpurious(w) ==
    /\ wpc[w] = "wait"
    /\ wpc' = [wpc EXCEPT ![w] = "loop"]
    /\ UNCHANGED <<poolVars, taskVars, wpool, wtask, clientVars>>

WorkerStart(w) ==
    /\ wpc[w] = "start" /\ ~Locked(wtask[w])
    /\ tstate' = [tstate EXCEPT ![wtask[w]] = "RUNNING"]
    /\ wpc' = [wpc EXCEPT ![w] = "run"]
    /\ UNCHANGED <<poolVars, tpool, detached, wpool, wtask, clientVars>>

(* The function has returned (or thrown).  The critical section publishes  *)
(* that, wakes the joiners and reads whether the task was detached.        *)
WorkerFinish(w) ==
    /\ wpc[w] = "run" /\ ~Locked(wtask[w])
    /\ LET t == wtask[w] IN
         /\ tstate' = [tstate EXCEPT ![t] = "FINISHED"]
         /\ cpc' = WakeJoiners(t)
         /\ IF detached[t]
            THEN wpc' = [wpc EXCEPT ![w] = "delete"] /\ UNCHANGED wtask
            ELSE wpc' = [wpc EXCEPT ![w] = "loop"] /\ wtask' = [wtask EXCEPT ![w] = NULL]
    /\ UNCHANGED <<poolVars, tpool, detached, wpool, cpool, ctask, expected, rejoined>>

(* A detached task is deleted first and leaves task_count after that.      *)
WorkerDelete(w) ==
    /\ wpc[w] = "delete"
    /\ tstate' = [tstate EXCEPT ![wtask[w]] = "NONE"]
    /\ tpool' = [tpool EXCEPT ![wtask[w]] = NULL]
    /\ detached' = [detached EXCEPT ![wtask[w]] = FALSE]
    /\ wtask' = [wtask EXCEPT ![w] = NULL]
    /\ wpc' = [wpc EXCEPT ![w] = "release"]
    /\ UNCHANGED <<poolVars, wpool, clientVars>>

WorkerRelease(w) ==
    /\ wpc[w] = "release"
    /\ count' = [count EXCEPT ![wpool[w]] = @ - 1]
    /\ wpc' = [wpc EXCEPT ![w] = "loop"]
    /\ UNCHANGED <<alive, queue, stopping, threads, taskVars, wpool, wtask, clientVars>>

-----------------------------------------------------------------------------
PoolNew(c, p) ==
    /\ cpc[c] = "idle" /\ p \notin alive
    /\ alive' = alive \cup {p}
    /\ queue' = [queue EXCEPT ![p] = <<>>]
    /\ count' = [count EXCEPT ![p] = 0]
    /\ stopping' = [stopping EXCEPT ![p] = FALSE]
    /\ threads' = [threads EXCEPT ![p] = {}]
    /\ UNCHANGED <<taskVars, workerVars, clientVars>>

(* Mutant: task_count is not read.                                         *)
MutantPoolDelete(c, p) ==
    /\ cpc[c] = "idle" /\ MayDelete(p)
    /\ Call(c, "stop", p, NULL)
    /\ UNCHANGED <<poolVars, taskVars, workerVars, expected, rejoined>>

(* thread_pool_delete goes on only if it reads a zero task_count.          *)
PoolDelete(c, p) ==
    /\ cpc[c] = "idle" /\ MayDelete(p)
    /\ count[p] = 0
    /\ Call(c, "stop", p, NULL)
    /\ UNCHANGED <<poolVars, taskVars, workerVars, expected, rejoined>>

PoolDeleteStop(c) ==
    /\ cpc[c] = "stop"
    /\ stopping' = [stopping EXCEPT ![cpool[c]] = TRUE]
    /\ wpc' = WakeWorkers(cpool[c])
    /\ Call(c, "reap", cpool[c], NULL)
    /\ UNCHANGED <<alive, queue, count, threads, taskVars, wpool, wtask, expected, rejoined>>

(* pthread_join of every thread, then the pool is freed.                   *)
PoolDeleteReap(c) ==
    /\ cpc[c] = "reap"
    /\ LET p == cpool[c] IN
         /\ \A w \in threads[p] : wpc[w] = "exit"
         /\ wpc' = [w \in Workers |-> IF w \in threads[p] THEN "none" ELSE wpc[w]]
         /\ wpool' = [w \in Workers |-> IF w \in threads[p] THEN NULL ELSE wpool[w]]
         /\ alive' = alive \ {p}
         /\ threads' = [threads EXCEPT ![p] = {}]
         /\ stopping' = [stopping EXCEPT ![p] = FALSE]
    /\ Return(c)
    /\ UNCHANGED <<queue, count, taskVars, wtask, expected, rejoined>>

(* thread_pool_push_task: load task_count ...                              *)
Push(c, p, t) ==
    /\ cpc[c] = "idle" /\ MayPush(p) /\ MayUse(t)
    /\ expected' = [expected EXCEPT ![c] = count[p]]
    /\ Call(c, "reserve", p, t)
    /\ UNCHANGED <<poolVars, taskVars, workerVars, rejoined>>

(* ... reserve a place by compare-and-exchange, starting over when another *)
(* thread has changed the count (a weak exchange may also fail for no      *)
(* reason, which repeats the step) ...                                     *)
PushReserve(c) ==
    /\ cpc[c] = "reserve"
    /\ LET p == cpool[c] IN
         \/ /\ expected[c] >= MaxTasks
            /\ Return(c)
            /\ expected' = [expected EXCEPT ![c] = 0]
            /\ UNCHANGED count
         \/ /\ expected[c] < MaxTasks /\ count[p] = expected[c]
            /\ count' = [count EXCEPT ![p] = @ + 1]
            /\ expected' = [expected EXCEPT ![c] = 0]
            /\ Call(c, "check", p, ctask[c])
         \/ /\ expected[c] < MaxTasks /\ count[p] # expected[c]
            /\ expected' = [expected EXCEPT ![c] = count[p]]
            /\ UNCHANGED <<count, cpc, cpool, ctask>>
    /\ UNCHANGED <<alive, queue, stopping, threads, taskVars, workerVars, rejoined>>

(* Mutant: the state is not looked at.                                     *)
MutantFreeTask(t) == TRUE

(* The test a task must pass to be pushed.                                 *)
FreeTask(t) == tpool[t] = NULL /\ tstate[t] \notin InPool

(* ... claim the task, or find that it is in a pool already ...            *)
PushCheck(c) ==
    /\ cpc[c] = "check" /\ ~Locked(ctask[c])
    /\ LET t == ctask[c] IN
         \/ /\ ~FreeTask(t)
            /\ Call(c, "undo", cpool[c], NULL)
            /\ UNCHANGED <<tstate, tpool>>
         \/ /\ FreeTask(t)
            /\ tpool' = [tpool EXCEPT ![t] = cpool[c]]
            /\ tstate' = [tstate EXCEPT ![t] = "QUEUED"]
            /\ Call(c, "enqueue", cpool[c], t)
    /\ UNCHANGED <<poolVars, detached, workerVars, expected, rejoined>>

(* Mutant: a refused push keeps its place in task_count.                   *)
MutantPushUndo(c) ==
    /\ cpc[c] = "undo"
    /\ Return(c)
    /\ UNCHANGED <<poolVars, taskVars, workerVars, expected, rejoined>>

PushUndo(c) ==
    /\ cpc[c] = "undo"
    /\ count' = [count EXCEPT ![cpool[c]] = @ - 1]
    /\ Return(c)
    /\ UNCHANGED <<alive, queue, stopping, threads, taskVars, workerVars, expected, rejoined>>

(* How many threads the loop of thread_pool_push_task starts for a queue   *)
(* of n tasks when pthread_create always succeeds.                         *)
Missing(p, n) ==
    LET wanted == IF n < MaxThreads THEN n ELSE MaxThreads
        have == Cardinality(threads[p])
    IN IF have < wanted THEN wanted - have ELSE 0

(* ... and put it into the queue, start threads and wake the sleeping ones.*)
PushEnqueue(c) ==
    /\ cpc[c] = "enqueue"
    /\ LET p == cpool[c] IN
         /\ queue' = [queue EXCEPT ![p] = Append(@, ctask[c])]
         /\ \E new \in SUBSET {w \in Workers : wpc[w] = "none"} :
              /\ \/ Cardinality(new) = Missing(p, Len(queue[p]) + 1)
                 \/ CreateMayFail /\ Cardinality(new) < Missing(p, Len(queue[p]) + 1)
              /\ threads' = [threads EXCEPT ![p] = @ \cup new]
              /\ wpc' = [w \in Workers |-> IF w \in new THEN "loop" ELSE WakeWorkers(p)[w]]
              /\ wpool' = [w \in Workers |-> IF w \in new THEN p ELSE wpool[w]]
    /\ Return(c)
    /\ UNCHANGED <<alive, count, stopping, taskVars, wtask, expected, rejoined>>

-----------------------------------------------------------------------------
TaskNew(c, t) ==
    /\ cpc[c] = "idle" /\ tstate[t] = "NONE"
    /\ tstate' = [tstate EXCEPT ![t] = "NEW"]
    /\ tpool' = [tpool EXCEPT ![t] = NULL]
    /\ detached' = [detached EXCEPT ![t] = FALSE]
    /\ UNCHANGED <<poolVars, workerVars, clientVars>>

(* The critical section of thread_task_join, entered at the call and after *)
(* every wait.                                                             *)
JoinBody(c, t) ==
    /\ ~Locked(t)
    /\ \/ /\ tstate[t] \notin {"FINISHED", "JOINED"}
          /\ Call(c, "wait", NULL, t)
          /\ UNCHANGED <<tstate, tpool>>
       \/ /\ tstate[t] = "FINISHED"
          /\ tstate' = [tstate EXCEPT ![t] = "JOINED"]
          /\ tpool' = [tpool EXCEPT ![t] = NULL]
          /\ Call(c, "leave", tpool[t], NULL)
       \/ /\ tstate[t] = "JOINED"
          /\ Return(c)
          /\ UNCHANGED <<tstate, tpool>>
    /\ UNCHANGED <<poolVars, detached, workerVars, expected, rejoined>>

(* A task that was never pushed is refused at once.                        *)
Join(c, t) ==
    /\ cpc[c] = "idle" /\ MayUse(t)
    /\ tstate[t] # "NEW"
    /\ JoinBody(c, t)

JoinTest(c) == cpc[c] = "join" /\ JoinBody(c, ctask[c])

(* The task leaves task_count after the mutex is released.                 *)
JoinLeave(c) ==
    /\ cpc[c] = "leave"
    /\ count' = [count EXCEPT ![cpool[c]] = @ - 1]
    /\ Return(c)
    /\ UNCHANGED <<alive, queue, stopping, threads, taskVars, workerVars, expected, rejoined>>

(* A wakeup without a broadcast, of either join.                           *)
JoinSpurious(c) ==
    /\ \/ cpc[c] = "wait" /\ cpc' = [cpc EXCEPT ![c] = "join"]
       \/ cpc[c] = "twait" /\ cpc' = [cpc EXCEPT ![c] = "tjoin"]
    /\ UNCHANGED <<poolVars, taskVars, workerVars, cpool, ctask, expected, rejoined>>

(* state = JOINED and task->pool->task_count.fetch_sub(1), under the lock. *)
TimedTake(t) ==
    /\ tpool[t] # NULL
    /\ tstate' = [tstate EXCEPT ![t] = "JOINED"]
    /\ count' = [count EXCEPT ![tpool[t]] = @ - 1]
    /\ UNCHANGED workerVars

(* The same with a null task->pool: the process is gone.                   *)
Crash(t) ==
    /\ tpool[t] = NULL
    /\ cpc' = [c \in Clients |-> "dead"]
    /\ wpc' = [w \in Workers |-> "dead"]
    /\ UNCHANGED <<tstate, count, cpool, ctask, wpool, wtask>>

(* thread_task_timed_join up to its first wait.  The deadline is computed  *)
(* by converting the timeout to time_t and long; for an infinite timeout   *)
(* the conversions overflow, pthread_cond_timedwait rejects the deadline   *)
(* without releasing the mutex, and the loop, which only looks for         *)
(* ETIMEDOUT, calls it again for ever.                                     *)
TimedJoin(c, t, timeout) ==
    /\ cpc[c] = "idle" /\ MayUse(t)
    /\ tstate[t] # "NEW" /\ ~Locked(t)
    /\ \/ tstate[t] \in {"FINISHED", "JOINED"} /\ Crash(t)
       \/ /\ tstate[t] \in {"FINISHED", "JOINED"}
          /\ TimedTake(t)
          /\ UNCHANGED <<cpc, cpool, ctask>>
       \/ /\ tstate[t] \notin {"FINISHED", "JOINED"}
          /\ Call(c, IF timeout = "finite" THEN "twait" ELSE "spin", NULL, t)
          /\ UNCHANGED <<tstate, count, workerVars>>
    /\ rejoined' = (rejoined \/ tstate[t] = "JOINED")
    /\ UNCHANGED <<alive, queue, stopping, threads, tpool, detached, expected>>

(* Its loop after a wakeup.                                                *)
TimedJoinTest(c) ==
    /\ cpc[c] = "tjoin" /\ ~Locked(ctask[c])
    /\ LET t == ctask[c] IN
         \/ /\ tstate[t] \notin {"FINISHED", "JOINED"}
            /\ Call(c, "twait", NULL, t)
            /\ UNCHANGED <<tstate, count, workerVars>>
         \/ /\ tstate[t] = "FINISHED"
            /\ TimedTake(t)
            /\ Return(c)
         \/ /\ tstate[t] = "JOINED"
            /\ Return(c)
            /\ UNCHANGED <<tstate, count, workerVars>>
    /\ UNCHANGED <<alive, queue, stopping, threads, tpool, detached, expected, rejoined>>

(* ETIMEDOUT is final, also when the task finishes (and broadcasts) before *)
(* the timed-out client has the mutex again.                               *)
TimedJoinTimeout(c) ==
    /\ cpc[c] \in {"tjoin", "twait"} /\ ~Locked(ctask[c])
    /\ Return(c)
    /\ UNCHANGED <<poolVars, taskVars, workerVars, expected, rejoined>>

(* Mutant: a task is deleted whatever its state.                           *)
MutantTaskDelete(c, t) ==
    /\ cpc[c] = "idle" /\ Exclusive(t)
    /\ tstate' = [tstate EXCEPT ![t] = "NONE"]
    /\ tpool' = [tpool EXCEPT ![t] = NULL]
    /\ UNCHANGED <<poolVars, detached, workerVars, clientVars>>

TaskDelete(c, t) ==
    /\ cpc[c] = "idle" /\ Exclusive(t)
    /\ tstate[t] \notin InPool
    /\ tstate' = [tstate EXCEPT ![t] = "NONE"]
    /\ tpool' = [tpool EXCEPT ![t] = NULL]
    /\ UNCHANGED <<poolVars, detached, workerVars, clientVars>>

(* Mutant: a finished task is marked and left to a worker that is gone.    *)
MutantDetach(c, t) ==
    /\ cpc[c] = "idle" /\ Exclusive(t)
    /\ tpool[t] # NULL
    /\ detached' = [detached EXCEPT ![t] = TRUE]
    /\ UNCHANGED <<poolVars, tstate, tpool, workerVars, clientVars>>

(* thread_task_detach marks the task, or frees a finished one itself.      *)
Detach(c, t) ==
    /\ cpc[c] = "idle" /\ Exclusive(t)
    /\ tpool[t] # NULL
    /\ \/ /\ tstate[t] = "FINISHED"
          /\ Call(c, "dispose", NULL, t)
          /\ UNCHANGED detached
       \/ /\ tstate[t] # "FINISHED"
          /\ detached' = [detached EXCEPT ![t] = TRUE]
          /\ UNCHANGED <<cpc, cpool, ctask>>
    /\ UNCHANGED <<poolVars, tstate, tpool, workerVars, expected, rejoined>>

DetachDispose(c) ==
    /\ cpc[c] = "dispose"
    /\ LET t == ctask[c] IN
         /\ count' = [count EXCEPT ![tpool[t]] = @ - 1]
         /\ tstate' = [tstate EXCEPT ![t] = "NONE"]
         /\ tpool' = [tpool EXCEPT ![t] = NULL]
    /\ Return(c)
    /\ UNCHANGED <<alive, queue, stopping, threads, detached, workerVars, expected, rejoined>>

-----------------------------------------------------------------------------
Init ==
    /\ alive = {}
    /\ queue = [p \in Pools |-> <<>>]
    /\ count = [p \in Pools |-> 0]
    /\ stopping = [p \in Pools |-> FALSE]
    /\ threads = [p \in Pools |-> {}]
    /\ tstate = [t \in Tasks |-> "NONE"]
    /\ tpool = [t \in Tasks |-> NULL]
    /\ detached = [t \in Tasks |-> FALSE]
    /\ wpc = [w \in Workers |-> "none"]
    /\ wpool = [w \in Workers |-> NULL]
    /\ wtask = [w \in Workers |-> NULL]
    /\ cpc = [c \in Clients |-> "idle"]
    /\ cpool = [c \in Clients |-> NULL]
    /\ ctask = [c \in Clients |-> NULL]
    /\ expected = [c \in Clients |-> 0]
    /\ rejoined = FALSE

WorkerStep(w) ==
    \/ WorkerLoop(w)
    \/ WorkerStart(w)
    \/ WorkerFinish(w)
    \/ WorkerDelete(w)
    \/ WorkerRelease(w)

(* A client starts a call: its choice, and never forced.  Once a task has  *)
(* been joined twice task_count is wrong for good: as a bound, the calls in*)
(* progress go on from there, and no new ones are made.                    *)
ClientCall(c) ==
    /\ ~rejoined
    /\ \/ \E p \in Pools : PoolNew(c, p) \/ PoolDelete(c, p)
       \/ \E t \in Tasks :
            \/ TaskNew(c, t)
            \/ Join(c, t)
            \/ TaskDelete(c, t)
            \/ Detach(c, t)
            \/ \E p \in Pools : Push(c, p, t)
            \/ \E timeout \in Timeouts : TimedJoin(c, t, timeout)

(* A client inside a call goes on.                                         *)
ClientStep(c) ==
    \/ PoolDeleteStop(c)
    \/ PoolDeleteReap(c)
    \/ PushReserve(c)
    \/ PushCheck(c)
    \/ PushUndo(c)
    \/ PushEnqueue(c)
    \/ JoinTest(c)
    \/ JoinLeave(c)
    \/ TimedJoinTest(c)
    \/ DetachDispose(c)

Next ==
    \/ \E w \in Workers : WorkerStep(w) \/ WorkerSpurious(w)
    \/ \E c \in Clients : ClientCall(c) \/ ClientStep(c)
    \/ \E c \in Clients : JoinSpurious(c) \/ TimedJoinTimeout(c)

Spec == Init /\ [][Next]_vars

(* Every thread is scheduled by the OS, a deadline passes however often the*)
(* thread is woken before it, and the functions of tasks return; no client *)
(* has to make a call.                                                     *)
Fairness ==
    /\ \A w \in Workers : WF_vars(WorkerStep(w))
    /\ \A c \in Clients : WF_vars(ClientStep(c)) /\ WF_vars(TimedJoinTimeout(c))

FairSpec == Spec /\ Fairness

-----------------------------------------------------------------------------
(* Types, and that a thread has the arguments its place in the code needs. *)
TypeOK ==
    /\ alive \in SUBSET Pools
    /\ queue \in [Pools -> Seq(Tasks)]
    /\ count \in [Pools -> Int]
    /\ stopping \in [Pools -> BOOLEAN]
    /\ threads \in [Pools -> SUBSET Workers]
    /\ tstate \in [Tasks -> InPool \cup {"NONE", "NEW", "JOINED"}]
    /\ tpool \in [Tasks -> Pools \cup {NULL}]
    /\ detached \in [Tasks -> BOOLEAN]
    /\ wpc \in [Workers -> {"none", "loop", "wait", "start", "run", "delete",
                             "release", "exit", "dead"}]
    /\ wpool \in [Workers -> Pools \cup {NULL}]
    /\ wtask \in [Workers -> Tasks \cup {NULL}]
    /\ cpc \in [Clients -> Pushing \cup Deleting \cup
                 {"idle", "join", "wait", "leave", "tjoin", "twait", "spin",
                  "dispose", "dead"}]
    /\ cpool \in [Clients -> Pools \cup {NULL}]
    /\ ctask \in [Clients -> Tasks \cup {NULL}]
    /\ expected \in [Clients -> Int]
    /\ rejoined \in BOOLEAN
    /\ \A w \in Workers :
         /\ wpc[w] \in {"start", "run", "delete"} => wtask[w] \in Tasks
         /\ wpc[w] \in {"none", "loop", "wait", "release", "exit"} => wtask[w] = NULL
         /\ wpc[w] \notin {"none", "dead"} => wpool[w] \in Pools
    /\ \A c \in Clients :
         /\ cpc[c] \in Pushing \cup Deleting \cup {"leave"} => cpool[c] \in Pools
         /\ cpc[c] \in (Pushing \ {"undo"}) \cup
                       {"join", "wait", "tjoin", "twait", "spin", "dispose"}
               => ctask[c] \in Tasks

(* Who counts in pool->task_count: the tasks pushed and not yet joined, the*)
(* pushes that hold a place without a task, and the threads that have taken*)
(* a task out but not decremented the count yet.                           *)
TasksIn(p) == {t \in Tasks : tpool[t] = p /\ tstate[t] \in InPool}
Reservations(p) ==
    {c \in Clients : cpc[c] \in {"check", "undo", "leave"} /\ cpool[c] = p}
Releases(p) == {w \in Workers : wpc[w] = "release" /\ wpool[w] = p}

(* task_count is exact at every step of every thread, so that what         *)
(* thread_pool_delete and the limit test read is never too low, and however*)
(* many threads push at once it never exceeds TPOOL_MAX_TASKS.  A timed    *)
(* join of a task that is joined already decrements it once too often.     *)
CountExact ==
    TypeOK /\ (~rejoined => \A p \in alive :
        /\ count[p] = Cardinality(TasksIn(p)) + Cardinality(Reservations(p))
                        + Cardinality(Releases(p))
        /\ count[p] <= MaxTasks)

(* A thread_pool_delete that has passed its test finds no task in the pool,*)
(* now or later, so stopping the workers abandons nothing.                 *)
DeleteOnlyEmpty ==
    ~rejoined => \A c \in Clients : cpc[c] \in Deleting =>
        TasksIn(cpool[c]) = {} /\ queue[cpool[c]] = <<>>

(* The tasks of a pool that are on their way: being enqueued, in the queue,*)
(* or taken by a worker.                                                   *)
Holders(t) ==
    {<<"push", c>> : c \in {d \in Clients : cpc[d] = "enqueue" /\ ctask[d] = t}}
    \cup (UNION {{<<p, i>> : i \in {j \in DOMAIN queue[p] : queue[p][j] = t}} : p \in Pools})
    \cup {<<"work", w>> : w \in {v \in Workers : wtask[v] = t}}

(* A task is held by exactly one of them from the push until its function  *)
(* has returned, and by nobody otherwise: it runs once, on one thread.     *)
(* (A pool deleted with a count too low may forget it.)                    *)
OneHolder ==
    (\A c \in Clients : cpc[c] # "dead") => \A t \in Tasks :
        /\ Cardinality(Holders(t)) <= 1
        /\ tstate[t] \in {"QUEUED", "RUNNING"} => rejoined \/ Holders(t) # {}
        /\ tstate[t] = "FINISHED" => Holders(t) = {<<"work", w>> : w \in
                {v \in Workers : wpc[v] = "delete" /\ wtask[v] = t}}
        /\ tstate[t] \in {"NONE", "NEW", "JOINED"} => Holders(t) = {}

(* No thread is about to touch a task or a pool that has been freed, and no*)
(* null task->pool is followed; again unless a task was joined twice.      *)
NoUseAfterFree ==
    ~rejoined =>
        /\ \A w \in Workers : wtask[w] # NULL => tstate[wtask[w]] # "NONE"
        /\ \A w \in Workers : wpc[w] # "none" => wpool[w] \in alive
        /\ \A c \in Clients : ctask[c] # NULL => tstate[ctask[c]] # "NONE"
        /\ \A c \in Clients : cpool[c] # NULL => cpool[c] \in alive
        /\ \A t \in Tasks : tstate[t] \in InPool => tpool[t] \in alive
        /\ \A c \in Clients : cpc[c] # "dead"

(* Nobody sleeps on a condition that already holds: a worker only while the*)
(* queue is empty and the pool is not stopping, a joiner only while the    *)
(* task has not finished.  A missed broadcast would break this.            *)
NoMissedSignal ==
    /\ \A w \in Workers : wpc[w] = "wait" =>
         queue[wpool[w]] = <<>> /\ ~stopping[wpool[w]]
    /\ \A c \in Clients : cpc[c] \in {"wait", "twait"} =>
         tstate[ctask[c]] \in {"QUEUED", "RUNNING"}

(* What ends the promises about progress: a task that was joined twice has *)
(* spoilt task_count, or the process is gone with it (TimedTake, Crash), or*)
(* a client's infinite timed join holds a task's mutex for ever.           *)
Spoilt == rejoined \/ \E c \in Clients : cpc[c] \in {"dead", "spin"}

(* A pushed task is executed, and a detached one is freed, unless things   *)
(* are spoilt.  There is one more exception: a task that a timed join took *)
(* still has its pool, so detaching it is accepted, and nobody ever frees  *)
(* it, although thread_pool.h says that a finished task is deleted at once.*)
TasksProceed ==
    /\ \A t \in Tasks : tstate[t] = "QUEUED" ~> tstate[t] # "QUEUED" \/ Spoilt
    /\ \A t \in Tasks :
          detached[t] /\ tstate[t] # "JOINED" ~> ~detached[t] \/ Spoilt

(* A thread_pool_delete that has passed its test returns.  So does a join  *)
(* with a finite timeout, and thread_task_join too, unless other threads   *)
(* go on pushing: one that joins the task first and pushes it again can    *)
(* outrun the others.  Again unless things are spoilt.                     *)
CallsReturn ==
    /\ \A c \in Clients : cpc[c] \in Deleting ~> cpc[c] = "idle" \/ Spoilt
    /\ \A c \in Clients : cpc[c] \in {"tjoin", "twait"} ~> cpc[c] = "idle" \/ Spoilt
    /\ (<>[] \A c \in Clients : cpc[c] \notin Pushing) =>
          \A c \in Clients :
             cpc[c] \in {"join", "wait", "leave"} ~> cpc[c] = "idle" \/ Spoilt
=============================================================================
