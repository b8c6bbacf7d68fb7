--------------------------- MODULE ThreadPoolProofs ---------------------------
(***************************************************************************)
(* Proofs about the thread pool, for any number of pools, tasks, workers   *)
(* and clients and any limits.                                             *)
(***************************************************************************)
EXTENDS ThreadPool, SequenceTheorems, FiniteSetTheorems, TLAPS

(* Either everybody runs, or the process has died of a null task->pool,    *)
(* which only a task joined twice can cause.                               *)
Running ==
    /\ \A c \in Clients : cpc[c] # "dead"
    /\ \A w \in Workers : wpc[w] # "dead"

CrashSound ==
    \/ Running
    \/ /\ rejoined /\ Clients # {}
       /\ \A c \in Clients : cpc[c] = "dead"
       /\ \A w \in Workers : wpc[w] = "dead"

NoRepeat(s) == \A i, j \in 1..Len(s) : s[i] = s[j] => i = j

(* Whoever holds a task holds it in the right state and for the right pool.*)
Owned ==
    /\ \A c \in Clients : cpc[c] = "enqueue" =>
         tstate[ctask[c]] = "QUEUED" /\ tpool[ctask[c]] = cpool[c]
    /\ \A p \in Pools : NoRepeat(queue[p])
    /\ \A p \in Pools : \A t \in Range(queue[p]) : tstate[t] = "QUEUED" /\ tpool[t] = p
    /\ \A w \in Workers :
         /\ wpc[w] = "start" => tstate[wtask[w]] = "QUEUED"
         /\ wpc[w] = "run" => tstate[wtask[w]] = "RUNNING"
         /\ wpc[w] = "delete" => tstate[wtask[w]] = "FINISHED" /\ detached[wtask[w]]
         /\ wpc[w] \in {"start", "run", "delete"} => tpool[wtask[w]] = wpool[w]
    /\ \A t \in Tasks : tstate[t] \in InPool => tpool[t] \in Pools

(* ... and is the only one who holds it.                                   *)
OwnedOnce ==
    /\ \A c, d \in Clients :
         cpc[c] = "enqueue" /\ cpc[d] = "enqueue" /\ ctask[c] = ctask[d] => c = d
    /\ \A v, w \in Workers : wtask[v] # NULL /\ wtask[v] = wtask[w] => v = w
    /\ \A c \in Clients : cpc[c] = "enqueue" =>
         /\ \A p \in Pools : ctask[c] \notin Range(queue[p])
         /\ \A w \in Workers : wtask[w] # ctask[c]
    /\ \A w \in Workers, p \in Pools : wtask[w] \notin Range(queue[p])

(* A task whose function has not returned is not forgotten.                *)
StillOwned ==
    \A t \in Tasks : tstate[t] \in {"QUEUED", "RUNNING"} =>
        \/ \E c \in Clients : cpc[c] = "enqueue" /\ ctask[c] = t
        \/ \E p \in Pools : t \in Range(queue[p])
        \/ \E w \in Workers : wtask[w] = t

Joining == {"join", "wait", "tjoin", "twait", "spin"}

(* The arguments of a client: a task stays allocated and attached while it *)
(* is in use, and is disposed of by one client alone.                      *)
Users ==
    \A c \in Clients :
        /\ ctask[c] # NULL =>
             /\ cpc[c] \notin Deleting \cup {"idle", "undo", "leave"}
             /\ tstate[ctask[c]] # "NONE" /\ ~detached[ctask[c]]
        /\ cpool[c] # NULL => cpc[c] \in Pushing \cup Deleting \cup {"leave", "dead"}
        /\ cpc[c] \in Joining => tstate[ctask[c]] # "NEW"
        /\ cpc[c] = "dispose" =>
             /\ tstate[ctask[c]] = "FINISHED"
             /\ \A d \in Clients : d # c => ctask[d] # ctask[c]

(* Nothing refers to a freed pool, and pool->threads lists its threads.    *)
Refs ==
    /\ \A w \in Workers : wpc[w] # "none" => wpool[w] \in alive
    /\ \A w \in Workers : wpc[w] = "none" => wpool[w] = NULL
    /\ \A w \in Workers, p \in Pools : w \in threads[p] <=> wpool[w] = p
    /\ \A c \in Clients : cpool[c] # NULL => cpool[c] \in alive
    /\ \A t \in Tasks : tstate[t] \in InPool => tpool[t] \in alive

(* Once thread_pool_delete has passed its test the pool has no task left   *)
(* and no other client is inside a call on it.                             *)
DeleteSafe ==
    \A c \in Clients : cpc[c] \in Deleting =>
        /\ \A t \in Tasks : tpool[t] = cpool[c] => tstate[t] \notin InPool
        /\ \A d \in Clients : d # c => cpool[d] # cpool[c]

(* task_count is exact and within its limit.                               *)
CountRight(p) ==
    /\ count[p] = Cardinality(TasksIn(p)) + Cardinality(Reservations(p)) + Cardinality(Releases(p))
    /\ count[p] <= MaxTasks

(* The inductive invariant: everything but the count, and the count.  What *)
(* comes last in both holds until a task is joined twice.                  *)
Structure ==
    /\ TypeOK /\ CrashSound /\ Owned /\ OwnedOnce /\ Users /\ NoMissedSignal
    /\ ~rejoined => StillOwned /\ Refs /\ DeleteSafe

PoolInv == Structure /\ (~rejoined => \A p \in alive : CountRight(p))

-----------------------------------------------------------------------------
(* What Append and Tail do to the elements of a queue.                     *)
LEMMA AppendQueue ==
    ASSUME NEW S, NEW s \in Seq(S), NEW e \in S
    PROVE  /\ Append(s, e) \in Seq(S)
           /\ Range(Append(s, e)) = Range(s) \cup {e}
           /\ NoRepeat(s) /\ e \notin Range(s) => NoRepeat(Append(s, e))
<1>1. /\ Len(Append(s, e)) = Len(s) + 1
      /\ \A i \in 1..Len(s) : Append(s, e)[i] = s[i]
      /\ Append(s, e)[Len(s) + 1] = e
      /\ Append(s, e) \in Seq(S)
  BY AppendProperties
<1>2. DOMAIN s = 1..Len(s) /\ DOMAIN Append(s, e) = 1..Len(s) + 1 /\ Len(s) \in Nat
  BY <1>1, LenProperties
<1>3. Range(Append(s, e)) = Range(s) \cup {e}
  BY <1>1, <1>2 DEF Range
<1>4. NoRepeat(s) /\ e \notin Range(s) => NoRepeat(Append(s, e))
  BY <1>1, <1>2 DEF Range, NoRepeat
<1>. QED BY <1>1, <1>3, <1>4

LEMMA TailQueue ==
    ASSUME NEW S, NEW s \in Seq(S), s # <<>>, NoRepeat(s)
    PROVE  /\ Head(s) \in Range(s) /\ Head(s) \in S
           /\ Tail(s) \in Seq(S) /\ NoRepeat(Tail(s))
           /\ Range(Tail(s)) = Range(s) \ {Head(s)}
<1>1. /\ Head(s) = s[1] /\ Head(s) \in S
      /\ Tail(s) \in Seq(S)
      /\ Len(Tail(s)) = Len(s) - 1
      /\ \A i \in 1..Len(s) - 1 : Tail(s)[i] = s[i + 1]
  BY HeadTailProperties, LenProperties, ElementOfSeq, EmptySeq
<1>2. /\ DOMAIN s = 1..Len(s) /\ Len(s) \in Nat /\ Len(s) # 0
      /\ DOMAIN Tail(s) = 1..Len(s) - 1
  BY <1>1, LenProperties, EmptySeq
<1>3. Head(s) \in Range(s)
  BY <1>1, <1>2 DEF Range
<1>4. NoRepeat(Tail(s))
  BY <1>1, <1>2 DEF NoRepeat
<1>5. \A x \in Range(Tail(s)) : x \in Range(s) \ {Head(s)}
  BY <1>1, <1>2 DEF NoRepeat, Range
<1>6. ASSUME NEW x \in Range(s) \ {Head(s)} PROVE x \in Range(Tail(s))
  <2>1. PICK i \in 1..Len(s) : s[i] = x
    BY <1>2 DEF Range
  <2>2. i # 1 /\ i - 1 \in 1..Len(s) - 1
    BY <1>1, <1>2, <2>1
  <2>3. Tail(s)[i - 1] = s[i]
    BY <1>1, <2>1, <2>2
  <2>. QED BY <1>2, <2>1, <2>2, <2>3 DEF Range
<1>. QED BY <1>1, <1>3, <1>4, <1>5, <1>6

LEMMA EmptyQueue == Range(<<>>) = {} /\ NoRepeat(<<>>)
  BY DEF Range, NoRepeat

(* The elements of a queue of tasks are tasks.                             *)
LEMMA QueueElements ==
    ASSUME NEW S, NEW s \in Seq(S)
    PROVE  Range(s) \subseteq S /\ (Range(s) = {} => s = <<>>)
<1>1. DOMAIN s = 1..Len(s) /\ Len(s) \in Nat /\ \A i \in 1..Len(s) : s[i] \in S
  BY LenProperties, ElementOfSeq
<1>2. Range(s) \subseteq S
  BY <1>1 DEF Range
<1>3. ASSUME Range(s) = {} PROVE s = <<>>
  <2>1. Len(s) # 0 => s[1] \in Range(s)
    BY <1>1 DEF Range
  <2>. QED BY <2>1, <1>3, EmptySeq
<1>. QED BY <1>2, <1>3

(* One more, or one less, of finitely many.                                *)
LEMMA OneMore ==
    ASSUME NEW S, NEW T, NEW x, IsFiniteSet(S), x \notin S, T = S \cup {x}
    PROVE  IsFiniteSet(T) /\ Cardinality(T) = Cardinality(S) + 1
  BY FS_AddElement

LEMMA OneLess ==
    ASSUME NEW S, NEW T, NEW x, IsFiniteSet(S), x \in S, T = S \ {x}
    PROVE  IsFiniteSet(T) /\ Cardinality(T) = Cardinality(S) - 1
  BY FS_RemoveElement

(* The three sets that task_count counts are finite in every state.        *)
LEMMA CountsFinite ==
    ASSUME NEW A \in SUBSET Tasks, NEW B \in SUBSET Clients, NEW C \in SUBSET Workers
    PROVE  /\ IsFiniteSet(A) /\ IsFiniteSet(B) /\ IsFiniteSet(C)
           /\ Cardinality(A) \in Nat /\ Cardinality(B) \in Nat /\ Cardinality(C) \in Nat
  BY FS_Subset, FS_CardinalityType, ThreadPoolAssumption

(* A step that leaves the count of a pool and whatever it counts alone.    *)
LEMMA CountKept ==
    ASSUME NEW p, CountRight(p), count'[p] = count[p],
           TasksIn(p)' = TasksIn(p), Reservations(p)' = Reservations(p),
           Releases(p)' = Releases(p)
    PROVE  CountRight(p)'
  BY DEF CountRight
-----------------------------------------------------------------------------
(* One lemma per action: it preserves the invariant.  The worker first:    *)
(* it waits or leaves ...                                                  *)
LEMMA WorkerIdleInv ==
    ASSUME PoolInv, NEW w \in Workers, wpc[w] \in {"loop", "wait"},
           NEW at \in {"loop", "wait", "exit"},
           wpc' = [wpc EXCEPT ![w] = at],
           at = "wait" => queue[wpool[w]] = <<>> /\ ~stopping[wpool[w]],
           UNCHANGED <<poolVars, taskVars, wpool, wtask, clientVars>>
    PROVE  PoolInv'
<1>1. /\ wpc'[w] = at /\ \A v \in Workers \ {w} : wpc'[v] = wpc[v]
      /\ UNCHANGED <<alive, queue, count, stopping, threads, tstate, tpool, detached,
                     wpool, wtask, cpc, cpool, ctask, expected, rejoined>>
      /\ Running
  BY DEF PoolInv, Structure, TypeOK, poolVars, taskVars, clientVars, CrashSound, Running
<1>2. TypeOK'
  BY <1>1 DEF PoolInv, Structure, TypeOK
<1>3. CrashSound'
  BY <1>1 DEF Running, CrashSound
<1>4. Owned' /\ OwnedOnce'
  BY <1>1 DEF PoolInv, Structure, Owned, OwnedOnce
<1>5. Users'
  BY <1>1 DEF PoolInv, Structure, Users
<1>6. NoMissedSignal'
  BY <1>1 DEF PoolInv, Structure, NoMissedSignal
<1>7. ASSUME ~rejoined' PROVE StillOwned' /\ Refs' /\ DeleteSafe'
  BY <1>1, <1>7 DEF PoolInv, Structure, StillOwned, Refs, DeleteSafe
<1>8. ASSUME ~rejoined', NEW p \in alive' PROVE CountRight(p)'
  <2>1. CountRight(p) /\ count'[p] = count[p]
    BY <1>1, <1>8 DEF PoolInv, Structure
  <2>2. TasksIn(p)' = TasksIn(p) /\ Reservations(p)' = Reservations(p)
    BY <1>1 DEF TasksIn, Reservations
  <2>3. Releases(p)' = Releases(p)
    BY <1>1 DEF Releases
  <2>. QED BY <2>1, <2>2, <2>3, CountKept
<1>. QED BY <1>2, <1>3, <1>4, <1>5, <1>6, <1>7, <1>8 DEF PoolInv, Structure

(* ... or takes the oldest task out of the queue.                          *)
LEMMA WorkerTakeInv ==
    ASSUME PoolInv, NEW w \in Workers, wpc[w] = "loop", NEW p \in Pools, wpool[w] = p,
           queue[p] # <<>>,
           wtask' = [wtask EXCEPT ![w] = Head(queue[p])],
           queue' = [queue EXCEPT ![p] = Tail(@)],
           wpc' = [wpc EXCEPT ![w] = "start"],
           UNCHANGED <<alive, count, stopping, threads, taskVars, wpool, clientVars>>
    PROVE  PoolInv'
<1>. DEFINE t == Head(queue[p])
<1>1. /\ wpc'[w] = "start" /\ \A v \in Workers \ {w} : wpc'[v] = wpc[v]
      /\ wtask'[w] = t /\ \A v \in Workers \ {w} : wtask'[v] = wtask[v]
      /\ queue'[p] = Tail(queue[p]) /\ \A q \in Pools \ {p} : queue'[q] = queue[q]
      /\ UNCHANGED <<alive, count, stopping, threads, tstate, tpool, detached,
                     wpool, cpc, cpool, ctask, expected, rejoined>>
      /\ Running
  BY DEF PoolInv, Structure, TypeOK, taskVars, clientVars, CrashSound, Running
<1>2. /\ t \in Range(queue[p]) /\ t \in Tasks
      /\ Tail(queue[p]) \in Seq(Tasks) /\ NoRepeat(Tail(queue[p]))
      /\ Range(queue'[p]) = Range(queue[p]) \ {t}
  BY <1>1, TailQueue DEF PoolInv, Structure, TypeOK, Owned
<1>3. tstate[t] = "QUEUED" /\ tpool[t] = p
  BY <1>2 DEF PoolInv, Structure, Owned
<1>. HIDE DEF t
<1>4. TypeOK'
  <2>1. queue' \in [Pools -> Seq(Tasks)]
    BY <1>2 DEF PoolInv, Structure, TypeOK
  <2>2. /\ wtask' \in [Workers -> Tasks \cup {NULL}]
        /\ wpc' \in [Workers -> {"none", "loop", "wait", "start", "run", "delete",
                             "release", "exit", "dead"}]
    BY <1>2 DEF PoolInv, Structure, TypeOK, t
  <2>. QED BY <1>1, <1>2, <2>1, <2>2 DEF PoolInv, Structure, TypeOK
<1>5. CrashSound'
  BY <1>1 DEF Running, CrashSound
<1>6. Owned'
  BY <1>1, <1>2, <1>3 DEF PoolInv, Structure, Owned
<1>7. OwnedOnce'
  BY <1>1, <1>2, <1>3, ThreadPoolAssumption DEF PoolInv, Structure, OwnedOnce, Owned
<1>8. Users'
  BY <1>1 DEF PoolInv, Structure, Users
<1>9. NoMissedSignal'
  <2>1. ASSUME NEW v \in Workers, wpc'[v] = "wait"
        PROVE  queue'[wpool'[v]] = <<>> /\ ~stopping'[wpool'[v]]
    BY <2>1, <1>1 DEF PoolInv, Structure, NoMissedSignal, TypeOK
  <2>. QED BY <2>1, <1>1 DEF PoolInv, Structure, NoMissedSignal
<1>10. ASSUME ~rejoined' PROVE StillOwned' /\ Refs' /\ DeleteSafe'
  <2>1. ASSUME NEW u \in Tasks, tstate'[u] \in {"QUEUED", "RUNNING"}
        PROVE  \/ \E c \in Clients : cpc'[c] = "enqueue" /\ ctask'[c] = u
               \/ \E q \in Pools : u \in Range(queue'[q])
               \/ \E v \in Workers : wtask'[v] = u
    <3>1. \/ \E c \in Clients : cpc[c] = "enqueue" /\ ctask[c] = u
          \/ \E q \in Pools : u \in Range(queue[q])
          \/ \E v \in Workers : wtask[v] = u
      BY <1>1, <1>10, <2>1 DEF PoolInv, Structure, StillOwned
    <3>2. CASE \E q \in Pools : u \in Range(queue[q])
      BY <1>1, <1>2, <3>2
    <3>3. CASE \E v \in Workers : wtask[v] = u
      <4>1. wtask[w] = NULL /\ u # NULL
        BY ThreadPoolAssumption DEF PoolInv, Structure, TypeOK
      <4>. QED BY <1>1, <3>3, <4>1
    <3>. QED BY <1>1, <3>1, <3>2, <3>3
  <2>2. Refs' /\ DeleteSafe'
    BY <1>1, <1>10 DEF PoolInv, Structure, Refs, DeleteSafe
  <2>. QED BY <2>1, <2>2 DEF StillOwned
<1>11. ASSUME ~rejoined', NEW q \in alive' PROVE CountRight(q)'
  <2>1. CountRight(q) /\ count'[q] = count[q]
    BY <1>1, <1>11 DEF PoolInv, Structure
  <2>2. TasksIn(q)' = TasksIn(q) /\ Reservations(q)' = Reservations(q)
    BY <1>1 DEF TasksIn, Reservations
  <2>3. Releases(q)' = Releases(q)
    BY <1>1 DEF Releases
  <2>. QED BY <2>1, <2>2, <2>3, CountKept
<1>. QED BY <1>4, <1>5, <1>6, <1>7, <1>8, <1>9, <1>10, <1>11 DEF PoolInv, Structure

(* The three branches of the critical section, and the spurious wakeup.    *)
LEMMA WorkerLoopInv ==
    ASSUME PoolInv, NEW w \in Workers, WorkerLoop(w) \/ WorkerSpurious(w)
    PROVE  PoolInv'
<1>1. CASE WorkerSpurious(w)
  BY <1>1, WorkerIdleInv DEF WorkerSpurious
<1>2. CASE WorkerLoop(w)
  <2>1. PICK p \in Pools : wpool[w] = p
    BY <1>2 DEF WorkerLoop, PoolInv, Structure, TypeOK
  <2>2. CASE queue[p] = <<>> /\ ~stopping[p]
    BY <1>2, <2>1, <2>2, WorkerIdleInv DEF WorkerLoop, poolVars
  <2>3. CASE queue[p] = <<>> /\ stopping[p]
    BY <1>2, <2>1, <2>3, WorkerIdleInv DEF WorkerLoop, poolVars
  <2>4. CASE queue[p] # <<>>
    BY <1>2, <2>1, <2>4, WorkerTakeInv DEF WorkerLoop
  <2>. QED BY <2>2, <2>3, <2>4
<1>. QED BY <1>1, <1>2

(* task->state = RUNNING.                                                  *)
LEMMA WorkerStartInv ==
    ASSUME PoolInv, NEW w \in Workers, WorkerStart(w)
    PROVE  PoolInv'
<1>0. PICK t \in Tasks : wtask[w] = t
  BY DEF WorkerStart, PoolInv, Structure, TypeOK
<1>1. /\ wpc'[w] = "run" /\ \A v \in Workers \ {w} : wpc'[v] = wpc[v]
      /\ tstate'[t] = "RUNNING" /\ \A u \in Tasks \ {t} : tstate'[u] = tstate[u]
      /\ UNCHANGED <<alive, queue, count, stopping, threads, tpool, detached,
                     wpool, wtask, cpc, cpool, ctask, expected, rejoined>>
      /\ Running
  BY <1>0 DEF WorkerStart, PoolInv, Structure, TypeOK, poolVars, clientVars, CrashSound, Running
<1>2. /\ wpc[w] = "start" /\ tstate[t] = "QUEUED" /\ tpool[t] = wpool[w]
      /\ \A p \in Pools : t \notin Range(queue[p])
      /\ \A c \in Clients : cpc[c] = "enqueue" => ctask[c] # t
      /\ \A v \in Workers : wtask[v] = t => v = w
  BY <1>0, ThreadPoolAssumption DEF WorkerStart, PoolInv, Structure, Owned, OwnedOnce
<1>4. TypeOK'
  BY <1>1 DEF WorkerStart, PoolInv, Structure, TypeOK, InPool
<1>5. CrashSound'
  BY <1>1 DEF Running, CrashSound
<1>6. Owned'
  <2>1. \A p \in Pools : Range(queue[p]) \subseteq Tasks
    BY QueueElements DEF PoolInv, Structure, TypeOK
  <2>2. \A c \in Clients : cpc[c] = "enqueue" => ctask[c] \in Tasks
    BY DEF PoolInv, Structure, TypeOK, Pushing
  <2>3. \A v \in Workers : wpc[v] \in {"start", "run", "delete"} => wtask[v] \in Tasks
    BY DEF PoolInv, Structure, TypeOK
  <2>. QED BY <1>0, <1>1, <1>2, <2>1, <2>2, <2>3 DEF PoolInv, Structure, Owned, InPool
<1>7. OwnedOnce'
  BY <1>1 DEF PoolInv, Structure, OwnedOnce
<1>8. Users'
  <2>1. \A c \in Clients : ctask[c] \in Tasks \cup {NULL}
    BY DEF PoolInv, Structure, TypeOK
  <2>. QED BY <1>1, <1>2, <2>1 DEF PoolInv, Structure, Users, TypeOK, Joining
<1>9. NoMissedSignal'
  BY <1>1 DEF PoolInv, Structure, NoMissedSignal, TypeOK
<1>10. ASSUME ~rejoined' PROVE StillOwned' /\ Refs' /\ DeleteSafe'
  <2>1. StillOwned'
    BY <1>0, <1>1, <1>2, <1>10 DEF PoolInv, Structure, StillOwned
  <2>2. Refs' /\ DeleteSafe'
    BY <1>1, <1>2, <1>10 DEF PoolInv, Structure, Refs, DeleteSafe, InPool
  <2>. QED BY <2>1, <2>2
<1>11. ASSUME ~rejoined', NEW q \in alive' PROVE CountRight(q)'
  <2>1. CountRight(q) /\ count'[q] = count[q]
    BY <1>1, <1>11 DEF PoolInv, Structure
  <2>2. TasksIn(q)' = TasksIn(q) /\ Reservations(q)' = Reservations(q)
    BY <1>1, <1>2 DEF TasksIn, Reservations, InPool
  <2>3. Releases(q)' = Releases(q)
    BY <1>1, <1>2 DEF Releases
  <2>. QED BY <2>1, <2>2, <2>3, CountKept
<1>. QED BY <1>4, <1>5, <1>6, <1>7, <1>8, <1>9, <1>10, <1>11 DEF PoolInv, Structure

(* task->state = FINISHED, the broadcast, and the read of task->detached.  *)
LEMMA WorkerFinishInv ==
    ASSUME PoolInv, NEW w \in Workers, WorkerFinish(w)
    PROVE  PoolInv'
<1>0. PICK t \in Tasks : wtask[w] = t
  BY DEF WorkerFinish, PoolInv, Structure, TypeOK
<1>1. /\ tstate'[t] = "FINISHED" /\ \A u \in Tasks \ {t} : tstate'[u] = tstate[u]
      /\ UNCHANGED <<alive, queue, count, stopping, threads, tpool, detached,
                     wpool, cpool, ctask, expected, rejoined>>
      /\ Running
  BY <1>0 DEF WorkerFinish, PoolInv, Structure, TypeOK, poolVars, CrashSound, Running
<1>2. /\ \A v \in Workers \ {w} : wpc'[v] = wpc[v] /\ wtask'[v] = wtask[v]
      /\ \/ detached[t] /\ wpc'[w] = "delete" /\ wtask'[w] = t
         \/ ~detached[t] /\ wpc'[w] = "loop" /\ wtask'[w] = NULL
  BY <1>0 DEF WorkerFinish, PoolInv, Structure, TypeOK
<1>3. \A c \in Clients :
        \/ cpc'[c] = cpc[c] /\ (ctask[c] = t => cpc[c] \notin {"wait", "twait"})
        \/ ctask[c] = t /\ cpc[c] \in {"wait", "twait"} /\ cpc'[c] \in {"join", "tjoin"}
  BY <1>0 DEF WorkerFinish, WakeJoiners
<1>4. \A c \in Clients : cpc'[c] \in {"join", "tjoin"} \/ cpc'[c] = cpc[c]
  BY <1>3
<1>5. /\ wpc[w] = "run" /\ tstate[t] = "RUNNING" /\ tpool[t] = wpool[w]
      /\ \A p \in Pools : t \notin Range(queue[p])
      /\ \A c \in Clients : cpc[c] = "enqueue" => ctask[c] # t
      /\ \A v \in Workers : wtask[v] = t => v = w
  BY <1>0, ThreadPoolAssumption DEF WorkerFinish, PoolInv, Structure, Owned, OwnedOnce
<1>6. TypeOK'
  <2>1. /\ tstate' \in [Tasks -> InPool \cup {"NONE", "NEW", "JOINED"}]
        /\ wpc' \in [Workers -> {"none", "loop", "wait", "start", "run", "delete",
                             "release", "exit", "dead"}]
        /\ wtask' \in [Workers -> Tasks \cup {NULL}]
    BY DEF WorkerFinish, PoolInv, Structure, TypeOK, InPool
  <2>2. cpc' \in [Clients -> Pushing \cup Deleting \cup
                 {"idle", "join", "wait", "leave", "tjoin", "twait", "spin",
                  "dispose", "dead"}]
    BY DEF WorkerFinish, PoolInv, Structure, TypeOK, WakeJoiners
  <2>3. \A v \in Workers :
         /\ wpc'[v] \in {"start", "run", "delete"} => wtask'[v] \in Tasks
         /\ wpc'[v] \in {"none", "loop", "wait", "release", "exit"} => wtask'[v] = NULL
         /\ wpc'[v] \notin {"none", "dead"} => wpool'[v] \in Pools
    <3>. TAKE v \in Workers
    <3>1. CASE v # w
      BY <1>1, <1>2, <3>1 DEF PoolInv, Structure, TypeOK
    <3>2. CASE v = w
      <4>1. \/ wpc'[w] = "delete" /\ wtask'[w] = t
            \/ wpc'[w] = "loop" /\ wtask'[w] = NULL
        BY <1>2
      <4>2. wpool'[w] \in Pools
        BY <1>1, <1>5 DEF PoolInv, Structure, TypeOK
      <4>. QED BY <3>2, <4>1, <4>2
    <3>. QED BY <3>1, <3>2
  <2>4. \A c \in Clients :
         /\ cpc'[c] \in Pushing \cup Deleting \cup {"leave"} => cpool'[c] \in Pools
         /\ cpc'[c] \in (Pushing \ {"undo"}) \cup
                       {"join", "wait", "tjoin", "twait", "spin", "dispose"}
               => ctask'[c] \in Tasks
    BY <1>1, <1>3 DEF PoolInv, Structure, TypeOK, Pushing, Deleting
  <2>. QED BY <1>1, <2>1, <2>2, <2>3, <2>4 DEF PoolInv, Structure, TypeOK
<1>7. CrashSound'
  BY <1>1, <1>2, <1>3 DEF Running, CrashSound
<1>8. Owned'
  <2>1. \A p \in Pools : Range(queue[p]) \subseteq Tasks
    BY QueueElements DEF PoolInv, Structure, TypeOK
  <2>2. \A c \in Clients : cpc[c] = "enqueue" => ctask[c] \in Tasks
    BY DEF PoolInv, Structure, TypeOK, Pushing
  <2>3. \A v \in Workers : wpc[v] \in {"start", "run", "delete"} => wtask[v] \in Tasks
    BY DEF PoolInv, Structure, TypeOK
  <2>4. \A c \in Clients : cpc'[c] = "enqueue" => cpc[c] = "enqueue"
    BY <1>4
  <2>. QED BY <1>0, <1>1, <1>2, <1>5, <2>1, <2>2, <2>3, <2>4 DEF PoolInv, Structure, Owned, InPool
<1>9. OwnedOnce'
  <2>1. \A c \in Clients : cpc'[c] = "enqueue" => cpc[c] = "enqueue"
    BY <1>4
  <2>2. \A p \in Pools : NULL \notin Range(queue[p])
    BY QueueElements, ThreadPoolAssumption DEF PoolInv, Structure, TypeOK
  <2>3. \A c \in Clients : cpc[c] = "enqueue" => ctask[c] # NULL
    BY ThreadPoolAssumption DEF PoolInv, Structure, TypeOK, Pushing
  <2>. QED BY <1>0, <1>1, <1>2, <2>1, <2>2, <2>3 DEF PoolInv, Structure, OwnedOnce
<1>10. Users'
  <2>1. \A c \in Clients : ctask[c] \in Tasks \cup {NULL}
    BY DEF PoolInv, Structure, TypeOK
  <2>2. \A c \in Clients : cpc'[c] = "dispose" => cpc[c] = "dispose"
    BY <1>4
  <2>. QED BY <1>1, <1>3, <1>5, <2>1, <2>2, ThreadPoolAssumption DEF PoolInv, Structure, Users, TypeOK, Joining, Pushing, Deleting
<1>11. NoMissedSignal'
  <2>1. \A v \in Workers : wpc'[v] = "wait" => wpc[v] = "wait"
    BY <1>2
  <2>2. \A c \in Clients : cpc'[c] \in {"wait", "twait"} =>
            cpc[c] \in {"wait", "twait"} /\ ctask[c] \in Tasks \ {t}
    BY <1>3 DEF PoolInv, Structure, TypeOK
  <2>. QED BY <1>1, <2>1, <2>2 DEF PoolInv, Structure, NoMissedSignal
<1>12. ASSUME ~rejoined' PROVE StillOwned' /\ Refs' /\ DeleteSafe'
  <2>1. StillOwned'
    <3>1. \A c \in Clients : cpc[c] = "enqueue" => cpc'[c] = "enqueue"
      BY <1>3
    <3>. QED BY <1>0, <1>1, <1>2, <1>5, <1>12, <3>1 DEF PoolInv, Structure, StillOwned
  <2>2. Refs'
    BY <1>1, <1>2, <1>5, <1>12 DEF PoolInv, Structure, Refs, InPool
  <2>3. DeleteSafe'
    <3>1. \A c \in Clients : cpc'[c] \in Deleting => cpc[c] \in Deleting
      BY <1>3 DEF Deleting
    <3>. QED BY <1>1, <1>5, <1>12, <3>1 DEF PoolInv, Structure, DeleteSafe, InPool
  <2>. QED BY <2>1, <2>2, <2>3
<1>13. ASSUME ~rejoined', NEW q \in alive' PROVE CountRight(q)'
  <2>1. CountRight(q) /\ count'[q] = count[q]
    BY <1>1, <1>13 DEF PoolInv, Structure
  <2>2. TasksIn(q)' = TasksIn(q)
    BY <1>1, <1>5 DEF TasksIn, InPool
  <2>3. Reservations(q)' = Reservations(q)
    BY <1>1, <1>3 DEF Reservations
  <2>4. Releases(q)' = Releases(q)
    BY <1>1, <1>2, <1>5 DEF Releases
  <2>. QED BY <2>1, <2>2, <2>3, <2>4, CountKept
<1>. QED BY <1>6, <1>7, <1>8, <1>9, <1>10, <1>11, <1>12, <1>13 DEF PoolInv, Structure

(* A detached task is freed; until the count follows, the worker counts in *)
(* its place.                                                              *)
LEMMA WorkerDeleteInv ==
    ASSUME PoolInv, NEW w \in Workers, WorkerDelete(w)
    PROVE  PoolInv'
<1>0. PICK t \in Tasks : wtask[w] = t
  BY DEF WorkerDelete, PoolInv, Structure, TypeOK
<1>1. /\ tstate'[t] = "NONE" /\ tpool'[t] = NULL /\ detached'[t] = FALSE
      /\ \A u \in Tasks \ {t} : tstate'[u] = tstate[u] /\ tpool'[u] = tpool[u]
                                   /\ detached'[u] = detached[u]
      /\ wpc'[w] = "release" /\ wtask'[w] = NULL
      /\ \A v \in Workers \ {w} : wpc'[v] = wpc[v] /\ wtask'[v] = wtask[v]
      /\ UNCHANGED <<alive, queue, count, stopping, threads,
                     wpool, cpc, cpool, ctask, expected, rejoined>>
      /\ Running
  BY <1>0 DEF WorkerDelete, PoolInv, Structure, TypeOK, poolVars, clientVars, CrashSound, Running
<1>2. /\ wpc[w] = "delete" /\ tstate[t] = "FINISHED" /\ tpool[t] = wpool[w]
      /\ wpool[w] \in Pools
      /\ \A p \in Pools : t \notin Range(queue[p])
      /\ \A v \in Workers : wtask[v] = t => v = w
  BY <1>0, ThreadPoolAssumption DEF WorkerDelete, PoolInv, Structure, Owned, OwnedOnce, TypeOK
<1>3. \A c \in Clients : ctask[c] # t
  BY <1>0, ThreadPoolAssumption DEF WorkerDelete, PoolInv, Structure, Owned, Users
<1>4. TypeOK'
  <2>1. /\ tstate' \in [Tasks -> InPool \cup {"NONE", "NEW", "JOINED"}]
        /\ tpool' \in [Tasks -> Pools \cup {NULL}]
        /\ detached' \in [Tasks -> BOOLEAN]
        /\ wpc' \in [Workers -> {"none", "loop", "wait", "start", "run", "delete",
                             "release", "exit", "dead"}]
        /\ wtask' \in [Workers -> Tasks \cup {NULL}]
    BY DEF WorkerDelete, PoolInv, Structure, TypeOK
  <2>. QED BY <1>1, <1>2, <2>1 DEF PoolInv, Structure, TypeOK
<1>5. CrashSound'
  BY <1>1 DEF Running, CrashSound
<1>6. Owned'
  <2>1. \A p \in Pools : Range(queue[p]) \subseteq Tasks
    BY QueueElements DEF PoolInv, Structure, TypeOK
  <2>2. \A c \in Clients : cpc[c] = "enqueue" => ctask[c] \in Tasks
    BY DEF PoolInv, Structure, TypeOK, Pushing
  <2>3. \A v \in Workers : wpc[v] \in {"start", "run", "delete"} => wtask[v] \in Tasks
    BY DEF PoolInv, Structure, TypeOK
  <2>. QED BY <1>0, <1>1, <1>2, <1>3, <2>1, <2>2, <2>3 DEF PoolInv, Structure, Owned, InPool
<1>7. OwnedOnce'
  <2>1. \A p \in Pools : NULL \notin Range(queue[p])
    BY QueueElements, ThreadPoolAssumption DEF PoolInv, Structure, TypeOK
  <2>2. \A c \in Clients : cpc[c] = "enqueue" => ctask[c] # NULL
    BY ThreadPoolAssumption DEF PoolInv, Structure, TypeOK, Pushing
  <2>. QED BY <1>1, <2>1, <2>2 DEF PoolInv, Structure, OwnedOnce
<1>8. Users'
  <2>1. \A c \in Clients : ctask[c] \in (Tasks \ {t}) \cup {NULL}
    BY <1>3 DEF PoolInv, Structure, TypeOK
  <2>2. \A c \in Clients : cpc[c] \in Joining \cup {"dispose"} => ctask[c] \in Tasks \ {t}
    BY <1>3 DEF PoolInv, Structure, TypeOK, Joining
  <2>. QED BY <1>1, <2>1, <2>2 DEF PoolInv, Structure, Users
<1>9. NoMissedSignal'
  <2>1. \A c \in Clients : cpc[c] \in {"wait", "twait"} => ctask[c] \in Tasks \ {t}
    BY <1>3 DEF PoolInv, Structure, TypeOK
  <2>. QED BY <1>1, <2>1 DEF PoolInv, Structure, NoMissedSignal
<1>10. ASSUME ~rejoined' PROVE StillOwned' /\ Refs' /\ DeleteSafe'
  <2>1. StillOwned'
    BY <1>0, <1>1, <1>2, <1>10 DEF PoolInv, Structure, StillOwned
  <2>2. Refs'
    BY <1>1, <1>2, <1>10 DEF PoolInv, Structure, Refs, InPool
  <2>3. DeleteSafe'
    BY <1>1, <1>10, ThreadPoolAssumption DEF PoolInv, Structure, DeleteSafe, InPool
  <2>. QED BY <2>1, <2>2, <2>3
<1>11. ASSUME ~rejoined', NEW q \in alive' PROVE CountRight(q)'
  <2>1. CountRight(q) /\ count'[q] = count[q] /\ q \in Pools
    BY <1>1, <1>11 DEF PoolInv, Structure, TypeOK
  <2>2. Reservations(q)' = Reservations(q)
    BY <1>1 DEF Reservations
  <2>3. CASE q # wpool[w]
    <3>1. TasksIn(q)' = TasksIn(q)
      BY <1>1, <1>2, <2>1, <2>3, ThreadPoolAssumption DEF TasksIn
    <3>2. Releases(q)' = Releases(q)
      BY <1>1, <1>2, <2>3 DEF Releases
    <3>. QED BY <2>1, <2>2, <3>1, <3>2, CountKept
  <2>4. CASE q = wpool[w]
    <3>1. TasksIn(q)' = TasksIn(q) \ {t} /\ t \in TasksIn(q)
      BY <1>1, <1>2, <2>1, <2>4, ThreadPoolAssumption DEF TasksIn, InPool
    <3>2. Releases(q)' = Releases(q) \cup {w} /\ w \notin Releases(q)
      BY <1>1, <1>2, <2>4 DEF Releases
    <3>3. TasksIn(q) \in SUBSET Tasks /\ Reservations(q) \in SUBSET Clients /\ Releases(q) \in SUBSET Workers
      BY DEF TasksIn, Reservations, Releases
    <3>4. /\ Cardinality(TasksIn(q)') = Cardinality(TasksIn(q)) - 1
          /\ Cardinality(Releases(q)') = Cardinality(Releases(q)) + 1
      BY <3>1, <3>2, <3>3, CountsFinite, OneMore, OneLess
    <3>5. /\ Cardinality(TasksIn(q)) \in Nat /\ Cardinality(Reservations(q)) \in Nat
          /\ Cardinality(Releases(q)) \in Nat
      BY <3>3, CountsFinite
    <3>. QED BY <2>1, <2>2, <3>4, <3>5 DEF CountRight
  <2>. QED BY <2>3, <2>4
<1>. QED BY <1>4, <1>5, <1>6, <1>7, <1>8, <1>9, <1>10, <1>11 DEF PoolInv, Structure

(* ... and then stops counting, together with task_count.                  *)
LEMMA WorkerReleaseInv ==
    ASSUME PoolInv, NEW w \in Workers, WorkerRelease(w)
    PROVE  PoolInv'
<1>0. PICK p \in Pools : wpool[w] = p
  BY DEF WorkerRelease, PoolInv, Structure, TypeOK
<1>1. /\ wpc[w] = "release"
      /\ wpc'[w] = "loop" /\ \A v \in Workers \ {w} : wpc'[v] = wpc[v]
      /\ count'[p] = count[p] - 1 /\ \A q \in Pools \ {p} : count'[q] = count[q]
      /\ UNCHANGED <<alive, queue, stopping, threads, tstate, tpool, detached,
                     wpool, wtask, cpc, cpool, ctask, expected, rejoined>>
      /\ Running
  BY <1>0 DEF WorkerRelease, PoolInv, Structure, TypeOK, taskVars, clientVars, CrashSound, Running
<1>2. TypeOK'
  <2>1. /\ wpc' \in [Workers -> {"none", "loop", "wait", "start", "run", "delete",
                             "release", "exit", "dead"}]
        /\ count' \in [Pools -> Int]
    BY <1>0 DEF WorkerRelease, PoolInv, Structure, TypeOK
  <2>. QED BY <1>1, <2>1 DEF PoolInv, Structure, TypeOK
<1>3. CrashSound'
  BY <1>1 DEF Running, CrashSound
<1>4. Owned' /\ OwnedOnce'
  BY <1>1 DEF PoolInv, Structure, Owned, OwnedOnce
<1>5. Users'
  BY <1>1 DEF PoolInv, Structure, Users
<1>6. NoMissedSignal'
  BY <1>1 DEF PoolInv, Structure, NoMissedSignal
<1>7. ASSUME ~rejoined' PROVE StillOwned' /\ Refs' /\ DeleteSafe'
  BY <1>1, <1>7 DEF PoolInv, Structure, StillOwned, Refs, DeleteSafe
<1>8. ASSUME ~rejoined', NEW q \in alive' PROVE CountRight(q)'
  <2>1. CountRight(q) /\ q \in Pools
    BY <1>1, <1>8 DEF PoolInv, Structure, TypeOK
  <2>2. TasksIn(q)' = TasksIn(q) /\ Reservations(q)' = Reservations(q)
    BY <1>1 DEF TasksIn, Reservations
  <2>3. CASE q # p
    <3>1. Releases(q)' = Releases(q)
      BY <1>0, <1>1, <2>3 DEF Releases
    <3>. QED BY <1>1, <2>1, <2>2, <2>3, <3>1, CountKept
  <2>4. CASE q = p
    <3>1. Releases(q)' = Releases(q) \ {w} /\ w \in Releases(q)
      BY <1>0, <1>1, <2>4 DEF Releases
    <3>2. TasksIn(q) \in SUBSET Tasks /\ Reservations(q) \in SUBSET Clients /\ Releases(q) \in SUBSET Workers
      BY DEF TasksIn, Reservations, Releases
    <3>3. Cardinality(Releases(q)') = Cardinality(Releases(q)) - 1
      BY <3>1, <3>2, CountsFinite, OneLess
    <3>4. /\ Cardinality(TasksIn(q)) \in Nat /\ Cardinality(Reservations(q)) \in Nat
          /\ Cardinality(Releases(q)) \in Nat
      BY <3>2, CountsFinite
    <3>5. count[q] \in Int /\ MaxTasks \in Nat
      BY <2>1, ThreadPoolAssumption DEF PoolInv, Structure, TypeOK
    <3>. QED BY <1>1, <2>1, <2>2, <2>4, <3>3, <3>4, <3>5 DEF CountRight
  <2>. QED BY <2>3, <2>4
<1>. QED BY <1>2, <1>3, <1>4, <1>5, <1>6, <1>7, <1>8 DEF PoolInv, Structure

-----------------------------------------------------------------------------
(* The clients.  Most of their steps only move one client on: the lemma    *)
(* says what its new place and arguments must satisfy.                     *)
Reserved == {"check", "undo", "leave"}

Fits(c, at, p, t) ==
    /\ p \in Pools \cup {NULL} /\ t \in Tasks \cup {NULL}
    /\ at \in {"idle", "undo"} \cup Deleting \cup {"leave"} => t = NULL
    /\ at \in (Pushing \ {"undo"}) \cup Joining \cup {"dispose"} => t \in Tasks
    /\ at \in Pushing \cup Deleting \cup {"leave"} <=> p \in Pools
    /\ t \in Tasks =>
         /\ tstate[t] # "NONE" /\ ~detached[t]
         /\ \A d \in Clients : d # c /\ cpc[d] = "dispose" => ctask[d] # t
    /\ at \in Joining => tstate[t] # "NEW"
    /\ at \in {"wait", "twait"} => tstate[t] \in {"QUEUED", "RUNNING"}
    /\ at = "dispose" => tstate[t] = "FINISHED" /\ \A d \in Clients : d # c => ctask[d] # t
    /\ ~rejoined /\ p \in Pools =>
         /\ p \in alive
         /\ \A d \in Clients : d # c /\ cpc[d] \in Deleting => cpool[d] # p
    /\ ~rejoined /\ at \in Deleting =>
         /\ \A u \in Tasks : tpool[u] = p => tstate[u] \notin InPool
         /\ \A d \in Clients : d # c => cpool[d] # p

LEMMA ClientMoves ==
    ASSUME Structure, NEW c \in Clients, cpc[c] \notin {"dead", "enqueue"},
           NEW at \in Pushing \cup Deleting \cup Joining \cup {"idle", "leave", "dispose"},
           at # "enqueue", NEW p, NEW t, Fits(c, at, p, t),
           Call(c, at, p, t), count' \in [Pools -> Int], expected' \in [Clients -> Int],
           UNCHANGED <<alive, queue, stopping, threads, taskVars, workerVars, rejoined>>
    PROVE  Structure'
<1>1. /\ cpc'[c] = at /\ cpool'[c] = p /\ ctask'[c] = t
      /\ \A d \in Clients \ {c} :
           cpc'[d] = cpc[d] /\ cpool'[d] = cpool[d] /\ ctask'[d] = ctask[d]
      /\ UNCHANGED <<alive, queue, stopping, threads, tstate, tpool, detached,
                     wpc, wpool, wtask, rejoined>>
      /\ Running
  BY DEF Call, Structure, TypeOK, taskVars, workerVars, CrashSound, Running
<1>2. TypeOK'
  <2>1. /\ cpc' \in [Clients -> Pushing \cup Deleting \cup
                 {"idle", "join", "wait", "leave", "tjoin", "twait", "spin",
                  "dispose", "dead"}]
        /\ cpool' \in [Clients -> Pools \cup {NULL}]
        /\ ctask' \in [Clients -> Tasks \cup {NULL}]
    BY DEF Call, Structure, TypeOK, Fits, Joining
  <2>2. ASSUME NEW d \in Clients
        PROVE  /\ cpc'[d] \in Pushing \cup Deleting \cup {"leave"} => cpool'[d] \in Pools
               /\ cpc'[d] \in (Pushing \ {"undo"}) \cup
                       {"join", "wait", "tjoin", "twait", "spin", "dispose"}
                    => ctask'[d] \in Tasks
    <3>1. CASE d = c
      BY <1>1, <3>1 DEF Fits, Joining
    <3>2. CASE d # c
      BY <1>1, <3>2 DEF Structure, TypeOK
    <3>. QED BY <3>1, <3>2
  <2>. QED BY <1>1, <2>1, <2>2 DEF Structure, TypeOK
<1>3. CrashSound'
  BY <1>1 DEF Running, CrashSound, Pushing, Deleting, Joining
<1>4. Owned'
  BY <1>1 DEF Structure, Owned
<1>5. OwnedOnce'
  BY <1>1 DEF Structure, OwnedOnce
<1>6. Users'
  <2>1. ASSUME NEW d \in Clients, ctask'[d] # NULL
        PROVE  /\ cpc'[d] \notin Deleting \cup {"idle", "undo", "leave"}
               /\ tstate'[ctask'[d]] # "NONE" /\ ~detached'[ctask'[d]]
    <3>1. CASE d = c
      BY <1>1, <2>1, <3>1 DEF Fits
    <3>2. CASE d # c
      BY <1>1, <2>1, <3>2 DEF Structure, Users
    <3>. QED BY <3>1, <3>2
  <2>2. ASSUME NEW d \in Clients
        PROVE  /\ cpool'[d] # NULL => cpc'[d] \in Pushing \cup Deleting \cup {"leave", "dead"}
               /\ cpc'[d] \in Joining => tstate'[ctask'[d]] # "NEW"
    <3>1. CASE d = c
      BY <1>1, <3>1 DEF Fits
    <3>2. CASE d # c
      BY <1>1, <3>2 DEF Structure, Users
    <3>. QED BY <3>1, <3>2
  <2>3. ASSUME NEW d \in Clients, cpc'[d] = "dispose"
        PROVE  /\ tstate'[ctask'[d]] = "FINISHED"
               /\ \A e \in Clients : e # d => ctask'[e] # ctask'[d]
    <3>1. CASE d = c
      BY <1>1, <2>3, <3>1 DEF Fits
    <3>2. CASE d # c
      <4>1. /\ tstate[ctask[d]] = "FINISHED" /\ ctask[d] \in Tasks
            /\ \A e \in Clients : e # d => ctask[e] # ctask[d]
        BY <1>1, <2>3, <3>2 DEF Structure, Users, TypeOK
      <4>2. t # ctask[d]
        BY <1>1, <2>3, <3>2, <4>1 DEF Fits
      <4>. QED BY <1>1, <3>2, <4>1, <4>2
    <3>. QED BY <3>1, <3>2
  <2>. QED BY <2>1, <2>2, <2>3 DEF Users
<1>7. NoMissedSignal'
  <2>1. ASSUME NEW d \in Clients, cpc'[d] \in {"wait", "twait"}
        PROVE  tstate'[ctask'[d]] \in {"QUEUED", "RUNNING"}
    BY <1>1, <2>1 DEF Structure, NoMissedSignal, Fits
  <2>. QED BY <1>1, <2>1 DEF Structure, NoMissedSignal
<1>8. ASSUME ~rejoined' PROVE StillOwned' /\ Refs' /\ DeleteSafe'
  <2>1. StillOwned'
    BY <1>1, <1>8 DEF Structure, StillOwned
  <2>2. Refs'
    <3>1. ASSUME NEW d \in Clients, cpool'[d] # NULL PROVE cpool'[d] \in alive'
      BY <1>1, <1>8, <3>1 DEF Structure, Refs, Fits
    <3>. QED BY <1>1, <1>8, <3>1 DEF Structure, Refs
  <2>3. ASSUME NEW d \in Clients, cpc'[d] \in Deleting
        PROVE  /\ \A u \in Tasks : tpool'[u] = cpool'[d] => tstate'[u] \notin InPool
               /\ \A e \in Clients : e # d => cpool'[e] # cpool'[d]
    <3>1. CASE d = c
      BY <1>1, <1>8, <2>3, <3>1 DEF Fits
    <3>2. CASE d # c
      <4>1. /\ \A u \in Tasks : tpool[u] = cpool[d] => tstate[u] \notin InPool
            /\ \A e \in Clients : e # d => cpool[e] # cpool[d]
            /\ cpool[d] \in Pools
        BY <1>1, <1>8, <2>3, <3>2 DEF Structure, DeleteSafe, TypeOK
      <4>2. cpool[d] # p
        BY <1>1, <1>8, <2>3, <3>2, <4>1 DEF Fits
      <4>. QED BY <1>1, <3>2, <4>1, <4>2
    <3>. QED BY <3>1, <3>2
  <2>. QED BY <2>1, <2>2, <2>3 DEF DeleteSafe
<1>. QED BY <1>2, <1>3, <1>4, <1>5, <1>6, <1>7, <1>8 DEF Structure

(* The same when the client neither gains nor loses a place in task_count. *)
LEMMA QuietMoveInv ==
    ASSUME PoolInv, NEW c \in Clients, cpc[c] \notin {"dead", "enqueue"},
           NEW at \in Pushing \cup Deleting \cup Joining \cup {"idle", "leave", "dispose"},
           at # "enqueue", NEW p, NEW t, Fits(c, at, p, t),
           \/ cpc[c] \notin Reserved /\ at \notin Reserved
           \/ cpc[c] \in Reserved /\ at \in Reserved /\ cpool[c] = p,
           Call(c, at, p, t), expected' \in [Clients -> Int],
           UNCHANGED <<poolVars, taskVars, workerVars, rejoined>>
    PROVE  PoolInv'
<1>1. /\ cpc'[c] = at /\ cpool'[c] = p
      /\ \A d \in Clients \ {c} : cpc'[d] = cpc[d] /\ cpool'[d] = cpool[d]
      /\ UNCHANGED <<alive, queue, count, stopping, threads, tstate, tpool, detached,
                     wpc, wpool, wtask, rejoined>>
  BY DEF Call, PoolInv, Structure, TypeOK, poolVars, taskVars, workerVars
<1>2. count' \in [Pools -> Int]
  BY <1>1 DEF PoolInv, Structure, TypeOK
<1>3. Structure'
  BY <1>1, <1>2, ClientMoves DEF PoolInv, poolVars
<1>4. ASSUME ~rejoined', NEW q \in alive' PROVE CountRight(q)'
  <2>1. CountRight(q) /\ count'[q] = count[q]
    BY <1>1, <1>4 DEF PoolInv
  <2>2. TasksIn(q)' = TasksIn(q) /\ Releases(q)' = Releases(q)
    BY <1>1 DEF TasksIn, Releases
  <2>3. Reservations(q)' = Reservations(q)
    BY <1>1 DEF Reservations, Reserved
  <2>. QED BY <2>1, <2>2, <2>3, CountKept
<1>. QED BY <1>3, <1>4 DEF PoolInv

(* thread_pool_delete reads a zero count: nothing is counted.              *)
LEMMA PoolDeleteInv ==
    ASSUME PoolInv, ~rejoined, NEW c \in Clients, NEW p \in Pools, PoolDelete(c, p)
    PROVE  PoolInv'
<1>1. /\ cpc[c] = "idle" /\ p \in alive /\ count[p] = 0
      /\ \A d \in Clients : cpc[d] \in Deleting \cup Pushing => cpool[d] # p
  BY DEF PoolDelete, MayDelete, MayPush
<1>2. TasksIn(p) = {} /\ Reservations(p) = {}
  <2>1. TasksIn(p) \in SUBSET Tasks /\ Reservations(p) \in SUBSET Clients /\ Releases(p) \in SUBSET Workers
    BY DEF TasksIn, Reservations, Releases
  <2>2. /\ IsFiniteSet(TasksIn(p)) /\ IsFiniteSet(Reservations(p))
        /\ Cardinality(TasksIn(p)) \in Nat /\ Cardinality(Reservations(p)) \in Nat
        /\ Cardinality(Releases(p)) \in Nat
    BY <2>1, CountsFinite
  <2>3. Cardinality(TasksIn(p)) = 0 /\ Cardinality(Reservations(p)) = 0
    BY <1>1, <2>2 DEF PoolInv, CountRight
  <2>. QED BY <2>2, <2>3, FS_EmptySet
<1>3. \A d \in Clients : cpool[d] # p
  <2>1. \A d \in Clients : cpool[d] = p => cpc[d] \in Pushing \cup Deleting \cup {"leave", "dead"}
    BY ThreadPoolAssumption DEF PoolInv, Structure, Users
  <2>2. \A d \in Clients : cpc[d] # "dead"
    BY DEF PoolInv, Structure, CrashSound, Running
  <2>3. \A d \in Clients : cpc[d] = "leave" => cpool[d] # p
    BY <1>2 DEF Reservations
  <2>. QED BY <1>1, <2>1, <2>2, <2>3
<1>4. Fits(c, "stop", p, NULL)
  BY <1>1, <1>2, <1>3, ThreadPoolAssumption DEF Fits, TasksIn, Pushing, Deleting, Joining
<1>5. /\ Call(c, "stop", p, NULL) /\ expected' \in [Clients -> Int]
      /\ UNCHANGED <<poolVars, taskVars, workerVars, rejoined>>
  BY DEF PoolDelete, PoolInv, Structure, TypeOK
<1>. QED BY <1>1, <1>4, <1>5, QuietMoveInv DEF Reserved, Deleting

(* thread_pool_push_task reads the count.                                  *)
LEMMA PushInv ==
    ASSUME PoolInv, ~rejoined, NEW c \in Clients, NEW p \in Pools, NEW t \in Tasks, Push(c, p, t)
    PROVE  PoolInv'
<1>1. /\ cpc[c] = "idle" /\ p \in alive /\ tstate[t] # "NONE" /\ ~detached[t]
      /\ \A d \in Clients : cpc[d] \in Deleting => cpool[d] # p
      /\ \A d \in Clients : cpc[d] = "dispose" => ctask[d] # t
  BY DEF Push, MayPush, MayUse
<1>2. Fits(c, "reserve", p, t)
  BY <1>1 DEF Fits, Pushing, Deleting, Joining
<1>3. /\ Call(c, "reserve", p, t) /\ expected' \in [Clients -> Int]
      /\ UNCHANGED <<poolVars, taskVars, workerVars, rejoined>>
  BY DEF Push, PoolInv, Structure, TypeOK
<1>. QED BY <1>1, <1>2, <1>3, QuietMoveInv DEF Reserved, Pushing

(* A client that has returned.                                             *)
LEMMA IdleFits ==
    ASSUME NEW c \in Clients PROVE Fits(c, "idle", NULL, NULL)
  BY ThreadPoolAssumption DEF Fits, Pushing, Deleting, Joining

(* Where a client is inside a push or a join, its arguments fit any place  *)
(* of the same kind.                                                       *)
LEMMA PushingFits ==
    ASSUME PoolInv, NEW c \in Clients, NEW p \in Pools, cpool[c] = p, Running,
           cpc[c] \in Pushing
    PROVE  /\ Fits(c, "undo", p, NULL)
           /\ \A t \in Tasks : ctask[c] = t => Fits(c, "check", p, t)
<1>1. \A d \in Clients : d # c /\ cpc[d] \in Deleting /\ ~rejoined => cpool[d] # p
  BY DEF PoolInv, Structure, DeleteSafe
<1>2. ~rejoined => p \in alive
  BY ThreadPoolAssumption DEF PoolInv, Structure, Refs
<1>3. Fits(c, "undo", p, NULL)
  BY <1>1, <1>2, ThreadPoolAssumption DEF Fits, Pushing, Deleting, Joining
<1>4. ASSUME NEW t \in Tasks, ctask[c] = t PROVE Fits(c, "check", p, t)
  <2>1. tstate[t] # "NONE" /\ ~detached[t]
    BY <1>4, ThreadPoolAssumption DEF PoolInv, Structure, Users
  <2>2. \A d \in Clients : d # c /\ cpc[d] = "dispose" => ctask[d] # t
    BY <1>4 DEF PoolInv, Structure, Users
  <2>. QED BY <1>1, <1>2, <2>1, <2>2 DEF Fits, Pushing, Deleting, Joining
<1>. QED BY <1>3, <1>4

(* The compare-and-exchange.                                               *)
LEMMA PushReserveInv ==
    ASSUME PoolInv, NEW c \in Clients, PushReserve(c)
    PROVE  PoolInv'
<1>0. PICK p \in Pools, t \in Tasks : cpool[c] = p /\ ctask[c] = t
  BY DEF PushReserve, PoolInv, Structure, TypeOK, Pushing
<1>1. cpc[c] = "reserve" /\ Running
  BY DEF PushReserve, PoolInv, Structure, CrashSound, Running
<1>2. expected' \in [Clients -> Int]
  BY <1>0 DEF PushReserve, PoolInv, Structure, TypeOK
<1>3. UNCHANGED <<alive, queue, stopping, threads, taskVars, workerVars, rejoined>>
  BY DEF PushReserve
<1>4. CASE Return(c) /\ UNCHANGED count
  BY <1>1, <1>2, <1>3, <1>4, IdleFits, QuietMoveInv DEF Return, Reserved, poolVars
<1>5. CASE UNCHANGED <<count, cpc, cpool, ctask>>
  <2>1. Fits(c, "check", p, t)
    BY <1>0, <1>1, PushingFits DEF Pushing
  <2>2. Fits(c, "reserve", p, t)
    BY <2>1 DEF Fits, Pushing, Deleting, Joining
  <2>3. Call(c, "reserve", p, t)
    BY <1>0, <1>1, <1>5 DEF Call, PoolInv, Structure, TypeOK
  <2>. QED BY <1>1, <1>2, <1>3, <1>5, <2>2, <2>3, QuietMoveInv DEF Reserved, Pushing, poolVars
<1>6. CASE /\ expected[c] < MaxTasks /\ count[p] = expected[c]
           /\ count' = [count EXCEPT ![p] = @ + 1]
           /\ Call(c, "check", p, t)
  <2>1. Fits(c, "check", p, t)
    BY <1>0, <1>1, PushingFits DEF Pushing
  <2>2. count' \in [Pools -> Int]
    BY <1>6 DEF PoolInv, Structure, TypeOK
  <2>3. Structure'
    BY <1>1, <1>2, <1>3, <1>6, <2>1, <2>2, ClientMoves DEF PoolInv, Pushing
  <2>4. /\ cpc'[c] = "check" /\ cpool'[c] = p
        /\ \A d \in Clients \ {c} : cpc'[d] = cpc[d] /\ cpool'[d] = cpool[d]
        /\ count'[p] = count[p] + 1 /\ \A q \in Pools \ {p} : count'[q] = count[q]
        /\ UNCHANGED <<alive, tstate, tpool, wpc, wpool, rejoined>>
    BY <1>3, <1>6 DEF Call, PoolInv, Structure, TypeOK, taskVars, workerVars
  <2>5. ASSUME ~rejoined', NEW q \in alive' PROVE CountRight(q)'
    <3>1. CountRight(q) /\ q \in Pools
      BY <2>4, <2>5 DEF PoolInv, Structure, TypeOK
    <3>2. TasksIn(q)' = TasksIn(q) /\ Releases(q)' = Releases(q)
      BY <2>4 DEF TasksIn, Releases
    <3>3. CASE q # p
      <4>1. Reservations(q)' = Reservations(q)
        BY <1>0, <2>4, <3>3 DEF Reservations
      <4>. QED BY <2>4, <3>1, <3>2, <3>3, <4>1, CountKept
    <3>4. CASE q = p
      <4>1. Reservations(q)' = Reservations(q) \cup {c} /\ c \notin Reservations(q)
        BY <1>1, <2>4, <3>4 DEF Reservations
      <4>2. TasksIn(q) \in SUBSET Tasks /\ Reservations(q) \in SUBSET Clients /\ Releases(q) \in SUBSET Workers
        BY DEF TasksIn, Reservations, Releases
      <4>3. Cardinality(Reservations(q)') = Cardinality(Reservations(q)) + 1
        BY <4>1, <4>2, CountsFinite, OneMore
      <4>4. /\ Cardinality(TasksIn(q)) \in Nat /\ Cardinality(Reservations(q)) \in Nat
            /\ Cardinality(Releases(q)) \in Nat
        BY <4>2, CountsFinite
      <4>5. count[q] \in Int /\ MaxTasks \in Nat /\ count[q] < MaxTasks
        BY <1>6, <3>1, <3>4, ThreadPoolAssumption DEF PoolInv, Structure, TypeOK
      <4>. QED BY <2>4, <3>1, <3>2, <3>4, <4>3, <4>4, <4>5 DEF CountRight
    <3>. QED BY <3>3, <3>4
  <2>. QED BY <2>3, <2>5 DEF PoolInv
<1>. QED BY <1>0, <1>4, <1>5, <1>6 DEF PushReserve

(* A refused push, and a join, give their place in task_count back.        *)
LEMMA LeaveInv ==
    ASSUME PoolInv, NEW c \in Clients, PushUndo(c) \/ JoinLeave(c)
    PROVE  PoolInv'
<1>0. PICK p \in Pools : cpool[c] = p
  BY DEF PushUndo, JoinLeave, PoolInv, Structure, TypeOK, Pushing
<1>1. /\ cpc[c] \in {"undo", "leave"} /\ Return(c)
      /\ count' = [count EXCEPT ![p] = @ - 1]
      /\ UNCHANGED <<alive, queue, stopping, threads, taskVars, workerVars, expected, rejoined>>
  BY <1>0 DEF PushUndo, JoinLeave
<1>2. count' \in [Pools -> Int] /\ expected' \in [Clients -> Int]
  BY <1>1 DEF PoolInv, Structure, TypeOK
<1>3. Structure'
  BY <1>1, <1>2, IdleFits, ClientMoves DEF PoolInv, Return
<1>4. /\ cpc'[c] = "idle" /\ cpool'[c] = NULL
      /\ \A d \in Clients \ {c} : cpc'[d] = cpc[d] /\ cpool'[d] = cpool[d]
      /\ count'[p] = count[p] - 1 /\ \A q \in Pools \ {p} : count'[q] = count[q]
      /\ UNCHANGED <<alive, tstate, tpool, wpc, wpool, rejoined>>
  BY <1>1 DEF Return, Call, PoolInv, Structure, TypeOK, taskVars, workerVars
<1>5. ASSUME ~rejoined', NEW q \in alive' PROVE CountRight(q)'
  <2>1. CountRight(q) /\ q \in Pools
    BY <1>4, <1>5 DEF PoolInv, Structure, TypeOK
  <2>2. TasksIn(q)' = TasksIn(q) /\ Releases(q)' = Releases(q)
    BY <1>4 DEF TasksIn, Releases
  <2>3. CASE q # p
    <3>1. Reservations(q)' = Reservations(q)
      BY <1>0, <1>4, <2>3 DEF Reservations
    <3>. QED BY <1>4, <2>1, <2>2, <2>3, <3>1, CountKept
  <2>4. CASE q = p
    <3>1. Reservations(q)' = Reservations(q) \ {c} /\ c \in Reservations(q)
      BY <1>0, <1>1, <1>4, <2>4 DEF Reservations
    <3>2. TasksIn(q) \in SUBSET Tasks /\ Reservations(q) \in SUBSET Clients /\ Releases(q) \in SUBSET Workers
      BY DEF TasksIn, Reservations, Releases
    <3>3. Cardinality(Reservations(q)') = Cardinality(Reservations(q)) - 1
      BY <3>1, <3>2, CountsFinite, OneLess
    <3>4. /\ Cardinality(TasksIn(q)) \in Nat /\ Cardinality(Reservations(q)) \in Nat
          /\ Cardinality(Releases(q)) \in Nat
      BY <3>2, CountsFinite
    <3>5. count[q] \in Int /\ MaxTasks \in Nat
      BY <2>1, ThreadPoolAssumption DEF PoolInv, Structure, TypeOK
    <3>. QED BY <1>4, <2>1, <2>2, <2>4, <3>3, <3>4, <3>5 DEF CountRight
  <2>. QED BY <2>3, <2>4
<1>. QED BY <1>3, <1>5 DEF PoolInv

(* Where a worker is that has a task.                                      *)
LEMMA HasTask ==
    ASSUME Structure, Running, NEW w \in Workers, NEW t \in Tasks, wtask[w] = t
    PROVE  wpc[w] \in {"start", "run", "delete"}
<1>1. t # NULL
  BY ThreadPoolAssumption
<1>2. wpc[w] \in {"none", "loop", "wait", "start", "run", "delete", "release", "exit", "dead"}
  BY DEF Structure, TypeOK
<1>3. wpc[w] \notin {"none", "loop", "wait", "release", "exit"}
  BY <1>1 DEF Structure, TypeOK
<1>4. wpc[w] # "dead"
  BY DEF Running
<1>. QED BY <1>2, <1>3, <1>4

(* The push claims a task that is in no pool.                              *)
LEMMA PushClaimInv ==
    ASSUME PoolInv, NEW c \in Clients, cpc[c] = "check", NEW p \in Pools, NEW t \in Tasks,
           cpool[c] = p, ctask[c] = t, FreeTask(t),
           tpool' = [tpool EXCEPT ![t] = p],
           tstate' = [tstate EXCEPT ![t] = "QUEUED"],
           Call(c, "enqueue", p, t),
           UNCHANGED <<poolVars, detached, workerVars, expected, rejoined>>
    PROVE  PoolInv'
<1>1. /\ cpc'[c] = "enqueue" /\ cpool'[c] = p /\ ctask'[c] = t
      /\ \A d \in Clients \ {c} : cpc'[d] = cpc[d]
      /\ tstate'[t] = "QUEUED" /\ tpool'[t] = p
      /\ \A u \in Tasks \ {t} : tstate'[u] = tstate[u] /\ tpool'[u] = tpool[u]
      /\ UNCHANGED <<alive, queue, count, stopping, threads, detached,
                     wpc, wpool, wtask, cpool, ctask, expected, rejoined>>
      /\ Running
  BY DEF Call, PoolInv, Structure, TypeOK, poolVars, workerVars, CrashSound, Running
<1>2. tstate[t] \in {"NEW", "JOINED"} /\ ~detached[t]
  <2>1. tstate[t] # "NONE" /\ ~detached[t]
    BY ThreadPoolAssumption DEF PoolInv, Structure, Users
  <2>. QED BY <2>1 DEF FreeTask, PoolInv, Structure, TypeOK
<1>3. /\ \A q \in Pools : t \notin Range(queue[q])
      /\ \A d \in Clients : cpc[d] = "enqueue" => ctask[d] # t
      /\ \A d \in Clients : cpc[d] = "dispose" => ctask[d] # t
      /\ \A d \in Clients : cpc[d] \in {"wait", "twait"} => ctask[d] # t
      /\ \A w \in Workers : wtask[w] # t
  <2>1. /\ \A q \in Pools : t \notin Range(queue[q])
        /\ \A d \in Clients : cpc[d] = "enqueue" => ctask[d] # t
    BY <1>2 DEF PoolInv, Structure, Owned
  <2>2. \A d \in Clients : cpc[d] = "dispose" => ctask[d] # t
    BY <1>2 DEF PoolInv, Structure, Users
  <2>3. \A d \in Clients : cpc[d] \in {"wait", "twait"} => ctask[d] # t
    BY <1>2 DEF PoolInv, Structure, NoMissedSignal
  <2>4. \A w \in Workers : wtask[w] = t => wpc[w] \in {"start", "run", "delete"}
    BY <1>1, HasTask DEF PoolInv
  <2>5. \A w \in Workers : wpc[w] \in {"start", "run", "delete"} => tstate[wtask[w]] \in InPool
    BY DEF PoolInv, Structure, Owned, InPool
  <2>. QED BY <1>2, <2>1, <2>2, <2>3, <2>4, <2>5 DEF InPool
<1>4. TypeOK'
  <2>1. /\ tstate' \in [Tasks -> InPool \cup {"NONE", "NEW", "JOINED"}]
        /\ tpool' \in [Tasks -> Pools \cup {NULL}]
        /\ cpc' \in [Clients -> Pushing \cup Deleting \cup
                 {"idle", "join", "wait", "leave", "tjoin", "twait", "spin",
                  "dispose", "dead"}]
    BY DEF Call, PoolInv, Structure, TypeOK, InPool, Pushing
  <2>2. ASSUME NEW d \in Clients
        PROVE  /\ cpc'[d] \in Pushing \cup Deleting \cup {"leave"} => cpool'[d] \in Pools
               /\ cpc'[d] \in (Pushing \ {"undo"}) \cup
                       {"join", "wait", "tjoin", "twait", "spin", "dispose"}
                    => ctask'[d] \in Tasks
    BY <1>1 DEF PoolInv, Structure, TypeOK
  <2>. QED BY <1>1, <2>1, <2>2 DEF PoolInv, Structure, TypeOK
<1>5. CrashSound'
  BY <1>1 DEF Running, CrashSound
<1>6. Owned'
  <2>1. \A q \in Pools : Range(queue[q]) \subseteq Tasks
    BY QueueElements DEF PoolInv, Structure, TypeOK
  <2>2. \A d \in Clients : cpc[d] = "enqueue" => ctask[d] \in Tasks
    BY DEF PoolInv, Structure, TypeOK, Pushing
  <2>3. \A v \in Workers : wpc[v] \in {"start", "run", "delete"} => wtask[v] \in Tasks
    BY DEF PoolInv, Structure, TypeOK
  <2>. QED BY <1>1, <1>3, <2>1, <2>2, <2>3 DEF PoolInv, Structure, Owned, InPool
<1>7. OwnedOnce'
  BY <1>1, <1>3 DEF PoolInv, Structure, OwnedOnce
<1>8. Users'
  <2>1. ASSUME NEW d \in Clients, ctask'[d] # NULL
        PROVE  /\ cpc'[d] \notin Deleting \cup {"idle", "undo", "leave"}
               /\ tstate'[ctask'[d]] # "NONE" /\ ~detached'[ctask'[d]]
    <3>1. tstate[ctask[d]] # "NONE" /\ ~detached[ctask[d]] /\ ctask[d] \in Tasks
          /\ cpc[d] \notin Deleting \cup {"idle", "undo", "leave"}
      BY <1>1, <2>1 DEF PoolInv, Structure, Users, TypeOK
    <3>2. cpc'[d] \notin Deleting \cup {"idle", "undo", "leave"}
      BY <1>1, <3>1 DEF Deleting
    <3>3. tstate'[ctask'[d]] # "NONE" /\ ~detached'[ctask'[d]]
      BY <1>1, <3>1
    <3>. QED BY <3>2, <3>3
  <2>2. ASSUME NEW d \in Clients
        PROVE  cpool'[d] # NULL => cpc'[d] \in Pushing \cup Deleting \cup {"leave", "dead"}
    BY <1>1 DEF PoolInv, Structure, Users, Pushing
  <2>3. ASSUME NEW d \in Clients, cpc'[d] \in Joining PROVE tstate'[ctask'[d]] # "NEW"
    <3>1. cpc[d] \in Joining /\ ctask[d] \in Tasks /\ tstate[ctask[d]] # "NEW"
      BY <1>1, <2>3 DEF PoolInv, Structure, Users, TypeOK, Joining
    <3>. QED BY <1>1, <3>1
  <2>4. ASSUME NEW d \in Clients, cpc'[d] = "dispose"
        PROVE  /\ tstate'[ctask'[d]] = "FINISHED"
               /\ \A e \in Clients : e # d => ctask'[e] # ctask'[d]
    <3>1. cpc[d] = "dispose" /\ ctask[d] \in Tasks \ {t}
      BY <1>1, <1>3, <2>4 DEF PoolInv, Structure, TypeOK
    <3>. QED BY <1>1, <3>1 DEF PoolInv, Structure, Users
  <2>. QED BY <2>1, <2>2, <2>3, <2>4 DEF Users
<1>9. NoMissedSignal'
  <2>1. \A d \in Clients : cpc'[d] \in {"wait", "twait"} =>
          cpc[d] \in {"wait", "twait"} /\ ctask[d] \in Tasks \ {t}
    BY <1>1, <1>3 DEF PoolInv, Structure, TypeOK
  <2>. QED BY <1>1, <2>1 DEF PoolInv, Structure, NoMissedSignal
<1>10. ASSUME ~rejoined' PROVE StillOwned' /\ Refs' /\ DeleteSafe'
  <2>1. StillOwned'
    BY <1>1, <1>10 DEF PoolInv, Structure, StillOwned
  <2>2. p \in alive /\ \A d \in Clients : d # c /\ cpc[d] \in Deleting => cpool[d] # p
    BY <1>1, <1>10, ThreadPoolAssumption DEF PoolInv, Structure, Refs, DeleteSafe
  <2>3. Refs'
    BY <1>1, <1>10, <2>2 DEF PoolInv, Structure, Refs
  <2>4. \A d \in Clients : cpc'[d] \in Deleting => cpc[d] \in Deleting /\ d # c
    BY <1>1 DEF Deleting
  <2>5. DeleteSafe'
    BY <1>1, <1>10, <2>2, <2>4 DEF PoolInv, Structure, DeleteSafe
  <2>. QED BY <2>1, <2>3, <2>5
<1>11. ASSUME ~rejoined', NEW q \in alive' PROVE CountRight(q)'
  <2>1. CountRight(q) /\ q \in Pools /\ count'[q] = count[q]
    BY <1>1, <1>11 DEF PoolInv, Structure, TypeOK
  <2>2. Releases(q)' = Releases(q)
    BY <1>1 DEF Releases
  <2>3. CASE q # p
    <3>1. Reservations(q)' = Reservations(q)
      BY <1>1, <2>3 DEF Reservations
    <3>2. TasksIn(q)' = TasksIn(q)
      BY <1>1, <1>2, <2>3 DEF TasksIn, InPool
    <3>. QED BY <2>1, <2>2, <3>1, <3>2, CountKept
  <2>4. CASE q = p
    <3>1. Reservations(q)' = Reservations(q) \ {c} /\ c \in Reservations(q)
      BY <1>1, <2>4 DEF Reservations
    <3>2. TasksIn(q)' = TasksIn(q) \cup {t} /\ t \notin TasksIn(q)
      BY <1>1, <1>2, <2>4 DEF TasksIn, InPool
    <3>3. TasksIn(q) \in SUBSET Tasks /\ Reservations(q) \in SUBSET Clients /\ Releases(q) \in SUBSET Workers
      BY DEF TasksIn, Reservations, Releases
    <3>4. /\ Cardinality(Reservations(q)') = Cardinality(Reservations(q)) - 1
          /\ Cardinality(TasksIn(q)') = Cardinality(TasksIn(q)) + 1
      BY <3>1, <3>2, <3>3, CountsFinite, OneLess, OneMore
    <3>5. /\ Cardinality(TasksIn(q)) \in Nat /\ Cardinality(Reservations(q)) \in Nat
          /\ Cardinality(Releases(q)) \in Nat
      BY <3>3, CountsFinite
    <3>. QED BY <2>1, <2>2, <3>4, <3>5 DEF CountRight
  <2>. QED BY <2>3, <2>4
<1>. QED BY <1>4, <1>5, <1>6, <1>7, <1>8, <1>9, <1>10, <1>11 DEF PoolInv, Structure

LEMMA PushCheckInv ==
    ASSUME PoolInv, NEW c \in Clients, PushCheck(c)
    PROVE  PoolInv'
<1>0. PICK p \in Pools, t \in Tasks : cpool[c] = p /\ ctask[c] = t
  BY DEF PushCheck, PoolInv, Structure, TypeOK, Pushing
<1>1. cpc[c] = "check" /\ Running
  BY DEF PushCheck, PoolInv, Structure, CrashSound, Running
<1>2. CASE FreeTask(t)
  BY <1>0, <1>1, <1>2, PushClaimInv DEF PushCheck
<1>3. CASE ~FreeTask(t)
  <2>1. Fits(c, "undo", p, NULL)
    BY <1>0, <1>1, PushingFits DEF Pushing
  <2>2. /\ Call(c, "undo", p, NULL) /\ expected' \in [Clients -> Int]
        /\ UNCHANGED <<poolVars, taskVars, workerVars, rejoined>>
    BY <1>0, <1>3 DEF PushCheck, PoolInv, Structure, TypeOK, taskVars
  <2>. QED BY <1>0, <1>1, <2>1, <2>2, QuietMoveInv DEF Reserved, Pushing
<1>. QED BY <1>2, <1>3

(* The task is enqueued, threads are started and the sleeping ones woken.  *)
LEMMA PushEnqueueInv ==
    ASSUME PoolInv, NEW c \in Clients, PushEnqueue(c)
    PROVE  PoolInv'
<1>0. PICK p \in Pools, t \in Tasks : cpool[c] = p /\ ctask[c] = t
  BY DEF PushEnqueue, PoolInv, Structure, TypeOK, Pushing
<1>1. PICK new \in SUBSET {w \in Workers : wpc[w] = "none"} :
        /\ threads' = [threads EXCEPT ![p] = @ \cup new]
        /\ wpc' = [w \in Workers |-> IF w \in new THEN "loop" ELSE WakeWorkers(p)[w]]
        /\ wpool' = [w \in Workers |-> IF w \in new THEN p ELSE wpool[w]]
  BY <1>0 DEF PushEnqueue
<1>2. /\ cpc[c] = "enqueue"
      /\ cpc'[c] = "idle" /\ cpool'[c] = NULL /\ ctask'[c] = NULL
      /\ \A d \in Clients \ {c} :
           cpc'[d] = cpc[d] /\ cpool'[d] = cpool[d] /\ ctask'[d] = ctask[d]
      /\ queue'[p] = Append(queue[p], t) /\ \A q \in Pools \ {p} : queue'[q] = queue[q]
      /\ UNCHANGED <<alive, count, stopping, tstate, tpool, detached, wtask, expected, rejoined>>
  BY <1>0 DEF PushEnqueue, Return, Call, PoolInv, Structure, TypeOK, taskVars
<1>3. /\ threads'[p] = threads[p] \cup new /\ \A q \in Pools \ {p} : threads'[q] = threads[q]
      /\ \A w \in new : w \in Workers /\ wpc[w] = "none" /\ wpc'[w] = "loop" /\ wpool'[w] = p
      /\ \A w \in Workers \ new : wpool'[w] = wpool[w]
      /\ \A w \in Workers \ new :
           \/ wpc[w] = "wait" /\ wpool[w] = p /\ wpc'[w] = "loop"
           \/ wpc'[w] = wpc[w] /\ (wpc[w] = "wait" => wpool[w] # p)
  BY <1>1 DEF WakeWorkers, PoolInv, Structure, TypeOK
<1>4. /\ tstate[t] = "QUEUED" /\ tpool[t] = p
      /\ \A q \in Pools : t \notin Range(queue[q])
      /\ \A w \in Workers : wtask[w] # t
      /\ \A d \in Clients : cpc[d] = "enqueue" /\ ctask[d] = t => d = c
  BY <1>0, <1>2 DEF PoolInv, Structure, Owned, OwnedOnce
<1>5. /\ queue'[p] \in Seq(Tasks) /\ NoRepeat(queue'[p])
      /\ Range(queue'[p]) = Range(queue[p]) \cup {t}
  <2>1. queue[p] \in Seq(Tasks) /\ NoRepeat(queue[p])
    BY DEF PoolInv, Structure, TypeOK, Owned
  <2>. QED BY <1>2, <1>4, <2>1, AppendQueue
<1>6. Running
  BY <1>2 DEF PoolInv, Structure, CrashSound, Running
<1>7. TypeOK'
  <2>1. queue' \in [Pools -> Seq(Tasks)]
    BY <1>0, <1>2, <1>5 DEF PushEnqueue, PoolInv, Structure, TypeOK
  <2>2. threads' \in [Pools -> SUBSET Workers] /\ wpool' \in [Workers -> Pools \cup {NULL}]
    BY <1>1 DEF PoolInv, Structure, TypeOK
  <2>3. wpc' \in [Workers -> {"none", "loop", "wait", "start", "run", "delete",
                             "release", "exit", "dead"}]
    BY <1>1 DEF WakeWorkers, PoolInv, Structure, TypeOK
  <2>4. /\ cpc' \in [Clients -> Pushing \cup Deleting \cup
                 {"idle", "join", "wait", "leave", "tjoin", "twait", "spin",
                  "dispose", "dead"}]
        /\ cpool' \in [Clients -> Pools \cup {NULL}]
        /\ ctask' \in [Clients -> Tasks \cup {NULL}]
    BY DEF PushEnqueue, Return, Call, PoolInv, Structure, TypeOK
  <2>5. ASSUME NEW w \in Workers
        PROVE  /\ wpc'[w] \in {"start", "run", "delete"} => wtask'[w] \in Tasks
               /\ wpc'[w] \in {"none", "loop", "wait", "release", "exit"} => wtask'[w] = NULL
               /\ wpc'[w] \notin {"none", "dead"} => wpool'[w] \in Pools
    <3>1. CASE w \in new
      BY <1>2, <1>3, <3>1 DEF PoolInv, Structure, TypeOK
    <3>2. CASE w \notin new
      BY <1>2, <1>3, <3>2 DEF PoolInv, Structure, TypeOK
    <3>. QED BY <3>1, <3>2
  <2>6. ASSUME NEW d \in Clients
        PROVE  /\ cpc'[d] \in Pushing \cup Deleting \cup {"leave"} => cpool'[d] \in Pools
               /\ cpc'[d] \in (Pushing \ {"undo"}) \cup
                       {"join", "wait", "tjoin", "twait", "spin", "dispose"}
                    => ctask'[d] \in Tasks
    <3>1. CASE d = c
      BY <1>2, <3>1 DEF Pushing, Deleting
    <3>2. CASE d # c
      BY <1>2, <3>2 DEF PoolInv, Structure, TypeOK
    <3>. QED BY <3>1, <3>2
  <2>. QED BY <1>2, <2>1, <2>2, <2>3, <2>4, <2>5, <2>6 DEF PoolInv, Structure, TypeOK
<1>8. CrashSound'
  BY <1>2, <1>3, <1>6 DEF Running, CrashSound
<1>9. \A w \in Workers : wpc'[w] \in {"start", "run", "delete", "release"} =>
        w \notin new /\ wpc'[w] = wpc[w] /\ wpool'[w] = wpool[w]
  BY <1>3
<1>10. Owned'
  <2>1. \A d \in Clients : cpc'[d] = "enqueue" =>
          tstate'[ctask'[d]] = "QUEUED" /\ tpool'[ctask'[d]] = cpool'[d]
    BY <1>2 DEF PoolInv, Structure, Owned
  <2>2. \A q \in Pools : NoRepeat(queue'[q])
    BY <1>2, <1>5 DEF PoolInv, Structure, Owned
  <2>3. \A q \in Pools : \A u \in Range(queue'[q]) : tstate'[u] = "QUEUED" /\ tpool'[u] = q
    <3>. TAKE q \in Pools
    <3>. TAKE u \in Range(queue'[q])
    <3>1. CASE q = p /\ u = t
      BY <1>2, <1>4, <3>1
    <3>2. CASE q # p \/ u # t
      <4>1. u \in Range(queue[q])
        BY <1>2, <1>5, <3>2
      <4>. QED BY <1>2, <4>1 DEF PoolInv, Structure, Owned
    <3>. QED BY <3>1, <3>2
  <2>4. ASSUME NEW w \in Workers
        PROVE  /\ wpc'[w] = "start" => tstate'[wtask'[w]] = "QUEUED"
               /\ wpc'[w] = "run" => tstate'[wtask'[w]] = "RUNNING"
               /\ wpc'[w] = "delete" => tstate'[wtask'[w]] = "FINISHED" /\ detached'[wtask'[w]]
               /\ wpc'[w] \in {"start", "run", "delete"} => tpool'[wtask'[w]] = wpool'[w]
    BY <1>2, <1>9 DEF PoolInv, Structure, Owned
  <2>5. \A u \in Tasks : tstate'[u] \in InPool => tpool'[u] \in Pools
    BY <1>2 DEF PoolInv, Structure, Owned
  <2>. QED BY <2>1, <2>2, <2>3, <2>4, <2>5 DEF Owned
<1>11. OwnedOnce'
  <2>1. \A q \in Pools : Range(queue'[q]) \subseteq Range(queue[q]) \cup {t}
    BY <1>2, <1>5
  <2>2. \A d \in Clients : cpc'[d] = "enqueue" =>
          cpc[d] = "enqueue" /\ ctask'[d] = ctask[d] /\ ctask[d] # t
    BY <1>2, <1>4
  <2>3. \A d, e \in Clients :
         cpc'[d] = "enqueue" /\ cpc'[e] = "enqueue" /\ ctask'[d] = ctask'[e] => d = e
    BY <2>2 DEF PoolInv, Structure, OwnedOnce
  <2>4. \A v, w \in Workers : wtask'[v] # NULL /\ wtask'[v] = wtask'[w] => v = w
    BY <1>2 DEF PoolInv, Structure, OwnedOnce
  <2>5. ASSUME NEW d \in Clients, cpc'[d] = "enqueue"
        PROVE  /\ \A q \in Pools : ctask'[d] \notin Range(queue'[q])
               /\ \A w \in Workers : wtask'[w] # ctask'[d]
    <3>1. cpc[d] = "enqueue" /\ ctask'[d] = ctask[d] /\ ctask[d] # t
      BY <2>2, <2>5
    <3>2. /\ \A q \in Pools : ctask[d] \notin Range(queue[q])
          /\ \A w \in Workers : wtask[w] # ctask[d]
      BY <3>1 DEF PoolInv, Structure, OwnedOnce
    <3>. QED BY <1>2, <2>1, <3>1, <3>2
  <2>6. \A w \in Workers, q \in Pools : wtask[w] \notin Range(queue[q])
    BY DEF PoolInv, Structure, OwnedOnce
  <2>7. \A w \in Workers, q \in Pools : wtask'[w] \notin Range(queue'[q])
    BY <1>2, <1>4, <2>1, <2>6
  <2>. QED BY <2>3, <2>4, <2>5, <2>7 DEF OwnedOnce
<1>12. Users'
  <2>1. ASSUME NEW d \in Clients, d # c, cpc[d] = "dispose"
        PROVE  /\ tstate'[ctask'[d]] = "FINISHED"
               /\ \A e \in Clients : e # d => ctask'[e] # ctask'[d]
    <3>1. /\ tstate[ctask[d]] = "FINISHED" /\ ctask[d] \in Tasks
          /\ \A e \in Clients : e # d => ctask[e] # ctask[d]
      BY <2>1 DEF PoolInv, Structure, Users, TypeOK
    <3>. QED BY <1>2, <2>1, <3>1, ThreadPoolAssumption
  <2>. QED BY <1>2, <2>1 DEF PoolInv, Structure, Users, Joining
<1>13. NoMissedSignal'
  <2>1. ASSUME NEW w \in Workers, wpc'[w] = "wait"
        PROVE  queue'[wpool'[w]] = <<>> /\ ~stopping'[wpool'[w]]
    <3>1. w \notin new /\ wpc[w] = "wait" /\ wpool[w] # p /\ wpool'[w] = wpool[w]
      BY <1>3, <2>1
    <3>2. wpool[w] \in Pools
      BY <3>1 DEF PoolInv, Structure, TypeOK
    <3>. QED BY <1>2, <3>1, <3>2 DEF PoolInv, Structure, NoMissedSignal
  <2>. QED BY <1>2, <2>1 DEF PoolInv, Structure, NoMissedSignal
<1>14. ASSUME ~rejoined' PROVE StillOwned' /\ Refs' /\ DeleteSafe'
  <2>1. StillOwned'
    <3>1. \A q \in Pools : Range(queue[q]) \subseteq Range(queue'[q])
      BY <1>2, <1>5
    <3>2. t \in Range(queue'[p])
      BY <1>5
    <3>3. \A d \in Clients : cpc[d] = "enqueue" =>
            ctask[d] = t \/ (cpc'[d] = "enqueue" /\ ctask'[d] = ctask[d])
      BY <1>0, <1>2
    <3>4. ASSUME NEW u \in Tasks, tstate[u] \in {"QUEUED", "RUNNING"}
          PROVE  \/ \E d \in Clients : cpc'[d] = "enqueue" /\ ctask'[d] = u
                 \/ \E q \in Pools : u \in Range(queue'[q])
                 \/ \E v \in Workers : wtask'[v] = u
      <4>1. \/ \E d \in Clients : cpc[d] = "enqueue" /\ ctask[d] = u
            \/ \E q \in Pools : u \in Range(queue[q])
            \/ \E v \in Workers : wtask[v] = u
        BY <1>2, <1>14, <3>4 DEF PoolInv, Structure, StillOwned
      <4>2. CASE \E d \in Clients : cpc[d] = "enqueue" /\ ctask[d] = u
        BY <3>2, <3>3, <4>2
      <4>3. CASE \E q \in Pools : u \in Range(queue[q])
        BY <3>1, <4>3
      <4>. QED BY <1>2, <4>1, <4>2, <4>3
    <3>. QED BY <1>2, <3>4 DEF StillOwned
  <2>2. p \in alive
    BY <1>0, <1>2, <1>14, ThreadPoolAssumption DEF PoolInv, Structure, Refs
  <2>3. /\ \A w \in Workers : wpc'[w] # "none" => wpool'[w] \in alive'
        /\ \A w \in Workers : wpc'[w] = "none" => wpool'[w] = NULL
    BY <1>2, <1>3, <1>14, <2>2 DEF PoolInv, Structure, Refs
  <2>4. ASSUME NEW w \in Workers, NEW q \in Pools PROVE w \in threads'[q] <=> wpool'[w] = q
    <3>1. CASE w \in new
      <4>1. wpool[w] = NULL /\ wpool'[w] = p /\ (w \in threads[q] <=> wpool[w] = q)
        BY <1>2, <1>3, <1>14, <3>1 DEF PoolInv, Structure, Refs
      <4>. QED BY <1>3, <3>1, <4>1, ThreadPoolAssumption
    <3>2. CASE w \notin new
      <4>1. wpool'[w] = wpool[w] /\ (w \in threads[q] <=> wpool[w] = q)
        BY <1>2, <1>3, <1>14, <3>2 DEF PoolInv, Structure, Refs
      <4>. QED BY <1>3, <3>2, <4>1
    <3>. QED BY <3>1, <3>2
  <2>5. /\ \A d \in Clients : cpool'[d] # NULL => cpool'[d] \in alive'
        /\ \A u \in Tasks : tstate'[u] \in InPool => tpool'[u] \in alive'
    BY <1>2, <1>14 DEF PoolInv, Structure, Refs
  <2>6. Refs'
    BY <2>3, <2>4, <2>5 DEF Refs
  <2>7. ASSUME NEW d \in Clients, cpc'[d] \in Deleting
        PROVE  /\ \A u \in Tasks : tpool'[u] = cpool'[d] => tstate'[u] \notin InPool
               /\ \A e \in Clients : e # d => cpool'[e] # cpool'[d]
    <3>1. d # c /\ cpc[d] \in Deleting /\ cpool'[d] = cpool[d]
      BY <1>2, <2>7 DEF Deleting
    <3>2. /\ \A u \in Tasks : tpool[u] = cpool[d] => tstate[u] \notin InPool
          /\ \A e \in Clients : e # d => cpool[e] # cpool[d]
          /\ cpool[d] # NULL
      BY <1>2, <1>14, <3>1, ThreadPoolAssumption DEF PoolInv, Structure, DeleteSafe, TypeOK
    <3>. QED BY <1>2, <3>1, <3>2
  <2>. QED BY <2>1, <2>6, <2>7 DEF DeleteSafe
<1>15. ASSUME ~rejoined', NEW q \in alive' PROVE CountRight(q)'
  <2>1. CountRight(q) /\ count'[q] = count[q]
    BY <1>2, <1>15 DEF PoolInv
  <2>2. TasksIn(q)' = TasksIn(q)
    BY <1>2 DEF TasksIn
  <2>3. Reservations(q)' = Reservations(q)
    BY <1>2 DEF Reservations
  <2>4. Releases(q)' = Releases(q)
    <3>1. \A w \in Workers : wpc[w] = "release" => w \notin new /\ wpc'[w] = "release" /\ wpool'[w] = wpool[w]
      BY <1>3
    <3>. QED BY <1>9, <3>1 DEF Releases
  <2>. QED BY <2>1, <2>2, <2>3, <2>4, CountKept
<1>. QED BY <1>7, <1>8, <1>10, <1>11, <1>12, <1>13, <1>14, <1>15 DEF PoolInv, Structure

-----------------------------------------------------------------------------
(* Tasks outside the pools: nobody refers to one that is not allocated, and*)
(* only its users to one that is.                                          *)
LEMMA TaskNewInv ==
    ASSUME PoolInv, ~rejoined, NEW c \in Clients, NEW t \in Tasks, TaskNew(c, t) \/ TaskDelete(c, t)
    PROVE  PoolInv'
<1>1. /\ tstate'[t] \in {"NEW", "NONE"} /\ tpool'[t] = NULL /\ detached'[t] = FALSE
      /\ \A u \in Tasks \ {t} : tstate'[u] = tstate[u] /\ tpool'[u] = tpool[u]
                                   /\ detached'[u] = detached[u]
      /\ UNCHANGED <<alive, queue, count, stopping, threads, wpc, wpool, wtask,
                     cpc, cpool, ctask, expected, rejoined>>
      /\ tstate[t] \notin InPool
      /\ Running
  BY DEF TaskNew, TaskDelete, Exclusive, MayUse, InPool, PoolInv, Structure, TypeOK, poolVars, workerVars, clientVars, CrashSound, Running
<1>2. \A d \in Clients : ctask[d] # t
  <2>1. CASE tstate[t] = "NONE"
    BY <2>1, ThreadPoolAssumption DEF PoolInv, Structure, Users
  <2>2. CASE TaskDelete(c, t)
    <3>1. \A d \in Clients : cpc[d] = "idle" \/ ctask[d] # t
      BY <2>2 DEF TaskDelete, Exclusive
    <3>2. \A d \in Clients : cpc[d] = "idle" => ctask[d] # t
      BY ThreadPoolAssumption DEF PoolInv, Structure, Users
    <3>. QED BY <3>1, <3>2
  <2>. QED BY <2>1, <2>2 DEF TaskNew
<1>3. /\ \A q \in Pools : t \notin Range(queue[q])
      /\ \A w \in Workers : wtask[w] # t
  <2>1. \A q \in Pools : t \notin Range(queue[q])
    BY <1>1 DEF PoolInv, Structure, Owned, InPool
  <2>2. \A w \in Workers : wtask[w] = t => wpc[w] \in {"start", "run", "delete"}
    BY <1>1, HasTask DEF PoolInv
  <2>3. \A w \in Workers : wpc[w] \in {"start", "run", "delete"} => tstate[wtask[w]] \in InPool
    BY DEF PoolInv, Structure, Owned, InPool
  <2>. QED BY <1>1, <2>1, <2>2, <2>3
<1>4. TypeOK'
  <2>1. /\ tstate' \in [Tasks -> InPool \cup {"NONE", "NEW", "JOINED"}]
        /\ tpool' \in [Tasks -> Pools \cup {NULL}]
        /\ detached' \in [Tasks -> BOOLEAN]
    BY DEF TaskNew, TaskDelete, PoolInv, Structure, TypeOK, InPool
  <2>. QED BY <1>1, <2>1 DEF PoolInv, Structure, TypeOK
<1>5. CrashSound'
  BY <1>1 DEF Running, CrashSound
<1>6. Owned'
  <2>1. \A q \in Pools : Range(queue[q]) \subseteq Tasks \ {t}
    BY <1>3, QueueElements DEF PoolInv, Structure, TypeOK
  <2>2. \A d \in Clients : cpc[d] = "enqueue" => ctask[d] \in Tasks \ {t}
    BY <1>2 DEF PoolInv, Structure, TypeOK, Pushing
  <2>3. \A v \in Workers : wpc[v] \in {"start", "run", "delete"} => wtask[v] \in Tasks \ {t}
    BY <1>3 DEF PoolInv, Structure, TypeOK
  <2>. QED BY <1>1, <2>1, <2>2, <2>3 DEF PoolInv, Structure, Owned, InPool
<1>7. OwnedOnce'
  BY <1>1 DEF PoolInv, Structure, OwnedOnce
<1>8. Users'
  <2>1. \A d \in Clients : ctask[d] \in (Tasks \ {t}) \cup {NULL}
    BY <1>2 DEF PoolInv, Structure, TypeOK
  <2>2. \A d \in Clients : cpc[d] \in Joining \cup {"dispose"} => ctask[d] \in Tasks \ {t}
    BY <1>2 DEF PoolInv, Structure, TypeOK, Joining
  <2>. QED BY <1>1, <2>1, <2>2 DEF PoolInv, Structure, Users
<1>9. NoMissedSignal'
  <2>1. \A d \in Clients : cpc[d] \in {"wait", "twait"} => ctask[d] \in Tasks \ {t}
    BY <1>2 DEF PoolInv, Structure, TypeOK
  <2>. QED BY <1>1, <2>1 DEF PoolInv, Structure, NoMissedSignal
<1>10. StillOwned' /\ Refs' /\ DeleteSafe'
  <2>1. StillOwned'
    BY <1>1 DEF PoolInv, Structure, StillOwned
  <2>2. Refs'
    BY <1>1 DEF PoolInv, Structure, Refs, InPool
  <2>3. DeleteSafe'
    BY <1>1 DEF PoolInv, Structure, DeleteSafe, InPool
  <2>. QED BY <2>1, <2>2, <2>3
<1>11. ASSUME NEW q \in alive' PROVE CountRight(q)'
  <2>1. CountRight(q) /\ count'[q] = count[q]
    BY <1>1 DEF PoolInv
  <2>2. Reservations(q)' = Reservations(q) /\ Releases(q)' = Releases(q)
    BY <1>1 DEF Reservations, Releases
  <2>3. TasksIn(q)' = TasksIn(q)
    BY <1>1 DEF TasksIn, InPool
  <2>. QED BY <2>1, <2>2, <2>3, CountKept
<1>. QED BY <1>4, <1>5, <1>6, <1>7, <1>8, <1>9, <1>10, <1>11 DEF PoolInv, Structure

(* A finished task leaves its pool, by any of the four ways there are: a   *)
(* join that decrements the count later, a timed join, one that gets there *)
(* after a wait, and the deletion of a detached task.                      *)
TakenOut(c, t, p, at, s) ==
    /\ cpc[c] \in {"idle", "join", "tjoin", "dispose"} /\ at \in {"idle", "leave"}
    /\ tstate[t] = "FINISHED" /\ ~detached[t] /\ tpool[t] = p
    /\ \A d \in Clients \ {c} : cpc[d] = "dispose" => ctask[d] # t
    /\ s \in {"JOINED", "NONE"}
    /\ s = "NONE" => \A d \in Clients \ {c} : ctask[d] # t
    /\ cpc' = [cpc EXCEPT ![c] = at]
    /\ cpool' = [cpool EXCEPT ![c] = IF at = "leave" THEN p ELSE NULL]
    /\ ctask' = [ctask EXCEPT ![c] = NULL]
    /\ tstate' = [tstate EXCEPT ![t] = s]
    /\ tpool' = tpool \/ tpool' = [tpool EXCEPT ![t] = NULL]
    /\ count' = IF at = "leave" THEN count ELSE [count EXCEPT ![p] = @ - 1]
    /\ UNCHANGED <<alive, queue, stopping, threads, detached, workerVars, expected, rejoined>>

LEMMA TakenOutInv ==
    ASSUME PoolInv, NEW c \in Clients, NEW t \in Tasks, NEW p \in Pools, NEW at, NEW s,
           TakenOut(c, t, p, at, s)
    PROVE  PoolInv'
<1>0. at \in {"idle", "leave"} /\ s \in {"JOINED", "NONE"}
  BY DEF TakenOut
<1>1. /\ cpc[c] \in {"idle", "join", "tjoin", "dispose"}
      /\ cpc'[c] = at /\ cpool'[c] = (IF at = "leave" THEN p ELSE NULL) /\ ctask'[c] = NULL
      /\ \A d \in Clients \ {c} :
           cpc'[d] = cpc[d] /\ cpool'[d] = cpool[d] /\ ctask'[d] = ctask[d]
      /\ tstate'[t] = s /\ \A u \in Tasks \ {t} : tstate'[u] = tstate[u] /\ tpool'[u] = tpool[u]
      /\ UNCHANGED <<alive, queue, stopping, threads, detached,
                     wpc, wpool, wtask, expected, rejoined>>
      /\ Running
  BY DEF TakenOut, PoolInv, Structure, TypeOK, workerVars, CrashSound, Running
<1>2. tstate[t] = "FINISHED" /\ ~detached[t] /\ tpool[t] = p
  BY DEF TakenOut
<1>3. /\ \A q \in Pools : t \notin Range(queue[q])
      /\ \A d \in Clients : cpc[d] = "enqueue" => ctask[d] # t
      /\ \A d \in Clients : cpc[d] \in {"wait", "twait"} => ctask[d] # t
      /\ \A w \in Workers : wtask[w] # t
  <2>1. /\ \A q \in Pools : t \notin Range(queue[q])
        /\ \A d \in Clients : cpc[d] = "enqueue" => ctask[d] # t
    BY <1>2 DEF PoolInv, Structure, Owned
  <2>2. \A d \in Clients : cpc[d] \in {"wait", "twait"} => ctask[d] # t
    BY <1>2 DEF PoolInv, Structure, NoMissedSignal
  <2>3. \A w \in Workers : wtask[w] = t => wpc[w] \in {"start", "run", "delete"}
    BY <1>1, HasTask DEF PoolInv
  <2>4. \A w \in Workers : wtask[w] = t => wpc[w] \notin {"start", "run"}
    BY <1>2 DEF PoolInv, Structure, Owned
  <2>5. \A w \in Workers : wtask[w] = t => wpc[w] # "delete"
    BY <1>2 DEF PoolInv, Structure, Owned
  <2>. QED BY <2>1, <2>2, <2>3, <2>4, <2>5
<1>4. TypeOK'
  <2>1. /\ tstate' \in [Tasks -> InPool \cup {"NONE", "NEW", "JOINED"}]
        /\ count' \in [Pools -> Int]
        /\ cpool' \in [Clients -> Pools \cup {NULL}]
        /\ ctask' \in [Clients -> Tasks \cup {NULL}]
    BY <1>0 DEF TakenOut, PoolInv, Structure, TypeOK
  <2>4. tpool' \in [Tasks -> Pools \cup {NULL}]
    BY DEF TakenOut, PoolInv, Structure, TypeOK
  <2>2. cpc' \in [Clients -> Pushing \cup Deleting \cup
                 {"idle", "join", "wait", "leave", "tjoin", "twait", "spin",
                  "dispose", "dead"}]
    BY <1>0 DEF TakenOut, PoolInv, Structure, TypeOK
  <2>3. ASSUME NEW d \in Clients
        PROVE  /\ cpc'[d] \in Pushing \cup Deleting \cup {"leave"} => cpool'[d] \in Pools
               /\ cpc'[d] \in (Pushing \ {"undo"}) \cup
                       {"join", "wait", "tjoin", "twait", "spin", "dispose"}
                    => ctask'[d] \in Tasks
    <3>1. CASE d = c
      BY <1>0, <1>1, <3>1 DEF Pushing, Deleting
    <3>2. CASE d # c
      BY <1>1, <3>2 DEF PoolInv, Structure, TypeOK
    <3>. QED BY <3>1, <3>2
  <2>. QED BY <1>1, <2>1, <2>2, <2>3, <2>4 DEF PoolInv, Structure, TypeOK
<1>5. CrashSound'
  BY <1>0, <1>1 DEF Running, CrashSound
<1>6. Owned'
  <2>1. \A q \in Pools : Range(queue[q]) \subseteq Tasks \ {t}
    BY <1>3, QueueElements DEF PoolInv, Structure, TypeOK
  <2>2. \A d \in Clients : cpc'[d] = "enqueue" => d # c /\ cpc[d] = "enqueue" /\ ctask[d] \in Tasks \ {t}
    BY <1>0, <1>1, <1>3 DEF PoolInv, Structure, TypeOK, Pushing
  <2>3. \A v \in Workers : wpc[v] \in {"start", "run", "delete"} => wtask[v] \in Tasks \ {t}
    BY <1>3 DEF PoolInv, Structure, TypeOK
  <2>. QED BY <1>0, <1>1, <2>1, <2>2, <2>3 DEF PoolInv, Structure, Owned, InPool
<1>7. OwnedOnce'
  <2>1. \A d \in Clients : cpc'[d] = "enqueue" => cpc[d] = "enqueue" /\ ctask'[d] = ctask[d]
    BY <1>0, <1>1
  <2>. QED BY <1>1, <2>1 DEF PoolInv, Structure, OwnedOnce
<1>8. Users'
  <2>1. ASSUME NEW d \in Clients, ctask'[d] # NULL
        PROVE  /\ cpc'[d] \notin Deleting \cup {"idle", "undo", "leave"}
               /\ tstate'[ctask'[d]] # "NONE" /\ ~detached'[ctask'[d]]
    <3>1. d # c /\ ctask'[d] = ctask[d] /\ cpc'[d] = cpc[d]
      BY <1>1, <2>1
    <3>2. /\ cpc[d] \notin Deleting \cup {"idle", "undo", "leave"}
          /\ tstate[ctask[d]] # "NONE" /\ ~detached[ctask[d]] /\ ctask[d] \in Tasks
      BY <2>1, <3>1 DEF PoolInv, Structure, Users, TypeOK
    <3>3. ctask[d] = t => s = "JOINED"
      BY <3>1 DEF TakenOut
    <3>. QED BY <1>1, <3>1, <3>2, <3>3
  <2>2. ASSUME NEW d \in Clients
        PROVE  cpool'[d] # NULL => cpc'[d] \in Pushing \cup Deleting \cup {"leave", "dead"}
    BY <1>0, <1>1 DEF PoolInv, Structure, Users
  <2>3. ASSUME NEW d \in Clients, cpc'[d] \in Joining PROVE tstate'[ctask'[d]] # "NEW"
    <3>1. d # c /\ cpc[d] \in Joining /\ ctask'[d] = ctask[d]
      BY <1>0, <1>1, <2>3 DEF Joining
    <3>2. ctask[d] \in Tasks /\ tstate[ctask[d]] # "NEW"
      BY <3>1 DEF PoolInv, Structure, Users, TypeOK, Joining
    <3>. QED BY <1>0, <1>1, <3>1, <3>2
  <2>4. ASSUME NEW d \in Clients, cpc'[d] = "dispose"
        PROVE  /\ tstate'[ctask'[d]] = "FINISHED"
               /\ \A e \in Clients : e # d => ctask'[e] # ctask'[d]
    <3>1. d # c /\ cpc[d] = "dispose" /\ ctask'[d] = ctask[d]
      BY <1>0, <1>1, <2>4
    <3>2. ctask[d] \in Tasks /\ ctask[d] # t
      BY <3>1 DEF TakenOut, PoolInv, Structure, TypeOK
    <3>3. tstate[ctask[d]] = "FINISHED" /\ \A e \in Clients : e # d => ctask[e] # ctask[d]
      BY <3>1 DEF PoolInv, Structure, Users
    <3>. QED BY <1>1, <3>1, <3>2, <3>3, ThreadPoolAssumption
  <2>. QED BY <2>1, <2>2, <2>3, <2>4 DEF Users
<1>9. NoMissedSignal'
  <2>1. \A d \in Clients : cpc'[d] \in {"wait", "twait"} =>
          cpc[d] \in {"wait", "twait"} /\ ctask'[d] = ctask[d] /\ ctask[d] \in Tasks \ {t}
    BY <1>0, <1>1, <1>3 DEF PoolInv, Structure, TypeOK
  <2>. QED BY <1>1, <2>1 DEF PoolInv, Structure, NoMissedSignal
<1>10. ASSUME ~rejoined' PROVE StillOwned' /\ Refs' /\ DeleteSafe'
  <2>1. StillOwned'
    <3>1. \A d \in Clients : cpc[d] = "enqueue" => cpc'[d] = "enqueue" /\ ctask'[d] = ctask[d]
      BY <1>1
    <3>2. \A u \in Tasks : tstate'[u] \in {"QUEUED", "RUNNING"} => tstate[u] \in {"QUEUED", "RUNNING"}
      BY <1>0, <1>1
    <3>. QED BY <1>1, <1>10, <3>1, <3>2 DEF PoolInv, Structure, StillOwned
  <2>2. p \in alive /\ \A d \in Clients : cpc[d] \in Deleting => cpool[d] # p
    BY <1>1, <1>2, <1>10 DEF PoolInv, Structure, Refs, DeleteSafe, InPool
  <2>3. Refs'
    <3>1. \A d \in Clients : cpool'[d] # NULL => cpool'[d] \in alive'
      BY <1>0, <1>1, <1>10, <2>2 DEF PoolInv, Structure, Refs
    <3>2. \A u \in Tasks : tstate'[u] \in InPool => tpool'[u] \in alive'
      BY <1>0, <1>1, <1>10 DEF PoolInv, Structure, Refs, InPool
    <3>. QED BY <1>1, <1>10, <3>1, <3>2 DEF PoolInv, Structure, Refs
  <2>4. ASSUME NEW d \in Clients, cpc'[d] \in Deleting
        PROVE  /\ \A u \in Tasks : tpool'[u] = cpool'[d] => tstate'[u] \notin InPool
               /\ \A e \in Clients : e # d => cpool'[e] # cpool'[d]
    <3>1. d # c /\ cpc[d] \in Deleting /\ cpool'[d] = cpool[d]
      BY <1>0, <1>1, <2>4 DEF Deleting
    <3>2. /\ \A u \in Tasks : tpool[u] = cpool[d] => tstate[u] \notin InPool
          /\ \A e \in Clients : e # d => cpool[e] # cpool[d]
          /\ cpool[d] # NULL
      BY <1>1, <1>10, <3>1, ThreadPoolAssumption DEF PoolInv, Structure, DeleteSafe, TypeOK
    <3>3. \A u \in Tasks : tpool'[u] = cpool'[d] => tstate'[u] \notin InPool
      BY <1>0, <1>1, <3>1, <3>2 DEF InPool
    <3>4. \A e \in Clients : e # d => cpool'[e] # cpool'[d]
      BY <1>0, <1>1, <2>2, <3>1, <3>2
    <3>. QED BY <3>3, <3>4
  <2>. QED BY <2>1, <2>3, <2>4 DEF DeleteSafe
<1>11. ASSUME ~rejoined', NEW q \in alive' PROVE CountRight(q)'
  <2>1. CountRight(q) /\ q \in Pools /\ count[q] \in Int /\ MaxTasks \in Nat
    BY <1>1, <1>11, ThreadPoolAssumption DEF PoolInv, Structure, TypeOK
  <2>2. Releases(q)' = Releases(q)
    BY <1>1 DEF Releases
  <2>3. c \notin Reservations(q)
    BY <1>1 DEF Reservations
  <2>4. CASE q # p
    <3>1. TasksIn(q)' = TasksIn(q)
      BY <1>0, <1>1, <1>2, <2>4 DEF TasksIn, InPool
    <3>2. Reservations(q)' = Reservations(q)
      BY <1>0, <1>1, <2>1, <2>4, ThreadPoolAssumption DEF Reservations
    <3>3. count'[q] = count[q]
      BY <2>1, <2>4 DEF TakenOut, PoolInv, Structure, TypeOK
    <3>. QED BY <2>1, <2>2, <3>1, <3>2, <3>3, CountKept
  <2>5. CASE q = p
    <3>1. TasksIn(q)' = TasksIn(q) \ {t} /\ t \in TasksIn(q)
      BY <1>0, <1>1, <1>2, <2>5 DEF TasksIn, InPool
    <3>2. TasksIn(q) \in SUBSET Tasks /\ Reservations(q) \in SUBSET Clients /\ Releases(q) \in SUBSET Workers
      BY DEF TasksIn, Reservations, Releases
    <3>3. Cardinality(TasksIn(q)') = Cardinality(TasksIn(q)) - 1
      BY <3>1, <3>2, CountsFinite, OneLess
    <3>4. /\ Cardinality(TasksIn(q)) \in Nat /\ Cardinality(Reservations(q)) \in Nat
          /\ Cardinality(Releases(q)) \in Nat
      BY <3>2, CountsFinite
    <3>5. CASE at = "leave"
      <4>1. Reservations(q)' = Reservations(q) \cup {c}
        BY <1>1, <2>5, <3>5 DEF Reservations
      <4>2. Cardinality(Reservations(q)') = Cardinality(Reservations(q)) + 1
        BY <2>3, <3>2, <4>1, CountsFinite, OneMore
      <4>3. count'[q] = count[q]
        BY <3>5 DEF TakenOut
      <4>. QED BY <2>1, <2>2, <3>3, <3>4, <4>2, <4>3 DEF CountRight
    <3>6. CASE at = "idle"
      <4>1. Reservations(q)' = Reservations(q)
        BY <1>1, <3>6 DEF Reservations
      <4>2. count'[q] = count[q] - 1
        BY <2>1, <2>5, <3>6 DEF TakenOut, PoolInv, Structure, TypeOK
      <4>. QED BY <2>1, <2>2, <3>3, <3>4, <4>1, <4>2 DEF CountRight
    <3>. QED BY <1>0, <3>5, <3>6
  <2>. QED BY <2>4, <2>5
<1>. QED BY <1>4, <1>5, <1>6, <1>7, <1>8, <1>9, <1>10, <1>11 DEF PoolInv, Structure

(* A client that may use a task, whether it enters a join or is inside one.*)
UsesTask(c, t) ==
    /\ cpc[c] \in {"idle"} \cup Joining
    /\ tstate[t] \notin {"NONE", "NEW"} /\ ~detached[t]
    /\ \A d \in Clients \ {c} : cpc[d] = "dispose" => ctask[d] # t

LEMMA JoiningUses ==
    ASSUME PoolInv, NEW c \in Clients, NEW t \in Tasks,
           \/ cpc[c] = "idle" /\ MayUse(t) /\ tstate[t] # "NEW"
           \/ cpc[c] \in Joining /\ ctask[c] = t
    PROVE  UsesTask(c, t)
<1>1. CASE cpc[c] = "idle" /\ MayUse(t) /\ tstate[t] # "NEW"
  BY <1>1 DEF UsesTask, MayUse
<1>2. CASE cpc[c] \in Joining /\ ctask[c] = t
  <2>1. tstate[t] # "NONE" /\ ~detached[t] /\ tstate[t] # "NEW"
    BY <1>2, ThreadPoolAssumption DEF PoolInv, Structure, Users
  <2>2. \A d \in Clients \ {c} : cpc[d] = "dispose" => ctask[d] # t
    BY <1>2 DEF PoolInv, Structure, Users
  <2>. QED BY <1>2, <2>1, <2>2 DEF UsesTask
<1>. QED BY <1>1, <1>2

LEMMA JoiningFits ==
    ASSUME NEW c \in Clients, NEW t \in Tasks, UsesTask(c, t), NEW at \in Joining,
           at \in {"wait", "twait"} => tstate[t] \in {"QUEUED", "RUNNING"}
    PROVE  Fits(c, at, NULL, t)
  BY ThreadPoolAssumption DEF UsesTask, Fits, Joining, Pushing, Deleting

(* The critical section of thread_task_join.                               *)
LEMMA JoinBodyInv ==
    ASSUME PoolInv, NEW c \in Clients, NEW t \in Tasks, UsesTask(c, t),
           cpc[c] \in {"idle", "join"}, JoinBody(c, t)
    PROVE  PoolInv'
<1>1. tstate[t] \in {"QUEUED", "RUNNING", "FINISHED", "JOINED"}
  BY DEF UsesTask, PoolInv, Structure, TypeOK, InPool
<1>2. expected' \in [Clients -> Int]
  BY DEF JoinBody, PoolInv, Structure, TypeOK
<1>3. CASE tstate[t] \notin {"FINISHED", "JOINED"}
  <2>1. Fits(c, "wait", NULL, t)
    BY <1>1, <1>3, JoiningFits DEF Joining
  <2>2. Call(c, "wait", NULL, t) /\ UNCHANGED <<poolVars, taskVars, workerVars, rejoined>>
    BY <1>3 DEF JoinBody, taskVars
  <2>. QED BY <1>2, <2>1, <2>2, QuietMoveInv DEF Reserved, Joining
<1>4. CASE tstate[t] = "JOINED"
  <2>1. Return(c) /\ UNCHANGED <<poolVars, taskVars, workerVars, rejoined>>
    BY <1>4 DEF JoinBody, taskVars
  <2>. QED BY <1>2, <2>1, IdleFits, QuietMoveInv DEF Return, Reserved
<1>5. CASE tstate[t] = "FINISHED"
  <2>1. PICK p \in Pools : tpool[t] = p
    BY <1>5 DEF PoolInv, Structure, Owned, InPool
  <2>2. /\ ~detached[t] /\ cpc[c] \in {"idle", "join", "tjoin", "dispose"}
        /\ \A d \in Clients \ {c} : cpc[d] = "dispose" => ctask[d] # t
    BY DEF UsesTask
  <2>3. /\ tstate' = [tstate EXCEPT ![t] = "JOINED"]
        /\ tpool' = [tpool EXCEPT ![t] = NULL]
        /\ cpc' = [cpc EXCEPT ![c] = "leave"] /\ cpool' = [cpool EXCEPT ![c] = p]
        /\ ctask' = [ctask EXCEPT ![c] = NULL]
        /\ UNCHANGED <<poolVars, detached, workerVars, expected, rejoined>>
    BY <1>5, <2>1 DEF JoinBody, Call
  <2>4. TakenOut(c, t, p, "leave", "JOINED")
    BY <1>5, <2>1, <2>2, <2>3 DEF TakenOut, poolVars
  <2>. QED BY <2>4, TakenOutInv
<1>. QED BY <1>1, <1>3, <1>4, <1>5

LEMMA JoinInv ==
    ASSUME PoolInv, NEW c \in Clients,
           JoinTest(c) \/ (~rejoined /\ \E t \in Tasks : Join(c, t))
    PROVE  PoolInv'
<1>1. CASE JoinTest(c)
  <2>1. PICK t \in Tasks : ctask[c] = t
    BY <1>1 DEF JoinTest, PoolInv, Structure, TypeOK
  <2>2. cpc[c] = "join" /\ JoinBody(c, t)
    BY <1>1, <2>1 DEF JoinTest, JoinBody, Locked
  <2>3. UsesTask(c, t)
    BY <2>1, <2>2, JoiningUses DEF Joining
  <2>. QED BY <2>2, <2>3, JoinBodyInv
<1>2. ASSUME NEW t \in Tasks, Join(c, t) PROVE PoolInv'
  <2>1. cpc[c] = "idle" /\ MayUse(t) /\ tstate[t] # "NEW" /\ JoinBody(c, t)
    BY <1>2 DEF Join
  <2>. QED BY <2>1, JoiningUses, JoinBodyInv
<1>. QED BY <1>1, <1>2

(* Waking up, in time or too late.                                         *)
LEMMA JoinWakeInv ==
    ASSUME PoolInv, NEW c \in Clients, JoinSpurious(c) \/ TimedJoinTimeout(c)
    PROVE  PoolInv'
<1>0. PICK t \in Tasks : ctask[c] = t
  BY DEF JoinSpurious, TimedJoinTimeout, PoolInv, Structure, TypeOK
<1>1. /\ UNCHANGED <<poolVars, taskVars, workerVars, rejoined>>
      /\ expected' \in [Clients -> Int]
  BY DEF JoinSpurious, TimedJoinTimeout, PoolInv, Structure, TypeOK
<1>2. CASE TimedJoinTimeout(c)
  <2>1. cpc[c] \in {"tjoin", "twait"} /\ Return(c)
    BY <1>2 DEF TimedJoinTimeout
  <2>. QED BY <1>1, <2>1, IdleFits, QuietMoveInv DEF Return, Reserved
<1>3. CASE JoinSpurious(c)
  <2>1. UsesTask(c, t)
    BY <1>0, <1>3, JoiningUses DEF JoinSpurious, Joining
  <2>2. cpool[c] = NULL
    BY <1>3 DEF JoinSpurious, PoolInv, Structure, Users, Pushing, Deleting
  <2>3. PICK at \in {"join", "tjoin"} : cpc' = [cpc EXCEPT ![c] = at]
    BY <1>3 DEF JoinSpurious
  <2>4. Call(c, at, NULL, t)
    BY <1>0, <1>3, <2>2, <2>3 DEF Call, JoinSpurious, PoolInv, Structure, TypeOK
  <2>5. Fits(c, at, NULL, t)
    BY <2>1, JoiningFits DEF Joining
  <2>6. cpc[c] \in {"wait", "twait"}
    BY <1>3 DEF JoinSpurious
  <2>. QED BY <1>1, <2>4, <2>5, <2>6, QuietMoveInv DEF Joining, Reserved
<1>. QED BY <1>2, <1>3

(* The loop of thread_task_timed_join.                                     *)
LEMMA TimedJoinTestInv ==
    ASSUME PoolInv, NEW c \in Clients, TimedJoinTest(c)
    PROVE  PoolInv'
<1>0. PICK t \in Tasks : ctask[c] = t
  BY DEF TimedJoinTest, PoolInv, Structure, TypeOK
<1>1. /\ cpc[c] = "tjoin" /\ expected' \in [Clients -> Int] /\ UsesTask(c, t)
      /\ UNCHANGED <<alive, queue, stopping, threads, tpool, detached, expected, rejoined>>
  BY <1>0, JoiningUses DEF TimedJoinTest, PoolInv, Structure, TypeOK, Joining
<1>2. tstate[t] \in {"QUEUED", "RUNNING", "FINISHED", "JOINED"}
  BY <1>1 DEF UsesTask, PoolInv, Structure, TypeOK, InPool
<1>3. CASE tstate[t] \notin {"FINISHED", "JOINED"}
  <2>1. Fits(c, "twait", NULL, t)
    BY <1>1, <1>2, <1>3, JoiningFits DEF Joining
  <2>2. Call(c, "twait", NULL, t) /\ UNCHANGED <<poolVars, taskVars, workerVars, rejoined>>
    BY <1>0, <1>3 DEF TimedJoinTest, taskVars, poolVars
  <2>. QED BY <1>1, <2>1, <2>2, QuietMoveInv DEF Reserved, Joining
<1>4. CASE tstate[t] = "JOINED"
  <2>1. Return(c) /\ UNCHANGED <<poolVars, taskVars, workerVars, rejoined>>
    BY <1>0, <1>4 DEF TimedJoinTest, taskVars, poolVars
  <2>. QED BY <1>1, <2>1, IdleFits, QuietMoveInv DEF Return, Reserved
<1>5. CASE tstate[t] = "FINISHED"
  <2>1. PICK p \in Pools : tpool[t] = p
    BY <1>5 DEF PoolInv, Structure, Owned, InPool
  <2>2. Return(c) /\ TimedTake(t)
    BY <1>0, <1>5 DEF TimedJoinTest, TimedTake
  <2>3. /\ ~detached[t] /\ cpc[c] \in {"idle", "join", "tjoin", "dispose"}
        /\ \A d \in Clients \ {c} : cpc[d] = "dispose" => ctask[d] # t
    BY <1>1 DEF UsesTask
  <2>4. /\ tstate' = [tstate EXCEPT ![t] = "JOINED"] /\ tpool' = tpool
        /\ count' = [count EXCEPT ![p] = @ - 1]
        /\ cpc' = [cpc EXCEPT ![c] = "idle"] /\ cpool' = [cpool EXCEPT ![c] = NULL]
        /\ ctask' = [ctask EXCEPT ![c] = NULL]
        /\ UNCHANGED <<alive, queue, stopping, threads, detached, workerVars, expected, rejoined>>
    BY <1>1, <2>1, <2>2 DEF Return, Call, TimedTake
  <2>5. TakenOut(c, t, p, "idle", "JOINED")
    BY <1>5, <2>1, <2>3, <2>4 DEF TakenOut
  <2>. QED BY <2>5, TakenOutInv
<1>. QED BY <1>2, <1>3, <1>4, <1>5

(* Its entry.  A task that was joined already is where a null task->pool   *)
(* is followed or the count goes wrong.                                    *)
LEMMA TimedJoinInv ==
    ASSUME PoolInv, ~rejoined, NEW c \in Clients, NEW t \in Tasks, NEW timeout,
           TimedJoin(c, t, timeout)
    PROVE  PoolInv'
<1>1. /\ cpc[c] = "idle" /\ UsesTask(c, t)
      /\ UNCHANGED <<alive, queue, stopping, threads, tpool, detached, expected>>
      /\ rejoined' = (rejoined \/ tstate[t] = "JOINED")
  BY JoiningUses DEF TimedJoin
<1>2. tstate[t] \in {"QUEUED", "RUNNING", "FINISHED", "JOINED"}
  BY <1>1 DEF UsesTask, PoolInv, Structure, TypeOK, InPool
<1>3. CASE tstate[t] \notin {"FINISHED", "JOINED"}
  <2>1. PICK at \in {"twait", "spin"} : Call(c, at, NULL, t)
    BY <1>3 DEF TimedJoin
  <2>2. UNCHANGED <<poolVars, taskVars, workerVars>>
    BY <1>1, <1>3 DEF TimedJoin, poolVars, taskVars
  <2>3. rejoined' = FALSE /\ rejoined = FALSE
    BY <1>1, <1>3 DEF PoolInv, Structure, TypeOK
  <2>4. Fits(c, at, NULL, t)
    BY <1>1, <1>2, <1>3, JoiningFits DEF Joining
  <2>5. expected' \in [Clients -> Int]
    BY <1>1 DEF PoolInv, Structure, TypeOK
  <2>. QED BY <1>1, <2>1, <2>2, <2>3, <2>4, <2>5, QuietMoveInv DEF Reserved, Joining
<1>4. CASE tstate[t] = "FINISHED"
  <2>1. PICK p \in Pools : tpool[t] = p
    BY <1>4 DEF PoolInv, Structure, Owned, InPool
  <2>2. p # NULL
    BY ThreadPoolAssumption
  <2>3. TimedTake(t) /\ UNCHANGED <<cpc, cpool, ctask>>
    BY <1>4, <2>1, <2>2 DEF TimedJoin, TimedTake, Crash
  <2>4. cpool[c] = NULL /\ ctask[c] = NULL
    BY <1>1 DEF PoolInv, Structure, Users, Pushing, Deleting
  <2>5. /\ cpc' = [cpc EXCEPT ![c] = "idle"] /\ cpool' = [cpool EXCEPT ![c] = NULL]
        /\ ctask' = [ctask EXCEPT ![c] = NULL]
    BY <1>1, <2>3, <2>4 DEF PoolInv, Structure, TypeOK
  <2>6. rejoined' = rejoined
    BY <1>1, <1>4 DEF PoolInv, Structure, TypeOK
  <2>7. /\ ~detached[t] /\ cpc[c] \in {"idle", "join", "tjoin", "dispose"}
        /\ \A d \in Clients \ {c} : cpc[d] = "dispose" => ctask[d] # t
    BY <1>1 DEF UsesTask
  <2>8. /\ tstate' = [tstate EXCEPT ![t] = "JOINED"] /\ tpool' = tpool
        /\ count' = [count EXCEPT ![p] = @ - 1]
        /\ UNCHANGED <<alive, queue, stopping, threads, detached, workerVars, expected, rejoined>>
    BY <1>1, <2>1, <2>3, <2>6 DEF TimedTake
  <2>9. TakenOut(c, t, p, "idle", "JOINED")
    BY <1>4, <2>1, <2>5, <2>7, <2>8 DEF TakenOut
  <2>. QED BY <2>9, TakenOutInv
<1>5. CASE tstate[t] = "JOINED"
  <2>1. rejoined'
    BY <1>1, <1>5
  <2>2. CASE tpool[t] # NULL
    <3>1. TimedTake(t) /\ UNCHANGED <<cpc, cpool, ctask>>
      BY <1>5, <2>2 DEF TimedJoin, TimedTake, Crash
    <3>2. UNCHANGED <<alive, queue, stopping, threads, tstate, tpool, detached, wpc, wpool,
                      wtask, cpc, cpool, ctask, expected>>
      BY <1>1, <1>5, <3>1 DEF TimedTake, workerVars, PoolInv, Structure, TypeOK
    <3>3. count' \in [Pools -> Int]
      BY <2>2, <3>1 DEF TimedTake, PoolInv, Structure, TypeOK
    <3>4. rejoined' \in BOOLEAN
      BY <1>1 DEF PoolInv, Structure, TypeOK
    <3>5. TypeOK'
      BY <3>2, <3>3, <3>4 DEF PoolInv, Structure, TypeOK
    <3>6. CrashSound'
      BY <1>1, <3>2 DEF PoolInv, Structure, CrashSound, Running
    <3>7. Owned' /\ OwnedOnce' /\ Users' /\ NoMissedSignal'
      BY <3>2 DEF PoolInv, Structure, Owned, OwnedOnce, Users, NoMissedSignal
    <3>. QED BY <2>1, <3>5, <3>6, <3>7 DEF PoolInv, Structure
  <2>3. CASE tpool[t] = NULL
    <3>1. Crash(t)
      BY <1>5, <2>3 DEF TimedJoin, TimedTake
    <3>2. /\ \A d \in Clients : cpc'[d] = "dead"
          /\ \A w \in Workers : wpc'[w] = "dead"
          /\ UNCHANGED <<alive, queue, count, stopping, threads, tstate, tpool, detached,
                         wpool, wtask, cpool, ctask, expected>>
      BY <1>1, <3>1 DEF Crash
    <3>3. TypeOK'
      <4>1. /\ wpc' \in [Workers -> {"none", "loop", "wait", "start", "run", "delete",
                             "release", "exit", "dead"}]
            /\ cpc' \in [Clients -> Pushing \cup Deleting \cup
                 {"idle", "join", "wait", "leave", "tjoin", "twait", "spin",
                  "dispose", "dead"}]
            /\ rejoined' \in BOOLEAN
        BY <1>1, <3>1 DEF Crash, PoolInv, Structure, TypeOK
      <4>. QED BY <3>2, <4>1 DEF PoolInv, Structure, TypeOK, Pushing, Deleting
    <3>4. CrashSound'
      BY <2>1, <3>2 DEF CrashSound
    <3>5. Owned' /\ OwnedOnce' /\ NoMissedSignal'
      BY <3>2 DEF PoolInv, Structure, Owned, OwnedOnce, NoMissedSignal
    <3>6. Users'
      BY <3>2 DEF PoolInv, Structure, Users, Joining, Deleting
    <3>. QED BY <2>1, <3>3, <3>4, <3>5, <3>6 DEF PoolInv, Structure
  <2>. QED BY <2>2, <2>3
<1>. QED BY <1>2, <1>3, <1>4, <1>5

(* Detaching: mark a task that no other client uses, or free a finished one.*)
LEMMA DetachInv ==
    ASSUME PoolInv, ~rejoined, NEW c \in Clients, NEW t \in Tasks, Detach(c, t)
    PROVE  PoolInv'
<1>1. \A d \in Clients : ctask[d] # t
  <2>1. \A d \in Clients : cpc[d] = "idle" \/ ctask[d] # t
    BY DEF Detach, Exclusive
  <2>2. \A d \in Clients : cpc[d] = "idle" => ctask[d] # t
    BY ThreadPoolAssumption DEF PoolInv, Structure, Users
  <2>. QED BY <2>1, <2>2
<1>2. cpc[c] = "idle" /\ tstate[t] # "NONE" /\ ~detached[t] /\ Running
  BY DEF Detach, Exclusive, MayUse, PoolInv, Structure, CrashSound, Running
<1>3. CASE tstate[t] = "FINISHED"
  <2>1. /\ Call(c, "dispose", NULL, t) /\ expected' \in [Clients -> Int]
        /\ UNCHANGED <<poolVars, taskVars, workerVars, rejoined>>
    BY <1>3 DEF Detach, taskVars, PoolInv, Structure, TypeOK
  <2>2. Fits(c, "dispose", NULL, t)
    BY <1>1, <1>2, <1>3, ThreadPoolAssumption DEF Fits, Pushing, Deleting, Joining
  <2>. QED BY <1>2, <2>1, <2>2, QuietMoveInv DEF Reserved
<1>4. CASE tstate[t] # "FINISHED"
  <2>1. /\ detached' = [detached EXCEPT ![t] = TRUE]
        /\ UNCHANGED <<alive, queue, count, stopping, threads, tstate, tpool, wpc, wpool, wtask,
                       cpc, cpool, ctask, expected, rejoined>>
    BY <1>4 DEF Detach, poolVars, workerVars
  <2>2. /\ detached'[t] = TRUE /\ \A u \in Tasks \ {t} : detached'[u] = detached[u]
        /\ detached' \in [Tasks -> BOOLEAN]
    BY <2>1 DEF PoolInv, Structure, TypeOK
  <2>3. TypeOK'
    BY <2>1, <2>2 DEF PoolInv, Structure, TypeOK
  <2>4. CrashSound'
    BY <1>2, <2>1 DEF CrashSound, Running
  <2>5. Owned'
    <3>1. \A w \in Workers : wpc[w] = "delete" => wtask[w] \in Tasks /\ detached[wtask[w]]
      BY DEF PoolInv, Structure, Owned, TypeOK
    <3>2. \A w \in Workers : wpc[w] = "delete" => detached'[wtask[w]]
      BY <2>2, <3>1
    <3>. QED BY <2>1, <3>2 DEF PoolInv, Structure, Owned
  <2>6. OwnedOnce' /\ NoMissedSignal'
    BY <2>1 DEF PoolInv, Structure, OwnedOnce, NoMissedSignal
  <2>7. Users'
    <3>1. \A d \in Clients : ctask[d] # NULL => ctask[d] \in Tasks \ {t}
      BY <1>1 DEF PoolInv, Structure, TypeOK
    <3>. QED BY <2>1, <2>2, <3>1 DEF PoolInv, Structure, Users
  <2>8. StillOwned' /\ Refs' /\ DeleteSafe'
    BY <2>1 DEF PoolInv, Structure, StillOwned, Refs, DeleteSafe
  <2>9. ASSUME NEW q \in alive' PROVE CountRight(q)'
    <3>1. CountRight(q) /\ count'[q] = count[q]
      BY <2>1 DEF PoolInv
    <3>2. TasksIn(q)' = TasksIn(q) /\ Reservations(q)' = Reservations(q) /\ Releases(q)' = Releases(q)
      BY <2>1 DEF TasksIn, Reservations, Releases
    <3>. QED BY <3>1, <3>2, CountKept
  <2>. QED BY <2>3, <2>4, <2>5, <2>6, <2>7, <2>8, <2>9 DEF PoolInv, Structure
<1>. QED BY <1>3, <1>4

LEMMA DetachDisposeInv ==
    ASSUME PoolInv, NEW c \in Clients, DetachDispose(c)
    PROVE  PoolInv'
<1>0. PICK t \in Tasks : ctask[c] = t
  BY DEF DetachDispose, PoolInv, Structure, TypeOK
<1>1. /\ cpc[c] = "dispose" /\ tstate[t] = "FINISHED" /\ ~detached[t]
      /\ \A d \in Clients \ {c} : ctask[d] # t
  BY <1>0, ThreadPoolAssumption DEF DetachDispose, PoolInv, Structure, Users
<1>2. PICK p \in Pools : tpool[t] = p
  BY <1>1 DEF PoolInv, Structure, Owned, InPool
<1>3. TakenOut(c, t, p, "idle", "NONE")
  BY <1>0, <1>1, <1>2 DEF DetachDispose, TakenOut, Return, Call
<1>. QED BY <1>3, TakenOutInv

-----------------------------------------------------------------------------
(* Pools.  A new one is at an address nothing refers to ...                *)
LEMMA PoolNewInv ==
    ASSUME PoolInv, ~rejoined, NEW c \in Clients, NEW p \in Pools, PoolNew(c, p)
    PROVE  PoolInv'
<1>1. /\ p \notin alive /\ alive' = alive \cup {p}
      /\ queue'[p] = <<>> /\ count'[p] = 0 /\ stopping'[p] = FALSE /\ threads'[p] = {}
      /\ \A q \in Pools \ {p} : queue'[q] = queue[q] /\ count'[q] = count[q]
                                  /\ stopping'[q] = stopping[q] /\ threads'[q] = threads[q]
      /\ UNCHANGED <<tstate, tpool, detached, wpc, wpool, wtask,
                     cpc, cpool, ctask, expected, rejoined>>
  BY DEF PoolNew, PoolInv, Structure, TypeOK, taskVars, workerVars, clientVars
<1>2. /\ \A w \in Workers : wpool[w] # p
      /\ \A d \in Clients : cpool[d] # p
      /\ \A t \in Tasks : tstate[t] \in InPool => tpool[t] # p
  BY <1>1, ThreadPoolAssumption DEF PoolInv, Structure, Refs
<1>3. queue[p] = <<>> /\ threads[p] = {}
  <2>1. queue[p] \in Seq(Tasks) /\ threads[p] \subseteq Workers
    BY DEF PoolInv, Structure, TypeOK
  <2>2. Range(queue[p]) \subseteq Tasks
    BY <2>1, QueueElements
  <2>3. Range(queue[p]) = {}
    BY <1>2, <2>2 DEF PoolInv, Structure, Owned, InPool
  <2>4. threads[p] = {}
    BY <1>2, <2>1 DEF PoolInv, Structure, Refs
  <2>. QED BY <2>1, <2>3, <2>4, QueueElements
<1>4. \A q \in Pools : queue'[q] = queue[q] /\ threads'[q] = threads[q]
  BY <1>1, <1>3
<1>5. TypeOK'
  <2>1. /\ queue' \in [Pools -> Seq(Tasks)] /\ count' \in [Pools -> Int]
        /\ stopping' \in [Pools -> BOOLEAN] /\ threads' \in [Pools -> SUBSET Workers]
        /\ alive' \in SUBSET Pools
    BY DEF PoolNew, PoolInv, Structure, TypeOK
  <2>. QED BY <1>1, <2>1 DEF PoolInv, Structure, TypeOK
<1>6. CrashSound'
  BY <1>1 DEF PoolInv, Structure, CrashSound, Running
<1>7. Owned' /\ OwnedOnce'
  BY <1>1, <1>4 DEF PoolInv, Structure, Owned, OwnedOnce
<1>8. Users'
  BY <1>1 DEF PoolInv, Structure, Users
<1>9. NoMissedSignal'
  <2>1. \A w \in Workers : wpc[w] = "wait" => wpool[w] \in Pools \ {p}
    BY <1>2 DEF PoolInv, Structure, TypeOK
  <2>. QED BY <1>1, <2>1 DEF PoolInv, Structure, NoMissedSignal
<1>10. StillOwned' /\ Refs' /\ DeleteSafe'
  <2>1. StillOwned'
    BY <1>1, <1>4 DEF PoolInv, Structure, StillOwned
  <2>2. Refs'
    BY <1>1, <1>4 DEF PoolInv, Structure, Refs
  <2>3. DeleteSafe'
    BY <1>1 DEF PoolInv, Structure, DeleteSafe
  <2>. QED BY <2>1, <2>2, <2>3
<1>11. ASSUME NEW q \in alive' PROVE CountRight(q)'
  <2>1. /\ TasksIn(q)' = TasksIn(q) /\ Reservations(q)' = Reservations(q)
        /\ Releases(q)' = Releases(q)
    BY <1>1 DEF TasksIn, Reservations, Releases
  <2>2. CASE q # p
    <3>1. CountRight(q) /\ count'[q] = count[q]
      BY <1>1, <2>2 DEF PoolInv, Structure, TypeOK
    <3>. QED BY <2>1, <3>1, CountKept
  <2>3. CASE q = p
    <3>1. TasksIn(q) = {} /\ Reservations(q) = {} /\ Releases(q) = {}
      BY <1>2, <2>3 DEF TasksIn, Reservations, Releases
    <3>2. Cardinality({}) = 0 /\ MaxTasks \in Nat
      BY FS_EmptySet, ThreadPoolAssumption
    <3>. QED BY <1>1, <2>1, <2>3, <3>1, <3>2 DEF CountRight
  <2>. QED BY <2>2, <2>3
<1>. QED BY <1>5, <1>6, <1>7, <1>8, <1>9, <1>10, <1>11 DEF PoolInv, Structure

(* ... thread_pool_delete tells its threads to leave ...                   *)
LEMMA PoolDeleteStopInv ==
    ASSUME PoolInv, NEW c \in Clients, PoolDeleteStop(c)
    PROVE  PoolInv'
<1>0. PICK p \in Pools : cpool[c] = p
  BY DEF PoolDeleteStop, PoolInv, Structure, TypeOK, Deleting
<1>1. /\ cpc[c] = "stop" /\ ctask[c] = NULL
      /\ cpc'[c] = "reap" /\ \A d \in Clients \ {c} : cpc'[d] = cpc[d]
      /\ stopping'[p] = TRUE /\ \A q \in Pools \ {p} : stopping'[q] = stopping[q]
      /\ UNCHANGED <<alive, queue, count, threads, tstate, tpool, detached,
                     wpool, wtask, cpool, ctask, expected, rejoined>>
  <2>1. cpc[c] = "stop" /\ ctask[c] = NULL
    BY DEF PoolDeleteStop, PoolInv, Structure, Users, Deleting
  <2>. QED BY <1>0, <2>1 DEF PoolDeleteStop, Call, PoolInv, Structure, TypeOK, taskVars
<1>2. \A w \in Workers :
        \/ wpc[w] = "wait" /\ wpool[w] = p /\ wpc'[w] = "loop"
        \/ wpc'[w] = wpc[w] /\ (wpc[w] = "wait" => wpool[w] # p)
  BY <1>0 DEF PoolDeleteStop, WakeWorkers, PoolInv, Structure, TypeOK
<1>3. Running
  BY <1>1 DEF PoolInv, Structure, CrashSound, Running
<1>4. TypeOK'
  <2>1. stopping' \in [Pools -> BOOLEAN]
    BY DEF PoolDeleteStop, PoolInv, Structure, TypeOK
  <2>2. wpc' \in [Workers -> {"none", "loop", "wait", "start", "run", "delete",
                             "release", "exit", "dead"}]
    BY DEF PoolDeleteStop, WakeWorkers, PoolInv, Structure, TypeOK
  <2>3. cpc' \in [Clients -> Pushing \cup Deleting \cup
                 {"idle", "join", "wait", "leave", "tjoin", "twait", "spin",
                  "dispose", "dead"}]
    BY DEF PoolDeleteStop, Call, PoolInv, Structure, TypeOK, Deleting
  <2>4. ASSUME NEW w \in Workers
        PROVE  /\ wpc'[w] \in {"start", "run", "delete"} => wtask'[w] \in Tasks
               /\ wpc'[w] \in {"none", "loop", "wait", "release", "exit"} => wtask'[w] = NULL
               /\ wpc'[w] \notin {"none", "dead"} => wpool'[w] \in Pools
    BY <1>1, <1>2 DEF PoolInv, Structure, TypeOK
  <2>5. ASSUME NEW d \in Clients
        PROVE  /\ cpc'[d] \in Pushing \cup Deleting \cup {"leave"} => cpool'[d] \in Pools
               /\ cpc'[d] \in (Pushing \ {"undo"}) \cup
                       {"join", "wait", "tjoin", "twait", "spin", "dispose"}
                    => ctask'[d] \in Tasks
    <3>1. CASE d = c
      BY <1>0, <1>1, <3>1 DEF Pushing, Deleting
    <3>2. CASE d # c
      BY <1>1, <3>2 DEF PoolInv, Structure, TypeOK
    <3>. QED BY <3>1, <3>2
  <2>. QED BY <1>1, <2>1, <2>2, <2>3, <2>4, <2>5 DEF PoolInv, Structure, TypeOK
<1>5. CrashSound'
  BY <1>1, <1>2, <1>3 DEF CrashSound, Running
<1>6. Owned'
  BY <1>1, <1>2 DEF PoolInv, Structure, Owned
<1>7. OwnedOnce'
  BY <1>1 DEF PoolInv, Structure, OwnedOnce
<1>8. Users'
  BY <1>0, <1>1 DEF PoolInv, Structure, Users, Joining, Deleting
<1>9. NoMissedSignal'
  <2>1. ASSUME NEW w \in Workers, wpc'[w] = "wait"
        PROVE  queue'[wpool'[w]] = <<>> /\ ~stopping'[wpool'[w]]
    <3>1. wpc[w] = "wait" /\ wpool[w] \in Pools \ {p}
      BY <1>2, <2>1 DEF PoolInv, Structure, TypeOK
    <3>. QED BY <1>1, <3>1 DEF PoolInv, Structure, NoMissedSignal
  <2>2. \A d \in Clients : cpc'[d] \in {"wait", "twait"} => cpc[d] \in {"wait", "twait"}
    BY <1>1
  <2>. QED BY <1>1, <2>1, <2>2 DEF PoolInv, Structure, NoMissedSignal
<1>10. ASSUME ~rejoined' PROVE StillOwned' /\ Refs' /\ DeleteSafe'
  <2>1. StillOwned'
    BY <1>1, <1>10 DEF PoolInv, Structure, StillOwned
  <2>2. Refs'
    BY <1>1, <1>2, <1>10 DEF PoolInv, Structure, Refs
  <2>3. \A d \in Clients : cpc'[d] \in Deleting => cpc[d] \in Deleting
    BY <1>1 DEF Deleting
  <2>4. DeleteSafe'
    BY <1>1, <1>10, <2>3 DEF PoolInv, Structure, DeleteSafe
  <2>. QED BY <2>1, <2>2, <2>4
<1>11. ASSUME ~rejoined', NEW q \in alive' PROVE CountRight(q)'
  <2>1. CountRight(q) /\ count'[q] = count[q]
    BY <1>1, <1>11 DEF PoolInv
  <2>2. TasksIn(q)' = TasksIn(q) /\ Reservations(q)' = Reservations(q)
    BY <1>1 DEF TasksIn, Reservations
  <2>3. Releases(q)' = Releases(q)
    BY <1>1, <1>2 DEF Releases
  <2>. QED BY <2>1, <2>2, <2>3, CountKept
<1>. QED BY <1>4, <1>5, <1>6, <1>7, <1>8, <1>9, <1>10, <1>11 DEF PoolInv, Structure

(* ... and frees the pool when they are gone.                              *)
LEMMA PoolDeleteReapInv ==
    ASSUME PoolInv, NEW c \in Clients, PoolDeleteReap(c)
    PROVE  PoolInv'
<1>0. PICK p \in Pools : cpool[c] = p
  BY DEF PoolDeleteReap, PoolInv, Structure, TypeOK, Deleting
<1>1. /\ cpc[c] = "reap"
      /\ cpc'[c] = "idle" /\ cpool'[c] = NULL /\ ctask'[c] = NULL
      /\ \A d \in Clients \ {c} :
           cpc'[d] = cpc[d] /\ cpool'[d] = cpool[d] /\ ctask'[d] = ctask[d]
      /\ stopping'[p] = FALSE /\ \A q \in Pools \ {p} : stopping'[q] = stopping[q]
      /\ threads'[p] = {} /\ \A q \in Pools \ {p} : threads'[q] = threads[q]
      /\ alive' = alive \ {p}
      /\ UNCHANGED <<queue, count, tstate, tpool, detached, wtask, expected, rejoined>>
  BY <1>0 DEF PoolDeleteReap, Return, Call, PoolInv, Structure, TypeOK, taskVars
<1>2. /\ threads[p] \subseteq Workers
      /\ \A w \in threads[p] : wpc[w] = "exit" /\ wpc'[w] = "none" /\ wpool'[w] = NULL
      /\ \A w \in Workers \ threads[p] : wpc'[w] = wpc[w] /\ wpool'[w] = wpool[w]
  BY <1>0 DEF PoolDeleteReap, PoolInv, Structure, TypeOK
<1>3. Running
  BY <1>1 DEF PoolInv, Structure, CrashSound, Running
<1>4. TypeOK'
  <2>1. /\ stopping' \in [Pools -> BOOLEAN] /\ threads' \in [Pools -> SUBSET Workers]
        /\ alive' \in SUBSET Pools
    BY DEF PoolDeleteReap, PoolInv, Structure, TypeOK
  <2>2. /\ wpc' \in [Workers -> {"none", "loop", "wait", "start", "run", "delete",
                             "release", "exit", "dead"}]
        /\ wpool' \in [Workers -> Pools \cup {NULL}]
    BY DEF PoolDeleteReap, PoolInv, Structure, TypeOK
  <2>3. /\ cpc' \in [Clients -> Pushing \cup Deleting \cup
                 {"idle", "join", "wait", "leave", "tjoin", "twait", "spin",
                  "dispose", "dead"}]
        /\ cpool' \in [Clients -> Pools \cup {NULL}]
        /\ ctask' \in [Clients -> Tasks \cup {NULL}]
    BY DEF PoolDeleteReap, Return, Call, PoolInv, Structure, TypeOK
  <2>4. ASSUME NEW w \in Workers
        PROVE  /\ wpc'[w] \in {"start", "run", "delete"} => wtask'[w] \in Tasks
               /\ wpc'[w] \in {"none", "loop", "wait", "release", "exit"} => wtask'[w] = NULL
               /\ wpc'[w] \notin {"none", "dead"} => wpool'[w] \in Pools
    <3>1. CASE w \in threads[p]
      BY <1>1, <1>2, <3>1 DEF PoolInv, Structure, TypeOK
    <3>2. CASE w \notin threads[p]
      BY <1>1, <1>2, <3>2 DEF PoolInv, Structure, TypeOK
    <3>. QED BY <3>1, <3>2
  <2>5. ASSUME NEW d \in Clients
        PROVE  /\ cpc'[d] \in Pushing \cup Deleting \cup {"leave"} => cpool'[d] \in Pools
               /\ cpc'[d] \in (Pushing \ {"undo"}) \cup
                       {"join", "wait", "tjoin", "twait", "spin", "dispose"}
                    => ctask'[d] \in Tasks
    <3>1. CASE d = c
      BY <1>1, <3>1 DEF Pushing, Deleting
    <3>2. CASE d # c
      BY <1>1, <3>2 DEF PoolInv, Structure, TypeOK
    <3>. QED BY <3>1, <3>2
  <2>. QED BY <1>1, <2>1, <2>2, <2>3, <2>4, <2>5 DEF PoolInv, Structure, TypeOK
<1>5. CrashSound'
  BY <1>1, <1>2, <1>3 DEF CrashSound, Running
<1>6. \A w \in Workers : wpc'[w] \notin {"none"} =>
        w \notin threads[p] /\ wpc'[w] = wpc[w] /\ wpool'[w] = wpool[w]
  BY <1>2
<1>7. Owned'
  BY <1>1, <1>6 DEF PoolInv, Structure, Owned
<1>8. OwnedOnce'
  BY <1>1 DEF PoolInv, Structure, OwnedOnce
<1>9. Users'
  <2>1. ASSUME NEW d \in Clients, d # c, cpc[d] = "dispose"
        PROVE  /\ tstate'[ctask'[d]] = "FINISHED"
               /\ \A e \in Clients : e # d => ctask'[e] # ctask'[d]
    <3>1. /\ tstate[ctask[d]] = "FINISHED" /\ ctask[d] \in Tasks
          /\ \A e \in Clients : e # d => ctask[e] # ctask[d]
      BY <2>1 DEF PoolInv, Structure, Users, TypeOK
    <3>. QED BY <1>1, <2>1, <3>1, ThreadPoolAssumption
  <2>. QED BY <1>1, <2>1 DEF PoolInv, Structure, Users, Joining
<1>10. NoMissedSignal'
  <2>1. ASSUME NEW w \in Workers, wpc'[w] = "wait"
        PROVE  queue'[wpool'[w]] = <<>> /\ ~stopping'[wpool'[w]]
    <3>1. wpc[w] = "wait" /\ wpool[w] \in Pools /\ wpool'[w] = wpool[w]
      BY <1>6, <2>1 DEF PoolInv, Structure, TypeOK
    <3>. QED BY <1>1, <3>1 DEF PoolInv, Structure, NoMissedSignal
  <2>. QED BY <1>1, <2>1 DEF PoolInv, Structure, NoMissedSignal
<1>11. ASSUME ~rejoined' PROVE StillOwned' /\ Refs' /\ DeleteSafe'
  <2>1. StillOwned'
    BY <1>1, <1>11 DEF PoolInv, Structure, StillOwned
  <2>2. /\ \A w \in Workers \ threads[p] : wpool[w] # p
        /\ \A d \in Clients \ {c} : cpool[d] # p
        /\ \A u \in Tasks : tstate[u] \in InPool => tpool[u] # p
    BY <1>0, <1>1, <1>11 DEF PoolInv, Structure, Refs, DeleteSafe, Deleting
  <2>3. /\ \A w \in Workers : wpc'[w] # "none" => wpool'[w] \in alive'
        /\ \A w \in Workers : wpc'[w] = "none" => wpool'[w] = NULL
    BY <1>1, <1>2, <1>11, <2>2 DEF PoolInv, Structure, Refs
  <2>4. ASSUME NEW w \in Workers, NEW q \in Pools PROVE w \in threads'[q] <=> wpool'[w] = q
    <3>0. (w \in threads[q] <=> wpool[w] = q) /\ (w \in threads[p] <=> wpool[w] = p)
      BY <1>1, <1>11 DEF PoolInv, Structure, Refs
    <3>1. CASE q = p
      <4>1. wpool'[w] # p
        BY <1>2, <2>2, ThreadPoolAssumption
      <4>. QED BY <1>1, <3>1, <4>1
    <3>2. CASE q # p
      <4>1. CASE w \in threads[p]
        BY <1>1, <1>2, <3>0, <3>2, <4>1, ThreadPoolAssumption
      <4>2. CASE w \notin threads[p]
        BY <1>1, <1>2, <3>0, <3>2, <4>2
      <4>. QED BY <4>1, <4>2
    <3>. QED BY <3>1, <3>2
  <2>5. /\ \A d \in Clients : cpool'[d] # NULL => cpool'[d] \in alive'
        /\ \A u \in Tasks : tstate'[u] \in InPool => tpool'[u] \in alive'
    BY <1>1, <1>11, <2>2 DEF PoolInv, Structure, Refs
  <2>6. Refs'
    BY <2>3, <2>4, <2>5 DEF Refs
  <2>7. ASSUME NEW d \in Clients, cpc'[d] \in Deleting
        PROVE  /\ \A u \in Tasks : tpool'[u] = cpool'[d] => tstate'[u] \notin InPool
               /\ \A e \in Clients : e # d => cpool'[e] # cpool'[d]
    <3>1. d # c /\ cpc[d] \in Deleting /\ cpool'[d] = cpool[d]
      BY <1>1, <2>7 DEF Deleting
    <3>2. /\ \A u \in Tasks : tpool[u] = cpool[d] => tstate[u] \notin InPool
          /\ \A e \in Clients : e # d => cpool[e] # cpool[d]
          /\ cpool[d] # NULL
      BY <1>1, <1>11, <3>1, ThreadPoolAssumption DEF PoolInv, Structure, DeleteSafe, TypeOK
    <3>. QED BY <1>1, <3>1, <3>2
  <2>. QED BY <2>1, <2>6, <2>7 DEF DeleteSafe
<1>12. ASSUME ~rejoined', NEW q \in alive' PROVE CountRight(q)'
  <2>1. CountRight(q) /\ count'[q] = count[q]
    BY <1>1, <1>12 DEF PoolInv
  <2>2. TasksIn(q)' = TasksIn(q)
    BY <1>1 DEF TasksIn
  <2>3. Reservations(q)' = Reservations(q)
    BY <1>1 DEF Reservations
  <2>4. Releases(q)' = Releases(q)
    <3>1. \A w \in Workers : wpc[w] = "release" => wpc'[w] = "release" /\ wpool'[w] = wpool[w]
      BY <1>2
    <3>. QED BY <1>6, <3>1 DEF Releases
  <2>. QED BY <2>1, <2>2, <2>3, <2>4, CountKept
<1>. QED BY <1>4, <1>5, <1>7, <1>8, <1>9, <1>10, <1>11, <1>12 DEF PoolInv, Structure

-----------------------------------------------------------------------------
LEMMA InitInv == Init => PoolInv
<1>. SUFFICES ASSUME Init PROVE PoolInv
  OBVIOUS
<1>. USE DEF Init
<1>1. TypeOK
  <2>1. /\ alive \in SUBSET Pools
        /\ count \in [Pools -> Int] /\ expected \in [Clients -> Int]
    OBVIOUS
  <2>6. rejoined \in BOOLEAN /\ stopping \in [Pools -> BOOLEAN]
    OBVIOUS
  <2>4. queue \in [Pools -> Seq(Tasks)]
    BY <<>> \in Seq(Tasks)
  <2>5. threads \in [Pools -> SUBSET Workers]
    OBVIOUS
  <2>2. /\ tstate \in [Tasks -> InPool \cup {"NONE", "NEW", "JOINED"}]
        /\ tpool \in [Tasks -> Pools \cup {NULL}] /\ detached \in [Tasks -> BOOLEAN]
    OBVIOUS
  <2>3. /\ wpc \in [Workers -> {"none", "loop", "wait", "start", "run", "delete",
                             "release", "exit", "dead"}]
        /\ wpool \in [Workers -> Pools \cup {NULL}] /\ wtask \in [Workers -> Tasks \cup {NULL}]
        /\ cpc \in [Clients -> Pushing \cup Deleting \cup
                 {"idle", "join", "wait", "leave", "tjoin", "twait", "spin",
                  "dispose", "dead"}]
        /\ cpool \in [Clients -> Pools \cup {NULL}] /\ ctask \in [Clients -> Tasks \cup {NULL}]
    OBVIOUS
  <2>. QED BY <2>1, <2>2, <2>3, <2>4, <2>5, <2>6 DEF TypeOK, Pushing, Deleting
<1>2. CrashSound
  BY DEF CrashSound, Running
<1>3. Owned /\ OwnedOnce
  BY EmptyQueue DEF Owned, OwnedOnce, InPool
<1>4. Users /\ NoMissedSignal
  BY DEF Users, NoMissedSignal, Joining
<1>5. StillOwned /\ Refs /\ DeleteSafe
  BY ThreadPoolAssumption DEF StillOwned, Refs, DeleteSafe, InPool, Deleting
<1>. QED BY <1>1, <1>2, <1>3, <1>4, <1>5 DEF PoolInv, Structure

LEMMA StutterInv ==
    ASSUME PoolInv, UNCHANGED vars
    PROVE  PoolInv'
<1>1. UNCHANGED <<alive, queue, count, stopping, threads, tstate, tpool, detached,
                  wpc, wpool, wtask, cpc, cpool, ctask, expected, rejoined>>
  BY DEF vars, poolVars, taskVars, workerVars, clientVars
<1>2. TypeOK' /\ CrashSound' /\ Owned' /\ OwnedOnce' /\ Users' /\ NoMissedSignal'
  BY <1>1 DEF PoolInv, Structure, TypeOK, CrashSound, Running, Owned, OwnedOnce, Users, NoMissedSignal
<1>3. ASSUME ~rejoined' PROVE StillOwned' /\ Refs' /\ DeleteSafe'
  BY <1>1, <1>3 DEF PoolInv, Structure, StillOwned, Refs, DeleteSafe
<1>4. ASSUME ~rejoined', NEW q \in alive' PROVE CountRight(q)'
  <2>1. CountRight(q) /\ count'[q] = count[q]
    BY <1>1, <1>4 DEF PoolInv
  <2>2. TasksIn(q)' = TasksIn(q) /\ Reservations(q)' = Reservations(q) /\ Releases(q)' = Releases(q)
    BY <1>1 DEF TasksIn, Reservations, Releases
  <2>. QED BY <2>1, <2>2, CountKept
<1>. QED BY <1>2, <1>3, <1>4 DEF PoolInv, Structure

(* The invariant of the pool holds however many threads call its API and   *)
(* in whatever order they run.                                             *)
THEOREM PoolInvariant == Spec => []PoolInv
<1>1. PoolInv /\ [Next]_vars => PoolInv'
  <2>. SUFFICES ASSUME PoolInv, [Next]_vars PROVE PoolInv'
    OBVIOUS
  <2>1. ASSUME NEW w \in Workers, WorkerStep(w) \/ WorkerSpurious(w) PROVE PoolInv'
    BY <2>1, WorkerLoopInv, WorkerStartInv, WorkerFinishInv, WorkerDeleteInv, WorkerReleaseInv
       DEF WorkerStep
  <2>2. ASSUME NEW c \in Clients, ClientCall(c) PROVE PoolInv'
    BY <2>2, PoolNewInv, PoolDeleteInv, TaskNewInv, JoinInv, DetachInv, PushInv, TimedJoinInv
       DEF ClientCall
  <2>3. ASSUME NEW c \in Clients, ClientStep(c) PROVE PoolInv'
    BY <2>3, PoolDeleteStopInv, PoolDeleteReapInv, PushReserveInv, PushCheckInv, LeaveInv,
       PushEnqueueInv, JoinInv, TimedJoinTestInv, DetachDisposeInv
       DEF ClientStep
  <2>4. ASSUME NEW c \in Clients, JoinSpurious(c) \/ TimedJoinTimeout(c) PROVE PoolInv'
    BY <2>4, JoinWakeInv
  <2>5. CASE UNCHANGED vars
    BY <2>5, StutterInv
  <2>. QED BY <2>1, <2>2, <2>3, <2>4, <2>5 DEF Next
<1>. QED BY <1>1, InitInv, PTL DEF Spec

(* task_count is exact and at most TPOOL_MAX_TASKS at every step of every  *)
(* thread, until a timed join takes a task that was joined already.        *)
THEOREM TaskCountIsExact == Spec => []CountExact
<1>1. PoolInv => CountExact
  BY DEF PoolInv, Structure, CountExact, CountRight
<1>. QED BY <1>1, PoolInvariant, PTL

(* A thread_pool_delete that passed its test finds the pool without tasks, *)
(* now and later.                                                          *)
THEOREM DeletedPoolsAreEmpty == Spec => []DeleteOnlyEmpty
<1>1. PoolInv => DeleteOnlyEmpty
  <2>. SUFFICES ASSUME PoolInv, ~rejoined, NEW c \in Clients, cpc[c] \in Deleting
                PROVE  TasksIn(cpool[c]) = {} /\ queue[cpool[c]] = <<>>
    BY DEF DeleteOnlyEmpty
  <2>1. PICK p \in Pools : cpool[c] = p
    BY DEF PoolInv, Structure, TypeOK
  <2>2. \A t \in Tasks : tpool[t] = p => tstate[t] \notin InPool
    BY <2>1 DEF PoolInv, Structure, DeleteSafe
  <2>3. queue[p] \in Seq(Tasks) /\ Range(queue[p]) \subseteq Tasks
    BY QueueElements DEF PoolInv, Structure, TypeOK
  <2>4. Range(queue[p]) = {}
    BY <2>2, <2>3 DEF PoolInv, Structure, Owned, InPool
  <2>. QED BY <2>1, <2>2, <2>3, <2>4, QueueElements DEF TasksIn
<1>. QED BY <1>1, PoolInvariant, PTL

(* No thread is about to touch a freed task or pool, and nobody follows a  *)
(* null task->pool, until a task is joined twice.                          *)
THEOREM NothingUsedAfterFree == Spec => []NoUseAfterFree
<1>1. PoolInv => NoUseAfterFree
  <2>. SUFFICES ASSUME PoolInv, ~rejoined PROVE NoUseAfterFree
    BY DEF NoUseAfterFree
  <2>1. Running
    BY DEF PoolInv, Structure, CrashSound
  <2>2. ASSUME NEW w \in Workers, wtask[w] # NULL PROVE tstate[wtask[w]] # "NONE"
    <3>1. PICK t \in Tasks : wtask[w] = t
      BY <2>2 DEF PoolInv, Structure, TypeOK
    <3>2. wpc[w] \in {"start", "run", "delete"}
      BY <2>1, <3>1, HasTask DEF PoolInv
    <3>. QED BY <3>2 DEF PoolInv, Structure, Owned
  <2>3. \A c \in Clients : ctask[c] # NULL => tstate[ctask[c]] # "NONE"
    BY DEF PoolInv, Structure, Users
  <2>4. Refs
    BY DEF PoolInv, Structure
  <2>. QED BY <2>1, <2>2, <2>3, <2>4 DEF NoUseAfterFree, Refs, Running
<1>. QED BY <1>1, PoolInvariant, PTL

(* Nobody sleeps on a condition that already holds: no broadcast is missed.*)
THEOREM NoSignalMissed == Spec => []NoMissedSignal
<1>1. PoolInv => NoMissedSignal
  BY DEF PoolInv, Structure
<1>. QED BY <1>1, PoolInvariant, PTL

(* A set whose elements are all equal has at most one.                     *)
LEMMA AtMostOne ==
    ASSUME NEW S, \A x, y \in S : x = y
    PROVE  Cardinality(S) <= 1
<1>1. CASE S = {}
  BY <1>1, FS_EmptySet
<1>2. CASE S # {}
  <2>1. PICK x : S = {x}
    BY <1>2
  <2>. QED BY <2>1, FS_Singleton
<1>. QED BY <1>1, <1>2

(* A task is held by one of a pushing client, a queue and a worker from the*)
(* push until its function has returned, and by nobody otherwise.          *)
THEOREM OneHolderAtATime == Spec => []OneHolder
<1>1. PoolInv => OneHolder
  <2>. SUFFICES ASSUME PoolInv, \A c \in Clients : cpc[c] # "dead", NEW t \in Tasks
                PROVE  /\ Cardinality(Holders(t)) <= 1
                       /\ tstate[t] \in {"QUEUED", "RUNNING"} => rejoined \/ Holders(t) # {}
                       /\ tstate[t] = "FINISHED" => Holders(t) = {<<"work", w>> : w \in
                              {v \in Workers : wpc[v] = "delete" /\ wtask[v] = t}}
                       /\ tstate[t] \in {"NONE", "NEW", "JOINED"} => Holders(t) = {}
    BY DEF OneHolder
  <2>. DEFINE Enq == {d \in Clients : cpc[d] = "enqueue" /\ ctask[d] = t}
              At(p) == {j \in DOMAIN queue[p] : queue[p][j] = t}
              Wrk == {v \in Workers : wtask[v] = t}
  <2>. DEFINE Pushed == {<<"push", c>> : c \in Enq}
              Places(p) == {<<p, i>> : i \in At(p)}
              Queued == UNION {Places(p) : p \in Pools}
              Working == {<<"work", w>> : w \in Wrk}
  <2>0. Holders(t) = Pushed \cup Queued \cup Working
    BY DEF Holders
  <2>. HIDE DEF Enq, At, Wrk
  <2>a. \A x : x \in Queued <=> \E p \in Pools : \E i \in At(p) : x = <<p, i>>
    <3>1. \A p \in Pools : \A x : x \in Places(p) <=> \E i \in At(p) : x = <<p, i>>
      OBVIOUS
    <3>. HIDE DEF Places
    <3>2. \A x : x \in Queued <=> \E p \in Pools : x \in Places(p)
      OBVIOUS
    <3>. HIDE DEF Queued
    <3>. QED BY <3>1, <3>2
  <2>b. \A x : /\ x \in Pushed <=> \E c \in Enq : x = <<"push", c>>
               /\ x \in Working <=> \E w \in Wrk : x = <<"work", w>>
    OBVIOUS
  <2>. HIDE DEF Pushed, Queued, Working
  <2>1. \A x \in Holders(t) :
          \/ \E c \in Enq : x = <<"push", c>>
          \/ \E p \in Pools : \E i \in At(p) : x = <<p, i>>
          \/ \E w \in Wrk : x = <<"work", w>>
    BY <2>0, <2>a, <2>b
  <2>2. /\ \A c \in Enq : <<"push", c>> \in Holders(t)
        /\ \A p \in Pools : \A i \in At(p) : <<p, i>> \in Holders(t)
        /\ \A w \in Wrk : <<"work", w>> \in Holders(t)
    BY <2>0, <2>a, <2>b
  <2>. USE DEF Enq, At, Wrk
  <2>3. \A p \in Pools : \A i \in At(p) : t \in Range(queue[p])
    BY DEF Range
  <2>4. \A p \in Pools : t \in Range(queue[p]) => \E i \in At(p) : TRUE
    BY DEF Range
  <2>5. Running
    BY DEF PoolInv, Structure, CrashSound
  <2>6. t # NULL
    BY ThreadPoolAssumption
  <2>7. /\ \A c \in Enq : tstate[t] = "QUEUED"
        /\ \A p \in Pools : t \in Range(queue[p]) => tstate[t] = "QUEUED" /\ tpool[t] = p
    BY DEF PoolInv, Structure, Owned
  <2>8. ASSUME NEW w \in Wrk
        PROVE  /\ tstate[t] \in {"QUEUED", "RUNNING", "FINISHED"}
               /\ tstate[t] = "FINISHED" <=> wpc[w] = "delete"
    <3>1. wpc[w] \in {"start", "run", "delete"}
      BY <2>5, HasTask DEF PoolInv
    <3>. QED BY <3>1 DEF PoolInv, Structure, Owned
  <2>9. ASSUME NEW x \in Holders(t), NEW y \in Holders(t) PROVE x = y
    <3>1. \A c, d \in Enq : c = d
      BY DEF PoolInv, Structure, OwnedOnce
    <3>2. \A c \in Enq : /\ \A p \in Pools : t \notin Range(queue[p])
                         /\ \A w \in Workers : wtask[w] # t
      BY DEF PoolInv, Structure, OwnedOnce
    <3>3. \A v, w \in Wrk : v = w
      BY <2>6 DEF PoolInv, Structure, OwnedOnce
    <3>4. \A w \in Wrk : \A p \in Pools : t \notin Range(queue[p])
      BY DEF PoolInv, Structure, OwnedOnce
    <3>5. \A p, q \in Pools : \A i \in At(p) : \A j \in At(q) : p = q /\ i = j
      <4>1. \A p, q \in Pools : \A i \in At(p) : \A j \in At(q) : p = q
        BY <2>3, <2>7
      <4>2. \A p \in Pools : \A i, j \in At(p) : i = j
        <5>1. \A p \in Pools : NoRepeat(queue[p]) /\ DOMAIN queue[p] = 1..Len(queue[p])
          BY LenProperties DEF PoolInv, Structure, Owned, TypeOK
        <5>. QED BY <5>1 DEF NoRepeat
      <4>. QED BY <4>1, <4>2
    <3>6. CASE \E c \in Enq : x = <<"push", c>> \/ y = <<"push", c>>
      <4>1. /\ \E c \in Enq : x = <<"push", c>>
            /\ \E c \in Enq : y = <<"push", c>>
        <5>. HIDE DEF At
        <5>. QED BY <2>1, <2>3, <3>2, <3>6
      <4>. QED BY <3>1, <4>1
    <3>7. CASE ~ \E c \in Enq : x = <<"push", c>> \/ y = <<"push", c>>
      <4>. HIDE DEF At, Enq, Wrk
      <4>1. /\ (\E p \in Pools : \E i \in At(p) : x = <<p, i>>) \/ (\E w \in Wrk : x = <<"work", w>>)
            /\ (\E p \in Pools : \E i \in At(p) : y = <<p, i>>) \/ (\E w \in Wrk : y = <<"work", w>>)
        BY <2>1, <3>7
      <4>2. CASE \E w \in Wrk : x = <<"work", w>> \/ y = <<"work", w>>
        <5>1. (\E w \in Wrk : x = <<"work", w>>) /\ (\E w \in Wrk : y = <<"work", w>>)
          BY <2>3, <3>4, <4>1, <4>2
        <5>. QED BY <3>3, <5>1
      <4>3. CASE ~ \E w \in Wrk : x = <<"work", w>> \/ y = <<"work", w>>
        <5>1. PICK p \in Pools : \E i \in At(p) : x = <<p, i>>
          BY <4>1, <4>3
        <5>2. PICK q \in Pools : \E j \in At(q) : y = <<q, j>>
          BY <4>1, <4>3
        <5>. QED BY <3>5, <5>1, <5>2
      <4>. QED BY <4>2, <4>3
    <3>. QED BY <3>6, <3>7
  <2>10. Cardinality(Holders(t)) <= 1
    BY <2>9, AtMostOne
  <2>11. ASSUME tstate[t] \in {"QUEUED", "RUNNING"}, ~rejoined PROVE Holders(t) # {}
    <3>1. \/ \E c \in Clients : cpc[c] = "enqueue" /\ ctask[c] = t
          \/ \E p \in Pools : t \in Range(queue[p])
          \/ \E w \in Workers : wtask[w] = t
      BY <2>11 DEF PoolInv, Structure, StillOwned
    <3>2. (\E c \in Enq : TRUE) \/ (\E p \in Pools : \E i \in At(p) : TRUE) \/ (\E w \in Wrk : TRUE)
      BY <2>4, <3>1
    <3>. QED BY <2>2, <3>2
  <2>12. ASSUME tstate[t] = "FINISHED"
         PROVE  Holders(t) = {<<"work", w>> : w \in
                              {v \in Workers : wpc[v] = "delete" /\ wtask[v] = t}}
    <3>1. \A x \in Holders(t) : \E w \in Wrk : x = <<"work", w>>
      BY <2>1, <2>3, <2>7, <2>12
    <3>2. \A w \in Wrk : wpc[w] = "delete"
      BY <2>8, <2>12
    <3>. QED BY <2>2, <3>1, <3>2
  <2>13. ASSUME tstate[t] \in {"NONE", "NEW", "JOINED"} PROVE Holders(t) = {}
    BY <2>1, <2>3, <2>7, <2>8, <2>13
  <2>. QED BY <2>10, <2>11, <2>12, <2>13
<1>. QED BY <1>1, PoolInvariant, PTL
=============================================================================
