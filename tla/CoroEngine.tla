----------------------------- MODULE CoroEngine -----------------------------
(***************************************************************************)
(* The coroutine engine of 1/libcoro.cpp.  One OS thread runs the main     *)
(* program, the scheduler loop and every coroutine; control moves between  *)
(* them only in coro_engine_resume_next, so each action below is the code  *)
(* from one switch (or one API call) to the next.                          *)
(*                                                                         *)
(* The three intrusive lists of struct coro_engine are sequences of        *)
(* coroutine addresses.  What user code does inside a coroutine is left    *)
(* open: the running coroutine may make any API call next.                 *)
(*                                                                         *)
(* Operators named Mutant... are faulty variants of the operator that      *)
(* follows them.  No specification uses them; they are there to be put in  *)
(* its place, to see that a property notices the fault.                    *)
(***************************************************************************)
EXTENDS Naturals, Sequences, FiniteSets, Functions

CONSTANTS
    Coros,  \* addresses new coro() can return
    Funcs,  \* coroutine functions; a function stands for its result as well
    Sched,  \* &engine->sched, the context of coro_engine_run
    NULL

ASSUME SchedAssumption == Sched \notin Coros
ASSUME NullAssumption == NULL \notin Coros \cup Funcs \cup {Sched}

VARIABLES
    engine,   \* "up" between coro_sched_init and _destroy, "down", or "exit"
    this,     \* engine->this_coro; NULL while the main program is in control
    now,      \* coros_running_now
    next,     \* coros_running_next
    pool,     \* coros_pool
    count,    \* coro_count
    state,    \* coro->state, "NONE" for an address that is not allocated
    func,     \* coro->func
    ret,      \* coro->ret
    joiner    \* coro->joiner

engineVars == <<engine, this, now, next, pool, count, state, func, ret, joiner>>

Allocated == {c \in Coros : state[c] # "NONE"}

(* Coroutines whose handle is still owned by the program: coro_join gives  *)
(* the handle up.                                                          *)
Unjoined == Allocated \ Range(pool)

(* c is on the stack of coro_engine_join, waiting for one of these.        *)
JoinTargets(c) == {d \in Coros : joiner[d] = c}

(* The running coroutine is in user code (not inside coro_join).           *)
InUserCode(c) == engine = "up" /\ this = c /\ JoinTargets(c) = {}

(* The main program is in control.                                         *)
InMain == engine = "up" /\ this = NULL

-----------------------------------------------------------------------------
(* coro_sched_init: a zeroed engine with three empty lists.                *)
EngineCreate ==
    /\ engine = "up"
    /\ this = NULL
    /\ now = <<>> /\ next = <<>> /\ pool = <<>>
    /\ count = 0
    /\ state = [c \in Coros |-> "NONE"]
    /\ func = [c \in Coros |-> NULL]
    /\ ret = [c \in Coros |-> NULL]
    /\ joiner = [c \in Coros |-> NULL]

(* coro_engine_resume_next: leave the current coroutine for the head of    *)
(* coros_running_now.  The list is asserted not to be empty.               *)
ResumeNext ==
    /\ now # <<>>
    /\ this' = Head(now)
    /\ now' = Tail(now)

(* coro_engine_suspend called by c.                                        *)
SuspendThis(c) ==
    /\ state' = [state EXCEPT ![c] = "SUSPENDED"]
    /\ ResumeNext

(* Mutant: a running coroutine is queued again.                            *)
MutantWakeupRunning(d) ==
    /\ state[d] # "FINISHED"
    /\ state' = [state EXCEPT ![d] = "RUNNING"]
    /\ next' = Append(next, d)

(* coro_engine_wakeup: a nop for a coroutine that is running or finished.  *)
Wakeup(d) ==
    \/ /\ state[d] = "SUSPENDED"
       /\ state' = [state EXCEPT ![d] = "RUNNING"]
       /\ next' = Append(next, d)
    \/ /\ state[d] \in {"RUNNING", "FINISHED"}
       /\ UNCHANGED <<state, next>>

-----------------------------------------------------------------------------
(* coro_yield *)
Yield(c) ==
    /\ InUserCode(c)
    /\ next' = Append(next, c)
    /\ ResumeNext
    /\ UNCHANGED <<engine, pool, count, state, func, ret, joiner>>

(* coro_suspend *)
Suspend(c) ==
    /\ InUserCode(c)
    /\ SuspendThis(c)
    /\ UNCHANGED <<engine, next, pool, count, func, ret, joiner>>

(* coro_wakeup, from a coroutine or from the main program.                 *)
WakeupCall(d) ==
    /\ d \in Allocated
    /\ Wakeup(d)
    /\ UNCHANGED <<engine, this, now, pool, count, func, ret, joiner>>

(* Mutant: a reused coroutine is counted again.                            *)
MutantSpawnReuse(f) ==
    /\ pool # <<>>
    /\ LET d == Head(pool) IN
         /\ pool' = Tail(pool)
         /\ func' = [func EXCEPT ![d] = f]
         /\ state' = [state EXCEPT ![d] = "RUNNING"]
         /\ next' = Append(next, d)
    /\ count' = count + 1
    /\ UNCHANGED <<engine, this, now, ret, joiner>>

(* coro_engine_spawn takes the first pooled coroutine; only when the pool  *)
(* is empty does coro_engine_spawn_new allocate one.                       *)
SpawnReuse(f) ==
    /\ pool # <<>>
    /\ LET d == Head(pool) IN
         /\ pool' = Tail(pool)
         /\ func' = [func EXCEPT ![d] = f]
         /\ state' = [state EXCEPT ![d] = "RUNNING"]
         /\ next' = Append(next, d)
    /\ UNCHANGED <<engine, this, now, count, ret, joiner>>

SpawnNew(f) ==
    /\ pool = <<>>
    /\ \E d \in Coros \ Allocated :
         /\ state' = [state EXCEPT ![d] = "RUNNING"]
         /\ func' = [func EXCEPT ![d] = f]
         /\ ret' = [ret EXCEPT ![d] = NULL]
         /\ joiner' = [joiner EXCEPT ![d] = NULL]
         /\ next' = Append(next, d)
    /\ count' = count + 1
    /\ UNCHANGED <<engine, this, now, pool>>

Spawn(f) == SpawnReuse(f) \/ SpawnNew(f)

(* Mutant: the result stays behind in the pooled coroutine.                *)
MutantJoinReturn(d) ==
    /\ joiner' = [joiner EXCEPT ![d] = NULL]
    /\ pool' = <<d>> \o pool
    /\ UNCHANGED <<engine, this, now, next, count, state, func, ret>>

(* The tail of coro_engine_join, once the target is finished.              *)
JoinReturn(d) ==
    /\ joiner' = [joiner EXCEPT ![d] = NULL]
    /\ ret' = [ret EXCEPT ![d] = NULL]
    /\ pool' = <<d>> \o pool
    /\ UNCHANGED <<engine, this, now, next, count, state, func>>

(* One turn of coro_engine_join's loop: return, or suspend (again).        *)
JoinLoop(c, d) ==
    \/ state[d] = "FINISHED" /\ JoinReturn(d)
    \/ /\ state[d] \in {"RUNNING", "SUSPENDED"}
       /\ joiner' = [joiner EXCEPT ![d] = c]
       /\ SuspendThis(c)
       /\ UNCHANGED <<engine, next, pool, count, func, ret>>

(* coro_join on a handle that nobody else is joining.                      *)
Join(c, d) ==
    /\ InUserCode(c)
    /\ d \in Unjoined
    /\ joiner[d] = NULL
    /\ JoinLoop(c, d)

(* A coroutine resumed inside coro_engine_join tests the state again.      *)
JoinResume(c) ==
    /\ engine = "up" /\ this = c
    /\ \E d \in JoinTargets(c) : JoinLoop(c, d)

(* Mutant: the joiner is not woken up.                                     *)
MutantFinishSilent(c) ==
    /\ InUserCode(c)
    /\ ret' = [ret EXCEPT ![c] = func[c]]
    /\ func' = [func EXCEPT ![c] = NULL]
    /\ state' = [state EXCEPT ![c] = "FINISHED"]
    /\ ResumeNext
    /\ UNCHANGED <<engine, next, pool, count, joiner>>

(* Mutant: the joiner is woken up without asking whether there is one.     *)
MutantFinishAnyJoiner(c) ==
    /\ InUserCode(c)
    /\ ret' = [ret EXCEPT ![c] = func[c]]
    /\ func' = [func EXCEPT ![c] = NULL]
    /\ state' = [d \in Coros |-> IF d = c THEN "FINISHED"
                                 ELSE IF d = joiner[c] THEN "RUNNING" ELSE state[d]]
    /\ next' = Append(next, joiner[c])
    /\ ResumeNext
    /\ UNCHANGED <<engine, pool, count, joiner>>

(* The coroutine's function returns into coro_body, which publishes the    *)
(* result, wakes the joiner up and switches away for good (or until the    *)
(* coroutine is taken from the pool).                                      *)
Finish(c) ==
    /\ InUserCode(c)
    /\ ret' = [ret EXCEPT ![c] = func[c]]
    /\ func' = [func EXCEPT ![c] = NULL]
    /\ LET j == joiner[c] IN
         IF j # NULL /\ state[j] = "SUSPENDED"
         THEN /\ state' = [state EXCEPT ![c] = "FINISHED", ![j] = "RUNNING"]
              /\ next' = Append(next, j)
         ELSE /\ state' = [state EXCEPT ![c] = "FINISHED"]
              /\ UNCHANGED next
    /\ ResumeNext
    /\ UNCHANGED <<engine, pool, count, joiner>>

CoroStep(c) ==
    \/ Yield(c)
    \/ Suspend(c)
    \/ InUserCode(c) /\ \E d \in Coros : WakeupCall(d)
    \/ InUserCode(c) /\ \E f \in Funcs : Spawn(f)
    \/ \E d \in Coros : Join(c, d)
    \/ Finish(c)

-----------------------------------------------------------------------------
(* Mutant: the scheduler queues itself in front of the others.             *)
MutantRunLoop ==
    /\ now = <<>>
    /\ IF next = <<>>
       THEN this' = NULL /\ now' = <<>>
       ELSE this' = Head(next) /\ now' = <<Sched>> \o Tail(next)
    /\ next' = <<>>
    /\ UNCHANGED <<engine, pool, count, state, func, ret, joiner>>

(* One turn of coro_engine_run's loop: stop when nothing is runnable, else *)
(* queue the scheduler behind everybody and resume the first coroutine.    *)
RunLoop ==
    /\ now = <<>>
    /\ IF next = <<>>
       THEN this' = NULL /\ now' = <<>>
       ELSE this' = Head(next) /\ now' = Append(Tail(next), Sched)
    /\ next' = <<>>
    /\ UNCHANGED <<engine, pool, count, state, func, ret, joiner>>

(* Control comes back to coro_engine_run at the end of an iteration.       *)
SchedStep == engine = "up" /\ this = Sched /\ RunLoop

MainRun == InMain /\ RunLoop

(* coro_join from the main program: there is no coroutine to suspend, so   *)
(* an unfinished target ends the process with the deadlock message.        *)
MainJoin(d) ==
    /\ InMain
    /\ d \in Unjoined
    /\ joiner[d] = NULL
    /\ \/ state[d] = "FINISHED" /\ JoinReturn(d)
       \/ /\ state[d] # "FINISHED"
          /\ engine' = "exit"
          /\ UNCHANGED <<this, now, next, pool, count, state, func, ret, joiner>>

(* coro_sched_destroy: "All coros must be finished by now" and joined.     *)
MainDestroy ==
    /\ InMain
    /\ Unjoined = {}
    /\ engine' = "down"
    /\ count' = count - Len(pool)
    /\ state' = [c \in Coros |-> IF c \in Range(pool) THEN "NONE" ELSE state[c]]
    /\ pool' = <<>>
    /\ UNCHANGED <<this, now, next, func, ret, joiner>>

MainInit ==
    /\ engine = "down"
    /\ engine' = "up"
    /\ this' = NULL
    /\ now' = <<>> /\ next' = <<>> /\ pool' = <<>>
    /\ count' = 0
    /\ UNCHANGED <<state, func, ret, joiner>>

MainStep ==
    \/ MainRun
    \/ InMain /\ \E d \in Coros : WakeupCall(d)
    \/ InMain /\ \E f \in Funcs : Spawn(f)
    \/ \E d \in Coros : MainJoin(d)
    \/ MainDestroy
    \/ MainInit

EngineNext ==
    \/ \E c \in Coros : CoroStep(c) \/ JoinResume(c)
    \/ SchedStep
    \/ MainStep

EngineSpec == EngineCreate /\ [][EngineNext]_engineVars

-----------------------------------------------------------------------------
EngineTypeOK ==
    /\ engine \in {"up", "down", "exit"}
    /\ this \in Coros \cup {Sched, NULL}
    /\ now \in Seq(Coros \cup {Sched})
    /\ next \in Seq(Coros)
    /\ pool \in Seq(Coros)
    /\ count \in Nat
    /\ state \in [Coros -> {"NONE", "RUNNING", "SUSPENDED", "FINISHED"}]
    /\ func \in [Coros -> Funcs \cup {NULL}]
    /\ ret \in [Coros -> Funcs \cup {NULL}]
    /\ joiner \in [Coros -> Coros \cup {NULL}]

(* The intrusive link of a coroutine is in at most one list and at most    *)
(* once, never while it runs, and the state says which: this is what the   *)
(* assert(rlist_empty(&...->link)) of every list operation relies on.      *)
NoRepeat(s) == \A i, j \in 1..Len(s) : s[i] = s[j] => i = j

OneHome ==
    /\ NoRepeat(now) /\ NoRepeat(next) /\ NoRepeat(pool)
    /\ Range(now) \cap Range(next) = {}
    /\ this \notin Range(now) \cup Range(next)
    /\ \A c \in Coros :
         /\ (c = this \/ c \in Range(now) \cup Range(next)) <=> state[c] = "RUNNING"
         /\ c \in Range(pool) => state[c] = "FINISHED" /\ joiner[c] = NULL

(* While a coroutine has control the scheduler waits at the very end of    *)
(* coros_running_now, so resume_next always finds somebody to resume; at   *)
(* all other times the list is empty.                                      *)
SchedulerLast ==
    /\ IF this \in Coros
       THEN now # <<>> /\ now[Len(now)] = Sched
       ELSE now = <<>>
    /\ engine # "up" => this = NULL

(* A coroutine in coro_join waits for one target only, is itself alive,    *)
(* and is already scheduled when that target has finished: the wakeup      *)
(* coro_body sends is never lost, whatever spurious wakeups came before it.*)
NoLostJoin ==
    \A c, d \in Coros : joiner[d] = c =>
        /\ state[c] \in {"RUNNING", "SUSPENDED"}
        /\ state[d] # "NONE"
        /\ state[d] = "FINISHED" => state[c] = "RUNNING"
        /\ \A e \in Coros : joiner[e] = c => e = d

(* A coroutine has a function to run until it finishes and a result from   *)
(* then until the join takes it: a pooled coroutine never starts without a *)
(* function nor hands out the result of its former life.                   *)
FuncOrResult ==
    \A c \in Coros :
        /\ func[c] # NULL <=> state[c] \in {"RUNNING", "SUSPENDED"}
        /\ ret[c] # NULL <=> state[c] = "FINISHED" /\ c \notin Range(pool)

(* When every coroutine is joined, the asserts of coro_engine_destroy hold:*)
(* nothing is queued to run and coro_count counts exactly the pool.        *)
DestroyFreesAll ==
    /\ InMain /\ Unjoined = {} => next = <<>> /\ count = Len(pool)
    /\ engine = "down" => count = 0 /\ Allocated = {}
=============================================================================
