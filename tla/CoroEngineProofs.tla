-------------------------- MODULE CoroEngineProofs --------------------------
(* Proofs about the coroutine engine, for any number of coroutines.        *)
EXTENDS CoroEngine, SequenceTheorems, FiniteSetTheorems, TLAPS

(* What the list operations of rlist.h do to the set of linked elements    *)
(* and to the absence of repetitions.                                      *)
LEMMA AppendLinks ==
    ASSUME NEW S, NEW s \in Seq(S), NEW e \in S
    PROVE  /\ Range(Append(s, e)) = Range(s) \cup {e}
           /\ NoRepeat(s) /\ e \notin Range(s) => NoRepeat(Append(s, e))
           /\ Append(s, e) # <<>>
           /\ Append(s, e)[Len(Append(s, e))] = e
<1>1. /\ Len(Append(s, e)) = Len(s) + 1
      /\ \A i \in 1..Len(s) : Append(s, e)[i] = s[i]
      /\ Append(s, e)[Len(s) + 1] = e
      /\ Append(s, e) \in Seq(S)
      /\ Append(s, e) # <<>>
  BY AppendProperties
<1>2. DOMAIN s = 1..Len(s) /\ DOMAIN Append(s, e) = 1..Len(s) + 1 /\ Len(s) \in Nat
  BY <1>1, LenProperties
<1>3. Range(Append(s, e)) = Range(s) \cup {e}
  BY <1>1, <1>2 DEF Range
<1>4. NoRepeat(s) /\ e \notin Range(s) => NoRepeat(Append(s, e))
  BY <1>1, <1>2 DEF Range, NoRepeat
<1>. QED BY <1>1, <1>3, <1>4

(* Removing the head (rlist_shift_entry) leaves the others, in order.      *)
LEMMA ShiftLinks ==
    ASSUME NEW S, NEW s \in Seq(S), s # <<>>
    PROVE  /\ Head(s) \in Range(s) /\ Head(s) \in S /\ Tail(s) \in Seq(S)
           /\ NoRepeat(s) => NoRepeat(Tail(s)) /\ Range(Tail(s)) = Range(s) \ {Head(s)}
           /\ Tail(s) # <<>> => Tail(s)[Len(Tail(s))] = s[Len(s)]
           /\ NoRepeat(s) /\ Head(s) = s[Len(s)] => Tail(s) = <<>>
<1>1. /\ Head(s) = s[1] /\ Head(s) \in S
      /\ Tail(s) \in Seq(S)
      /\ Len(Tail(s)) = Len(s) - 1
      /\ \A i \in 1..Len(s) - 1 : Tail(s)[i] = s[i + 1]
  BY HeadTailProperties, LenProperties, ElementOfSeq, EmptySeq
<1>2. /\ DOMAIN s = 1..Len(s) /\ Len(s) \in Nat /\ Len(s) # 0
      /\ DOMAIN Tail(s) = 1..Len(s) - 1
  BY <1>1, LenProperties, EmptySeq
<1>3. Head(s) \in Range(s)
  BY <1>1, <1>2 DEF Range
<1>4. ASSUME NoRepeat(s) PROVE NoRepeat(Tail(s)) /\ Range(Tail(s)) = Range(s) \ {Head(s)}
  <2>1. NoRepeat(Tail(s))
    BY <1>1, <1>2, <1>4 DEF NoRepeat
  <2>2. \A x \in Range(Tail(s)) : x \in Range(s) \ {Head(s)}
    BY <1>1, <1>2, <1>4 DEF NoRepeat, Range
  <2>3. ASSUME NEW x \in Range(s) \ {Head(s)} PROVE x \in Range(Tail(s))
    <3>1. PICK i \in 1..Len(s) : s[i] = x
      BY <1>2 DEF Range
    <3>2. i # 1 /\ i - 1 \in 1..Len(s) - 1
      BY <1>1, <1>2, <3>1
    <3>3. Tail(s)[i - 1] = s[i]
      BY <1>1, <3>1, <3>2
    <3>. QED BY <1>2, <3>1, <3>2, <3>3 DEF Range
  <2>. QED BY <2>1, <2>2, <2>3
<1>5. Tail(s) # <<>> => Tail(s)[Len(Tail(s))] = s[Len(s)]
  <2>1. Tail(s) # <<>> => Len(s) - 1 \in 1..Len(s) - 1
    BY <1>1, <1>2, EmptySeq
  <2>. QED BY <2>1, <1>1, <1>2
<1>6. NoRepeat(s) /\ Head(s) = s[Len(s)] => Tail(s) = <<>>
  <2>1. NoRepeat(s) /\ Head(s) = s[Len(s)] => Len(s) = 1
    BY <1>1, <1>2 DEF NoRepeat
  <2>. QED BY <2>1, <1>1, EmptySeq
<1>. QED BY <1>1, <1>3, <1>4, <1>5, <1>6

(* Linking in front (rlist_add_entry), as coro_engine_join does to the     *)
(* pool.                                                                   *)
LEMMA PushFrontLinks ==
    ASSUME NEW S, NEW s \in Seq(S), NEW e \in S
    PROVE  /\ <<e>> \o s \in Seq(S)
           /\ Range(<<e>> \o s) = Range(s) \cup {e}
           /\ NoRepeat(s) /\ e \notin Range(s) => NoRepeat(<<e>> \o s)
<1>. DEFINE t == <<e>> \o s
<1>1. <<e>> \in Seq(S) /\ Len(<<e>>) = 1 /\ <<e>>[1] = e
  OBVIOUS
<1>2. /\ t \in Seq(S)
      /\ Len(t) = Len(s) + 1
      /\ t[1] = e
      /\ \A i \in 2..Len(s) + 1 : t[i] = s[i - 1]
  BY <1>1, ConcatProperties, LenProperties
<1>3. DOMAIN s = 1..Len(s) /\ DOMAIN t = 1..Len(s) + 1 /\ Len(s) \in Nat
  BY <1>2, LenProperties
<1>. HIDE DEF t
<1>4. \A x \in Range(t) : x \in Range(s) \cup {e}
  BY <1>2, <1>3 DEF Range
<1>5. e \in Range(t)
  BY <1>2, <1>3 DEF Range
<1>6. ASSUME NEW x \in Range(s) PROVE x \in Range(t)
  <2>1. PICK i \in 1..Len(s) : s[i] = x
    BY <1>3 DEF Range
  <2>2. i + 1 \in 2..Len(s) + 1 /\ t[i + 1] = x
    BY <1>2, <1>3, <2>1
  <2>. QED BY <2>2, <1>3 DEF Range
<1>7. ASSUME NoRepeat(s), e \notin Range(s) PROVE NoRepeat(t)
  <2>1. \A i \in 2..Len(s) + 1 : i - 1 \in 1..Len(s) /\ t[i] = s[i - 1]
    BY <1>2, <1>3
  <2>2. \A i \in 2..Len(s) + 1 : t[i] # e
    BY <2>1, <1>3, <1>7 DEF Range
  <2>3. \A i, j \in 2..Len(s) + 1 : t[i] = t[j] => i = j
    <3>. SUFFICES ASSUME NEW i \in 2..Len(s) + 1, NEW j \in 2..Len(s) + 1, t[i] = t[j]
                  PROVE  i = j
      OBVIOUS
    <3>1. s[i - 1] = s[j - 1] /\ i - 1 \in 1..Len(s) /\ j - 1 \in 1..Len(s)
      BY <2>1
    <3>2. i - 1 = j - 1
      BY <3>1, <1>7 DEF NoRepeat
    <3>. QED BY <3>2, <1>3
  <2>4. \A i \in 1..Len(s) + 1 : i = 1 \/ i \in 2..Len(s) + 1
    BY <1>3
  <2>. QED BY <1>2, <1>3, <2>2, <2>3, <2>4 DEF NoRepeat
<1>. QED BY <1>2, <1>4, <1>5, <1>6, <1>7 DEF t

(* An initialised list (rlist_create) links nothing.                       *)
LEMMA EmptyLinks == Range(<<>>) = {} /\ NoRepeat(<<>>)
  BY DEF Range, NoRepeat

(* A list without repetitions has as many elements as links.               *)
LEMMA LinkCount ==
    ASSUME NEW S, NEW s \in Seq(S), NoRepeat(s)
    PROVE  IsFiniteSet(Range(s)) /\ Cardinality(Range(s)) = Len(s)
<1>1. Len(s) \in Nat /\ DOMAIN s = 1..Len(s) /\ s \in [1..Len(s) -> Range(s)]
  <2>1. Len(s) \in Nat /\ DOMAIN s = 1..Len(s) /\ s = [i \in 1..Len(s) |-> s[i]]
    BY LenProperties
  <2>. QED BY <2>1 DEF Range
<1>2. s \in Bijection(1..Len(s), Range(s))
  <2>1. s \in Injection(1..Len(s), Range(s))
    BY <1>1 DEF Injection, IsInjective, NoRepeat
  <2>2. \A y \in Range(s) : \E i \in 1..Len(s) : s[i] = y
    BY <1>1 DEF Range
  <2>. QED BY <1>1, <2>1, <2>2 DEF Bijection, Surjection
<1>3. ExistsBijection(1..Len(s), Range(s))
  BY <1>2 DEF ExistsBijection
<1>. QED BY <1>1, <1>3, FS_NatBijection, FS_CountingElements

-----------------------------------------------------------------------------
(* coro_count counts the allocated coroutines, and destroying the engine   *)
(* leaves none.                                                            *)
CountsAllocated ==
    /\ IsFiniteSet(Allocated)
    /\ count = Cardinality(Allocated)
    /\ engine = "down" => Allocated = {}

(* The inductive invariant.  Type correctness alone is not inductive: that *)
(* resume_next finds a coroutine needs SchedulerLast, which needs the      *)
(* absence of repetitions; that count stays natural in coro_sched_destroy  *)
(* needs CountsAllocated.                                                  *)
EngineInv ==
    /\ EngineTypeOK
    /\ OneHome
    /\ SchedulerLast
    /\ NoLostJoin
    /\ FuncOrResult
    /\ CountsAllocated

(* A switch by coro_engine_resume_next takes the head out of the list of   *)
(* the current iteration, and the scheduler is resumed last.               *)
LEMMA ResumeLinks ==
    ASSUME EngineInv, this \in Coros, ResumeNext
    PROVE  /\ this' \in Range(now) /\ this' \in Coros \cup {Sched}
           /\ now' \in Seq(Coros \cup {Sched})
           /\ NoRepeat(now') /\ Range(now') = Range(now) \ {this'}
           /\ IF this' \in Coros THEN now' # <<>> /\ now'[Len(now')] = Sched
                                 ELSE now' = <<>>
<1>1. /\ now \in Seq(Coros \cup {Sched}) /\ NoRepeat(now)
      /\ now # <<>> /\ now[Len(now)] = Sched
      /\ this' = Head(now) /\ now' = Tail(now)
  BY DEF EngineInv, EngineTypeOK, OneHome, SchedulerLast, ResumeNext
<1>2. /\ this' \in Range(now) /\ this' \in Coros \cup {Sched}
      /\ now' \in Seq(Coros \cup {Sched})
      /\ NoRepeat(now') /\ Range(now') = Range(now) \ {this'}
      /\ now' # <<>> => now'[Len(now')] = Sched
  BY <1>1, ShiftLinks
<1>3. ASSUME this' \in Coros PROVE now' # <<>>
  <2>1. Len(now) \in Nat /\ Len(now) # 0 /\ Head(now) = now[1] /\ Len(Tail(now)) = Len(now) - 1
    BY <1>1, HeadTailProperties, LenProperties, EmptySeq
  <2>2. Len(now) # 1
    BY <1>1, <1>3, <2>1, SchedAssumption
  <2>. QED BY <1>1, <2>1, <2>2, EmptySeq
<1>4. this' \notin Coros => now' = <<>>
  BY <1>1, <1>2, ShiftLinks
<1>. QED BY <1>2, <1>3, <1>4

(* A step that neither allocates nor frees keeps the count right.          *)
LEMMA CountUnchanged ==
    ASSUME CountsAllocated, UNCHANGED count,
           engine' = "down" => engine = "down",
           \A c \in Coros : state'[c] = "NONE" <=> state[c] = "NONE"
    PROVE  CountsAllocated'
<1>1. Allocated' = Allocated
  BY DEF Allocated
<1>. QED BY <1>1 DEF CountsAllocated

-----------------------------------------------------------------------------
(* One lemma per operation: it preserves the invariant.  First coro_yield. *)
LEMMA YieldInv ==
    ASSUME EngineInv, NEW c \in Coros, Yield(c)
    PROVE  EngineInv'
<1>. USE DEF Yield, InUserCode
<1>1. this = c /\ engine = "up"
  OBVIOUS
<1>2. /\ this' \in Range(now) /\ this' \in Coros \cup {Sched}
      /\ now' \in Seq(Coros \cup {Sched})
      /\ NoRepeat(now') /\ Range(now') = Range(now) \ {this'}
      /\ IF this' \in Coros THEN now' # <<>> /\ now'[Len(now')] = Sched
                            ELSE now' = <<>>
  BY <1>1, ResumeLinks
<1>3. /\ next' \in Seq(Coros) /\ NoRepeat(next') /\ Range(next') = Range(next) \cup {c}
  <2>1. next \in Seq(Coros) /\ NoRepeat(next) /\ c \notin Range(next)
    BY <1>1 DEF EngineInv, EngineTypeOK, OneHome
  <2>. QED BY <2>1, AppendLinks, AppendProperties
<1>4. EngineTypeOK'
  BY <1>2, <1>3 DEF EngineInv, EngineTypeOK
<1>5. OneHome'
  BY <1>1, <1>2, <1>3 DEF EngineInv, OneHome
<1>6. SchedulerLast'
  BY <1>1, <1>2 DEF EngineInv, SchedulerLast
<1>7. NoLostJoin' /\ FuncOrResult'
  BY DEF EngineInv, NoLostJoin, FuncOrResult
<1>8. CountsAllocated'
  BY CountUnchanged DEF EngineInv
<1>. QED BY <1>4, <1>5, <1>6, <1>7, <1>8 DEF EngineInv

(* Leaving the processor in coro_engine_suspend, alone or inside a join:   *)
(* the caller may become the joiner of an unfinished coroutine.            *)
LEMMA SuspendThisInv ==
    ASSUME EngineInv, NEW c \in Coros, this = c, SuspendThis(c),
           UNCHANGED <<engine, next, pool, count, func, ret>>,
           \/ UNCHANGED joiner /\ JoinTargets(c) = {}
           \/ \E d \in Coros : /\ state[d] \in {"RUNNING", "SUSPENDED"}
                               /\ joiner[d] = NULL => JoinTargets(c) = {}
                               /\ joiner[d] \in {NULL, c}
                               /\ joiner' = [joiner EXCEPT ![d] = c]
    PROVE  EngineInv'
<1>. USE DEF SuspendThis
<1>0. state' = [state EXCEPT ![c] = "SUSPENDED"] /\ state[c] = "RUNNING"
  BY DEF EngineInv, OneHome
<1>2. /\ this' \in Range(now) /\ this' \in Coros \cup {Sched}
      /\ now' \in Seq(Coros \cup {Sched})
      /\ NoRepeat(now') /\ Range(now') = Range(now) \ {this'}
      /\ IF this' \in Coros THEN now' # <<>> /\ now'[Len(now')] = Sched
                            ELSE now' = <<>>
  BY ResumeLinks
<1>3. joiner' \in [Coros -> Coros \cup {NULL}]
  BY DEF EngineInv, EngineTypeOK
<1>4. EngineTypeOK'
  BY <1>0, <1>2, <1>3 DEF EngineInv, EngineTypeOK
<1>5. OneHome'
  BY <1>0, <1>2, <1>4 DEF EngineInv, EngineTypeOK, OneHome
<1>6. SchedulerLast'
  BY <1>2, NullAssumption DEF EngineInv, SchedulerLast
<1>7. NoLostJoin'
  <2>1. CASE UNCHANGED joiner /\ JoinTargets(c) = {}
    BY <1>0, <2>1 DEF EngineInv, EngineTypeOK, NoLostJoin, JoinTargets
  <2>2. CASE \E d \in Coros : /\ state[d] \in {"RUNNING", "SUSPENDED"}
                               /\ joiner[d] = NULL => JoinTargets(c) = {}
                               /\ joiner[d] \in {NULL, c}
                               /\ joiner' = [joiner EXCEPT ![d] = c]
    BY <1>0, <2>2 DEF EngineInv, EngineTypeOK, NoLostJoin, JoinTargets
  <2>. QED BY <2>1, <2>2
<1>8. FuncOrResult'
  BY <1>0 DEF EngineInv, EngineTypeOK, FuncOrResult
<1>9. CountsAllocated'
  BY <1>0, CountUnchanged DEF EngineInv, EngineTypeOK
<1>. QED BY <1>4, <1>5, <1>6, <1>7, <1>8, <1>9 DEF EngineInv

(* coro_engine_wakeup, called from anywhere on any coroutine.              *)
LEMMA WakeupInv ==
    ASSUME EngineInv, NEW d \in Coros, WakeupCall(d)
    PROVE  EngineInv'
<1>. USE DEF WakeupCall, Wakeup
<1>1. CASE UNCHANGED <<state, next>>
  <2>1. EngineTypeOK' /\ OneHome' /\ SchedulerLast' /\ NoLostJoin' /\ FuncOrResult'
    BY <1>1 DEF EngineInv, EngineTypeOK, OneHome, SchedulerLast, NoLostJoin, FuncOrResult
  <2>2. CountsAllocated'
    BY <1>1, CountUnchanged DEF EngineInv
  <2>. QED BY <2>1, <2>2 DEF EngineInv
<1>2. CASE /\ state[d] = "SUSPENDED"
           /\ state' = [state EXCEPT ![d] = "RUNNING"]
           /\ next' = Append(next, d)
  <2>1. next' \in Seq(Coros) /\ NoRepeat(next') /\ Range(next') = Range(next) \cup {d}
    <3>1. next \in Seq(Coros) /\ NoRepeat(next) /\ d \notin Range(next)
      BY <1>2 DEF EngineInv, EngineTypeOK, OneHome
    <3>. QED BY <1>2, <3>1, AppendLinks, AppendProperties
  <2>2. EngineTypeOK'
    BY <1>2, <2>1 DEF EngineInv, EngineTypeOK
  <2>3. OneHome'
    BY <1>2, <2>1 DEF EngineInv, EngineTypeOK, OneHome
  <2>4. SchedulerLast'
    BY DEF EngineInv, SchedulerLast
  <2>5. NoLostJoin' /\ FuncOrResult'
    BY <1>2 DEF EngineInv, EngineTypeOK, NoLostJoin, FuncOrResult
  <2>6. CountsAllocated'
    BY <1>2, CountUnchanged DEF EngineInv, EngineTypeOK
  <2>. QED BY <2>2, <2>3, <2>4, <2>5, <2>6 DEF EngineInv
<1>. QED BY <1>1, <1>2

(* coro_engine_spawn with a coroutine from the pool.                       *)
LEMMA SpawnReuseInv ==
    ASSUME EngineInv, NEW f \in Funcs, SpawnReuse(f)
    PROVE  EngineInv'
<1>. DEFINE d == Head(pool)
<1>1. pool \in Seq(Coros) /\ pool # <<>> /\ NoRepeat(pool) /\ next \in Seq(Coros) /\ NoRepeat(next)
  BY DEF EngineInv, EngineTypeOK, OneHome, SpawnReuse
<1>2. /\ d \in Coros /\ d \in Range(pool)
      /\ pool' \in Seq(Coros) /\ NoRepeat(pool') /\ Range(pool') = Range(pool) \ {d}
  BY <1>1, ShiftLinks DEF SpawnReuse
<1>3. state[d] = "FINISHED" /\ joiner[d] = NULL
  BY <1>2 DEF EngineInv, OneHome
<1>. HIDE DEF d
<1>4. /\ state' = [state EXCEPT ![d] = "RUNNING"]
      /\ func' = [func EXCEPT ![d] = f]
      /\ next' = Append(next, d)
      /\ UNCHANGED <<engine, this, now, count, ret, joiner>>
  BY DEF SpawnReuse, d
<1>5. next' \in Seq(Coros) /\ NoRepeat(next') /\ Range(next') = Range(next) \cup {d}
  <2>1. d \notin Range(next)
    BY <1>2, <1>3 DEF EngineInv, OneHome
  <2>. QED BY <1>1, <1>2, <1>4, <2>1, AppendLinks, AppendProperties
<1>6. EngineTypeOK'
  BY <1>2, <1>4, <1>5 DEF EngineInv, EngineTypeOK
<1>7. OneHome'
  BY <1>2, <1>3, <1>4, <1>5 DEF EngineInv, EngineTypeOK, OneHome
<1>8. SchedulerLast'
  BY <1>4 DEF EngineInv, SchedulerLast
<1>9. NoLostJoin'
  BY <1>2, <1>3, <1>4 DEF EngineInv, EngineTypeOK, NoLostJoin
<1>10. FuncOrResult'
  BY <1>2, <1>3, <1>4, NullAssumption DEF EngineInv, EngineTypeOK, FuncOrResult
<1>11. CountsAllocated'
  BY <1>2, <1>3, <1>4, CountUnchanged DEF EngineInv, EngineTypeOK
<1>. QED BY <1>6, <1>7, <1>8, <1>9, <1>10, <1>11 DEF EngineInv

(* coro_engine_spawn_new.                                                  *)
LEMMA SpawnNewInv ==
    ASSUME EngineInv, engine = "up", NEW f \in Funcs, SpawnNew(f)
    PROVE  EngineInv'
<1>1. PICK d \in Coros \ Allocated :
         /\ state' = [state EXCEPT ![d] = "RUNNING"]
         /\ func' = [func EXCEPT ![d] = f]
         /\ ret' = [ret EXCEPT ![d] = NULL]
         /\ joiner' = [joiner EXCEPT ![d] = NULL]
         /\ next' = Append(next, d)
  BY DEF SpawnNew
<1>2. count' = count + 1 /\ UNCHANGED <<engine, this, now, pool>>
  BY DEF SpawnNew
<1>3. state[d] = "NONE"
  BY DEF Allocated
<1>4. next' \in Seq(Coros) /\ NoRepeat(next') /\ Range(next') = Range(next) \cup {d}
  <2>1. next \in Seq(Coros) /\ NoRepeat(next) /\ d \notin Range(next)
    BY <1>3 DEF EngineInv, EngineTypeOK, OneHome
  <2>. QED BY <1>1, <2>1, AppendLinks, AppendProperties
<1>5. EngineTypeOK'
  BY <1>1, <1>2, <1>4 DEF EngineInv, EngineTypeOK
<1>6. OneHome'
  BY <1>1, <1>2, <1>3, <1>4 DEF EngineInv, EngineTypeOK, OneHome
<1>7. SchedulerLast'
  BY <1>2 DEF EngineInv, SchedulerLast
<1>8. NoLostJoin'
  BY <1>1, <1>3, NullAssumption DEF EngineInv, EngineTypeOK, NoLostJoin
<1>9. FuncOrResult'
  BY <1>1, <1>2, <1>3, NullAssumption DEF EngineInv, EngineTypeOK, FuncOrResult
<1>10. CountsAllocated'
  <2>1. Allocated' = Allocated \cup {d}
    BY <1>1 DEF Allocated, EngineInv, EngineTypeOK
  <2>2. IsFiniteSet(Allocated') /\ Cardinality(Allocated') = count + 1
    BY <2>1, FS_AddElement DEF EngineInv, CountsAllocated
  <2>. QED BY <1>2, <2>2 DEF CountsAllocated
<1>. QED BY <1>5, <1>6, <1>7, <1>8, <1>9, <1>10 DEF EngineInv

(* The end of coro_engine_join moves the finished coroutine to the pool.   *)
LEMMA JoinReturnInv ==
    ASSUME EngineInv, NEW d \in Coros, state[d] = "FINISHED", d \notin Range(pool), JoinReturn(d)
    PROVE  EngineInv'
<1>. USE DEF JoinReturn
<1>1. pool' \in Seq(Coros) /\ NoRepeat(pool') /\ Range(pool') = Range(pool) \cup {d}
  <2>1. pool \in Seq(Coros) /\ NoRepeat(pool)
    BY DEF EngineInv, EngineTypeOK, OneHome
  <2>. QED BY <2>1, PushFrontLinks
<1>2. EngineTypeOK'
  BY <1>1 DEF EngineInv, EngineTypeOK
<1>3. OneHome'
  BY <1>1 DEF EngineInv, EngineTypeOK, OneHome
<1>4. SchedulerLast'
  BY DEF EngineInv, SchedulerLast
<1>5. NoLostJoin'
  BY NullAssumption DEF EngineInv, EngineTypeOK, NoLostJoin
<1>6. FuncOrResult'
  BY <1>1 DEF EngineInv, EngineTypeOK, FuncOrResult
<1>7. CountsAllocated'
  BY CountUnchanged DEF EngineInv
<1>. QED BY <1>2, <1>3, <1>4, <1>5, <1>6, <1>7 DEF EngineInv

(* A call of coro_join and its continuation after a switch.                *)
LEMMA JoinInv ==
    ASSUME EngineInv, NEW c \in Coros, NEW d \in Coros, Join(c, d)
    PROVE  EngineInv'
<1>1. CASE state[d] = "FINISHED" /\ JoinReturn(d)
  BY <1>1, JoinReturnInv DEF Join, Unjoined
<1>2. CASE /\ state[d] \in {"RUNNING", "SUSPENDED"}
           /\ joiner' = [joiner EXCEPT ![d] = c]
           /\ SuspendThis(c)
           /\ UNCHANGED <<engine, next, pool, count, func, ret>>
  BY <1>2, SuspendThisInv DEF Join, InUserCode
<1>. QED BY <1>1, <1>2 DEF Join, JoinLoop

(* A coroutine resumed inside coro_engine_join.                            *)
LEMMA JoinResumeInv ==
    ASSUME EngineInv, NEW c \in Coros, JoinResume(c)
    PROVE  EngineInv'
<1>1. PICK d \in Coros : joiner[d] = c /\ JoinLoop(c, d)
  BY DEF JoinResume, JoinTargets
<1>2. this = c /\ d \notin Range(pool) /\ joiner[d] # NULL
  BY <1>1, NullAssumption DEF JoinResume, EngineInv, OneHome
<1>3. CASE state[d] = "FINISHED" /\ JoinReturn(d)
  BY <1>2, <1>3, JoinReturnInv
<1>4. CASE /\ state[d] \in {"RUNNING", "SUSPENDED"}
           /\ joiner' = [joiner EXCEPT ![d] = c]
           /\ SuspendThis(c)
           /\ UNCHANGED <<engine, next, pool, count, func, ret>>
  BY <1>1, <1>2, <1>4, SuspendThisInv
<1>. QED BY <1>1, <1>3, <1>4 DEF JoinLoop

(* The end of coro_body: only the joiner is woken up.                      *)
LEMMA FinishInv ==
    ASSUME EngineInv, NEW c \in Coros, Finish(c)
    PROVE  EngineInv'
<1>. DEFINE j == joiner[c]
<1>1. /\ this = c /\ engine = "up" /\ JoinTargets(c) = {}
      /\ ret' = [ret EXCEPT ![c] = func[c]]
      /\ func' = [func EXCEPT ![c] = NULL]
      /\ ResumeNext
      /\ UNCHANGED <<engine, pool, count, joiner>>
  BY DEF Finish, InUserCode
<1>2. state[c] = "RUNNING" /\ c \notin Range(pool) /\ func[c] # NULL
  BY <1>1 DEF EngineInv, OneHome, FuncOrResult
<1>3. /\ this' \in Range(now) /\ this' \in Coros \cup {Sched}
      /\ now' \in Seq(Coros \cup {Sched})
      /\ NoRepeat(now') /\ Range(now') = Range(now) \ {this'}
      /\ IF this' \in Coros THEN now' # <<>> /\ now'[Len(now')] = Sched
                            ELSE now' = <<>>
  BY <1>1, ResumeLinks
<1>4. j \in Coros \cup {NULL} /\ j # c
      /\ (j # NULL => j \in Coros /\ state[j] \in {"RUNNING", "SUSPENDED"})
  BY <1>1 DEF EngineInv, EngineTypeOK, NoLostJoin, JoinTargets
<1>5. SchedulerLast'
  BY <1>1, <1>3 DEF EngineInv, SchedulerLast
<1>6. CASE j # NULL /\ state[j] = "SUSPENDED"
  <2>1. /\ state' = [state EXCEPT ![c] = "FINISHED", ![j] = "RUNNING"]
        /\ next' = Append(next, j)
    BY <1>6 DEF Finish
  <2>. HIDE DEF j
  <2>2. next' \in Seq(Coros) /\ NoRepeat(next') /\ Range(next') = Range(next) \cup {j}
    <3>1. next \in Seq(Coros) /\ NoRepeat(next) /\ j \notin Range(next)
      BY <1>4, <1>6 DEF EngineInv, EngineTypeOK, OneHome
    <3>. QED BY <1>4, <1>6, <2>1, <3>1, AppendLinks, AppendProperties
  <2>3. /\ state' \in [Coros -> {"NONE", "RUNNING", "SUSPENDED", "FINISHED"}]
        /\ state'[c] = "FINISHED" /\ state'[j] = "RUNNING"
        /\ \A e \in Coros \ {c, j} : state'[e] = state[e]
    BY <1>4, <1>6, <2>1 DEF EngineInv, EngineTypeOK
  <2>4. EngineTypeOK'
    BY <1>1, <1>3, <2>2, <2>3 DEF EngineInv, EngineTypeOK
  <2>5. OneHome'
    BY <1>1, <1>2, <1>3, <1>4, <1>6, <2>2, <2>3 DEF EngineInv, OneHome
  <2>6. NoLostJoin'
    <3>. SUFFICES ASSUME NEW a \in Coros, NEW b \in Coros, joiner[b] = a
                  PROVE  /\ state'[a] \in {"RUNNING", "SUSPENDED"}
                         /\ state'[b] # "NONE"
                         /\ state'[b] = "FINISHED" => state'[a] = "RUNNING"
                         /\ \A e \in Coros : joiner[e] = a => e = b
      BY <1>1 DEF NoLostJoin
    <3>1. a # c /\ (b = c => a = j)
      BY <1>1 DEF JoinTargets, j
    <3>2. /\ state[a] \in {"RUNNING", "SUSPENDED"} /\ state[b] # "NONE"
          /\ state[b] = "FINISHED" => state[a] = "RUNNING"
          /\ \A e \in Coros : joiner[e] = a => e = b
      BY DEF EngineInv, NoLostJoin
    <3>. QED BY <1>4, <1>6, <2>3, <3>1, <3>2
  <2>7. FuncOrResult'
    BY <1>1, <1>2, <1>4, <1>6, <2>3 DEF EngineInv, EngineTypeOK, FuncOrResult
  <2>8. CountsAllocated'
    BY <1>1, <1>2, <1>4, <1>6, <2>3, CountUnchanged DEF EngineInv
  <2>. QED BY <1>5, <2>4, <2>5, <2>6, <2>7, <2>8 DEF EngineInv
<1>7. CASE ~(j # NULL /\ state[j] = "SUSPENDED")
  <2>1. state' = [state EXCEPT ![c] = "FINISHED"] /\ UNCHANGED next
    BY <1>7 DEF Finish
  <2>2. EngineTypeOK'
    BY <1>1, <1>3, <2>1 DEF EngineInv, EngineTypeOK
  <2>3. OneHome'
    BY <1>1, <1>2, <1>3, <2>1 DEF EngineInv, EngineTypeOK, OneHome
  <2>4. NoLostJoin'
    BY <1>1, <1>4, <1>7, <2>1, NullAssumption DEF EngineInv, EngineTypeOK, NoLostJoin, JoinTargets
  <2>5. FuncOrResult'
    BY <1>1, <1>2, <2>1 DEF EngineInv, EngineTypeOK, FuncOrResult
  <2>6. CountsAllocated'
    BY <1>1, <1>2, <2>1, CountUnchanged DEF EngineInv, EngineTypeOK
  <2>. QED BY <1>5, <2>2, <2>3, <2>4, <2>5, <2>6 DEF EngineInv
<1>. QED BY <1>6, <1>7

(* An iteration of coro_engine_run: the next list becomes the current one. *)
LEMMA RunLoopInv ==
    ASSUME EngineInv, engine = "up", this \in {Sched, NULL}, RunLoop
    PROVE  EngineInv'
<1>. USE DEF RunLoop
<1>1. next \in Seq(Coros) /\ NoRepeat(next) /\ now = <<>> /\ this \notin Coros /\ Range(now) = {}
  BY EmptyLinks, SchedAssumption, NullAssumption DEF EngineInv, EngineTypeOK, OneHome
<1>2. next' = <<>> /\ Range(next') = {} /\ NoRepeat(next') /\ next' \in Seq(Coros)
  BY EmptyLinks
<1>3. CASE next = <<>>
  <2>1. this' = NULL /\ now' = <<>> /\ Range(now') = {} /\ NoRepeat(now') /\ Range(next) = {}
    BY <1>3, EmptyLinks
  <2>2. EngineTypeOK'
    BY <1>2, <2>1 DEF EngineInv, EngineTypeOK
  <2>3. OneHome'
    BY <1>1, <1>2, <2>1, NullAssumption DEF EngineInv, OneHome
  <2>4. SchedulerLast'
    BY <2>1, NullAssumption DEF SchedulerLast
  <2>. QED BY <2>2, <2>3, <2>4, CountUnchanged DEF EngineInv, NoLostJoin, FuncOrResult
<1>4. CASE next # <<>>
  <2>1. /\ this' = Head(next) /\ this' \in Coros /\ this' \in Range(next)
        /\ Tail(next) \in Seq(Coros) /\ NoRepeat(Tail(next))
        /\ Range(Tail(next)) = Range(next) \ {this'}
    BY <1>1, <1>4, ShiftLinks
  <2>2. Tail(next) \in Seq(Coros \cup {Sched}) /\ Sched \notin Range(Tail(next))
    <3>1. Tail(next) \in Seq(Coros \cup {Sched})
      BY <2>1
    <3>2. Range(Tail(next)) \subseteq Coros
      BY <2>1, LenProperties, ElementOfSeq DEF Range
    <3>. QED BY <3>1, <3>2, SchedAssumption
  <2>3. /\ now' \in Seq(Coros \cup {Sched}) /\ NoRepeat(now')
        /\ Range(now') = (Range(next) \ {this'}) \cup {Sched}
        /\ now' # <<>> /\ now'[Len(now')] = Sched
    <3>1. now' = Append(Tail(next), Sched)
      BY <1>4
    <3>. DEFINE S == Coros \cup {Sched}
    <3>2. Tail(next) \in Seq(S) /\ Sched \in S
      BY <2>2
    <3>. HIDE DEF S, RunLoop
    <3>3. Append(Tail(next), Sched) \in Seq(S)
      BY <3>2, AppendProperties
    <3>4. /\ Range(now') = Range(Tail(next)) \cup {Sched}
          /\ NoRepeat(now') /\ now' # <<>> /\ now'[Len(now')] = Sched
      <4>. DEFINE t == Tail(next)
      <4>1. t \in Seq(S) /\ Sched \in S /\ NoRepeat(t) /\ Sched \notin Range(t)
        BY <2>1, <2>2, <3>2
      <4>. HIDE DEF t
      <4>2. /\ Range(Append(t, Sched)) = Range(t) \cup {Sched} /\ NoRepeat(Append(t, Sched))
            /\ Append(t, Sched) # <<>> /\ Append(t, Sched)[Len(Append(t, Sched))] = Sched
        BY <4>1, AppendLinks
      <4>. QED BY <3>1, <4>2 DEF t
    <3>. QED BY <2>1, <3>1, <3>3, <3>4 DEF S
  <2>4. EngineTypeOK'
    BY <1>2, <2>1, <2>3 DEF EngineInv, EngineTypeOK
  <2>5. OneHome'
    BY <1>1, <1>2, <2>1, <2>3, SchedAssumption DEF EngineInv, OneHome
  <2>6. SchedulerLast'
    BY <2>1, <2>3 DEF SchedulerLast
  <2>. QED BY <2>4, <2>5, <2>6, CountUnchanged DEF EngineInv, NoLostJoin, FuncOrResult
<1>. QED BY <1>3, <1>4

(* coro_join outside of any coroutine.                                     *)
LEMMA MainJoinInv ==
    ASSUME EngineInv, NEW d \in Coros, MainJoin(d)
    PROVE  EngineInv'
<1>1. CASE state[d] = "FINISHED" /\ JoinReturn(d)
  BY <1>1, JoinReturnInv DEF MainJoin, Unjoined
<1>2. CASE /\ engine' = "exit"
           /\ UNCHANGED <<this, now, next, pool, count, state, func, ret, joiner>>
  <2>1. this = NULL
    BY DEF MainJoin, InMain
  <2>2. CountsAllocated'
    BY <1>2, CountUnchanged DEF EngineInv
  <2>. QED BY <1>2, <2>1, <2>2
           DEF EngineInv, EngineTypeOK, OneHome, SchedulerLast, NoLostJoin, FuncOrResult
<1>. QED BY <1>1, <1>2 DEF MainJoin

(* With every handle joined, what is allocated is what is in the pool, and *)
(* nothing is left to run: the asserts of coro_engine_destroy.             *)
LEMMA AllPooled ==
    ASSUME EngineInv, Unjoined = {}, this = NULL
    PROVE  /\ \A c \in Coros : state[c] = "NONE" \/ c \in Range(pool)
           /\ \A c \in Coros : state[c] \in {"NONE", "FINISHED"}
           /\ now = <<>> /\ next = <<>> /\ count = Len(pool)
<1>1. \A c \in Coros : state[c] = "NONE" \/ c \in Range(pool)
  BY DEF Unjoined, Allocated
<1>2. \A c \in Coros : state[c] \in {"NONE", "FINISHED"}
  BY <1>1 DEF EngineInv, OneHome
<1>3. now = <<>>
  BY NullAssumption DEF EngineInv, SchedulerLast
<1>4. next = <<>>
  <2>1. SUFFICES ASSUME next # <<>> PROVE FALSE
    OBVIOUS
  <2>2. Head(next) \in Coros /\ Head(next) \in Range(next)
    BY <2>1, ShiftLinks DEF EngineInv, EngineTypeOK
  <2>. QED BY <1>2, <2>2 DEF EngineInv, OneHome
<1>5. count = Len(pool)
  <2>1. pool \in Seq(Coros) /\ NoRepeat(pool)
    BY DEF EngineInv, EngineTypeOK, OneHome
  <2>2. Range(pool) \subseteq Coros
    BY <2>1, LenProperties, ElementOfSeq DEF Range
  <2>3. Range(pool) = Allocated
    BY <1>1, <2>2 DEF Allocated, EngineInv, OneHome
  <2>. QED BY <2>1, <2>3, LinkCount DEF EngineInv, CountsAllocated
<1>. QED BY <1>1, <1>2, <1>3, <1>4, <1>5

(* coro_engine_destroy empties the pool, and nothing else is allocated.    *)
LEMMA MainDestroyInv ==
    ASSUME EngineInv, MainDestroy
    PROVE  EngineInv'
<1>. USE DEF MainDestroy, InMain
<1>1. /\ \A c \in Coros : state[c] = "NONE" \/ c \in Range(pool)
      /\ \A c \in Coros : state[c] \in {"NONE", "FINISHED"}
      /\ this = NULL /\ now = <<>> /\ next = <<>> /\ count = Len(pool)
  BY AllPooled
<1>2. \A c \in Coros : state'[c] = "NONE"
  BY <1>1
<1>3. pool' = <<>> /\ Range(pool') = {} /\ NoRepeat(pool') /\ count' = 0
  <2>1. Len(pool) \in Nat
    BY LenProperties DEF EngineInv, EngineTypeOK
  <2>. QED BY <1>1, <2>1, EmptyLinks
<1>4. EngineTypeOK'
  BY <1>1, <1>3 DEF EngineInv, EngineTypeOK
<1>5. OneHome'
  BY <1>1, <1>2, <1>3, EmptyLinks, NullAssumption DEF EngineInv, OneHome
<1>6. SchedulerLast'
  BY <1>1, NullAssumption DEF SchedulerLast
<1>7. NoLostJoin'
  BY <1>1 DEF EngineInv, NoLostJoin
<1>8. FuncOrResult'
  BY <1>1, <1>2, <1>3 DEF EngineInv, FuncOrResult
<1>9. CountsAllocated'
  <2>1. Allocated' = {}
    BY <1>2 DEF Allocated
  <2>. QED BY <1>3, <2>1, FS_EmptySet DEF CountsAllocated
<1>. QED BY <1>4, <1>5, <1>6, <1>7, <1>8, <1>9 DEF EngineInv

(* A second coro_sched_init.                                               *)
LEMMA MainInitInv ==
    ASSUME EngineInv, MainInit
    PROVE  EngineInv'
<1>. USE DEF MainInit
<1>1. \A c \in Coros : state[c] = "NONE"
  BY DEF EngineInv, CountsAllocated, Allocated
<1>2. EngineTypeOK'
  BY DEF EngineInv, EngineTypeOK
<1>3. OneHome'
  BY <1>1, EmptyLinks, NullAssumption DEF OneHome
<1>4. SchedulerLast'
  BY NullAssumption DEF SchedulerLast
<1>5. NoLostJoin'
  BY DEF EngineInv, NoLostJoin
<1>6. FuncOrResult'
  BY <1>1, EmptyLinks DEF EngineInv, FuncOrResult
<1>7. CountsAllocated'
  <2>1. Allocated' = {}
    BY <1>1 DEF Allocated
  <2>. QED BY <2>1, FS_EmptySet DEF CountsAllocated
<1>. QED BY <1>2, <1>3, <1>4, <1>5, <1>6, <1>7 DEF EngineInv

-----------------------------------------------------------------------------
(* coro_sched_init establishes the invariant.                              *)
LEMMA CreateInv == EngineCreate => EngineInv
<1>. SUFFICES ASSUME EngineCreate PROVE EngineInv
  OBVIOUS
<1>. USE DEF EngineCreate
<1>1. EngineTypeOK
  BY DEF EngineTypeOK
<1>2. OneHome /\ SchedulerLast /\ NoLostJoin /\ FuncOrResult
  BY EmptyLinks, NullAssumption DEF OneHome, SchedulerLast, NoLostJoin, FuncOrResult
<1>3. Allocated = {}
  BY DEF Allocated
<1>. QED BY <1>1, <1>2, <1>3, FS_EmptySet DEF EngineInv, CountsAllocated

(* Every step of the engine, or a stuttering step, preserves it.           *)
LEMMA NextInv == EngineInv /\ [EngineNext]_engineVars => EngineInv'
<1>. SUFFICES ASSUME EngineInv, [EngineNext]_engineVars PROVE EngineInv'
  OBVIOUS
<1>1. ASSUME NEW c \in Coros, Suspend(c) PROVE EngineInv'
  BY <1>1, SuspendThisInv DEF Suspend, InUserCode
<1>2. ASSUME NEW c \in Coros, CoroStep(c) PROVE EngineInv'
  BY <1>1, <1>2, YieldInv, WakeupInv, SpawnReuseInv, SpawnNewInv, JoinInv, FinishInv
     DEF CoroStep, Spawn, InUserCode
<1>3. CASE SchedStep
  BY <1>3, RunLoopInv DEF SchedStep
<1>4. CASE MainStep
  BY <1>4, RunLoopInv, WakeupInv, SpawnReuseInv, SpawnNewInv, MainJoinInv, MainDestroyInv,
     MainInitInv DEF MainStep, MainRun, InMain, Spawn
<1>5. CASE UNCHANGED engineVars
  <2>1. UNCHANGED <<engine, this, now, next, pool, count, state, func, ret, joiner>>
    BY <1>5 DEF engineVars
  <2>2. CountsAllocated'
    BY <2>1, CountUnchanged DEF EngineInv
  <2>. QED BY <2>1, <2>2
           DEF EngineInv, EngineTypeOK, OneHome, SchedulerLast, NoLostJoin, FuncOrResult
<1>. QED BY <1>2, <1>3, <1>4, <1>5, JoinResumeInv DEF EngineNext

(* The inductive invariant of libcoro.cpp holds in every reachable state:  *)
(* the properties below together with the exact coro_count.                *)
THEOREM EngineInvariant == EngineSpec => []EngineInv
  BY CreateInv, NextInv, PTL DEF EngineSpec

(* Every variable of the engine keeps its type; in particular coro_count   *)
(* never goes below zero in coro_engine_destroy.                           *)
THEOREM EngineTypes == EngineSpec => []EngineTypeOK
<1>1. EngineInv => EngineTypeOK
  BY DEF EngineInv
<1>. QED BY <1>1, EngineInvariant, PTL

(* A coroutine's link is in at most one of the engine's lists, at most     *)
(* once, and its state says which: no list operation of libcoro.cpp        *)
(* corrupts a list.                                                        *)
THEOREM EngineOneHome == EngineSpec => []OneHome
<1>1. EngineInv => OneHome
  BY DEF EngineInv
<1>. QED BY <1>1, EngineInvariant, PTL

(* The scheduler context is always the last to be resumed in an iteration, *)
(* so coro_engine_resume_next never finds coros_running_now empty.         *)
THEOREM EngineSchedulerLast == EngineSpec => []SchedulerLast
<1>1. EngineInv => SchedulerLast
  BY DEF EngineInv
<1>. QED BY <1>1, EngineInvariant, PTL

(* The wakeup coro_body sends to a joiner is never lost, and a coroutine   *)
(* inside coro_join is never finished, pooled or freed.                    *)
THEOREM EngineNoLostJoin == EngineSpec => []NoLostJoin
<1>1. EngineInv => NoLostJoin
  BY DEF EngineInv
<1>. QED BY <1>1, EngineInvariant, PTL

(* A reused coroutine has its own function and no result of an earlier     *)
(* life.                                                                   *)
THEOREM EngineFuncOrResult == EngineSpec => []FuncOrResult
<1>1. EngineInv => FuncOrResult
  BY DEF EngineInv
<1>. QED BY <1>1, EngineInvariant, PTL

(* The asserts of coro_engine_destroy hold once every handle is joined.    *)
THEOREM EngineDestroyFreesAll == EngineSpec => []DestroyFreesAll
<1>1. EngineInv => DestroyFreesAll
  <2>. SUFFICES ASSUME EngineInv PROVE DestroyFreesAll
    OBVIOUS
  <2>1. InMain /\ Unjoined = {} => next = <<>> /\ count = Len(pool)
    BY AllPooled DEF InMain
  <2>2. engine = "down" => count = 0 /\ Allocated = {}
    BY FS_EmptySet DEF EngineInv, CountsAllocated
  <2>. QED BY <2>1, <2>2 DEF DestroyFreesAll
<1>. QED BY <1>1, EngineInvariant, PTL
=============================================================================
