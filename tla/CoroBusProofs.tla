---------------------------- MODULE CoroBusProofs ----------------------------
(***************************************************************************)
(* Proofs about the message bus, on top of those about the engine, for any *)
(* number of coroutines, channels and messages and any size limits.        *)
(***************************************************************************)
EXTENDS CoroBus, CoroEngineProofs

(* d comes before c in the list s.                                         *)
Ahead(s, d, c) == \E i, j \in DOMAIN s : i < j /\ s[i] = d /\ s[j] = c

(* d gets control before c does: the order of RunOrder, list by list.      *)
RunsBefore(d, c) ==
    \/ d = this /\ c \in Range(now) \cup Range(next)
    \/ Ahead(now, d, c)
    \/ d \in Range(now) /\ c \in Range(next)
    \/ Ahead(next, d, c)

Waiting(c) == call[c].op \in {"send", "recv"}

(* A coroutine inside a bus call is alive and in no join, and the channel  *)
(* it is about is allocated and, until it is closed, still in its slot.    *)
CallsSound ==
    \A c \in Coros :
        /\ call[c].op = "none" => call[c] = Idle
        /\ call[c].op # "none" =>
             /\ state[c] \in {"RUNNING", "SUSPENDED"} /\ JoinTargets(c) = {}
             /\ call[c].chan \in heap /\ call[c].slot \in Descriptors
        /\ call[c].op = "send" => call[c].val \in Data
        /\ (Waiting(c) /\ ~closed[call[c].chan]) =>
             call[c].slot \in DOMAIN slots /\ slots[call[c].slot] = call[c].chan

(* Whoever is inside a send or a receive on a closed channel, linked or    *)
(* not, gets control before the coroutine that is going to delete it.      *)
CallersLeaveFirst ==
    \A c, d \in Coros :
        (call[c].op = "close" /\ Waiting(d) /\ call[d].chan = call[c].chan) => RunsBefore(d, c)

(* The two counts of NoLostWakeup, for one channel.                        *)
CountsRight(o) ==
    /\ Len(data[o]) <= limit[o]
    /\ sendq[o] # <<>> => Len(data[o]) + Cardinality(Pending("send", o, sendq)) >= limit[o]
    /\ recvq[o] # <<>> => Len(data[o]) <= Cardinality(Pending("recv", o, recvq))

(* Whoever is inside a call and in no queue is scheduled.                  *)
UnlinkedRun ==
    \A c \in Coros :
        (\/ call[c].op = "close"
         \/ call[c].op = "send" /\ c \notin Range(sendq[call[c].chan])
         \/ call[c].op = "recv" /\ c \notin Range(recvq[call[c].chan]))
             => state[c] = "RUNNING"

(* The inductive invariant.                                                *)
BusInv ==
    /\ EngineInv /\ BusTypeOK /\ EntriesLinkLive /\ OneOwner
    /\ CallsSound /\ CallersLeaveFirst
    /\ bus = "none" => slots = <<>>
    /\ \A o \in Range(slots) \ {NULL} : CountsRight(o)
    /\ UnlinkedRun

-----------------------------------------------------------------------------
(* Appending to a list keeps its order and puts the new element last.      *)
LEMMA AppendOrder ==
    ASSUME NEW S, NEW s \in Seq(S), NEW e \in S
    PROVE  /\ \A d, c : Ahead(s, d, c) => Ahead(Append(s, e), d, c)
           /\ \A d \in Range(s) : Ahead(Append(s, e), d, e)
<1>. DEFINE t == Append(s, e)
<1>1. /\ Len(s) \in Nat /\ DOMAIN s = 1..Len(s) /\ DOMAIN t = 1..Len(s) + 1
      /\ \A i \in 1..Len(s) : t[i] = s[i]
      /\ t[Len(s) + 1] = e
  BY AppendProperties, LenProperties
<1>. HIDE DEF t
<1>2. ASSUME NEW d, NEW c, Ahead(s, d, c) PROVE Ahead(t, d, c)
  BY <1>1, <1>2 DEF Ahead
<1>3. ASSUME NEW d \in Range(s) PROVE Ahead(t, d, e)
  <2>1. PICK i \in 1..Len(s) : s[i] = d
    BY <1>1 DEF Range
  <2>2. i \in DOMAIN t /\ Len(s) + 1 \in DOMAIN t /\ i < Len(s) + 1 /\ t[i] = d
    BY <1>1, <2>1
  <2>. QED BY <1>1, <2>2 DEF Ahead
<1>. QED BY <1>2, <1>3 DEF t

(* Taking the head away keeps the order of the others.                     *)
LEMMA ShiftOrder ==
    ASSUME NEW S, NEW s \in Seq(S), s # <<>>, NEW d, NEW c, Ahead(s, d, c)
    PROVE  (d = Head(s) /\ c \in Range(Tail(s))) \/ Ahead(Tail(s), d, c)
<1>. DEFINE t == Tail(s)
<1>1. /\ Len(s) \in Nat /\ Len(s) # 0 /\ DOMAIN s = 1..Len(s) /\ DOMAIN t = 1..Len(s) - 1
      /\ Head(s) = s[1] /\ \A i \in 1..Len(s) - 1 : t[i] = s[i + 1]
  BY HeadTailProperties, LenProperties, EmptySeq
<1>. HIDE DEF t
<1>2. PICK i \in 1..Len(s), j \in 1..Len(s) : i < j /\ s[i] = d /\ s[j] = c
  BY <1>1 DEF Ahead
<1>3. j - 1 \in DOMAIN t /\ t[j - 1] = c
  BY <1>1, <1>2
<1>4. CASE i = 1
  BY <1>1, <1>2, <1>3, <1>4 DEF Range, t
<1>5. CASE i # 1
  <2>1. i - 1 \in DOMAIN t /\ t[i - 1] = d /\ i - 1 < j - 1
    BY <1>1, <1>2, <1>5
  <2>. QED BY <1>3, <2>1 DEF Ahead, t
<1>. QED BY <1>4, <1>5

(* Appending one list to another.                                          *)
LEMMA ConcatLinks ==
    ASSUME NEW S, NEW s \in Seq(S), NEW t \in Seq(S)
    PROVE  /\ s \o t \in Seq(S) /\ Range(s \o t) = Range(s) \cup Range(t)
           /\ NoRepeat(s) /\ NoRepeat(t) /\ Range(s) \cap Range(t) = {} => NoRepeat(s \o t)
           /\ \A d, c : Ahead(s, d, c) => Ahead(s \o t, d, c)
<1>. DEFINE u == s \o t
<1>1. /\ Len(s) \in Nat /\ Len(t) \in Nat /\ DOMAIN s = 1..Len(s) /\ DOMAIN t = 1..Len(t)
      /\ u \in Seq(S) /\ DOMAIN u = 1..Len(s) + Len(t) /\ Len(u) = Len(s) + Len(t)
      /\ \A i \in 1..Len(s) + Len(t) : u[i] = IF i <= Len(s) THEN s[i] ELSE t[i - Len(s)]
  BY ConcatProperties, LenProperties
<1>. HIDE DEF u
<1>a. \A i \in 1..Len(s) : i \in DOMAIN u /\ u[i] = s[i]
  BY <1>1
<1>b. ASSUME NEW i \in 1..Len(t) PROVE i + Len(s) \in DOMAIN u /\ u[i + Len(s)] = t[i]
  <2>1. i + Len(s) \in 1..Len(s) + Len(t) /\ ~(i + Len(s) <= Len(s)) /\ i + Len(s) - Len(s) = i
    BY <1>1
  <2>. QED BY <1>1, <2>1
<1>2. ASSUME NEW i \in DOMAIN u
      PROVE  \/ i \in 1..Len(s) /\ u[i] = s[i]
             \/ i - Len(s) \in 1..Len(t) /\ u[i] = t[i - Len(s)] /\ i > Len(s)
  BY <1>1
<1>3. Range(u) = Range(s) \cup Range(t)
  <2>1. \A x \in Range(u) : x \in Range(s) \cup Range(t)
    BY <1>1, <1>2 DEF Range
  <2>2. \A x \in Range(s) : x \in Range(u)
    BY <1>1, <1>a DEF Range
  <2>3. \A x \in Range(t) : x \in Range(u)
    BY <1>1, <1>b DEF Range
  <2>. QED BY <2>1, <2>2, <2>3
<1>4. ASSUME NoRepeat(s), NoRepeat(t), Range(s) \cap Range(t) = {} PROVE NoRepeat(u)
  <2>1. SUFFICES ASSUME NEW i \in DOMAIN u, NEW j \in DOMAIN u, u[i] = u[j] PROVE i = j
    BY <1>1 DEF NoRepeat
  <2>2. CASE i \in 1..Len(s) /\ u[i] = s[i]
    <3>1. CASE j \in 1..Len(s) /\ u[j] = s[j]
      BY <1>4, <2>1, <2>2, <3>1 DEF NoRepeat
    <3>2. CASE j - Len(s) \in 1..Len(t) /\ u[j] = t[j - Len(s)]
      BY <1>1, <1>4, <2>1, <2>2, <3>2 DEF Range
    <3>. QED BY <1>2, <3>1, <3>2
  <2>3. CASE i - Len(s) \in 1..Len(t) /\ u[i] = t[i - Len(s)]
    <3>1. CASE j \in 1..Len(s) /\ u[j] = s[j]
      BY <1>1, <1>4, <2>1, <2>3, <3>1 DEF Range
    <3>2. CASE j - Len(s) \in 1..Len(t) /\ u[j] = t[j - Len(s)]
      <4>1. i - Len(s) = j - Len(s)
        BY <1>4, <2>1, <2>3, <3>2 DEF NoRepeat
      <4>. QED BY <4>1, <1>1
    <3>. QED BY <1>2, <3>1, <3>2
  <2>. QED BY <1>2, <2>2, <2>3
<1>5. ASSUME NEW d, NEW c, Ahead(s, d, c) PROVE Ahead(u, d, c)
  BY <1>1, <1>a, <1>5 DEF Ahead
<1>. QED BY <1>1, <1>3, <1>4, <1>5 DEF u

(* A list is empty exactly when it links nothing.                          *)
LEMMA EmptyRange ==
    ASSUME NEW S, NEW s \in Seq(S)
    PROVE  (s = <<>> <=> Range(s) = {}) /\ Range(s) \subseteq S
<1>1. Len(s) \in Nat /\ DOMAIN s = 1..Len(s) /\ \A i \in 1..Len(s) : s[i] \in S
  BY LenProperties, ElementOfSeq
<1>2. s # <<>> => s[1] \in Range(s)
  BY <1>1, EmptySeq DEF Range
<1>3. s = <<>> => Range(s) = {}
  BY EmptyLinks
<1>. QED BY <1>1, <1>2, <1>3 DEF Range

LEMMA StayEmpty ==
    ASSUME NEW S, NEW s \in Seq(S), NEW t \in Seq(S), Range(t) \subseteq Range(s), t # <<>>
    PROVE  s # <<>>
<1>1. Range(t) # {}
  BY EmptyRange
<1>. QED BY <1>1, EmptyLinks

-----------------------------------------------------------------------------
(* A step of c, or of the scheduler or the main program, leaves the turns  *)
(* and the states of the others alone, wakeups apart.                      *)
OthersKeepTurn(c) ==
    /\ \A d, e \in Coros \ {c} : RunsBefore(d, e) => RunsBefore(d, e)'
    /\ \A d \in Coros \ {c} :
         /\ state[d] = "RUNNING" => state'[d] = "RUNNING"
         /\ state[d] = "SUSPENDED" => state'[d] \in {"RUNNING", "SUSPENDED"}

(* Linking more coroutines behind coros_running_next disturbs no turn.     *)
NextGrows ==
    /\ Range(next) \subseteq Range(next')
    /\ \A d, e : Ahead(next, d, e) => Ahead(next', d, e)

(* ... when nobody is switched ...                                         *)
LEMMA GrowKeepsTurns ==
    ASSUME NextGrows, UNCHANGED <<this, now>>
    PROVE  \A d, e \in Coros : RunsBefore(d, e) => RunsBefore(d, e)'
  BY DEF NextGrows, RunsBefore

(* ... and when control moves on to the first of this iteration.           *)
LEMMA SwitchKeepsTurns ==
    ASSUME EngineInv, NEW c \in Coros, this = c, ResumeNext, NextGrows
    PROVE  \A d, e \in Coros \ {c} : RunsBefore(d, e) => RunsBefore(d, e)'
<1>1. now \in Seq(Coros \cup {Sched}) /\ now # <<>> /\ this' = Head(now) /\ now' = Tail(now)
  BY DEF EngineInv, EngineTypeOK, ResumeNext
<1>2. Range(now') = Range(now) \ {this'}
  BY ResumeLinks
<1>. SUFFICES ASSUME NEW d \in Coros \ {c}, NEW e \in Coros \ {c}, RunsBefore(d, e)
              PROVE  RunsBefore(d, e)'
  OBVIOUS
<1>3. CASE Ahead(now, d, e)
  <2>1. (d = this' /\ e \in Range(now')) \/ Ahead(now', d, e)
    BY <1>1, <1>3, ShiftOrder
  <2>. QED BY <2>1 DEF RunsBefore
<1>4. CASE d \in Range(now) /\ e \in Range(next)
  BY <1>2, <1>4 DEF RunsBefore, NextGrows
<1>5. CASE Ahead(next, d, e)
  BY <1>5 DEF RunsBefore, NextGrows
<1>. QED BY <1>3, <1>4, <1>5 DEF RunsBefore

(* An iteration of coro_engine_run keeps the order of the next list.       *)
LEMMA RunLoopTurns ==
    ASSUME EngineInv, this \notin Coros, RunLoop
    PROVE  OthersKeepTurn(this)
<1>1. now = <<>> /\ next \in Seq(Coros) /\ UNCHANGED state /\ Range(now) = {}
  BY EmptyLinks DEF EngineInv, EngineTypeOK, RunLoop
<1>2. SUFFICES ASSUME NEW d \in Coros, NEW e \in Coros, RunsBefore(d, e)
               PROVE  RunsBefore(d, e)'
  BY <1>1 DEF OthersKeepTurn
<1>3. Ahead(next, d, e)
  <2>1. ~Ahead(now, d, e)
    BY <1>1 DEF Ahead
  <2>2. d # this
    OBVIOUS
  <2>. QED BY <1>1, <1>2, <2>1, <2>2 DEF RunsBefore
<1>4. next # <<>>
  BY <1>3 DEF Ahead
<1>5. this' = Head(next) /\ now' = Append(Tail(next), Sched)
  BY <1>4 DEF RunLoop
<1>6. (d = this' /\ e \in Range(Tail(next))) \/ Ahead(Tail(next), d, e)
  BY <1>1, <1>3, <1>4, <1>5, ShiftOrder
<1>7. /\ Range(Tail(next)) \subseteq Range(now')
      /\ Ahead(Tail(next), d, e) => Ahead(now', d, e)
  <2>. DEFINE t == Tail(next)  S == Coros \cup {Sched}
  <2>1. t \in Seq(S) /\ Sched \in S
    BY <1>1, <1>4, HeadTailProperties
  <2>. HIDE DEF t, S
  <2>2. /\ Range(Append(t, Sched)) = Range(t) \cup {Sched}
        /\ Ahead(t, d, e) => Ahead(Append(t, Sched), d, e)
    BY <2>1, AppendLinks, AppendOrder
  <2>. QED BY <1>5, <2>2 DEF t
<1>. QED BY <1>6, <1>7 DEF RunsBefore

(* coro_yield, coro_suspend and the other calls of a coroutine in control. *)
LEMMA CoroStepTurns ==
    ASSUME EngineInv, NEW c \in Coros, CoroStep(c) \/ JoinResume(c)
    PROVE  OthersKeepTurn(c)
<1>. USE DEF OthersKeepTurn
<1>0. next \in Seq(Coros) /\ state \in [Coros -> {"NONE", "RUNNING", "SUSPENDED", "FINISHED"}]
  BY DEF EngineInv, EngineTypeOK
<1>1. this = c
  BY DEF CoroStep, JoinResume, InUserCode, Yield, Suspend, Join, Finish
<1>2. ASSUME NEW d \in Coros, next' = Append(next, d) PROVE NextGrows
  BY <1>0, <1>2, AppendLinks, AppendOrder DEF NextGrows
<1>3. ASSUME UNCHANGED next PROVE NextGrows
  BY <1>3 DEF NextGrows
<1>4. CASE Yield(c)
  <2>1. NextGrows /\ ResumeNext /\ UNCHANGED state
    BY <1>2, <1>4 DEF Yield
  <2>. QED BY <1>1, <2>1, SwitchKeepsTurns
<1>5. ASSUME SuspendThis(c), UNCHANGED next PROVE OthersKeepTurn(c)
  <2>1. NextGrows /\ ResumeNext /\ state' = [state EXCEPT ![c] = "SUSPENDED"]
    BY <1>3, <1>5 DEF SuspendThis
  <2>. QED BY <1>0, <1>1, <2>1, SwitchKeepsTurns
<1>6. ASSUME NEW d \in Coros, WakeupCall(d) PROVE OthersKeepTurn(c)
  <2>1. NextGrows /\ UNCHANGED <<this, now>>
    BY <1>2, <1>3, <1>6 DEF WakeupCall, Wakeup
  <2>2. \A e \in Coros : state[e] \in {"RUNNING", "SUSPENDED"} => state'[e] \in {"RUNNING", state[e]}
    BY <1>0, <1>6 DEF WakeupCall, Wakeup
  <2>. QED BY <2>1, <2>2, GrowKeepsTurns
<1>7. ASSUME NEW f \in Funcs, Spawn(f) PROVE OthersKeepTurn(c)
  <2>1. PICK d \in Coros : next' = Append(next, d) /\ state' = [state EXCEPT ![d] = "RUNNING"]
    <3>1. CASE SpawnReuse(f)
      <4>1. Head(pool) \in Coros
        BY <3>1, ShiftLinks DEF SpawnReuse, EngineInv, EngineTypeOK
      <4>. QED BY <3>1, <4>1 DEF SpawnReuse
    <3>2. CASE SpawnNew(f)
      BY <3>2 DEF SpawnNew
    <3>. QED BY <1>7, <3>1, <3>2 DEF Spawn
  <2>2. NextGrows /\ UNCHANGED <<this, now>>
    BY <1>2, <1>7, <2>1 DEF Spawn, SpawnReuse, SpawnNew
  <2>. QED BY <1>0, <2>1, <2>2, GrowKeepsTurns
<1>8. ASSUME NEW d \in Coros, JoinLoop(c, d) PROVE OthersKeepTurn(c)
  <2>1. CASE JoinReturn(d)
    BY <1>3, <2>1, GrowKeepsTurns DEF JoinReturn
  <2>2. CASE SuspendThis(c) /\ UNCHANGED next
    BY <1>5, <2>2
  <2>. QED BY <1>8, <2>1, <2>2 DEF JoinLoop
<1>9. CASE Finish(c)
  <2>1. ResumeNext
    BY <1>9 DEF Finish
  <2>. DEFINE j == joiner[c]
  <2>2. CASE j # NULL /\ state[j] = "SUSPENDED"
    <3>1. /\ state' = [state EXCEPT ![c] = "FINISHED", ![j] = "RUNNING"]
          /\ next' = Append(next, j) /\ j \in Coros
      BY <1>9, <2>2 DEF Finish, EngineInv, EngineTypeOK
    <3>. HIDE DEF j
    <3>2. NextGrows
      BY <1>2, <3>1
    <3>3. \A e \in Coros \ {c} : state'[e] \in {"RUNNING", state[e]}
      BY <1>0, <3>1
    <3>. QED BY <1>1, <2>1, <3>2, <3>3, SwitchKeepsTurns
  <2>3. CASE ~(j # NULL /\ state[j] = "SUSPENDED")
    <3>1. state' = [state EXCEPT ![c] = "FINISHED"] /\ UNCHANGED next
      BY <1>9, <2>3 DEF Finish
    <3>2. NextGrows
      BY <1>3, <3>1
    <3>. QED BY <1>0, <1>1, <2>1, <3>1, <3>2, SwitchKeepsTurns
  <2>. QED BY <2>2, <2>3
<1>10. CASE CoroStep(c)
  BY <1>4, <1>5, <1>6, <1>7, <1>8, <1>9, <1>10 DEF CoroStep, Suspend, Join
<1>11. CASE JoinResume(c)
  BY <1>8, <1>11 DEF JoinResume, JoinTargets
<1>. QED BY <1>10, <1>11

(* The steps of the main program.                                          *)
LEMMA MainStepTurns ==
    ASSUME EngineInv, MainStep
    PROVE  OthersKeepTurn(NULL)
<1>0. /\ next \in Seq(Coros) /\ state \in [Coros -> {"NONE", "RUNNING", "SUSPENDED", "FINISHED"}]
      /\ NULL \notin Coros
  BY NullAssumption DEF EngineInv, EngineTypeOK
<1>2. ASSUME NEW d \in Coros, next' = Append(next, d) PROVE NextGrows
  BY <1>0, <1>2, AppendLinks, AppendOrder DEF NextGrows
<1>3. ASSUME UNCHANGED next PROVE NextGrows
  BY <1>3 DEF NextGrows
<1>4. CASE MainRun
  BY <1>0, <1>4, RunLoopTurns DEF MainRun, InMain
<1>6. ASSUME NEW d \in Coros, WakeupCall(d) PROVE OthersKeepTurn(NULL)
  <2>1. NextGrows /\ UNCHANGED <<this, now>>
    BY <1>2, <1>3, <1>6 DEF WakeupCall, Wakeup
  <2>2. \A e \in Coros : state[e] \in {"RUNNING", "SUSPENDED"} => state'[e] \in {"RUNNING", state[e]}
    BY <1>0, <1>6 DEF WakeupCall, Wakeup
  <2>. QED BY <2>1, <2>2, GrowKeepsTurns DEF OthersKeepTurn
<1>7. ASSUME NEW f \in Funcs, Spawn(f) PROVE OthersKeepTurn(NULL)
  <2>1. PICK d \in Coros : next' = Append(next, d) /\ state' = [state EXCEPT ![d] = "RUNNING"]
    <3>1. CASE SpawnReuse(f)
      <4>1. Head(pool) \in Coros
        BY <3>1, ShiftLinks DEF SpawnReuse, EngineInv, EngineTypeOK
      <4>. QED BY <3>1, <4>1 DEF SpawnReuse
    <3>2. CASE SpawnNew(f)
      BY <3>2 DEF SpawnNew
    <3>. QED BY <1>7, <3>1, <3>2 DEF Spawn
  <2>2. NextGrows /\ UNCHANGED <<this, now>>
    BY <1>2, <1>7, <2>1 DEF Spawn, SpawnReuse, SpawnNew
  <2>. QED BY <1>0, <2>1, <2>2, GrowKeepsTurns DEF OthersKeepTurn
<1>8. ASSUME NEW d \in Coros, MainJoin(d) PROVE OthersKeepTurn(NULL)
  <2>1. UNCHANGED <<this, now, next, state>>
    BY <1>8 DEF MainJoin, JoinReturn
  <2>. QED BY <1>3, <2>1, GrowKeepsTurns DEF OthersKeepTurn
<1>9. CASE MainDestroy
  <2>1. UNCHANGED <<this, now, next>> /\ \A e \in Coros : state[e] \in {"NONE", "FINISHED"}
    BY <1>9, AllPooled DEF MainDestroy, InMain
  <2>. QED BY <1>3, <2>1, GrowKeepsTurns DEF OthersKeepTurn
<1>10. CASE MainInit
  <2>1. UNCHANGED state /\ \A e \in Coros : state[e] = "NONE"
    BY <1>10 DEF MainInit, EngineInv, CountsAllocated, Allocated
  <2>2. \A d, e \in Coros : ~RunsBefore(d, e)
    <3>1. \A e \in Coros : e \notin Range(now) \cup Range(next)
      BY <2>1 DEF EngineInv, OneHome
    <3>. QED BY <3>1 DEF RunsBefore, Ahead, Range
  <2>. QED BY <2>1, <2>2 DEF OthersKeepTurn
<1>. QED BY <1>4, <1>6, <1>7, <1>8, <1>9, <1>10 DEF MainStep

-----------------------------------------------------------------------------
(* What an engine step must respect for the bus to be undisturbed: its     *)
(* actor is in no bus call, and nobody inside one becomes a joiner.        *)
LEMMA EngineStepInv ==
    ASSUME BusInv, UNCHANGED busVars, EngineInv', NEW c,
           c \in Coros => call[c] = Idle,
           OthersKeepTurn(c),
           \A d \in Coros : call[d].op # "none" => JoinTargets(d)' = {}
    PROVE  BusInv'
<1>1. /\ UNCHANGED <<bus, slots, heap, closed, limit, data, sendq, recvq, call, err>>
      /\ \A d \in Coros : call[d].op # "none" => d # c
  BY DEF busVars, Idle
<1>2. BusTypeOK' /\ OneOwner'
  BY <1>1 DEF BusInv, BusTypeOK, OneOwner
<1>3. EntriesLinkLive'
  BY <1>1 DEF BusInv, EntriesLinkLive, Waiters
<1>4. CallsSound'
  <2>1. SUFFICES ASSUME NEW d \in Coros, call[d].op # "none"
                 PROVE  state'[d] \in {"RUNNING", "SUSPENDED"} /\ JoinTargets(d)' = {}
    BY <1>1 DEF BusInv, CallsSound, Waiting
  <2>. QED BY <1>1, <2>1 DEF BusInv, CallsSound, OthersKeepTurn
<1>5. CallersLeaveFirst'
  <2>1. SUFFICES ASSUME NEW d \in Coros, NEW e \in Coros, call[d].op = "close", Waiting(e),
                        call[e].chan = call[d].chan
                 PROVE  RunsBefore(e, d)'
    BY <1>1 DEF CallersLeaveFirst, Waiting
  <2>2. RunsBefore(e, d) /\ e # c /\ d # c
    BY <1>1, <2>1 DEF BusInv, CallersLeaveFirst, Waiting
  <2>. QED BY <2>2 DEF OthersKeepTurn
<1>6. (\A o \in Range(slots) \ {NULL} : CountsRight(o))'
  BY <1>1 DEF BusInv, CountsRight, Pending
<1>7. UnlinkedRun'
  BY <1>1 DEF BusInv, UnlinkedRun, OthersKeepTurn
<1>. QED BY <1>1, <1>2, <1>3, <1>4, <1>5, <1>6, <1>7 DEF BusInv

(* The engine steps of the bus specification.                              *)
LEMMA EngineInBusInv ==
    ASSUME BusInv, UNCHANGED busVars,
           \/ \E c \in Coros : (Free(c) /\ CoroStep(c)) \/ JoinResume(c)
           \/ SchedStep
           \/ MainStep
    PROVE  BusInv'
<1>1. EngineInv'
  <2>1. EngineNext
    BY DEF EngineNext
  <2>. QED BY <2>1, NextInv DEF BusInv
<1>2. joiner \in [Coros -> Coros \cup {NULL}] /\ NULL \notin Coros
  BY NullAssumption DEF BusInv, EngineInv, EngineTypeOK
<1>3. \A d \in Coros : call[d].op # "none" => JoinTargets(d) = {}
  BY DEF BusInv, CallsSound
<1>4. ASSUME \A d, e \in Coros : joiner'[d] = e => joiner[d] = e \/ call[e] = Idle
      PROVE  \A d \in Coros : call[d].op # "none" => JoinTargets(d)' = {}
  BY <1>3, <1>4 DEF JoinTargets, Idle
<1>5. ASSUME NEW c \in Coros, Free(c), CoroStep(c) PROVE BusInv'
  <2>1. call[c] = Idle /\ OthersKeepTurn(c)
    BY <1>5, CoroStepTurns DEF Free, BusInv
  <2>2. \A d, e \in Coros : joiner'[d] = e => joiner[d] = e \/ call[e] = Idle
    <3>1. ASSUME NEW d \in Coros, WakeupCall(d) PROVE UNCHANGED joiner
      BY <3>1 DEF WakeupCall
    <3>2. ASSUME NEW f \in Funcs, Spawn(f)
          PROVE  UNCHANGED joiner \/ \E d \in Coros : joiner' = [joiner EXCEPT ![d] = NULL]
      BY <3>2 DEF Spawn, SpawnReuse, SpawnNew
    <3>3. ASSUME NEW d \in Coros, Join(c, d)
          PROVE  joiner' = [joiner EXCEPT ![d] = NULL] \/ joiner' = [joiner EXCEPT ![d] = c]
      BY <3>3 DEF Join, JoinLoop, JoinReturn
    <3>4. Yield(c) \/ Suspend(c) \/ Finish(c) => UNCHANGED joiner
      BY DEF Yield, Suspend, Finish
    <3>5. \/ UNCHANGED joiner
          \/ \E d \in Coros : joiner' = [joiner EXCEPT ![d] = NULL] \/ joiner' = [joiner EXCEPT ![d] = c]
      BY <1>5, <3>1, <3>2, <3>3, <3>4 DEF CoroStep
    <3>. QED BY <1>2, <2>1, <3>5
  <2>. QED BY <1>1, <1>4, <2>1, <2>2, EngineStepInv
<1>6. ASSUME NEW c \in Coros, JoinResume(c) PROVE BusInv'
  <2>1. PICK d \in JoinTargets(c) : JoinLoop(c, d)
    BY <1>6 DEF JoinResume
  <2>2. call[c] = Idle
    BY <1>3, <2>1 DEF BusInv, CallsSound
  <2>3. OthersKeepTurn(c)
    BY <1>6, CoroStepTurns DEF BusInv
  <2>4. joiner' = [joiner EXCEPT ![d] = NULL] \/ joiner' = [joiner EXCEPT ![d] = c]
    BY <2>1 DEF JoinLoop, JoinReturn
  <2>5. \A x, e \in Coros : joiner'[x] = e => joiner[x] = e \/ call[e] = Idle
    BY <1>2, <2>2, <2>4
  <2>. QED BY <1>1, <1>4, <2>2, <2>3, <2>5, EngineStepInv
<1>7. CASE SchedStep
  <2>1. this = Sched /\ Sched \notin Coros /\ RunLoop /\ UNCHANGED joiner
    BY <1>7, SchedAssumption DEF SchedStep, RunLoop
  <2>2. OthersKeepTurn(Sched)
    BY <2>1, RunLoopTurns DEF BusInv
  <2>. QED BY <1>1, <1>4, <2>1, <2>2, EngineStepInv
<1>8. CASE MainStep
  <2>1. OthersKeepTurn(NULL)
    BY <1>8, MainStepTurns DEF BusInv
  <2>2. UNCHANGED joiner \/ \E d \in Coros : joiner' = [joiner EXCEPT ![d] = NULL]
    BY <1>8 DEF MainStep, MainRun, RunLoop, WakeupCall, Spawn, SpawnReuse, SpawnNew, MainJoin,
                JoinReturn, MainDestroy, MainInit
  <2>3. \A d, e \in Coros : joiner'[d] = e => joiner[d] = e \/ call[e] = Idle
    BY <1>2, <2>2
  <2>. QED BY <1>1, <1>2, <1>4, <2>1, <2>3, EngineStepInv
<1>. QED BY <1>5, <1>6, <1>7, <1>8

-----------------------------------------------------------------------------
(* rlist_del_entry takes out the caller's entry and nothing else.          *)
LEMMA UnlinkLinks ==
    ASSUME NEW S, NEW q \in Seq(S), NEW c, NoRepeat(q)
    PROVE  /\ Unlink(q, c) \in Seq(S) /\ NoRepeat(Unlink(q, c))
           /\ Range(Unlink(q, c)) = Range(q) \ {c}
<1>1. /\ Len(q) \in Nat /\ DOMAIN q = 1..Len(q) /\ \A k \in 1..Len(q) : q[k] \in S
  BY LenProperties, ElementOfSeq
<1>2. CASE c \notin Range(q)
  BY <1>2 DEF Unlink
<1>3. CASE c \in Range(q)
  <2>. DEFINE i == CHOOSE k \in DOMAIN q : q[k] = c
             u == [j \in 1..Len(q) - 1 |-> IF j < i THEN q[j] ELSE q[j + 1]]
  <2>1. i \in 1..Len(q) /\ q[i] = c
    BY <1>1, <1>3 DEF Range
  <2>2. Unlink(q, c) = u
    BY <1>3 DEF Unlink
  <2>. HIDE DEF i
  <2>3. /\ Len(q) - 1 \in Nat /\ DOMAIN u = 1..Len(q) - 1
        /\ \A j \in 1..Len(q) - 1 : u[j] = IF j < i THEN q[j] ELSE q[j + 1]
    BY <1>1, <2>1
  <2>4. u \in Seq(S) /\ Len(u) = Len(q) - 1
    <3>1. \A j \in 1..Len(q) - 1 : u[j] \in S
      BY <1>1, <2>1, <2>3
    <3>2. u \in [1..Len(q) - 1 -> S]
      BY <3>1
    <3>. QED BY <2>3, <3>2, LenProperties, SeqDef
  <2>. HIDE DEF u
  <2>5. NoRepeat(u)
    BY <1>1, <2>1, <2>3, <2>4 DEF NoRepeat
  <2>6. \A x \in Range(u) : x \in Range(q) \ {c}
    <3>1. ASSUME NEW j \in 1..Len(q) - 1 PROVE u[j] \in Range(q) \ {c}
      <4>1. CASE j < i
        BY <1>1, <2>1, <2>3, <4>1 DEF Range, NoRepeat
      <4>2. CASE ~(j < i)
        <5>1. j + 1 \in 1..Len(q) /\ j + 1 # i /\ u[j] = q[j + 1]
          BY <1>1, <2>1, <2>3, <4>2
        <5>. QED BY <1>1, <2>1, <5>1 DEF Range, NoRepeat
      <4>. QED BY <4>1, <4>2
    <3>. QED BY <2>3, <3>1 DEF Range
  <2>7. ASSUME NEW x \in Range(q) \ {c} PROVE x \in Range(u)
    <3>1. PICK j \in 1..Len(q) : q[j] = x
      BY <1>1 DEF Range
    <3>2. CASE j < i
      <4>1. j \in 1..Len(q) - 1 /\ u[j] = x
        BY <1>1, <2>1, <2>3, <3>1, <3>2
      <4>. QED BY <2>3, <4>1 DEF Range
    <3>3. CASE j > i
      <4>1. j - 1 \in 1..Len(q) - 1 /\ ~(j - 1 < i) /\ j - 1 + 1 = j
        BY <1>1, <2>1, <3>1, <3>3
      <4>2. u[j - 1] = x
        BY <2>3, <3>1, <4>1
      <4>. QED BY <2>3, <4>1, <4>2 DEF Range
    <3>. QED BY <1>1, <2>1, <3>1, <3>2, <3>3
  <2>. QED BY <2>2, <2>4, <2>5, <2>6, <2>7
<1>. QED BY <1>2, <1>3

(* The queues p are the queues q without the entry of c.                   *)
WithoutCaller(p, q, c) ==
    /\ p \in [Chans -> Seq(Coros)] /\ q \in [Chans -> Seq(Coros)]
    /\ \A o \in Chans : NoRepeat(p[o]) /\ Range(p[o]) = Range(q[o]) \ {c}

(* A coroutine that is not inside a send is in no send queue, one inside a *)
(* send is only in the queue of its channel; likewise for receives.        *)
LEMMA CallerLinks ==
    ASSUME BusInv, NEW c \in Coros
    PROVE  /\ call[c].op # "send" => WithoutCaller(sendq, sendq, c)
           /\ call[c].op # "recv" => WithoutCaller(recvq, recvq, c)
           /\ call[c].op = "send" =>
                WithoutCaller([sendq EXCEPT ![call[c].chan] = Unlink(@, c)], sendq, c)
           /\ call[c].op = "recv" =>
                WithoutCaller([recvq EXCEPT ![call[c].chan] = Unlink(@, c)], recvq, c)
<1>1. /\ sendq \in [Chans -> Seq(Coros)] /\ recvq \in [Chans -> Seq(Coros)]
      /\ \A o \in Chans : /\ NoRepeat(sendq[o]) /\ NoRepeat(recvq[o])
                          /\ \A d \in Range(sendq[o]) : call[d].op = "send" /\ call[d].chan = o
                          /\ \A d \in Range(recvq[o]) : call[d].op = "recv" /\ call[d].chan = o
  BY DEF BusInv, BusTypeOK, EntriesLinkLive
<1>2. call[c].op # "send" => WithoutCaller(sendq, sendq, c)
  BY <1>1 DEF WithoutCaller
<1>3. call[c].op # "recv" => WithoutCaller(recvq, recvq, c)
  BY <1>1 DEF WithoutCaller
<1>4. call[c].op # "none" => call[c].chan \in Chans
  BY DEF BusInv, CallsSound, BusTypeOK
<1>5. ASSUME NEW q \in [Chans -> Seq(Coros)], NEW o \in Chans,
             \A x \in Chans : NoRepeat(q[x]),
             \A x \in Chans : c \in Range(q[x]) => x = o
      PROVE  WithoutCaller([q EXCEPT ![o] = Unlink(@, c)], q, c)
  <2>1. /\ Unlink(q[o], c) \in Seq(Coros) /\ NoRepeat(Unlink(q[o], c))
        /\ Range(Unlink(q[o], c)) = Range(q[o]) \ {c}
    BY <1>5, UnlinkLinks
  <2>. QED BY <1>5, <2>1 DEF WithoutCaller
<1>6. call[c].op = "send" => WithoutCaller([sendq EXCEPT ![call[c].chan] = Unlink(@, c)], sendq, c)
  BY <1>1, <1>4, <1>5
<1>7. call[c].op = "recv" => WithoutCaller([recvq EXCEPT ![call[c].chan] = Unlink(@, c)], recvq, c)
  BY <1>1, <1>4, <1>5
<1>. QED BY <1>2, <1>3, <1>6, <1>7

(* Only allocated coroutines are inside a call, so finitely many are.      *)
LEMMA PendingFinite ==
    ASSUME BusInv, NEW P, P \subseteq {d \in Coros : call[d].op # "none"}
    PROVE  IsFiniteSet(P) /\ Cardinality(P) \in Nat
<1>1. P \subseteq Allocated
  BY DEF BusInv, CallsSound, Allocated
<1>. QED BY <1>1, FS_Subset, FS_CardinalityType DEF BusInv, EngineInv, CountsAllocated

(* wakeup_queue_wakeup_first, on given queues.                             *)
WakesFirst(q, q2, o) ==
    IF q[o] = <<>>
    THEN q2 = q /\ UNCHANGED <<state, next>>
    ELSE q2 = [q EXCEPT ![o] = Tail(@)] /\ Wakeup(Head(q[o]))

(* The head of the queue leaves it and is scheduled.                       *)
LEMMA WakeupFirstStep ==
    ASSUME BusInv, NEW o \in Chans, NEW op \in {"send", "recv"}, NEW q \in [Chans -> Seq(Coros)],
           NEW q2, NoRepeat(q[o]),
           \A d \in Range(q[o]) : call[d].op = op /\ call[d].chan = o,
           WakesFirst(q, q2, o),
           UNCHANGED <<engine, this, now, pool, count, func, ret, joiner>>
    PROVE  /\ EngineInv' /\ OthersKeepTurn(NULL)
           /\ q2 \in [Chans -> Seq(Coros)]
           /\ \A x \in Chans : x # o => q2[x] = q[x]
           /\ NoRepeat(q2[o]) /\ Range(q2[o]) \subseteq Range(q[o])
           /\ \A d \in Range(q[o]) \ Range(q2[o]) : state'[d] = "RUNNING"
           /\ q2[o] # <<>> => /\ q[o] # <<>>
                              /\ Cardinality(Pending(op, o, q2)) = Cardinality(Pending(op, o, q)) + 1
<1>1. CASE q[o] = <<>>
  <2>1. q2 = q /\ UNCHANGED engineVars
    BY <1>1 DEF engineVars, WakesFirst
  <2>2. EngineInv'
    BY <2>1, NextInv DEF BusInv
  <2>3. OthersKeepTurn(NULL)
    BY <2>1 DEF OthersKeepTurn, RunsBefore, engineVars
  <2>. QED BY <1>1, <2>1, <2>2, <2>3
<1>2. CASE q[o] # <<>>
  <2>. DEFINE h == Head(q[o])
  <2>1. q2 = [q EXCEPT ![o] = Tail(@)] /\ Wakeup(h)
    BY <1>2 DEF WakesFirst
  <2>2. /\ h \in Coros /\ h \in Range(q[o]) /\ Tail(q[o]) \in Seq(Coros)
        /\ NoRepeat(Tail(q[o])) /\ Range(Tail(q[o])) = Range(q[o]) \ {h}
    BY <1>2, ShiftLinks
  <2>. HIDE DEF h
  <2>3. call[h].op = op /\ call[h].chan = o /\ state[h] \in {"RUNNING", "SUSPENDED"}
    BY <2>2 DEF BusInv, CallsSound
  <2>4. WakeupCall(h)
    BY <2>1, <2>2, <2>3 DEF WakeupCall, Allocated
  <2>5. EngineInv'
    BY <2>2, <2>4, WakeupInv DEF BusInv
  <2>6. OthersKeepTurn(NULL) /\ state'[h] = "RUNNING"
    <3>1. /\ next \in Seq(Coros)
          /\ state \in [Coros -> {"NONE", "RUNNING", "SUSPENDED", "FINISHED"}]
      BY DEF BusInv, EngineInv, EngineTypeOK
    <3>2. NextGrows
      <4>1. CASE next' = Append(next, h)
        BY <2>2, <3>1, <4>1, AppendLinks, AppendOrder DEF NextGrows
      <4>2. CASE UNCHANGED next
        BY <4>2 DEF NextGrows
      <4>. QED BY <2>1, <4>1, <4>2 DEF Wakeup
    <3>3. /\ \A d \in Coros : state[d] \in {"RUNNING", "SUSPENDED"} => state'[d] \in {"RUNNING", state[d]}
          /\ state'[h] = "RUNNING"
      BY <2>1, <2>2, <2>3, <3>1 DEF Wakeup
    <3>. QED BY <3>2, <3>3, GrowKeepsTurns DEF OthersKeepTurn
  <2>7. /\ q2 \in [Chans -> Seq(Coros)] /\ q2[o] = Tail(q[o])
        /\ \A x \in Chans : x # o => q2[x] = q[x]
    BY <2>1, <2>2
  <2>8. Cardinality(Pending(op, o, q2)) = Cardinality(Pending(op, o, q)) + 1
    <3>1. Pending(op, o, q2) = Pending(op, o, q) \cup {h} /\ h \notin Pending(op, o, q)
      BY <2>2, <2>3, <2>7 DEF Pending
    <3>2. IsFiniteSet(Pending(op, o, q))
      BY PendingFinite DEF Pending
    <3>. QED BY <3>1, <3>2, FS_AddElement
  <2>. QED BY <1>2, <2>2, <2>5, <2>6, <2>7, <2>8
<1>. QED BY <1>1, <1>2

-----------------------------------------------------------------------------
(* Everything but the two counts.                                          *)
BusInvButCounts ==
    /\ EngineInv /\ BusTypeOK /\ EntriesLinkLive /\ OneOwner
    /\ CallsSound /\ CallersLeaveFirst
    /\ bus = "none" => slots = <<>>
    /\ UnlinkedRun

(* A send or a receive returns to its caller: the caller leaves its queue, *)
(* and others may leave a queue only by being scheduled.                   *)
LEMMA ReturnInv ==
    ASSUME BusInv, NEW c \in Coros, call[c].op # "close",
           EngineInv', OthersKeepTurn(NULL), UNCHANGED <<joiner, bus, slots, chanVars>>,
           call' = [call EXCEPT ![c] = Idle], err' \in {"NONE", "NO_CHANNEL", "WOULD_BLOCK"},
           data' \in [Chans -> Seq(Data)],
           sendq' \in [Chans -> Seq(Coros)], recvq' \in [Chans -> Seq(Coros)],
           \A o \in Chans :
              /\ NoRepeat(sendq'[o]) /\ Range(sendq'[o]) \subseteq Range(sendq[o]) \ {c}
              /\ \A d \in Range(sendq[o]) \ Range(sendq'[o]) : d # c => state'[d] = "RUNNING"
              /\ NoRepeat(recvq'[o]) /\ Range(recvq'[o]) \subseteq Range(recvq[o]) \ {c}
              /\ \A d \in Range(recvq[o]) \ Range(recvq'[o]) : d # c => state'[d] = "RUNNING"
    PROVE  BusInvButCounts'
<1>1. /\ UNCHANGED <<joiner, bus, slots, heap, closed, limit>> /\ NULL \notin Coros
      /\ call \in [Coros -> Calls]
  BY NullAssumption DEF chanVars, BusInv, BusTypeOK
<1>2. /\ call'[c] = Idle /\ Idle.op = "none" /\ Idle \in Calls
      /\ \A d \in Coros : d # c => call'[d] = call[d]
  BY <1>1 DEF Idle, Calls
<1>3. BusTypeOK'
  BY <1>1, <1>2 DEF BusInv, BusTypeOK
<1>r. \A o \in Chans : Range(sendq[o]) \subseteq Coros /\ Range(recvq[o]) \subseteq Coros
  BY EmptyRange DEF BusInv, BusTypeOK
<1>4. EntriesLinkLive'
  <2>1. SUFFICES ASSUME NEW o \in Chans
                 PROVE  /\ \A d \in Range(sendq'[o]) : call'[d].op = "send" /\ call'[d].chan = o
                        /\ \A d \in Range(recvq'[o]) : call'[d].op = "recv" /\ call'[d].chan = o
                        /\ Range(sendq'[o]) \cup Range(recvq'[o]) # {} => o \in heap'
    BY DEF EntriesLinkLive, Waiters
  <2>2. \A d \in Range(sendq'[o]) : d \in Range(sendq[o]) /\ call'[d] = call[d]
    BY <1>2, <1>r, <2>1
  <2>3. \A d \in Range(recvq'[o]) : d \in Range(recvq[o]) /\ call'[d] = call[d]
    BY <1>2, <1>r, <2>1
  <2>4. /\ \A d \in Range(sendq[o]) : call[d].op = "send" /\ call[d].chan = o
        /\ \A d \in Range(recvq[o]) : call[d].op = "recv" /\ call[d].chan = o
        /\ Range(sendq[o]) \cup Range(recvq[o]) # {} => o \in heap
    BY <2>1 DEF BusInv, EntriesLinkLive, Waiters
  <2>. QED BY <1>1, <2>2, <2>3, <2>4
<1>5. OneOwner'
  <2>1. \A d \in Coros : (call'[d].op = "close") <=> (call[d].op = "close")
    BY <1>2
  <2>2. \A d \in Coros : call[d].op = "close" => call'[d] = call[d]
    BY <1>2
  <2>3. {call'[d].chan : d \in {e \in Coros : call'[e].op = "close"}}
           = {call[d].chan : d \in {e \in Coros : call[e].op = "close"}}
    BY <2>1, <2>2
  <2>. QED BY <1>1, <2>1, <2>2, <2>3 DEF BusInv, OneOwner
<1>6. CallsSound'
  BY <1>1, <1>2 DEF BusInv, CallsSound, Waiting, OthersKeepTurn, JoinTargets
<1>7. CallersLeaveFirst'
  <2>1. SUFFICES ASSUME NEW d \in Coros, NEW e \in Coros, call'[d].op = "close",
                        call'[e].op \in {"send", "recv"}, call'[e].chan = call'[d].chan
                 PROVE  RunsBefore(e, d)'
    BY DEF CallersLeaveFirst, Waiting
  <2>2. d # c /\ e # c
    BY <1>2, <2>1
  <2>3. RunsBefore(e, d)
    BY <1>2, <2>1, <2>2 DEF BusInv, CallersLeaveFirst, Waiting
  <2>. QED BY <1>1, <2>3 DEF OthersKeepTurn
<1>8. UnlinkedRun'
  <2>1. SUFFICES ASSUME NEW d \in Coros, d # c,
                        \/ call[d].op = "close"
                        \/ call[d].op = "send" /\ d \notin Range(sendq'[call[d].chan])
                        \/ call[d].op = "recv" /\ d \notin Range(recvq'[call[d].chan])
                 PROVE  state'[d] = "RUNNING"
    BY <1>2 DEF UnlinkedRun
  <2>2. call[d].chan \in Chans
    BY <2>1 DEF BusInv, BusTypeOK, CallsSound
  <2>3. state[d] = "RUNNING" => state'[d] = "RUNNING"
    BY <1>1 DEF OthersKeepTurn
  <2>. QED BY <2>1, <2>2, <2>3 DEF BusInv, UnlinkedRun
<1>. QED BY <1>1, <1>3, <1>4, <1>5, <1>6, <1>7, <1>8 DEF BusInvButCounts, BusInv

(* An open channel is in a slot, and its callers are still about it.       *)
LEMMA OpenChannels ==
    ASSUME BusInv
    PROVE  /\ \A o \in Range(slots) \ {NULL} : o \in heap /\ o \in Chans /\ ~closed[o]
           /\ \A s \in Descriptors : ~NoChannel(s) <=> s \in DOMAIN slots /\ slots[s] \in Range(slots) \ {NULL}
           /\ \A c \in Coros, o \in Range(slots) \ {NULL} :
                (Waiting(c) /\ call[c].chan = o) => ~NoChannel(call[c].slot) /\ slots[call[c].slot] = o
<1>1. \A o \in Range(slots) \ {NULL} : o \in heap /\ o \in Chans /\ ~closed[o]
  BY DEF BusInv, OneOwner, BusTypeOK
<1>2. \A s \in Descriptors : ~NoChannel(s) <=> s \in DOMAIN slots /\ slots[s] \in Range(slots) \ {NULL}
  BY <1>1 DEF NoChannel, Range
<1>3. \A c \in Coros, o \in Range(slots) \ {NULL} :
         (Waiting(c) /\ call[c].chan = o) => ~NoChannel(call[c].slot) /\ slots[call[c].slot] = o
  BY <1>1 DEF BusInv, CallsSound, NoChannel
<1>. QED BY <1>1, <1>2, <1>3

(* Pending, for given queue entries and calls.                             *)
PendingIn(op, o, entries, calls) ==
    {c \in Coros : calls[c].op = op /\ calls[c].chan = o /\ c \notin entries}

(* The bus call of c is over.                                              *)
CallEnds(c) == call' = [call EXCEPT ![c] = Idle]

(* When a call ends, the caller is not pending any more ...                *)
LEMMA LeavePending ==
    ASSUME BusInv, NEW c \in Coros, NEW o \in Chans, NEW op, op # "none", NEW q, NEW q2,
           WithoutCaller(q2, q, c), CallEnds(c)
    PROVE  PendingIn(op, o, Range(q2[o]), call') = Pending(op, o, q) \ {c}
<1>1. /\ call \in [Coros -> Calls] /\ Idle.op = "none"
      /\ \A d \in Coros : d # c => call'[d] = call[d]
      /\ call'[c] = Idle
  BY DEF BusInv, BusTypeOK, Idle, CallEnds
<1>. QED BY <1>1 DEF WithoutCaller, Pending, PendingIn

(* ... if it was pending there at all ...                                  *)
LEMMA StayPending ==
    ASSUME BusInv, NEW c \in Coros, NEW o \in Chans, NEW op, op # "none", NEW q, NEW q2,
           WithoutCaller(q2, q, c), CallEnds(c), ~(call[c].op = op /\ call[c].chan = o)
    PROVE  PendingIn(op, o, Range(q2[o]), call') = Pending(op, o, q)
<1>1. c \notin Pending(op, o, q)
  BY DEF Pending
<1>. QED BY <1>1, LeavePending

(* ... and its queue had an entry if it still has one.                     *)
LEMMA LeaveEmpty ==
    ASSUME NEW c, NEW o \in Chans, NEW q, NEW q2, WithoutCaller(q2, q, c), q2[o] # <<>>
    PROVE  q[o] # <<>>
  BY EmptyRange DEF WithoutCaller

(* One caller less is pending at most.                                     *)
LEMMA LeaveCount ==
    ASSUME BusInv, NEW op, op # "none", NEW o, NEW q, NEW c
    PROVE  /\ Cardinality(Pending(op, o, q)) \in Nat
           /\ Cardinality(Pending(op, o, q) \ {c}) \in Nat
           /\ Cardinality(Pending(op, o, q) \ {c}) >= Cardinality(Pending(op, o, q)) - 1
<1>. DEFINE P == Pending(op, o, q)
<1>1. IsFiniteSet(P) /\ Cardinality(P) \in Nat
  BY PendingFinite DEF Pending
<1>. HIDE DEF P
<1>2. CASE c \in P
  <2>1. Cardinality(P \ {c}) = Cardinality(P) - 1 /\ Cardinality(P \ {c}) \in Nat
    BY <1>1, <1>2, FS_RemoveElement, FS_CardinalityType
  <2>. QED BY <1>1, <2>1 DEF P
<1>3. CASE c \notin P
  <2>1. P \ {c} = P
    BY <1>3
  <2>2. Cardinality(P \ {c}) = Cardinality(P)
    BY <2>1
  <2>. QED BY <1>1, <2>2 DEF P
<1>. QED BY <1>2, <1>3

(* A call that ends in CORO_BUS_ERR_NO_CHANNEL or _WOULD_BLOCK.            *)
LEMMA FailInv ==
    ASSUME BusInv, NEW c \in Coros, NEW e \in {"NO_CHANNEL", "WOULD_BLOCK"},
           call[c].op # "close", call[c].op # "none" => NoChannel(call[c].slot),
           Fail(c, e), WithoutCaller(sendq', sendq, c), WithoutCaller(recvq', recvq, c)
    PROVE  BusInv'
<1>1. /\ UNCHANGED <<engineVars, bus, slots, chanVars, data>> /\ err' = e
      /\ call' = [call EXCEPT ![c] = Idle]
      /\ UNCHANGED <<joiner, limit, heap, closed>>
  BY DEF Fail, engineVars, chanVars
<1>2. EngineInv' /\ OthersKeepTurn(NULL)
  <2>1. EngineInv'
    BY <1>1, NextInv DEF BusInv
  <2>2. OthersKeepTurn(NULL)
    BY <1>1 DEF OthersKeepTurn, RunsBefore, engineVars
  <2>. QED BY <2>1, <2>2
<1>t. /\ data \in [Chans -> Seq(Data)] /\ sendq \in [Chans -> Seq(Coros)]
      /\ recvq \in [Chans -> Seq(Coros)] /\ call \in [Coros -> Calls]
  BY DEF BusInv, BusTypeOK
<1>3. BusInvButCounts'
  <2>1. /\ sendq' \in [Chans -> Seq(Coros)] /\ recvq' \in [Chans -> Seq(Coros)]
        /\ \A o \in Chans :
             /\ NoRepeat(sendq'[o]) /\ Range(sendq'[o]) \subseteq Range(sendq[o]) \ {c}
             /\ \A d \in Range(sendq[o]) \ Range(sendq'[o]) : d # c => state'[d] = "RUNNING"
             /\ NoRepeat(recvq'[o]) /\ Range(recvq'[o]) \subseteq Range(recvq[o]) \ {c}
             /\ \A d \in Range(recvq[o]) \ Range(recvq'[o]) : d # c => state'[d] = "RUNNING"
    BY DEF WithoutCaller
  <2>2. data' \in [Chans -> Seq(Data)] /\ err' \in {"NONE", "NO_CHANNEL", "WOULD_BLOCK"}
    BY <1>1, <1>t
  <2>. QED BY <1>1, <1>2, <2>1, <2>2, ReturnInv
<1>4. ASSUME NEW o \in Range(slots) \ {NULL} PROVE CountsRight(o)'
  <2>1. o \in Chans /\ CountsRight(o)
    BY <1>4, OpenChannels DEF BusInv
  <2>2. call[c].op # "none" => call[c].chan # o
    <3>1. call[c].op # "none" => Waiting(c)
      BY <1>t DEF Waiting, Calls
    <3>. QED BY <1>4, <3>1, OpenChannels
  <2>3. /\ Pending("send", o, sendq)' = Pending("send", o, sendq)
        /\ sendq'[o] # <<>> => sendq[o] # <<>>
    <3>1. ~(call[c].op = "send" /\ call[c].chan = o)
      BY <2>2
    <3>2. CallEnds(c)
      BY <1>1 DEF CallEnds
    <3>3. PendingIn("send", o, Range(sendq'[o]), call') = Pending("send", o, sendq)
      BY <2>1, <3>1, <3>2, StayPending
    <3>4. sendq'[o] # <<>> => sendq[o] # <<>>
      BY <2>1, LeaveEmpty
    <3>. QED BY <3>3, <3>4 DEF Pending, PendingIn
  <2>4. /\ Pending("recv", o, recvq)' = Pending("recv", o, recvq)
        /\ recvq'[o] # <<>> => recvq[o] # <<>>
    <3>1. ~(call[c].op = "recv" /\ call[c].chan = o)
      BY <2>2
    <3>2. CallEnds(c)
      BY <1>1 DEF CallEnds
    <3>3. PendingIn("recv", o, Range(recvq'[o]), call') = Pending("recv", o, recvq)
      BY <2>1, <3>1, <3>2, StayPending
    <3>4. recvq'[o] # <<>> => recvq[o] # <<>>
      BY <2>1, LeaveEmpty
    <3>. QED BY <3>3, <3>4 DEF Pending, PendingIn
  <2>. QED BY <1>1, <2>1, <2>3, <2>4 DEF CountsRight
<1>. QED BY <1>1, <1>3, <1>4 DEF BusInv, BusInvButCounts

(* If c is inside op and its channel is open, the channel is o.            *)
OwnChannel(c, op, o) ==
    \A x \in Range(slots) \ {NULL} : (call[c].op = op /\ call[c].chan = x) => x = o

(* A message goes in: the room is used up, and a receiver is on its way.    *)
LEMMA PushInv ==
    ASSUME BusInv, NEW c \in Coros, NEW o \in Range(slots) \ {NULL}, NEW v \in Data,
           HasRoom(o), Push(c, o, v),
           call[c].op \in {"none", "send"},
           OwnChannel(c, "send", o),
           WithoutCaller(sendq', sendq, c)
    PROVE  BusInv'
<1>1. /\ data' = [data EXCEPT ![o] = Append(@, v)] /\ WakesFirst(recvq, recvq', o)
      /\ CallEnds(c) /\ call' = [call EXCEPT ![c] = Idle] /\ err' = "NONE"
      /\ UNCHANGED <<engine, this, now, pool, count, func, ret, joiner>>
      /\ UNCHANGED <<bus, slots, chanVars>> /\ UNCHANGED <<heap, closed, limit>>
  BY DEF Push, Succeed, WakeupFirst, WakesFirst, CallEnds, chanVars
<1>2. /\ o \in Chans /\ data \in [Chans -> Seq(Data)] /\ limit \in [Chans -> Nat]
      /\ sendq \in [Chans -> Seq(Coros)] /\ recvq \in [Chans -> Seq(Coros)]
      /\ call \in [Coros -> Calls]
  BY OpenChannels DEF BusInv, BusTypeOK
<1>3. /\ Len(data[o]) \in Nat /\ limit[o] \in Nat
      /\ data'[o] = Append(data[o], v) /\ Len(data'[o]) = Len(data[o]) + 1
      /\ data' \in [Chans -> Seq(Data)] /\ \A x \in Chans : x # o => data'[x] = data[x]
  BY <1>1, <1>2, AppendProperties, LenProperties
<1>4. NoRepeat(recvq[o]) /\ \A d \in Range(recvq[o]) : call[d].op = "recv" /\ call[d].chan = o
  BY <1>2 DEF BusInv, EntriesLinkLive
<1>5. /\ EngineInv' /\ OthersKeepTurn(NULL)
      /\ recvq' \in [Chans -> Seq(Coros)]
      /\ \A x \in Chans : x # o => recvq'[x] = recvq[x]
      /\ NoRepeat(recvq'[o]) /\ Range(recvq'[o]) \subseteq Range(recvq[o])
      /\ \A d \in Range(recvq[o]) \ Range(recvq'[o]) : state'[d] = "RUNNING"
      /\ recvq'[o] # <<>> =>
           /\ recvq[o] # <<>>
           /\ Cardinality(Pending("recv", o, recvq')) = Cardinality(Pending("recv", o, recvq)) + 1
  BY <1>1, <1>2, <1>4, WakeupFirstStep
<1>6. \A x \in Chans : /\ NoRepeat(recvq'[x]) /\ Range(recvq'[x]) \subseteq Range(recvq[x]) \ {c}
                      /\ \A d \in Range(recvq[x]) \ Range(recvq'[x]) : state'[d] = "RUNNING"
  <2>1. \A x \in Chans : NoRepeat(recvq[x]) /\ c \notin Range(recvq[x])
    BY DEF BusInv, EntriesLinkLive
  <2>. QED BY <1>5, <2>1
<1>7. BusInvButCounts'
  <2>1. /\ sendq' \in [Chans -> Seq(Coros)]
        /\ \A x \in Chans : NoRepeat(sendq'[x]) /\ Range(sendq'[x]) = Range(sendq[x]) \ {c}
    BY DEF WithoutCaller
  <2>2. call[c].op # "close" /\ err' \in {"NONE", "NO_CHANNEL", "WOULD_BLOCK"}
    BY <1>1
  <2>3. UNCHANGED <<joiner, bus, slots, chanVars>>
    BY <1>1
  <2>4. \A x \in Chans :
           /\ NoRepeat(sendq'[x]) /\ Range(sendq'[x]) \subseteq Range(sendq[x]) \ {c}
           /\ \A d \in Range(sendq[x]) \ Range(sendq'[x]) : d # c => state'[d] = "RUNNING"
           /\ NoRepeat(recvq'[x]) /\ Range(recvq'[x]) \subseteq Range(recvq[x]) \ {c}
           /\ \A d \in Range(recvq[x]) \ Range(recvq'[x]) : d # c => state'[d] = "RUNNING"
    BY <1>6, <2>1
  <2>5. /\ EngineInv' /\ OthersKeepTurn(NULL) /\ call' = [call EXCEPT ![c] = Idle]
        /\ data' \in [Chans -> Seq(Data)]
        /\ sendq' \in [Chans -> Seq(Coros)] /\ recvq' \in [Chans -> Seq(Coros)]
    BY <1>1, <1>3, <1>5, <2>1
  <2>. QED BY <2>2, <2>3, <2>4, <2>5, ReturnInv
<1>8. ASSUME NEW x \in Range(slots) \ {NULL} PROVE CountsRight(x)'
  <2>1. x \in Chans /\ CountsRight(x)
    BY <1>8, OpenChannels DEF BusInv
  <2>2. Pending("recv", x, recvq)' = Pending("recv", x, recvq')
    <3>1. call[c].op # "recv" /\ call'[c].op # "recv" /\ \A d \in Coros : d # c => call'[d] = call[d]
      BY <1>1, <1>2 DEF Idle
    <3>. QED BY <3>1 DEF Pending
  <2>3. Pending("send", x, sendq)' = Pending("send", x, sendq) \ {c}
    <3>1. CallEnds(c) /\ x \in Chans
      BY <1>1, <2>1
    <3>2. PendingIn("send", x, Range(sendq'[x]), call') = Pending("send", x, sendq) \ {c}
      BY <3>1, LeavePending
    <3>. QED BY <3>2 DEF Pending, PendingIn
  <2>4. sendq'[x] # <<>> => sendq[x] # <<>>
    BY <2>1, LeaveEmpty
  <2>5. /\ Cardinality(Pending("send", x, sendq)) \in Nat
        /\ Cardinality(Pending("send", x, sendq) \ {c}) \in Nat
        /\ Cardinality(Pending("send", x, sendq) \ {c}) >= Cardinality(Pending("send", x, sendq)) - 1
        /\ Cardinality(Pending("recv", x, recvq)) \in Nat
    BY LeaveCount
  <2>6. CASE x = o
    <3>1. Len(data'[o]) <= limit'[o]
      BY <1>1, <1>3 DEF HasRoom
    <3>2. sendq'[o] # <<>> => Len(data'[o]) + Cardinality(Pending("send", o, sendq)') >= limit'[o]
      <4>1. sendq'[o] # <<>> => Len(data[o]) + Cardinality(Pending("send", o, sendq)) >= limit[o]
        BY <2>1, <2>4, <2>6 DEF CountsRight
      <4>2. Cardinality(Pending("send", o, sendq)') >= Cardinality(Pending("send", o, sendq)) - 1
            /\ Cardinality(Pending("send", o, sendq)') \in Nat
        BY <2>3, <2>5, <2>6
      <4>. QED BY <1>1, <1>3, <2>5, <2>6, <4>1, <4>2
    <3>3. recvq'[o] # <<>> => Len(data'[o]) <= Cardinality(Pending("recv", o, recvq)')
      <4>1. recvq'[o] # <<>> => /\ Len(data[o]) <= Cardinality(Pending("recv", o, recvq))
                               /\ Cardinality(Pending("recv", o, recvq)')
                                    = Cardinality(Pending("recv", o, recvq)) + 1
        BY <1>5, <2>1, <2>2, <2>6 DEF CountsRight
      <4>. QED BY <1>3, <2>5, <2>6, <4>1
    <3>. QED BY <2>6, <3>1, <3>2, <3>3 DEF CountsRight
  <2>7. CASE x # o
    <3>1. Pending("recv", x, recvq)' = Pending("recv", x, recvq)
      BY <1>5, <2>1, <2>2, <2>7 DEF Pending
    <3>2. Pending("send", x, sendq)' = Pending("send", x, sendq)
      BY <1>8, <2>3, <2>7 DEF Pending, OwnChannel
    <3>3. data'[x] = data[x] /\ limit'[x] = limit[x] /\ recvq'[x] = recvq[x]
      BY <1>1, <1>3, <1>5, <2>1, <2>7
    <3>. QED BY <2>1, <2>4, <3>1, <3>2, <3>3 DEF CountsRight
  <2>. QED BY <2>6, <2>7
<1>. QED BY <1>1, <1>7, <1>8 DEF BusInv, BusInvButCounts

(* A message goes out: it is taken, and a sender is on its way.             *)
LEMMA PopInv ==
    ASSUME BusInv, NEW c \in Coros, NEW o \in Range(slots) \ {NULL}, data[o] # <<>>,
           Pop(c, o),
           call[c].op \in {"none", "recv"},
           OwnChannel(c, "recv", o),
           WithoutCaller(recvq', recvq, c)
    PROVE  BusInv'
<1>1. /\ data' = [data EXCEPT ![o] = Tail(@)] /\ WakesFirst(sendq, sendq', o)
      /\ CallEnds(c) /\ call' = [call EXCEPT ![c] = Idle] /\ err' = "NONE"
      /\ UNCHANGED <<engine, this, now, pool, count, func, ret, joiner>>
      /\ UNCHANGED <<bus, slots, chanVars>> /\ UNCHANGED <<heap, closed, limit>>
  BY DEF Pop, Succeed, WakeupFirst, WakesFirst, CallEnds, chanVars
<1>2. /\ o \in Chans /\ data \in [Chans -> Seq(Data)] /\ limit \in [Chans -> Nat]
      /\ sendq \in [Chans -> Seq(Coros)] /\ recvq \in [Chans -> Seq(Coros)]
      /\ call \in [Coros -> Calls]
  BY OpenChannels DEF BusInv, BusTypeOK
<1>3. /\ Len(data[o]) \in Nat /\ limit[o] \in Nat
      /\ data'[o] = Tail(data[o]) /\ Len(data'[o]) = Len(data[o]) - 1
      /\ data' \in [Chans -> Seq(Data)] /\ \A x \in Chans : x # o => data'[x] = data[x]
  BY <1>1, <1>2, HeadTailProperties, LenProperties, EmptySeq
<1>4. NoRepeat(sendq[o]) /\ \A d \in Range(sendq[o]) : call[d].op = "send" /\ call[d].chan = o
  BY <1>2 DEF BusInv, EntriesLinkLive
<1>5. /\ EngineInv' /\ OthersKeepTurn(NULL)
      /\ sendq' \in [Chans -> Seq(Coros)]
      /\ \A x \in Chans : x # o => sendq'[x] = sendq[x]
      /\ NoRepeat(sendq'[o]) /\ Range(sendq'[o]) \subseteq Range(sendq[o])
      /\ \A d \in Range(sendq[o]) \ Range(sendq'[o]) : state'[d] = "RUNNING"
      /\ sendq'[o] # <<>> =>
           /\ sendq[o] # <<>>
           /\ Cardinality(Pending("send", o, sendq')) = Cardinality(Pending("send", o, sendq)) + 1
  BY <1>1, <1>2, <1>4, WakeupFirstStep
<1>6. \A x \in Chans : /\ NoRepeat(sendq'[x]) /\ Range(sendq'[x]) \subseteq Range(sendq[x]) \ {c}
                      /\ \A d \in Range(sendq[x]) \ Range(sendq'[x]) : state'[d] = "RUNNING"
  <2>1. \A x \in Chans : NoRepeat(sendq[x]) /\ c \notin Range(sendq[x])
    BY DEF BusInv, EntriesLinkLive
  <2>. QED BY <1>5, <2>1
<1>7. BusInvButCounts'
  <2>1. /\ recvq' \in [Chans -> Seq(Coros)]
        /\ \A x \in Chans : NoRepeat(recvq'[x]) /\ Range(recvq'[x]) = Range(recvq[x]) \ {c}
    BY DEF WithoutCaller
  <2>2. call[c].op # "close" /\ err' \in {"NONE", "NO_CHANNEL", "WOULD_BLOCK"}
    BY <1>1
  <2>3. UNCHANGED <<joiner, bus, slots, chanVars>>
    BY <1>1
  <2>4. \A x \in Chans :
           /\ NoRepeat(sendq'[x]) /\ Range(sendq'[x]) \subseteq Range(sendq[x]) \ {c}
           /\ \A d \in Range(sendq[x]) \ Range(sendq'[x]) : d # c => state'[d] = "RUNNING"
           /\ NoRepeat(recvq'[x]) /\ Range(recvq'[x]) \subseteq Range(recvq[x]) \ {c}
           /\ \A d \in Range(recvq[x]) \ Range(recvq'[x]) : d # c => state'[d] = "RUNNING"
    BY <1>6, <2>1
  <2>5. /\ EngineInv' /\ OthersKeepTurn(NULL) /\ call' = [call EXCEPT ![c] = Idle]
        /\ data' \in [Chans -> Seq(Data)]
        /\ sendq' \in [Chans -> Seq(Coros)] /\ recvq' \in [Chans -> Seq(Coros)]
    BY <1>1, <1>3, <1>5, <2>1
  <2>. QED BY <2>2, <2>3, <2>4, <2>5, ReturnInv
<1>8. ASSUME NEW x \in Range(slots) \ {NULL} PROVE CountsRight(x)'
  <2>1. x \in Chans /\ CountsRight(x)
    BY <1>8, OpenChannels DEF BusInv
  <2>2. Pending("send", x, sendq)' = Pending("send", x, sendq')
    <3>1. call[c].op # "send" /\ call'[c].op # "send" /\ \A d \in Coros : d # c => call'[d] = call[d]
      BY <1>1, <1>2 DEF Idle
    <3>. QED BY <3>1 DEF Pending
  <2>3. Pending("recv", x, recvq)' = Pending("recv", x, recvq) \ {c}
    <3>1. CallEnds(c) /\ x \in Chans
      BY <1>1, <2>1
    <3>2. PendingIn("recv", x, Range(recvq'[x]), call') = Pending("recv", x, recvq) \ {c}
      BY <3>1, LeavePending
    <3>. QED BY <3>2 DEF Pending, PendingIn
  <2>4. recvq'[x] # <<>> => recvq[x] # <<>>
    BY <2>1, LeaveEmpty
  <2>5. /\ Cardinality(Pending("recv", x, recvq)) \in Nat
        /\ Cardinality(Pending("recv", x, recvq) \ {c}) \in Nat
        /\ Cardinality(Pending("recv", x, recvq) \ {c}) >= Cardinality(Pending("recv", x, recvq)) - 1
        /\ Cardinality(Pending("send", x, sendq)) \in Nat
    BY LeaveCount
  <2>6. CASE x = o
    <3>1. Len(data'[o]) <= limit'[o]
      BY <1>1, <1>3, <2>1, <2>6 DEF CountsRight
    <3>2. recvq'[o] # <<>> => Len(data'[o]) <= Cardinality(Pending("recv", o, recvq)')
      <4>1. recvq'[o] # <<>> => Len(data[o]) <= Cardinality(Pending("recv", o, recvq))
        BY <2>1, <2>4, <2>6 DEF CountsRight
      <4>2. Cardinality(Pending("recv", o, recvq)') >= Cardinality(Pending("recv", o, recvq)) - 1
            /\ Cardinality(Pending("recv", o, recvq)') \in Nat
        BY <2>3, <2>5, <2>6
      <4>. QED BY <1>3, <2>5, <2>6, <4>1, <4>2
    <3>3. sendq'[o] # <<>> => Len(data'[o]) + Cardinality(Pending("send", o, sendq)') >= limit'[o]
      <4>1. sendq'[o] # <<>> => /\ Len(data[o]) + Cardinality(Pending("send", o, sendq)) >= limit[o]
                               /\ Cardinality(Pending("send", o, sendq)')
                                    = Cardinality(Pending("send", o, sendq)) + 1
        BY <1>5, <2>1, <2>2, <2>6 DEF CountsRight
      <4>. QED BY <1>1, <1>3, <2>5, <2>6, <4>1
    <3>. QED BY <2>6, <3>1, <3>2, <3>3 DEF CountsRight
  <2>7. CASE x # o
    <3>1. Pending("send", x, sendq)' = Pending("send", x, sendq)
      BY <1>5, <2>1, <2>2, <2>7 DEF Pending
    <3>2. Pending("recv", x, recvq)' = Pending("recv", x, recvq)
      BY <1>8, <2>3, <2>7 DEF Pending, OwnChannel
    <3>3. data'[x] = data[x] /\ limit'[x] = limit[x] /\ sendq'[x] = sendq[x]
      BY <1>1, <1>3, <1>5, <2>1, <2>7
    <3>. QED BY <2>1, <2>4, <3>1, <3>2, <3>3 DEF CountsRight
  <2>. QED BY <2>6, <2>7
<1>. QED BY <1>1, <1>7, <1>8 DEF BusInv, BusInvButCounts

-----------------------------------------------------------------------------
(* The queues q2 are the queues q, with c at the end of the one of o.      *)
QueuedAt(q2, q, o, c) ==
    /\ q2 \in [Chans -> Seq(Coros)] /\ q \in [Chans -> Seq(Coros)]
    /\ \A x \in Chans : NoRepeat(q2[x]) /\ Range(q2[x]) \ {c} = Range(q[x]) \ {c}
    /\ \A x \in Chans : c \in Range(q2[x]) <=> x = o

(* wakeup_queue_suspend_this links the caller's entry, once.               *)
LEMMA QueueLinks ==
    ASSUME NEW c \in Coros, NEW o \in Chans, NEW p, NEW q, WithoutCaller(p, q, c)
    PROVE  QueuedAt([p EXCEPT ![o] = Append(@, c)], q, o, c)
<1>1. /\ p \in [Chans -> Seq(Coros)] /\ q \in [Chans -> Seq(Coros)]
      /\ \A x \in Chans : NoRepeat(p[x]) /\ Range(p[x]) = Range(q[x]) \ {c}
  BY DEF WithoutCaller
<1>2. /\ Append(p[o], c) \in Seq(Coros) /\ NoRepeat(Append(p[o], c))
      /\ Range(Append(p[o], c)) = Range(p[o]) \cup {c}
  BY <1>1, AppendLinks, AppendProperties
<1>. DEFINE q2 == [p EXCEPT ![o] = Append(@, c)]
<1>3. q2 \in [Chans -> Seq(Coros)] /\ q2[o] = Append(p[o], c) /\ \A x \in Chans : x # o => q2[x] = p[x]
  BY <1>1, <1>2
<1>. HIDE DEF q2
<1>4. QueuedAt(q2, q, o, c)
  BY <1>1, <1>2, <1>3 DEF QueuedAt
<1>. QED BY <1>4 DEF q2

(* c is now inside the operation op on o.                                  *)
CallBegins(c, op, o) ==
    /\ call'[c].op = op /\ call'[c].chan = o
    /\ \A d \in Coros : d # c => call'[d] = call[d]

(* The queues of the operation p, when c starts to wait in op on o.        *)
QueueOf(p, q2, q, c, op, o) ==
    (QueuedAt(q2, q, o, c) /\ p = op) \/ (q2 = q /\ p # op)

(* Nobody but the caller stops being pending, and it is queued.            *)
LEMMA QueuedPending ==
    ASSUME NEW c \in Coros, NEW op, NEW o, CallBegins(c, op, o), NEW x \in Chans,
           NEW p, NEW q, NEW q2, QueueOf(p, q2, q, c, op, o)
    PROVE  PendingIn(p, x, Range(q2[x]), call') = Pending(p, x, q) \ {c}
  BY DEF QueueOf, CallBegins, QueuedAt, Pending, PendingIn

(* A sender goes to sleep beside a full channel, or a receiver beside an   *)
(* empty one.                                                              *)
LEMMA BlockInv ==
    ASSUME BusInv, NEW c \in Coros, NEW op \in {"send", "recv"}, NEW o \in Range(slots) \ {NULL},
           NEW s \in Descriptors, s \in DOMAIN slots, slots[s] = o, NEW v \in Data \cup {NULL},
           op = "send" => v \in Data,
           this = c, JoinTargets(c) = {}, Block(c, op, s, v, o), call[c].op \in {"none", op},
           OwnChannel(c, op, o),
           \/ op = "send" /\ ~HasRoom(o) /\ QueuedAt(sendq', sendq, o, c) /\ recvq' = recvq
           \/ op = "recv" /\ data[o] = <<>> /\ QueuedAt(recvq', recvq, o, c) /\ sendq' = sendq
    PROVE  BusInv'
<1>1. /\ UNCHANGED <<joiner, bus, slots, heap, closed, limit, data, err>>
      /\ SuspendThis(c) /\ UNCHANGED <<engine, next, pool, count, func, ret>>
  BY DEF Block, chanVars
<1>t. /\ BusTypeOK /\ EngineTypeOK /\ o \in Chans /\ o \in heap /\ ~closed[o]
  BY OpenChannels DEF BusInv, EngineInv
<1>2. /\ CallBegins(c, op, o) /\ call' \in [Coros -> Calls]
      /\ call'[c].val = v /\ call'[c].slot = s
  <2>1. [op |-> op, slot |-> s, val |-> v, chan |-> o] \in Calls
    BY <1>t DEF Calls
  <2>2. call' = [call EXCEPT ![c] = [op |-> op, slot |-> s, val |-> v, chan |-> o]] /\ call \in [Coros -> Calls]
    BY <1>t DEF Block, BusTypeOK
  <2>. QED BY <2>1, <2>2 DEF CallBegins
<1>3. EngineInv'
  BY <1>1, SuspendThisInv DEF BusInv
<1>4. OthersKeepTurn(c) /\ state'[c] = "SUSPENDED"
  <2>1. NextGrows /\ ResumeNext /\ state' = [state EXCEPT ![c] = "SUSPENDED"]
    BY <1>1 DEF SuspendThis, NextGrows
  <2>2. \A d, e \in Coros \ {c} : RunsBefore(d, e) => RunsBefore(d, e)'
    BY <2>1, SwitchKeepsTurns DEF BusInv
  <2>. QED BY <1>t, <2>1, <2>2 DEF OthersKeepTurn, EngineTypeOK
<1>5. /\ sendq' \in [Chans -> Seq(Coros)] /\ recvq' \in [Chans -> Seq(Coros)]
      /\ \A x \in Chans : /\ NoRepeat(sendq'[x]) /\ NoRepeat(recvq'[x])
                          /\ Range(sendq'[x]) \ {c} = Range(sendq[x]) \ {c}
                          /\ Range(recvq'[x]) \ {c} = Range(recvq[x]) \ {c}
                          /\ c \in Range(sendq'[x]) <=> op = "send" /\ x = o
                          /\ c \in Range(recvq'[x]) <=> op = "recv" /\ x = o
  <2>1. /\ sendq \in [Chans -> Seq(Coros)] /\ recvq \in [Chans -> Seq(Coros)]
        /\ \A x \in Chans : NoRepeat(sendq[x]) /\ NoRepeat(recvq[x])
        /\ \A x \in Chans : /\ c \in Range(sendq[x]) => call[c].op = "send"
                            /\ c \in Range(recvq[x]) => call[c].op = "recv"
    BY <1>t DEF BusTypeOK, BusInv, EntriesLinkLive
  <2>. QED BY <2>1 DEF QueuedAt
<1>6. BusTypeOK'
  BY <1>1, <1>2, <1>5, <1>t DEF BusTypeOK
<1>7. EntriesLinkLive'
  <2>1. SUFFICES ASSUME NEW x \in Chans
                 PROVE  /\ \A d \in Range(sendq'[x]) : call'[d].op = "send" /\ call'[d].chan = x
                        /\ \A d \in Range(recvq'[x]) : call'[d].op = "recv" /\ call'[d].chan = x
                        /\ Range(sendq'[x]) \cup Range(recvq'[x]) # {} => x \in heap'
    BY <1>5 DEF EntriesLinkLive, Waiters
  <2>2. /\ \A d \in Range(sendq[x]) : call[d].op = "send" /\ call[d].chan = x /\ x \in heap
        /\ \A d \in Range(recvq[x]) : call[d].op = "recv" /\ call[d].chan = x /\ x \in heap
        /\ Range(sendq[x]) \subseteq Coros /\ Range(recvq[x]) \subseteq Coros
    BY <1>t, EmptyRange DEF BusInv, EntriesLinkLive, Waiters, BusTypeOK
  <2>3. ASSUME NEW d \in Range(sendq'[x])
        PROVE  call'[d].op = "send" /\ call'[d].chan = x /\ x \in heap'
    <3>1. CASE d = c
      BY <1>1, <1>2, <1>5, <1>t, <3>1 DEF CallBegins
    <3>2. CASE d # c
      <4>1. d \in Range(sendq[x])
        BY <1>5, <3>2
      <4>. QED BY <1>1, <1>2, <2>2, <3>2, <4>1 DEF CallBegins
    <3>. QED BY <3>1, <3>2
  <2>4. ASSUME NEW d \in Range(recvq'[x])
        PROVE  call'[d].op = "recv" /\ call'[d].chan = x /\ x \in heap'
    <3>1. CASE d = c
      BY <1>1, <1>2, <1>5, <1>t, <3>1 DEF CallBegins
    <3>2. CASE d # c
      <4>1. d \in Range(recvq[x])
        BY <1>5, <3>2
      <4>. QED BY <1>1, <1>2, <2>2, <3>2, <4>1 DEF CallBegins
    <3>. QED BY <3>1, <3>2
  <2>. QED BY <2>3, <2>4
<1>8. OneOwner'
  <2>1. \A d \in Coros : (call'[d].op = "close") <=> (call[d].op = "close")
    BY <1>2 DEF CallBegins
  <2>2. \A d \in Coros : call[d].op = "close" => call'[d] = call[d]
    BY <1>2 DEF CallBegins
  <2>3. {call'[d].chan : d \in {e \in Coros : call'[e].op = "close"}}
           = {call[d].chan : d \in {e \in Coros : call[e].op = "close"}}
    BY <2>1, <2>2
  <2>. QED BY <1>1, <2>1, <2>2, <2>3 DEF BusInv, OneOwner
<1>9. CallsSound'
  <2>1. ASSUME NEW d \in Coros, d # c
        PROVE  /\ call'[d] = call[d] /\ JoinTargets(d)' = JoinTargets(d)
               /\ state[d] \in {"RUNNING", "SUSPENDED"} => state'[d] \in {"RUNNING", "SUSPENDED"}
    BY <1>1, <1>2, <1>4, <2>1 DEF CallBegins, JoinTargets, OthersKeepTurn
  <2>2. JoinTargets(c)' = {}
    BY <1>1 DEF JoinTargets
  <2>3. ASSUME NEW d \in Coros
        PROVE  /\ call'[d].op = "none" => call'[d] = Idle
               /\ call'[d].op # "none" =>
                   /\ state'[d] \in {"RUNNING", "SUSPENDED"} /\ JoinTargets(d)' = {}
                   /\ call'[d].chan \in heap' /\ call'[d].slot \in Descriptors
               /\ call'[d].op = "send" => call'[d].val \in Data
               /\ (call'[d].op \in {"send", "recv"} /\ ~closed'[call'[d].chan]) =>
                   call'[d].slot \in DOMAIN slots' /\ slots'[call'[d].slot] = call'[d].chan
    <3>1. CASE d = c
      BY <1>1, <1>2, <1>4, <1>t, <2>2, <3>1 DEF CallBegins
    <3>2. CASE d # c
      BY <1>1, <2>1, <3>2 DEF BusInv, CallsSound, Waiting
    <3>. QED BY <3>1, <3>2
  <2>. QED BY <2>3 DEF CallsSound, Waiting
<1>10. CallersLeaveFirst'
  <2>1. SUFFICES ASSUME NEW d \in Coros, NEW e \in Coros, call'[d].op = "close",
                        call'[e].op \in {"send", "recv"}, call'[e].chan = call'[d].chan
                 PROVE  RunsBefore(e, d)'
    BY DEF CallersLeaveFirst, Waiting
  <2>2. d # c /\ call'[d] = call[d]
    BY <1>2, <2>1 DEF CallBegins
  <2>3. closed[call[d].chan]
    BY <2>1, <2>2 DEF BusInv, OneOwner
  <2>4. e # c /\ call'[e] = call[e]
    BY <1>2, <1>t, <2>1, <2>2, <2>3 DEF CallBegins
  <2>5. RunsBefore(e, d)
    BY <2>1, <2>2, <2>4 DEF BusInv, CallersLeaveFirst, Waiting
  <2>. QED BY <1>4, <2>2, <2>4, <2>5 DEF OthersKeepTurn
<1>11. UnlinkedRun'
  <2>1. SUFFICES ASSUME NEW d \in Coros,
                        \/ call'[d].op = "close"
                        \/ call'[d].op = "send" /\ d \notin Range(sendq'[call'[d].chan])
                        \/ call'[d].op = "recv" /\ d \notin Range(recvq'[call'[d].chan])
                 PROVE  state'[d] = "RUNNING"
    BY DEF UnlinkedRun
  <2>2. d # c /\ call'[d] = call[d]
    BY <1>2, <1>5, <1>t, <2>1 DEF CallBegins
  <2>3. call[d].chan \in Chans
    BY <1>t, <2>1, <2>2 DEF BusInv, CallsSound, BusTypeOK
  <2>4. state[d] = "RUNNING"
    BY <1>5, <2>1, <2>2, <2>3 DEF BusInv, UnlinkedRun
  <2>. QED BY <1>4, <2>2, <2>4 DEF OthersKeepTurn
<1>12. ASSUME NEW x \in Range(slots) \ {NULL} PROVE CountsRight(x)'
  <2>1. x \in Chans /\ CountsRight(x)
    BY <1>12, OpenChannels DEF BusInv
  <2>2. Pending("send", x, sendq)' = Pending("send", x, sendq) \ {c}
    <3>1. QueueOf("send", sendq', sendq, c, op, o)
      BY DEF QueueOf
    <3>2. CallBegins(c, op, o) /\ x \in Chans
      BY <1>2, <2>1
    <3>3. PendingIn("send", x, Range(sendq'[x]), call') = Pending("send", x, sendq) \ {c}
      BY <3>1, <3>2, QueuedPending
    <3>. QED BY <3>3 DEF Pending, PendingIn
  <2>3. Pending("recv", x, recvq)' = Pending("recv", x, recvq) \ {c}
    <3>1. QueueOf("recv", recvq', recvq, c, op, o)
      BY DEF QueueOf
    <3>2. CallBegins(c, op, o) /\ x \in Chans
      BY <1>2, <2>1
    <3>3. PendingIn("recv", x, Range(recvq'[x]), call') = Pending("recv", x, recvq) \ {c}
      BY <3>1, <3>2, QueuedPending
    <3>. QED BY <3>3 DEF Pending, PendingIn
  <2>4. /\ ~(op = "send" /\ x = o) => c \notin Pending("send", x, sendq)
        /\ ~(op = "recv" /\ x = o) => c \notin Pending("recv", x, recvq)
    BY DEF Pending, OwnChannel
  <2>5. /\ Len(data[x]) \in Nat /\ limit[x] \in Nat
        /\ Cardinality(Pending("send", x, sendq) \ {c}) \in Nat
        /\ Cardinality(Pending("recv", x, recvq) \ {c}) \in Nat
    BY <1>t, <2>1, LenProperties, LeaveCount DEF BusTypeOK
  <2>6. /\ data'[x] = data[x] /\ limit'[x] = limit[x]
        /\ ~(op = "send" /\ x = o) => (sendq'[x] # <<>> => sendq[x] # <<>>)
        /\ ~(op = "recv" /\ x = o) => (recvq'[x] # <<>> => recvq[x] # <<>>)
    <3>1. ~(op = "send" /\ x = o) => Range(sendq'[x]) \subseteq Range(sendq[x])
      BY <1>5, <2>1
    <3>2. ~(op = "recv" /\ x = o) => Range(recvq'[x]) \subseteq Range(recvq[x])
      BY <1>5, <2>1
    <3>3. /\ sendq'[x] \in Seq(Coros) /\ sendq[x] \in Seq(Coros)
          /\ recvq'[x] \in Seq(Coros) /\ recvq[x] \in Seq(Coros)
      BY <1>5, <1>t, <2>1 DEF BusTypeOK
    <3>4. /\ ~(op = "send" /\ x = o) => (sendq'[x] # <<>> => sendq[x] # <<>>)
          /\ ~(op = "recv" /\ x = o) => (recvq'[x] # <<>> => recvq[x] # <<>>)
      BY <3>1, <3>2, <3>3, StayEmpty
    <3>. QED BY <1>1, <3>4
  <2>7. Len(data'[x]) <= limit'[x]
    BY <2>1, <2>6 DEF CountsRight
  <2>8. sendq'[x] # <<>> => Len(data'[x]) + Cardinality(Pending("send", x, sendq)') >= limit'[x]
    <3>1. CASE op = "send" /\ x = o
      <4>1. Len(data[x]) >= limit[x]
        BY <2>5, <3>1 DEF HasRoom
      <4>2. Cardinality(Pending("send", x, sendq)') \in Nat
        BY <2>2, <2>5
      <4>. QED BY <2>5, <2>6, <4>1, <4>2
    <3>2. CASE ~(op = "send" /\ x = o)
      <4>1. Pending("send", x, sendq)' = Pending("send", x, sendq)
        BY <2>2, <2>4, <3>2
      <4>. QED BY <2>1, <2>6, <3>2, <4>1 DEF CountsRight
    <3>. QED BY <3>1, <3>2
  <2>9. recvq'[x] # <<>> => Len(data'[x]) <= Cardinality(Pending("recv", x, recvq)')
    <3>1. CASE op = "recv" /\ x = o
      <4>1. Len(data[x]) = 0
        BY <3>1
      <4>2. Cardinality(Pending("recv", x, recvq)') \in Nat
        BY <2>3, <2>5
      <4>. QED BY <2>6, <4>1, <4>2
    <3>2. CASE ~(op = "recv" /\ x = o)
      <4>1. Pending("recv", x, recvq)' = Pending("recv", x, recvq)
        BY <2>3, <2>4, <3>2
      <4>. QED BY <2>1, <2>6, <3>2, <4>1 DEF CountsRight
    <3>. QED BY <3>1, <3>2
  <2>. QED BY <2>7, <2>8, <2>9 DEF CountsRight
<1>. QED BY <1>1, <1>3, <1>6, <1>7, <1>8, <1>9, <1>10, <1>11, <1>12 DEF BusInv
(* One turn of coro_bus_send's loop, at its start or after a wakeup.         *)
LEMMA SendLoopInv ==
    ASSUME BusInv, NEW c \in Coros, NEW s \in Descriptors, NEW v \in Data, NEW sq,
           this = c, JoinTargets(c) = {}, call[c].op \in {"none", "send"},
           call[c].op = "send" => call[c].slot = s,
           WithoutCaller(sq, sendq, c), SendLoop(c, s, v, sq)
    PROVE  BusInv'
<1>1. WithoutCaller(recvq, recvq, c) /\ call[c].op # "close"
  BY CallerLinks
<1>2. CASE NoChannel(s) /\ Fail(c, "NO_CHANNEL") /\ sendq' = sq /\ UNCHANGED recvq
  <2>1. /\ WithoutCaller(sendq', sendq, c) /\ WithoutCaller(recvq', recvq, c)
        /\ call[c].op # "none" => NoChannel(call[c].slot)
    BY <1>1, <1>2
  <2>. QED BY <1>1, <1>2, <2>1, FailInv
<1>3. CASE ~NoChannel(s)
  <2>0. PICK o \in Range(slots) \ {NULL} : slots[s] = o
    BY <1>3, OpenChannels
  <2>1. s \in DOMAIN slots /\ o \in Chans
    BY <1>3, OpenChannels
  <2>2. OwnChannel(c, "send", o)
    BY <2>0, OpenChannels DEF Waiting, OwnChannel
  <2>3. \/ HasRoom(o) /\ Push(c, o, v) /\ sendq' = sq
        \/ /\ ~HasRoom(o)
           /\ sendq' = [sq EXCEPT ![o] = Append(@, c)]
           /\ Block(c, "send", s, v, o)
           /\ UNCHANGED recvq
    BY <1>3, <2>0 DEF SendLoop, Push, WakeupFirst, HasRoom, Block
  <2>4. CASE HasRoom(o) /\ Push(c, o, v) /\ sendq' = sq
    <3>1. WithoutCaller(sendq', sendq, c)
      BY <2>4
    <3>2. HasRoom(o) /\ Push(c, o, v)
      BY <2>4
    <3>3. call[c].op \in {"none", "send"}
      OBVIOUS
    <3>. QED BY <2>1, <2>2, <3>1, <3>2, <3>3, PushInv
  <2>5. CASE /\ ~HasRoom(o)
             /\ sendq' = [sq EXCEPT ![o] = Append(@, c)]
             /\ Block(c, "send", s, v, o)
             /\ UNCHANGED recvq
    <3>1. QueuedAt(sendq', sendq, o, c)
      <4>1. QueuedAt([sq EXCEPT ![o] = Append(@, c)], sendq, o, c)
        BY <2>1, QueueLinks
      <4>. QED BY <2>5, <4>1
    <3>2. /\ Block(c, "send", s, v, o) /\ ~HasRoom(o) /\ recvq' = recvq
          /\ v \in Data \cup {NULL}
      BY <2>5
    <3>. QED BY <2>0, <2>1, <2>2, <3>1, <3>2, BlockInv
  <2>. QED BY <2>3, <2>4, <2>5
<1>. QED BY <1>2, <1>3 DEF SendLoop

(* One turn of coro_bus_recv's loop, at its start or after a wakeup.         *)
LEMMA RecvLoopInv ==
    ASSUME BusInv, NEW c \in Coros, NEW s \in Descriptors, NEW rq,
           this = c, JoinTargets(c) = {}, call[c].op \in {"none", "recv"},
           call[c].op = "recv" => call[c].slot = s,
           WithoutCaller(rq, recvq, c), RecvLoop(c, s, rq)
    PROVE  BusInv'
<1>1. WithoutCaller(sendq, sendq, c) /\ call[c].op # "close"
  BY CallerLinks
<1>2. CASE NoChannel(s) /\ Fail(c, "NO_CHANNEL") /\ recvq' = rq /\ UNCHANGED sendq
  <2>1. /\ WithoutCaller(recvq', recvq, c) /\ WithoutCaller(sendq', sendq, c)
        /\ call[c].op # "none" => NoChannel(call[c].slot)
    BY <1>1, <1>2
  <2>. QED BY <1>1, <1>2, <2>1, FailInv
<1>3. CASE ~NoChannel(s)
  <2>0. PICK o \in Range(slots) \ {NULL} : slots[s] = o
    BY <1>3, OpenChannels
  <2>1. s \in DOMAIN slots /\ o \in Chans
    BY <1>3, OpenChannels
  <2>2. OwnChannel(c, "recv", o)
    BY <2>0, OpenChannels DEF Waiting, OwnChannel
  <2>3. \/ data[o] # <<>> /\ Pop(c, o) /\ recvq' = rq
        \/ /\ data[o] = <<>>
           /\ recvq' = [rq EXCEPT ![o] = Append(@, c)]
           /\ Block(c, "recv", s, NULL, o)
           /\ UNCHANGED sendq
    BY <1>3, <2>0 DEF RecvLoop, Pop, WakeupFirst, HasRoom, Block
  <2>4. CASE data[o] # <<>> /\ Pop(c, o) /\ recvq' = rq
    <3>1. WithoutCaller(recvq', recvq, c)
      BY <2>4
    <3>2. data[o] # <<>> /\ Pop(c, o)
      BY <2>4
    <3>3. call[c].op \in {"none", "recv"}
      OBVIOUS
    <3>. QED BY <2>1, <2>2, <3>1, <3>2, <3>3, PopInv
  <2>5. CASE /\ data[o] = <<>>
             /\ recvq' = [rq EXCEPT ![o] = Append(@, c)]
             /\ Block(c, "recv", s, NULL, o)
             /\ UNCHANGED sendq
    <3>1. QueuedAt(recvq', recvq, o, c)
      <4>1. QueuedAt([rq EXCEPT ![o] = Append(@, c)], recvq, o, c)
        BY <2>1, QueueLinks
      <4>. QED BY <2>5, <4>1
    <3>2. /\ Block(c, "recv", s, NULL, o) /\ data[o] = <<>> /\ sendq' = sendq
          /\ NULL \in Data \cup {NULL}
      BY <2>5
    <3>. QED BY <2>0, <2>1, <2>2, <3>1, <3>2, BlockInv
  <2>. QED BY <2>3, <2>4, <2>5
<1>. QED BY <1>2, <1>3 DEF RecvLoop

(* The two blocking calls, their continuations and the two calls that fail *)
(* instead of blocking.                                                    *)
LEMMA SendRecvInv ==
    ASSUME BusInv, NEW c \in Coros,
           \/ SendResume(c) \/ RecvResume(c)
           \/ \E s \in Descriptors : Recv(c, s) \/ TryRecv(c, s)
           \/ \E s \in Descriptors, v \in Data : Send(c, s, v) \/ TrySend(c, s, v)
    PROVE  BusInv'
<1>1. CanCall(c) => this = c /\ JoinTargets(c) = {} /\ call[c].op = "none"
  BY DEF CanCall, Free, InUserCode, Idle
<1>2. ASSUME call[c].op = "none"
      PROVE  WithoutCaller(sendq, sendq, c) /\ WithoutCaller(recvq, recvq, c)
  BY <1>2, CallerLinks
<1>3. ASSUME NEW s \in Descriptors, NEW v \in Data, Send(c, s, v) PROVE BusInv'
  BY <1>1, <1>2, <1>3, SendLoopInv DEF Send
<1>4. ASSUME NEW s \in Descriptors, Recv(c, s) PROVE BusInv'
  BY <1>1, <1>2, <1>4, RecvLoopInv DEF Recv
<1>5. CASE SendResume(c)
  <2>1. this = c /\ call[c].op = "send"
    BY <1>5 DEF SendResume
  <2>2. PICK s \in Descriptors, v \in Data : call[c].slot = s /\ call[c].val = v
    BY <2>1 DEF BusInv, CallsSound
  <2>3. PICK sq : sq = [sendq EXCEPT ![call[c].chan] = Unlink(@, c)]
    OBVIOUS
  <2>4. SendLoop(c, s, v, sq)
    BY <1>5, <2>2, <2>3 DEF SendResume, SendLoop, Push, Block
  <2>5. WithoutCaller(sq, sendq, c) /\ JoinTargets(c) = {}
    BY <2>1, <2>3, CallerLinks DEF BusInv, CallsSound
  <2>6. call[c].op \in {"none", "send"}
    BY <2>1
  <2>. QED BY <2>1, <2>2, <2>4, <2>5, <2>6, SendLoopInv
<1>6. CASE RecvResume(c)
  <2>1. /\ this = c /\ call[c].op = "recv" /\ call[c].op # "none"
        /\ RecvLoop(c, call[c].slot, [recvq EXCEPT ![call[c].chan] = Unlink(@, c)])
    BY <1>6 DEF RecvResume
  <2>2. JoinTargets(c) = {} /\ call[c].slot \in Descriptors
    BY <2>1 DEF BusInv, CallsSound
  <2>3. WithoutCaller([recvq EXCEPT ![call[c].chan] = Unlink(@, c)], recvq, c)
    BY <2>1, CallerLinks
  <2>. QED BY <2>1, <2>2, <2>3, RecvLoopInv
<1>7. ASSUME NEW e \in {"NO_CHANNEL", "WOULD_BLOCK"}, CanCall(c), Fail(c, e),
             UNCHANGED <<sendq, recvq>>
      PROVE  BusInv'
  <2>1. WithoutCaller(sendq', sendq, c) /\ WithoutCaller(recvq', recvq, c) /\ call[c].op = "none"
    BY <1>1, <1>2, <1>7
  <2>. QED BY <1>7, <2>1, FailInv
<1>8. ASSUME NEW s \in Descriptors, NEW v \in Data, TrySend(c, s, v) PROVE BusInv'
  <2>1. CASE /\ ~NoChannel(s) /\ UNCHANGED sendq
             /\ HasRoom(slots[s]) /\ Push(c, slots[s], v)
    <3>1. PICK o \in Range(slots) \ {NULL} : slots[s] = o
      BY <2>1, OpenChannels
    <3>2. WithoutCaller(sendq', sendq, c) /\ call[c].op = "none"
      BY <1>1, <1>2, <1>8, <2>1 DEF TrySend
    <3>3. HasRoom(o) /\ Push(c, o, v)
      BY <2>1, <3>1 DEF Push, WakeupFirst, HasRoom
    <3>4. /\ call[c].op \in {"none", "send"}
          /\ OwnChannel(c, "send", o)
      BY <3>2 DEF OwnChannel
    <3>. QED BY <3>1, <3>2, <3>3, <3>4, PushInv
  <2>. QED BY <1>7, <1>8, <2>1 DEF TrySend
<1>9. ASSUME NEW s \in Descriptors, TryRecv(c, s) PROVE BusInv'
  <2>1. CASE /\ ~NoChannel(s) /\ UNCHANGED recvq
             /\ data[slots[s]] # <<>> /\ Pop(c, slots[s])
    <3>1. PICK o \in Range(slots) \ {NULL} : slots[s] = o
      BY <2>1, OpenChannels
    <3>2. WithoutCaller(recvq', recvq, c) /\ call[c].op = "none"
      BY <1>1, <1>2, <1>9, <2>1 DEF TryRecv
    <3>3. data[o] # <<>> /\ Pop(c, o)
      BY <2>1, <3>1 DEF Pop, WakeupFirst, HasRoom
    <3>4. /\ call[c].op \in {"none", "recv"}
          /\ OwnChannel(c, "recv", o)
      BY <3>2 DEF OwnChannel
    <3>. QED BY <3>1, <3>2, <3>3, <3>4, PopInv
  <2>. QED BY <1>7, <1>9, <2>1 DEF TryRecv
<1>. QED BY <1>3, <1>4, <1>5, <1>6, <1>8, <1>9

-----------------------------------------------------------------------------
(* The wakeups of coro_bus_channel_close schedule each sleeper once.       *)
LEMMA SleepersOnce ==
    ASSUME EngineInv, NEW q, NEW w \in SleeperLists(q), Range(q) \subseteq Coros
    PROVE  /\ w \in Seq(Coros) /\ NoRepeat(w)
           /\ Range(w) = {d \in Range(q) : state[d] = "SUSPENDED"}
<1>. DEFINE S == {d \in Range(q) : state[d] = "SUSPENDED"}
            n == Cardinality(S)
<1>1. IsFiniteSet(S) /\ n \in Nat
  <2>1. S \subseteq Allocated
    BY DEF Allocated
  <2>. QED BY <2>1, FS_Subset, FS_CardinalityType DEF EngineInv, CountsAllocated
<1>2. w \in [1..n -> S] /\ Range(w) = S
  BY DEF SleeperLists, IsSleepersOf
<1>3. S \subseteq Coros
  OBVIOUS
<1>. HIDE DEF S, n
<1>4. w \in Seq(Coros) /\ Len(w) = n /\ DOMAIN w = 1..n
  <2>1. w \in [1..n -> Coros]
    BY <1>2, <1>3
  <2>. QED BY <1>1, <2>1, LenProperties, SeqDef
<1>5. w \in Surjection(1..n, S)
  <2>1. \A y \in S : \E i \in 1..n : w[i] = y
    BY <1>2, <1>4 DEF Range
  <2>. QED BY <1>2, <2>1 DEF Surjection
<1>6. IsFiniteSet(1..n) /\ Cardinality(1..n) = Cardinality(S)
  <2>1. 1 \in Int /\ n \in Int
    BY <1>1
  <2>2. IsFiniteSet(1..n) /\ Cardinality(1..n) = IF 1 > n THEN 0 ELSE n - 1 + 1
    BY <2>1, FS_Interval
  <2>3. (IF 1 > n THEN 0 ELSE n - 1 + 1) = n
    BY <1>1
  <2>. QED BY <2>2, <2>3 DEF n
<1>7. w \in Injection(1..n, S)
  BY <1>5, <1>6, FS_SurjSameCardinalityImpliesInj
<1>8. NoRepeat(w)
  BY <1>4, <1>7 DEF Injection, IsInjective, NoRepeat
<1>. QED BY <1>2, <1>4, <1>8 DEF S

(* Waking several sleepers up and yielding behind them.                    *)
LEMMA WakeAllInv ==
    ASSUME EngineInv, NEW c \in Coros, this = c, engine = "up",
           NEW w \in Seq(Coros), NoRepeat(w), \A d \in Range(w) : state[d] = "SUSPENDED",
           state' = [d \in Coros |-> IF d \in Range(w) THEN "RUNNING" ELSE state[d]],
           next' = Append(next \o w, c), ResumeNext,
           UNCHANGED <<engine, pool, count, func, ret, joiner>>
    PROVE  /\ EngineInv' /\ NextGrows /\ OthersKeepTurn(c) /\ state'[c] = "RUNNING"
           /\ \A d \in Range(now) \cup Range(next) \cup Range(w) : d # c => RunsBefore(d, c)'
<1>1. /\ this' \in Range(now) /\ this' \in Coros \cup {Sched}
      /\ now' \in Seq(Coros \cup {Sched})
      /\ NoRepeat(now') /\ Range(now') = Range(now) \ {this'}
      /\ IF this' \in Coros THEN now' # <<>> /\ now'[Len(now')] = Sched
                            ELSE now' = <<>>
  BY ResumeLinks
<1>2. /\ next \in Seq(Coros) /\ NoRepeat(next) /\ c \notin Range(next) /\ state[c] = "RUNNING"
      /\ Range(w) \subseteq Coros /\ Range(next) \subseteq Coros
      /\ \A d \in Range(next) \cup Range(now) : d \in Coros => state[d] = "RUNNING"
      /\ state \in [Coros -> {"NONE", "RUNNING", "SUSPENDED", "FINISHED"}]
  BY EmptyRange DEF EngineInv, EngineTypeOK, OneHome
<1>3. Range(next) \cap Range(w) = {} /\ c \notin Range(w) /\ Range(now) \cap Range(w) = {}
  BY <1>2
<1>. DEFINE u == next \o w
<1>4. /\ u \in Seq(Coros) /\ Range(u) = Range(next) \cup Range(w) /\ NoRepeat(u)
      /\ \A d, e : Ahead(next, d, e) => Ahead(u, d, e)
  BY <1>2, <1>3, ConcatLinks
<1>5. next' = Append(u, c)
  OBVIOUS
<1>. HIDE DEF u
<1>6. /\ next' \in Seq(Coros) /\ NoRepeat(next') /\ Range(next') = Range(next) \cup Range(w) \cup {c}
  <2>1. c \notin Range(u)
    BY <1>2, <1>3, <1>4
  <2>. QED BY <1>4, <1>5, <2>1, AppendLinks, AppendProperties
<1>7. /\ \A d, e : Ahead(next, d, e) => Ahead(next', d, e)
      /\ \A d \in Range(next) \cup Range(w) : Ahead(next', d, c)
  BY <1>4, <1>5, AppendOrder
<1>8. NextGrows
  BY <1>6, <1>7 DEF NextGrows
<1>9. EngineInv'
  <2>0. /\ \A d \in Range(w) : state'[d] = "RUNNING" /\ state[d] = "SUSPENDED"
        /\ \A d \in Coros : d \notin Range(w) => state'[d] = state[d]
        /\ state' \in [Coros -> {"NONE", "RUNNING", "SUSPENDED", "FINISHED"}]
    BY <1>2
  <2>1. EngineTypeOK'
    BY <1>1, <1>6, <2>0 DEF EngineInv, EngineTypeOK
  <2>2. OneHome'
    <3>1. /\ NoRepeat(now') /\ NoRepeat(next') /\ NoRepeat(pool')
          /\ Range(now') \cap Range(next') = {}
          /\ this' \notin Range(now') \cup Range(next')
      BY <1>1, <1>3, <1>6 DEF EngineInv, OneHome
    <3>2. ASSUME NEW d \in Coros
          PROVE  (d = this' \/ d \in Range(now') \cup Range(next')) <=> state'[d] = "RUNNING"
      <4>1. (d = this \/ d \in Range(now) \cup Range(next)) <=> state[d] = "RUNNING"
        BY DEF EngineInv, OneHome
      <4>. QED BY <1>1, <1>6, <2>0, <4>1
    <3>3. ASSUME NEW d \in Coros, d \in Range(pool')
          PROVE  state'[d] = "FINISHED" /\ joiner'[d] = NULL
      BY <2>0, <3>3 DEF EngineInv, OneHome
    <3>. QED BY <3>1, <3>2, <3>3 DEF OneHome
  <2>3. SchedulerLast'
    BY <1>1 DEF EngineInv, SchedulerLast
  <2>4. NoLostJoin'
    BY <2>0 DEF EngineInv, NoLostJoin
  <2>5. FuncOrResult'
    BY <2>0 DEF EngineInv, FuncOrResult
  <2>6. CountsAllocated'
    BY <2>0, CountUnchanged DEF EngineInv
  <2>. QED BY <2>1, <2>2, <2>3, <2>4, <2>5, <2>6 DEF EngineInv
<1>10. OthersKeepTurn(c) /\ state'[c] = "RUNNING"
  <2>1. \A d, e \in Coros \ {c} : RunsBefore(d, e) => RunsBefore(d, e)'
    BY <1>8, SwitchKeepsTurns
  <2>. QED BY <1>2, <1>3, <2>1 DEF OthersKeepTurn
<1>11. ASSUME NEW d \in Range(now) \cup Range(next) \cup Range(w), d # c PROVE RunsBefore(d, c)'
  BY <1>1, <1>6, <1>7 DEF RunsBefore
<1>. QED BY <1>8, <1>9, <1>10, <1>11

(* coro_bus_channel_close up to its switch: whoever is inside a call on    *)
(* the channel is scheduled ahead of the closer.                           *)
LEMMA CloseInv ==
    ASSUME BusInv, NEW c \in Coros, NEW s \in Descriptors, ChannelClose(c, s)
    PROVE  BusInv'
<1>t. BusTypeOK /\ EngineTypeOK
  BY DEF BusInv, EngineInv
<1>0. /\ this = c /\ engine = "up" /\ JoinTargets(c) = {} /\ call[c] = Idle /\ call[c].op = "none"
      /\ bus = "live"
  BY DEF ChannelClose, CanCall, Free, InUserCode, Idle
<1>1. PICK o : o = slots[s]
  OBVIOUS
<1>2. s \in DOMAIN slots /\ o \in Range(slots) \ {NULL} /\ o \in Chans /\ o \in heap /\ ~closed[o]
  <2>1. s \in DOMAIN slots
    BY <1>t, LenProperties DEF ChannelClose, Descriptors, BusTypeOK
  <2>. QED BY <1>1, <2>1, OpenChannels DEF ChannelClose, Range
<1>3. /\ closed' = [closed EXCEPT ![o] = TRUE] /\ slots' = [slots EXCEPT ![s] = NULL]
      /\ call' = [call EXCEPT ![c] = [op |-> "close", slot |-> s, val |-> NULL, chan |-> o]]
      /\ UNCHANGED <<engine, pool, count, func, ret, joiner>>
      /\ UNCHANGED <<bus, heap, limit, data, sendq, recvq, err>>
  BY <1>1 DEF ChannelClose
<1>4. PICK w \in SleeperLists(sendq[o] \o recvq[o]) :
        /\ state' = [d \in Coros |-> IF d \in Range(w) THEN "RUNNING" ELSE state[d]]
        /\ next' = Append(next \o w, c)
  BY <1>1 DEF ChannelClose, WakeAllAndYield
<1>5. sendq[o] \in Seq(Coros) /\ recvq[o] \in Seq(Coros)
  BY <1>2, <1>t DEF BusTypeOK
<1>6. /\ Range(sendq[o] \o recvq[o]) = Range(sendq[o]) \cup Range(recvq[o])
      /\ Range(sendq[o] \o recvq[o]) \subseteq Coros
  <2>1. Range(sendq[o] \o recvq[o]) = Range(sendq[o]) \cup Range(recvq[o])
    BY <1>5, ConcatLinks
  <2>. QED BY <1>5, <2>1, EmptyRange
<1>7. /\ w \in Seq(Coros) /\ NoRepeat(w)
      /\ Range(w) = {d \in Range(sendq[o]) \cup Range(recvq[o]) : state[d] = "SUSPENDED"}
  <2>1. /\ w \in Seq(Coros) /\ NoRepeat(w)
        /\ Range(w) = {d \in Range(sendq[o] \o recvq[o]) : state[d] = "SUSPENDED"}
    BY <1>4, <1>6, SleepersOnce DEF BusInv
  <2>. QED BY <1>6, <2>1
<1>8. /\ EngineInv' /\ OthersKeepTurn(c) /\ state'[c] = "RUNNING"
      /\ \A d \in Range(now) \cup Range(next) \cup Range(w) : d # c => RunsBefore(d, c)'
  <2>1. ResumeNext /\ \A d \in Range(w) : state[d] = "SUSPENDED"
    BY <1>7 DEF ChannelClose, WakeAllAndYield
  <2>. QED BY <1>0, <1>3, <1>4, <1>7, <2>1, WakeAllInv DEF BusInv
<1>9. /\ CallBegins(c, "close", o) /\ call' \in [Coros -> Calls] /\ call'[c].slot = s
  <2>1. [op |-> "close", slot |-> s, val |-> NULL, chan |-> o] \in Calls
    BY <1>2 DEF Calls
  <2>2. call \in [Coros -> Calls]
    BY <1>t DEF BusTypeOK
  <2>. QED BY <1>3, <2>1, <2>2 DEF CallBegins
<1>10. /\ slots' \in Seq(Chans \cup {NULL}) /\ DOMAIN slots' = DOMAIN slots /\ slots'[s] = NULL
       /\ \A r \in DOMAIN slots : r # s => slots'[r] = slots[r]
       /\ Range(slots') \ {NULL} = (Range(slots) \ {NULL}) \ {o}
  <2>1. slots \in Seq(Chans \cup {NULL}) /\ DOMAIN slots = 1..Len(slots)
    BY <1>t, LenProperties DEF BusTypeOK
  <2>2. /\ slots' \in Seq(Chans \cup {NULL}) /\ DOMAIN slots' = DOMAIN slots /\ slots'[s] = NULL
        /\ \A r \in DOMAIN slots : r # s => slots'[r] = slots[r]
    BY <1>2, <1>3, <2>1, ExceptSeq
  <2>3. \A r \in DOMAIN slots : slots[r] = o => r = s
    BY <1>1, <1>2 DEF BusInv, OneOwner
  <2>. QED BY <1>1, <2>2, <2>3 DEF Range
<1>11. /\ closed' \in [Chans -> BOOLEAN] /\ closed'[o] /\ \A x \in Chans : x # o => closed'[x] = closed[x]
  BY <1>2, <1>3, <1>t DEF BusTypeOK
<1>12. BusTypeOK'
  BY <1>3, <1>9, <1>10, <1>11, <1>t DEF BusTypeOK
<1>13. EntriesLinkLive'
  <2>1. SUFFICES ASSUME NEW x \in Chans
                 PROVE  /\ \A d \in Range(sendq[x]) : call'[d].op = "send" /\ call'[d].chan = x
                        /\ \A d \in Range(recvq[x]) : call'[d].op = "recv" /\ call'[d].chan = x
    BY <1>3 DEF BusInv, EntriesLinkLive, Waiters
  <2>2. /\ \A d \in Range(sendq[x]) : call[d].op = "send" /\ call[d].chan = x
        /\ \A d \in Range(recvq[x]) : call[d].op = "recv" /\ call[d].chan = x
        /\ Range(sendq[x]) \subseteq Coros /\ Range(recvq[x]) \subseteq Coros
    BY <1>t, EmptyRange DEF BusInv, EntriesLinkLive, BusTypeOK
  <2>. QED BY <1>0, <1>9, <2>2 DEF CallBegins
<1>14. OneOwner'
  <2>1. \A r, t \in DOMAIN slots' : slots'[r] = slots'[t] /\ slots'[r] # NULL => r = t
    BY <1>10 DEF BusInv, OneOwner
  <2>2. \A d \in Coros : call[d].op = "close" => call[d].chan # o
    BY <1>2 DEF BusInv, OneOwner
  <2>3. \A d, e \in Coros :
           call'[d].op = "close" /\ call'[e].op = "close" /\ call'[d].chan = call'[e].chan => d = e
    BY <1>9, <2>2 DEF BusInv, OneOwner, CallBegins
  <2>4. Range(slots') \ {NULL} = {x \in heap' : ~closed'[x]}
    <3>1. Range(slots) \ {NULL} = {x \in heap : ~closed[x]} /\ heap \subseteq Chans
      BY <1>t DEF BusInv, OneOwner, BusTypeOK
    <3>. QED BY <1>3, <1>10, <1>11, <3>1
  <2>5. {call'[d].chan : d \in {e \in Coros : call'[e].op = "close"}} = {x \in heap' : closed'[x]}
    <3>1. {call[d].chan : d \in {e \in Coros : call[e].op = "close"}} = {x \in heap : closed[x]}
          /\ heap \subseteq Chans
      BY <1>t DEF BusInv, OneOwner, BusTypeOK
    <3>2. {x \in heap' : closed'[x]} = {x \in heap : closed[x]} \cup {o}
      BY <1>2, <1>3, <1>11, <3>1
    <3>3. \A d \in Coros : (call'[d].op = "close") <=> (d = c \/ call[d].op = "close")
      BY <1>9 DEF CallBegins
    <3>4. \A d \in Coros : call[d].op = "close" => call'[d] = call[d]
      BY <1>0, <1>9 DEF CallBegins
    <3>5. call'[c].chan = o
      BY <1>9 DEF CallBegins
    <3>. QED BY <3>1, <3>2, <3>3, <3>4, <3>5
  <2>. QED BY <2>1, <2>3, <2>4, <2>5 DEF OneOwner
<1>15. CallsSound'
  <2>2. JoinTargets(c)' = {}
    BY <1>0, <1>3 DEF JoinTargets
  <2>3. ASSUME NEW d \in Coros
        PROVE  /\ call'[d].op = "none" => call'[d] = Idle
               /\ call'[d].op # "none" =>
                   /\ state'[d] \in {"RUNNING", "SUSPENDED"} /\ JoinTargets(d)' = {}
                   /\ call'[d].chan \in heap' /\ call'[d].slot \in Descriptors
               /\ call'[d].op = "send" => call'[d].val \in Data
               /\ (call'[d].op \in {"send", "recv"} /\ ~closed'[call'[d].chan]) =>
                   call'[d].slot \in DOMAIN slots' /\ slots'[call'[d].slot] = call'[d].chan
    <3>1. CASE d = c
      BY <1>2, <1>3, <1>8, <1>9, <2>2, <3>1 DEF CallBegins
    <3>2. CASE d # c
      <4>1. /\ call'[d] = call[d] /\ JoinTargets(d)' = JoinTargets(d)
            /\ state[d] \in {"RUNNING", "SUSPENDED"} => state'[d] \in {"RUNNING", "SUSPENDED"}
        BY <1>3, <1>8, <1>9, <3>2 DEF CallBegins, JoinTargets, OthersKeepTurn
      <4>2. /\ call[d].op = "none" => call[d] = Idle
            /\ call[d].op # "none" =>
                 /\ state[d] \in {"RUNNING", "SUSPENDED"} /\ JoinTargets(d) = {}
                 /\ call[d].chan \in heap /\ call[d].slot \in Descriptors
            /\ call[d].op = "send" => call[d].val \in Data
            /\ (call[d].op \in {"send", "recv"} /\ ~closed[call[d].chan]) =>
                 call[d].slot \in DOMAIN slots /\ slots[call[d].slot] = call[d].chan
        BY DEF BusInv, CallsSound, Waiting
      <4>3. ASSUME call[d].op \in {"send", "recv"}, ~closed'[call[d].chan]
            PROVE  call[d].slot \in DOMAIN slots' /\ slots'[call[d].slot] = call[d].chan
        <5>1. call[d].chan \in Chans /\ call[d].chan # o
          BY <1>11, <1>t, <4>2, <4>3 DEF BusTypeOK
        <5>2. ~closed[call[d].chan]
          BY <1>11, <4>3, <5>1
        <5>3. call[d].slot # s
          BY <1>1, <4>2, <4>3, <5>1, <5>2
        <5>. QED BY <1>10, <4>2, <4>3, <5>2, <5>3
      <4>. QED BY <1>3, <4>1, <4>2, <4>3
    <3>. QED BY <3>1, <3>2
  <2>. QED BY <2>3 DEF CallsSound, Waiting
<1>16. CallersLeaveFirst'
  <2>1. SUFFICES ASSUME NEW d \in Coros, NEW e \in Coros, call'[d].op = "close",
                        call'[e].op \in {"send", "recv"}, call'[e].chan = call'[d].chan
                 PROVE  RunsBefore(e, d)'
    BY DEF CallersLeaveFirst, Waiting
  <2>2. e # c /\ call'[e] = call[e]
    BY <1>9, <2>1 DEF CallBegins
  <2>3. CASE d = c
    <3>1. call[e].chan = o /\ call[e].op \in {"send", "recv"}
      BY <1>9, <2>1, <2>2, <2>3 DEF CallBegins
    <3>2. e \in Range(now) \cup Range(next) \cup Range(w)
      <4>1. CASE state[e] = "RUNNING"
        BY <1>0, <2>2, <4>1 DEF BusInv, EngineInv, OneHome
      <4>2. CASE state[e] # "RUNNING"
        <5>1. e \in Range(sendq[o]) \cup Range(recvq[o])
          BY <3>1, <4>2 DEF BusInv, UnlinkedRun
        <5>2. state[e] = "SUSPENDED"
          BY <3>1, <4>2 DEF BusInv, CallsSound
        <5>. QED BY <1>7, <5>1, <5>2
      <4>. QED BY <4>1, <4>2
    <3>. QED BY <1>8, <2>2, <2>3, <3>2
  <2>4. CASE d # c
    <3>1. call'[d] = call[d]
      BY <1>9, <2>4 DEF CallBegins
    <3>2. RunsBefore(e, d)
      BY <2>1, <2>2, <3>1 DEF BusInv, CallersLeaveFirst, Waiting
    <3>. QED BY <1>8, <2>2, <2>4, <3>2 DEF OthersKeepTurn
  <2>. QED BY <2>3, <2>4
<1>17. UnlinkedRun'
  <2>1. SUFFICES ASSUME NEW d \in Coros, d # c,
                        \/ call'[d].op = "close"
                        \/ call'[d].op = "send" /\ d \notin Range(sendq'[call'[d].chan])
                        \/ call'[d].op = "recv" /\ d \notin Range(recvq'[call'[d].chan])
                 PROVE  state'[d] = "RUNNING"
    BY <1>8 DEF UnlinkedRun
  <2>2. call'[d] = call[d]
    BY <1>9, <2>1 DEF CallBegins
  <2>3. state[d] = "RUNNING"
    BY <1>3, <2>1, <2>2 DEF BusInv, UnlinkedRun
  <2>. QED BY <1>8, <2>1, <2>3 DEF OthersKeepTurn
<1>18. ASSUME NEW x \in Range(slots') \ {NULL} PROVE CountsRight(x)'
  <2>1. CountsRight(x)
    BY <1>10 DEF BusInv
  <2>2. Pending("send", x, sendq)' = Pending("send", x, sendq)
    BY <1>0, <1>3, <1>9 DEF Pending, CallBegins
  <2>3. Pending("recv", x, recvq)' = Pending("recv", x, recvq)
    BY <1>0, <1>3, <1>9 DEF Pending, CallBegins
  <2>. QED BY <1>3, <2>1, <2>2, <2>3 DEF CountsRight
<1>19. (bus = "none" => slots = <<>>)'
  BY <1>0, <1>3
<1>20. (\A x \in Range(slots) \ {NULL} : CountsRight(x))'
  BY <1>18
<1>. QED BY <1>8, <1>12, <1>13, <1>14, <1>15, <1>16, <1>17, <1>19, <1>20 DEF BusInv

(* A step of the bus that leaves the engine and the calls alone.           *)
LEMMA SameCallsInv ==
    ASSUME BusInv, UNCHANGED <<engineVars, call>>
    PROVE  /\ EngineInv' /\ CallersLeaveFirst'
           /\ \A c \in Coros : JoinTargets(c)' = JoinTargets(c) /\ state'[c] = state[c]
<1>1. EngineInv'
  BY NextInv DEF BusInv
<1>. QED BY <1>1 DEF BusInv, CallersLeaveFirst, RunsBefore, Waiting, engineVars, JoinTargets

(* coro_bus_new.                                                           *)
LEMMA BusNewInv ==
    ASSUME BusInv, NEW c \in Coros, BusNew(c)
    PROVE  BusInv'
<1>1. /\ UNCHANGED <<engineVars, slots, heap, closed, limit, data, sendq, recvq, call>>
      /\ bus' = "live" /\ err' = "NONE"
  BY DEF BusNew, BusInv, chanVars
<1>2. /\ EngineInv' /\ CallersLeaveFirst'
      /\ \A d \in Coros : JoinTargets(d)' = JoinTargets(d) /\ state'[d] = state[d]
  BY <1>1, SameCallsInv
<1>3. BusTypeOK' /\ EntriesLinkLive' /\ OneOwner'
  BY <1>1 DEF BusInv, BusTypeOK, EntriesLinkLive, OneOwner, Waiters
<1>4. CallsSound' /\ UnlinkedRun'
  BY <1>1, <1>2 DEF BusInv, CallsSound, UnlinkedRun, Waiting
<1>5. (\A o \in Range(slots) \ {NULL} : CountsRight(o))'
  BY <1>1 DEF BusInv, CountsRight, Pending
<1>. QED BY <1>1, <1>2, <1>3, <1>4, <1>5 DEF BusInv

(* coro_bus_delete: only the closers are left inside a call, and their     *)
(* channels are in no slot.                                                *)
LEMMA BusDeleteInv ==
    ASSUME BusInv, NEW c \in Coros, BusDelete(c)
    PROVE  BusInv'
<1>. DEFINE gone == Range(slots)
<1>1. /\ UNCHANGED <<engineVars, sendq, recvq, call, err>> /\ bus' = "none" /\ slots' = <<>>
      /\ heap' = heap \ gone
      /\ closed' = [o \in Chans |-> IF o \in gone THEN FALSE ELSE closed[o]]
      /\ limit' = [o \in Chans |-> IF o \in gone THEN 0 ELSE limit[o]]
      /\ data' = [o \in Chans |-> IF o \in gone THEN <<>> ELSE data[o]]
      /\ \A d \in Coros : call[d].op \notin {"send", "recv"}
  BY DEF BusDelete
<1>2. /\ EngineInv' /\ CallersLeaveFirst'
      /\ \A d \in Coros : JoinTargets(d)' = JoinTargets(d) /\ state'[d] = state[d]
  BY <1>1, SameCallsInv
<1>3. Range(slots') = {} /\ slots' \in Seq(Chans \cup {NULL})
  BY <1>1, EmptyLinks
<1>4. BusTypeOK'
  <2>1. /\ closed \in [Chans -> BOOLEAN] /\ limit \in [Chans -> Nat] /\ data \in [Chans -> Seq(Data)]
        /\ heap \in SUBSET Chans
    BY DEF BusInv, BusTypeOK
  <2>2. heap' \in SUBSET Chans /\ limit' \in [Chans -> Nat] /\ data' \in [Chans -> Seq(Data)]
    BY <1>1, <2>1
  <2>3. closed' \in [Chans -> BOOLEAN]
    BY <1>1, <2>1
  <2>. QED BY <1>1, <1>3, <2>2, <2>3 DEF BusInv, BusTypeOK
<1>5. \A o \in Chans : Range(sendq[o]) = {} /\ Range(recvq[o]) = {}
  <2>1. \A o \in Chans : Range(sendq[o]) \subseteq Coros /\ Range(recvq[o]) \subseteq Coros
    BY EmptyRange DEF BusInv, BusTypeOK
  <2>. QED BY <1>1, <2>1 DEF BusInv, EntriesLinkLive
<1>6. EntriesLinkLive'
  BY <1>1, <1>5 DEF BusInv, EntriesLinkLive, Waiters
<1>7. /\ \A o \in heap' : closed[o] /\ closed'[o] /\ o \in heap
      /\ \A o \in heap : closed[o] => o \in heap'
  <2>1. heap \subseteq Chans /\ NULL \notin Chans
    BY ChansAssumption DEF BusInv, BusTypeOK
  <2>2. gone \ {NULL} = {o \in heap : ~closed[o]}
    BY DEF BusInv, OneOwner
  <2>. QED BY <1>1, <2>1, <2>2
<1>8. OneOwner'
  <2>1. {call[d].chan : d \in {e \in Coros : call[e].op = "close"}} = {o \in heap : closed[o]}
    BY DEF BusInv, OneOwner
  <2>2. {o \in heap' : closed'[o]} = {o \in heap : closed[o]} /\ {o \in heap' : ~closed'[o]} = {}
    BY <1>7
  <2>3. DOMAIN slots' = {}
    BY <1>1
  <2>. QED BY <1>1, <1>3, <2>1, <2>2, <2>3 DEF BusInv, OneOwner
<1>9. CallsSound'
  <2>1. ASSUME NEW d \in Coros, call[d].op # "none" PROVE call[d].chan \in heap'
    <3>1. call[d].op = "close"
      BY <1>1, <2>1 DEF BusInv, BusTypeOK, Calls
    <3>. QED BY <1>7, <3>1 DEF BusInv, OneOwner
  <2>. QED BY <1>1, <1>2, <2>1 DEF BusInv, CallsSound, Waiting
<1>10. UnlinkedRun'
  BY <1>1, <1>2 DEF BusInv, UnlinkedRun
<1>11. (\A o \in Range(slots) \ {NULL} : CountsRight(o))'
  BY <1>3
<1>. QED BY <1>1, <1>2, <1>4, <1>6, <1>8, <1>9, <1>10, <1>11 DEF BusInv

(* The closer deletes the channel: nobody is inside a call on it.          *)
LEMMA CloseResumeInv ==
    ASSUME BusInv, NEW c \in Coros, ChannelCloseResume(c)
    PROVE  BusInv'
<1>t. BusTypeOK /\ this = c /\ call[c].op = "close"
  BY DEF BusInv, ChannelCloseResume
<1>0. PICK o : o = call[c].chan
  OBVIOUS
<1>1. /\ UNCHANGED <<engineVars, bus, slots, sendq, recvq, err>>
      /\ heap' = heap \ {o} /\ closed' = [closed EXCEPT ![o] = FALSE]
      /\ limit' = [limit EXCEPT ![o] = 0] /\ data' = [data EXCEPT ![o] = <<>>]
      /\ call' = [call EXCEPT ![c] = Idle]
  BY <1>0 DEF ChannelCloseResume
<1>2. o \in heap /\ o \in Chans /\ closed[o]
  BY <1>0, <1>t DEF BusInv, OneOwner, BusTypeOK
<1>3. \A d \in Coros : Waiting(d) => call[d].chan # o
  <2>1. SUFFICES ASSUME NEW d \in Coros, RunsBefore(d, c) PROVE FALSE
    BY <1>0, <1>t DEF BusInv, CallersLeaveFirst
  <2>2. c \in Range(now) \cup Range(next)
    BY <2>1 DEF RunsBefore, Ahead, Range
  <2>. QED BY <1>t, <2>2 DEF BusInv, EngineInv, OneHome
<1>4. /\ EngineInv'
      /\ \A d \in Coros : JoinTargets(d)' = JoinTargets(d) /\ state'[d] = state[d]
      /\ \A d, e \in Coros : RunsBefore(d, e)' = RunsBefore(d, e)
  <2>1. EngineInv'
    BY <1>1, NextInv DEF BusInv
  <2>. QED BY <1>1, <2>1 DEF RunsBefore, engineVars, JoinTargets
<1>5. /\ call'[c] = Idle /\ Idle.op = "none" /\ Idle \in Calls /\ call' \in [Coros -> Calls]
      /\ \A d \in Coros : d # c => call'[d] = call[d]
  BY <1>1, <1>t DEF Idle, Calls, BusTypeOK
<1>6. /\ closed' \in [Chans -> BOOLEAN] /\ limit' \in [Chans -> Nat] /\ data' \in [Chans -> Seq(Data)]
      /\ \A x \in Chans : x # o => closed'[x] = closed[x] /\ limit'[x] = limit[x] /\ data'[x] = data[x]
  BY <1>1, <1>2, <1>t DEF BusTypeOK
<1>7. BusTypeOK'
  BY <1>1, <1>5, <1>6, <1>t DEF BusTypeOK
<1>8. EntriesLinkLive'
  <2>1. SUFFICES ASSUME NEW x \in Chans
                 PROVE  /\ \A d \in Range(sendq[x]) : /\ call'[d].op = "send" /\ call'[d].chan = x
                                                      /\ x \in heap'
                        /\ \A d \in Range(recvq[x]) : /\ call'[d].op = "recv" /\ call'[d].chan = x
                                                      /\ x \in heap'
    BY <1>1 DEF BusInv, EntriesLinkLive, Waiters
  <2>2. /\ \A d \in Range(sendq[x]) : call[d].op = "send" /\ call[d].chan = x /\ x \in heap
        /\ \A d \in Range(recvq[x]) : call[d].op = "recv" /\ call[d].chan = x /\ x \in heap
        /\ Range(sendq[x]) \subseteq Coros /\ Range(recvq[x]) \subseteq Coros
    BY <1>t, EmptyRange DEF BusInv, EntriesLinkLive, Waiters, BusTypeOK
  <2>. QED BY <1>1, <1>3, <1>5, <1>t, <2>2 DEF Waiting
<1>9. OneOwner'
  <2>1. Range(slots) \ {NULL} = {x \in heap : ~closed[x]} /\ heap \subseteq Chans
    BY <1>t DEF BusInv, OneOwner, BusTypeOK
  <2>2. {x \in heap' : ~closed'[x]} = {x \in heap : ~closed[x]}
    BY <1>1, <1>2, <1>6, <2>1
  <2>3. {call[d].chan : d \in {e \in Coros : call[e].op = "close"}} = {x \in heap : closed[x]}
    BY DEF BusInv, OneOwner
  <2>4. {x \in heap' : closed'[x]} = {x \in heap : closed[x]} \ {o}
    BY <1>1, <1>2, <1>6, <2>1
  <2>5. \A d \in Coros : d # c /\ call[d].op = "close" => call[d].chan # o
    BY <1>0, <1>t DEF BusInv, OneOwner
  <2>6. \A d \in Coros : (call'[d].op = "close") <=> (d # c /\ call[d].op = "close")
    BY <1>5
  <2>7. {call'[d].chan : d \in {e \in Coros : call'[e].op = "close"}} = {x \in heap' : closed'[x]}
    BY <1>0, <1>5, <2>3, <2>4, <2>5, <2>6
  <2>8. \A d, e \in Coros :
           call'[d].op = "close" /\ call'[e].op = "close" /\ call'[d].chan = call'[e].chan => d = e
    BY <1>5, <2>6 DEF BusInv, OneOwner
  <2>. QED BY <1>1, <2>1, <2>2, <2>7, <2>8 DEF BusInv, OneOwner
<1>10. CallsSound'
  <2>1. ASSUME NEW d \in Coros, d # c, call[d].op # "none" PROVE call[d].chan # o
    <3>1. CASE call[d].op = "close"
      BY <1>0, <1>t, <2>1, <3>1 DEF BusInv, OneOwner
    <3>2. CASE Waiting(d)
      BY <1>3, <3>2
    <3>. QED BY <1>t, <2>1, <3>1, <3>2 DEF Waiting, BusTypeOK, Calls
  <2>2. ASSUME NEW d \in Coros, d # c
        PROVE  /\ call'[d].op = "none" => call'[d] = Idle
               /\ call'[d].op # "none" =>
                   /\ state'[d] \in {"RUNNING", "SUSPENDED"} /\ JoinTargets(d)' = {}
                   /\ call'[d].chan \in heap' /\ call'[d].slot \in Descriptors
               /\ call'[d].op = "send" => call'[d].val \in Data
               /\ (call'[d].op \in {"send", "recv"} /\ ~closed'[call'[d].chan]) =>
                   call'[d].slot \in DOMAIN slots' /\ slots'[call'[d].slot] = call'[d].chan
    <3>1. call'[d] = call[d] /\ (call[d].op # "none" => call[d].chan # o)
      BY <1>5, <2>1, <2>2
    <3>2. /\ call[d].op = "none" => call[d] = Idle
          /\ call[d].op # "none" =>
               /\ state[d] \in {"RUNNING", "SUSPENDED"} /\ JoinTargets(d) = {}
               /\ call[d].chan \in heap /\ call[d].chan \in Chans /\ call[d].slot \in Descriptors
          /\ call[d].op = "send" => call[d].val \in Data
          /\ (call[d].op \in {"send", "recv"} /\ ~closed[call[d].chan]) =>
               call[d].slot \in DOMAIN slots /\ slots[call[d].slot] = call[d].chan
      BY <1>t DEF BusInv, CallsSound, Waiting, BusTypeOK
    <3>. QED BY <1>1, <1>4, <1>6, <3>1, <3>2
  <2>. QED BY <1>5, <2>2 DEF CallsSound, Waiting
<1>11. CallersLeaveFirst'
  <2>1. SUFFICES ASSUME NEW d \in Coros, NEW e \in Coros, call'[d].op = "close",
                        call'[e].op \in {"send", "recv"}, call'[e].chan = call'[d].chan
                 PROVE  RunsBefore(e, d)'
    BY DEF CallersLeaveFirst, Waiting
  <2>2. call'[d] = call[d] /\ call'[e] = call[e]
    BY <1>5, <2>1
  <2>. QED BY <1>4, <2>1, <2>2 DEF BusInv, CallersLeaveFirst, Waiting
<1>12. UnlinkedRun'
  BY <1>1, <1>4, <1>5 DEF BusInv, UnlinkedRun
<1>13. ASSUME NEW x \in Range(slots) \ {NULL} PROVE CountsRight(x)'
  <2>1. CountsRight(x) /\ x \in Chans /\ x # o
    BY <1>2, OpenChannels DEF BusInv
  <2>2. Pending("send", x, sendq)' = Pending("send", x, sendq)
    BY <1>1, <1>5, <1>t DEF Pending
  <2>3. Pending("recv", x, recvq)' = Pending("recv", x, recvq)
    BY <1>1, <1>5, <1>t DEF Pending
  <2>. QED BY <1>1, <1>6, <2>1, <2>2, <2>3 DEF CountsRight
<1>. QED BY <1>1, <1>4, <1>7, <1>8, <1>9, <1>10, <1>11, <1>12, <1>13 DEF BusInv

(* The new channel o is in one slot, and the others are where they were.   *)
SlotsWith(o) ==
    /\ slots' \in Seq(Chans \cup {NULL})
    /\ Range(slots') \ {NULL} = (Range(slots) \ {NULL}) \cup {o}
    /\ \A r \in DOMAIN slots : slots[r] # NULL => r \in DOMAIN slots' /\ slots'[r] = slots[r]
    /\ \A r, s \in DOMAIN slots' : slots'[r] = slots'[s] /\ slots'[r] # NULL => r = s

(* coro_bus_channel_open, reusing a free slot or growing the array.        *)
LEMMA OpenSlots ==
    ASSUME BusInv, NEW o \in Chans \ heap,
           \/ \E s \in DOMAIN slots : slots[s] = NULL /\ slots' = [slots EXCEPT ![s] = o]
           \/ /\ \A s \in DOMAIN slots : slots[s] # NULL
              /\ slots' = [Append(slots, NULL) EXCEPT ![Len(slots) + 1] = o]
    PROVE  SlotsWith(o)
<1>. DEFINE S == Chans \cup {NULL}
<1>1. /\ slots \in Seq(S) /\ Len(slots) \in Nat /\ DOMAIN slots = 1..Len(slots) /\ o \in S /\ NULL \in S
      /\ NULL \notin Chans
  BY LenProperties, ChansAssumption DEF BusInv, BusTypeOK
<1>2. /\ \A r \in DOMAIN slots : slots[r] # o
      /\ \A r, s \in DOMAIN slots : slots[r] = slots[s] /\ slots[r] # NULL => r = s
  BY <1>1, OpenChannels DEF BusInv, OneOwner, Range
<1>. HIDE DEF S
<1>3. ASSUME NEW s \in DOMAIN slots, slots[s] = NULL, slots' = [slots EXCEPT ![s] = o] PROVE SlotsWith(o)
  <2>1. /\ slots' \in Seq(S) /\ DOMAIN slots' = DOMAIN slots /\ slots'[s] = o
        /\ \A r \in DOMAIN slots : r # s => slots'[r] = slots[r]
    BY <1>1, <1>3, ExceptSeq
  <2>2. Range(slots') \ {NULL} = (Range(slots) \ {NULL}) \cup {o}
    BY <1>1, <1>3, <2>1 DEF Range
  <2>3. \A r \in DOMAIN slots : slots[r] # NULL => r \in DOMAIN slots' /\ slots'[r] = slots[r]
    BY <1>3, <2>1
  <2>4. \A r, t \in DOMAIN slots' : slots'[r] = slots'[t] /\ slots'[r] # NULL => r = t
    BY <1>2, <2>1
  <2>. QED BY <2>1, <2>2, <2>3, <2>4 DEF SlotsWith, S
<1>4. ASSUME \A s \in DOMAIN slots : slots[s] # NULL,
             slots' = [Append(slots, NULL) EXCEPT ![Len(slots) + 1] = o]
      PROVE  SlotsWith(o)
  <2>. DEFINE n == Len(slots) + 1
              a == Append(slots, NULL)
  <2>1. /\ a \in Seq(S) /\ Len(a) = n /\ n \in 1..Len(a) /\ DOMAIN a = 1..n
        /\ \A r \in 1..Len(slots) : a[r] = slots[r]
    BY <1>1, AppendProperties, LenProperties
  <2>2. slots' = [a EXCEPT ![n] = o] /\ n = Len(slots) + 1
    BY <1>4
  <2>. HIDE DEF n, a
  <2>3. /\ slots' \in Seq(S) /\ DOMAIN slots' = 1..n /\ slots'[n] = o
        /\ \A r \in 1..n : r # n => slots'[r] = a[r]
    BY <1>1, <2>1, <2>2, ExceptSeq
  <2>4. \A r \in DOMAIN slots : r \in DOMAIN slots' /\ r # n /\ slots'[r] = slots[r]
    BY <1>1, <2>1, <2>2, <2>3
  <2>5. \A r \in DOMAIN slots' : r = n \/ r \in DOMAIN slots
    BY <1>1, <2>2, <2>3
  <2>6. n \in DOMAIN slots'
    BY <1>1, <2>2, <2>3
  <2>7. Range(slots') \ {NULL} = (Range(slots) \ {NULL}) \cup {o}
    BY <1>1, <2>3, <2>4, <2>5, <2>6 DEF Range
  <2>8. \A r, t \in DOMAIN slots' : slots'[r] = slots'[t] /\ slots'[r] # NULL => r = t
    BY <1>2, <2>3, <2>4, <2>5
  <2>. QED BY <2>3, <2>4, <2>7, <2>8 DEF SlotsWith, S
<1>. QED BY <1>3, <1>4

LEMMA OpenInv ==
    ASSUME BusInv, NEW c \in Coros, NEW l \in Limits, ChannelOpen(c, l)
    PROVE  BusInv'
<1>t. BusTypeOK
  BY DEF BusInv
<1>1. PICK o \in Chans \ heap :
        /\ heap' = heap \cup {o} /\ closed' = [closed EXCEPT ![o] = FALSE]
        /\ limit' = [limit EXCEPT ![o] = l] /\ data' = [data EXCEPT ![o] = <<>>]
        /\ sendq' = [sendq EXCEPT ![o] = <<>>] /\ recvq' = [recvq EXCEPT ![o] = <<>>]
        /\ \/ \E s \in DOMAIN slots : slots[s] = NULL /\ slots' = [slots EXCEPT ![s] = o]
           \/ /\ \A s \in DOMAIN slots : slots[s] # NULL
              /\ slots' = [Append(slots, NULL) EXCEPT ![Len(slots) + 1] = o]
  BY DEF ChannelOpen, NewChannel
<1>2. UNCHANGED <<engineVars, bus, call>> /\ err' = "NONE" /\ bus = "live"
  BY DEF ChannelOpen, CanCall
<1>3. SlotsWith(o)
  BY <1>1, OpenSlots
<1>4. /\ EngineInv' /\ CallersLeaveFirst'
      /\ \A d \in Coros : JoinTargets(d)' = JoinTargets(d) /\ state'[d] = state[d]
  BY <1>2, SameCallsInv
<1>5. /\ closed' \in [Chans -> BOOLEAN] /\ limit' \in [Chans -> Nat] /\ data' \in [Chans -> Seq(Data)]
      /\ sendq' \in [Chans -> Seq(Coros)] /\ recvq' \in [Chans -> Seq(Coros)]
      /\ ~closed'[o] /\ limit'[o] = l /\ data'[o] = <<>> /\ sendq'[o] = <<>> /\ recvq'[o] = <<>>
      /\ \A x \in Chans : x # o => /\ closed'[x] = closed[x] /\ limit'[x] = limit[x] /\ data'[x] = data[x]
                                   /\ sendq'[x] = sendq[x] /\ recvq'[x] = recvq[x]
  BY <1>1, <1>t, LimitsAssumption DEF BusTypeOK
<1>6. BusTypeOK'
  BY <1>1, <1>2, <1>3, <1>5, <1>t DEF BusTypeOK, SlotsWith
<1>7. EntriesLinkLive'
  <2>1. ASSUME NEW x \in Chans
        PROVE  /\ NoRepeat(sendq'[x]) /\ NoRepeat(recvq'[x])
               /\ \A d \in Range(sendq'[x]) : call[d].op = "send" /\ call[d].chan = x
               /\ \A d \in Range(recvq'[x]) : call[d].op = "recv" /\ call[d].chan = x
               /\ Range(sendq'[x]) \cup Range(recvq'[x]) # {} => x \in heap
    <3>1. CASE x = o
      BY <1>5, <3>1, EmptyLinks
    <3>2. CASE x # o
      BY <1>5, <3>2 DEF BusInv, EntriesLinkLive, Waiters
    <3>. QED BY <3>1, <3>2
  <2>. QED BY <1>1, <1>2, <2>1 DEF EntriesLinkLive, Waiters
<1>8. OneOwner'
  <2>1. Range(slots) \ {NULL} = {x \in heap : ~closed[x]} /\ heap \subseteq Chans
    BY <1>t DEF BusInv, OneOwner, BusTypeOK
  <2>2. {x \in heap' : ~closed'[x]} = {x \in heap : ~closed[x]} \cup {o}
    BY <1>1, <1>5, <2>1
  <2>3. {x \in heap' : closed'[x]} = {x \in heap : closed[x]}
    BY <1>1, <1>5, <2>1
  <2>4. {call'[d].chan : d \in {e \in Coros : call'[e].op = "close"}} = {x \in heap' : closed'[x]}
    BY <1>2, <2>3 DEF BusInv, OneOwner
  <2>. QED BY <1>2, <1>3, <2>1, <2>2, <2>4 DEF BusInv, OneOwner, SlotsWith
<1>9. CallsSound'
  <2>1. \A d \in Coros : call[d].op # "none" => call[d].chan \in heap /\ call[d].chan \in Chans /\ call[d].chan # o
    BY <1>t DEF BusInv, CallsSound, BusTypeOK
  <2>2. ASSUME NEW d \in Coros, Waiting(d), ~closed'[call[d].chan]
        PROVE  call[d].slot \in DOMAIN slots' /\ slots'[call[d].slot] = call[d].chan
    <3>1. call[d].chan \in Chans /\ call[d].chan # o
      BY <2>1, <2>2 DEF Waiting
    <3>2. call[d].slot \in DOMAIN slots /\ slots[call[d].slot] = call[d].chan
      BY <1>5, <2>2, <3>1 DEF BusInv, CallsSound
    <3>3. call[d].chan # NULL
      BY <3>1, ChansAssumption
    <3>. QED BY <1>3, <3>2, <3>3 DEF SlotsWith
  <2>. QED BY <1>1, <1>2, <1>4, <2>1, <2>2 DEF BusInv, CallsSound, Waiting
<1>10. UnlinkedRun'
  <2>1. \A d \in Coros : call[d].op # "none" => call[d].chan \in Chans /\ call[d].chan # o
    BY <1>t DEF BusInv, CallsSound, BusTypeOK
  <2>. QED BY <1>2, <1>4, <1>5, <2>1 DEF BusInv, UnlinkedRun
<1>11. ASSUME NEW x \in Range(slots') \ {NULL} PROVE CountsRight(x)'
  <2>1. CASE x = o
    BY <1>5, <2>1, LimitsAssumption DEF CountsRight
  <2>2. CASE x # o
    <3>1. CountsRight(x) /\ x \in Chans
      BY <1>3, <2>2, OpenChannels DEF SlotsWith, BusInv
    <3>2. sendq'[x] = sendq[x] /\ recvq'[x] = recvq[x] /\ data'[x] = data[x] /\ limit'[x] = limit[x]
      BY <1>5, <2>2, <3>1
    <3>3. Pending("send", x, sendq)' = Pending("send", x, sendq)
      BY <1>2, <3>2 DEF Pending
    <3>4. Pending("recv", x, recvq)' = Pending("recv", x, recvq)
      BY <1>2, <3>2 DEF Pending
    <3>. QED BY <3>1, <3>2, <3>3, <3>4 DEF CountsRight
  <2>. QED BY <2>1, <2>2
<1>12. (\A x \in Range(slots) \ {NULL} : CountsRight(x))'
  BY <1>11
<1>. QED BY <1>2, <1>4, <1>6, <1>7, <1>8, <1>9, <1>10, <1>12 DEF BusInv

-----------------------------------------------------------------------------
LEMMA BusInitInv == Init => BusInv
<1>. SUFFICES ASSUME Init PROVE BusInv
  OBVIOUS
<1>1. EngineInv
  BY CreateInv DEF Init
<1>2. /\ joiner = [c \in Coros |-> NULL] /\ call = [c \in Coros |-> Idle] /\ heap = {} /\ slots = <<>>
      /\ sendq = [o \in Chans |-> <<>>] /\ recvq = [o \in Chans |-> <<>>] /\ Idle.op = "none"
      /\ Idle \in Calls /\ Range(slots) = {}
  BY EmptyLinks DEF Init, EngineCreate, Idle, Calls
<1>3. BusTypeOK
  <2>1. slots \in Seq(Chans \cup {NULL})
    BY <1>2
  <2>. QED BY <1>2, <2>1 DEF Init, BusTypeOK
<1>4. EntriesLinkLive
  BY <1>2, EmptyLinks DEF EntriesLinkLive, Waiters
<1>5. OneOwner
  <2>1. {c \in Coros : call[c].op = "close"} = {} /\ DOMAIN slots = {}
    BY <1>2
  <2>. QED BY <1>2, <2>1 DEF OneOwner
<1>6. CallsSound /\ CallersLeaveFirst /\ UnlinkedRun
  BY <1>2 DEF CallsSound, CallersLeaveFirst, UnlinkedRun, Waiting
<1>. QED BY <1>1, <1>2, <1>3, <1>4, <1>5, <1>6 DEF BusInv

(* Every step of the program, or a stuttering step, preserves it.          *)
LEMMA BusNextInv == BusInv /\ [Next]_vars => BusInv'
<1>. SUFFICES ASSUME BusInv, [Next]_vars PROVE BusInv'
  OBVIOUS
<1>1. ASSUME NEW c \in Coros, BusCall(c) PROVE BusInv'
  BY <1>1, BusNewInv, BusDeleteInv, OpenInv, CloseInv, SendRecvInv DEF BusCall
<1>2. ASSUME NEW c \in Coros, UserStep(c) PROVE BusInv'
  BY <1>1, <1>2, EngineInBusInv DEF UserStep
<1>3. ASSUME NEW c \in Coros, BusResume(c) PROVE BusInv'
  BY <1>3, SendRecvInv, CloseResumeInv DEF BusResume
<1>4. CASE LibraryStep
  BY <1>3, <1>4, EngineInBusInv DEF LibraryStep
<1>5. CASE MainStep /\ UNCHANGED busVars
  BY <1>5, EngineInBusInv
<1>6. CASE UNCHANGED vars
  <2>1. UNCHANGED <<engineVars, bus, slots, heap, closed, limit, data, sendq, recvq, call, err>>
    BY <1>6 DEF vars, busVars
  <2>2. /\ EngineInv' /\ CallersLeaveFirst'
        /\ \A d \in Coros : JoinTargets(d)' = JoinTargets(d) /\ state'[d] = state[d]
    BY <2>1, SameCallsInv
  <2>3. BusTypeOK' /\ EntriesLinkLive' /\ OneOwner'
    BY <2>1 DEF BusInv, BusTypeOK, EntriesLinkLive, OneOwner, Waiters
  <2>4. CallsSound' /\ UnlinkedRun'
    BY <2>1, <2>2 DEF BusInv, CallsSound, UnlinkedRun, Waiting
  <2>5. (\A o \in Range(slots) \ {NULL} : CountsRight(o))'
    BY <2>1 DEF BusInv, CountsRight, Pending
  <2>. QED BY <2>1, <2>2, <2>3, <2>4, <2>5 DEF BusInv
<1>. QED BY <1>2, <1>4, <1>5, <1>6 DEF Next

(* The inductive invariant holds of the bus and the engine together.       *)
THEOREM BusInvariant == Spec => []BusInv
  BY BusInitInv, BusNextInv, PTL DEF Spec

(* A waiting coroutine's entry is linked once and into an allocated        *)
(* channel, and every channel is deleted exactly once: no call of the bus  *)
(* touches freed memory or frees it twice.                                 *)
THEOREM BusMemorySafe == Spec => []MemorySafe
<1>1. BusInv => MemorySafe
  BY DEF BusInv, MemorySafe
<1>. QED BY <1>1, BusInvariant, PTL

(* The order of RunsBefore is the order of RunOrder.                       *)
LEMMA RunOrderOf ==
    ASSUME EngineInv, NEW c \in Coros, NEW d \in Coros, RunsBefore(d, c)
    PROVE  \E i, j \in DOMAIN RunOrder : i < j /\ RunOrder[i] = d /\ RunOrder[j] = c
<1>. DEFINE S == Coros \cup {Sched, NULL}
            a == <<this>>
            b == a \o now
            r == b \o next
<1>1. this \in S /\ now \in Seq(S) /\ next \in Seq(S)
  BY DEF EngineInv, EngineTypeOK
<1>2. /\ a \in Seq(S) /\ Len(a) = 1 /\ a[1] = this
  BY <1>1
<1>. HIDE DEF a, S
<1>3. /\ b \in Seq(S) /\ Len(b) = Len(now) + 1 /\ Len(now) \in Nat /\ DOMAIN now = 1..Len(now)
      /\ b[1] = this /\ \A i \in 1..Len(now) : b[i + 1] = now[i]
  <2>1. /\ b \in Seq(S) /\ Len(b) = Len(a) + Len(now)
        /\ \A i \in 1..Len(a) + Len(now) : b[i] = IF i <= Len(a) THEN a[i] ELSE now[i - Len(a)]
        /\ Len(now) \in Nat /\ DOMAIN now = 1..Len(now)
    BY <1>1, <1>2, ConcatProperties, LenProperties
  <2>. HIDE DEF b
  <2>2. b[1] = this
    BY <1>2, <2>1
  <2>3. ASSUME NEW i \in 1..Len(now) PROVE b[i + 1] = now[i]
    <3>1. i + 1 \in 1..1 + Len(now) /\ ~(i + 1 <= 1) /\ i + 1 - 1 = i
      BY <2>1
    <3>. QED BY <1>2, <2>1, <3>1
  <2>. QED BY <1>2, <2>1, <2>2, <2>3
<1>. HIDE DEF b
<1>4. /\ Len(r) = Len(now) + 1 + Len(next) /\ Len(next) \in Nat /\ DOMAIN next = 1..Len(next)
      /\ DOMAIN r = 1..Len(r) /\ \A i \in 1..Len(now) + 1 : r[i] = b[i]
      /\ \A i \in 1..Len(next) : r[i + (Len(now) + 1)] = next[i]
  <2>1. /\ r \in Seq(S) /\ Len(r) = Len(b) + Len(next) /\ DOMAIN r = 1..Len(r)
        /\ \A i \in 1..Len(b) + Len(next) : r[i] = IF i <= Len(b) THEN b[i] ELSE next[i - Len(b)]
        /\ Len(next) \in Nat /\ DOMAIN next = 1..Len(next)
    BY <1>1, <1>3, ConcatProperties, LenProperties
  <2>. HIDE DEF r
  <2>2. \A i \in 1..Len(now) + 1 : r[i] = b[i]
    BY <1>3, <2>1
  <2>3. ASSUME NEW i \in 1..Len(next) PROVE r[i + (Len(now) + 1)] = next[i]
    <3>1. /\ i + Len(b) \in 1..Len(b) + Len(next) /\ ~(i + Len(b) <= Len(b)) /\ i + Len(b) - Len(b) = i
      BY <1>3, <2>1
    <3>. QED BY <1>3, <2>1, <3>1
  <2>. QED BY <1>3, <2>1, <2>2, <2>3
<1>5. RunOrder = r
  BY DEF RunOrder, r, b, a
<1>. HIDE DEF r
<1>6. 1 \in DOMAIN r /\ r[1] = this
  BY <1>3, <1>4
<1>7. \A i \in DOMAIN now : i + 1 \in DOMAIN r /\ i + 1 \in 1..Len(now) + 1 /\ i + 1 > 1 /\ r[i + 1] = now[i]
  BY <1>3, <1>4
<1>8. \A i \in DOMAIN next : /\ i + (Len(now) + 1) \in DOMAIN r /\ i + (Len(now) + 1) > Len(now) + 1
                             /\ r[i + (Len(now) + 1)] = next[i]
  BY <1>3, <1>4
<1>9. CASE d = this /\ c \in Range(now)
  <2>1. PICK j \in DOMAIN now : now[j] = c
    BY <1>9 DEF Range
  <2>. QED BY <1>5, <1>6, <1>7, <1>9, <2>1
<1>10. CASE d = this /\ c \in Range(next)
  <2>1. PICK j \in DOMAIN next : next[j] = c
    BY <1>10 DEF Range
  <2>2. 1 < j + (Len(now) + 1)
    BY <1>3, <1>4
  <2>. QED BY <1>5, <1>6, <1>8, <1>10, <2>1, <2>2
<1>11. CASE Ahead(now, d, c)
  <2>1. PICK i \in DOMAIN now, j \in DOMAIN now : i < j /\ now[i] = d /\ now[j] = c
    BY <1>11 DEF Ahead
  <2>2. i + 1 < j + 1
    BY <1>3, <2>1
  <2>. QED BY <1>5, <1>7, <2>1, <2>2
<1>12. CASE d \in Range(now) /\ c \in Range(next)
  <2>1. PICK i \in DOMAIN now, j \in DOMAIN next : now[i] = d /\ next[j] = c
    BY <1>12 DEF Range
  <2>2. i + 1 < j + (Len(now) + 1)
    BY <1>3, <1>4
  <2>. QED BY <1>5, <1>7, <1>8, <2>1, <2>2
<1>13. CASE Ahead(next, d, c)
  <2>1. PICK i \in DOMAIN next, j \in DOMAIN next : i < j /\ next[i] = d /\ next[j] = c
    BY <1>13 DEF Ahead
  <2>2. i + (Len(now) + 1) < j + (Len(now) + 1)
    BY <1>3, <1>4, <2>1
  <2>. QED BY <1>5, <1>8, <2>1, <2>2
<1>. QED BY <1>9, <1>10, <1>11, <1>12, <1>13 DEF RunsBefore

(* Once a channel is closed its waiters are all scheduled ahead of the     *)
(* closer that will delete it.                                             *)
THEOREM BusWaitersLeaveFirst == Spec => []WaitersLeaveFirst
<1>1. BusInv => WaitersLeaveFirst
  <2>1. SUFFICES ASSUME BusInv, NEW c \in Coros, NEW d \in Coros, call[c].op = "close",
                        d \in Waiters(call[c].chan)
                 PROVE  \E i, j \in DOMAIN RunOrder : i < j /\ RunOrder[i] = d /\ RunOrder[j] = c
    BY DEF WaitersLeaveFirst
  <2>2. call[c].chan \in Chans
    BY <2>1 DEF BusInv, CallsSound, BusTypeOK
  <2>3. Waiting(d) /\ call[d].chan = call[c].chan
    BY <2>1, <2>2 DEF BusInv, EntriesLinkLive, Waiters, Waiting
  <2>4. RunsBefore(d, c) /\ EngineInv
    BY <2>1, <2>3 DEF BusInv, CallersLeaveFirst
  <2>. QED BY <2>4, RunOrderOf
<1>. QED BY <1>1, BusInvariant, PTL

(* No sender sleeps beside room nobody is coming to fill, no receiver      *)
(* beside a message nobody is coming to take.                              *)
THEOREM BusNoLostWakeup == Spec => []NoLostWakeup
<1>1. BusInv => NoLostWakeup
  BY DEF BusInv, NoLostWakeup, CountsRight, UnlinkedRun
<1>. QED BY <1>1, BusInvariant, PTL

(* When coro_sched_run returns, whoever is still inside a send or a        *)
(* receive is on an open channel that cannot serve it.                     *)
THEOREM BusQuietMeansBlocked == Spec => []QuietMeansBlocked
<1>1. BusInv => QuietMeansBlocked
  <2>1. SUFFICES ASSUME BusInv, this = NULL, next = <<>>, NEW c \in Coros
                 PROVE  /\ call[c].op = "send" => ~closed[call[c].chan] /\ ~HasRoom(call[c].chan)
                        /\ call[c].op = "recv" => ~closed[call[c].chan] /\ data[call[c].chan] = <<>>
                        /\ call[c].op # "close"
    BY DEF QuietMeansBlocked
  <2>2. \A d \in Coros : state[d] # "RUNNING"
    <3>1. now = <<>> /\ this \notin Coros
      BY <2>1, NullAssumption DEF BusInv, EngineInv, SchedulerLast
    <3>2. Range(now) = {} /\ Range(next) = {}
      BY <2>1, <3>1, EmptyLinks
    <3>. QED BY <2>1, <3>1, <3>2 DEF BusInv, EngineInv, OneHome
  <2>3. \A d \in Coros : /\ call[d].op # "close"
                         /\ call[d].op = "send" => d \in Range(sendq[call[d].chan])
                         /\ call[d].op = "recv" => d \in Range(recvq[call[d].chan])
    BY <2>1, <2>2 DEF BusInv, UnlinkedRun
  <2>4. ASSUME NEW o, call[c].op \in {"send", "recv"}, o = call[c].chan
        PROVE  ~closed[o] /\ o \in Range(slots) \ {NULL} /\ o \in Chans
    <3>1. o \in heap /\ o \in Chans
      BY <2>1, <2>4 DEF BusInv, CallsSound, BusTypeOK
    <3>2. ~closed[o]
      BY <2>1, <2>3, <3>1 DEF BusInv, OneOwner
    <3>. QED BY <2>1, <3>1, <3>2 DEF BusInv, OneOwner
  <2>5. ASSUME NEW o \in Chans
        PROVE  Pending("send", o, sendq) = {} /\ Pending("recv", o, recvq) = {}
    BY <2>3 DEF Pending
  <2>6. ASSUME call[c].op = "send" PROVE ~closed[call[c].chan] /\ ~HasRoom(call[c].chan)
    <3>1. PICK o : o = call[c].chan
      OBVIOUS
    <3>2. ~closed[o] /\ o \in Range(slots) \ {NULL} /\ o \in Chans
      BY <2>4, <2>6, <3>1
    <3>3. sendq[o] # <<>>
      BY <2>3, <2>6, <3>1, EmptyLinks
    <3>4. Len(data[o]) + Cardinality(Pending("send", o, sendq)) >= limit[o]
      BY <2>1, <3>2, <3>3 DEF BusInv, CountsRight
    <3>5. Cardinality(Pending("send", o, sendq)) = 0
      BY <2>5, <3>2, FS_EmptySet
    <3>6. Len(data[o]) \in Nat /\ limit[o] \in Nat
      BY <2>1, <3>2, LenProperties DEF BusInv, BusTypeOK
    <3>7. ~(Len(data[o]) < limit[o])
      BY <3>4, <3>5, <3>6
    <3>. QED BY <3>1, <3>2, <3>7 DEF HasRoom
  <2>7. ASSUME call[c].op = "recv" PROVE ~closed[call[c].chan] /\ data[call[c].chan] = <<>>
    <3>1. PICK o : o = call[c].chan
      OBVIOUS
    <3>2. ~closed[o] /\ o \in Range(slots) \ {NULL} /\ o \in Chans
      BY <2>4, <2>7, <3>1
    <3>3. recvq[o] # <<>>
      BY <2>3, <2>7, <3>1, EmptyLinks
    <3>4. Len(data[o]) <= Cardinality(Pending("recv", o, recvq))
      BY <2>1, <3>2, <3>3 DEF BusInv, CountsRight
    <3>5. Cardinality(Pending("recv", o, recvq)) = 0
      BY <2>5, <3>2, FS_EmptySet
    <3>6. data[o] \in Seq(Data) /\ Len(data[o]) \in Nat
      BY <2>1, <3>2, LenProperties DEF BusInv, BusTypeOK
    <3>7. Len(data[o]) = 0
      BY <3>4, <3>5, <3>6
    <3>8. data[o] = <<>>
      BY <3>6, <3>7, EmptySeq
    <3>. QED BY <3>1, <3>2, <3>8
  <2>. QED BY <2>3, <2>6, <2>7
<1>. QED BY <1>1, BusInvariant, PTL
=============================================================================
