---------------------------- MODULE IOCoroProofs ----------------------------
(***************************************************************************)
(* No assert of the event loop fails, no deleted task is used and no event *)
(* is missed, for any number of clients and requests, any size of a batch  *)
(* and of the buffers in the kernel.                                       *)
(***************************************************************************)
EXTENDS IOCoro, TLAPS, FiniteSetTheorems

Bits == {"R", "W", "H"}
TaskRecord == [st : States, idx : Nat, bits : SUBSET Bits, op : Ops \cup {"none"}, recvs : Nat]
SockStates == {"none", "connecting", "open", "closed"}
SockRecord == [st : SockStates, bytes : Nat, fin : BOOLEAN, reset : BOOLEAN, full : BOOLEAN]
Points == {"off", "check", "queues", "drain", "wait", "batch", "coro", "ended", "gone"}
Stages == {"connect", "clients", "joinClients", "server", "joinServer", "~cli", "~srv", "done"}
Jobs == {"none", "send", "recv", "accept", "finish", "delete"}

TaskTypes ==
    /\ task \in [Tasks -> TaskRecord]
    /\ myTasks \in [Cores -> Seq(Tasks)] /\ myQueue \in [Cores -> Seq(Tasks)]
    /\ mySize \in [Cores -> Nat]
ThreadTypes ==
    /\ pc \in [Cores -> Points] /\ coro \in [Cores -> [task : Tasks, next : Jobs]]
    /\ main \in Stages /\ myIsStopped \in [Cores -> BOOLEAN]
    /\ connected \in 0..ClientCount /\ finished \in Nat /\ serverFinished \in BOOLEAN
KernelTypes ==
    /\ sock \in [Ends -> SockRecord] /\ backlog \in Seq(1..ClientCount)
    /\ ready \in [Cores -> SUBSET Tasks] /\ signalled = Cores
    /\ DOMAIN batch = Cores

(* A task that has a place in myTasks.                                     *)
Live(t) == task[t].st \in {"working", "deleting"}
Gone(t) == task[t].st \in {"deleting", "deleted"}

(* The lists of a core and the tasks know each other.                      *)
Indexed(c) ==
    \A i \in 1..Len(myTasks[c]) :
        /\ Core(myTasks[c][i]) = c
        /\ Live(myTasks[c][i]) /\ task[myTasks[c][i]].idx = i
Placed(t) ==
    Live(t) => /\ task[t].idx \in 1..Len(myTasks[Core(t)])
               /\ myTasks[Core(t)][task[t].idx] = t
Queued(c) ==
    /\ \A i \in 1..Len(myQueue[c]) :
         Core(myQueue[c][i]) = c /\ task[myQueue[c][i]].st \in {"new", "deleting"}
    /\ \A i, j \in 1..Len(myQueue[c]) : myQueue[c][i] = myQueue[c][j] => i = j
Listed(t) ==
    task[t].st \in {"new", "deleting"} => \E i \in 1..Len(myQueue[Core(t)]) : myQueue[Core(t)][i] = t
ListsSound ==
    /\ \A c \in Cores : Indexed(c) /\ Queued(c) /\ mySize[c] >= Len(myQueue[c])
    /\ \A t \in Tasks : Placed(t) /\ Listed(t)

(* What the thread of a core is working with.                              *)
ReadySound(c) == \A t \in ready[c] : Core(t) = c /\ Live(t)
BatchSound(c) ==
    /\ DOMAIN batch[c] \subseteq Tasks
    /\ \A t \in DOMAIN batch[c] : /\ Core(t) = c /\ Live(t) /\ batch[c][t] \subseteq {"R", "W"}
                                  /\ t = Listener => "R" \in batch[c][t]
    /\ pc[c] \notin {"batch", "coro"} => DOMAIN batch[c] = {}
CoroSound(c) ==
    pc[c] = "coro" =>
        /\ Core(coro[c].task) = c /\ task[coro[c].task].op = "none"
        /\ \/ /\ coro[c].task = Listener /\ coro[c].next = "accept"
              /\ Live(Listener) /\ "R" \in task[Listener].bits
           \/ /\ coro[c].task \in Ends /\ coro[c].next \in {"send", "recv", "finish", "delete"}
              /\ task[coro[c].task].st = "working"
UsesSound == \A c \in Cores : ReadySound(c) /\ BatchSound(c) /\ CoroSound(c)

(* What the coroutine of a task does next.                                 *)
Running(t) == pc[Core(t)] = "coro" /\ coro[Core(t)].task = t
Does(t) == IF Running(t) THEN coro[Core(t)].next ELSE task[t].op

EndSound(t) ==
    /\ task[t].st = "none" => task[t].op = "none" /\ task[t].recvs = 0
    /\ task[t].st \in {"new", "working"} =>
         Does(t) \in {"connect", "send", "recv", "finish", "delete"}
    /\ task[t].st = "new" => task[t].op \in {"connect", "send"} /\ task[t].recvs = 0
    /\ Gone(t) => task[t].op = "none"
    /\ Does(t) \in {"connect", "send", "recv"} => task[t].recvs < Requests
    /\ Does(t) \in {"finish", "delete"} => task[t].recvs = Requests
    /\ task[t].recvs <= Requests
ListenerSound ==
    /\ task[Listener].st # "none"
    /\ task[Listener].st \in {"new", "working", "deleting"} => Does(Listener) = "accept"
    /\ task[Listener].st = "deleted" => task[Listener].op = "none"
    /\ task[Listener].st = "new" => \A t \in Ends : Core(t) = "srv" => task[t].st = "none"
EventSubSound(c) ==
    /\ task[EventSub(c)].st # "none" /\ task[EventSub(c)].op = "none"
    /\ task[EventSub(c)].st = "new" =>
         /\ myQueue[c] # <<>> /\ myQueue[c][1] = EventSub(c)
         /\ \A t \in Tasks : Core(t) = c => task[t].st \in {"none", "new"}

(* Every byte sent was received or is in the kernel.                       *)
Received(t) == IF Gone(t) THEN Requests ELSE task[t].recvs
Sent(t) == IF Gone(t) THEN Requests
           ELSE IF Does(t) = "recv" THEN task[t].recvs + 1 ELSE task[t].recvs
Conserved(t) == Received(t) + sock[t].bytes = Sent(Peer(t))

(* A socket and the tasks at both ends of its connection.                  *)
SockSound(t) ==
    /\ sock[t].reset = FALSE
    /\ (sock[t].fin = TRUE) <=> task[Peer(t)].st = "deleted"
    /\ sock[t].st = "closed" <=> task[t].st = "deleted"
    /\ sock[t].bytes <= Cap

(* The connections to be accepted: k is the number of the connection.      *)
InBacklog(k) == \E i \in 1..Len(backlog) : backlog[i] = k
ClientSound(t) ==
    /\ t[2] > connected <=> task[t].st = "none"
    /\ sock[t].st = "none" <=> task[t].st = "none"
    /\ sock[t].st \in {"none", "connecting"} =>
         task[Peer(t)].st = "none" /\ sock[Peer(t)].st = "none" /\ ~InBacklog(t[2])
ServerSound(t) ==
    /\ sock[t].st # "connecting"
    /\ task[t].st # "none" => ~InBacklog(t[2])
BacklogSound == \A i, j \in 1..Len(backlog) : backlog[i] = backlog[j] => i = j
ConnectionSound(t) == IF Core(t) = "cli" THEN ClientSound(t) ELSE ServerSound(t)

(* onClientFinish was called for these.                                    *)
Done(t) == Gone(t) \/ Does(t) = "delete"
DoneEnds == {t \in Ends : Done(t)}
FinishedSound == finished = Cardinality(DoneEnds)

(* The main thread, and the threads of the cores.                          *)
Down == {"~cli", "~srv", "done"}
Stopping == {"server", "joinServer"} \cup Down
StagesSound ==
    /\ main # "connect" => connected = ClientCount
    /\ main \in {"joinClients"} \cup Stopping => \A t \in Ends : Done(t)
    /\ (myIsStopped["cli"] = TRUE) <=> main \in {"joinClients"} \cup Stopping
    /\ (myIsStopped["srv"] = TRUE) <=> main \in {"joinServer"} \cup Down
    /\ Gone(Listener) <=> main \in Stopping
    /\ (serverFinished = TRUE) <=> task[Listener].st = "deleted"
    /\ main \in {"joinServer"} \cup Down => serverFinished = TRUE
    /\ Gone(EventSub("cli")) <=> main \in Down
    /\ Gone(EventSub("srv")) <=> main \in {"~srv", "done"}
ThreadsSound ==
    /\ pc["srv"] # "off" /\ (pc["cli"] = "off" <=> main = "connect")
    /\ \A c \in Cores : pc[c] = "ended" => myIsStopped[c] = TRUE
    /\ main \in {"server", "joinServer"} => pc["cli"] = "ended"
    /\ pc["cli"] = "gone" => main \in Down
    /\ pc["srv"] = "gone" => main \in {"~srv", "done"}
    /\ main = "~cli" => pc["cli"] \in {"drain", "gone"} /\ pc["srv"] = "ended"
    /\ main = "~srv" => pc["cli"] = "gone" /\ pc["srv"] \in {"drain", "gone"}
    /\ main = "done" => pc["cli"] = "gone" /\ pc["srv"] = "gone"
    /\ \A c \in Cores : pc[c] = "gone" => \A t \in Tasks : Core(t) = c => task[t].st = "deleted"

FlowSound == \A t \in Ends : EndSound(t) /\ Conserved(t) /\ SockSound(t) /\ ConnectionSound(t)
SubsSound == \A c \in Cores : EventSubSound(c)
IOInv ==
    /\ TaskTypes /\ ThreadTypes /\ KernelTypes
    /\ ListsSound /\ UsesSound /\ FlowSound
    /\ ListenerSound /\ SubsSound /\ BacklogSound
    /\ FinishedSound /\ StagesSound /\ ThreadsSound
    /\ failed = FALSE

(* Events: what is possible is known to the task or is announced.          *)
Announced(t, b) ==
    \/ t \in ready[Core(t)]
    \/ t \in DOMAIN batch[Core(t)] /\ b \in batch[Core(t)][t]
EdgeSound(t) ==
    task[t].st = "working" =>
        /\ Readable(t) /\ "R" \notin task[t].bits => Announced(t, "R")
        /\ task[t].op = "recv" => "R" \notin task[t].bits
        /\ task[t].op \in {"send", "connect"} /\ Writable(t) => Announced(t, "W")
        /\ (task[t].op \in {"send", "connect"} /\ sock[t].st = "open" /\ ~Writable(t)) =>
             sock[t].full = TRUE
        /\ task[t].op \notin {"send", "connect"} => "W" \in task[t].bits
ListenerEdge ==
    (task[Listener].st = "working" /\ task[Listener].op = "accept" /\ backlog # <<>>) =>
        Announced(Listener, "R")
SleepSound(c) ==
    /\ pc[c] = "wait" => task[EventSub(c)].st = "working"
    /\ pc[c] = "wait" /\ myQueue[c] # <<>> => EventSub(c) \in ready[c]
    /\ (pc[c] \in {"queues", "drain", "wait"} /\ myIsStopped[c] = TRUE /\ task[EventSub(c)].st = "working")
         => EventSub(c) \in ready[c]
EdgesSound ==
    /\ ListenerEdge
    /\ \A t \in Ends : EdgeSound(t)
    /\ \A c \in Cores : SleepSound(c)

-----------------------------------------------------------------------------
(* Tasks.  From here on Ends, Tasks, EventSub, Listener, Core and Peer are  *)
(* used through these facts.                                               *)
LEMMA CoreFacts ==
    /\ Core(Listener) = "srv" /\ Listener \in Tasks /\ Listener \notin Ends
    /\ \A c \in Cores : /\ Core(EventSub(c)) = c /\ EventSub(c) \in Tasks /\ EventSub(c) \notin Ends
                        /\ EventSub(c) # Listener
    /\ "cli" \in Cores /\ "srv" \in Cores
    /\ \A c \in Cores : c = "cli" \/ c = "srv"
<1>1. \A t \in Ends : t[2] >= 1
  BY IOCoroAssumption DEF Ends
<1> QED
  BY <1>1 DEF Core, EventSub, Listener, Tasks, Cores

LEMMA EndFacts ==
    ASSUME NEW t \in Ends
    PROVE  /\ t \in Tasks /\ Core(t) \in Cores /\ t[2] \in 1..ClientCount
           /\ Peer(t) \in Ends /\ Peer(Peer(t)) = t /\ Peer(t) # t
           /\ Core(Peer(t)) # Core(t) /\ Peer(t)[2] = t[2] /\ t = <<Core(t), t[2]>>
<1>1. PICK c \in Cores, k \in 1..ClientCount : t = <<c, k>>
  BY DEF Ends
<1>2. t[1] = c /\ t[2] = k
  BY <1>1
<1>3. \A d \in Cores : <<d, k>> \in Ends
  BY DEF Ends
<1>4. Peer(t) = <<IF c = "cli" THEN "srv" ELSE "cli", k>>
  BY <1>2 DEF Peer
<1> DEFINE d == IF c = "cli" THEN "srv" ELSE "cli"
<1>5. d \in Cores /\ d # c /\ Peer(t) = <<d, k>>
  BY <1>4 DEF Cores
<1>6. Peer(t)[1] = d /\ Peer(t)[2] = k
  BY <1>5
<1>7. Peer(Peer(t)) = <<c, k>>
  BY <1>6, c = "cli" \/ c = "srv" DEF Peer, Cores
<1> HIDE DEF d
<1> QED
  BY <1>1, <1>2, <1>3, <1>5, <1>6, <1>7 DEF Core, Tasks

LEMMA NumberedEnd ==
    ASSUME NEW c \in Cores, NEW k \in 1..ClientCount
    PROVE  <<c, k>> \in Ends /\ Core(<<c, k>>) = c /\ <<c, k>>[2] = k
BY DEF Ends, Core

LEMMA SameEnd ==
    ASSUME NEW s \in Ends, NEW t \in Ends, Core(s) = Core(t), s[2] = t[2]
    PROVE  s = t
BY EndFacts

LEMMA TaskKinds ==
    ASSUME NEW t \in Tasks
    PROVE  /\ Core(t) \in Cores
           /\ t \in Ends \/ t = Listener \/ t = EventSub(Core(t))
<1>1. CASE t \in Ends
  BY <1>1, EndFacts
<1>2. CASE t = Listener
  BY <1>2, CoreFacts
<1>3. CASE \E c \in Cores : t = EventSub(c)
  BY <1>3, CoreFacts
<1> QED
  BY <1>1, <1>2, <1>3 DEF Tasks

LEMMA EndsFinite == IsFiniteSet(Ends) /\ Cardinality(Ends) = 2 * ClientCount
<1>1. IsFiniteSet(1..ClientCount) /\ Cardinality(1..ClientCount) = ClientCount
  BY FS_Interval, IOCoroAssumption
<1>2. IsFiniteSet({"srv"}) /\ Cardinality({"srv"}) = 1
  BY FS_Singleton
<1>3. IsFiniteSet(Cores) /\ Cardinality(Cores) = 2
  <2>1. Cores = {"srv"} \cup {"cli"} /\ "cli" \notin {"srv"}
    BY DEF Cores
  <2> QED
    BY <1>2, <2>1, FS_AddElement
<1>4. Ends = Cores \X (1..ClientCount)
  BY DEF Ends
<1>5. PICK S, T : S = Cores /\ T = 1..ClientCount
  OBVIOUS
<1>6. IsFiniteSet(S \X T) /\ Cardinality(S \X T) = Cardinality(S) * Cardinality(T)
  BY <1>1, <1>3, <1>5, FS_Product
<1> QED
  BY <1>1, <1>3, <1>4, <1>5, <1>6

-----------------------------------------------------------------------------
(* The lists of the cores.                                                 *)

(* Nothing that the lists are about is changed.                            *)
LEMMA ListsFrame ==
    ASSUME TaskTypes, ListsSound, UNCHANGED <<myTasks, myQueue>>,
           \A t \in Tasks : task'[t].st = task[t].st /\ task'[t].idx = task[t].idx,
           \A c \in Cores : mySize'[c] >= Len(myQueue[c])
    PROVE  ListsSound'
<1>1. ASSUME NEW c \in Cores PROVE Indexed(c)' /\ Queued(c)'
  <2>1. \A i \in 1..Len(myTasks[c]) : myTasks[c][i] \in Tasks
    BY DEF TaskTypes
  <2>2. \A i \in 1..Len(myQueue[c]) : myQueue[c][i] \in Tasks
    BY DEF TaskTypes
  <2>3. Indexed(c) /\ Queued(c)
    BY DEF ListsSound
  <2>4. Indexed(c)'
    BY <2>1, <2>3 DEF Indexed, Live
  <2>5. Queued(c)'
    BY <2>2, <2>3 DEF Queued
  <2> QED
    BY <2>4, <2>5
<1>2. ASSUME NEW t \in Tasks PROVE Placed(t)' /\ Listed(t)'
  BY DEF ListsSound, Placed, Listed, Live
<1> QED
  BY <1>1, <1>2 DEF ListsSound

(* A task is appended to the queue of its core: to be added, or deleted.   *)
LEMMA ListsAppend ==
    ASSUME TaskTypes, ListsSound, NEW s \in Tasks,
           \/ task[s].st = "none" /\ task'[s].st = "new"
           \/ task[s].st = "working" /\ task'[s].st = "deleting" /\ task'[s].idx = task[s].idx,
           \A t \in Tasks \ {s} : task'[t].st = task[t].st /\ task'[t].idx = task[t].idx,
           myTasks' = myTasks, myQueue' = [myQueue EXCEPT ![Core(s)] = Append(@, s)],
           mySize' = [mySize EXCEPT ![Core(s)] = @ + 1]
    PROVE  ListsSound'
<1>0. Core(s) \in Cores
  BY TaskKinds
<1>1. ASSUME NEW c \in Cores PROVE Indexed(c)' /\ Queued(c)' /\ (mySize[c] >= Len(myQueue[c]))'
  <2>1. \A i \in 1..Len(myTasks[c]) : myTasks[c][i] \in Tasks
    BY DEF TaskTypes
  <2>2. \A i \in 1..Len(myQueue[c]) : myQueue[c][i] \in Tasks
    BY DEF TaskTypes
  <2>3. Indexed(c) /\ Queued(c) /\ mySize[c] >= Len(myQueue[c]) /\ mySize[c] \in Nat
    BY DEF ListsSound, TaskTypes
  <2>4. Indexed(c)'
    BY <2>1, <2>3 DEF Indexed, Live
  <2>5. CASE c # Core(s)
    <3>1. myQueue'[c] = myQueue[c] /\ mySize'[c] = mySize[c]
      BY <2>5, <1>0 DEF TaskTypes
    <3>2. \A i \in 1..Len(myQueue[c]) : myQueue[c][i] # s
      BY <2>3, <2>5 DEF Queued
    <3>3. Queued(c)'
      BY <2>2, <2>3, <3>1, <3>2 DEF Queued
    <3> QED
      BY <2>3, <2>4, <3>1, <3>3
  <2>6. CASE c = Core(s)
    <3>1. myQueue'[c] = Append(myQueue[c], s) /\ mySize'[c] = mySize[c] + 1
      BY <2>6, <1>0 DEF TaskTypes
    <3>2. myQueue[c] \in Seq(Tasks)
      BY DEF TaskTypes
    <3>3. /\ Len(myQueue'[c]) = Len(myQueue[c]) + 1 /\ myQueue'[c][Len(myQueue[c]) + 1] = s
          /\ \A i \in 1..Len(myQueue[c]) : myQueue'[c][i] = myQueue[c][i]
      BY <3>1, <3>2
    <3>4. \A i \in 1..Len(myQueue[c]) : myQueue[c][i] # s
      BY <2>3 DEF Queued
    <3>5. Len(myQueue[c]) \in Nat
      BY <3>2
    <3>6. \A i \in 1..Len(myQueue'[c]) :
            Core(myQueue'[c][i]) = c /\ task'[myQueue'[c][i]].st \in {"new", "deleting"}
      BY <2>2, <2>3, <2>6, <3>3, <3>4, <3>5 DEF Queued
    <3>7. \A i, j \in 1..Len(myQueue'[c]) : myQueue'[c][i] = myQueue'[c][j] => i = j
      BY <2>2, <2>3, <3>3, <3>4, <3>5 DEF Queued
    <3>8. Queued(c)'
      BY <3>6, <3>7 DEF Queued
    <3>9. mySize'[c] >= Len(myQueue'[c])
      BY <2>3, <3>1, <3>3, <3>5
    <3> QED
      BY <2>4, <3>8, <3>9
  <2> QED
    BY <2>5, <2>6
<1>2. ASSUME NEW t \in Tasks PROVE Placed(t)' /\ Listed(t)'
  <2>1. Placed(t) /\ Listed(t) /\ Core(t) \in Cores
    BY TaskKinds DEF ListsSound
  <2>2. Placed(t)'
    BY <2>1 DEF Placed, Live
  <2>3. myQueue[Core(t)] \in Seq(Tasks)
    BY <2>1 DEF TaskTypes
  <2>4. /\ Len(myQueue'[Core(t)]) \in Nat /\ Len(myQueue'[Core(t)]) >= Len(myQueue[Core(t)])
        /\ \A i \in 1..Len(myQueue[Core(t)]) : myQueue'[Core(t)][i] = myQueue[Core(t)][i]
    BY <1>0, <2>1, <2>3 DEF TaskTypes
  <2>5. CASE t # s
    BY <2>1, <2>2, <2>3, <2>4, <2>5 DEF Listed
  <2>6. CASE t = s
    <3>1. myQueue'[Core(s)] = Append(myQueue[Core(s)], s)
      BY <1>0 DEF TaskTypes
    <3>2. \E i \in 1..Len(myQueue'[Core(s)]) : myQueue'[Core(s)][i] = s
      BY <2>3, <2>6, <3>1, Len(myQueue[Core(s)]) + 1 \in 1..Len(myQueue'[Core(s)])
    <3> QED
      BY <2>2, <2>6, <3>2 DEF Listed
  <2> QED
    BY <2>5, <2>6
<1> QED
  BY <1>1, <1>2 DEF ListsSound

LEMMA TailFacts ==
    ASSUME NEW S, NEW q \in Seq(S), q # <<>>
    PROVE  /\ Len(q) \in Nat /\ Len(q) > 0 /\ Head(q) = q[1] /\ q[1] \in S
           /\ Tail(q) \in Seq(S) /\ Len(Tail(q)) = Len(q) - 1
           /\ \A i \in 1..Len(Tail(q)) : Tail(q)[i] = q[i + 1]
           /\ \A i \in 1..Len(q) : i # 1 => i - 1 \in 1..Len(Tail(q)) /\ Tail(q)[i - 1] = q[i]
OBVIOUS

(* The first task leaves the queue of its core: added, or deleted.         *)
QueuePopped(c, s) ==
    /\ myQueue[c] # <<>> /\ s = myQueue[c][1]
    /\ myQueue' = [myQueue EXCEPT ![c] = Tail(@)] /\ mySize' = mySize
    /\ task'[s].st \notin {"new", "deleting"}
    /\ \A t \in Tasks \ {s} : task'[t].st = task[t].st

LEMMA QueuesPop ==
    ASSUME TaskTypes, ListsSound, NEW c \in Cores, NEW s \in Tasks, QueuePopped(c, s)
    PROVE  /\ Core(s) = c
           /\ \A d \in Cores : Queued(d)' /\ (mySize[d] >= Len(myQueue[d]))'
           /\ \A t \in Tasks : Listed(t)'
<1> DEFINE queue == myQueue[c]
           rest == myQueue'[c]
<1>1. /\ queue \in Seq(Tasks) /\ queue # <<>> /\ rest = Tail(queue)
      /\ \A d \in Cores \ {c} : myQueue'[d] = myQueue[d]
  BY DEF TaskTypes, QueuePopped
<1>2. /\ Len(queue) \in Nat /\ Len(queue) > 0 /\ Len(rest) = Len(queue) - 1
      /\ \A i \in 1..Len(rest) : rest[i] = queue[i + 1]
      /\ \A i \in 1..Len(queue) : i # 1 => i - 1 \in 1..Len(rest) /\ rest[i - 1] = queue[i]
  <2> HIDE DEF queue, rest
  <2> QED
    BY <1>1, TailFacts
<1>3. queue[1] = s /\ \A i \in 1..Len(queue) : queue[i] \in Tasks
  BY <1>1 DEF QueuePopped
<1>4. task'[s].st \notin {"new", "deleting"} /\ \A t \in Tasks \ {s} : task'[t].st = task[t].st
  BY DEF QueuePopped
<1>5. mySize' = mySize
  BY DEF QueuePopped
<1> HIDE DEF rest
<1>6. \A d \in Cores : /\ Queued(d) /\ mySize[d] >= Len(myQueue[d]) /\ mySize[d] \in Nat
                       /\ \A i \in 1..Len(myQueue[d]) : myQueue[d][i] \in Tasks
  BY DEF ListsSound, TaskTypes
<1>7. Core(s) = c
  BY <1>2, <1>3, <1>6 DEF Queued
<1>8. \A i \in 1..Len(queue) : queue[i] = s => i = 1
  BY <1>2, <1>3, <1>6 DEF Queued
<1>9. ASSUME NEW d \in Cores PROVE Queued(d)' /\ (mySize[d] >= Len(myQueue[d]))'
  <2>2. CASE d # c
    <3>1. \A i \in 1..Len(myQueue[d]) : myQueue[d][i] # s
      BY <1>6, <1>7, <2>2 DEF Queued
    <3>2. myQueue'[d] = myQueue[d]
      BY <1>1, <2>2
    <3>3. \A i \in 1..Len(myQueue[d]) : task'[myQueue[d][i]].st = task[myQueue[d][i]].st
      BY <1>4, <1>6, <3>1
    <3>4. Queued(d)'
      BY <1>6, <3>2, <3>3 DEF Queued
    <3> QED
      BY <1>5, <1>6, <3>2, <3>4
  <2>3. CASE d = c
    <3>1. \A i \in 1..Len(rest) : rest[i] # s /\ rest[i] \in Tasks
      <4> SUFFICES ASSUME NEW i \in 1..Len(rest) PROVE rest[i] # s /\ rest[i] \in Tasks
        OBVIOUS
      <4>1. i + 1 \in 1..Len(queue) /\ i + 1 # 1 /\ rest[i] = queue[i + 1]
        BY <1>2
      <4> QED
        BY <4>1, <1>3, <1>8
    <3>2. \A i \in 1..Len(rest) : Core(rest[i]) = c /\ task'[rest[i]].st \in {"new", "deleting"}
      <4> SUFFICES ASSUME NEW i \in 1..Len(rest)
                   PROVE  Core(rest[i]) = c /\ task'[rest[i]].st \in {"new", "deleting"}
        OBVIOUS
      <4>1. i + 1 \in 1..Len(queue) /\ rest[i] = queue[i + 1]
        BY <1>2
      <4>2. Core(rest[i]) = c /\ task[rest[i]].st \in {"new", "deleting"}
        BY <4>1, <1>6 DEF Queued
      <4> QED
        BY <4>2, <3>1, <1>4
    <3>3. \A i, j \in 1..Len(rest) : rest[i] = rest[j] => i = j
      <4> SUFFICES ASSUME NEW i \in 1..Len(rest), NEW j \in 1..Len(rest), rest[i] = rest[j] PROVE i = j
        OBVIOUS
      <4>1. queue[i + 1] = queue[j + 1] /\ i + 1 \in 1..Len(queue) /\ j + 1 \in 1..Len(queue)
        BY <1>2
      <4>2. i + 1 = j + 1
        BY <4>1, <1>6 DEF Queued
      <4> QED
        BY <4>2, <1>2
    <3>4. Queued(c)'
      BY <3>2, <3>3 DEF Queued, rest
    <3> QED
      BY <1>2, <1>5, <1>6, <2>3, <3>4 DEF rest
  <2> QED
    BY <2>2, <2>3
<1>10. ASSUME NEW t \in Tasks PROVE Listed(t)'
  <2>1. Listed(t) /\ Core(t) \in Cores
    BY TaskKinds DEF ListsSound
  <2>2. CASE t = s
    BY <1>4, <2>2 DEF Listed
  <2>3. CASE t # s /\ Core(t) # c
    BY <1>1, <1>4, <2>1, <2>3 DEF Listed
  <2>4. CASE t # s /\ Core(t) = c
    <3> SUFFICES ASSUME task[t].st \in {"new", "deleting"}
                 PROVE  \E i \in 1..Len(rest) : rest[i] = t
      BY <1>4, <2>4 DEF Listed, rest
    <3>1. PICK i \in 1..Len(queue) : queue[i] = t
      BY <2>1, <2>4 DEF Listed
    <3>2. i # 1
      BY <3>1, <2>4, <1>3
    <3>3. i - 1 \in 1..Len(rest) /\ rest[i - 1] = queue[i]
      BY <3>2, <1>2
    <3> QED
      BY <3>1, <3>3
  <2> QED
    BY <2>2, <2>3, <2>4
<1> QED
  BY <1>7, <1>9, <1>10

(* A task gets a place at the end of myTasks.                              *)
PlaceAdded(c, s) ==
    /\ task[s].st = "new" /\ task'[s].st = "working" /\ task'[s].idx = Len(myTasks[c]) + 1
    /\ \A t \in Tasks \ {s} : task'[t].st = task[t].st /\ task'[t].idx = task[t].idx
    /\ myTasks' = [myTasks EXCEPT ![c] = Append(@, s)]

LEMMA PlacesAdd ==
    ASSUME TaskTypes, ListsSound, NEW c \in Cores, NEW s \in Tasks, Core(s) = c, PlaceAdded(c, s)
    PROVE  (\A d \in Cores : Indexed(d)') /\ (\A t \in Tasks : Placed(t)')
<1> DEFINE old == myTasks[c]
           new == myTasks'[c]
<1>1. /\ old \in Seq(Tasks) /\ new = Append(old, s)
      /\ \A d \in Cores \ {c} : myTasks'[d] = myTasks[d]
  BY DEF TaskTypes, PlaceAdded
<1>2. /\ Len(old) \in Nat /\ Len(new) = Len(old) + 1 /\ new[Len(old) + 1] = s
      /\ \A i \in 1..Len(old) : new[i] = old[i] /\ old[i] \in Tasks
  BY <1>1
<1>3. /\ task[s].st = "new" /\ task'[s].st = "working" /\ task'[s].idx = Len(old) + 1
      /\ \A t \in Tasks \ {s} : task'[t].st = task[t].st /\ task'[t].idx = task[t].idx
  BY DEF PlaceAdded
<1> HIDE DEF new
<1>4. ASSUME NEW d \in Cores PROVE Indexed(d)'
  <2>1. Indexed(d) /\ \A i \in 1..Len(myTasks[d]) : myTasks[d][i] \in Tasks
    BY DEF ListsSound, TaskTypes
  <2>2. \A i \in 1..Len(myTasks[d]) : myTasks[d][i] # s
    BY <1>3, <2>1 DEF Indexed, Live
  <2>3. CASE d # c
    BY <1>1, <1>3, <2>1, <2>2, <2>3 DEF Indexed, Live
  <2>4. CASE d = c
    <3>1. \A i \in 1..Len(new) : Core(new[i]) = c /\ task'[new[i]].st \in {"working", "deleting"}
                                 /\ task'[new[i]].idx = i
      BY <1>2, <1>3, <2>1, <2>2, <2>4 DEF Indexed, Live
    <3> QED
      BY <3>1, <2>4 DEF Indexed, Live, new
  <2> QED
    BY <2>3, <2>4
<1>5. ASSUME NEW t \in Tasks PROVE Placed(t)'
  <2>1. Placed(t) /\ Core(t) \in Cores
    BY TaskKinds DEF ListsSound
  <2>2. CASE t = s
    <3>1. Len(new) \in 1..Len(new) /\ new[Len(new)] = s /\ task'[s].idx = Len(new)
      BY <1>2, <1>3
    <3> QED
      BY <2>2, <3>1 DEF Placed, new
  <2>3. CASE t # s /\ Core(t) # c
    BY <1>1, <1>3, <2>1, <2>3 DEF Placed, Live
  <2>4. CASE t # s /\ Core(t) = c
    <3>1. Live(t)' => task'[t].idx \in 1..Len(new) /\ new[task'[t].idx] = t
      BY <1>2, <1>3, <2>1, <2>4 DEF Placed, Live
    <3> QED
      BY <2>4, <3>1 DEF Placed, new
  <2> QED
    BY <2>2, <2>3, <2>4
<1> QED
  BY <1>4, <1>5

(* A task leaves myTasks, and the last one takes its place.                *)
PlaceDropped(c, s) ==
    LET n == Len(myTasks[c])
    IN  /\ task[s].st = "deleting" /\ task'[s].st = "deleted"
        /\ \A t \in Tasks \ {s} :
             /\ task'[t].st = task[t].st
             /\ task'[t].idx = IF t = myTasks[c][n] THEN task[s].idx ELSE task[t].idx
        /\ myTasks' = [myTasks EXCEPT
                         ![c] = SubSeq([@ EXCEPT ![task[s].idx] = myTasks[c][n]], 1, n - 1)]

LEMMA PlacesDrop ==
    ASSUME TaskTypes, ListsSound, NEW c \in Cores, NEW s \in Tasks, Core(s) = c, PlaceDropped(c, s)
    PROVE  (\A d \in Cores : Indexed(d)') /\ (\A t \in Tasks : Placed(t)')
<1> DEFINE old == myTasks[c]
           new == myTasks'[c]
           n == Len(old)
           i == task[s].idx
<1>1. /\ old \in Seq(Tasks) /\ new = SubSeq([old EXCEPT ![i] = old[n]], 1, n - 1)
      /\ \A d \in Cores \ {c} : myTasks'[d] = myTasks[d]
  BY DEF TaskTypes, PlaceDropped
<1>2. /\ task[s].st = "deleting" /\ task'[s].st = "deleted"
      /\ \A t \in Tasks \ {s} : /\ task'[t].st = task[t].st
                                /\ task'[t].idx = IF t = old[n] THEN i ELSE task[t].idx
  BY DEF PlaceDropped
<1>3. i \in 1..n /\ old[i] = s
  BY <1>2 DEF ListsSound, Placed, Live
<1>4. /\ n \in Nat /\ n >= 1 /\ Len(new) = n - 1
      /\ \A j \in 1..n : old[j] \in Tasks
      /\ \A j \in 1..(n - 1) : new[j] = IF j = i THEN old[n] ELSE old[j]
  <2>1. n \in Nat /\ n >= 1 /\ \A j \in 1..n : old[j] \in Tasks
    BY <1>1, <1>3
  <2> DEFINE mid == [old EXCEPT ![i] = old[n]]
  <2>2. mid \in Seq(Tasks) /\ Len(mid) = n /\ \A j \in 1..n : mid[j] = IF j = i THEN old[n] ELSE old[j]
    BY <1>1, <1>3, <2>1
  <2> HIDE DEF mid
  <2>3. new = SubSeq(mid, 1, n - 1)
    BY <1>1 DEF mid
  <2> HIDE DEF new, n, old, i
  <2>4. Len(new) = n - 1 /\ \A j \in 1..(n - 1) : new[j] = mid[j]
    BY <2>1, <2>2, <2>3
  <2> QED
    BY <2>1, <2>2, <2>4
<1> HIDE DEF new
<1>5. /\ \A j \in 1..n : Core(old[j]) = c /\ Live(old[j]) /\ task[old[j]].idx = j
  BY DEF ListsSound, Indexed
<1>6. ASSUME NEW d \in Cores PROVE Indexed(d)'
  <2>1. CASE d # c
    <3>1. Indexed(d) /\ \A j \in 1..Len(myTasks[d]) : myTasks[d][j] \in Tasks
      BY DEF ListsSound, TaskTypes
    <3>2. \A j \in 1..Len(myTasks[d]) : myTasks[d][j] # s /\ myTasks[d][j] # old[n]
      BY <1>4, <1>5, <2>1, <3>1 DEF Indexed
    <3> QED
      BY <1>1, <1>2, <2>1, <3>1, <3>2 DEF Indexed, Live
  <2>2. CASE d = c
    <3> SUFFICES ASSUME NEW j \in 1..(n - 1)
                 PROVE  /\ Core(new[j]) = c /\ task'[new[j]].st \in {"working", "deleting"}
                        /\ task'[new[j]].idx = j
      BY <1>4, <2>2 DEF Indexed, Live, new
    <3>1. PICK k \in 1..n : new[j] = old[k] /\ k = IF j = i THEN n ELSE j
      BY <1>4
    <3>2. k # i /\ (k = n => j = i) /\ (k # n => j = k)
      BY <1>3, <1>4, <3>1
    <3>3. old[k] # s /\ old[k] \in Tasks /\ (k # n => old[k] # old[n])
      BY <1>3, <1>4, <1>5, <3>2
    <3>4. task'[old[k]].st = task[old[k]].st /\ task'[old[k]].idx = IF k = n THEN i ELSE k
      BY <1>2, <1>5, <3>3
    <3> QED
      BY <1>5, <3>1, <3>2, <3>4 DEF Live
  <2> QED
    BY <2>1, <2>2
<1>7. ASSUME NEW t \in Tasks PROVE Placed(t)'
  <2>1. Placed(t) /\ Core(t) \in Cores
    BY TaskKinds DEF ListsSound
  <2>2. CASE t = s
    BY <1>2, <2>2 DEF Placed, Live
  <2>3. CASE t # s /\ Core(t) # c
    <3>1. t # old[n]
      BY <1>4, <1>5, <2>3
    <3> QED
      BY <1>1, <1>2, <2>1, <2>3, <3>1 DEF Placed, Live
  <2>4. CASE t # s /\ Core(t) = c
    <3> SUFFICES ASSUME Live(t) PROVE task'[t].idx \in 1..(n - 1) /\ new[task'[t].idx] = t
      BY <1>2, <1>4, <2>4 DEF Placed, Live, new
    <3>1. task[t].idx \in 1..n /\ old[task[t].idx] = t
      BY <2>1, <2>4 DEF Placed
    <3>2. task[t].idx # i
      BY <1>3, <2>4, <3>1
    <3>3. CASE task[t].idx = n
      <4>1. i \in 1..(n - 1) /\ t = old[n]
        BY <1>3, <1>4, <3>1, <3>2, <3>3
      <4> QED
        BY <1>2, <1>4, <2>4, <4>1
    <3>4. CASE task[t].idx # n
      <4>1. t # old[n]
        BY <1>4, <1>5, <3>1, <3>4
      <4> QED
        BY <1>2, <1>4, <2>4, <3>1, <3>2, <3>4, <4>1
    <3> QED
      BY <3>3, <3>4
  <2> QED
    BY <2>2, <2>3, <2>4
<1> QED
  BY <1>6, <1>7

-----------------------------------------------------------------------------
(* What the invariant says of the state an action starts in.               *)

(* A task is in epoll when it has a place in myTasks.                      *)
LEMMA RegisteredLive ==
    ASSUME TaskTypes, ListsSound, NEW t \in Tasks
    PROVE  Registered(t) <=> Live(t)
<1>1. Core(t) \in Cores
  BY TaskKinds
<1>2. myTasks[Core(t)] \in Seq(Tasks)
  BY <1>1 DEF TaskTypes
<1>3. DOMAIN myTasks[Core(t)] = 1..Len(myTasks[Core(t)])
  BY <1>2
<1>4. Registered(t) => Live(t)
  BY <1>1, <1>3 DEF Registered, Range, ListsSound, Indexed
<1>5. Live(t) => Registered(t)
  BY <1>1, <1>3 DEF Registered, Range, ListsSound, Placed
<1> QED
  BY <1>4, <1>5

(* The asserts of unsubscribe().                                           *)
LEMMA Unsubscribable ==
    ASSUME TaskTypes, ListsSound, NEW t \in Tasks, task[t].st = "working"
    PROVE  /\ t \notin Range(myQueue[Core(t)])
           /\ task[t].idx \in DOMAIN myTasks[Core(t)] /\ myTasks[Core(t)][task[t].idx] = t
<1>1. Core(t) \in Cores
  BY TaskKinds
<1>2. myTasks[Core(t)] \in Seq(Tasks) /\ myQueue[Core(t)] \in Seq(Tasks)
  BY <1>1 DEF TaskTypes
<1>3. /\ DOMAIN myTasks[Core(t)] = 1..Len(myTasks[Core(t)])
      /\ DOMAIN myQueue[Core(t)] = 1..Len(myQueue[Core(t)])
  BY <1>2
<1>4. t \notin Range(myQueue[Core(t)])
  BY <1>1, <1>3 DEF Range, ListsSound, Queued
<1> QED
  BY <1>1, <1>3, <1>4 DEF ListsSound, Placed, Live

(* The ready list, when registered tasks are added to it.                  *)
LEMMA ReadyGrows ==
    ASSUME TaskTypes, ListsSound, NEW c \in Cores, ready[c] \subseteq Tasks, ReadySound(c),
           \A t \in ready'[c] : t \in ready[c] \/ (t \in Tasks /\ Core(t) = c /\ Registered(t)),
           \A t \in Tasks : Live(t) => Live(t)'
    PROVE  ReadySound(c)' /\ ready'[c] \subseteq Tasks
BY RegisteredLive DEF ReadySound

LEMMA WakeUpFacts ==
    ASSUME KernelTypes, NEW S, S \subseteq Tasks, WakeUp(S)
    PROVE  /\ ready' \in [Cores -> SUBSET Tasks]
           /\ \A c \in Cores : \A t \in ready'[c] :
                t \in ready[c] \/ (t \in S /\ t \in Tasks /\ Core(t) = c /\ Registered(t))
           /\ \A c \in Cores : ready[c] \subseteq ready'[c]
BY DEF WakeUp, KernelTypes

LEMMA wakeupFacts ==
    ASSUME KernelTypes, NEW c \in Cores, wakeup(c)
    PROVE  /\ ready' \in [Cores -> SUBSET Tasks] /\ signalled' = Cores
           /\ \A d \in Cores : \A t \in ready'[d] :
                t \in ready[d] \/ (t \in Tasks /\ Core(t) = d /\ Registered(t))
           /\ \A d \in Cores : ready[d] \subseteq ready'[d]
           /\ Registered(EventSub(c)) => EventSub(c) \in ready'[c]
BY CoreFacts DEF wakeup, Wake, KernelTypes

(* Nothing that the coroutines and the sockets are about is changed.       *)
Quiet ==
    /\ UNCHANGED <<task, sock, backlog, coro, connected, finished>>
    /\ \A c \in Cores : pc'[c] = "coro" <=> pc[c] = "coro"

LEMMA QuietDoes ==
    ASSUME Quiet, NEW t \in Tasks
    PROVE  Does(t)' = Does(t) /\ (Done(t)' <=> Done(t))
<1>1. Core(t) \in Cores
  BY TaskKinds
<1>2. Does(t)' = Does(t)
  BY <1>1 DEF Quiet, Does, Running
<1> QED
  BY <1>2 DEF Quiet, Done, Gone

LEMMA QuietStep ==
    ASSUME FlowSound, ListenerSound, BacklogSound, FinishedSound, Quiet
    PROVE  FlowSound' /\ ListenerSound' /\ BacklogSound' /\ FinishedSound'
<1>1. \A t \in Ends : Does(t)' = Does(t) /\ (Done(t)' <=> Done(t))
  BY QuietDoes, EndFacts
<1>2. UNCHANGED <<task, sock, backlog, connected, finished>>
  BY DEF Quiet
<1>3. ASSUME NEW t \in Ends PROVE EndSound(t)' /\ Conserved(t)' /\ SockSound(t)' /\ ConnectionSound(t)'
  <2>1. Peer(t) \in Ends
    BY EndFacts
  <2>2. EndSound(t) /\ Conserved(t) /\ SockSound(t) /\ ConnectionSound(t)
    BY DEF FlowSound
  <2>3. EndSound(t)'
    BY <1>1, <1>2, <2>2 DEF EndSound, Gone
  <2>4. Conserved(t)'
    BY <1>1, <1>2, <2>1, <2>2 DEF Conserved, Received, Sent, Gone
  <2>5. SockSound(t)' /\ ConnectionSound(t)'
    BY <1>2, <2>2 DEF SockSound, ConnectionSound, ClientSound, ServerSound, InBacklog
  <2> QED
    BY <2>3, <2>4, <2>5
<1>4. FlowSound'
  BY <1>3 DEF FlowSound
<1>5. Does(Listener)' = Does(Listener)
  BY QuietDoes, CoreFacts
<1>6. ListenerSound'
  BY <1>2, <1>5 DEF ListenerSound
<1>7. BacklogSound'
  BY <1>2 DEF BacklogSound
<1>8. DoneEnds' = DoneEnds
  BY <1>1 DEF DoneEnds
<1> QED
  BY <1>2, <1>4, <1>6, <1>7, <1>8 DEF FinishedSound

LEMMA QuietStages ==
    ASSUME StagesSound, Quiet, UNCHANGED <<main, myIsStopped, serverFinished>>
    PROVE  StagesSound'
<1>1. \A t \in Ends : Done(t)' <=> Done(t)
  BY QuietDoes, EndFacts
<1>2. UNCHANGED <<task, connected>>
  BY DEF Quiet
<1> QED
  BY <1>1, <1>2 DEF StagesSound, Gone

(* The thread of a core goes on, in roll or out of it.                     *)
ThreadGoesOn(c, p) ==
    /\ pc' = [pc EXCEPT ![c] = p] /\ pc[c] \notin {"off", "ended", "gone"}
    /\ pc[c] = "drain" => main \notin {"~cli", "~srv"}
    /\ p \notin {"off", "gone"} /\ (p = "ended" => myIsStopped[c] = TRUE)
    /\ UNCHANGED <<main, myIsStopped>>

LEMMA ThreadsGoOn ==
    ASSUME ThreadTypes, ThreadsSound, NEW c \in Cores, NEW p \in Points, ThreadGoesOn(c, p),
           \A t \in Tasks : task[t].st = "deleted" => task'[t].st = "deleted"
    PROVE  ThreadsSound' /\ pc' \in [Cores -> Points]
<1>1. pc' = [pc EXCEPT ![c] = p] /\ pc \in [Cores -> Points] /\ pc' \in [Cores -> Points]
  BY DEF ThreadGoesOn, ThreadTypes
<1>2. pc'[c] = p /\ \A d \in Cores : d # c => pc'[d] = pc[d]
  BY <1>1
<1>3. \A d \in Cores : pc'[d] = "gone" => pc[d] = "gone"
  BY <1>2 DEF ThreadGoesOn
<1>4. \A d \in Cores : pc'[d] = "gone" => \A t \in Tasks : Core(t) = d => task'[t].st = "deleted"
  BY <1>3 DEF ThreadsSound
<1>5. \A d \in Cores : pc'[d] = "ended" => myIsStopped'[d] = TRUE
  BY <1>2 DEF ThreadGoesOn, ThreadsSound
<1>6. c = "cli" \/ c = "srv"
  BY CoreFacts
<1> QED
  BY <1>1, <1>2, <1>4, <1>5, <1>6, CoreFacts DEF ThreadGoesOn, ThreadsSound

(* The lists are left alone by a quiet step.                               *)
LEMMA QuietLists ==
    ASSUME IOInv, Quiet, UNCHANGED <<myTasks, myQueue>>, mySize' \in [Cores -> Nat],
           \A c \in Cores : mySize'[c] >= Len(myQueue[c])
    PROVE  TaskTypes' /\ ListsSound' /\ SubsSound'
<1>1. UNCHANGED task
  BY DEF Quiet
<1>2. TaskTypes'
  BY <1>1 DEF IOInv, TaskTypes
<1>3. ListsSound'
  BY <1>1, ListsFrame DEF IOInv
<1>4. SubsSound'
  BY <1>1 DEF IOInv, SubsSound, EventSubSound
<1> QED
  BY <1>2, <1>3, <1>4

(* What a quiet step may change.                                           *)
QuietChange ==
    /\ Quiet /\ UNCHANGED <<myTasks, myQueue, batch, serverFinished>> /\ failed' = FALSE
    /\ mySize' \in [Cores -> Nat] /\ \A c \in Cores : mySize'[c] >= Len(myQueue[c])
    /\ pc' \in [Cores -> Points] /\ main' \in Stages /\ myIsStopped' \in [Cores -> BOOLEAN]
    /\ \A c \in Cores : pc'[c] \notin {"batch", "coro"} => DOMAIN batch[c] = {}
    /\ ready' \in [Cores -> SUBSET Tasks] /\ signalled' = Cores
    /\ \A c \in Cores : \A t \in ready'[c] :
         t \in ready[c] \/ (t \in Tasks /\ Core(t) = c /\ Registered(t))

LEMMA QuietInv ==
    ASSUME IOInv, QuietChange, StagesSound', ThreadsSound'
    PROVE  IOInv'
<1>1. Quiet /\ UNCHANGED <<myTasks, myQueue, batch, serverFinished>> /\ failed' = FALSE
  BY DEF QuietChange
<1>2. UNCHANGED <<task, sock, backlog, coro, connected, finished>>
  BY <1>1 DEF Quiet
<1>3. FlowSound' /\ ListenerSound' /\ BacklogSound' /\ FinishedSound'
  BY <1>1, QuietStep DEF IOInv
<1>4. TaskTypes' /\ ListsSound' /\ SubsSound'
  BY <1>1, QuietLists DEF QuietChange
<1>5. UsesSound'
  <2> SUFFICES ASSUME NEW d \in Cores PROVE ReadySound(d)' /\ BatchSound(d)' /\ CoroSound(d)'
    BY DEF UsesSound
  <2>1. ReadySound(d) /\ BatchSound(d) /\ CoroSound(d)
    BY DEF IOInv, UsesSound
  <2>2. ReadySound(d)'
    BY <1>2, <2>1, ReadyGrows DEF QuietChange, IOInv, KernelTypes, Live
  <2>3. BatchSound(d)'
    BY <1>1, <1>2, <2>1 DEF QuietChange, BatchSound, Live
  <2>4. CoroSound(d)'
    BY <1>1, <1>2, <2>1 DEF Quiet, CoroSound, Live
  <2> QED
    BY <2>2, <2>3, <2>4
<1>6. ThreadTypes' /\ KernelTypes'
  BY <1>1, <1>2 DEF QuietChange, IOInv, ThreadTypes, KernelTypes
<1> QED
  BY <1>1, <1>3, <1>4, <1>5, <1>6 DEF IOInv

(* Only the place where the thread of a core is changes, and mySize.       *)
PointMoves(c, p) ==
    /\ ThreadGoesOn(c, p) /\ pc[c] # "coro" /\ p # "coro"
    /\ p \notin {"batch", "coro"} => DOMAIN batch[c] = {}
    /\ mySize' \in [Cores -> Nat] /\ \A d \in Cores : mySize'[d] >= Len(myQueue[d])
    /\ UNCHANGED <<task, myTasks, myQueue, batch, coro, mainVars, contextVars, kernelVars, failed>>

LEMMA PointMovesInv ==
    ASSUME IOInv, NEW c \in Cores, NEW p \in Points, PointMoves(c, p)
    PROVE  IOInv'
<1>1. /\ pc' = [pc EXCEPT ![c] = p] /\ pc[c] # "coro" /\ p # "coro"
      /\ p \notin {"batch", "coro"} => DOMAIN batch[c] = {}
      /\ UNCHANGED <<task, myTasks, myQueue, batch, coro, mainVars, contextVars, kernelVars, failed>>
  BY DEF PointMoves, ThreadGoesOn
<1>2. \A d \in Cores : pc'[d] = IF d = c THEN p ELSE pc[d]
  BY <1>1 DEF IOInv, ThreadTypes
<1>3. Quiet
  BY <1>1, <1>2 DEF Quiet, kernelVars, mainVars, contextVars
<1>4. ThreadsSound' /\ pc' \in [Cores -> Points]
  BY <1>1, ThreadsGoOn DEF IOInv, PointMoves
<1>5. StagesSound'
  BY <1>1, <1>3, QuietStages DEF IOInv, mainVars, contextVars
<1>6. \A d \in Cores : pc'[d] \notin {"batch", "coro"} => DOMAIN batch[d] = {}
  BY <1>1, <1>2 DEF IOInv, UsesSound, BatchSound
<1>7. QuietChange
  BY <1>1, <1>3, <1>4, <1>6 DEF QuietChange, PointMoves, IOInv, ThreadTypes, KernelTypes,
                                mainVars, contextVars, kernelVars
<1> QED
  BY <1>4, <1>5, <1>7, QuietInv

LEMMA SizesFit ==
    ASSUME IOInv
    PROVE  mySize \in [Cores -> Nat] /\ \A c \in Cores : mySize[c] >= Len(myQueue[c])
BY DEF IOInv, TaskTypes, ListsSound

LEMMA NoBatch ==
    ASSUME IOInv, NEW c \in Cores, pc[c] \notin {"batch", "coro"}
    PROVE  DOMAIN batch[c] = {}
BY DEF IOInv, UsesSound, BatchSound

-----------------------------------------------------------------------------
(* The steps of roll.                                                      *)
LEMMA CheckStoppedInv ==
    ASSUME IOInv, NEW c \in Cores, CheckStopped(c)
    PROVE  IOInv'
<1> DEFINE p == IF myIsStopped[c] THEN "ended" ELSE "queues"
<1>1. p \in Points /\ (p = "ended" => myIsStopped[c] = TRUE) /\ p \notin {"off", "gone", "coro", "batch"}
  BY DEF Points, IOInv, ThreadTypes
<1>2. /\ pc[c] = "check" /\ pc' = [pc EXCEPT ![c] = p]
      /\ UNCHANGED <<task, myTasks, myQueue, mySize, batch, coro, mainVars, contextVars, kernelVars, failed>>
  BY DEF CheckStopped, coreVars
<1> HIDE DEF p
<1>3. ThreadGoesOn(c, p)
  BY <1>1, <1>2 DEF ThreadGoesOn, mainVars
<1>4. PointMoves(c, p)
  BY <1>1, <1>2, <1>3, SizesFit, NoBatch DEF PointMoves
<1> QED
  BY <1>1, <1>4, PointMovesInv

LEMMA processQueuesInv ==
    ASSUME IOInv, NEW c \in Cores, processQueues(c)
    PROVE  IOInv'
<1> DEFINE p == IF mySize[c] = 0 \/ myQueue[c] = <<>> THEN "wait" ELSE "drain"
<1>1. p \in Points /\ p \notin {"off", "gone", "coro", "batch", "ended"}
  BY DEF Points
<1>2. /\ pc[c] = "queues" /\ pc' = [pc EXCEPT ![c] = p]
      /\ UNCHANGED <<task, myTasks, myQueue, mySize, batch, coro, mainVars, contextVars, kernelVars, failed>>
  BY DEF processQueues, coreVars
<1> HIDE DEF p
<1>3. ThreadGoesOn(c, p)
  BY <1>1, <1>2 DEF ThreadGoesOn, mainVars
<1>4. PointMoves(c, p)
  BY <1>1, <1>2, <1>3, SizesFit, NoBatch DEF PointMoves
<1> QED
  BY <1>1, <1>4, PointMovesInv

LEMMA EndOfBatchInv ==
    ASSUME IOInv, NEW c \in Cores, EndOfBatch(c)
    PROVE  IOInv'
<1>1. /\ pc[c] = "batch" /\ pc' = [pc EXCEPT ![c] = "check"] /\ DOMAIN batch[c] = {}
      /\ UNCHANGED <<task, myTasks, myQueue, mySize, batch, coro, mainVars, contextVars, kernelVars, failed>>
  BY DEF EndOfBatch, coreVars, NoEvents
<1>2. ThreadGoesOn(c, "check")
  BY <1>1 DEF ThreadGoesOn, mainVars
<1>3. PointMoves(c, "check") /\ "check" \in Points
  BY <1>1, <1>2, SizesFit DEF PointMoves, Points
<1> QED
  BY <1>3, PointMovesInv

(* While a core is taken down, nothing of it is left after processQueues.  *)
LEMMA AllDropped ==
    ASSUME IOInv, NEW c \in Cores, pc[c] = "drain", myQueue[c] = <<>>, main \in {"~cli", "~srv"}
    PROVE  \A t \in Tasks : Core(t) = c => task[t].st = "deleted"
<1> SUFFICES ASSUME NEW t \in Tasks, Core(t) = c PROVE task[t].st = "deleted"
  OBVIOUS
<1>1. Len(myQueue[c]) = 0
  OBVIOUS
<1>2. task[t].st \notin {"new", "deleting"}
  BY <1>1 DEF IOInv, ListsSound, Listed
<1>3. Gone(t)
  <2>1. CASE t \in Ends
    <3>1. Done(t)
      BY <2>1 DEF IOInv, StagesSound, Stopping, Down
    <3>2. Does(t) = task[t].op
      BY DEF Does, Running
    <3>3. Does(t) # "delete"
      BY <3>2 DEF IOInv, TaskTypes, TaskRecord, Ops
    <3> QED
      BY <3>1, <3>3 DEF Done
  <2>2. CASE t = Listener
    BY <2>2 DEF IOInv, StagesSound, Stopping, Down
  <2>3. CASE t = EventSub(c)
    <3>1. c = "cli" \/ (c = "srv" /\ main = "~srv")
      BY CoreFacts DEF IOInv, ThreadsSound
    <3> QED
      BY <2>3, <3>1 DEF IOInv, StagesSound, Down
  <2> QED
    BY <2>1, <2>2, <2>3, TaskKinds
<1> QED
  BY <1>2, <1>3 DEF Gone

LEMMA DrainedInv ==
    ASSUME IOInv, NEW c \in Cores, Drained(c)
    PROVE  IOInv'
<1> DEFINE p == IF main \in {"~cli", "~srv"} THEN "gone" ELSE "wait"
<1>1. /\ pc[c] = "drain" /\ myQueue[c] = <<>> /\ pc' = [pc EXCEPT ![c] = p]
      /\ mySize' = [mySize EXCEPT ![c] = Len(myTasks[c])]
      /\ UNCHANGED <<task, myTasks, myQueue, batch, coro, mainVars, contextVars, kernelVars, failed>>
  BY DEF Drained
<1>2. p \in Points /\ p \notin {"off", "coro", "batch", "ended"}
  BY DEF Points
<1>3. mySize' \in [Cores -> Nat] /\ \A d \in Cores : mySize'[d] >= Len(myQueue[d])
  <2>1. Len(myTasks[c]) \in Nat /\ Len(myQueue[c]) = 0
    BY <1>1 DEF IOInv, TaskTypes
  <2> QED
    BY <1>1, <2>1, SizesFit
<1>4. DOMAIN batch[c] = {}
  BY <1>1, NoBatch
<1>5. CASE main \notin {"~cli", "~srv"}
  <2>1. ThreadGoesOn(c, p)
    BY <1>1, <1>5 DEF ThreadGoesOn, mainVars
  <2> HIDE DEF p
  <2>2. PointMoves(c, p)
    BY <1>1, <1>2, <1>3, <1>4, <2>1 DEF PointMoves
  <2> QED
    BY <1>2, <2>2, PointMovesInv
<1>6. CASE main \in {"~cli", "~srv"}
  <2>1. pc' = [pc EXCEPT ![c] = "gone"]
    BY <1>1, <1>6
  <2> HIDE DEF p
  <2>2. \A d \in Cores : pc'[d] = IF d = c THEN "gone" ELSE pc[d]
    BY <2>1 DEF IOInv, ThreadTypes
  <2>3. Quiet
    BY <1>1, <2>2 DEF Quiet, kernelVars, mainVars, contextVars
  <2>4. StagesSound'
    BY <1>1, <2>3, QuietStages DEF IOInv, mainVars, contextVars
  <2>5. \A d \in Cores : pc'[d] = "gone" => \A t \in Tasks : Core(t) = d => task'[t].st = "deleted"
    <3> SUFFICES ASSUME NEW d \in Cores, pc'[d] = "gone", NEW t \in Tasks, Core(t) = d
                 PROVE  task[t].st = "deleted"
      BY <1>1
    <3>1. CASE d = c
      BY <1>1, <1>6, <3>1, AllDropped
    <3>2. CASE d # c
      <4>1. pc[d] = "gone"
        BY <2>2, <3>2
      <4> QED
        BY <4>1 DEF IOInv, ThreadsSound
    <3> QED
      BY <3>1, <3>2
  <2>6. (main = "~cli" => c = "cli") /\ (main = "~srv" => c = "srv")
    BY <1>1, CoreFacts DEF IOInv, ThreadsSound
  <2>7. ThreadsSound'
    <3>1. UNCHANGED <<main, myIsStopped>>
      BY <1>1 DEF mainVars
    <3> QED
      BY <1>1, <1>6, <2>2, <2>5, <2>6, <3>1, CoreFacts DEF IOInv, ThreadsSound, Down
  <2>8. \A d \in Cores : pc'[d] \notin {"batch", "coro"} => DOMAIN batch[d] = {}
    BY <1>1, <1>4, <2>2 DEF IOInv, UsesSound, BatchSound
  <2>9. pc' \in [Cores -> Points]
    BY <2>1 DEF IOInv, ThreadTypes, Points
  <2>10. QuietChange
    BY <1>1, <1>3, <2>3, <2>8, <2>9 DEF QuietChange, IOInv, ThreadTypes, KernelTypes,
                                        mainVars, contextVars, kernelVars
  <2> QED
    BY <2>4, <2>7, <2>10, QuietInv
<1> QED
  BY <1>5, <1>6

-----------------------------------------------------------------------------
(* The main thread, where no task changes.                                 *)
LEMMA AllDone ==
    ASSUME IOInv, finished >= 2 * ClientCount
    PROVE  finished = 2 * ClientCount /\ \A t \in Ends : Done(t)
<1>1. DoneEnds \in SUBSET Ends
  BY DEF DoneEnds
<1>2. IsFiniteSet(Ends) /\ Cardinality(Ends) = 2 * ClientCount
  BY EndsFinite
<1>3. Cardinality(DoneEnds) <= Cardinality(Ends) /\ (Cardinality(Ends) = Cardinality(DoneEnds) => Ends = DoneEnds)
  BY <1>1, <1>2, FS_Subset
<1>4. finished \in Nat /\ finished = Cardinality(DoneEnds) /\ 2 * ClientCount \in Nat
  BY IOCoroAssumption DEF IOInv, FinishedSound, ThreadTypes
<1>5. Ends = DoneEnds /\ finished = 2 * ClientCount
  BY <1>2, <1>3, <1>4
<1> QED
  BY <1>5 DEF DoneEnds

LEMMA StartClientThreadInv ==
    ASSUME IOInv, StartClientThread
    PROVE  IOInv'
<1>1. /\ connected = ClientCount /\ main = "connect" /\ main' = "clients"
      /\ pc' = [pc EXCEPT !["cli"] = "check"]
      /\ UNCHANGED <<task, myTasks, myQueue, mySize, batch, coro, connected, myIsStopped, contextVars, kernelVars, failed>>
  BY DEF StartClientThread, Go, coreVars
<1>2. \A d \in Cores : pc'[d] = IF d = "cli" THEN "check" ELSE pc[d]
  BY <1>1 DEF IOInv, ThreadTypes
<1>3. pc["cli"] = "off"
  BY <1>1 DEF IOInv, ThreadsSound
<1>4. Quiet
  BY <1>1, <1>2, <1>3 DEF Quiet, kernelVars, contextVars
<1>5. \A t \in Ends : Done(t)' <=> Done(t)
  BY <1>4, QuietDoes, EndFacts
<1>6. StagesSound'
  BY <1>1, <1>5 DEF IOInv, StagesSound, Stopping, Down, Gone, contextVars
<1>7. ThreadsSound'
  BY <1>1, <1>2, <1>3, CoreFacts DEF IOInv, ThreadsSound, Down
<1>8. \A d \in Cores : pc'[d] \notin {"batch", "coro"} => DOMAIN batch[d] = {}
  BY <1>2, <1>3, NoBatch
<1>9. pc' \in [Cores -> Points] /\ main' \in Stages
  BY <1>1 DEF IOInv, ThreadTypes, Points, Stages
<1>10. QuietChange
  BY <1>1, <1>4, <1>8, <1>9, SizesFit DEF QuietChange, IOInv, ThreadTypes, KernelTypes, contextVars, kernelVars
<1> QED
  BY <1>6, <1>7, <1>10, QuietInv

LEMMA StopClientsInv ==
    ASSUME IOInv, StopClients
    PROVE  IOInv'
<1>1. /\ finished >= 2 * ClientCount /\ main = "clients" /\ main' = "joinClients"
      /\ Expect(finished = 2 * ClientCount) /\ wakeup("cli")
      /\ myIsStopped' = [myIsStopped EXCEPT !["cli"] = TRUE]
      /\ UNCHANGED <<task, myTasks, myQueue, mySize, pc, batch, coro, connected, contextVars, sock, backlog>>
  BY DEF StopClients, Go, coreVars, threadVars
<1>2. finished = 2 * ClientCount /\ \A t \in Ends : Done(t)
  BY <1>1, AllDone
<1>3. failed' = FALSE
  BY <1>1, <1>2 DEF Expect, IOInv
<1>4. myIsStopped' \in [Cores -> BOOLEAN] /\ \A d \in Cores : myIsStopped'[d] = (d = "cli" \/ myIsStopped[d])
  BY <1>1 DEF IOInv, ThreadTypes
<1>5. Quiet
  BY <1>1 DEF Quiet, contextVars
<1>6. \A t \in Ends : Done(t)' <=> Done(t)
  BY <1>5, QuietDoes, EndFacts
<1>7. StagesSound'
  BY <1>1, <1>2, <1>4, <1>6, CoreFacts DEF IOInv, StagesSound, Stopping, Down, Gone, contextVars
<1>8. ThreadsSound'
  BY <1>1, <1>4, CoreFacts DEF IOInv, ThreadsSound, Down
<1>9. \A d \in Cores : pc[d] \notin {"batch", "coro"} => DOMAIN batch[d] = {}
  BY NoBatch
<1>10. QuietChange
  BY <1>1, <1>3, <1>4, <1>5, <1>9, SizesFit, wakeupFacts, CoreFacts
     DEF QuietChange, IOInv, ThreadTypes, KernelTypes, contextVars, Stages
<1> QED
  BY <1>7, <1>8, <1>10, QuietInv

LEMMA StopServerCoreInv ==
    ASSUME IOInv, StopServerCore
    PROVE  IOInv'
<1>1. /\ serverFinished /\ main = "server" /\ main' = "joinServer" /\ wakeup("srv")
      /\ myIsStopped' = [myIsStopped EXCEPT !["srv"] = TRUE]
      /\ UNCHANGED <<task, myTasks, myQueue, mySize, pc, batch, coro, connected, contextVars, sock, backlog, failed>>
  BY DEF StopServerCore, Go, coreVars, threadVars
<1>4. myIsStopped' \in [Cores -> BOOLEAN] /\ \A d \in Cores : myIsStopped'[d] = (d = "srv" \/ myIsStopped[d])
  BY <1>1 DEF IOInv, ThreadTypes
<1>5. Quiet
  BY <1>1 DEF Quiet, contextVars
<1>6. \A t \in Ends : Done(t)' <=> Done(t)
  BY <1>5, QuietDoes, EndFacts
<1>7. StagesSound'
  BY <1>1, <1>4, <1>6, CoreFacts DEF IOInv, StagesSound, Stopping, Down, Gone, contextVars, ThreadTypes
<1>8. ThreadsSound'
  BY <1>1, <1>4, CoreFacts DEF IOInv, ThreadsSound, Down
<1>9. \A d \in Cores : pc[d] \notin {"batch", "coro"} => DOMAIN batch[d] = {}
  BY NoBatch
<1>10. QuietChange
  BY <1>1, <1>4, <1>5, <1>9, SizesFit, wakeupFacts, CoreFacts
     DEF QuietChange, IOInv, ThreadTypes, KernelTypes, contextVars, Stages
<1> QED
  BY <1>7, <1>8, <1>10, QuietInv

LEMMA LeaveInv ==
    ASSUME IOInv, Leave
    PROVE  IOInv'
<1>1. /\ pc["srv"] = "gone" /\ main = "~srv" /\ main' = "done"
      /\ Expect(/\ \A c \in Cores : myTasks[c] = <<>> /\ myQueue[c] = <<>>
                /\ \A t \in Tasks : task[t].st = "deleted")
      /\ UNCHANGED <<task, myTasks, myQueue, mySize, pc, batch, coro, connected, myIsStopped, contextVars, kernelVars>>
  BY DEF Leave, Go, coreVars, threadVars
<1>2. \A c \in Cores : pc[c] = "gone"
  BY <1>1, CoreFacts DEF IOInv, ThreadsSound
<1>3. \A t \in Tasks : task[t].st = "deleted"
  BY <1>2, TaskKinds DEF IOInv, ThreadsSound
<1>4. ASSUME NEW c \in Cores PROVE myTasks[c] = <<>> /\ myQueue[c] = <<>>
  <2>1. myTasks[c] \in Seq(Tasks) /\ myQueue[c] \in Seq(Tasks)
    BY DEF IOInv, TaskTypes
  <2>2. ~(1 \in 1..Len(myTasks[c]))
    BY <1>3, <2>1 DEF IOInv, ListsSound, Indexed, Live
  <2>3. ~(1 \in 1..Len(myQueue[c]))
    BY <1>3, <2>1 DEF IOInv, ListsSound, Queued
  <2>4. Len(myTasks[c]) = 0 /\ Len(myQueue[c]) = 0
    BY <2>1, <2>2, <2>3
  <2> QED
    BY <2>1, <2>4
<1>5. failed' = FALSE
  BY <1>1, <1>3, <1>4 DEF Expect, IOInv
<1>6. Quiet
  BY <1>1 DEF Quiet, contextVars, kernelVars
<1>7. \A t \in Ends : Done(t)' <=> Done(t)
  BY <1>6, QuietDoes, EndFacts
<1>8. StagesSound'
  BY <1>1, <1>7 DEF IOInv, StagesSound, Stopping, Down, Gone, contextVars
<1>9. ThreadsSound'
  BY <1>1, CoreFacts DEF IOInv, ThreadsSound, Down
<1>10. \A d \in Cores : pc[d] \notin {"batch", "coro"} => DOMAIN batch[d] = {}
  BY NoBatch
<1>11. QuietChange
  BY <1>1, <1>5, <1>6, <1>10, SizesFit
     DEF QuietChange, IOInv, ThreadTypes, KernelTypes, contextVars, kernelVars, Stages
<1> QED
  BY <1>8, <1>9, <1>11, QuietInv

-----------------------------------------------------------------------------
(* Events.                                                                 *)
LEMMA MaskFacts ==
    ASSUME IOInv, NEW t \in Tasks
    PROVE  Mask(t) \subseteq {"R", "W"} /\ (t = Listener => Mask(t) \subseteq {"R"})
<1>1. CASE t \notin Ends \cup {Listener}
  <2>1. Mask(t) = IF Core(t) \in signalled THEN {"R", "W"} ELSE {}
    BY <1>1 DEF Mask
  <2> QED
    BY <1>1, <2>1
<1>2. CASE t = Listener
  <2>1. Mask(t) = IF backlog # <<>> THEN {"R"} ELSE {}
    BY <1>2, CoreFacts DEF Mask
  <2> QED
    BY <2>1
<1>3. CASE t \in Ends
  <2>1. Mask(t) = {b \in {"R", "W", "H"} : \/ b = "R" /\ Readable(t)
                                           \/ b = "W" /\ Writable(t)
                                           \/ b = "H" /\ sock[t].reset}
    BY <1>3, CoreFacts DEF Mask
  <2>2. sock[t].reset = FALSE
    BY <1>3 DEF IOInv, FlowSound, SockSound
  <2> QED
    BY <1>3, <2>1, <2>2, CoreFacts
<1> QED
  BY <1>1, <1>2, <1>3

LEMMA epoll_waitInv ==
    ASSUME IOInv, NEW c \in Cores, epoll_wait(c)
    PROVE  IOInv'
<1>1. PICK evs : /\ evs \subseteq {t \in ready[c] : Mask(t) # {}}
                 /\ batch' = [batch EXCEPT ![c] = [t \in evs |-> Mask(t)]]
                 /\ ready' = [ready EXCEPT ![c] = {t \in ready[c] : Mask(t) # {}} \ evs]
  BY DEF epoll_wait, kSubset
<1>2. /\ pc[c] = "wait" /\ pc' = [pc EXCEPT ![c] = "batch"]
      /\ UNCHANGED <<task, myTasks, myQueue, mySize, coro, mainVars, contextVars, sock, backlog, signalled, failed>>
  BY DEF epoll_wait, coreVars
<1>3. \A d \in Cores : pc'[d] = IF d = c THEN "batch" ELSE pc[d]
  BY <1>2 DEF IOInv, ThreadTypes
<1>4. Quiet
  BY <1>2, <1>3 DEF Quiet, mainVars, contextVars
<1>5. ThreadsSound' /\ pc' \in [Cores -> Points]
  <2>1. ThreadGoesOn(c, "batch") /\ "batch" \in Points
    BY <1>2 DEF ThreadGoesOn, mainVars, Points
  <2> QED
    BY <1>2, <2>1, ThreadsGoOn DEF IOInv
<1>6. StagesSound'
  BY <1>2, <1>4, QuietStages DEF IOInv, mainVars, contextVars
<1>7. FlowSound' /\ ListenerSound' /\ BacklogSound' /\ FinishedSound'
  BY <1>4, QuietStep DEF IOInv
<1>8. TaskTypes' /\ ListsSound' /\ SubsSound'
  BY <1>2, <1>4, QuietLists, SizesFit
<1>9. ready' \in [Cores -> SUBSET Tasks] /\ DOMAIN batch' = Cores
  BY <1>1 DEF IOInv, KernelTypes
<1>10. UsesSound'
  <2> SUFFICES ASSUME NEW d \in Cores PROVE ReadySound(d)' /\ BatchSound(d)' /\ CoroSound(d)'
    BY DEF UsesSound
  <2>1. ReadySound(d) /\ BatchSound(d) /\ CoroSound(d) /\ ReadySound(c)
    BY DEF IOInv, UsesSound
  <2>2. ready'[d] \subseteq ready[d]
    BY <1>1 DEF IOInv, KernelTypes
  <2>3. ReadySound(d)'
    BY <1>2, <2>1, <2>2 DEF ReadySound, Live
  <2>4. CoroSound(d)'
    BY <1>2, <1>3, <2>1 DEF CoroSound, Live
  <2>5. CASE d # c
    <3>1. batch'[d] = batch[d]
      BY <1>1, <2>5 DEF IOInv, KernelTypes
    <3> QED
      BY <1>2, <1>3, <2>1, <2>3, <2>4, <2>5, <3>1 DEF BatchSound, Live
  <2>6. CASE d = c
    <3>1. DOMAIN batch'[c] = evs /\ \A t \in evs : batch'[c][t] = Mask(t)
      BY <1>1 DEF IOInv, KernelTypes
    <3>2. evs \subseteq Tasks /\ \A t \in evs : t \in ready[c] /\ Mask(t) # {}
      BY <1>1 DEF IOInv, KernelTypes
    <3>3. \A t \in evs : Mask(t) \subseteq {"R", "W"} /\ (t = Listener => "R" \in Mask(t))
      BY <3>2, MaskFacts
    <3>4. \A t \in evs : Core(t) = c /\ Live(t)'
      BY <1>2, <2>1, <3>2 DEF ReadySound, Live
    <3>5. pc'[c] = "batch"
      BY <1>3
    <3>6. BatchSound(c)'
      BY <3>1, <3>2, <3>3, <3>4, <3>5 DEF BatchSound
    <3> QED
      BY <2>3, <2>4, <2>6, <3>6
  <2> QED
    BY <2>5, <2>6
<1>11. ThreadTypes' /\ KernelTypes'
  BY <1>2, <1>5, <1>9 DEF IOInv, ThreadTypes, KernelTypes, mainVars, contextVars
<1> QED
  BY <1>2, <1>5, <1>6, <1>7, <1>8, <1>10, <1>11 DEF IOInv

-----------------------------------------------------------------------------
(* A step that changes one task.                                           *)

(* The coroutine of a task neither moves nor waits for anything else.      *)
Kept(t) ==
    /\ task'[t].st = task[t].st /\ task'[t].op = task[t].op /\ task'[t].recvs = task[t].recvs
    /\ Does(t)' = Does(t)

LEMMA KeptFacts ==
    ASSUME NEW t, Kept(t)
    PROVE  /\ EndSound(t) => EndSound(t)'
           /\ Received(t)' = Received(t) /\ Sent(t)' = Sent(t)
           /\ Done(t)' <=> Done(t)
<1>1. Gone(t)' <=> Gone(t)
  BY DEF Kept, Gone
<1>2. EndSound(t) => EndSound(t)'
  BY <1>1 DEF Kept, EndSound
<1>3. Received(t)' = Received(t) /\ Sent(t)' = Sent(t)
  BY <1>1 DEF Kept, Received, Sent
<1> QED
  BY <1>1, <1>2, <1>3 DEF Kept, Done

(* The threads stay where they are.                                        *)
LEMMA DoesSame ==
    ASSUME UNCHANGED <<pc, coro>>, NEW t, task'[t].op = task[t].op
    PROVE  Does(t)' = Does(t)
BY DEF Does, Running

(* A coroutine is resumed, goes on or is suspended: no other one moves.    *)
LEMMA DoesOther ==
    ASSUME NEW c \in Cores, NEW s,
           pc[c] = "coro" => coro[c].task = s, pc'[c] = "coro" => coro'[c].task = s,
           \A d \in Cores : d # c => pc'[d] = pc[d] /\ coro'[d] = coro[d],
           NEW t \in Tasks, t # s, task'[t].op = task[t].op
    PROVE  Does(t)' = Does(t)
<1>1. Core(t) \in Cores
  BY TaskKinds
<1>2. CASE Core(t) = c
  BY <1>2 DEF Does, Running
<1>3. CASE Core(t) # c
  BY <1>1, <1>3 DEF Does, Running
<1> QED
  BY <1>2, <1>3

(* The coroutines keep what FlowSound says when the sockets do.            *)
LEMMA FlowKept ==
    ASSUME FlowSound, UNCHANGED <<sock, backlog, connected>>, NEW t \in Ends,
           Received(t)' = Received(t), Sent(Peer(t))' = Sent(Peer(t)),
           task'[t].st = "deleted" <=> task[t].st = "deleted",
           task'[Peer(t)].st = "deleted" <=> task[Peer(t)].st = "deleted",
           task'[t].st = "none" <=> task[t].st = "none",
           task'[Peer(t)].st = "none" <=> task[Peer(t)].st = "none"
    PROVE  Conserved(t)' /\ SockSound(t)' /\ ConnectionSound(t)'
<1>1. Conserved(t) /\ SockSound(t) /\ ConnectionSound(t)
  BY DEF FlowSound
<1>2. Conserved(t)'
  BY <1>1 DEF Conserved
<1>3. SockSound(t)'
  BY <1>1 DEF SockSound
<1>4. ConnectionSound(t)'
  BY <1>1 DEF ConnectionSound, ClientSound, ServerSound, InBacklog
<1> QED
  BY <1>2, <1>3, <1>4

(* A core none of whose tasks changes.                                     *)
LEMMA UsesOther ==
    ASSUME IOInv, NEW c \in Cores, \A t \in Tasks : Core(t) = c => task'[t] = task[t],
           batch'[c] = batch[c], pc'[c] = pc[c], coro'[c] = coro[c],
           \A t \in ready'[c] : t \in ready[c] \/ (t \in Tasks /\ Core(t) = c /\ Registered(t))
    PROVE  ReadySound(c)' /\ BatchSound(c)' /\ CoroSound(c)'
<1>1. ReadySound(c) /\ BatchSound(c) /\ CoroSound(c)
  BY DEF IOInv, UsesSound
<1>2. \A t \in Tasks : Core(t) = c => (Live(t)' <=> Live(t))
  BY DEF Live
<1>3. \A t \in ready'[c] : t \in Tasks /\ Core(t) = c /\ Live(t)
  BY <1>1, RegisteredLive DEF ReadySound, IOInv, KernelTypes
<1>4. ReadySound(c)'
  BY <1>2, <1>3 DEF ReadySound
<1>5. BatchSound(c)'
  BY <1>1, <1>2 DEF BatchSound
<1>6. coro[c].task \in Tasks /\ Listener \in Tasks
  BY CoreFacts DEF IOInv, ThreadTypes
<1>7. CoroSound(c)'
  BY <1>1, <1>2, <1>6 DEF CoroSound
<1> QED
  BY <1>4, <1>5, <1>7

(* No client finishes in this step.                                        *)
LEMMA FinishedKept ==
    ASSUME FinishedSound, finished' = finished, \A t \in Ends : Done(t)' <=> Done(t)
    PROVE  FinishedSound'
<1>1. DoneEnds' = DoneEnds
  BY DEF DoneEnds
<1> QED
  BY <1>1 DEF FinishedSound

LEMMA AddTaskFacts ==
    ASSUME IOInv, NEW c \in Cores, AddTask(c), NEW s, s = Head(myQueue[c])
    PROVE  /\ s \in Tasks /\ Core(s) = c /\ QueuePopped(c, s) /\ PlaceAdded(c, s)
           /\ \A t \in Tasks : t # s => task'[t] = task[t]
           /\ task'[s].op = task[s].op /\ task'[s].recvs = task[s].recvs
           /\ TaskTypes' /\ KernelTypes'
           /\ \A d \in Cores : \A t \in ready'[d] : t \in ready[d] \/ (d = c /\ t = s)
           /\ UNCHANGED <<pc, batch, coro, mainVars, contextVars, sock, backlog, signalled, failed>>
<1>1. /\ pc[c] = "drain" /\ myQueue[c] # <<>> /\ task[s].st = "new"
      /\ task' = [task EXCEPT ![s].st = "working", ![s].bits = {"R", "W"}, ![s].idx = Len(myTasks[c]) + 1]
      /\ myTasks' = [myTasks EXCEPT ![c] = Append(@, s)]
      /\ ready' = [ready EXCEPT ![c] = @ \cup (IF Mask(s) # {} THEN {s} ELSE {})]
      /\ myQueue' = [myQueue EXCEPT ![c] = Tail(@)]
      /\ UNCHANGED <<mySize, pc, batch, coro, mainVars, contextVars, sock, backlog, signalled, failed>>
  BY DEF AddTask, threadVars
<1>2. /\ task \in [Tasks -> TaskRecord] /\ myTasks[c] \in Seq(Tasks) /\ myQueue[c] \in Seq(Tasks)
      /\ TaskTypes /\ ListsSound /\ KernelTypes
  BY DEF IOInv, TaskTypes
<1>3. s = myQueue[c][1] /\ s \in Tasks /\ Tail(myQueue[c]) \in Seq(Tasks)
  BY <1>1, <1>2, TailFacts
<1>4. Len(myTasks[c]) + 1 \in Nat /\ Append(myTasks[c], s) \in Seq(Tasks)
  BY <1>2, <1>3
<1>5. /\ task'[s] = [task[s] EXCEPT !.st = "working", !.bits = {"R", "W"}, !.idx = Len(myTasks[c]) + 1]
      /\ \A t \in Tasks : t # s => task'[t] = task[t]
      /\ DOMAIN task' = Tasks
  BY <1>1, <1>2, <1>3
<1>6. task[s] \in TaskRecord
  BY <1>2, <1>3
<1>7. /\ task'[s] \in TaskRecord /\ task'[s].st = "working" /\ task'[s].idx = Len(myTasks[c]) + 1
      /\ task'[s].op = task[s].op /\ task'[s].recvs = task[s].recvs
  <2>1. PICK r, n, q : r = task[s] /\ n = Len(myTasks[c]) + 1 /\ q = task'[s]
    OBVIOUS
  <2>2. q = [r EXCEPT !.st = "working", !.bits = {"R", "W"}, !.idx = n]
    BY <1>5, <2>1
  <2>3. r \in TaskRecord /\ n \in Nat
    BY <1>4, <1>6, <2>1
  <2>4. q.st = "working" /\ q.idx = n /\ q.op = r.op /\ q.recvs = r.recvs /\ q.bits = {"R", "W"}
    BY <2>2, <2>3 DEF TaskRecord
  <2>5. q \in TaskRecord
    BY <2>2, <2>3, <2>4 DEF TaskRecord, States, Bits
  <2> QED
    BY <2>1, <2>4, <2>5
<1>8. task' \in [Tasks -> TaskRecord]
  BY <1>1, <1>2, <1>5, <1>7
<1>9. TaskTypes'
  BY <1>1, <1>2, <1>3, <1>4, <1>8 DEF TaskTypes
<1>10. QueuePopped(c, s)
  BY <1>1, <1>3, <1>5, <1>7 DEF QueuePopped
<1>11. PlaceAdded(c, s)
  BY <1>1, <1>5, <1>7 DEF PlaceAdded
<1>12. Core(s) = c
  BY <1>2, <1>3, <1>10, QueuesPop
<1>13. KernelTypes' /\ \A d \in Cores : \A t \in ready'[d] : t \in ready[d] \/ (d = c /\ t = s)
  BY <1>1, <1>2, <1>3 DEF KernelTypes
<1> QED
  BY <1>1, <1>3, <1>5, <1>7, <1>9, <1>10, <1>11, <1>12, <1>13

LEMMA AddTaskInv ==
    ASSUME IOInv, NEW c \in Cores, AddTask(c)
    PROVE  IOInv'
<1>1. PICK s : s = Head(myQueue[c])
  OBVIOUS
<1>2. /\ s \in Tasks /\ Core(s) = c /\ QueuePopped(c, s) /\ PlaceAdded(c, s)
      /\ \A t \in Tasks : t # s => task'[t] = task[t]
      /\ task'[s].op = task[s].op /\ task'[s].recvs = task[s].recvs
      /\ TaskTypes' /\ KernelTypes'
      /\ \A d \in Cores : \A t \in ready'[d] : t \in ready[d] \/ (d = c /\ t = s)
      /\ UNCHANGED <<pc, batch, coro, mainVars, contextVars, sock, backlog, signalled, failed>>
  BY <1>1, AddTaskFacts
<1>3. task[s].st = "new" /\ task'[s].st = "working" /\ pc[c] = "drain"
  BY <1>2 DEF PlaceAdded, AddTask
<1>4. ListsSound'
  <2>1. /\ \A d \in Cores : Queued(d)' /\ (mySize[d] >= Len(myQueue[d]))'
        /\ \A t \in Tasks : Listed(t)'
    BY <1>2, QueuesPop DEF IOInv
  <2>2. (\A d \in Cores : Indexed(d)') /\ (\A t \in Tasks : Placed(t)')
    BY <1>2, PlacesAdd DEF IOInv
  <2> QED
    BY <2>1, <2>2 DEF ListsSound
<1>5. \A t \in Tasks : Does(t)' = Does(t)
  BY <1>2, DoesSame
<1>6. UsesSound'
  <2> SUFFICES ASSUME NEW d \in Cores PROVE ReadySound(d)' /\ BatchSound(d)' /\ CoroSound(d)'
    BY DEF UsesSound
  <2>1. CASE d # c
    BY <1>2, <2>1, UsesOther
  <2>2. CASE d = c
    <3>1. ReadySound(c) /\ BatchSound(c) /\ ready[c] \subseteq Tasks
      BY DEF IOInv, UsesSound, KernelTypes
    <3>2. ReadySound(c)'
      BY <1>2, <1>3, <3>1 DEF ReadySound, Live
    <3>3. BatchSound(c)' /\ CoroSound(c)'
      BY <1>2, <1>3, NoBatch DEF BatchSound, CoroSound
    <3> QED
      BY <2>2, <3>2, <3>3
  <2> QED
    BY <2>1, <2>2
<1>7. \A t \in Ends : Received(t)' = Received(t) /\ Sent(t)' = Sent(t) /\ (Done(t)' <=> Done(t))
  BY <1>2, <1>3, <1>5, EndFacts DEF Received, Sent, Done, Gone
<1>8. FlowSound'
  <2> SUFFICES ASSUME NEW t \in Ends
               PROVE  EndSound(t)' /\ Conserved(t)' /\ SockSound(t)' /\ ConnectionSound(t)'
    BY DEF FlowSound
  <2>1. t \in Tasks /\ Peer(t) \in Ends /\ Peer(t) \in Tasks
    BY EndFacts
  <2>2. EndSound(t)'
    <3>1. EndSound(t)
      BY DEF IOInv, FlowSound
    <3>2. CASE t = s
      BY <1>2, <1>3, <1>5, <2>1, <3>1, <3>2 DEF EndSound, Gone
    <3>3. CASE t # s
      BY <1>2, <1>5, <2>1, <3>1, <3>3, KeptFacts DEF Kept
    <3> QED
      BY <3>2, <3>3
  <2>3. UNCHANGED <<sock, backlog, connected>>
    BY <1>2 DEF mainVars
  <2>4. \A u \in Tasks : /\ task'[u].st = "deleted" <=> task[u].st = "deleted"
                         /\ task'[u].st = "none" <=> task[u].st = "none"
    BY <1>2, <1>3
  <2> QED
    BY <1>7, <2>1, <2>2, <2>3, <2>4, FlowKept DEF IOInv
<1>9. ListenerSound'
  <2>1. ListenerSound /\ Does(Listener)' = Does(Listener) /\ Listener \in Tasks
    BY <1>5, CoreFacts DEF IOInv
  <2>2. CASE Listener = s
    BY <1>2, <1>3, <2>1, <2>2 DEF ListenerSound
  <2>3. CASE Listener # s
    <3>1. task'[Listener] = task[Listener]
      BY <1>2, <2>1, <2>3
    <3>2. \A t \in Ends : t \in Tasks /\ (task[t].st = "none" => task'[t].st = "none")
      BY <1>2, <1>3, EndFacts
    <3> QED
      BY <2>1, <3>1, <3>2 DEF ListenerSound
  <2> QED
    BY <2>2, <2>3
<1>10. SubsSound'
  <2> SUFFICES ASSUME NEW d \in Cores PROVE EventSubSound(d)'
    BY DEF SubsSound
  <2>1. EventSubSound(d) /\ EventSub(d) \in Tasks
    BY CoreFacts DEF IOInv, SubsSound
  <2>2. CASE d # c
    <3>1. myQueue'[d] = myQueue[d] /\ \A t \in Tasks : Core(t) = d => task'[t] = task[t]
      BY <1>2, <2>2 DEF QueuePopped, IOInv, TaskTypes
    <3> QED
      BY <2>1, <3>1, CoreFacts DEF EventSubSound
  <2>3. CASE d = c
    <3>1. task[EventSub(c)].st = "new" => EventSub(c) = s
      BY <1>2, <2>1, <2>3 DEF EventSubSound, QueuePopped
    <3>2. task'[EventSub(c)].st \notin {"new", "none"}
      BY <1>2, <1>3, <2>1, <2>3, <3>1 DEF EventSubSound
    <3>3. task'[EventSub(c)].op = task[EventSub(c)].op
      BY <1>2, <2>1, <2>3
    <3> QED
      BY <2>1, <2>3, <3>2, <3>3 DEF EventSubSound
  <2> QED
    BY <2>2, <2>3
<1>11. BacklogSound'
  BY <1>2 DEF IOInv, BacklogSound
<1>12. FinishedSound'
  BY <1>2, <1>7, FinishedKept DEF IOInv, contextVars
<1>13. StagesSound'
  <2>1. \A u \in Tasks : /\ Gone(u)' <=> Gone(u)
                         /\ task'[u].st = "deleted" <=> task[u].st = "deleted"
    BY <1>2, <1>3 DEF Gone
  <2> QED
    BY <1>2, <1>7, <2>1, CoreFacts DEF IOInv, StagesSound, mainVars, contextVars
<1>14. ThreadsSound'
  <2>1. \A t \in Tasks : task[t].st = "deleted" => task'[t].st = "deleted"
    BY <1>2, <1>3
  <2> QED
    BY <1>2, <2>1 DEF IOInv, ThreadsSound, mainVars
<1>15. ThreadTypes'
  BY <1>2 DEF IOInv, ThreadTypes, mainVars, contextVars
<1> QED
  BY <1>2, <1>4, <1>6, <1>8, <1>9, <1>10, <1>11, <1>12, <1>13, <1>14, <1>15 DEF IOInv

-----------------------------------------------------------------------------
(* Bytes.  Nobody sends more than Requests bytes: the end that is gone has *)
(* read everything, and nothing is sent to it any more.                    *)
LEMMA Counted ==
    ASSUME IOInv, NEW t \in Ends
    PROVE  /\ task[t].recvs \in Nat /\ Received(t) \in 0..Requests /\ Sent(t) \in 0..Requests
           /\ Received(t) + sock[t].bytes = Sent(Peer(t)) /\ sock[t].bytes \in 0..Cap
           /\ (Does(t) \in {"connect", "send", "recv"} /\ ~Gone(t)) => Received(t) < Requests
<1>1. task[t].recvs \in Nat /\ EndSound(t) /\ Conserved(t) /\ SockSound(t) /\ sock[t].bytes \in Nat
  BY EndFacts DEF IOInv, TaskTypes, TaskRecord, FlowSound, KernelTypes, SockRecord
<1>2. Received(t) \in 0..Requests
  BY <1>1, IOCoroAssumption DEF Received, EndSound
<1>3. Sent(t) \in 0..Requests
  BY <1>1, IOCoroAssumption DEF Sent, EndSound
<1>4. (Does(t) \in {"connect", "send", "recv"} /\ ~Gone(t)) => Received(t) < Requests
  BY <1>1 DEF Received, EndSound
<1>5. sock[t].bytes \in 0..Cap
  BY <1>1, IOCoroAssumption DEF SockSound
<1> QED
  BY <1>1, <1>2, <1>3, <1>4, <1>5 DEF Conserved

LEMMA GoneEnd ==
    ASSUME IOInv, NEW t \in Ends, Gone(t)
    PROVE  sock[t].bytes = 0 /\ Sent(Peer(t)) = Requests
<1>1. Received(t) = Requests
  BY DEF Received
<1>2. Peer(t) \in Ends
  BY EndFacts
<1>3. /\ Received(t) + sock[t].bytes = Sent(Peer(t)) /\ sock[t].bytes \in 0..Cap
      /\ Sent(Peer(t)) \in 0..Requests
  BY <1>2, Counted
<1> QED
  BY <1>1, <1>3, IOCoroAssumption

(* The task that processQueues drops.                                      *)
LEMMA DropTaskFacts ==
    ASSUME IOInv, NEW c \in Cores, DropTask(c), NEW s, s = Head(myQueue[c])
    PROVE  /\ s \in Tasks /\ Core(s) = c /\ QueuePopped(c, s) /\ PlaceDropped(c, s)
           /\ \A t \in Tasks : t # s => /\ task'[t].st = task[t].st /\ task'[t].op = task[t].op
                                        /\ task'[t].bits = task[t].bits /\ task'[t].recvs = task[t].recvs
           /\ \A t \in Tasks : Core(t) # c => task'[t] = task[t]
           /\ task'[s] = [NoTask EXCEPT !.st = "deleted"]
           /\ TaskTypes'
<1>1. /\ pc[c] = "drain" /\ myQueue[c] # <<>> /\ task[s].st = "deleting"
      /\ task' = [Moved(c, s) EXCEPT ![s] = [NoTask EXCEPT !.st = "deleted"]]
      /\ myTasks' = [myTasks EXCEPT
                       ![c] = SubSeq([@ EXCEPT ![task[s].idx] = myTasks[c][Len(myTasks[c])]], 1, Len(myTasks[c]) - 1)]
      /\ myQueue' = [myQueue EXCEPT ![c] = Tail(@)] /\ mySize' = mySize
  BY DEF DropTask
<1>2. /\ task \in [Tasks -> TaskRecord] /\ myTasks[c] \in Seq(Tasks) /\ myQueue[c] \in Seq(Tasks)
      /\ TaskTypes /\ ListsSound
  BY DEF IOInv, TaskTypes
<1>3. s = myQueue[c][1] /\ s \in Tasks /\ Tail(myQueue[c]) \in Seq(Tasks) /\ Len(myQueue[c]) >= 1
  BY <1>1, <1>2, TailFacts
<1>4. Core(s) = c
  BY <1>2, <1>3 DEF ListsSound, Queued
<1>5. PICK n, i, last : n = Len(myTasks[c]) /\ i = task[s].idx /\ last = Last(myTasks[c])
  OBVIOUS
<1>6. i \in 1..n /\ n \in Nat /\ myTasks[c][i] = s
  BY <1>1, <1>2, <1>3, <1>4, <1>5 DEF ListsSound, Placed, Live
<1>7. last = myTasks[c][n] /\ last \in Tasks /\ Core(last) = c
  <2>1. n \in 1..n
    BY <1>6
  <2> QED
    BY <2>1, <1>2, <1>5 DEF Last, ListsSound, Indexed
<1>8. PICK mid : mid = Moved(c, s)
  OBVIOUS
<1>9. /\ mid \in [Tasks -> TaskRecord] /\ mid[last] = [task[last] EXCEPT !.idx = i]
      /\ \A t \in Tasks : t # last => mid[t] = task[t]
  <2>1. mid = [task EXCEPT ![last].idx = i]
    BY <1>5, <1>8 DEF Moved
  <2>2. [task[last] EXCEPT !.idx = i] \in TaskRecord
    <3>1. task[last] \in TaskRecord /\ i \in Nat
      BY <1>2, <1>6, <1>7
    <3> QED
      BY <3>1 DEF TaskRecord
  <2> QED
    BY <1>2, <1>7, <2>1, <2>2
<1>10. \A t \in Tasks : /\ mid[t].st = task[t].st /\ mid[t].op = task[t].op
                        /\ mid[t].bits = task[t].bits /\ mid[t].recvs = task[t].recvs
                        /\ mid[t].idx = IF t = last THEN i ELSE task[t].idx
  <2>1. task[last] \in TaskRecord
    BY <1>2, <1>7
  <2>2. /\ mid[last].st = task[last].st /\ mid[last].op = task[last].op
        /\ mid[last].bits = task[last].bits /\ mid[last].recvs = task[last].recvs /\ mid[last].idx = i
    BY <1>9, <2>1 DEF TaskRecord
  <2> QED
    BY <1>9, <2>2
<1>11. task' = [mid EXCEPT ![s] = [NoTask EXCEPT !.st = "deleted"]]
  BY <1>1, <1>8
<1>12. [NoTask EXCEPT !.st = "deleted"] \in TaskRecord
  BY DEF NoTask, TaskRecord, States, Ops
<1>13. /\ task' \in [Tasks -> TaskRecord] /\ task'[s] = [NoTask EXCEPT !.st = "deleted"]
       /\ \A t \in Tasks : t # s => task'[t] = mid[t]
  BY <1>3, <1>9, <1>11, <1>12
<1>14. task'[s].st = "deleted"
  BY <1>13 DEF NoTask
<1>15. PlaceDropped(c, s)
  BY <1>1, <1>5, <1>7, <1>10, <1>13, <1>14 DEF PlaceDropped
<1>16. QueuePopped(c, s)
  BY <1>1, <1>3, <1>10, <1>13, <1>14 DEF QueuePopped
<1>17. TaskTypes'
  <2>1. SubSeq([myTasks[c] EXCEPT ![i] = myTasks[c][n]], 1, n - 1) \in Seq(Tasks)
    <3>1. PICK q : q = [myTasks[c] EXCEPT ![i] = myTasks[c][n]]
      OBVIOUS
    <3>2. q \in Seq(Tasks) /\ Len(q) = n
      BY <1>2, <1>5, <1>6, <1>7, <3>1
    <3>3. SubSeq(q, 1, n - 1) \in Seq(Tasks)
      BY <1>6, <3>2
    <3> QED
      BY <3>1, <3>3
  <2>2. myTasks' \in [Cores -> Seq(Tasks)]
    BY <1>1, <1>2, <1>5, <2>1 DEF TaskTypes
  <2>3. myQueue' \in [Cores -> Seq(Tasks)]
    BY <1>1, <1>2, <1>3 DEF TaskTypes
  <2> QED
    BY <1>1, <1>2, <1>13, <2>2, <2>3 DEF TaskTypes
<1>18. \A t \in Tasks : Core(t) # c => task'[t] = task[t]
  BY <1>4, <1>7, <1>9, <1>13
<1> QED
  BY <1>3, <1>4, <1>10, <1>13, <1>15, <1>16, <1>17, <1>18

(* The asserts of processQueues when it drops a task.                      *)
LEMMA DropTaskExpected ==
    ASSUME IOInv, NEW c \in Cores, NEW s \in Tasks, Core(s) = c, pc[c] = "drain",
           task[s].st = "deleting"
    PROVE  /\ task[s].idx \in 1..Len(myTasks[c]) /\ myTasks[c][task[s].idx] = s
           /\ (s = Listener /\ task[s].op = "accept") \/ (s # Listener /\ task[s].op = "none")
           /\ s = Listener => serverFinished = FALSE
<1>1. task[s].idx \in 1..Len(myTasks[c]) /\ myTasks[c][task[s].idx] = s
  BY DEF IOInv, ListsSound, Placed, Live
<1>2. Does(s) = task[s].op
  BY DEF Does, Running
<1>3. CASE s = Listener
  BY <1>1, <1>2, <1>3 DEF IOInv, ListenerSound, StagesSound, ThreadTypes
<1>4. CASE s \in Ends
  BY <1>1, <1>4, CoreFacts DEF IOInv, FlowSound, EndSound, Gone
<1>5. CASE s = EventSub(c)
  BY <1>1, <1>5, CoreFacts DEF IOInv, SubsSound, EventSubSound
<1> QED
  BY <1>3, <1>4, <1>5, TaskKinds

LEMMA DropTaskSock ==
    ASSUME IOInv, NEW s \in Tasks, task[s].st = "deleting", sock' = Closed(s)
    PROVE  /\ sock' \in [Ends -> SockRecord]
           /\ \A t \in Ends : /\ sock'[t].bytes = sock[t].bytes /\ sock'[t].full = sock[t].full
                              /\ sock'[t].reset = FALSE
                              /\ sock'[t].fin = IF t = Peer(s) /\ s \in Ends THEN TRUE ELSE sock[t].fin
                              /\ sock'[t].st = IF t = s THEN "closed" ELSE sock[t].st
<1>1. sock \in [Ends -> SockRecord] /\ \A t \in Ends : sock[t].reset = FALSE
  BY DEF IOInv, KernelTypes, FlowSound, SockSound
<1>2. CASE s \notin Ends
  BY <1>1, <1>2 DEF Closed
<1>3. CASE s \in Ends
  <2>1. PICK p : p = Peer(s)
    OBVIOUS
  <2>2. p \in Ends /\ p # s /\ s \in Ends
    BY <1>3, <2>1, EndFacts
  <2>3. sock[s].bytes = 0
    BY <1>3, GoneEnd DEF Gone
  <2>4. sock' = [sock EXCEPT ![s].st = "closed", ![p].fin = TRUE, ![p].reset = @ \/ sock[s].bytes > 0]
    BY <1>3, <2>1 DEF Closed
  <2>5. (sock[p].reset \/ sock[s].bytes > 0) = FALSE
    BY <1>1, <2>2, <2>3
  <2>6. sock' = [sock EXCEPT ![s].st = "closed", ![p].fin = TRUE, ![p].reset = FALSE]
    BY <1>1, <2>2, <2>4, <2>5
  <2>7. /\ sock'[s] = [sock[s] EXCEPT !.st = "closed"]
        /\ sock'[p] = [sock[p] EXCEPT !.fin = TRUE, !.reset = FALSE]
        /\ \A t \in Ends : t # s /\ t # p => sock'[t] = sock[t]
        /\ DOMAIN sock' = Ends /\ sock' = [t \in Ends |-> sock'[t]]
    BY <1>1, <2>2, <2>6
  <2>8. sock[s] \in SockRecord /\ sock[p] \in SockRecord
    BY <1>1, <2>2
  <2>9. /\ sock'[s] \in SockRecord /\ sock'[s].bytes = sock[s].bytes /\ sock'[s].full = sock[s].full
        /\ sock'[s].reset = sock[s].reset /\ sock'[s].fin = sock[s].fin /\ sock'[s].st = "closed"
    BY <2>7, <2>8 DEF SockRecord, SockStates
  <2>10. /\ sock'[p] \in SockRecord /\ sock'[p].bytes = sock[p].bytes /\ sock'[p].full = sock[p].full
         /\ sock'[p].reset = FALSE /\ sock'[p].fin = TRUE /\ sock'[p].st = sock[p].st
    BY <2>7, <2>8 DEF SockRecord
  <2>11. sock' \in [Ends -> SockRecord]
    BY <1>1, <2>7, <2>9, <2>10
  <2>12. ASSUME NEW t \in Ends
         PROVE  /\ sock'[t].bytes = sock[t].bytes /\ sock'[t].full = sock[t].full
                /\ sock'[t].reset = FALSE
                /\ sock'[t].fin = IF t = p THEN TRUE ELSE sock[t].fin
                /\ sock'[t].st = IF t = s THEN "closed" ELSE sock[t].st
    <3>1. CASE t = s
      BY <1>1, <2>2, <2>9, <3>1
    <3>2. CASE t = p
      BY <2>2, <2>10, <3>2
    <3>3. CASE t # s /\ t # p
      <4>1. sock'[t] = sock[t] /\ sock[t].reset = FALSE
        BY <1>1, <2>7, <3>3
      <4> QED
        BY <3>3, <4>1
    <3> QED
      BY <3>1, <3>2, <3>3
  <2> QED
    BY <1>3, <2>1, <2>11, <2>12
<1> QED
  BY <1>2, <1>3

LEMMA DropTaskInv ==
    ASSUME IOInv, NEW c \in Cores, DropTask(c)
    PROVE  IOInv'
<1>1. PICK s : s = Head(myQueue[c])
  OBVIOUS
<1>2. /\ s \in Tasks /\ Core(s) = c /\ QueuePopped(c, s) /\ PlaceDropped(c, s)
      /\ \A t \in Tasks : t # s => /\ task'[t].st = task[t].st /\ task'[t].op = task[t].op
                                   /\ task'[t].bits = task[t].bits /\ task'[t].recvs = task[t].recvs
      /\ \A t \in Tasks : Core(t) # c => task'[t] = task[t]
      /\ task'[s] = [NoTask EXCEPT !.st = "deleted"]
      /\ TaskTypes'
  BY <1>1, DropTaskFacts
<1>3. /\ pc[c] = "drain" /\ task[s].st = "deleting" /\ sock' = Closed(s)
      /\ serverFinished' = (serverFinished \/ task[s].op = "accept")
      /\ UNCHANGED <<pc, batch, coro, main, connected, myIsStopped, finished, backlog, signalled>>
  BY <1>1 DEF DropTask, onServerFinish, threadVars, mainVars
<1>4. /\ task[s].idx \in 1..Len(myTasks[c]) /\ myTasks[c][task[s].idx] = s
      /\ (s = Listener /\ task[s].op = "accept") \/ (s # Listener /\ task[s].op = "none")
      /\ s = Listener => serverFinished = FALSE
  BY <1>2, <1>3, DropTaskExpected
<1>5. failed' = FALSE
  <2>1. Expect(/\ task[s].idx \in 1..Len(myTasks[c]) /\ myTasks[c][task[s].idx] = s
               /\ task[s].op \in {"none", "accept"}
               /\ (task[s].op = "accept" => ~serverFinished))
    BY <1>1 DEF DropTask
  <2> QED
    BY <1>4, <2>1 DEF Expect, IOInv
<1>6. task'[s].st = "deleted" /\ task'[s].op = "none" /\ task'[s].recvs = 0
  BY <1>2 DEF NoTask
<1>7. ready' = [d \in Cores |-> (ready[d] \cup {t \in (IF s \in Ends /\ Registered(Peer(s)) THEN {Peer(s)} ELSE {}) :
                                                  Core(t) = d}) \ {s}]
  BY <1>1 DEF DropTask
<1>8. /\ ready' \in [Cores -> SUBSET Tasks]
      /\ \A d \in Cores : \A t \in ready'[d] :
           t # s /\ (t \in ready[d] \/ (t \in Tasks /\ Core(t) = d /\ Registered(t)))
  BY <1>7, EndFacts DEF IOInv, KernelTypes
<1>9. /\ sock' \in [Ends -> SockRecord]
      /\ \A t \in Ends : /\ sock'[t].bytes = sock[t].bytes /\ sock'[t].full = sock[t].full
                         /\ sock'[t].reset = FALSE
                         /\ sock'[t].fin = IF t = Peer(s) /\ s \in Ends THEN TRUE ELSE sock[t].fin
                         /\ sock'[t].st = IF t = s THEN "closed" ELSE sock[t].st
  BY <1>2, <1>3, DropTaskSock
<1>10. ThreadTypes' /\ KernelTypes'
  BY <1>3, <1>8, <1>9 DEF IOInv, ThreadTypes, KernelTypes
<1>11. ListsSound'
  <2>1. /\ \A d \in Cores : Queued(d)' /\ (mySize[d] >= Len(myQueue[d]))'
        /\ \A t \in Tasks : Listed(t)'
    BY <1>2, QueuesPop DEF IOInv
  <2>2. (\A d \in Cores : Indexed(d)') /\ (\A t \in Tasks : Placed(t)')
    BY <1>2, PlacesDrop DEF IOInv
  <2> QED
    BY <2>1, <2>2 DEF ListsSound
<1>12. \A t \in Tasks : t # s => Does(t)' = Does(t)
  BY <1>2, <1>3, DoesSame
<1>13. UsesSound'
  <2> SUFFICES ASSUME NEW d \in Cores PROVE ReadySound(d)' /\ BatchSound(d)' /\ CoroSound(d)'
    BY DEF UsesSound
  <2>1. CASE d # c
    BY <1>2, <1>3, <1>8, <2>1, UsesOther
  <2>2. CASE d = c
    <3>1. ReadySound(c) /\ ready[c] \subseteq Tasks /\ TaskTypes /\ ListsSound
      BY DEF IOInv, UsesSound, KernelTypes
    <3>2. \A t \in ready'[c] : t \in Tasks /\ t # s /\ Core(t) = c /\ Live(t)
      BY <1>8, <3>1, RegisteredLive DEF ReadySound
    <3>3. ReadySound(c)'
      BY <1>2, <3>2 DEF ReadySound, Live
    <3>4. BatchSound(c)' /\ CoroSound(c)'
      BY <1>3, NoBatch DEF BatchSound, CoroSound
    <3> QED
      BY <2>2, <3>3, <3>4
  <2> QED
    BY <2>1, <2>2
<1>14. Gone(s) /\ Gone(s)'
  BY <1>3, <1>6 DEF Gone
<1>15. \A t \in Ends : Received(t)' = Received(t) /\ Sent(t)' = Sent(t) /\ (Done(t)' <=> Done(t))
  BY <1>2, <1>12, <1>14, EndFacts DEF Received, Sent, Done, Gone
<1>16. FlowSound'
  <2> SUFFICES ASSUME NEW t \in Ends
               PROVE  EndSound(t)' /\ Conserved(t)' /\ SockSound(t)' /\ ConnectionSound(t)'
    BY DEF FlowSound
  <2>1. t \in Tasks /\ Peer(t) \in Ends /\ Peer(t) \in Tasks /\ Peer(Peer(t)) = t /\ Peer(t) # t
    BY EndFacts
  <2>2. EndSound(t) /\ Conserved(t) /\ SockSound(t) /\ ConnectionSound(t)
    BY DEF IOInv, FlowSound
  <2>3. EndSound(t)'
    <3>1. CASE t = s
      <4>1. Does(t)' = "none"
        BY <1>2, <1>3, <1>6, <3>1 DEF Does, Running
      <4> QED
        BY <1>6, <3>1, <4>1, IOCoroAssumption DEF EndSound, Gone
    <3>2. CASE t # s
      BY <1>2, <1>12, <2>1, <2>2, <3>2, KeptFacts DEF Kept
    <3> QED
      BY <3>1, <3>2
  <2>4. Conserved(t)'
    BY <1>9, <1>15, <2>1, <2>2 DEF Conserved
  <2>5. s \in Ends => (t = Peer(s) <=> Peer(t) = s)
    BY <2>1, EndFacts
  <2>6. (Peer(t) = s => t = Peer(s) /\ s \in Ends) /\ (t = Peer(s) /\ s \in Ends => Peer(t) = s)
    BY <2>1, <2>5
  <2>7. SockSound(t)'
    <3>1. (sock'[t].fin = TRUE) <=> task'[Peer(t)].st = "deleted"
      <4>1. CASE Peer(t) = s
        BY <1>6, <1>9, <2>6, <4>1
      <4>2. CASE Peer(t) # s
        BY <1>2, <1>9, <2>1, <2>2, <2>6, <4>2 DEF SockSound
      <4> QED
        BY <4>1, <4>2
    <3>2. sock'[t].st = "closed" <=> task'[t].st = "deleted"
      BY <1>2, <1>6, <1>9, <2>1, <2>2 DEF SockSound
    <3> QED
      BY <1>9, <2>2, <3>1, <3>2 DEF SockSound
  <2>8. ConnectionSound(t)'
    <3>1. \A u \in Tasks : task'[u].st = "none" <=> task[u].st = "none"
      BY <1>2, <1>3, <1>6
    <3>2. s \in Ends => sock[s].st # "none" \/ Core(s) # "cli"
      BY <1>3, <1>2 DEF IOInv, FlowSound, ConnectionSound, ClientSound
    <3>3. \A k : InBacklog(k)' <=> InBacklog(k)
      BY <1>3 DEF InBacklog
    <3>4. CASE Core(t) = "cli"
      <4>1. ClientSound(t)
        BY <2>2, <3>4 DEF ConnectionSound
      <4>2. sock'[t].st \in {"none", "connecting"} => sock[t].st = sock'[t].st /\ Peer(t) # s
        BY <1>3, <1>9, <2>1, <4>1 DEF ClientSound
      <4>3. sock'[t].st \in {"none", "connecting"} =>
              task'[Peer(t)].st = "none" /\ sock'[Peer(t)].st = "none" /\ ~InBacklog(t[2])'
        BY <1>9, <2>1, <3>1, <3>3, <4>1, <4>2 DEF ClientSound
      <4>4. sock'[t].st = "none" <=> task'[t].st = "none"
        BY <1>3, <1>9, <2>1, <3>1, <4>1 DEF ClientSound
      <4>5. ClientSound(t)'
        BY <1>3, <2>1, <3>1, <4>1, <4>3, <4>4 DEF ClientSound
      <4> QED
        BY <3>4, <4>5 DEF ConnectionSound
    <3>5. CASE Core(t) # "cli"
      <4>1. ServerSound(t)
        BY <2>2, <3>5 DEF ConnectionSound
      <4>2. ServerSound(t)'
        BY <1>9, <2>1, <3>1, <3>3, <4>1 DEF ServerSound
      <4> QED
        BY <3>5, <4>2 DEF ConnectionSound
    <3> QED
      BY <3>4, <3>5
  <2> QED
    BY <2>3, <2>4, <2>7, <2>8
<1>17. ListenerSound'
  <2>1. ListenerSound /\ Listener \in Tasks
    BY CoreFacts DEF IOInv
  <2>2. CASE Listener = s
    BY <1>6, <2>1, <2>2 DEF ListenerSound
  <2>3. CASE Listener # s
    <3>1. task'[Listener].st = task[Listener].st /\ task'[Listener].op = task[Listener].op
          /\ Does(Listener)' = Does(Listener)
      BY <1>2, <1>12, <2>1, <2>3
    <3>2. \A t \in Ends : t \in Tasks /\ (task[t].st = "none" => task'[t].st = "none")
      BY <1>2, <1>3, EndFacts
    <3> QED
      BY <2>1, <3>1, <3>2 DEF ListenerSound
  <2> QED
    BY <2>2, <2>3
<1>18. SubsSound'
  <2> SUFFICES ASSUME NEW d \in Cores PROVE EventSubSound(d)'
    BY DEF SubsSound
  <2>1. EventSubSound(d) /\ EventSub(d) \in Tasks
    BY CoreFacts DEF IOInv, SubsSound
  <2>2. CASE d # c
    <3>1. myQueue'[d] = myQueue[d] /\ \A t \in Tasks : Core(t) = d => task'[t] = task[t]
      BY <1>2, <2>2 DEF QueuePopped, IOInv, TaskTypes
    <3> QED
      BY <2>1, <3>1, CoreFacts DEF EventSubSound
  <2>3. CASE d = c
    <3>1. task[EventSub(c)].st # "new"
      BY <1>2, <1>3, <2>1, <2>3 DEF EventSubSound
    <3>2. task'[EventSub(c)].st \notin {"new", "none"} /\ task'[EventSub(c)].op = "none"
      BY <1>2, <1>6, <2>1, <2>3, <3>1 DEF EventSubSound
    <3> QED
      BY <2>3, <3>2 DEF EventSubSound
  <2> QED
    BY <2>2, <2>3
<1>19. BacklogSound'
  BY <1>3 DEF IOInv, BacklogSound
<1>20. FinishedSound'
  BY <1>3, <1>15, FinishedKept DEF IOInv
<1>21. StagesSound'
  <2>1. \A u \in Tasks : Gone(u)' <=> Gone(u)
    BY <1>2, <1>14 DEF Gone
  <2>2. (serverFinished' = TRUE) <=> task'[Listener].st = "deleted"
    BY <1>2, <1>3, <1>4, <1>6, CoreFacts DEF IOInv, StagesSound, ThreadTypes
  <2>3. serverFinished = TRUE => serverFinished' = TRUE
    BY <1>3
  <2> QED
    BY <1>3, <1>15, <2>1, <2>2, <2>3, CoreFacts DEF IOInv, StagesSound
<1>22. ThreadsSound'
  <2>1. \A t \in Tasks : task[t].st = "deleted" => task'[t].st = "deleted"
    BY <1>2, <1>6
  <2> QED
    BY <1>3, <2>1 DEF IOInv, ThreadsSound
<1> QED
  BY <1>2, <1>5, <1>10, <1>11, <1>13, <1>16, <1>17, <1>18, <1>19, <1>20, <1>21, <1>22 DEF IOInv

-----------------------------------------------------------------------------
(* The coroutines.  A step of the coroutine of s, on the core c: s is      *)
(* resumed, goes on or is suspended; no task is added, dropped or queued,  *)
(* no socket is opened or closed.                                          *)
CoroMoves(c, s) ==
    /\ pc[c] \in {"batch", "coro"} /\ pc'[c] \in {"batch", "coro"} /\ pc' = [pc EXCEPT ![c] = pc'[c]]
    /\ (pc[c] = "coro" => coro[c].task = s) /\ (pc'[c] = "coro" => coro'[c].task = s)
    /\ \A d \in Cores : d # c => coro'[d] = coro[d] /\ batch'[d] = batch[d]
    /\ coro' \in [Cores -> [task : Tasks, next : Jobs]] /\ DOMAIN batch' = Cores
    /\ DOMAIN batch'[c] \subseteq DOMAIN batch[c]
    /\ \A t \in DOMAIN batch'[c] : batch'[c][t] = batch[c][t]
    /\ task' \in [Tasks -> TaskRecord] /\ \A t \in Tasks : t # s => task'[t] = task[t]
    /\ task'[s].st = task[s].st /\ task'[s].idx = task[s].idx
    /\ s = EventSub(c) => task'[s].op = "none"
    /\ ready' \in [Cores -> SUBSET Tasks]
    /\ \A d \in Cores : \A t \in ready'[d] :
         t \in ready[d] \/ (t \in Tasks /\ Core(t) = d /\ Registered(t))
    /\ sock' \in [Ends -> SockRecord]
    /\ \A t \in Ends : /\ sock'[t].st = sock[t].st /\ sock'[t].fin = sock[t].fin
                       /\ sock'[t].reset = sock[t].reset
    /\ UNCHANGED <<myTasks, myQueue, mySize, mainVars, serverFinished, backlog, signalled>>
    /\ finished' \in Nat

LEMMA CoroMovesKept ==
    ASSUME IOInv, NEW c \in Cores, NEW s \in Tasks, CoroMoves(c, s)
    PROVE  /\ \A d \in Cores : d # c => pc'[d] = pc[d]
           /\ \A t \in Tasks : t # s => Kept(t)
           /\ \A t \in Tasks : task'[t].st = task[t].st
<1>1. \A d \in Cores : d # c => pc'[d] = pc[d]
  BY DEF CoroMoves, IOInv, ThreadTypes
<1>2. ASSUME NEW t \in Tasks, t # s PROVE Kept(t)
  <2>1. task'[t] = task[t]
    BY <1>2 DEF CoroMoves
  <2>2. /\ pc[c] = "coro" => coro[c].task = s
        /\ pc'[c] = "coro" => coro'[c].task = s
        /\ \A d \in Cores : d # c => pc'[d] = pc[d] /\ coro'[d] = coro[d]
    BY <1>1 DEF CoroMoves
  <2>3. Does(t)' = Does(t)
    BY <1>2, <2>1, <2>2, DoesOther
  <2> QED
    BY <2>1, <2>3 DEF Kept
<1>3. \A t \in Tasks : task'[t].st = task[t].st
  BY DEF CoroMoves
<1> QED
  BY <1>1, <1>2, <1>3

LEMMA CoroMovesUses ==
    ASSUME IOInv, NEW c \in Cores, NEW s \in Tasks, CoroMoves(c, s), Core(s) = c, CoroSound(c)'
    PROVE  UsesSound'
<1>1. \A d \in Cores : d # c => pc'[d] = pc[d]
  BY CoroMovesKept
<1> SUFFICES ASSUME NEW d \in Cores PROVE ReadySound(d)' /\ BatchSound(d)' /\ CoroSound(d)'
  BY DEF UsesSound
<1>2. CASE d # c
  BY <1>1, <1>2, UsesOther DEF CoroMoves
<1>3. CASE d = c
  <2>1. ReadySound(c) /\ BatchSound(c) /\ TaskTypes /\ ListsSound /\ ready[c] \subseteq Tasks
    BY DEF IOInv, UsesSound, KernelTypes
  <2>2. \A t \in Tasks : Live(t)' <=> Live(t)
    BY CoroMovesKept DEF Live
  <2>3. ReadySound(c)'
    BY <2>1, <2>2, ReadyGrows DEF CoroMoves
  <2>4. BatchSound(c)'
    BY <2>1, <2>2 DEF CoroMoves, BatchSound
  <2> QED
    BY <1>3, <2>3, <2>4
<1> QED
  BY <1>2, <1>3

LEMMA CoroMovesFlow ==
    ASSUME IOInv, NEW c \in Cores, NEW s \in Tasks, CoroMoves(c, s),
           s \in Ends => EndSound(s)',
           \A t \in Ends : Conserved(t)' /\ sock'[t].bytes <= Cap
    PROVE  FlowSound'
<1> SUFFICES ASSUME NEW t \in Ends
             PROVE  EndSound(t)' /\ Conserved(t)' /\ SockSound(t)' /\ ConnectionSound(t)'
  BY DEF FlowSound
<1>1. t \in Tasks /\ Peer(t) \in Ends /\ Peer(t) \in Tasks
  BY EndFacts
<1>2. EndSound(t) /\ SockSound(t) /\ ConnectionSound(t)
  BY DEF IOInv, FlowSound
<1>3. EndSound(t)'
  BY <1>1, <1>2, CoroMovesKept, KeptFacts
<1>4. /\ \A u \in Tasks : task'[u].st = task[u].st
      /\ \A u \in Ends : /\ sock'[u].st = sock[u].st /\ sock'[u].fin = sock[u].fin
                         /\ sock'[u].reset = sock[u].reset
      /\ UNCHANGED <<backlog, connected>>
  BY CoroMovesKept DEF CoroMoves, mainVars
<1>5. SockSound(t)'
  BY <1>1, <1>2, <1>4 DEF SockSound
<1>6. ConnectionSound(t)'
  BY <1>1, <1>2, <1>4 DEF ConnectionSound, ClientSound, ServerSound, InBacklog
<1> QED
  BY <1>3, <1>5, <1>6

LEMMA CoroMovesInv ==
    ASSUME IOInv, NEW c \in Cores, NEW s \in Tasks, CoroMoves(c, s), Core(s) = c, CoroSound(c)',
           s \in Ends => EndSound(s)' /\ (Done(s) => Done(s)'),
           s = Listener => Live(s) /\ Does(s)' = "accept",
           \A t \in Ends : Conserved(t)' /\ sock'[t].bytes <= Cap,
           FinishedSound', failed' = FALSE
    PROVE  IOInv'
<1>1. /\ \A d \in Cores : d # c => pc'[d] = pc[d]
      /\ \A t \in Tasks : t # s => Kept(t)
      /\ \A t \in Tasks : task'[t].st = task[t].st
  BY CoroMovesKept
<1>2. UNCHANGED <<myTasks, myQueue, mySize, main, connected, myIsStopped, serverFinished, backlog, signalled>>
  BY DEF CoroMoves, mainVars
<1>3. TaskTypes'
  BY <1>2 DEF IOInv, TaskTypes, CoroMoves
<1>4. ThreadsSound' /\ pc' \in [Cores -> Points]
  <2>1. PICK p : p = pc'[c]
    OBVIOUS
  <2>2. p \in Points
    BY <2>1 DEF CoroMoves, Points
  <2>3. ThreadGoesOn(c, p)
    BY <2>1 DEF CoroMoves, ThreadGoesOn, mainVars
  <2> QED
    BY <1>1, <2>2, <2>3, ThreadsGoOn DEF IOInv
<1>5. ThreadTypes' /\ KernelTypes'
  BY <1>2, <1>4 DEF IOInv, ThreadTypes, KernelTypes, CoroMoves
<1>6. ListsSound'
  <2>1. \A t \in Tasks : task'[t].st = task[t].st /\ task'[t].idx = task[t].idx
    BY DEF CoroMoves
  <2> QED
    BY <1>2, <2>1, SizesFit, ListsFrame DEF IOInv
<1>7. UsesSound' /\ FlowSound'
  BY CoroMovesUses, CoroMovesFlow
<1>8. ListenerSound'
  <2>1. ListenerSound /\ Listener \in Tasks /\ \A t \in Ends : task'[t].st = task[t].st
    BY <1>1, CoreFacts, EndFacts DEF IOInv
  <2>2. CASE s = Listener
    BY <1>1, <2>1, <2>2 DEF ListenerSound, Live
  <2>3. CASE s # Listener
    BY <1>1, <2>1, <2>3 DEF ListenerSound, Kept
  <2> QED
    BY <2>2, <2>3
<1>9. SubsSound'
  <2> SUFFICES ASSUME NEW d \in Cores PROVE EventSubSound(d)'
    BY DEF SubsSound
  <2>1. EventSubSound(d) /\ EventSub(d) \in Tasks /\ Core(EventSub(d)) = d
    BY CoreFacts DEF IOInv, SubsSound
  <2>2. task'[EventSub(d)].op = "none"
    BY <2>1 DEF EventSubSound, CoroMoves
  <2> QED
    BY <1>1, <1>2, <2>1, <2>2 DEF EventSubSound
<1>10. BacklogSound'
  BY <1>2 DEF IOInv, BacklogSound
<1>11. StagesSound'
  <2>1. \A t \in Ends : Done(t) => Done(t)'
    BY <1>1, EndFacts, KeptFacts
  <2>2. \A t \in Tasks : Gone(t)' <=> Gone(t)
    BY <1>1 DEF Gone
  <2> QED
    BY <1>1, <1>2, <2>1, <2>2, CoreFacts DEF IOInv, StagesSound
<1> QED
  BY <1>3, <1>4, <1>5, <1>6, <1>7, <1>8, <1>9, <1>10, <1>11 DEF IOInv

(* Every byte is where it was.                                             *)
LEMMA ConservedKept ==
    ASSUME IOInv, NEW s, \A t \in Tasks : t # s => Kept(t),
           s \in Ends => Received(s)' = Received(s) /\ Sent(s)' = Sent(s),
           \A t \in Ends : sock'[t].bytes = sock[t].bytes
    PROVE  \A t \in Ends : Conserved(t)' /\ sock'[t].bytes <= Cap
<1> SUFFICES ASSUME NEW t \in Ends PROVE Conserved(t)' /\ sock'[t].bytes <= Cap
  OBVIOUS
<1>1. t \in Tasks /\ Peer(t) \in Ends /\ Peer(t) \in Tasks
  BY EndFacts
<1>2. Received(t)' = Received(t) /\ Sent(Peer(t))' = Sent(Peer(t))
  BY <1>1, KeptFacts
<1>3. Conserved(t) /\ SockSound(t)
  BY DEF IOInv, FlowSound
<1> QED
  BY <1>2, <1>3 DEF Conserved, SockSound

(* Nobody finishes but s.                                                  *)
LEMMA FinishedOthers ==
    ASSUME IOInv, NEW s, \A t \in Tasks : t # s => Kept(t), finished' = finished,
           s \in Ends => (Done(s)' <=> Done(s))
    PROVE  FinishedSound'
<1>1. \A t \in Ends : Done(t)' <=> Done(t)
  BY EndFacts, KeptFacts
<1> QED
  BY <1>1, FinishedKept DEF IOInv

LEMMA EventFacts ==
    ASSUME IOInv, NEW c \in Cores, NEW s \in Tasks, Event(c, s)
    PROVE  /\ Core(s) = c /\ Live(s) /\ CoroMoves(c, s) /\ failed' = FALSE
           /\ UNCHANGED <<sock, finished>>
           /\ task'[s].recvs = task[s].recvs /\ Does(s) = task[s].op
           /\ \/ /\ pc'[c] = "batch" /\ task'[s].op = task[s].op
              \/ /\ pc'[c] = "coro" /\ coro'[c] = [task |-> s, next |-> Resumed(task[s].op)]
                 /\ task[s].op # "none" /\ task'[s].op = "none" /\ Bit(task[s].op) \in task'[s].bits
<1>1. PICK mask, op, bits : mask = batch[c][s] /\ op = task[s].op /\ bits = task[s].bits \cup mask
  OBVIOUS
<1>2. /\ pc[c] = "batch" /\ s \in DOMAIN batch[c]
      /\ batch' = [batch EXCEPT ![c] = [t \in DOMAIN batch[c] \ {s} |-> batch[c][t]]]
      /\ Expect(/\ "H" \notin mask
                /\ op # "none" /\ Bit(op) \notin bits => task[s].st # "deleting")
      /\ \/ /\ op # "none" /\ Bit(op) \in bits
            /\ task' = [task EXCEPT ![s].bits = bits, ![s].op = "none"]
            /\ coro' = [coro EXCEPT ![c] = [task |-> s, next |-> Resumed(op)]]
            /\ pc' = [pc EXCEPT ![c] = "coro"]
         \/ /\ ~(op # "none" /\ Bit(op) \in bits)
            /\ task' = [task EXCEPT ![s].bits = bits] /\ UNCHANGED <<coro, pc>>
      /\ UNCHANGED <<myTasks, myQueue, mySize, mainVars, contextVars, kernelVars>>
  BY <1>1 DEF Event, Events, Taken
<1>3. Core(s) = c /\ Live(s) /\ mask \subseteq {"R", "W"} /\ (s = Listener => "R" \in mask)
  BY <1>1, <1>2 DEF IOInv, UsesSound, BatchSound
<1>4. task \in [Tasks -> TaskRecord] /\ task[s] \in TaskRecord
  BY DEF IOInv, TaskTypes
<1>5. bits \subseteq Bits /\ op \in Ops \cup {"none"}
  BY <1>1, <1>3, <1>4 DEF TaskRecord, Bits
<1>6. Does(s) = op
  BY <1>1, <1>2, <1>3 DEF Does, Running
<1>7. failed' = FALSE
  <2>1. op # "none" /\ Bit(op) \notin bits => task[s].st # "deleting"
    <3>1. CASE s \in Ends
      BY <1>1, <3>1 DEF IOInv, FlowSound, EndSound, Gone
    <3>2. CASE s = EventSub(c)
      BY <1>1, <3>2 DEF IOInv, SubsSound, EventSubSound
    <3>3. CASE s = Listener
      <4>1. task[s].st = "deleting" => op = "accept"
        BY <1>6, <3>3 DEF IOInv, ListenerSound
      <4> QED
        BY <1>1, <1>3, <3>3, <4>1 DEF Bit
    <3> QED
      BY <1>3, <3>1, <3>2, <3>3, TaskKinds
  <2> QED
    BY <1>2, <1>3, <2>1 DEF Expect, IOInv
<1>8. /\ DOMAIN batch' = Cores /\ \A d \in Cores : d # c => batch'[d] = batch[d]
      /\ DOMAIN batch'[c] = DOMAIN batch[c] \ {s}
      /\ \A t \in DOMAIN batch'[c] : batch'[c][t] = batch[c][t]
  BY <1>2 DEF IOInv, KernelTypes
<1>9. /\ task' \in [Tasks -> TaskRecord] /\ \A t \in Tasks : t # s => task'[t] = task[t]
      /\ task'[s].st = task[s].st /\ task'[s].idx = task[s].idx /\ task'[s].recvs = task[s].recvs
      /\ task'[s].bits = bits
  <2>1. CASE op # "none" /\ Bit(op) \in bits
    <3>1. /\ task'[s] = [task[s] EXCEPT !.bits = bits, !.op = "none"]
          /\ \A t \in Tasks : t # s => task'[t] = task[t]
      BY <1>2, <1>4, <2>1
    <3>2. task'[s] \in TaskRecord
      BY <1>4, <1>5, <3>1 DEF TaskRecord
    <3> QED
      BY <1>2, <1>4, <2>1, <3>1, <3>2 DEF TaskRecord
  <2>2. CASE ~(op # "none" /\ Bit(op) \in bits)
    <3>1. task'[s] = [task[s] EXCEPT !.bits = bits] /\ \A t \in Tasks : t # s => task'[t] = task[t]
      BY <1>2, <1>4, <2>2
    <3>2. task'[s] \in TaskRecord
      BY <1>4, <1>5, <3>1 DEF TaskRecord
    <3> QED
      BY <1>2, <1>4, <2>2, <3>1, <3>2 DEF TaskRecord
  <2> QED
    BY <2>1, <2>2
<1>10. \/ /\ pc' = pc /\ coro' = coro /\ task'[s].op = op
       \/ /\ pc' = [pc EXCEPT ![c] = "coro"] /\ coro' = [coro EXCEPT ![c] = [task |-> s, next |-> Resumed(op)]]
          /\ op # "none" /\ task'[s].op = "none" /\ Bit(op) \in bits
  <2>1. CASE op # "none" /\ Bit(op) \in bits
    BY <1>2, <1>4, <2>1 DEF TaskRecord
  <2>2. CASE ~(op # "none" /\ Bit(op) \in bits)
    BY <1>1, <1>2, <1>4, <2>2 DEF TaskRecord
  <2> QED
    BY <2>1, <2>2
<1>11. Resumed(op) \in Jobs
  BY <1>5 DEF Resumed, Jobs, Ops
<1>12. pc \in [Cores -> Points] /\ coro \in [Cores -> [task : Tasks, next : Jobs]]
  BY DEF IOInv, ThreadTypes
<1>13. \/ /\ pc'[c] = "batch" /\ pc' = pc /\ coro' = coro /\ task'[s].op = op
       \/ /\ pc'[c] = "coro" /\ pc' = [pc EXCEPT ![c] = pc'[c]]
          /\ coro'[c] = [task |-> s, next |-> Resumed(op)]
          /\ \A d \in Cores : d # c => coro'[d] = coro[d]
          /\ coro' \in [Cores -> [task : Tasks, next : Jobs]]
          /\ op # "none" /\ task'[s].op = "none" /\ Bit(op) \in bits
  BY <1>2, <1>10, <1>11, <1>12
<1>14. s = EventSub(c) => op = "none"
  BY <1>1 DEF IOInv, SubsSound, EventSubSound
<1>15. UNCHANGED <<myTasks, myQueue, mySize, mainVars, finished, serverFinished, sock, backlog, signalled, ready>>
  BY <1>2 DEF contextVars, kernelVars
<1>16. pc[c] = "batch" /\ pc'[c] \in {"batch", "coro"} /\ pc' = [pc EXCEPT ![c] = pc'[c]]
       /\ (pc'[c] = "coro" => coro'[c].task = s) /\ (\A d \in Cores : d # c => coro'[d] = coro[d])
       /\ coro' \in [Cores -> [task : Tasks, next : Jobs]]
  BY <1>2, <1>12, <1>13
<1>17. CoroMoves(c, s)
  BY <1>8, <1>9, <1>13, <1>14, <1>15, <1>16 DEF CoroMoves, IOInv, KernelTypes, ThreadTypes
<1> QED
  BY <1>1, <1>3, <1>6, <1>7, <1>9, <1>13, <1>15, <1>17

LEMMA EventInv ==
    ASSUME IOInv, NEW c \in Cores, NEW s \in Tasks, Event(c, s)
    PROVE  IOInv'
<1>1. /\ Core(s) = c /\ Live(s) /\ CoroMoves(c, s) /\ failed' = FALSE
      /\ UNCHANGED <<sock, finished>>
      /\ task'[s].recvs = task[s].recvs /\ Does(s) = task[s].op
      /\ \/ /\ pc'[c] = "batch" /\ task'[s].op = task[s].op
         \/ /\ pc'[c] = "coro" /\ coro'[c] = [task |-> s, next |-> Resumed(task[s].op)]
            /\ task[s].op # "none" /\ task'[s].op = "none" /\ Bit(task[s].op) \in task'[s].bits
  BY EventFacts
<1>2. /\ \A t \in Tasks : t # s => Kept(t)
      /\ \A t \in Tasks : task'[t].st = task[t].st
  BY <1>1, CoroMovesKept
<1>3. PICK op : op = task[s].op
  OBVIOUS
<1>4. CASE pc'[c] = "batch"
  <2>1. Kept(s)
    <3>1. Does(s)' = task'[s].op
      BY <1>1, <1>4 DEF Does, Running
    <3> QED
      BY <1>1, <1>2, <1>4, <3>1 DEF Kept
  <2>2. CoroSound(c)'
    BY <1>4 DEF CoroSound
  <2>3. s \in Ends => /\ EndSound(s)' /\ Received(s)' = Received(s) /\ Sent(s)' = Sent(s)
                      /\ (Done(s)' <=> Done(s))
    BY <2>1, KeptFacts DEF IOInv, FlowSound
  <2>4. s = Listener => Live(s) /\ Does(s)' = "accept"
    BY <1>1, <2>1 DEF Kept, IOInv, ListenerSound, Live
  <2>5. FinishedSound'
    BY <1>1, <1>2, <2>3, FinishedOthers
  <2>6. \A t \in Ends : Conserved(t)' /\ sock'[t].bytes <= Cap
    BY <1>1, <1>2, <2>3, ConservedKept
  <2> QED
    BY <1>1, <2>2, <2>3, <2>4, <2>5, <2>6, CoroMovesInv
<1>5. CASE pc'[c] = "coro"
  <2>1. /\ coro'[c].task = s /\ coro'[c].next = Resumed(op) /\ op # "none" /\ task'[s].op = "none"
        /\ Bit(op) \in task'[s].bits
    BY <1>1, <1>3, <1>5
  <2>2. Does(s)' = Resumed(op)
    BY <1>1, <1>5, <2>1 DEF Does, Running
  <2>3. CASE s \in Ends
    <3>1. EndSound(s) /\ op \in Ops \cup {"none"} /\ task[s].recvs \in Nat
      BY <1>3, <2>3 DEF IOInv, FlowSound, TaskTypes, TaskRecord
    <3>2. task[s].st = "working" /\ op \in {"connect", "send", "recv"}
      BY <1>1, <1>3, <2>1, <3>1 DEF EndSound, Live, Gone, Ops
    <3>3. Resumed(op) \in {"send", "recv"} /\ (Resumed(op) = "recv" <=> op = "recv")
      BY <3>2 DEF Resumed
    <3>4. CoroSound(c)'
      BY <1>1, <1>2, <1>5, <2>1, <2>3, <3>2, <3>3 DEF CoroSound
    <3>5. task'[s].st = "working" /\ ~Gone(s) /\ ~Gone(s)'
      BY <1>2, <3>2 DEF Gone
    <3>6. EndSound(s)'
      BY <1>1, <1>3, <2>1, <2>2, <3>1, <3>2, <3>3, <3>5 DEF EndSound
    <3>7. Received(s)' = Received(s) /\ Sent(s)' = Sent(s)
      BY <1>1, <1>3, <2>2, <3>3, <3>5 DEF Received, Sent
    <3>8. ~Done(s) /\ ~Done(s)'
      BY <1>1, <1>3, <2>2, <3>2, <3>3, <3>5 DEF Done
    <3>9. FinishedSound'
      BY <1>1, <1>2, <3>8, FinishedOthers
    <3>10. \A t \in Ends : Conserved(t)' /\ sock'[t].bytes <= Cap
      BY <1>1, <1>2, <3>7, ConservedKept
    <3>11. s # Listener
      BY <2>3, CoreFacts
    <3> QED
      BY <1>1, <3>4, <3>6, <3>8, <3>9, <3>10, <3>11, CoroMovesInv
  <2>4. CASE s = Listener
    <3>1. op = "accept"
      BY <1>1, <1>3, <2>4 DEF IOInv, ListenerSound, Live
    <3>2. Does(s)' = "accept"
      BY <2>2, <3>1 DEF Resumed
    <3>3. coro'[c].next = "accept" /\ "R" \in task'[s].bits /\ Live(s)'
      BY <1>1, <1>2, <2>1, <3>1 DEF Resumed, Bit, Live
    <3>4. CoroSound(c)'
      BY <1>1, <2>1, <2>4, <3>3 DEF CoroSound
    <3>5. s \notin Ends
      BY <2>4, CoreFacts
    <3>6. FinishedSound'
      BY <1>1, <1>2, <3>5, FinishedOthers
    <3>7. \A t \in Ends : Conserved(t)' /\ sock'[t].bytes <= Cap
      BY <1>1, <1>2, <3>5, ConservedKept
    <3> QED
      BY <1>1, <3>2, <3>4, <3>5, <3>6, <3>7, CoroMovesInv
  <2>5. CASE s = EventSub(c)
    BY <1>3, <2>1, <2>5 DEF IOInv, SubsSound, EventSubSound
  <2> QED
    BY <1>1, <2>3, <2>4, <2>5, TaskKinds
<1> QED
  BY <1>1, <1>4, <1>5

(* The coroutine that runs.                                                *)
LEMMA RunsFacts ==
    ASSUME IOInv, NEW c \in Cores, NEW s \in Ends, NEW next, Runs(c, s, next)
    PROVE  /\ s \in Tasks /\ s # Listener /\ s # EventSub(c) /\ Core(s) = c
           /\ pc[c] = "coro" /\ coro[c].task = s /\ coro[c].next = next
           /\ task[s].st = "working" /\ task[s].op = "none" /\ Does(s) = next /\ EndSound(s)
           /\ ~Gone(s) /\ task[s] \in TaskRecord
<1>1. pc[c] = "coro" /\ coro[c].task = s /\ coro[c].next = next
  BY DEF Runs
<1>2. s \in Tasks /\ s # Listener /\ s # EventSub(c)
  BY EndFacts, CoreFacts
<1>3. Core(s) = c /\ task[s].st = "working" /\ task[s].op = "none"
  BY <1>1, <1>2 DEF IOInv, UsesSound, CoroSound
<1>4. Does(s) = next
  BY <1>1, <1>3 DEF Does, Running
<1>5. EndSound(s) /\ task[s] \in TaskRecord
  BY <1>2 DEF IOInv, FlowSound, TaskTypes
<1> QED
  BY <1>1, <1>2, <1>3, <1>4, <1>5 DEF Gone

(* The coroutine of s waits for op.                                        *)
LEMMA SuspendMoves ==
    ASSUME IOInv, NEW c \in Cores, NEW s \in Tasks, Core(s) = c, pc[c] = "coro", coro[c].task = s,
           s # EventSub(c), task[s].op = "none", NEW op \in Ops, Suspend(c, s, op),
           UNCHANGED <<myTasks, myQueue, mySize, mainVars, contextVars, backlog, signalled, ready>>,
           sock' \in [Ends -> SockRecord],
           \A t \in Ends : /\ sock'[t].st = sock[t].st /\ sock'[t].fin = sock[t].fin
                           /\ sock'[t].reset = sock[t].reset
    PROVE  /\ CoroMoves(c, s) /\ failed' = FALSE /\ pc'[c] = "batch"
           /\ task'[s].op = op /\ task'[s].recvs = task[s].recvs /\ Does(s)' = op
<1>1. /\ Expect(task[s].op = "none")
      /\ task' = [task EXCEPT ![s].op = op, ![s].bits = @ \ {Bit(op)}]
      /\ pc' = [pc EXCEPT ![c] = "batch"] /\ coro' = [coro EXCEPT ![c] = NoCoro] /\ batch' = batch
  BY DEF Suspend, BackToRoll
<1>2. task \in [Tasks -> TaskRecord] /\ task[s] \in TaskRecord
  BY DEF IOInv, TaskTypes
<1>3. /\ task'[s] = [task[s] EXCEPT !.op = op, !.bits = @ \ {Bit(op)}]
      /\ \A t \in Tasks : t # s => task'[t] = task[t]
      /\ task' = [t \in Tasks |-> task'[t]]
  BY <1>1, <1>2
<1>4. /\ task'[s].op = op /\ task'[s].recvs = task[s].recvs /\ task'[s].st = task[s].st
      /\ task'[s].idx = task[s].idx /\ task'[s] \in TaskRecord
  BY <1>2, <1>3 DEF TaskRecord
<1>5. task' \in [Tasks -> TaskRecord]
  BY <1>2, <1>3, <1>4
<1>6. NoCoro \in [task : Tasks, next : Jobs]
  BY CoreFacts DEF NoCoro, Jobs
<1>7. /\ pc'[c] = "batch" /\ coro' \in [Cores -> [task : Tasks, next : Jobs]]
      /\ \A d \in Cores : d # c => coro'[d] = coro[d]
  BY <1>1, <1>6 DEF IOInv, ThreadTypes
<1>8. CoroMoves(c, s)
  BY <1>1, <1>3, <1>4, <1>5, <1>7 DEF CoroMoves, IOInv, KernelTypes, ThreadTypes, contextVars
<1>9. Does(s)' = op
  BY <1>4, <1>7 DEF Does, Running
<1>10. failed' = FALSE
  BY <1>1 DEF Expect, IOInv
<1> QED
  BY <1>4, <1>7, <1>8, <1>9, <1>10

LEMMA SuspendInv ==
    ASSUME IOInv, NEW c \in Cores, NEW s \in Ends, NEW op \in {"send", "recv"},
           Runs(c, s, op), Suspend(c, s, op),
           UNCHANGED <<myTasks, myQueue, mySize, mainVars, contextVars, backlog, signalled, ready>>,
           sock' \in [Ends -> SockRecord],
           \A t \in Ends : /\ sock'[t].st = sock[t].st /\ sock'[t].fin = sock[t].fin
                           /\ sock'[t].reset = sock[t].reset /\ sock'[t].bytes = sock[t].bytes
    PROVE  IOInv'
<1>1. /\ s \in Tasks /\ s # Listener /\ s # EventSub(c) /\ Core(s) = c
      /\ pc[c] = "coro" /\ coro[c].task = s
      /\ task[s].st = "working" /\ task[s].op = "none" /\ Does(s) = op /\ EndSound(s)
      /\ ~Gone(s)
  BY RunsFacts
<1>2. /\ CoroMoves(c, s) /\ failed' = FALSE /\ pc'[c] = "batch"
      /\ task'[s].op = op /\ task'[s].recvs = task[s].recvs /\ Does(s)' = op
  BY <1>1, SuspendMoves DEF Ops
<1>3. /\ \A t \in Tasks : t # s => Kept(t)
      /\ \A t \in Tasks : task'[t].st = task[t].st
  BY <1>1, <1>2, CoroMovesKept
<1>4. task'[s].st = "working" /\ ~Gone(s)'
  BY <1>1, <1>3 DEF Gone
<1>5. EndSound(s)'
  BY <1>1, <1>2, <1>4 DEF EndSound
<1>6. Received(s)' = Received(s) /\ Sent(s)' = Sent(s)
  BY <1>1, <1>2, <1>4 DEF Received, Sent
<1>7. Done(s)' <=> Done(s)
  BY <1>1, <1>2, <1>4 DEF Done
<1>8. CoroSound(c)'
  BY <1>2 DEF CoroSound
<1>9. finished' = finished
  BY DEF contextVars
<1>10. FinishedSound'
  BY <1>3, <1>7, <1>9, FinishedOthers
<1>11. \A t \in Ends : Conserved(t)' /\ sock'[t].bytes <= Cap
  BY <1>3, <1>6, ConservedKept
<1> QED
  BY <1>1, <1>2, <1>5, <1>7, <1>8, <1>10, <1>11, CoroMovesInv

(* The coroutine of s goes on with next.                                   *)
LEMMA ThenMoves ==
    ASSUME IOInv, NEW c \in Cores, NEW s \in Ends, NEW now, Runs(c, s, now),
           NEW next \in {"send", "recv", "finish", "delete"}, Then(c, next),
           task' \in [Tasks -> TaskRecord], \A t \in Tasks : t # s => task'[t] = task[t],
           task'[s].st = task[s].st, task'[s].idx = task[s].idx, task'[s].op = task[s].op,
           UNCHANGED <<myTasks, myQueue, mySize, mainVars, serverFinished, backlog, signalled>>,
           finished' \in Nat,
           ready' \in [Cores -> SUBSET Tasks],
           \A d \in Cores : \A t \in ready'[d] :
             t \in ready[d] \/ (t \in Tasks /\ Core(t) = d /\ Registered(t)),
           sock' \in [Ends -> SockRecord],
           \A t \in Ends : /\ sock'[t].st = sock[t].st /\ sock'[t].fin = sock[t].fin
                           /\ sock'[t].reset = sock[t].reset
    PROVE  CoroMoves(c, s) /\ CoroSound(c)' /\ Does(s)' = next
<1>1. /\ s \in Tasks /\ s # Listener /\ s # EventSub(c) /\ Core(s) = c
      /\ pc[c] = "coro" /\ coro[c].task = s
      /\ task[s].st = "working" /\ task[s].op = "none"
  BY RunsFacts
<1>2. coro' = [coro EXCEPT ![c].next = next] /\ pc' = pc /\ batch' = batch
  BY DEF Then
<1>3. coro \in [Cores -> [task : Tasks, next : Jobs]] /\ next \in Jobs /\ coro[c] \in [task : Tasks, next : Jobs]
  BY DEF IOInv, ThreadTypes, Jobs
<1>4. /\ coro'[c] = [coro[c] EXCEPT !.next = next] /\ \A d \in Cores : d # c => coro'[d] = coro[d]
      /\ coro' = [d \in Cores |-> coro'[d]]
  BY <1>2, <1>3
<1>5. coro'[c].task = s /\ coro'[c].next = next /\ coro'[c] \in [task : Tasks, next : Jobs]
  BY <1>1, <1>3, <1>4
<1>6. coro' \in [Cores -> [task : Tasks, next : Jobs]]
  BY <1>3, <1>4, <1>5
<1>7. pc' = [pc EXCEPT ![c] = pc'[c]] /\ pc'[c] = "coro" /\ DOMAIN batch' = Cores
  BY <1>1, <1>2 DEF IOInv, ThreadTypes, KernelTypes
<1>8. CoroMoves(c, s)
  BY <1>1, <1>2, <1>4, <1>5, <1>6, <1>7 DEF CoroMoves
<1>9. CoroSound(c)'
  BY <1>1, <1>5 DEF CoroSound
<1>10. Does(s)' = next
  BY <1>1, <1>5, <1>7 DEF Does, Running
<1> QED
  BY <1>8, <1>9, <1>10

(* A byte is sent: the other end is open, it still has to receive it.      *)
LEMMA SendExpected ==
    ASSUME IOInv, NEW c \in Cores, NEW s \in Ends, Runs(c, s, "send")
    PROVE  sock[Peer(s)].st # "closed" /\ Sent(s) < Requests /\ Sent(s) = task[s].recvs
<1>1. Does(s) = "send" /\ ~Gone(s) /\ EndSound(s)
  BY RunsFacts
<1>2. Sent(s) < Requests /\ Sent(s) = task[s].recvs
  BY <1>1 DEF Sent, EndSound
<1>3. Peer(s) \in Ends /\ Peer(Peer(s)) = s
  BY EndFacts
<1>4. ~Gone(Peer(s))
  <2>1. Gone(Peer(s)) => Sent(s) = Requests
    BY <1>3, GoneEnd
  <2> QED
    BY <1>2, <2>1, IOCoroAssumption
<1>5. SockSound(Peer(s))
  BY <1>3 DEF IOInv, FlowSound
<1> QED
  BY <1>2, <1>4, <1>5 DEF SockSound, Gone

LEMMA SendInv ==
    ASSUME IOInv, NEW c \in Cores, NEW s \in Ends, Send(c, s)
    PROVE  IOInv'
<1>1. /\ Runs(c, s, "send")
      /\ UNCHANGED <<myTasks, myQueue, mySize, mainVars, contextVars, backlog, signalled>>
  BY DEF Send
<1>2. sock \in [Ends -> SockRecord] /\ Peer(s) \in Ends /\ Peer(s) # s /\ Peer(Peer(s)) = s
  BY EndFacts DEF IOInv, KernelTypes
<1>3. CASE "W" \notin task[s].bits \/ ~Writable(s)
  <2>1. /\ Suspend(c, s, "send") /\ sock' = [sock EXCEPT ![s].full = "W" \in task[s].bits] /\ ready' = ready
    BY <1>3 DEF Send
  <2>2. PICK b \in BOOLEAN : b = ("W" \in task[s].bits)
    <3>1. CASE "W" \in task[s].bits
      <4>1. TRUE = ("W" \in task[s].bits)
        BY <3>1
      <4> QED
        BY <4>1
    <3>2. CASE "W" \notin task[s].bits
      <4>1. FALSE = ("W" \in task[s].bits)
        BY <3>2
      <4> QED
        BY <4>1
    <3> QED
      BY <3>1, <3>2
  <2>3. sock' = [sock EXCEPT ![s].full = b] /\ sock[s] \in SockRecord
    BY <1>2, <2>1, <2>2
  <2>4. sock'[s] = [sock[s] EXCEPT !.full = b] /\ \A t \in Ends : t # s => sock'[t] = sock[t]
    BY <1>2, <2>3
  <2>5. /\ sock'[s] \in SockRecord /\ sock'[s].st = sock[s].st /\ sock'[s].fin = sock[s].fin
        /\ sock'[s].reset = sock[s].reset /\ sock'[s].bytes = sock[s].bytes
    BY <2>3, <2>4 DEF SockRecord
  <2>6. sock' \in [Ends -> SockRecord]
    BY <1>2, <2>3, <2>4, <2>5
  <2>7. \A t \in Ends : /\ sock'[t].st = sock[t].st /\ sock'[t].fin = sock[t].fin
                        /\ sock'[t].reset = sock[t].reset /\ sock'[t].bytes = sock[t].bytes
    BY <2>4, <2>5
  <2> QED
    BY <1>1, <2>1, <2>6, <2>7, SuspendInv
<1>4. CASE "W" \in task[s].bits /\ Writable(s)
  <2>1. sock[Peer(s)].st # "closed" /\ Sent(s) < Requests /\ Sent(s) = task[s].recvs
    BY <1>1, SendExpected
  <2>2. /\ Then(c, "recv") /\ UNCHANGED <<task, failed>>
        /\ sock' = [sock EXCEPT ![Peer(s)].bytes = @ + 1] /\ WakeUp({Peer(s)})
    BY <1>4, <2>1 DEF Send
  <2>3. PICK p : p = Peer(s)
    OBVIOUS
  <2>4. p \in Ends /\ p # s /\ sock[p] \in SockRecord /\ sock[p].bytes \in Nat /\ sock[p].bytes < Cap
    BY <1>2, <1>4, <2>3 DEF Writable, SockRecord
  <2>5. sock'[p] = [sock[p] EXCEPT !.bytes = @ + 1] /\ \A t \in Ends : t # p => sock'[t] = sock[t]
    BY <1>2, <2>2, <2>3, <2>4
  <2>6. /\ sock'[p] \in SockRecord /\ sock'[p].st = sock[p].st /\ sock'[p].fin = sock[p].fin
        /\ sock'[p].reset = sock[p].reset /\ sock'[p].bytes = sock[p].bytes + 1
    BY <2>4, <2>5 DEF SockRecord
  <2>7. sock' \in [Ends -> SockRecord]
    BY <1>2, <2>2, <2>5, <2>6
  <2>8. \A t \in Ends : /\ sock'[t].st = sock[t].st /\ sock'[t].fin = sock[t].fin
                        /\ sock'[t].reset = sock[t].reset
    BY <2>5, <2>6
  <2>9. /\ ready' \in [Cores -> SUBSET Tasks]
        /\ \A d \in Cores : \A t \in ready'[d] :
             t \in ready[d] \/ (t \in Tasks /\ Core(t) = d /\ Registered(t))
    BY <1>2, <2>2, WakeUpFacts, EndFacts DEF IOInv
  <2>10. /\ task' \in [Tasks -> TaskRecord] /\ \A t \in Tasks : t # s => task'[t] = task[t]
         /\ task'[s].st = task[s].st /\ task'[s].idx = task[s].idx /\ task'[s].op = task[s].op
    BY <2>2 DEF IOInv, TaskTypes
  <2>11. finished' = finished /\ finished' \in Nat /\ serverFinished' = serverFinished
    BY <1>1 DEF contextVars, IOInv, ThreadTypes
  <2>12. CoroMoves(c, s) /\ CoroSound(c)' /\ Does(s)' = "recv"
    BY <1>1, <2>2, <2>7, <2>8, <2>9, <2>10, <2>11, ThenMoves
  <2>13. /\ s \in Tasks /\ s # Listener /\ Core(s) = c /\ task[s].st = "working" /\ EndSound(s)
         /\ Does(s) = "send" /\ ~Gone(s) /\ task[s].op = "none"
    BY <1>1, RunsFacts
  <2>14. \A t \in Tasks : t # s => Kept(t)
    BY <2>12, <2>13, CoroMovesKept
  <2>15. ~Gone(s)' /\ task'[s] = task[s]
    BY <2>2, <2>13 DEF Gone
  <2>16. EndSound(s)'
    BY <2>12, <2>13, <2>15 DEF EndSound
  <2>17. Received(s)' = Received(s) /\ Sent(s)' = Sent(s) + 1
    BY <2>1, <2>12, <2>13, <2>15 DEF Received, Sent
  <2>18. ~Done(s) /\ ~Done(s)'
    BY <2>12, <2>13, <2>15 DEF Done
  <2>19. FinishedSound'
    BY <2>11, <2>14, <2>18, FinishedOthers
  <2>20. ASSUME NEW t \in Ends PROVE Conserved(t)' /\ sock'[t].bytes <= Cap
    <3>1. t \in Tasks /\ Peer(t) \in Ends /\ Peer(t) \in Tasks /\ Peer(Peer(t)) = t /\ Peer(t) # t
      BY EndFacts
    <3>2. Conserved(t) /\ sock[t].bytes \in 0..Cap /\ Received(t) \in 0..Requests
      BY Counted DEF IOInv, FlowSound
    <3>3. CASE t = p
      <4>1. Received(p)' = Received(p) /\ Peer(p) = s
        BY <1>2, <2>3, <2>4, <2>14, <3>1, <3>3, KeptFacts
      <4>2. Received(p) + sock[p].bytes = Sent(s)
        BY <3>2, <3>3, <4>1 DEF Conserved
      <4>3. Received(p)' + sock'[p].bytes = Sent(s)'
        BY <2>4, <2>6, <2>17, <3>2, <3>3, <4>1, <4>2
      <4> QED
        BY <2>4, <2>6, <3>3, <4>1, <4>3, IOCoroAssumption DEF Conserved
    <3>4. CASE t # p
      <4>1. Peer(t) # s
        BY <2>3, <3>1, <3>4
      <4>2. Received(t)' = Received(t) /\ Sent(Peer(t))' = Sent(Peer(t)) /\ sock'[t] = sock[t]
        BY <2>5, <2>14, <2>17, <3>1, <3>4, <4>1, KeptFacts
      <4> QED
        BY <3>2, <4>2, IOCoroAssumption DEF Conserved
    <3> QED
      BY <3>3, <3>4
  <2>21. failed' = FALSE
    BY <2>2 DEF IOInv
  <2> QED
    BY <2>12, <2>13, <2>16, <2>18, <2>19, <2>20, <2>21, CoroMovesInv
<1> QED
  BY <1>3, <1>4

(* The end of the stream is not read: who has closed has sent everything,  *)
(* and a client that still receives has not got all of it.                 *)
LEMMA RecvExpected ==
    ASSUME IOInv, NEW c \in Cores, NEW s \in Ends, Runs(c, s, "recv"), Readable(s)
    PROVE  sock[s].bytes > 0
<1>1. Does(s) = "recv" /\ ~Gone(s)
  BY RunsFacts
<1>2. /\ Received(s) < Requests /\ Received(s) \in 0..Requests /\ sock[s].bytes \in 0..Cap
      /\ Received(s) + sock[s].bytes = Sent(Peer(s))
  BY <1>1, Counted
<1>3. CASE sock[s].fin = TRUE
  <2>1. Gone(Peer(s))
    BY <1>3 DEF IOInv, FlowSound, SockSound, Gone
  <2>2. Sent(Peer(s)) = Requests
    BY <2>1 DEF Sent
  <2> QED
    BY <1>2, <2>2, IOCoroAssumption
<1>4. CASE sock[s].fin # TRUE
  <2>1. ~sock[s].fin
    BY <1>4 DEF IOInv, KernelTypes, SockRecord
  <2> QED
    BY <2>1 DEF Readable
<1> QED
  BY <1>3, <1>4

LEMMA RecvInv ==
    ASSUME IOInv, NEW c \in Cores, NEW s \in Ends, Recv(c, s)
    PROVE  IOInv'
<1>1. /\ Runs(c, s, "recv")
      /\ UNCHANGED <<myTasks, myQueue, mySize, mainVars, contextVars, backlog, signalled>>
  BY DEF Recv
<1>2. sock \in [Ends -> SockRecord] /\ Peer(s) \in Ends /\ Peer(s) # s /\ Peer(Peer(s)) = s
  BY EndFacts DEF IOInv, KernelTypes
<1>3. CASE "R" \notin task[s].bits \/ ~Readable(s)
  <2>1. Suspend(c, s, "recv") /\ UNCHANGED <<sock, ready>>
    BY <1>3 DEF Recv
  <2> QED
    BY <1>1, <1>2, <2>1, SuspendInv
<1>4. CASE "R" \in task[s].bits /\ Readable(s)
  <2>1. sock[s].bytes > 0
    BY <1>1, <1>4, RecvExpected
  <2>2. PICK p, woken : p = Peer(s) /\ woken = IF sock[Peer(s)].full THEN {Peer(s)} ELSE {}
    OBVIOUS
  <2>3. /\ Then(c, coroRun(s)) /\ task' = [task EXCEPT ![s].recvs = @ + 1] /\ Expect(sock[s].bytes > 0)
        /\ sock' = [sock EXCEPT ![s].bytes = @ - 1, ![p].full = FALSE] /\ WakeUp(woken)
    BY <1>4, <2>2 DEF Recv
  <2>4. failed' = FALSE
    BY <2>1, <2>3 DEF Expect, IOInv
  <2>5. p \in Ends /\ p # s /\ sock[p] \in SockRecord /\ sock[s] \in SockRecord /\ sock[s].bytes \in Nat
    BY <1>2, <2>2 DEF SockRecord
  <2>6. /\ sock'[s] = [sock[s] EXCEPT !.bytes = @ - 1] /\ sock'[p] = [sock[p] EXCEPT !.full = FALSE]
        /\ \A t \in Ends : t # p /\ t # s => sock'[t] = sock[t]
        /\ sock' = [t \in Ends |-> sock'[t]]
    BY <1>2, <2>3, <2>5
  <2>7. /\ sock'[s] \in SockRecord /\ sock'[s].st = sock[s].st /\ sock'[s].fin = sock[s].fin
        /\ sock'[s].reset = sock[s].reset /\ sock'[s].bytes = sock[s].bytes - 1
    BY <2>1, <2>5, <2>6 DEF SockRecord
  <2>8. /\ sock'[p] \in SockRecord /\ sock'[p].st = sock[p].st /\ sock'[p].fin = sock[p].fin
        /\ sock'[p].reset = sock[p].reset /\ sock'[p].bytes = sock[p].bytes
    BY <2>5, <2>6 DEF SockRecord
  <2>9. sock' \in [Ends -> SockRecord]
    BY <1>2, <2>6, <2>7, <2>8
  <2>10. \A t \in Ends : /\ sock'[t].st = sock[t].st /\ sock'[t].fin = sock[t].fin
                         /\ sock'[t].reset = sock[t].reset /\ (t # s => sock'[t].bytes = sock[t].bytes)
    BY <2>6, <2>7, <2>8
  <2>11. /\ ready' \in [Cores -> SUBSET Tasks]
         /\ \A d \in Cores : \A t \in ready'[d] :
              t \in ready[d] \/ (t \in Tasks /\ Core(t) = d /\ Registered(t))
    <3>1. woken \subseteq Tasks /\ KernelTypes
      BY <1>2, <2>2, EndFacts DEF IOInv
    <3> QED
      BY <2>3, <3>1, WakeUpFacts
  <2>12. /\ s \in Tasks /\ s # Listener /\ Core(s) = c /\ task[s].st = "working" /\ EndSound(s)
         /\ Does(s) = "recv" /\ ~Gone(s) /\ task[s].op = "none" /\ task[s] \in TaskRecord
    BY <1>1, RunsFacts
  <2>13. task \in [Tasks -> TaskRecord]
    BY DEF IOInv, TaskTypes
  <2>14. /\ task'[s] = [task[s] EXCEPT !.recvs = @ + 1] /\ \A t \in Tasks : t # s => task'[t] = task[t]
         /\ task' = [t \in Tasks |-> task'[t]]
    BY <2>3, <2>12, <2>13
  <2>15. /\ task'[s] \in TaskRecord /\ task'[s].recvs = task[s].recvs + 1 /\ task[s].recvs \in Nat
         /\ task'[s].st = task[s].st /\ task'[s].idx = task[s].idx /\ task'[s].op = task[s].op
    BY <2>12, <2>14 DEF TaskRecord
  <2>16. task' \in [Tasks -> TaskRecord]
    BY <2>13, <2>14, <2>15
  <2>17. finished' = finished /\ finished' \in Nat /\ serverFinished' = serverFinished
    BY <1>1 DEF contextVars, IOInv, ThreadTypes
  <2>18. PICK next : next = coroRun(s)
    OBVIOUS
  <2>19. /\ next = IF task[s].recvs + 1 < Requests THEN "send" ELSE "finish"
         /\ next \in {"send", "recv", "finish", "delete"}
    BY <2>18 DEF coroRun
  <2>20. CoroMoves(c, s) /\ CoroSound(c)' /\ Does(s)' = next
    <3>1. Then(c, next)
      BY <2>3, <2>18
    <3>2. /\ \A t \in Tasks : t # s => task'[t] = task[t]
          /\ task'[s].st = task[s].st /\ task'[s].idx = task[s].idx /\ task'[s].op = task[s].op
      BY <2>14, <2>15
    <3>3. \A t \in Ends : /\ sock'[t].st = sock[t].st /\ sock'[t].fin = sock[t].fin
                          /\ sock'[t].reset = sock[t].reset
      BY <2>10
    <3>4. next \in {"send", "recv", "finish", "delete"}
      BY <2>19
    <3> QED
      BY <1>1, <2>9, <2>11, <2>16, <2>17, <3>1, <3>2, <3>3, <3>4, ThenMoves
  <2>21. \A t \in Tasks : t # s => Kept(t)
    BY <2>12, <2>20, CoroMovesKept
  <2>22. ~Gone(s)'
    BY <2>12, <2>15 DEF Gone
  <2>23. task[s].recvs < Requests
    BY <2>12 DEF EndSound
  <2>24. EndSound(s)'
    BY <2>12, <2>15, <2>19, <2>20, <2>22, <2>23, IOCoroAssumption DEF EndSound
  <2>25. Received(s)' = Received(s) + 1 /\ Sent(s)' = Sent(s)
    BY <2>12, <2>15, <2>19, <2>20, <2>22 DEF Received, Sent
  <2>26. ~Done(s) /\ ~Done(s)'
    BY <2>12, <2>19, <2>20, <2>22 DEF Done
  <2>27. FinishedSound'
    BY <2>17, <2>21, <2>26, FinishedOthers
  <2>28. ASSUME NEW t \in Ends PROVE Conserved(t)' /\ sock'[t].bytes <= Cap
    <3>1. t \in Tasks /\ Peer(t) \in Ends /\ Peer(t) \in Tasks /\ Peer(t) # t
      BY EndFacts
    <3>2. Conserved(t) /\ sock[t].bytes \in 0..Cap /\ Received(t) \in 0..Requests
      BY Counted DEF IOInv, FlowSound
    <3>3. Sent(Peer(t))' = Sent(Peer(t))
      BY <2>21, <2>25, <3>1, KeptFacts
    <3>4. CASE t = s
      <4>1. Received(s)' + sock'[s].bytes = Sent(Peer(s))'
        BY <2>7, <2>25, <3>2, <3>3, <3>4, IOCoroAssumption DEF Conserved
      <4> QED
        BY <2>1, <2>7, <3>2, <3>4, <4>1, IOCoroAssumption DEF Conserved
    <3>5. CASE t # s
      <4>1. Received(t)' = Received(t) /\ sock'[t].bytes = sock[t].bytes
        BY <2>10, <2>21, <3>1, <3>5, KeptFacts
      <4> QED
        BY <3>2, <3>3, <4>1, IOCoroAssumption DEF Conserved
    <3> QED
      BY <3>4, <3>5
  <2> QED
    BY <2>4, <2>12, <2>20, <2>24, <2>26, <2>27, <2>28, CoroMovesInv
<1> QED
  BY <1>3, <1>4

LEMMA FinishInv ==
    ASSUME IOInv, NEW c \in Cores, NEW s \in Ends, Finish(c, s)
    PROVE  IOInv'
<1>1. /\ Runs(c, s, "finish") /\ finished' = finished + 1 /\ Then(c, "delete")
      /\ UNCHANGED <<task, myTasks, myQueue, mySize, mainVars, serverFinished, sock, backlog, signalled, ready, failed>>
  BY DEF Finish, coreVars, kernelVars
<1>2. /\ s \in Tasks /\ s # Listener /\ Core(s) = c /\ task[s].st = "working" /\ EndSound(s)
      /\ Does(s) = "finish" /\ ~Gone(s) /\ task[s].op = "none"
  BY <1>1, RunsFacts
<1>3. finished \in Nat /\ finished' \in Nat
  BY <1>1 DEF IOInv, ThreadTypes
<1>4. task \in [Tasks -> TaskRecord] /\ sock \in [Ends -> SockRecord] /\ ready \in [Cores -> SUBSET Tasks]
  BY DEF IOInv, TaskTypes, KernelTypes
<1>5. CoroMoves(c, s) /\ CoroSound(c)' /\ Does(s)' = "delete"
  BY <1>1, <1>3, <1>4, ThenMoves
<1>6. \A t \in Tasks : t # s => Kept(t)
  BY <1>2, <1>5, CoroMovesKept
<1>7. ~Gone(s)' /\ task'[s] = task[s]
  BY <1>1, <1>2 DEF Gone
<1>8. EndSound(s)'
  BY <1>2, <1>5, <1>7 DEF EndSound
<1>9. Received(s)' = Received(s) /\ Sent(s)' = Sent(s)
  BY <1>2, <1>5, <1>7 DEF Received, Sent
<1>10. ~Done(s) /\ Done(s)'
  BY <1>2, <1>5, <1>7 DEF Done
<1>11. \A t \in Ends : Conserved(t)' /\ sock'[t].bytes <= Cap
  BY <1>1, <1>6, <1>9, ConservedKept
<1>12. FinishedSound'
  <2>1. \A t \in Ends : t # s => (Done(t)' <=> Done(t))
    BY <1>6, EndFacts, KeptFacts
  <2>2. DoneEnds' = DoneEnds \cup {s} /\ s \notin DoneEnds
    BY <1>10, <2>1 DEF DoneEnds
  <2>3. IsFiniteSet(DoneEnds)
    BY EndsFinite, FS_Subset DEF DoneEnds
  <2>4. Cardinality(DoneEnds \cup {s}) = Cardinality(DoneEnds) + 1
    BY <2>2, <2>3, FS_AddElement
  <2> QED
    BY <1>1, <2>2, <2>4 DEF IOInv, FinishedSound
<1>13. failed' = FALSE
  BY <1>1 DEF IOInv
<1> QED
  BY <1>2, <1>5, <1>8, <1>10, <1>11, <1>12, <1>13, CoroMovesInv

-----------------------------------------------------------------------------
(* Tasks are closed.                                                       *)
LEMMA DoesStill ==
    ASSUME coro' = coro, \A c \in Cores : pc'[c] = "coro" <=> pc[c] = "coro",
           NEW t \in Tasks, task'[t].op = task[t].op
    PROVE  Does(t)' = Does(t)
BY TaskKinds DEF Does, Running

LEMMA UnsubscribeFacts ==
    ASSUME IOInv, NEW s \in Tasks, task[s].st = "working", unsubscribe(s), myTasks' = myTasks
    PROVE  /\ failed' = FALSE /\ TaskTypes' /\ ListsSound'
           /\ \A t \in Tasks : t # s => task'[t] = task[t]
           /\ task'[s].st = "deleting" /\ task'[s].op = task[s].op
           /\ task'[s].bits = task[s].bits /\ task'[s].recvs = task[s].recvs
           /\ myQueue' = [myQueue EXCEPT ![Core(s)] = Append(@, s)]
           /\ ready' \in [Cores -> SUBSET Tasks] /\ signalled' = Cores
           /\ \A d \in Cores : \A t \in ready'[d] :
                t \in ready[d] \/ (t \in Tasks /\ Core(t) = d /\ Registered(t))
<1>1. Core(s) \in Cores
  BY TaskKinds
<1>2. /\ Expect(/\ s \notin Range(myQueue[Core(s)])
                /\ task[s].idx \in DOMAIN myTasks[Core(s)] /\ myTasks[Core(s)][task[s].idx] = s
                /\ task[s].st = "working")
      /\ task' = [task EXCEPT ![s].st = "deleting"]
      /\ myQueue' = [myQueue EXCEPT ![Core(s)] = Append(@, s)]
      /\ mySize' = [mySize EXCEPT ![Core(s)] = @ + 1]
      /\ wakeup(Core(s))
  BY DEF unsubscribe, Doomed
<1>3. TaskTypes /\ ListsSound /\ task \in [Tasks -> TaskRecord] /\ task[s] \in TaskRecord
  BY DEF IOInv, TaskTypes
<1>4. failed' = FALSE
  BY <1>2, <1>3, Unsubscribable DEF Expect, IOInv
<1>5. task'[s] = [task[s] EXCEPT !.st = "deleting"] /\ \A t \in Tasks : t # s => task'[t] = task[t]
  BY <1>2, <1>3
<1>6. /\ task'[s] \in TaskRecord /\ task'[s].st = "deleting" /\ task'[s].op = task[s].op
      /\ task'[s].bits = task[s].bits /\ task'[s].recvs = task[s].recvs /\ task'[s].idx = task[s].idx
  BY <1>3, <1>5 DEF TaskRecord, States
<1>7. task' \in [Tasks -> TaskRecord]
  BY <1>2, <1>3, <1>5, <1>6
<1>8. myQueue' \in [Cores -> Seq(Tasks)] /\ mySize' \in [Cores -> Nat]
  BY <1>1, <1>2, <1>3 DEF TaskTypes
<1>9. TaskTypes'
  BY <1>3, <1>7, <1>8 DEF TaskTypes
<1>10. ListsSound'
  BY <1>2, <1>3, <1>5, <1>6, ListsAppend
<1>11. /\ ready' \in [Cores -> SUBSET Tasks] /\ signalled' = Cores
       /\ \A d \in Cores : \A t \in ready'[d] :
            t \in ready[d] \/ (t \in Tasks /\ Core(t) = d /\ Registered(t))
  BY <1>1, <1>2, wakeupFacts DEF IOInv
<1> QED
  BY <1>2, <1>4, <1>5, <1>6, <1>9, <1>10, <1>11

(* The frame of unsubscribe.                                               *)
Unsubscribes(s) ==
    /\ unsubscribe(s)
    /\ UNCHANGED <<myTasks, connected, finished, serverFinished, sock, backlog, batch>>
    /\ \A t \in Tasks : t # s => Does(t)' = Does(t)
    /\ s \in Ends => Does(s) = "delete" /\ Does(s)' = "none"
    /\ s = Listener => Does(s)' = Does(s)
    /\ \A c \in Cores : pc'[c] \notin {"batch", "coro"} => DOMAIN batch[c] = {}

LEMMA UnsubscribeInv ==
    ASSUME IOInv, NEW s \in Tasks, task[s].st = "working", Unsubscribes(s),
           ThreadTypes', StagesSound', ThreadsSound', \A c \in Cores : CoroSound(c)'
    PROVE  IOInv'
<1>1. /\ unsubscribe(s)
      /\ UNCHANGED <<myTasks, connected, finished, serverFinished, sock, backlog, batch>>
      /\ \A t \in Tasks : t # s => Does(t)' = Does(t)
      /\ s \in Ends => Does(s) = "delete" /\ Does(s)' = "none"
      /\ s = Listener => Does(s)' = Does(s)
      /\ \A c \in Cores : pc'[c] \notin {"batch", "coro"} => DOMAIN batch[c] = {}
  BY DEF Unsubscribes
<1>2. /\ failed' = FALSE /\ TaskTypes' /\ ListsSound'
      /\ \A t \in Tasks : t # s => task'[t] = task[t]
      /\ task'[s].st = "deleting" /\ task'[s].op = task[s].op
      /\ task'[s].bits = task[s].bits /\ task'[s].recvs = task[s].recvs
      /\ myQueue' = [myQueue EXCEPT ![Core(s)] = Append(@, s)]
      /\ ready' \in [Cores -> SUBSET Tasks] /\ signalled' = Cores
      /\ \A d \in Cores : \A t \in ready'[d] :
           t \in ready[d] \/ (t \in Tasks /\ Core(t) = d /\ Registered(t))
  BY <1>1, UnsubscribeFacts
<1>3. KernelTypes'
  BY <1>1, <1>2 DEF IOInv, KernelTypes
<1>4. UsesSound'
  <2> SUFFICES ASSUME NEW d \in Cores PROVE ReadySound(d)' /\ BatchSound(d)'
    BY DEF UsesSound
  <2>1. ReadySound(d) /\ BatchSound(d) /\ TaskTypes /\ ListsSound /\ ready[d] \subseteq Tasks
    BY DEF IOInv, UsesSound, KernelTypes
  <2>2. \A t \in Tasks : Live(t) => Live(t)'
    BY <1>2 DEF Live
  <2>3. ReadySound(d)'
    BY <1>2, <2>1, <2>2, ReadyGrows
  <2>4. BatchSound(d)'
    BY <1>1, <2>1, <2>2 DEF BatchSound
  <2> QED
    BY <2>3, <2>4
<1>5. \A t \in Tasks : t # s => Kept(t)
  BY <1>1, <1>2 DEF Kept
<1>6. s \in Ends => EndSound(s)' /\ Received(s)' = Received(s) /\ Sent(s)' = Sent(s) /\ Done(s) /\ Done(s)'
  <2> SUFFICES ASSUME s \in Ends
               PROVE  EndSound(s)' /\ Received(s)' = Received(s) /\ Sent(s)' = Sent(s) /\ Done(s) /\ Done(s)'
    OBVIOUS
  <2>1. EndSound(s)
    BY DEF IOInv, FlowSound
  <2>2. task[s].recvs = Requests /\ Done(s) /\ ~Gone(s) /\ Gone(s)' /\ Done(s)'
    BY <1>1, <1>2, <2>1 DEF EndSound, Done, Gone
  <2>3. task[s].op = "none"
    <3>1. Running(s)
      BY <1>1 DEF Does, IOInv, TaskTypes, TaskRecord, Ops
    <3>2. coro[Core(s)].task = s /\ pc[Core(s)] = "coro" /\ Core(s) \in Cores
      BY <3>1, TaskKinds DEF Running
    <3> QED
      BY <3>2 DEF IOInv, UsesSound, CoroSound
  <2>4. EndSound(s)'
    BY <1>1, <1>2, <2>1, <2>2, <2>3 DEF EndSound
  <2>5. Received(s)' = Received(s) /\ Sent(s)' = Sent(s)
    BY <1>1, <1>2, <2>2 DEF Received, Sent
  <2> QED
    BY <2>2, <2>4, <2>5
<1>7. FlowSound'
  <2> SUFFICES ASSUME NEW t \in Ends
               PROVE  EndSound(t)' /\ Conserved(t)' /\ SockSound(t)' /\ ConnectionSound(t)'
    BY DEF FlowSound
  <2>1. t \in Tasks /\ Peer(t) \in Ends /\ Peer(t) \in Tasks
    BY EndFacts
  <2>2. EndSound(t)'
    BY <1>5, <1>6, <2>1, KeptFacts DEF IOInv, FlowSound
  <2>3. Received(t)' = Received(t) /\ Sent(Peer(t))' = Sent(Peer(t))
    BY <1>5, <1>6, <2>1, KeptFacts
  <2>4. \A u \in Tasks : /\ task'[u].st = "deleted" <=> task[u].st = "deleted"
                         /\ task'[u].st = "none" <=> task[u].st = "none"
    BY <1>2
  <2> QED
    BY <1>1, <2>1, <2>2, <2>3, <2>4, FlowKept DEF IOInv
<1>8. ListenerSound'
  <2>1. ListenerSound /\ Listener \in Tasks
    BY CoreFacts DEF IOInv
  <2>2. CASE s = Listener
    BY <1>1, <1>2, <2>1, <2>2 DEF ListenerSound
  <2>3. CASE s # Listener
    <3>1. task'[Listener] = task[Listener] /\ Does(Listener)' = Does(Listener)
      BY <1>1, <1>2, <2>1, <2>3
    <3>2. \A t \in Ends : task[t].st = "none" => task'[t].st = "none"
      BY <1>2, EndFacts
    <3> QED
      BY <2>1, <3>1, <3>2 DEF ListenerSound
  <2> QED
    BY <2>2, <2>3
<1>9. SubsSound'
  <2> SUFFICES ASSUME NEW d \in Cores PROVE EventSubSound(d)'
    BY DEF SubsSound
  <2>1. EventSubSound(d) /\ EventSub(d) \in Tasks /\ Core(EventSub(d)) = d /\ Core(s) \in Cores
    BY CoreFacts, TaskKinds DEF IOInv, SubsSound
  <2>2. CASE d = Core(s)
    <3>1. task[EventSub(d)].st # "new"
      BY <2>1, <2>2 DEF EventSubSound
    <3>2. task'[EventSub(d)].st \notin {"new", "none"} /\ task'[EventSub(d)].op = "none"
      BY <1>2, <2>1, <3>1 DEF EventSubSound
    <3> QED
      BY <3>2 DEF EventSubSound
  <2>3. CASE d # Core(s)
    <3>1. myQueue'[d] = myQueue[d] /\ \A t \in Tasks : Core(t) = d => task'[t] = task[t]
      BY <1>2, <2>1, <2>3 DEF IOInv, TaskTypes
    <3> QED
      BY <2>1, <3>1 DEF EventSubSound
  <2> QED
    BY <2>2, <2>3
<1>10. BacklogSound'
  BY <1>1 DEF IOInv, BacklogSound
<1>11. FinishedSound'
  BY <1>1, <1>5, <1>6, FinishedOthers
<1> QED
  BY <1>2, <1>3, <1>4, <1>7, <1>8, <1>9, <1>10, <1>11 DEF IOInv

LEMMA DeleteClientInv ==
    ASSUME IOInv, NEW c \in Cores, NEW s \in Ends, DeleteClient(c, s)
    PROVE  IOInv'
<1>1. /\ Runs(c, s, "delete") /\ unsubscribe(s)
      /\ pc' = [pc EXCEPT ![c] = "batch"] /\ coro' = [coro EXCEPT ![c] = NoCoro] /\ batch' = batch
      /\ UNCHANGED <<myTasks, main, connected, myIsStopped, finished, serverFinished, sock, backlog>>
  BY DEF DeleteClient, BackToRoll, mainVars, contextVars
<1>2. /\ s \in Tasks /\ s # Listener /\ s # EventSub(c) /\ Core(s) = c /\ pc[c] = "coro" /\ coro[c].task = s
      /\ task[s].st = "working" /\ task[s].op = "none" /\ Does(s) = "delete" /\ ~Gone(s)
  BY <1>1, RunsFacts
<1>3. /\ \A t \in Tasks : t # s => task'[t] = task[t]
      /\ task'[s].st = "deleting" /\ task'[s].op = task[s].op
  BY <1>1, <1>2, UnsubscribeFacts
<1>4. NoCoro \in [task : Tasks, next : Jobs]
  BY CoreFacts DEF NoCoro, Jobs
<1>5. /\ coro' \in [Cores -> [task : Tasks, next : Jobs]] /\ pc'[c] = "batch"
      /\ \A d \in Cores : d # c => pc'[d] = pc[d] /\ coro'[d] = coro[d]
  BY <1>1, <1>4 DEF IOInv, ThreadTypes
<1>6. ThreadsSound' /\ pc' \in [Cores -> Points]
  <2>1. ThreadGoesOn(c, "batch") /\ "batch" \in Points
    BY <1>1, <1>2 DEF ThreadGoesOn, Points
  <2>2. \A t \in Tasks : task[t].st = "deleted" => task'[t].st = "deleted"
    BY <1>2, <1>3
  <2> QED
    BY <2>1, <2>2, ThreadsGoOn DEF IOInv
<1>7. ThreadTypes'
  BY <1>1, <1>5, <1>6 DEF IOInv, ThreadTypes
<1>8. \A t \in Tasks : t # s => Does(t)' = Does(t)
  BY <1>2, <1>3, <1>5, DoesOther
<1>9. Does(s)' = "none"
  BY <1>2, <1>3, <1>5 DEF Does, Running
<1>10. \A d \in Cores : pc'[d] \notin {"batch", "coro"} => DOMAIN batch[d] = {}
  BY <1>5, NoBatch
<1>11. Unsubscribes(s)
  BY <1>1, <1>2, <1>8, <1>9, <1>10 DEF Unsubscribes
<1>12. StagesSound'
  <2>1. \A t \in Ends : Done(t) => Done(t)'
    BY <1>3, <1>8, EndFacts DEF Done, Gone
  <2>2. /\ task'[Listener] = task[Listener]
        /\ \A d \in Cores : task'[EventSub(d)] = task[EventSub(d)]
    BY <1>2, <1>3, CoreFacts
  <2> QED
    BY <1>1, <2>1, <2>2, CoreFacts DEF IOInv, StagesSound, Gone
<1>13. ASSUME NEW d \in Cores PROVE CoroSound(d)'
  <2>1. CASE d = c
    BY <1>5, <2>1 DEF CoroSound
  <2>2. CASE d # c
    <3>1. CoroSound(d) /\ coro[d].task \in Tasks /\ Listener \in Tasks
      BY CoreFacts DEF IOInv, UsesSound, ThreadTypes
    <3>2. pc[d] = "coro" => coro[d].task # s
      BY <1>2, <2>2, <3>1 DEF CoroSound
    <3> QED
      BY <1>2, <1>3, <1>5, <2>2, <3>1, <3>2 DEF CoroSound, Live
  <2> QED
    BY <2>1, <2>2
<1> QED
  BY <1>2, <1>6, <1>7, <1>11, <1>12, <1>13, UnsubscribeInv

(* Once every client has finished, the listening socket and the eventfds   *)
(* are known to epoll.                                                     *)
LEMMA AllSubscribed ==
    ASSUME IOInv, \A t \in Ends : Done(t)
    PROVE  task[Listener].st # "new" /\ \A c \in Cores : task[EventSub(c)].st # "new"
<1>1. \A t \in Ends : task[t].st \notin {"none", "new"}
  <2> SUFFICES ASSUME NEW t \in Ends, task[t].st \in {"none", "new"} PROVE FALSE
    OBVIOUS
  <2>1. t \in Tasks /\ Core(t) \in Cores /\ t # Listener
    BY EndFacts, CoreFacts
  <2>2. ~Running(t)
    BY <2>1 DEF Running, IOInv, UsesSound, CoroSound
  <2>3. EndSound(t)
    BY DEF IOInv, FlowSound
  <2>4. Does(t) \in {"none", "connect", "send"}
    BY <2>2, <2>3 DEF Does, EndSound
  <2> QED
    BY <2>4 DEF Done, Gone
<1>2. 1 \in 1..ClientCount
  BY IOCoroAssumption
<1>3. \A c \in Cores : <<c, 1>> \in Ends /\ Core(<<c, 1>>) = c /\ <<c, 1>> \in Tasks
  BY <1>2, NumberedEnd, EndFacts
<1>4. task[Listener].st # "new"
  BY <1>1, <1>3, CoreFacts DEF IOInv, ListenerSound
<1>5. \A c \in Cores : task[EventSub(c)].st # "new"
  BY <1>1, <1>3 DEF IOInv, SubsSound, EventSubSound
<1> QED
  BY <1>4, <1>5

LEMMA StopServerInv ==
    ASSUME IOInv, StopServer
    PROVE  IOInv'
<1>1. /\ pc["cli"] = "ended" /\ main = "joinClients" /\ main' = "server" /\ unsubscribe(Listener)
      /\ UNCHANGED <<myTasks, pc, batch, coro, connected, myIsStopped, finished, serverFinished, sock, backlog>>
  BY DEF StopServer, Go, threadVars, contextVars
<1>2. \A t \in Ends : Done(t)
  BY <1>1 DEF IOInv, StagesSound
<1>3. Listener \in Tasks /\ Listener \notin Ends /\ \A c \in Cores : EventSub(c) # Listener /\ EventSub(c) \in Tasks
  BY CoreFacts
<1>4. task[Listener].st = "working"
  <2>1. task[Listener].st \in States /\ ~Gone(Listener) /\ task[Listener].st # "none"
    BY <1>1, <1>3 DEF IOInv, TaskTypes, TaskRecord, StagesSound, ListenerSound, Stopping, Down
  <2> QED
    BY <1>2, <2>1, AllSubscribed DEF States, Gone
<1>5. /\ \A t \in Tasks : t # Listener => task'[t] = task[t]
      /\ task'[Listener].st = "deleting" /\ task'[Listener].op = task[Listener].op
      /\ task'[Listener].bits = task[Listener].bits
  BY <1>1, <1>3, <1>4, UnsubscribeFacts
<1>6. \A t \in Tasks : Does(t)' = Does(t)
  BY <1>1, <1>5, DoesSame
<1>7. Unsubscribes(Listener)
  BY <1>1, <1>3, <1>6, NoBatch DEF Unsubscribes
<1>8. ThreadTypes'
  BY <1>1 DEF IOInv, ThreadTypes, Stages
<1>9. \A t \in Ends : Done(t)'
  BY <1>2, <1>3, <1>5, <1>6, EndFacts DEF Done, Gone
<1>10. StagesSound'
  <2>1. Gone(Listener)' /\ ~Gone(Listener) /\ \A d \in Cores : task'[EventSub(d)] = task[EventSub(d)]
    BY <1>3, <1>4, <1>5 DEF Gone
  <2> QED
    BY <1>1, <1>4, <1>5, <1>9, <2>1, CoreFacts DEF IOInv, StagesSound, Gone, Stopping, Down
<1>11. ThreadsSound'
  <2>1. \A t \in Tasks : task[t].st = "deleted" => task'[t].st = "deleted"
    BY <1>4, <1>5
  <2> QED
    BY <1>1, <2>1 DEF IOInv, ThreadsSound, Down
<1>12. \A d \in Cores : CoroSound(d)'
  <2> SUFFICES ASSUME NEW d \in Cores PROVE CoroSound(d)'
    OBVIOUS
  <2>1. CoroSound(d) /\ coro[d].task \in Tasks
    BY DEF IOInv, UsesSound, ThreadTypes
  <2> QED
    BY <1>1, <1>3, <1>5, <2>1 DEF CoroSound, Live
<1> QED
  BY <1>3, <1>4, <1>7, <1>8, <1>10, <1>11, <1>12, UnsubscribeInv

(* ~IOCore, when the thread of the core has ended.                         *)
LEMMA DestroyCoreInv ==
    ASSUME IOInv, NEW c \in Cores, NEW from, NEW to, DestroyCore(c, from, to),
           \/ c = "cli" /\ from = "joinServer" /\ to = "~cli" /\ pc["srv"] = "ended"
           \/ c = "srv" /\ from = "~cli" /\ to = "~srv" /\ pc["cli"] = "gone"
    PROVE  IOInv'
<1>1. /\ main = from /\ main' = to /\ unsubscribe(EventSub(c)) /\ pc' = [pc EXCEPT ![c] = "drain"]
      /\ UNCHANGED <<myTasks, batch, coro, connected, myIsStopped, finished, serverFinished, sock, backlog>>
  BY DEF DestroyCore, Go, contextVars
<1>2. pc[c] = "ended"
  BY <1>1 DEF IOInv, ThreadsSound
<1>3. \A t \in Ends : Done(t)
  BY <1>1 DEF IOInv, StagesSound, Stopping, Down
<1>4. EventSub(c) \in Tasks /\ EventSub(c) \notin Ends /\ EventSub(c) # Listener /\ Listener \in Tasks
      /\ \A d \in Cores : Core(EventSub(d)) = d /\ EventSub(d) \in Tasks
  BY CoreFacts
<1>5. task[EventSub(c)].st = "working"
  <2>1. task[EventSub(c)].st \in States /\ task[EventSub(c)].st # "none" /\ task[EventSub(c)].st # "new"
    BY <1>3, <1>4, AllSubscribed DEF IOInv, TaskTypes, TaskRecord, SubsSound, EventSubSound
  <2>2. ~Gone(EventSub(c))
    BY <1>1 DEF IOInv, StagesSound, Down
  <2> QED
    BY <2>1, <2>2 DEF States, Gone
<1>6. /\ \A t \in Tasks : t # EventSub(c) => task'[t] = task[t]
      /\ task'[EventSub(c)].st = "deleting" /\ task'[EventSub(c)].op = task[EventSub(c)].op
  BY <1>1, <1>4, <1>5, UnsubscribeFacts
<1>7. \A d \in Cores : pc'[d] = IF d = c THEN "drain" ELSE pc[d]
  BY <1>1 DEF IOInv, ThreadTypes
<1>8. \A t \in Tasks : Does(t)' = Does(t)
  BY <1>1, <1>2, <1>6, <1>7, DoesStill
<1>9. \A d \in Cores : pc'[d] \notin {"batch", "coro"} => DOMAIN batch[d] = {}
  BY <1>2, <1>7, NoBatch
<1>10. Unsubscribes(EventSub(c))
  BY <1>1, <1>4, <1>8, <1>9 DEF Unsubscribes
<1>11. ThreadTypes'
  BY <1>1 DEF IOInv, ThreadTypes, Stages, Points
<1>12. \A t \in Ends : Done(t)'
  BY <1>3, <1>4, <1>6, <1>8, EndFacts DEF Done, Gone
<1>13. task'[Listener] = task[Listener] /\ \A d \in Cores : d # c => task'[EventSub(d)] = task[EventSub(d)]
  BY <1>4, <1>6
<1>14. StagesSound'
  <2>1. Gone(EventSub(c))' /\ (Gone(Listener)' <=> Gone(Listener))
        /\ \A d \in Cores : d # c => (Gone(EventSub(d))' <=> Gone(EventSub(d)))
    BY <1>6, <1>13 DEF Gone
  <2> QED
    BY <1>1, <1>12, <1>13, <2>1, CoreFacts DEF IOInv, StagesSound, Stopping, Down
<1>15. ThreadsSound'
  <2>1. \A t \in Tasks : task[t].st = "deleted" => task'[t].st = "deleted"
    BY <1>5, <1>6
  <2>2. \A d \in Cores : pc'[d] = "gone" => \A t \in Tasks : Core(t) = d => task'[t].st = "deleted"
    BY <1>7, <2>1 DEF IOInv, ThreadsSound
  <2> QED
    BY <1>1, <1>2, <1>7, <2>2, CoreFacts DEF IOInv, ThreadsSound, Down
<1>16. \A d \in Cores : CoroSound(d)'
  <2> SUFFICES ASSUME NEW d \in Cores PROVE CoroSound(d)'
    OBVIOUS
  <2>1. CoroSound(d) /\ coro[d].task \in Tasks
    BY DEF IOInv, UsesSound, ThreadTypes
  <2>2. pc'[d] = "coro" => pc[d] = "coro" /\ d # c
    BY <1>7
  <2>3. pc[d] = "coro" /\ d # c => coro[d].task # EventSub(c)
    BY <1>4, <2>1 DEF CoroSound
  <2> QED
    BY <1>1, <1>4, <1>6, <2>1, <2>2, <2>3 DEF CoroSound, Live
<1> QED
  BY <1>4, <1>5, <1>10, <1>11, <1>14, <1>15, <1>16, UnsubscribeInv

-----------------------------------------------------------------------------
(* Clients are connected and accepted.                                     *)
LEMMA BacklogAppended ==
    ASSUME IOInv, NEW k \in 1..ClientCount, ~InBacklog(k), backlog' = Append(backlog, k)
    PROVE  /\ backlog' \in Seq(1..ClientCount) /\ BacklogSound'
           /\ \A j : InBacklog(j)' <=> InBacklog(j) \/ j = k
<1>1. backlog \in Seq(1..ClientCount) /\ BacklogSound
  BY DEF IOInv, KernelTypes
<1>2. PICK n : n = Len(backlog)
  OBVIOUS
<1>3. /\ n \in Nat /\ Len(backlog') = n + 1 /\ backlog'[n + 1] = k
      /\ \A i \in 1..n : backlog'[i] = backlog[i]
      /\ backlog' \in Seq(1..ClientCount)
  BY <1>1, <1>2
<1>4. \A i \in 1..n : backlog[i] # k
  BY <1>2 DEF InBacklog
<1>5. BacklogSound'
  BY <1>1, <1>2, <1>3, <1>4 DEF BacklogSound
<1>6. ASSUME NEW j PROVE InBacklog(j)' <=> InBacklog(j) \/ j = k
  <2>1. InBacklog(j)' => InBacklog(j) \/ j = k
    BY <1>2, <1>3 DEF InBacklog
  <2>2. InBacklog(j) => InBacklog(j)'
    BY <1>2, <1>3 DEF InBacklog
  <2>3. j = k => InBacklog(j)'
    BY <1>3, n + 1 \in 1..(n + 1) DEF InBacklog
  <2> QED
    BY <2>1, <2>2, <2>3
<1> QED
  BY <1>3, <1>5, <1>6

LEMMA BacklogPopped ==
    ASSUME IOInv, backlog # <<>>, backlog' = Tail(backlog), NEW k, k = Head(backlog)
    PROVE  /\ k \in 1..ClientCount /\ InBacklog(k) /\ ~InBacklog(k)'
           /\ backlog' \in Seq(1..ClientCount) /\ BacklogSound'
           /\ \A j : InBacklog(j)' => InBacklog(j)
<1>1. backlog \in Seq(1..ClientCount) /\ BacklogSound
  BY DEF IOInv, KernelTypes
<1>2. PICK n : n = Len(backlog)
  OBVIOUS
<1>3. /\ n \in Nat /\ n > 0 /\ k = backlog[1] /\ k \in 1..ClientCount /\ Len(backlog') = n - 1
      /\ \A i \in 1..(n - 1) : backlog'[i] = backlog[i + 1]
      /\ backlog' \in Seq(1..ClientCount)
  <2>1. PICK S, q : S = 1..ClientCount /\ q = backlog
    OBVIOUS
  <2>2. q \in Seq(S) /\ q # <<>>
    BY <1>1, <2>1
  <2>3. /\ Len(q) \in Nat /\ Len(q) > 0 /\ Head(q) = q[1] /\ q[1] \in S
        /\ Tail(q) \in Seq(S) /\ Len(Tail(q)) = Len(q) - 1
        /\ \A i \in 1..Len(Tail(q)) : Tail(q)[i] = q[i + 1]
    BY <2>2, TailFacts
  <2> QED
    BY <1>2, <2>1, <2>3
<1>4. InBacklog(k)
  BY <1>2, <1>3 DEF InBacklog
<1>5. ~InBacklog(k)'
  <2> SUFFICES ASSUME NEW i \in 1..(n - 1), backlog'[i] = k PROVE FALSE
    BY <1>3 DEF InBacklog
  <2>1. i + 1 \in 1..n /\ 1 \in 1..n /\ backlog[i + 1] = backlog[1]
    BY <1>3
  <2>2. i + 1 = 1
    BY <1>1, <1>2, <2>1 DEF BacklogSound
  <2> QED
    BY <2>2, <1>3
<1>6. \A j : InBacklog(j)' => InBacklog(j)
  <2> SUFFICES ASSUME NEW j, NEW i \in 1..(n - 1), backlog'[i] = j PROVE InBacklog(j)
    BY <1>3 DEF InBacklog
  <2>1. i + 1 \in 1..n /\ backlog[i + 1] = j
    BY <1>3
  <2> QED
    BY <1>2, <2>1 DEF InBacklog
<1>7. BacklogSound'
  <2> SUFFICES ASSUME NEW i \in 1..(n - 1), NEW j \in 1..(n - 1), backlog'[i] = backlog'[j] PROVE i = j
    BY <1>3 DEF BacklogSound
  <2>1. i + 1 \in 1..n /\ j + 1 \in 1..n /\ backlog[i + 1] = backlog[j + 1]
    BY <1>3
  <2>2. i + 1 = j + 1
    BY <1>1, <1>2, <2>1 DEF BacklogSound
  <2> QED
    BY <1>3, <2>2
<1> QED
  BY <1>3, <1>4, <1>5, <1>6, <1>7

LEMMA SubscribeFacts ==
    ASSUME IOInv, NEW s \in Ends, task[s].st = "none", NEW op \in {"send", "connect"},
           subscribe(s, op), myTasks' = myTasks
    PROVE  /\ failed' = FALSE /\ TaskTypes' /\ ListsSound'
           /\ \A t \in Tasks : t # s => task'[t] = task[t]
           /\ task'[s].st = "new" /\ task'[s].op = op /\ task'[s].recvs = 0
           /\ myQueue' = [myQueue EXCEPT ![Core(s)] = Append(@, s)]
<1>1. Core(s) \in Cores /\ s \in Tasks
  BY EndFacts
<1>2. /\ Expect(task[s].st = "none") /\ task' = [task EXCEPT ![s] = [NewTask EXCEPT !.op = op]]
      /\ myQueue' = [myQueue EXCEPT ![Core(s)] = Append(@, s)]
      /\ mySize' = [mySize EXCEPT ![Core(s)] = @ + 1]
  BY DEF subscribe
<1>3. PICK r : r = [NewTask EXCEPT !.op = op]
  OBVIOUS
<1>4. r.st = "new" /\ r.op = op /\ r.recvs = 0 /\ r \in TaskRecord
  BY <1>3 DEF NewTask, NoTask, TaskRecord, States, Ops
<1>5. TaskTypes /\ ListsSound /\ task \in [Tasks -> TaskRecord]
  BY DEF IOInv, TaskTypes
<1>6. task' = [task EXCEPT ![s] = r]
  BY <1>2, <1>3
<1>7. task'[s] = r /\ (\A t \in Tasks : t # s => task'[t] = task[t]) /\ task' \in [Tasks -> TaskRecord]
  BY <1>1, <1>4, <1>5, <1>6
<1>8. failed' = FALSE
  BY <1>2 DEF Expect, IOInv
<1>9. myQueue' \in [Cores -> Seq(Tasks)] /\ mySize' \in [Cores -> Nat]
  BY <1>1, <1>2, <1>5 DEF TaskTypes
<1>10. TaskTypes'
  BY <1>5, <1>7, <1>9 DEF TaskTypes
<1>11. task'[s].st = "new" /\ \A t \in Tasks \ {s} : task'[t].st = task[t].st /\ task'[t].idx = task[t].idx
  BY <1>4, <1>7
<1>12. ListsSound'
  BY <1>1, <1>2, <1>5, <1>11, ListsAppend
<1> QED
  BY <1>2, <1>4, <1>7, <1>8, <1>10, <1>12

(* The frame of subscribe.                                                 *)
Subscribes(s, op) ==
    /\ subscribe(s, op) /\ task[s].st = "none"
    /\ UNCHANGED <<myTasks, pc, coro, batch, main, myIsStopped, contextVars>>
    /\ connected' \in 0..ClientCount /\ (main # "connect" => connected' = connected)
    /\ sock' \in [Ends -> SockRecord] /\ \A t \in Ends : sock'[t].bytes = sock[t].bytes
    /\ backlog' \in Seq(1..ClientCount) /\ signalled' = Cores
    /\ ready' \in [Cores -> SUBSET Tasks]
    /\ \A d \in Cores : \A t \in ready'[d] :
         t \in ready[d] \/ (t \in Tasks /\ Core(t) = d /\ Registered(t))
    /\ Core(s) = "srv" => task[Listener].st # "new"

LEMMA SubscribeInv ==
    ASSUME IOInv, NEW s \in Ends, NEW op \in {"send", "connect"}, Subscribes(s, op),
           \A t \in Ends : SockSound(t)' /\ ConnectionSound(t)', BacklogSound'
    PROVE  IOInv'
<1>1. /\ subscribe(s, op) /\ task[s].st = "none"
      /\ UNCHANGED <<myTasks, pc, coro, batch, main, myIsStopped, finished, serverFinished>>
      /\ connected' \in 0..ClientCount /\ (main # "connect" => connected' = connected)
      /\ sock' \in [Ends -> SockRecord] /\ \A t \in Ends : sock'[t].bytes = sock[t].bytes
      /\ backlog' \in Seq(1..ClientCount) /\ signalled' = Cores
      /\ ready' \in [Cores -> SUBSET Tasks]
      /\ \A d \in Cores : \A t \in ready'[d] :
           t \in ready[d] \/ (t \in Tasks /\ Core(t) = d /\ Registered(t))
      /\ Core(s) = "srv" => task[Listener].st # "new"
  BY DEF Subscribes, contextVars
<1>2. /\ failed' = FALSE /\ TaskTypes' /\ ListsSound'
      /\ \A t \in Tasks : t # s => task'[t] = task[t]
      /\ task'[s].st = "new" /\ task'[s].op = op /\ task'[s].recvs = 0
      /\ myQueue' = [myQueue EXCEPT ![Core(s)] = Append(@, s)]
  BY <1>1, SubscribeFacts
<1>3. s \in Tasks /\ Core(s) \in Cores /\ s # Listener /\ \A c \in Cores : s # EventSub(c)
  BY EndFacts, CoreFacts
<1>4. ThreadTypes' /\ KernelTypes'
  BY <1>1 DEF IOInv, ThreadTypes, KernelTypes
<1>5. \A t \in Tasks : t # s => Kept(t)
  BY <1>1, <1>2, DoesSame DEF Kept
<1>6. ~Running(s) /\ ~Running(s)'
  BY <1>1, <1>3 DEF Running, IOInv, UsesSound, CoroSound
<1>7. Does(s) = "none" /\ Does(s)' = op /\ task[s].recvs = 0
  BY <1>1, <1>2, <1>6 DEF Does, IOInv, FlowSound, EndSound
<1>8. EndSound(s)'
  BY <1>2, <1>7, IOCoroAssumption DEF EndSound, Gone
<1>9. /\ Received(s)' = Received(s) /\ Sent(s)' = Sent(s) /\ ~Done(s) /\ ~Done(s)'
  BY <1>1, <1>2, <1>7 DEF Received, Sent, Done, Gone
<1>10. UsesSound'
  <2> SUFFICES ASSUME NEW d \in Cores PROVE ReadySound(d)' /\ BatchSound(d)' /\ CoroSound(d)'
    BY DEF UsesSound
  <2>1. /\ ReadySound(d) /\ BatchSound(d) /\ CoroSound(d) /\ TaskTypes /\ ListsSound
        /\ ready[d] \subseteq Tasks /\ coro[d].task \in Tasks /\ Listener \in Tasks
    BY CoreFacts DEF IOInv, UsesSound, KernelTypes, ThreadTypes
  <2>2. \A t \in Tasks : Live(t) => Live(t)'
    BY <1>1, <1>2 DEF Live
  <2>3. ReadySound(d)'
    BY <1>1, <2>1, <2>2, ReadyGrows
  <2>4. BatchSound(d)'
    BY <1>1, <2>1, <2>2 DEF BatchSound
  <2>5. pc[d] = "coro" => coro[d].task # s
    BY <1>1, <1>3, <2>1 DEF CoroSound
  <2>6. CoroSound(d)'
    BY <1>1, <1>2, <1>3, <2>1, <2>2, <2>5 DEF CoroSound
  <2> QED
    BY <2>3, <2>4, <2>6
<1>11. FlowSound'
  <2>1. \A t \in Ends : Conserved(t)' /\ sock'[t].bytes <= Cap
    BY <1>1, <1>5, <1>9, ConservedKept
  <2>2. \A t \in Ends : EndSound(t)'
    BY <1>5, <1>8, EndFacts, KeptFacts DEF IOInv, FlowSound
  <2> QED
    BY <2>1, <2>2 DEF FlowSound
<1>12. ListenerSound'
  <2>1. task'[Listener] = task[Listener] /\ Does(Listener)' = Does(Listener) /\ ListenerSound
    BY <1>2, <1>3, <1>5, CoreFacts DEF Kept, IOInv
  <2>2. task[Listener].st = "new" => \A t \in Ends : Core(t) = "srv" => task'[t].st = "none"
    BY <1>1, <1>2, <2>1, EndFacts DEF ListenerSound
  <2> QED
    BY <2>1, <2>2 DEF ListenerSound
<1>13. SubsSound'
  <2> SUFFICES ASSUME NEW d \in Cores PROVE EventSubSound(d)'
    BY DEF SubsSound
  <2>1. EventSubSound(d) /\ EventSub(d) \in Tasks /\ task'[EventSub(d)] = task[EventSub(d)]
    BY <1>2, <1>3, CoreFacts DEF IOInv, SubsSound
  <2>2. myQueue[d] \in Seq(Tasks)
    BY DEF IOInv, TaskTypes
  <2>3. myQueue'[d] = IF d = Core(s) THEN Append(myQueue[d], s) ELSE myQueue[d]
    BY <1>2, <1>3 DEF IOInv, TaskTypes
  <2>4. myQueue[d] # <<>> => myQueue'[d] # <<>> /\ myQueue'[d][1] = myQueue[d][1]
    BY <2>2, <2>3
  <2>5. \A t \in Tasks : task[t].st \in {"none", "new"} => task'[t].st \in {"none", "new"}
    BY <1>2
  <2> QED
    BY <2>1, <2>4, <2>5 DEF EventSubSound
<1>14. FinishedSound'
  BY <1>1, <1>5, <1>9, FinishedOthers
<1>15. StagesSound'
  <2>1. \A t \in Ends : Done(t) => Done(t)'
    BY <1>5, <1>9, EndFacts, KeptFacts
  <2>2. task'[Listener] = task[Listener] /\ \A c \in Cores : task'[EventSub(c)] = task[EventSub(c)]
    BY <1>2, <1>3, CoreFacts
  <2> QED
    BY <1>1, <2>1, <2>2, CoreFacts DEF IOInv, StagesSound, Gone
<1>16. ThreadsSound'
  <2>1. \A t \in Tasks : task[t].st = "deleted" => task'[t].st = "deleted"
    BY <1>1, <1>2
  <2> QED
    BY <1>1, <2>1 DEF IOInv, ThreadsSound
<1> QED
  BY <1>2, <1>4, <1>10, <1>11, <1>12, <1>13, <1>14, <1>15, <1>16 DEF IOInv

LEMMA AcceptInv ==
    ASSUME IOInv, NEW c \in Cores, Accept(c)
    PROVE  IOInv'
<1>1. Runs(c, Listener, "accept") /\ UNCHANGED <<myTasks, mainVars, contextVars, sock>>
  BY DEF Accept
<1>2. pc[c] = "coro" /\ coro[c].task = Listener
  BY <1>1 DEF Runs
<1>3. /\ Listener \in Tasks /\ Listener \notin Ends /\ c = "srv" /\ Core(Listener) = c /\ Listener # EventSub(c)
      /\ task[Listener].op = "none" /\ Live(Listener)
  BY <1>2, CoreFacts DEF IOInv, UsesSound, CoroSound
<1>4. sock \in [Ends -> SockRecord]
  BY DEF IOInv, KernelTypes
<1>5. CASE "R" \notin task[Listener].bits \/ backlog = <<>>
  <2>1. /\ Suspend(c, Listener, "accept")
        /\ UNCHANGED <<myQueue, mySize, backlog, signalled, ready>>
    BY <1>5 DEF Accept
  <2>2. CoroMoves(c, Listener) /\ failed' = FALSE /\ pc'[c] = "batch" /\ Does(Listener)' = "accept"
    BY <1>1, <1>2, <1>3, <1>4, <2>1, SuspendMoves DEF Ops
  <2>3. \A t \in Tasks : t # Listener => Kept(t)
    BY <1>3, <2>2, CoroMovesKept
  <2>4. CoroSound(c)'
    BY <2>2 DEF CoroSound
  <2>5. FinishedSound'
    BY <1>1, <1>3, <2>3, FinishedOthers DEF contextVars
  <2>6. \A t \in Ends : Conserved(t)' /\ sock'[t].bytes <= Cap
    BY <1>1, <1>3, <2>3, ConservedKept
  <2> QED
    BY <1>3, <2>2, <2>4, <2>5, <2>6, CoroMovesInv
<1>6. CASE "R" \in task[Listener].bits /\ backlog # <<>>
  <2>1. PICK k : k = Head(backlog)
    OBVIOUS
  <2>2. PICK s : s = <<c, k>>
    OBVIOUS
  <2>3. subscribe(s, "send") /\ wakeup(Core(s)) /\ backlog' = Tail(backlog) /\ UNCHANGED <<pc, batch, coro>>
    BY <1>6, <2>1, <2>2 DEF Accept, wrapAndRun, threadVars
  <2>4. /\ k \in 1..ClientCount /\ InBacklog(k) /\ ~InBacklog(k)'
        /\ backlog' \in Seq(1..ClientCount) /\ BacklogSound'
        /\ \A j : InBacklog(j)' => InBacklog(j)
    BY <1>6, <2>1, <2>3, BacklogPopped
  <2>5. s \in Ends /\ Core(s) = "srv" /\ s[2] = k
    BY <1>3, <2>2, <2>4, NumberedEnd
  <2>6. task[s].st = "none"
    BY <2>4, <2>5 DEF IOInv, FlowSound, ConnectionSound, ServerSound
  <2>7. /\ \A t \in Tasks : t # s => task'[t] = task[t]
        /\ task'[s].st = "new"
    BY <1>1, <2>3, <2>5, <2>6, SubscribeFacts
  <2>8. /\ ready' \in [Cores -> SUBSET Tasks] /\ signalled' = Cores
        /\ \A d \in Cores : \A t \in ready'[d] :
             t \in ready[d] \/ (t \in Tasks /\ Core(t) = d /\ Registered(t))
    BY <1>3, <2>3, <2>5, wakeupFacts DEF IOInv
  <2>9. Subscribes(s, "send")
    <3>1. task[Listener].st # "new"
      BY <1>3 DEF Live
    <3>2. connected \in 0..ClientCount
      BY DEF IOInv, ThreadTypes
    <3> QED
      BY <1>1, <1>4, <2>3, <2>4, <2>6, <2>8, <3>1, <3>2 DEF Subscribes, mainVars
  <2>10. ASSUME NEW t \in Ends PROVE SockSound(t)' /\ ConnectionSound(t)'
    <3>1. t \in Tasks /\ Peer(t) \in Ends /\ Peer(t) \in Tasks /\ Peer(t)[2] = t[2] /\ Core(t) \in Cores
          /\ Core(Peer(t)) # Core(t)
      BY EndFacts
    <3>2. SockSound(t) /\ ConnectionSound(t)
      BY DEF IOInv, FlowSound
    <3>3. \A u \in Tasks : task'[u].st = "deleted" <=> task[u].st = "deleted"
      BY <2>6, <2>7
    <3>4. SockSound(t)'
      BY <1>1, <3>1, <3>2, <3>3 DEF SockSound
    <3>5. CASE Core(t) = "cli"
      <4>1. ClientSound(t) /\ t # s
        BY <2>5, <3>2, <3>5 DEF ConnectionSound
      <4>2. sock[t].st \in {"none", "connecting"} => Peer(t) # s
        BY <2>4, <2>5, <3>1, <4>1 DEF ClientSound
      <4>3. ClientSound(t)'
        BY <1>1, <2>4, <2>7, <3>1, <4>1, <4>2 DEF ClientSound, mainVars
      <4> QED
        BY <3>4, <3>5, <4>3 DEF ConnectionSound
    <3>6. CASE Core(t) # "cli"
      <4>1. ServerSound(t)
        BY <3>2, <3>6 DEF ConnectionSound
      <4>2. ServerSound(t)'
        BY <1>1, <2>4, <2>5, <2>7, <3>1, <4>1 DEF ServerSound
      <4> QED
        BY <3>4, <3>6, <4>2 DEF ConnectionSound
    <3> QED
      BY <3>5, <3>6
  <2> QED
    BY <2>4, <2>5, <2>9, <2>10, SubscribeInv
<1> QED
  BY <1>5, <1>6

(* A connection is established: both ends are open, and it waits to be     *)
(* accepted.                                                               *)
Opens(s) ==
    /\ sock' = [sock EXCEPT ![s].st = "open", ![Peer(s)].st = "open"]
    /\ backlog' = Append(backlog, s[2])
    /\ \A t \in Tasks : t # s => task'[t].st = task[t].st
    /\ task[s].st # "deleted" /\ task'[s].st \notin {"none", "deleted"}
    /\ \A t \in Ends : Core(t) = "cli" => (t[2] > connected' <=> task'[t].st = "none")

LEMMA OpensSound ==
    ASSUME IOInv, NEW s \in Ends, Core(s) = "cli", sock[s].st \in {"none", "connecting"}, Opens(s)
    PROVE  /\ sock' \in [Ends -> SockRecord] /\ \A t \in Ends : sock'[t].bytes = sock[t].bytes
           /\ backlog' \in Seq(1..ClientCount) /\ BacklogSound'
           /\ \A t \in Ends : SockSound(t)' /\ ConnectionSound(t)'
<1>1. PICK p : p = Peer(s)
  OBVIOUS
<1>2. p \in Ends /\ p # s /\ Core(p) # "cli" /\ p[2] = s[2] /\ s[2] \in 1..ClientCount /\ Peer(p) = s
  BY <1>1, EndFacts
<1>3. sock \in [Ends -> SockRecord] /\ sock[s] \in SockRecord /\ sock[p] \in SockRecord
  BY <1>2 DEF IOInv, KernelTypes
<1>4. task[p].st = "none" /\ sock[p].st = "none" /\ ~InBacklog(s[2])
  BY <1>1 DEF IOInv, FlowSound, ConnectionSound, ClientSound
<1>5. sock' = [sock EXCEPT ![s].st = "open", ![p].st = "open"]
  BY <1>1 DEF Opens
<1>6. /\ sock'[s] = [sock[s] EXCEPT !.st = "open"] /\ sock'[p] = [sock[p] EXCEPT !.st = "open"]
      /\ \A t \in Ends : t # s /\ t # p => sock'[t] = sock[t]
      /\ sock' = [t \in Ends |-> sock'[t]]
  BY <1>2, <1>3, <1>5
<1>7. /\ sock'[s] \in SockRecord /\ sock'[s].st = "open" /\ sock'[s].bytes = sock[s].bytes
      /\ sock'[s].fin = sock[s].fin /\ sock'[s].reset = sock[s].reset
      /\ sock'[p] \in SockRecord /\ sock'[p].st = "open" /\ sock'[p].bytes = sock[p].bytes
      /\ sock'[p].fin = sock[p].fin /\ sock'[p].reset = sock[p].reset
  BY <1>3, <1>6 DEF SockRecord, SockStates
<1>8. sock' \in [Ends -> SockRecord]
  BY <1>3, <1>6, <1>7
<1>9. \A t \in Ends : /\ sock'[t].bytes = sock[t].bytes /\ sock'[t].fin = sock[t].fin
                      /\ sock'[t].reset = sock[t].reset
                      /\ sock'[t].st = IF t \in {s, p} THEN "open" ELSE sock[t].st
  BY <1>6, <1>7
<1>10. /\ \A t \in Tasks : t # s => task'[t].st = task[t].st
       /\ task[s].st # "deleted" /\ task'[s].st \notin {"none", "deleted"}
       /\ \A t \in Ends : Core(t) = "cli" => (t[2] > connected' <=> task'[t].st = "none")
  BY DEF Opens
<1>11. /\ backlog' \in Seq(1..ClientCount) /\ BacklogSound'
       /\ \A j : InBacklog(j)' <=> InBacklog(j) \/ j = s[2]
  <2>1. PICK k : k = s[2]
    OBVIOUS
  <2>2. backlog' = Append(backlog, k) /\ k \in 1..ClientCount /\ ~InBacklog(k)
    BY <1>2, <1>4, <2>1 DEF Opens
  <2> QED
    BY <2>1, <2>2, BacklogAppended
<1>12. ASSUME NEW t \in Ends PROVE SockSound(t)' /\ ConnectionSound(t)'
  <2>1. t \in Tasks /\ Peer(t) \in Ends /\ Peer(t) \in Tasks /\ Peer(Peer(t)) = t /\ Core(Peer(t)) # Core(t)
        /\ Core(t) \in Cores /\ Core(Peer(t)) \in Cores
    BY EndFacts
  <2>2. SockSound(t) /\ ConnectionSound(t)
    BY DEF IOInv, FlowSound
  <2>3. \A u \in Tasks : task'[u].st = "deleted" <=> task[u].st = "deleted"
    BY <1>10
  <2>4. sock'[t].st = "closed" <=> task'[t].st = "deleted"
    BY <1>4, <1>9, <2>1, <2>2, <2>3, <1>10 DEF SockSound
  <2>5. SockSound(t)'
    BY <1>9, <2>1, <2>2, <2>3, <2>4 DEF SockSound
  <2>6. CASE Core(t) = "cli"
    <3>1. ClientSound(t) /\ t # p
      BY <1>2, <2>2, <2>6 DEF ConnectionSound
    <3>2. CASE t = s
      <4>1. ClientSound(t)'
        BY <1>7, <1>10, <2>6, <3>2 DEF ClientSound
      <4> QED
        BY <2>5, <2>6, <4>1 DEF ConnectionSound
    <3>3. CASE t # s
      <4>1. Peer(t) # p /\ Peer(t) # s /\ t[2] # s[2]
        <5>1. Core(t) = Core(s)
          BY <2>6
        <5>2. t[2] # s[2]
          BY <3>3, <5>1, SameEnd
        <5>3. Peer(t) # p
          BY <1>2, <2>1, <3>3
        <5>4. Peer(t) # s
          BY <2>1, <5>1
        <5> QED
          BY <5>2, <5>3, <5>4
      <4>2. task'[t].st = task[t].st /\ task'[Peer(t)].st = task[Peer(t)].st
        BY <1>10, <2>1, <3>3, <4>1
      <4>3. sock'[t].st = sock[t].st /\ sock'[Peer(t)].st = sock[Peer(t)].st
        BY <1>9, <2>1, <3>1, <3>3, <4>1
      <4>4. InBacklog(t[2])' <=> InBacklog(t[2])
        BY <1>11, <4>1
      <4>5. t[2] > connected' <=> task'[t].st = "none"
        BY <1>10, <2>6
      <4>6. ClientSound(t)'
        BY <3>1, <4>2, <4>3, <4>4, <4>5 DEF ClientSound
      <4> QED
        BY <2>5, <2>6, <4>6 DEF ConnectionSound
    <3> QED
      BY <2>5, <3>2, <3>3
  <2>7. CASE Core(t) # "cli"
    <3>1. ServerSound(t) /\ t # s
      BY <2>2, <2>7 DEF ConnectionSound
    <3>2. task'[t].st = task[t].st
      BY <1>10, <2>1, <3>1
    <3>3. CASE t = p
      <4>1. ServerSound(t)'
        BY <1>4, <1>7, <3>2, <3>3 DEF ServerSound
      <4> QED
        BY <2>5, <2>7, <4>1 DEF ConnectionSound
    <3>4. CASE t # p
      <4>1. t[2] # s[2]
        <5>1. Core(t) = "srv" /\ Core(p) = "srv"
          BY <1>2, <2>1, <2>7, EndFacts DEF Cores
        <5>2. t[2] # p[2]
          BY <1>2, <3>4, <5>1, SameEnd
        <5> QED
          BY <1>2, <5>2
      <4>2. sock'[t].st = sock[t].st
        BY <1>9, <3>1, <3>4
      <4>3. ServerSound(t)'
        BY <1>11, <3>1, <3>2, <4>1, <4>2 DEF ServerSound
      <4> QED
        BY <2>5, <2>7, <4>3 DEF ConnectionSound
    <3> QED
      BY <2>5, <3>3, <3>4
  <2> QED
    BY <2>5, <2>6, <2>7
<1> QED
  BY <1>8, <1>9, <1>11, <1>12


LEMMA EstablishedInv ==
    ASSUME IOInv, NEW s \in Ends, Established(s)
    PROVE  IOInv'
<1>1. /\ sock[s].st = "connecting" /\ sock' = [sock EXCEPT ![s].st = "open", ![Peer(s)].st = "open"]
      /\ backlog' = Append(backlog, s[2]) /\ WakeUp({s, Listener})
      /\ UNCHANGED <<task, myTasks, myQueue, mySize, pc, batch, coro, main, connected, myIsStopped,
                     finished, serverFinished, signalled, failed>>
  BY DEF Established, coreVars, threadVars, mainVars, contextVars
<1>2. s \in Tasks /\ Core(s) \in Cores /\ Listener \in Tasks
  BY EndFacts, CoreFacts
<1>3. SockSound(s) /\ ConnectionSound(s)
  BY DEF IOInv, FlowSound
<1>4. Core(s) = "cli"
  BY <1>1, <1>3 DEF ConnectionSound, ServerSound
<1>5. ClientSound(s) /\ task[s].st # "none" /\ task[s].st # "deleted"
  BY <1>1, <1>3, <1>4 DEF ConnectionSound, ClientSound, SockSound
<1>6. \A t \in Ends : Core(t) = "cli" => (t[2] > connected <=> task[t].st = "none")
  BY DEF IOInv, FlowSound, ConnectionSound, ClientSound
<1>7. Opens(s)
  BY <1>1, <1>5, <1>6 DEF Opens
<1>8. /\ sock' \in [Ends -> SockRecord] /\ (\A t \in Ends : sock'[t].bytes = sock[t].bytes)
      /\ backlog' \in Seq(1..ClientCount) /\ BacklogSound'
      /\ \A t \in Ends : SockSound(t)' /\ ConnectionSound(t)'
  BY <1>1, <1>4, <1>7, OpensSound
<1>9. /\ ready' \in [Cores -> SUBSET Tasks]
      /\ \A c \in Cores : \A t \in ready'[c] :
           t \in ready[c] \/ (t \in Tasks /\ Core(t) = c /\ Registered(t))
  <2>1. {s, Listener} \subseteq Tasks
    BY <1>2
  <2> QED
    BY <1>1, <2>1, WakeUpFacts DEF IOInv
<1>10. TaskTypes' /\ ThreadTypes' /\ KernelTypes'
  BY <1>1, <1>8, <1>9 DEF IOInv, TaskTypes, ThreadTypes, KernelTypes
<1>11. ListsSound'
  BY <1>1, ListsFrame, SizesFit DEF IOInv
<1>12. UsesSound'
  BY <1>1, <1>9, UsesOther DEF UsesSound
<1>13. FlowSound'
  <2> SUFFICES ASSUME NEW t \in Ends PROVE EndSound(t)' /\ Conserved(t)'
    BY <1>8 DEF FlowSound
  <2>1. EndSound(t) /\ Conserved(t)
    BY DEF IOInv, FlowSound
  <2>2. Does(t)' = Does(t) /\ Does(Peer(t))' = Does(Peer(t))
    BY <1>1 DEF Does, Running
  <2>3. EndSound(t)'
    BY <1>1, <2>1, <2>2 DEF EndSound, Gone
  <2>4. Conserved(t)'
    BY <1>1, <1>8, <2>1, <2>2 DEF Conserved, Received, Sent, Gone
  <2> QED
    BY <2>3, <2>4
<1>14. \A t \in Tasks : Does(t)' = Does(t) /\ (Done(t)' <=> Done(t)) /\ (Gone(t)' <=> Gone(t))
  BY <1>1 DEF Does, Running, Done, Gone
<1>15. ListenerSound' /\ SubsSound'
  BY <1>1, <1>2, <1>14 DEF IOInv, ListenerSound, SubsSound, EventSubSound
<1>16. FinishedSound'
  <2>1. \A t \in Ends : Done(t)' <=> Done(t)
    BY <1>14, EndFacts
  <2>2. DoneEnds' = DoneEnds
    BY <2>1 DEF DoneEnds
  <2> QED
    BY <1>1, <2>2 DEF IOInv, FinishedSound
<1>17. StagesSound' /\ ThreadsSound'
  <2>1. \A t \in Ends : Done(t)' <=> Done(t)
    BY <1>14, EndFacts
  <2>2. StagesSound'
    BY <1>1, <2>1 DEF IOInv, StagesSound, Gone
  <2>3. ThreadsSound'
    BY <1>1 DEF IOInv, ThreadsSound
  <2> QED
    BY <2>2, <2>3
<1> QED
  BY <1>1, <1>8, <1>10, <1>11, <1>12, <1>13, <1>15, <1>16, <1>17 DEF IOInv

(* A connect() that goes on.                                               *)
LEMMA ConnectingSound ==
    ASSUME IOInv, NEW s \in Ends, Core(s) = "cli", sock[s].st = "none",
           sock' = [sock EXCEPT ![s].st = "connecting"], backlog' = backlog,
           \A t \in Tasks : t # s => task'[t].st = task[t].st,
           task[s].st = "none", task'[s].st = "new",
           \A t \in Ends : Core(t) = "cli" => (t[2] > connected' <=> task'[t].st = "none")
    PROVE  /\ sock' \in [Ends -> SockRecord] /\ \A t \in Ends : sock'[t].bytes = sock[t].bytes
           /\ BacklogSound'
           /\ \A t \in Ends : SockSound(t)' /\ ConnectionSound(t)'
<1>1. sock \in [Ends -> SockRecord] /\ sock[s] \in SockRecord
  BY DEF IOInv, KernelTypes
<1>2. /\ sock'[s] = [sock[s] EXCEPT !.st = "connecting"]
      /\ \A t \in Ends : t # s => sock'[t] = sock[t]
      /\ sock' = [t \in Ends |-> sock'[t]]
  BY <1>1
<1>3. /\ sock'[s] \in SockRecord /\ sock'[s].st = "connecting" /\ sock'[s].bytes = sock[s].bytes
      /\ sock'[s].fin = sock[s].fin /\ sock'[s].reset = sock[s].reset
  BY <1>1, <1>2 DEF SockRecord, SockStates
<1>4. sock' \in [Ends -> SockRecord]
  BY <1>1, <1>2, <1>3
<1>5. \A t \in Ends : /\ sock'[t].bytes = sock[t].bytes /\ sock'[t].fin = sock[t].fin
                      /\ sock'[t].reset = sock[t].reset
                      /\ sock'[t].st = IF t = s THEN "connecting" ELSE sock[t].st
  BY <1>2, <1>3
<1>6. BacklogSound' /\ \A j : InBacklog(j)' <=> InBacklog(j)
  BY DEF BacklogSound, InBacklog, IOInv
<1>7. ASSUME NEW t \in Ends PROVE SockSound(t)' /\ ConnectionSound(t)'
  <2>1. /\ t \in Tasks /\ Peer(t) \in Ends /\ Peer(t) \in Tasks /\ Core(Peer(t)) # Core(t)
        /\ Core(t) \in Cores /\ Core(Peer(t)) \in Cores
    BY EndFacts
  <2>2. SockSound(t) /\ ConnectionSound(t)
    BY DEF IOInv, FlowSound
  <2>3. \A u \in Tasks : task'[u].st = "deleted" <=> task[u].st = "deleted"
    OBVIOUS
  <2>4. sock'[t].st = "closed" <=> task'[t].st = "deleted"
    BY <1>5, <2>1, <2>2, <2>3 DEF SockSound
  <2>5. SockSound(t)'
    BY <1>5, <2>1, <2>2, <2>3, <2>4 DEF SockSound
  <2>6. CASE Core(t) = "cli"
    <3>1. ClientSound(t) /\ Peer(t) # s
      BY <2>1, <2>2, <2>6 DEF ConnectionSound
    <3>2. task'[Peer(t)].st = task[Peer(t)].st /\ sock'[Peer(t)].st = sock[Peer(t)].st
      BY <1>5, <2>1, <3>1
    <3>3. t[2] > connected' <=> task'[t].st = "none"
      BY <2>6
    <3>4. (sock'[t].st = "none" <=> task'[t].st = "none")
          /\ (sock'[t].st \in {"none", "connecting"} => sock[t].st \in {"none", "connecting"})
      BY <1>5, <2>1, <3>1 DEF ClientSound
    <3>5. ClientSound(t)'
      BY <1>6, <3>1, <3>2, <3>3, <3>4 DEF ClientSound
    <3> QED
      BY <2>5, <2>6, <3>5 DEF ConnectionSound
  <2>7. CASE Core(t) # "cli"
    <3>1. ServerSound(t) /\ t # s
      BY <2>2, <2>7 DEF ConnectionSound
    <3>2. ServerSound(t)'
      BY <1>5, <1>6, <2>1, <3>1 DEF ServerSound
    <3> QED
      BY <2>5, <2>7, <3>2 DEF ConnectionSound
  <2> QED
    BY <2>6, <2>7
<1> QED
  BY <1>4, <1>5, <1>6, <1>7

LEMMA connectAndRunInv ==
    ASSUME IOInv, connectAndRun
    PROVE  IOInv'
<1>1. connected \in Nat /\ connected + 1 \in 1..ClientCount /\ connected' = connected + 1 /\ main = "connect"
  BY IOCoroAssumption DEF connectAndRun, IOInv, ThreadTypes
<1>2. PICK k \in 1..ClientCount : k = connected + 1
  BY <1>1
<1>3. PICK s : s = <<"cli", k>>
  OBVIOUS
<1>4. s \in Ends /\ Core(s) = "cli" /\ s[2] = k /\ s \in Tasks
  BY <1>3, NumberedEnd, CoreFacts, EndFacts
<1>5. SockSound(s) /\ ClientSound(s)
  BY <1>4 DEF IOInv, FlowSound, ConnectionSound
<1>6. task[s].st = "none" /\ sock[s].st = "none"
  BY <1>1, <1>2, <1>4, <1>5 DEF ClientSound
<1>7. /\ AsyncConnect(s) /\ signalled' = Cores
      /\ UNCHANGED <<myTasks, pc, batch, coro, main, myIsStopped, finished, serverFinished>>
  BY <1>2, <1>3, CoreFacts DEF connectAndRun, threadVars, contextVars, IOInv, KernelTypes
<1>8. connected' \in 0..ClientCount
  BY <1>1
<1>9. ASSUME NEW op \in {"send", "connect"}, subscribe(s, op)
      PROVE  /\ \A t \in Tasks : t # s => task'[t].st = task[t].st
             /\ task'[s].st = "new"
             /\ \A t \in Ends : Core(t) = "cli" => (t[2] > connected' <=> task'[t].st = "none")
  <2>1. task \in [Tasks -> TaskRecord]
    BY DEF IOInv, TaskTypes
  <2>2. task' = [task EXCEPT ![s] = [NewTask EXCEPT !.op = op]]
    BY <1>9 DEF subscribe
  <2>3. /\ \A t \in Tasks : t # s => task'[t].st = task[t].st
        /\ task'[s].st = "new"
    BY <1>4, <2>1, <2>2 DEF NewTask, NoTask
  <2>4. ASSUME NEW t \in Ends, Core(t) = "cli" PROVE t[2] > connected' <=> task'[t].st = "none"
    <3>1. t[2] \in 1..ClientCount /\ t \in Tasks
      BY EndFacts
    <3>2. t[2] > connected <=> task[t].st = "none"
      BY <2>4 DEF IOInv, FlowSound, ConnectionSound, ClientSound
    <3>3. CASE t = s
      BY <1>1, <1>2, <1>4, <2>3, <3>3
    <3>4. CASE t # s
      <4>1. t[2] # s[2]
        BY <1>4, <2>4, <3>4, SameEnd
      <4> QED
        BY <1>1, <1>2, <1>4, <2>3, <3>1, <3>2, <3>4, <4>1
    <3> QED
      BY <3>3, <3>4
  <2> QED
    BY <2>3, <2>4
<1>10. CASE /\ subscribe(s, "connect") /\ sock' = [sock EXCEPT ![s].st = "connecting"]
            /\ UNCHANGED <<backlog, ready>>
  <2>1. /\ sock' \in [Ends -> SockRecord] /\ (\A t \in Ends : sock'[t].bytes = sock[t].bytes)
        /\ BacklogSound' /\ \A t \in Ends : SockSound(t)' /\ ConnectionSound(t)'
    BY <1>4, <1>6, <1>9, <1>10, ConnectingSound
  <2>2. backlog' \in Seq(1..ClientCount) /\ ready' \in [Cores -> SUBSET Tasks] /\ ready' = ready
    BY <1>10 DEF IOInv, KernelTypes
  <2>3. Subscribes(s, "connect")
    BY <1>1, <1>4, <1>6, <1>7, <1>8, <1>10, <2>1, <2>2 DEF Subscribes, contextVars
  <2> QED
    BY <1>4, <2>1, <2>3, SubscribeInv
<1>11. CASE /\ subscribe(s, "send") /\ sock' = [sock EXCEPT ![s].st = "open", ![Peer(s)].st = "open"]
            /\ backlog' = Append(backlog, s[2]) /\ WakeUp({Listener})
  <2>1. Opens(s)
    BY <1>6, <1>9, <1>11 DEF Opens
  <2>2. /\ sock' \in [Ends -> SockRecord] /\ (\A t \in Ends : sock'[t].bytes = sock[t].bytes)
        /\ backlog' \in Seq(1..ClientCount) /\ BacklogSound'
        /\ \A t \in Ends : SockSound(t)' /\ ConnectionSound(t)'
    BY <1>4, <1>6, <2>1, OpensSound
  <2>3. /\ ready' \in [Cores -> SUBSET Tasks]
        /\ \A c \in Cores : \A t \in ready'[c] :
             t \in ready[c] \/ (t \in Tasks /\ Core(t) = c /\ Registered(t))
    <3>1. {Listener} \subseteq Tasks
      BY CoreFacts
    <3> QED
      BY <1>11, <3>1, WakeUpFacts DEF IOInv
  <2>4. Subscribes(s, "send")
    BY <1>1, <1>4, <1>6, <1>7, <1>8, <1>11, <2>2, <2>3 DEF Subscribes, contextVars
  <2> QED
    BY <1>4, <2>2, <2>4, SubscribeInv
<1> QED
  BY <1>7, <1>10, <1>11 DEF AsyncConnect


-----------------------------------------------------------------------------
(* The invariant.                                                          *)
LEMMA IOInit == Init => IOInv
<1> SUFFICES ASSUME Init PROVE IOInv
  OBVIOUS
<1>1. /\ Listener \in Tasks /\ Listener \notin Ends /\ Core(Listener) = "srv"
      /\ \A c \in Cores : Core(EventSub(c)) = c /\ EventSub(c) \in Tasks /\ EventSub(c) \notin Ends
                          /\ EventSub(c) # Listener
  BY CoreFacts
<1>2. \A t \in Ends : t \in Tasks /\ Peer(t) \in Ends /\ Peer(t) \in Tasks /\ t[2] \in 1..ClientCount
  BY EndFacts
<1>3. task = [t \in Tasks |-> CASE t = Listener -> [NewTask EXCEPT !.op = "accept"]
                                [] t \in Ends -> NoTask
                                [] OTHER -> NewTask]
  BY DEF Init
<1>4. /\ task[Listener] = [NewTask EXCEPT !.op = "accept"]
      /\ \A t \in Ends : task[t] = NoTask
      /\ \A t \in Tasks : t # Listener /\ t \notin Ends => task[t] = NewTask
  BY <1>1, <1>2, <1>3
<1>5. /\ NewTask \in TaskRecord /\ NoTask \in TaskRecord /\ [NewTask EXCEPT !.op = "accept"] \in TaskRecord
      /\ NewTask.st = "new" /\ NewTask.op = "none" /\ NewTask.recvs = 0
      /\ NoTask.st = "none" /\ NoTask.op = "none" /\ NoTask.recvs = 0
      /\ [NewTask EXCEPT !.op = "accept"].st = "new" /\ [NewTask EXCEPT !.op = "accept"].op = "accept"
  BY DEF NewTask, NoTask, TaskRecord, States, Ops, Bits
<1>6. task \in [Tasks -> TaskRecord]
  BY <1>3, <1>4, <1>5
<1>7. /\ task[Listener].st = "new" /\ task[Listener].op = "accept"
      /\ \A t \in Ends : task[t].st = "none" /\ task[t].op = "none" /\ task[t].recvs = 0
      /\ \A c \in Cores : task[EventSub(c)].st = "new" /\ task[EventSub(c)].op = "none"
  BY <1>1, <1>4, <1>5
<1>8. \A t \in Tasks : task[t].st = "none" \/ task[t].st = "new"
  BY <1>4, <1>5
<1>9. /\ myTasks = [c \in Cores |-> <<>>] /\ mySize = [c \in Cores |-> Len(myQueue[c])]
      /\ myQueue = [c \in Cores |-> IF c = "srv" THEN <<EventSub(c), Listener>> ELSE <<EventSub(c)>>]
  BY DEF Init
<1>10. /\ myQueue["cli"] = <<EventSub("cli")>> /\ myQueue["srv"] = <<EventSub("srv"), Listener>>
       /\ \A c \in Cores : myTasks[c] = <<>> /\ mySize[c] = Len(myQueue[c])
  BY <1>9, CoreFacts
<1>11. /\ myQueue["cli"] \in Seq(Tasks) /\ Len(myQueue["cli"]) = 1 /\ myQueue["cli"][1] = EventSub("cli")
       /\ myQueue["srv"] \in Seq(Tasks) /\ Len(myQueue["srv"]) = 2
       /\ myQueue["srv"][1] = EventSub("srv") /\ myQueue["srv"][2] = Listener
  BY <1>1, <1>10, CoreFacts
<1>12. TaskTypes
  <2>1. myTasks \in [Cores -> Seq(Tasks)]
    BY <1>9
  <2>2. myQueue \in [Cores -> Seq(Tasks)]
    BY <1>9, <1>11, CoreFacts
  <2>3. mySize \in [Cores -> Nat]
    BY <1>9, <1>11, CoreFacts
  <2> QED
    BY <1>6, <2>1, <2>2, <2>3 DEF TaskTypes
<1>13. ThreadTypes
  <2>1. NoCoro \in [task : Tasks, next : Jobs]
    BY <1>1 DEF NoCoro, Jobs
  <2>2. coro \in [Cores -> [task : Tasks, next : Jobs]]
    BY <2>1 DEF Init
  <2>3. pc \in [Cores -> Points] /\ myIsStopped \in [Cores -> BOOLEAN]
    BY DEF Init, Points
  <2>4. main \in Stages /\ serverFinished \in BOOLEAN
    BY DEF Init, Stages
  <2>5. connected \in 0..ClientCount /\ finished \in Nat
    BY IOCoroAssumption DEF Init
  <2> QED
    BY <2>2, <2>3, <2>4, <2>5 DEF ThreadTypes
<1>14. KernelTypes
  <2>1. NoSock \in SockRecord
    BY DEF NoSock, SockRecord, SockStates
  <2> QED
    BY <2>1 DEF Init, KernelTypes
<1>15. pc = [c \in Cores |-> IF c = "srv" THEN "check" ELSE "off"]
  BY DEF Init
<1>16. pc["cli"] = "off" /\ pc["srv"] = "check" /\ \A c \in Cores : pc[c] \in {"off", "check"}
  BY <1>15, CoreFacts
<1>17. \A t \in Tasks : Does(t) = task[t].op
  BY <1>16, TaskKinds DEF Does, Running
<1>18. ListsSound
  <2>1. ASSUME NEW c \in Cores PROVE Indexed(c) /\ Queued(c) /\ mySize[c] >= Len(myQueue[c])
    <3>1. Indexed(c)
      BY <1>10 DEF Indexed
    <3>2. CASE c = "cli"
      BY <1>1, <1>7, <1>10, <1>11, <3>1, <3>2 DEF Queued
    <3>3. CASE c = "srv"
      BY <1>1, <1>7, <1>10, <1>11, <3>1, <3>3 DEF Queued
    <3> QED
      BY <3>2, <3>3, CoreFacts
  <2>2. ASSUME NEW t \in Tasks PROVE Placed(t) /\ Listed(t)
    <3>1. Placed(t)
      BY <1>8 DEF Placed, Live
    <3>2. CASE t \in Ends
      BY <1>7, <3>1, <3>2 DEF Listed
    <3>3. CASE t = Listener
      BY <1>1, <1>11, <3>1, <3>3 DEF Listed
    <3>4. CASE t = EventSub(Core(t))
      <4>1. Core(t) = "cli" \/ Core(t) = "srv"
        BY TaskKinds, CoreFacts
      <4> QED
        BY <1>11, <3>1, <3>4, <4>1 DEF Listed
    <3> QED
      BY <3>2, <3>3, <3>4, TaskKinds
  <2> QED
    BY <2>1, <2>2 DEF ListsSound
<1>19. UsesSound
  <2> SUFFICES ASSUME NEW c \in Cores PROVE ReadySound(c) /\ BatchSound(c) /\ CoroSound(c)
    BY DEF UsesSound
  <2>1. ready[c] = {} /\ DOMAIN batch[c] = {}
    BY DEF Init, NoEvents
  <2> QED
    BY <1>16, <2>1 DEF ReadySound, BatchSound, CoroSound
<1>20. \A t \in Ends : /\ sock[t].st = "none" /\ sock[t].bytes = 0 /\ sock[t].fin = FALSE
                       /\ sock[t].reset = FALSE
  BY DEF Init, NoSock
<1>21. connected = 0 /\ backlog = <<>> /\ main = "connect" /\ finished = 0
       /\ serverFinished = FALSE /\ failed = FALSE /\ \A c \in Cores : myIsStopped[c] = FALSE
  BY DEF Init
<1>22. FlowSound
  <2> SUFFICES ASSUME NEW t \in Ends
               PROVE  EndSound(t) /\ Conserved(t) /\ SockSound(t) /\ ConnectionSound(t)
    BY DEF FlowSound
  <2>1. Does(t) = "none" /\ Does(Peer(t)) = "none"
    BY <1>2, <1>7, <1>17
  <2>2. EndSound(t)
    BY <1>7, <2>1, IOCoroAssumption DEF EndSound, Gone
  <2>3. Conserved(t)
    BY <1>2, <1>7, <1>20, <2>1 DEF Conserved, Received, Sent, Gone
  <2>4. SockSound(t)
    BY <1>2, <1>7, <1>20, IOCoroAssumption DEF SockSound
  <2>5. ~InBacklog(t[2])
    BY <1>21 DEF InBacklog
  <2>6. ClientSound(t) /\ ServerSound(t)
    BY <1>2, <1>7, <1>20, <1>21, <2>5 DEF ClientSound, ServerSound
  <2> QED
    BY <2>2, <2>3, <2>4, <2>6 DEF ConnectionSound
<1>23. ListenerSound
  BY <1>1, <1>7, <1>17 DEF ListenerSound
<1>24. SubsSound
  <2> SUFFICES ASSUME NEW c \in Cores PROVE EventSubSound(c)
    BY DEF SubsSound
  <2>1. myQueue[c] # <<>> /\ myQueue[c][1] = EventSub(c)
    BY <1>11, CoreFacts
  <2> QED
    BY <1>7, <1>8, <2>1 DEF EventSubSound
<1>25. BacklogSound
  BY <1>21 DEF BacklogSound
<1>26. \A t \in Ends : ~Done(t)
  BY <1>2, <1>7, <1>17 DEF Done, Gone
<1>27. FinishedSound
  <2>1. DoneEnds = {}
    BY <1>26 DEF DoneEnds
  <2> QED
    BY <1>21, <2>1, FS_EmptySet DEF FinishedSound
<1>28. StagesSound
  BY <1>1, <1>7, <1>21, CoreFacts DEF StagesSound, Gone, Stopping, Down
<1>29. ThreadsSound
  BY <1>16, <1>21, CoreFacts DEF ThreadsSound, Down
<1> QED
  BY <1>12, <1>13, <1>14, <1>18, <1>19, <1>21, <1>22, <1>23, <1>24, <1>25, <1>27, <1>28, <1>29 DEF IOInv

LEMMA IOStutter ==
    ASSUME IOInv, UNCHANGED vars
    PROVE  IOInv'
<1>1. /\ UNCHANGED <<task, myTasks, myQueue, mySize, batch, pc, coro, main, connected, myIsStopped,
                     finished, serverFinished, sock, backlog, signalled, ready, failed>>
  BY DEF vars, coreVars, threadVars, mainVars, contextVars, kernelVars
<1>2. Quiet
  BY <1>1 DEF Quiet
<1>3. QuietChange
  BY <1>1, <1>2, SizesFit, NoBatch DEF QuietChange, IOInv, ThreadTypes, KernelTypes
<1>4. StagesSound'
  BY <1>1, <1>2, QuietStages DEF IOInv
<1>5. ThreadsSound'
  BY <1>1 DEF IOInv, ThreadsSound
<1> QED
  BY <1>3, <1>4, <1>5, QuietInv

LEMMA IONext ==
    ASSUME IOInv, [Next]_vars
    PROVE  IOInv'
<1>1. ASSUME NEW c \in Cores, CoreStep(c) PROVE IOInv'
  <2>1. CASE CheckStopped(c)
    BY <2>1, CheckStoppedInv
  <2>2. CASE processQueues(c)
    BY <2>2, processQueuesInv
  <2>3. CASE AddTask(c)
    BY <2>3, AddTaskInv
  <2>4. CASE DropTask(c)
    BY <2>4, DropTaskInv
  <2>5. CASE Drained(c)
    BY <2>5, DrainedInv
  <2>6. CASE epoll_wait(c)
    BY <2>6, epoll_waitInv
  <2>7. CASE \E t \in Tasks : Event(c, t)
    BY <2>7, EventInv
  <2>8. CASE EndOfBatch(c)
    BY <2>8, EndOfBatchInv
  <2>9. CASE Accept(c)
    BY <2>9, AcceptInv
  <2>10. ASSUME NEW t \in Ends, Send(c, t) PROVE IOInv'
    BY <2>10, SendInv
  <2>11. ASSUME NEW t \in Ends, Recv(c, t) PROVE IOInv'
    BY <2>11, RecvInv
  <2>12. ASSUME NEW t \in Ends, Finish(c, t) PROVE IOInv'
    BY <2>12, FinishInv
  <2>13. ASSUME NEW t \in Ends, DeleteClient(c, t) PROVE IOInv'
    BY <2>13, DeleteClientInv
  <2> QED
    BY <1>1, <2>1, <2>2, <2>3, <2>4, <2>5, <2>6, <2>7, <2>8, <2>9, <2>10, <2>11, <2>12, <2>13
       DEF CoreStep, CoroStep
<1>2. CASE MainStep
  <2>1. CASE connectAndRun
    BY <2>1, connectAndRunInv
  <2>2. CASE StartClientThread
    BY <2>2, StartClientThreadInv
  <2>3. CASE StopClients
    BY <2>3, StopClientsInv
  <2>4. CASE StopServer
    BY <2>4, StopServerInv
  <2>5. CASE StopServerCore
    BY <2>5, StopServerCoreInv
  <2>6. CASE DestroyClientCore
    BY <2>6, DestroyCoreInv, CoreFacts DEF DestroyClientCore
  <2>7. CASE DestroyServerCore
    BY <2>7, DestroyCoreInv, CoreFacts DEF DestroyServerCore
  <2>8. CASE Leave
    BY <2>8, LeaveInv
  <2> QED
    BY <1>2, <2>1, <2>2, <2>3, <2>4, <2>5, <2>6, <2>7, <2>8 DEF MainStep
<1>3. CASE Handshake
  BY <1>3, EstablishedInv DEF Handshake
<1>4. CASE UNCHANGED vars
  BY <1>4, IOStutter
<1> QED
  BY <1>1, <1>2, <1>3, <1>4 DEF Next

(* The invariant of the event loop and the program on it: the lists of the *)
(* cores and the indexes agree, every byte sent was received or is in the  *)
(* kernel, a coroutine is suspended at most once, an end is closed only    *)
(* after it has received all, and the main thread takes down what is done. *)
THEOREM IOInvariant == Spec => []IOInv
<1>1. Init => IOInv
  BY IOInit
<1>2. IOInv /\ [Next]_vars => IOInv'
  BY IONext
<1> QED
  BY <1>1, <1>2, PTL DEF Spec

(* For any number of clients and requests no assert() of the event loop    *)
(* and of the program fails: no operation is overwritten, no socket is     *)
(* reset or ends while a client waits, nothing is left at the end.         *)
THEOREM NoAssertEverFails == Spec => []NoAssertFails
<1>1. IOInv => NoAssertFails
  BY DEF IOInv, NoAssertFails
<1> QED
  BY <1>1, IOInvariant, PTL


-----------------------------------------------------------------------------
(* Only the end of a connection receives.                                  *)
OthersIdle == \A t \in Tasks : t \notin Ends => task[t].recvs = 0
RecvsKept == \A t \in Tasks : t \notin Ends => task'[t].recvs \in {task[t].recvs, 0}

LEMMA FieldsKeep ==
    ASSUME task \in [Tasks -> TaskRecord], NEW s \in Tasks, NEW x, NEW y,
           \/ task' = [task EXCEPT ![s].st = x]
           \/ task' = [task EXCEPT ![s].bits = x]
           \/ task' = [task EXCEPT ![s].bits = x, ![s].op = y]
           \/ task' = [task EXCEPT ![s].op = x, ![s].bits = y]
    PROVE  RecvsKept
<1>1. \A t \in Tasks : t # s => task'[t] = task[t]
  OBVIOUS
<1>2. task[s] \in TaskRecord
  OBVIOUS
<1>3. \/ task'[s] = [task[s] EXCEPT !.st = x] \/ task'[s] = [task[s] EXCEPT !.bits = x]
      \/ task'[s] = [task[s] EXCEPT !.bits = x, !.op = y] \/ task'[s] = [task[s] EXCEPT !.op = x, !.bits = y]
  OBVIOUS
<1>4. task'[s].recvs = task[s].recvs
  BY <1>2, <1>3 DEF TaskRecord
<1> QED
  BY <1>1, <1>4 DEF RecvsKept

LEMMA UnsubscribeRecvs ==
    ASSUME IOInv, NEW s \in Tasks, unsubscribe(s)
    PROVE  RecvsKept
<1>1. task \in [Tasks -> TaskRecord] /\ task' = [task EXCEPT ![s].st = "deleting"]
  BY DEF IOInv, TaskTypes, unsubscribe, Doomed
<1> QED
  BY <1>1, FieldsKeep

LEMMA SuspendRecvs ==
    ASSUME IOInv, NEW c \in Cores, NEW s \in Tasks, NEW op, Suspend(c, s, op)
    PROVE  RecvsKept
<1>1. PICK bits : bits = task[s].bits \ {Bit(op)}
  OBVIOUS
<1>2. task \in [Tasks -> TaskRecord] /\ task' = [task EXCEPT ![s].op = op, ![s].bits = bits]
  BY <1>1 DEF IOInv, TaskTypes, Suspend
<1> QED
  BY <1>2, FieldsKeep

LEMMA SubscribeRecvs ==
    ASSUME IOInv, NEW s \in Tasks, NEW op, subscribe(s, op)
    PROVE  RecvsKept
<1>1. PICK r : r = [NewTask EXCEPT !.op = op]
  OBVIOUS
<1>2. r.recvs = 0
  BY <1>1 DEF NewTask, NoTask
<1>3. task \in [Tasks -> TaskRecord] /\ task' = [task EXCEPT ![s] = r]
  BY <1>1 DEF IOInv, TaskTypes, subscribe
<1> QED
  BY <1>2, <1>3 DEF RecvsKept

LEMMA EventRecvs ==
    ASSUME IOInv, NEW c \in Cores, NEW s \in Tasks, Event(c, s)
    PROVE  RecvsKept
<1>1. PICK bits : bits = Events(s, batch[c][s])
  OBVIOUS
<1>2. task \in [Tasks -> TaskRecord]
  BY DEF IOInv, TaskTypes
<1>3. \/ task' = [task EXCEPT ![s].bits = bits, ![s].op = "none"]
      \/ task' = [task EXCEPT ![s].bits = bits]
  BY <1>1 DEF Event, Taken
<1> QED
  BY <1>2, <1>3, FieldsKeep

LEMMA RecvRecvs ==
    ASSUME IOInv, NEW c \in Cores, NEW s \in Ends, Recv(c, s)
    PROVE  RecvsKept
<1>1. s \in Tasks /\ task \in [Tasks -> TaskRecord]
  BY EndFacts DEF IOInv, TaskTypes
<1>2. CASE Suspend(c, s, "recv")
  BY <1>1, <1>2, SuspendRecvs
<1>3. CASE task' = [task EXCEPT ![s].recvs = @ + 1]
  BY <1>1, <1>3 DEF RecvsKept
<1> QED
  BY <1>2, <1>3 DEF Recv

LEMMA RecvsNext ==
    ASSUME IOInv, Next
    PROVE  RecvsKept
<1>0. ASSUME task' = task PROVE RecvsKept
  BY <1>0 DEF RecvsKept
<1>e. \A t \in Ends : t \in Tasks
  BY EndFacts
<1>1. ASSUME NEW c \in Cores, CoreStep(c) PROVE RecvsKept
  <2>1. CASE CheckStopped(c) \/ processQueues(c) \/ Drained(c) \/ epoll_wait(c) \/ EndOfBatch(c)
    BY <1>0, <2>1 DEF CheckStopped, processQueues, Drained, epoll_wait, EndOfBatch, coreVars
  <2>2. CASE AddTask(c)
    <3>1. PICK s : s = Head(myQueue[c])
      OBVIOUS
    <3>2. (\A t \in Tasks : t # s => task'[t] = task[t]) /\ task'[s].recvs = task[s].recvs
      BY <2>2, <3>1, AddTaskFacts
    <3> QED
      BY <3>2 DEF RecvsKept
  <2>3. CASE DropTask(c)
    <3>1. PICK s : s = Head(myQueue[c])
      OBVIOUS
    <3>2. (\A t \in Tasks : t # s => task'[t].recvs = task[t].recvs) /\ task'[s].recvs = 0
      BY <2>3, <3>1, DropTaskFacts DEF NoTask
    <3> QED
      BY <3>2 DEF RecvsKept
  <2>4. CASE \E t \in Tasks : Event(c, t)
    BY <2>4, EventRecvs
  <2>5. CASE Accept(c)
    <3>1. CASE Suspend(c, Listener, "accept")
      BY <3>1, SuspendRecvs, CoreFacts
    <3>2. CASE wrapAndRun(<<c, Head(backlog)>>) /\ backlog # <<>>
      <4>1. PICK k : k = Head(backlog)
        OBVIOUS
      <4>2. k \in 1..ClientCount
        <5>1. backlog \in Seq(1..ClientCount)
          BY DEF IOInv, KernelTypes
        <5> QED
          BY <3>2, <4>1, <5>1, TailFacts
      <4>3. PICK s : s = <<c, k>>
        OBVIOUS
      <4>4. s \in Ends /\ subscribe(s, "send")
        BY <3>2, <4>1, <4>2, <4>3, NumberedEnd DEF wrapAndRun
      <4> QED
        BY <1>e, <4>4, SubscribeRecvs
    <3> QED
      BY <2>5, <3>1, <3>2 DEF Accept
  <2>6. ASSUME NEW t \in Ends, Send(c, t) PROVE RecvsKept
    BY <1>0, <1>e, <2>6, SuspendRecvs DEF Send
  <2>7. ASSUME NEW t \in Ends, Recv(c, t) PROVE RecvsKept
    BY <2>7, RecvRecvs
  <2>8. ASSUME NEW t \in Ends, Finish(c, t) PROVE RecvsKept
    BY <1>0, <2>8 DEF Finish, coreVars
  <2>9. ASSUME NEW t \in Ends, DeleteClient(c, t) PROVE RecvsKept
    BY <1>e, <2>9, UnsubscribeRecvs DEF DeleteClient
  <2> QED
    BY <1>1, <2>1, <2>2, <2>3, <2>4, <2>5, <2>6, <2>7, <2>8, <2>9 DEF CoreStep, CoroStep
<1>2. CASE MainStep
  <2>1. CASE connectAndRun
    <3>1. PICK k : k = connected + 1
      OBVIOUS
    <3>2. k \in 1..ClientCount
      BY <2>1, <3>1, IOCoroAssumption DEF connectAndRun, IOInv, ThreadTypes
    <3>3. PICK s : s = <<"cli", k>>
      OBVIOUS
    <3>4. s \in Ends /\ AsyncConnect(s)
      BY <2>1, <3>1, <3>2, <3>3, NumberedEnd, CoreFacts DEF connectAndRun
    <3> QED
      BY <1>e, <3>4, SubscribeRecvs DEF AsyncConnect
  <2>2. CASE StartClientThread \/ StopClients \/ StopServerCore \/ Leave
    BY <1>0, <2>2 DEF StartClientThread, StopClients, StopServerCore, Leave, coreVars
  <2>3. CASE StopServer
    BY <2>3, UnsubscribeRecvs, CoreFacts DEF StopServer
  <2>4. CASE DestroyClientCore \/ DestroyServerCore
    BY <2>4, UnsubscribeRecvs, CoreFacts DEF DestroyClientCore, DestroyServerCore, DestroyCore
  <2> QED
    BY <1>2, <2>1, <2>2, <2>3, <2>4 DEF MainStep
<1>3. CASE Handshake
  BY <1>0, <1>3 DEF Handshake, Established, coreVars
<1> QED
  BY <1>1, <1>2, <1>3 DEF Next

LEMMA OthersStayIdle == Spec => []OthersIdle
<1>1. Init => OthersIdle
  <2>1. NewTask.recvs = 0 /\ [NewTask EXCEPT !.op = "accept"].recvs = 0
    BY DEF NewTask, NoTask
  <2> QED
    BY <2>1 DEF Init, OthersIdle
<1>2. IOInv /\ OthersIdle /\ [Next]_vars => OthersIdle'
  <2> SUFFICES ASSUME IOInv, OthersIdle, [Next]_vars PROVE OthersIdle'
    OBVIOUS
  <2>1. CASE Next
    BY <2>1, RecvsNext DEF RecvsKept, OthersIdle
  <2>2. CASE UNCHANGED vars
    BY <2>2 DEF vars, coreVars, OthersIdle
  <2> QED
    BY <2>1, <2>2
<1> QED
  BY <1>1, <1>2, IOInvariant, PTL DEF Spec

(* For any number of clients and requests the lists of a core and its      *)
(* tasks agree, whatever processQueues adds and drops in one go, and no    *)
(* task that was deleted is used by an event, by the ready list or by a    *)
(* coroutine.                                                              *)
THEOREM TasksStaySound == Spec => []TasksSound
<1>1. IOInv /\ OthersIdle => TasksSound
  <2> SUFFICES ASSUME IOInv, OthersIdle PROVE TasksSound
    OBVIOUS
  <2>1. IOCoroTypeOK
    <3>1. ASSUME NEW t \in Tasks
          PROVE  /\ task[t].st \in States /\ task[t].bits \subseteq {"R", "W", "H"}
                 /\ task[t].op \in Ops \cup {"none"} /\ task[t].recvs \in 0..Requests
      <4>1. task[t] \in TaskRecord
        BY DEF IOInv, TaskTypes
      <4>2. /\ task[t].st \in States /\ task[t].bits \subseteq {"R", "W", "H"}
            /\ task[t].op \in Ops \cup {"none"} /\ task[t].recvs \in Nat
        BY <4>1 DEF TaskRecord, Bits
      <4>3. task[t].recvs <= Requests
        BY IOCoroAssumption DEF IOInv, FlowSound, EndSound, OthersIdle
      <4> QED
        BY <4>2, <4>3, IOCoroAssumption
    <3>2. ASSUME NEW t \in Ends PROVE sock[t].bytes \in 0..Cap
      <4>1. sock[t] \in SockRecord /\ SockSound(t)
        BY DEF IOInv, KernelTypes, FlowSound
      <4>2. sock[t].bytes \in Nat /\ sock[t].bytes <= Cap
        BY <4>1 DEF SockRecord, SockSound
      <4> QED
        BY <4>2, IOCoroAssumption
    <3>3. finished \in 0..(2 * ClientCount)
      <4>1. DoneEnds \subseteq Ends
        BY DEF DoneEnds
      <4>2. Cardinality(DoneEnds) <= Cardinality(Ends) /\ IsFiniteSet(DoneEnds)
        BY <4>1, EndsFinite, FS_Subset
      <4>3. finished \in Nat /\ finished <= 2 * ClientCount
        BY <4>2, EndsFinite DEF IOInv, FinishedSound, ThreadTypes
      <4> QED
        BY <4>3, IOCoroAssumption
    <3> QED
      BY <3>1, <3>2, <3>3 DEF IOCoroTypeOK
  <2>2. IndexesAgree
    <3> SUFFICES ASSUME NEW c \in Cores
                 PROVE  /\ \A i \in DOMAIN myTasks[c] : /\ task[myTasks[c][i]].idx = i
                                                        /\ task[myTasks[c][i]].st \in {"working", "deleting"}
                        /\ IsInjective(myQueue[c])
                        /\ \A t \in Tasks : Core(t) = c =>
                             (t \in Range(myQueue[c]) <=> task[t].st \in {"new", "deleting"})
      BY DEF IndexesAgree
    <3>1. myTasks[c] \in Seq(Tasks) /\ myQueue[c] \in Seq(Tasks)
      BY DEF IOInv, TaskTypes
    <3>2. DOMAIN myTasks[c] = 1..Len(myTasks[c]) /\ DOMAIN myQueue[c] = 1..Len(myQueue[c])
      BY <3>1
    <3>3. Indexed(c) /\ Queued(c) /\ \A t \in Tasks : Listed(t)
      BY DEF IOInv, ListsSound
    <3>4. \A i \in DOMAIN myTasks[c] : /\ task[myTasks[c][i]].idx = i
                                       /\ task[myTasks[c][i]].st \in {"working", "deleting"}
      BY <3>2, <3>3 DEF Indexed, Live
    <3>5. IsInjective(myQueue[c])
      BY <3>2, <3>3 DEF IsInjective, Queued
    <3>6. ASSUME NEW t \in Tasks, Core(t) = c
          PROVE  t \in Range(myQueue[c]) <=> task[t].st \in {"new", "deleting"}
      <4>1. t \in Range(myQueue[c]) <=> \E i \in 1..Len(myQueue[c]) : myQueue[c][i] = t
        BY <3>2 DEF Range
      <4> QED
        BY <3>3, <3>6, <4>1 DEF Queued, Listed
    <3> QED
      BY <3>4, <3>5, <3>6
  <2>3. NoUseAfterFree
    <3> SUFFICES ASSUME NEW c \in Cores,
                        NEW t \in DOMAIN batch[c] \cup ready[c] \cup (IF pc[c] = "coro" THEN {coro[c].task} ELSE {})
                 PROVE  task[t].st \in {"working", "deleting"}
      BY DEF NoUseAfterFree
    <3>1. ReadySound(c) /\ BatchSound(c) /\ CoroSound(c)
      BY DEF IOInv, UsesSound
    <3>2. CASE t \in DOMAIN batch[c]
      BY <3>1, <3>2 DEF BatchSound, Live
    <3>3. CASE t \in ready[c]
      BY <3>1, <3>3 DEF ReadySound, Live
    <3>4. CASE pc[c] = "coro" /\ t = coro[c].task
      BY <3>1, <3>4 DEF CoroSound, Live
    <3> QED
      BY <3>2, <3>3, <3>4
  <2> QED
    BY <2>1, <2>2, <2>3 DEF TasksSound
<1> QED
  BY <1>1, IOInvariant, OthersStayIdle, PTL


-----------------------------------------------------------------------------
(* Edges: no event is missed.                                              *)
AnnouncedKept(t) == \A b \in {"R", "W"} : Announced(t, b) => Announced(t, b)'

(* Nothing that EdgeSound says of t changes.                               *)
EdgeKept(t) ==
    /\ task'[t].st = "working" =>
         task[t].st = "working" /\ task'[t].op = task[t].op /\ task'[t].bits = task[t].bits
    /\ sock'[t] = sock[t] /\ sock'[Peer(t)].bytes = sock[Peer(t)].bytes
    /\ AnnouncedKept(t)
LEMMA EdgeStays ==
    ASSUME NEW t \in Ends, EdgeSound(t), EdgeKept(t)
    PROVE  EdgeSound(t)'
<1>1. (Readable(t)' <=> Readable(t)) /\ (Writable(t)' <=> Writable(t)) /\ sock'[t] = sock[t]
  BY DEF EdgeKept, Readable, Writable
<1>2. (Announced(t, "R") => Announced(t, "R")') /\ (Announced(t, "W") => Announced(t, "W")')
  BY DEF EdgeKept, AnnouncedKept
<1>3. task'[t].st = "working" =>
        task[t].st = "working" /\ task'[t].op = task[t].op /\ task'[t].bits = task[t].bits
  BY DEF EdgeKept
<1> QED
  BY <1>1, <1>2, <1>3 DEF EdgeSound

(* The task is in the ready list, whatever has become possible.            *)
LEMMA EdgeWoken ==
    ASSUME NEW t \in Ends, t \in ready'[Core(t)],
           task'[t].st = "working" =>
             /\ task'[t].op = "recv" => "R" \notin task'[t].bits
             /\ (task'[t].op \in {"send", "connect"} /\ sock'[t].st = "open" /\ ~Writable(t)') =>
                  sock'[t].full = TRUE
             /\ task'[t].op \notin {"send", "connect"} => "W" \in task'[t].bits
    PROVE  EdgeSound(t)'
<1>1. Announced(t, "R")' /\ Announced(t, "W")'
  BY DEF Announced
<1> QED
  BY <1>1 DEF EdgeSound

LEMMA ListenerStays ==
    ASSUME ListenerEdge, AnnouncedKept(Listener),
           task'[Listener].st = "working" /\ task'[Listener].op = "accept" =>
             task[Listener].st = "working" /\ task[Listener].op = "accept",
           backlog' # <<>> => backlog # <<>>
    PROVE  ListenerEdge'
<1>1. Announced(Listener, "R") => Announced(Listener, "R")'
  BY DEF AnnouncedKept
<1> QED
  BY <1>1 DEF ListenerEdge

LEMMA SleepStays ==
    ASSUME NEW c \in Cores, SleepSound(c), pc'[c] = pc[c], myQueue'[c] = myQueue[c],
           myIsStopped'[c] = myIsStopped[c], task'[EventSub(c)].st = task[EventSub(c)].st,
           EventSub(c) \in ready[c] => EventSub(c) \in ready'[c]
    PROVE  SleepSound(c)'
BY DEF SleepSound

LEMMA AnnouncedGrows ==
    ASSUME NEW t \in Tasks, \A c \in Cores : ready[c] \subseteq ready'[c],
           batch'[Core(t)] = batch[Core(t)]
    PROVE  AnnouncedKept(t)
BY TaskKinds DEF AnnouncedKept, Announced

LEMMA QuietEdges ==
    ASSUME EdgesSound, UNCHANGED <<task, sock, backlog, batch>>,
           \A c \in Cores : ready[c] \subseteq ready'[c],
           \A c \in Cores : SleepSound(c)'
    PROVE  EdgesSound'
<1>1. \A t \in Tasks : AnnouncedKept(t)
  BY AnnouncedGrows
<1>2. ASSUME NEW t \in Ends PROVE EdgeSound(t)'
  <2>1. EdgeKept(t)
    BY <1>1, EndFacts DEF EdgeKept
  <2> QED
    BY <2>1, EdgeStays DEF EdgesSound
<1>3. ListenerEdge'
  BY <1>1, ListenerStays, CoreFacts DEF EdgesSound
<1> QED
  BY <1>2, <1>3 DEF EdgesSound

(* The eventfd has been added when the queue was processed.                *)
LEMMA SubWorks ==
    ASSUME IOInv, NEW c \in Cores, myQueue[c] = <<>>,
           pc[c] = "queues" \/ (pc[c] = "drain" /\ main \notin {"~cli", "~srv"})
    PROVE  task[EventSub(c)].st = "working"
<1>1. EventSub(c) \in Tasks /\ task[EventSub(c)].st # "none" /\ task[EventSub(c)].st # "new"
  BY CoreFacts DEF IOInv, SubsSound, EventSubSound
<1>2. task[EventSub(c)].st \in States
  BY <1>1 DEF IOInv, TaskTypes, TaskRecord
<1>3. ~Gone(EventSub(c))
  BY CoreFacts DEF IOInv, StagesSound, ThreadsSound, Down
<1> QED
  BY <1>1, <1>2, <1>3 DEF States, Gone

(* The thread of a core: only its point changes, and its eventfd is ready  *)
(* when it must not sleep.                                                 *)
LEMMA PointEdges ==
    ASSUME IOInv, EdgesSound, NEW c \in Cores, NEW p, pc' = [pc EXCEPT ![c] = p],
           UNCHANGED <<task, sock, backlog, batch, ready, myQueue, myIsStopped>>,
           SleepSound(c)'
    PROVE  EdgesSound'
<1>1. \A d \in Cores : d # c => pc'[d] = pc[d]
  BY DEF IOInv, ThreadTypes
<1>2. ASSUME NEW d \in Cores PROVE SleepSound(d)'
  BY <1>1, SleepStays DEF EdgesSound
<1> QED
  BY <1>2, QuietEdges

LEMMA CheckStoppedEdges ==
    ASSUME IOInv, EdgesSound, NEW c \in Cores, CheckStopped(c)
    PROVE  EdgesSound'
<1>1. PICK p : p = IF myIsStopped[c] THEN "ended" ELSE "queues"
  OBVIOUS
<1>2. /\ pc' = [pc EXCEPT ![c] = p]
      /\ UNCHANGED <<task, sock, backlog, batch, ready, myQueue, myIsStopped>>
  BY <1>1 DEF CheckStopped, coreVars, mainVars, kernelVars
<1>3. pc'[c] = p /\ myIsStopped[c] \in BOOLEAN
  BY <1>2 DEF IOInv, ThreadTypes
<1>4. SleepSound(c)'
  BY <1>1, <1>2, <1>3 DEF SleepSound
<1> QED
  BY <1>2, <1>4, PointEdges

LEMMA processQueuesEdges ==
    ASSUME IOInv, EdgesSound, NEW c \in Cores, processQueues(c)
    PROVE  EdgesSound'
<1>1. PICK p : p = IF mySize[c] = 0 \/ myQueue[c] = <<>> THEN "wait" ELSE "drain"
  OBVIOUS
<1>2. /\ pc[c] = "queues" /\ pc' = [pc EXCEPT ![c] = p]
      /\ UNCHANGED <<task, sock, backlog, batch, ready, myQueue, myIsStopped>>
  BY <1>1 DEF processQueues, coreVars, mainVars, kernelVars
<1>3. pc'[c] = p
  BY <1>2 DEF IOInv, ThreadTypes
<1>4. myQueue[c] \in Seq(Tasks) /\ mySize[c] >= Len(myQueue[c])
  BY DEF IOInv, TaskTypes, ListsSound
<1>5. p = "wait" => myQueue[c] = <<>>
  BY <1>1, <1>4
<1>6. p = "wait" => task[EventSub(c)].st = "working"
  BY <1>2, <1>5, SubWorks
<1>7. p \in {"wait", "drain"}
  BY <1>1
<1>8. SleepSound(c)
  BY DEF EdgesSound
<1>9. SleepSound(c)'
  BY <1>2, <1>3, <1>5, <1>6, <1>7, <1>8 DEF SleepSound
<1> QED
  BY <1>2, <1>9, PointEdges

LEMMA DrainedEdges ==
    ASSUME IOInv, EdgesSound, NEW c \in Cores, Drained(c)
    PROVE  EdgesSound'
<1>1. PICK p : p = IF main \in {"~cli", "~srv"} THEN "gone" ELSE "wait"
  OBVIOUS
<1>2. /\ pc[c] = "drain" /\ myQueue[c] = <<>> /\ pc' = [pc EXCEPT ![c] = p]
      /\ UNCHANGED <<task, sock, backlog, batch, ready, myQueue, myIsStopped>>
  BY <1>1 DEF Drained, mainVars, kernelVars
<1>3. pc'[c] = p
  BY <1>2 DEF IOInv, ThreadTypes
<1>4. p = "wait" => task[EventSub(c)].st = "working"
  BY <1>1, <1>2, SubWorks
<1>5. SleepSound(c)
  BY DEF EdgesSound
<1>6. SleepSound(c)'
  BY <1>1, <1>2, <1>3, <1>4, <1>5 DEF SleepSound
<1> QED
  BY <1>2, <1>6, PointEdges

LEMMA EndOfBatchEdges ==
    ASSUME IOInv, EdgesSound, NEW c \in Cores, EndOfBatch(c)
    PROVE  EdgesSound'
<1>1. /\ pc' = [pc EXCEPT ![c] = "check"]
      /\ UNCHANGED <<task, sock, backlog, batch, ready, myQueue, myIsStopped>>
  BY DEF EndOfBatch, coreVars, mainVars, kernelVars
<1>2. SleepSound(c)'
  BY <1>1 DEF SleepSound, IOInv, ThreadTypes
<1> QED
  BY <1>1, <1>2, PointEdges

LEMMA StartClientThreadEdges ==
    ASSUME IOInv, EdgesSound, StartClientThread
    PROVE  EdgesSound'
<1>1. /\ pc' = [pc EXCEPT !["cli"] = "check"] /\ "cli" \in Cores
      /\ UNCHANGED <<task, sock, backlog, batch, ready, myQueue, myIsStopped>>
  BY CoreFacts DEF StartClientThread, coreVars, kernelVars
<1>2. SleepSound("cli")'
  BY <1>1 DEF SleepSound, IOInv, ThreadTypes
<1> QED
  BY <1>1, <1>2, PointEdges

(* stop() wakes up the core.                                               *)
LEMMA StopEdges ==
    ASSUME IOInv, EdgesSound, NEW c \in Cores, wakeup(c),
           myIsStopped' = [myIsStopped EXCEPT ![c] = TRUE],
           UNCHANGED <<task, sock, backlog, batch, pc, myQueue>>
    PROVE  EdgesSound'
<1>1. /\ \A d \in Cores : ready[d] \subseteq ready'[d]
      /\ Registered(EventSub(c)) => EventSub(c) \in ready'[c]
  BY wakeupFacts DEF IOInv
<1>2. task[EventSub(c)].st = "working" => EventSub(c) \in ready'[c]
  BY <1>1, RegisteredLive, CoreFacts DEF IOInv, Live
<1>3. \A d \in Cores : d # c => myIsStopped'[d] = myIsStopped[d]
  BY DEF IOInv, ThreadTypes
<1>4. ASSUME NEW d \in Cores PROVE SleepSound(d)'
  <2>1. SleepSound(d)
    BY DEF EdgesSound
  <2>2. CASE d = c
    BY <1>1, <1>2, <2>1, <2>2 DEF SleepSound
  <2>3. CASE d # c
    BY <1>1, <1>3, <2>1, <2>3, SleepStays
  <2> QED
    BY <2>2, <2>3
<1> QED
  BY <1>1, <1>4, QuietEdges

LEMMA FrameEdges ==
    ASSUME EdgesSound, UNCHANGED <<task, sock, backlog, batch, ready, pc, myQueue, myIsStopped>>
    PROVE  EdgesSound'
<1>1. \A c \in Cores : SleepSound(c)'
  BY SleepStays DEF EdgesSound
<1> QED
  BY <1>1, QuietEdges


(* What is possible is in the mask that epoll_wait reports.                *)
LEMMA MaskTells ==
    ASSUME IOInv, NEW t \in Tasks
    PROVE  /\ t \in Ends => (Readable(t) => "R" \in Mask(t)) /\ (Writable(t) => "W" \in Mask(t))
           /\ t = Listener /\ backlog # <<>> => "R" \in Mask(t)
           /\ t \notin Ends /\ t # Listener => Mask(t) = {"R", "W"}
<1>1. CASE t \notin Ends /\ t # Listener
  <2>1. t \notin Ends \cup {Listener} /\ Core(t) \in signalled
    BY <1>1, TaskKinds DEF IOInv, KernelTypes
  <2> QED
    BY <1>1, <2>1 DEF Mask
<1>2. CASE t = Listener
  <2>1. t \notin Ends
    BY <1>2, CoreFacts
  <2>2. Mask(t) = IF backlog # <<>> THEN {"R"} ELSE {}
    BY <1>2, <2>1 DEF Mask
  <2> QED
    BY <1>2, <2>1, <2>2
<1>3. CASE t \in Ends
  <2>1. t # Listener
    BY <1>3, CoreFacts
  <2>2. Mask(t) = {b \in {"R", "W", "H"} : \/ b = "R" /\ Readable(t)
                                           \/ b = "W" /\ Writable(t)
                                           \/ b = "H" /\ sock[t].reset}
    BY <1>3, <2>1 DEF Mask
  <2> QED
    BY <1>3, <2>1, <2>2
<1> QED
  BY <1>1, <1>2, <1>3

(* An end that has sent nothing can send.                                  *)
LEMMA NothingSent ==
    ASSUME IOInv, NEW t \in Ends, ~Gone(t), Does(t) # "recv", task[t].recvs = 0
    PROVE  sock[Peer(t)].bytes = 0 /\ (sock[t].st = "open" => Writable(t))
<1>1. Peer(t) \in Ends /\ Peer(Peer(t)) = t
  BY EndFacts
<1>2. Sent(t) = 0
  BY DEF Sent
<1>3. Received(Peer(t)) \in Nat /\ sock[Peer(t)].bytes \in Nat /\ Received(Peer(t)) + sock[Peer(t)].bytes = 0
  BY <1>1, <1>2, Counted
<1>4. sock[Peer(t)].bytes = 0
  BY <1>3
<1> QED
  BY <1>4, IOCoroAssumption DEF Writable

LEMMA AddTaskEdges ==
    ASSUME IOInv, EdgesSound, NEW c \in Cores, AddTask(c)
    PROVE  EdgesSound'
<1>1. PICK s : s = Head(myQueue[c])
  OBVIOUS
<1>2. /\ s \in Tasks /\ Core(s) = c
      /\ \A t \in Tasks : t # s => task'[t] = task[t]
      /\ task'[s].op = task[s].op
  BY <1>1, AddTaskFacts
<1>3. /\ pc[c] = "drain" /\ task[s].st = "new"
      /\ task' = [task EXCEPT ![s].st = "working", ![s].bits = {"R", "W"}, ![s].idx = Len(myTasks[c]) + 1]
      /\ ready' = [ready EXCEPT ![c] = @ \cup (IF Mask(s) # {} THEN {s} ELSE {})]
      /\ myQueue' = [myQueue EXCEPT ![c] = Tail(@)]
      /\ UNCHANGED <<pc, batch, myIsStopped, sock, backlog>>
  BY <1>1 DEF AddTask, threadVars, mainVars
<1>4. task'[s].bits = {"R", "W"}
  <2>1. task \in [Tasks -> TaskRecord] /\ task[s] \in TaskRecord
    BY <1>2 DEF IOInv, TaskTypes
  <2>2. task'[s] = [task[s] EXCEPT !.st = "working", !.bits = {"R", "W"}, !.idx = Len(myTasks[c]) + 1]
    BY <1>2, <1>3, <2>1
  <2> QED
    BY <2>1, <2>2 DEF TaskRecord
<1>5. /\ Mask(s) # {} => s \in ready'[c]
      /\ \A d \in Cores : ready[d] \subseteq ready'[d]
      /\ \A d \in Cores : d # c => myQueue'[d] = myQueue[d]
  BY <1>3 DEF IOInv, KernelTypes, TaskTypes
<1>6. \A t \in Tasks : AnnouncedKept(t)
  BY <1>3, <1>5, AnnouncedGrows
<1>7. ASSUME NEW t \in Ends PROVE EdgeSound(t)'
  <2>1. t \in Tasks /\ EdgeSound(t)
    BY EndFacts DEF EdgesSound
  <2>2. CASE t # s
    <3>1. EdgeKept(t)
      BY <1>2, <1>3, <1>6, <2>1, <2>2 DEF EdgeKept
    <3> QED
      BY <2>1, <3>1, EdgeStays
  <2>3. CASE t = s
    <3>1. task[s].op \in {"connect", "send"} /\ task[s].recvs = 0
      BY <1>3, <2>3 DEF IOInv, FlowSound, EndSound
    <3>2. Does(s) = task[s].op
      BY <1>2, <1>3 DEF Does, Running
    <3>3. sock[t].st = "open" => Writable(t)
      BY <1>3, <2>3, <3>1, <3>2, NothingSent DEF Gone
    <3>4. Writable(t) => s \in ready'[c]
      BY <1>2, <1>5, <2>3, MaskTells
    <3>5. Writable(t)' <=> Writable(t)
      BY <1>3 DEF Writable
    <3>6. Writable(t)' => Announced(t, "W")'
      BY <1>2, <2>3, <3>4, <3>5 DEF Announced
    <3> QED
      BY <1>2, <1>3, <1>4, <2>3, <3>1, <3>3, <3>5, <3>6 DEF EdgeSound
  <2> QED
    BY <2>2, <2>3
<1>8. ListenerEdge'
  <2>1. CASE s = Listener
    <3>1. backlog # <<>> => Announced(Listener, "R")'
      BY <1>2, <1>5, <2>1, MaskTells DEF Announced
    <3> QED
      BY <1>3, <3>1 DEF ListenerEdge
  <2>2. CASE s # Listener
    BY <1>2, <1>3, <1>6, <2>2, ListenerStays, CoreFacts DEF EdgesSound
  <2> QED
    BY <2>1, <2>2
<1>9. ASSUME NEW d \in Cores PROVE SleepSound(d)'
  <2>1. SleepSound(d) /\ EventSub(d) \in Tasks /\ Core(EventSub(d)) = d
        /\ EventSub(d) \notin Ends /\ EventSub(d) # Listener
    BY CoreFacts DEF EdgesSound
  <2>2. CASE d # c
    BY <1>2, <1>3, <1>5, <2>1, <2>2, SleepStays
  <2>3. CASE d = c /\ s # EventSub(c)
    BY <1>2, <1>3, <1>5, <2>1, <2>3 DEF SleepSound
  <2>4. CASE d = c /\ s = EventSub(c)
    <3>1. EventSub(c) \in ready'[c]
      BY <1>2, <1>5, <2>1, <2>4, MaskTells
    <3> QED
      BY <1>3, <2>4, <3>1 DEF SleepSound
  <2> QED
    BY <2>2, <2>3, <2>4
<1> QED
  BY <1>7, <1>8, <1>9 DEF EdgesSound

LEMMA DropTaskEdges ==
    ASSUME IOInv, EdgesSound, NEW c \in Cores, DropTask(c)
    PROVE  EdgesSound'
<1>1. PICK s : s = Head(myQueue[c])
  OBVIOUS
<1>2. /\ s \in Tasks /\ Core(s) = c
      /\ \A t \in Tasks : t # s => /\ task'[t].st = task[t].st /\ task'[t].op = task[t].op
                                   /\ task'[t].bits = task[t].bits
      /\ task'[s].st = "deleted"
  BY <1>1, DropTaskFacts DEF NoTask
<1>3. PICK woken : woken = IF s \in Ends /\ Registered(Peer(s)) THEN {Peer(s)} ELSE {}
  OBVIOUS
<1>4. /\ pc[c] = "drain" /\ sock' = Closed(s)
      /\ ready' = [d \in Cores |-> (ready[d] \cup {t \in woken : Core(t) = d}) \ {s}]
      /\ myQueue' = [myQueue EXCEPT ![c] = Tail(@)]
      /\ UNCHANGED <<pc, batch, myIsStopped, backlog>>
  BY <1>1, <1>3 DEF DropTask, threadVars, mainVars
<1>5. /\ \A d \in Cores : \A t \in ready[d] : t # s => t \in ready'[d]
      /\ \A d \in Cores : d # c => myQueue'[d] = myQueue[d]
  BY <1>4 DEF IOInv, TaskTypes
<1>6. ASSUME NEW t \in Tasks, t # s PROVE AnnouncedKept(t)
  BY <1>4, <1>5, <1>6, TaskKinds DEF AnnouncedKept, Announced
<1>7. /\ \A t \in Ends : sock'[t].bytes = sock[t].bytes /\ sock'[t].full = sock[t].full
      /\ \A t \in Ends : t # s => sock'[t].st = sock[t].st
      /\ \A t \in Ends : t # s /\ ~(s \in Ends /\ t = Peer(s)) => sock'[t] = sock[t]
  <2>1. CASE s \notin Ends
    <3>1. sock' = sock
      BY <1>4, <2>1 DEF Closed
    <3> QED
      BY <3>1
  <2>2. CASE s \in Ends
    <3>1. PICK p, r : p = Peer(s) /\ r = (sock[p].reset \/ sock[s].bytes > 0)
      OBVIOUS
    <3>2. p \in Ends /\ p # s
      BY <2>2, <3>1, EndFacts
    <3>3. sock' = [sock EXCEPT ![s].st = "closed", ![p].fin = TRUE, ![p].reset = r]
      BY <1>4, <2>2, <3>1, <3>2 DEF Closed
    <3>4. sock \in [Ends -> SockRecord] /\ sock[s] \in SockRecord /\ sock[p] \in SockRecord
      BY <2>2, <3>2 DEF IOInv, KernelTypes
    <3>5. /\ sock'[s] = [sock[s] EXCEPT !.st = "closed"]
          /\ sock'[p] = [sock[p] EXCEPT !.fin = TRUE, !.reset = r]
          /\ \A t \in Ends : t # s /\ t # p => sock'[t] = sock[t]
      BY <2>2, <3>2, <3>3, <3>4
    <3>6. /\ sock'[s].bytes = sock[s].bytes /\ sock'[s].full = sock[s].full
          /\ sock'[p].bytes = sock[p].bytes /\ sock'[p].full = sock[p].full /\ sock'[p].st = sock[p].st
      BY <3>4, <3>5 DEF SockRecord
    <3> QED
      BY <2>2, <3>1, <3>5, <3>6
  <2> QED
    BY <2>1, <2>2
<1>8. ASSUME NEW t \in Ends PROVE EdgeSound(t)'
  <2>1. t \in Tasks /\ EdgeSound(t) /\ Core(t) \in Cores /\ Peer(t) \in Ends
    BY EndFacts DEF EdgesSound
  <2>2. CASE t = s
    BY <1>2, <2>2 DEF EdgeSound
  <2>3. CASE t # s /\ ~(s \in Ends /\ t = Peer(s))
    <3>1. EdgeKept(t)
      BY <1>2, <1>6, <1>7, <2>1, <2>3 DEF EdgeKept
    <3> QED
      BY <2>1, <3>1, EdgeStays
  <2>4. CASE t # s /\ s \in Ends /\ t = Peer(s) /\ task[t].st = "working"
    <3>1. Registered(t)
      BY <2>1, <2>4, RegisteredLive DEF IOInv, Live
    <3>2. t \in ready'[Core(t)]
      BY <1>3, <1>4, <2>1, <2>4, <3>1
    <3>3. Writable(t)' <=> Writable(t)
      BY <1>7, <2>1, <2>4 DEF Writable
    <3> QED
      BY <1>2, <1>7, <2>1, <2>4, <3>2, <3>3, EdgeWoken DEF EdgeSound
  <2>5. CASE t # s /\ task[t].st # "working"
    BY <1>2, <2>1, <2>5 DEF EdgeSound
  <2> QED
    BY <2>2, <2>3, <2>4, <2>5
<1>9. ListenerEdge'
  <2>1. CASE s = Listener
    BY <1>2, <2>1 DEF ListenerEdge
  <2>2. CASE s # Listener
    BY <1>2, <1>4, <1>6, <2>2, ListenerStays, CoreFacts DEF EdgesSound
  <2> QED
    BY <2>1, <2>2
<1>10. ASSUME NEW d \in Cores PROVE SleepSound(d)'
  <2>1. SleepSound(d) /\ EventSub(d) \in Tasks /\ Core(EventSub(d)) = d
    BY CoreFacts DEF EdgesSound
  <2>2. CASE d # c
    BY <1>2, <1>4, <1>5, <2>1, <2>2, SleepStays
  <2>3. CASE d = c /\ s # EventSub(c)
    BY <1>2, <1>4, <1>5, <2>1, <2>3 DEF SleepSound
  <2>4. CASE d = c /\ s = EventSub(c)
    BY <1>2, <1>4, <2>4 DEF SleepSound
  <2> QED
    BY <2>2, <2>3, <2>4
<1> QED
  BY <1>8, <1>9, <1>10 DEF EdgesSound

LEMMA epoll_waitEdges ==
    ASSUME IOInv, EdgesSound, NEW c \in Cores, epoll_wait(c)
    PROVE  EdgesSound'
<1>1. PICK live : live = {t \in ready[c] : Mask(t) # {}}
  OBVIOUS
<1>2. PICK evs : /\ evs \in kSubset(Min({BatchSize, Cardinality(live)}), live)
                 /\ batch' = [batch EXCEPT ![c] = [t \in evs |-> Mask(t)]]
                 /\ ready' = [ready EXCEPT ![c] = live \ evs]
  BY <1>1 DEF epoll_wait
<1>3. /\ pc[c] = "wait" /\ pc' = [pc EXCEPT ![c] = "batch"]
      /\ UNCHANGED <<task, myQueue, myIsStopped, sock, backlog>>
  BY DEF epoll_wait, coreVars, mainVars
<1>4. DOMAIN batch[c] = {}
  BY <1>3, NoBatch
<1>5. /\ batch'[c] = [t \in evs |-> Mask(t)] /\ ready'[c] = live \ evs
      /\ pc'[c] = "batch"
      /\ \A d \in Cores : d # c => batch'[d] = batch[d] /\ ready'[d] = ready[d] /\ pc'[d] = pc[d]
  BY <1>2, <1>3 DEF IOInv, KernelTypes, ThreadTypes
<1>6. ASSUME NEW t \in Tasks, NEW b, b \in Mask(t), Announced(t, b) PROVE Announced(t, b)'
  <2>1. CASE Core(t) # c
    BY <1>5, <1>6, <2>1, TaskKinds DEF Announced
  <2>2. CASE Core(t) = c
    <3>1. t \in ready[c]
      BY <1>4, <1>6, <2>2 DEF Announced
    <3>2. t \in live
      BY <1>1, <1>6, <3>1
    <3> QED
      BY <1>5, <1>6, <2>2, <3>2 DEF Announced
  <2> QED
    BY <2>1, <2>2
<1>7. ASSUME NEW t \in Ends PROVE EdgeSound(t)'
  <2>1. t \in Tasks /\ EdgeSound(t)
    BY EndFacts DEF EdgesSound
  <2>2. /\ Readable(t) /\ Announced(t, "R") => Announced(t, "R")'
        /\ Writable(t) /\ Announced(t, "W") => Announced(t, "W")'
    BY <1>6, <2>1, MaskTells
  <2>3. (Readable(t)' <=> Readable(t)) /\ (Writable(t)' <=> Writable(t))
    BY <1>3 DEF Readable, Writable
  <2> QED
    BY <1>3, <2>1, <2>2, <2>3 DEF EdgeSound
<1>8. ListenerEdge'
  <2>1. backlog # <<>> /\ Announced(Listener, "R") => Announced(Listener, "R")'
    BY <1>6, MaskTells, CoreFacts
  <2> QED
    BY <1>3, <2>1 DEF ListenerEdge, EdgesSound
<1>9. ASSUME NEW d \in Cores PROVE SleepSound(d)'
  <2>1. SleepSound(d)
    BY DEF EdgesSound
  <2>2. CASE d = c
    BY <1>5, <2>2 DEF SleepSound
  <2>3. CASE d # c
    BY <1>3, <1>5, <2>1, <2>3, SleepStays
  <2> QED
    BY <2>2, <2>3
<1> QED
  BY <1>7, <1>8, <1>9 DEF EdgesSound


(* The cores, when the thread of c does not go to sleep.                   *)
LEMMA OthersSleep ==
    ASSUME EdgesSound, NEW c \in Cores, pc'[c] \notin {"queues", "drain", "wait"},
           \A d \in Cores : d # c => /\ pc'[d] = pc[d] /\ myQueue'[d] = myQueue[d]
                                     /\ myIsStopped'[d] = myIsStopped[d]
                                     /\ task'[EventSub(d)].st = task[EventSub(d)].st
                                     /\ ready[d] \subseteq ready'[d]
    PROVE  \A d \in Cores : SleepSound(d)'
<1> SUFFICES ASSUME NEW d \in Cores PROVE SleepSound(d)'
  OBVIOUS
<1>1. CASE d = c
  BY <1>1 DEF SleepSound
<1>2. CASE d # c
  BY <1>2, SleepStays DEF EdgesSound
<1> QED
  BY <1>1, <1>2

LEMMA CoroMovesSleep ==
    ASSUME IOInv, EdgesSound, NEW c \in Cores, NEW s \in Tasks, CoroMoves(c, s),
           \A d \in Cores : ready[d] \subseteq ready'[d]
    PROVE  \A d \in Cores : SleepSound(d)'
<1>1. /\ pc'[c] \in {"batch", "coro"} /\ myQueue' = myQueue /\ myIsStopped' = myIsStopped
      /\ \A d \in Cores : d # c => pc'[d] = pc[d]
      /\ \A t \in Tasks : task'[t].st = task[t].st
  BY CoroMovesKept DEF CoroMoves, mainVars
<1> QED
  BY <1>1, OthersSleep, CoreFacts

LEMMA EventEdges ==
    ASSUME IOInv, EdgesSound, NEW c \in Cores, NEW s \in Tasks, Event(c, s)
    PROVE  EdgesSound'
<1>1. PICK mask, op, bits : mask = batch[c][s] /\ op = task[s].op /\ bits = task[s].bits \cup mask
  OBVIOUS
<1>2. /\ pc[c] = "batch" /\ s \in DOMAIN batch[c]
      /\ batch' = [batch EXCEPT ![c] = [t \in DOMAIN batch[c] \ {s} |-> batch[c][t]]]
      /\ \/ /\ op # "none" /\ Bit(op) \in bits
            /\ task' = [task EXCEPT ![s].bits = bits, ![s].op = "none"]
         \/ /\ ~(op # "none" /\ Bit(op) \in bits)
            /\ task' = [task EXCEPT ![s].bits = bits]
      /\ UNCHANGED <<sock, backlog, ready>>
  BY <1>1 DEF Event, Events, Taken, kernelVars
<1>3. Core(s) = c /\ CoroMoves(c, s) /\ task[s] \in TaskRecord /\ task \in [Tasks -> TaskRecord]
  BY EventFacts DEF IOInv, TaskTypes
<1>4. /\ DOMAIN batch'[c] = DOMAIN batch[c] \ {s}
      /\ \A t \in DOMAIN batch'[c] : batch'[c][t] = batch[c][t]
      /\ \A d \in Cores : d # c => batch'[d] = batch[d]
  BY <1>2 DEF IOInv, KernelTypes
<1>5. \A t \in Tasks : t # s => task'[t] = task[t] /\ AnnouncedKept(t)
  <2>1. \A t \in Tasks : t # s => task'[t] = task[t]
    BY <1>3 DEF CoroMoves
  <2>2. ASSUME NEW t \in Tasks, t # s PROVE AnnouncedKept(t)
    <3>1. CASE Core(t) = c
      BY <1>2, <1>4, <2>2, <3>1 DEF AnnouncedKept, Announced
    <3>2. CASE Core(t) # c
      BY <1>2, <1>4, <3>2, TaskKinds DEF AnnouncedKept, Announced
    <3> QED
      BY <3>1, <3>2
  <2> QED
    BY <2>1, <2>2
<1>6. /\ task'[s].bits = bits /\ task'[s].st = task[s].st
      /\ \/ op # "none" /\ Bit(op) \in bits /\ task'[s].op = "none"
         \/ ~(op # "none" /\ Bit(op) \in bits) /\ task'[s].op = op
  <2>1. CASE op # "none" /\ Bit(op) \in bits /\ task' = [task EXCEPT ![s].bits = bits, ![s].op = "none"]
    <3>1. task'[s] = [task[s] EXCEPT !.bits = bits, !.op = "none"]
      BY <1>3, <2>1
    <3> QED
      BY <1>3, <2>1, <3>1 DEF TaskRecord
  <2>2. CASE ~(op # "none" /\ Bit(op) \in bits) /\ task' = [task EXCEPT ![s].bits = bits]
    <3>1. task'[s] = [task[s] EXCEPT !.bits = bits]
      BY <1>3, <2>2
    <3> QED
      BY <1>1, <1>3, <2>2, <3>1 DEF TaskRecord
  <2> QED
    BY <1>2, <2>1, <2>2
<1>7. ASSUME NEW t \in Ends PROVE EdgeSound(t)'
  <2>1. t \in Tasks /\ EdgeSound(t)
    BY EndFacts DEF EdgesSound
  <2>2. CASE t # s
    <3>1. EdgeKept(t)
      BY <1>2, <1>5, <2>1, <2>2 DEF EdgeKept
    <3> QED
      BY <2>1, <3>1, EdgeStays
  <2>3. CASE t = s
    <3>1. (Readable(t)' <=> Readable(t)) /\ (Writable(t)' <=> Writable(t)) /\ sock' = sock
      BY <1>2 DEF Readable, Writable
    <3>2. \A b : Announced(t, b) /\ b \notin bits => Announced(t, b)'
      BY <1>1, <1>2, <1>3, <2>3 DEF Announced
    <3>3. op \in Ops \cup {"none"}
      BY <1>1, <1>3 DEF TaskRecord
    <3>4. task[s].bits \subseteq bits
      BY <1>1
    <3>5. CASE op # "none" /\ Bit(op) \in bits /\ task'[s].op = "none"
      <4>1. task[s].st = "working" => "W" \in bits
        BY <1>1, <2>1, <2>3, <3>3, <3>4, <3>5 DEF EdgeSound, Bit, Ops
      <4> QED
        BY <1>6, <2>1, <2>3, <3>1, <3>2, <3>4, <3>5, <4>1 DEF EdgeSound
    <3>6. CASE ~(op # "none" /\ Bit(op) \in bits) /\ task'[s].op = op
      <4>1. /\ op = "recv" => "R" \notin bits
            /\ op \in {"send", "connect"} => "W" \notin bits
        BY <3>6 DEF Bit
      <4> QED
        BY <1>1, <1>6, <2>1, <2>3, <3>1, <3>2, <3>4, <3>6, <4>1 DEF EdgeSound
    <3> QED
      BY <1>6, <3>5, <3>6
  <2> QED
    BY <2>2, <2>3
<1>8. ListenerEdge'
  <2>1. CASE s # Listener
    BY <1>2, <1>5, <2>1, ListenerStays, CoreFacts DEF EdgesSound
  <2>2. CASE s = Listener
    <3>1. "R" \in bits
      BY <1>1, <1>2, <2>2 DEF IOInv, UsesSound, BatchSound
    <3>2. task'[s].op # "accept"
      BY <1>6, <3>1 DEF Bit
    <3> QED
      BY <2>2, <3>2 DEF ListenerEdge
  <2> QED
    BY <2>1, <2>2
<1>9. \A d \in Cores : SleepSound(d)'
  BY <1>2, <1>3, CoroMovesSleep
<1> QED
  BY <1>7, <1>8, <1>9 DEF EdgesSound

(* The coroutine of the end s is suspended.                                *)
LEMMA SuspendEdge ==
    ASSUME IOInv, EdgesSound, NEW c \in Cores, NEW s \in Ends, NEW op \in {"send", "recv"}, Runs(c, s, op),
           Suspend(c, s, op), batch' = batch, ready' = ready,
           sock'[s].bytes = sock[s].bytes, sock'[s].fin = sock[s].fin, sock'[s].st = sock[s].st,
           sock'[Peer(s)].bytes = sock[Peer(s)].bytes,
           op = "send" => ~Writable(s) /\ sock'[s].full = TRUE,
           op = "recv" => "R" \notin task[s].bits \/ ~Readable(s)
    PROVE  EdgeSound(s)'
<1>0. s \in Tasks /\ task[s].op = "none" /\ task[s].st = "working" /\ task[s] \in TaskRecord
  BY RunsFacts
<1>1. /\ s \in Tasks /\ task[s].op = "none" /\ task[s].st = "working" /\ task[s] \in TaskRecord
      /\ task \in [Tasks -> TaskRecord] /\ EdgeSound(s)
  BY <1>0 DEF EdgesSound, IOInv, TaskTypes
<1>2. task' = [task EXCEPT ![s].op = op, ![s].bits = @ \ {Bit(op)}]
  BY DEF Suspend
<1>3. task'[s] = [task[s] EXCEPT !.op = op, !.bits = @ \ {Bit(op)}]
  BY <1>1, <1>2
<1>4. task'[s].op = op /\ task'[s].bits = task[s].bits \ {Bit(op)} /\ task'[s].st = "working"
  BY <1>1, <1>3 DEF TaskRecord
<1>5. (Readable(s)' <=> Readable(s)) /\ (Writable(s)' <=> Writable(s))
  BY DEF Readable, Writable
<1>6. (Announced(s, "R")' <=> Announced(s, "R"))
  BY DEF Announced
<1>7. "W" \in task[s].bits /\ (Readable(s) /\ "R" \notin task[s].bits => Announced(s, "R"))
  BY <1>1 DEF EdgeSound
<1>8. CASE op = "send"
  <2>1. Bit(op) = "W"
    BY <1>8 DEF Bit
  <2> QED
    BY <1>4, <1>5, <1>6, <1>7, <1>8, <2>1 DEF EdgeSound
<1>9. CASE op = "recv"
  <2>1. Bit(op) = "R"
    BY <1>9 DEF Bit
  <2> QED
    BY <1>4, <1>5, <1>6, <1>7, <1>9, <2>1 DEF EdgeSound
<1> QED
  BY <1>8, <1>9


(* The thread of a core whose coroutine goes on or is suspended.           *)
LEMMA CoroGoesOn ==
    ASSUME IOInv, EdgesSound, NEW c \in Cores, pc[c] = "coro", pc' = pc \/ pc' = [pc EXCEPT ![c] = "batch"],
           \A d \in Cores : d # c => /\ myQueue'[d] = myQueue[d]
                                     /\ task'[EventSub(d)].st = task[EventSub(d)].st,
           myIsStopped' = myIsStopped, \A d \in Cores : ready[d] \subseteq ready'[d]
    PROVE  \A d \in Cores : SleepSound(d)'
<1>1. pc'[c] \in {"coro", "batch"} /\ \A d \in Cores : d # c => pc'[d] = pc[d]
  BY DEF IOInv, ThreadTypes
<1> QED
  BY <1>1, OthersSleep

LEMMA SendEdges ==
    ASSUME IOInv, EdgesSound, NEW c \in Cores, NEW s \in Ends, Send(c, s)
    PROVE  EdgesSound'
<1>1. /\ Runs(c, s, "send") /\ UNCHANGED <<myQueue, myIsStopped, backlog>>
  BY DEF Send, mainVars
<1>2. /\ s \in Tasks /\ s # Listener /\ Core(s) = c /\ pc[c] = "coro"
      /\ task[s].st = "working" /\ task[s].op = "none"
  BY <1>1, RunsFacts
<1>3. EdgeSound(s) /\ "W" \in task[s].bits
  BY <1>2 DEF EdgesSound, EdgeSound
<1>4. PICK p : p = Peer(s)
  OBVIOUS
<1>5. /\ p \in Ends /\ p # s /\ Peer(p) = s /\ sock \in [Ends -> SockRecord]
      /\ sock[s] \in SockRecord /\ sock[p] \in SockRecord
  BY <1>4, EndFacts DEF IOInv, KernelTypes
<1>6. CASE ~Writable(s)
  <2>1. Suspend(c, s, "send") /\ sock' = [sock EXCEPT ![s].full = "W" \in task[s].bits] /\ ready' = ready
    BY <1>6 DEF Send
  <2>2. TRUE = ("W" \in task[s].bits)
    BY <1>3
  <2>3. sock' = [sock EXCEPT ![s].full = TRUE]
    BY <2>1, <2>2
  <2>4. sock'[s] = [sock[s] EXCEPT !.full = TRUE] /\ \A t \in Ends : t # s => sock'[t] = sock[t]
    BY <1>5, <2>3
  <2>5. /\ sock'[s].full = TRUE /\ sock'[s].bytes = sock[s].bytes /\ sock'[s].fin = sock[s].fin
        /\ sock'[s].st = sock[s].st /\ sock'[Peer(s)].bytes = sock[Peer(s)].bytes
    BY <1>4, <1>5, <2>4 DEF SockRecord
  <2>6. /\ task' = [task EXCEPT ![s].op = "send", ![s].bits = @ \ {Bit("send")}]
        /\ pc' = [pc EXCEPT ![c] = "batch"] /\ batch' = batch
    BY <2>1 DEF Suspend, BackToRoll
  <2>7. EdgeSound(s)'
    BY <1>1, <1>6, <2>1, <2>5, <2>6, SuspendEdge
  <2>8. \A t \in Tasks : t # s => task'[t] = task[t]
    BY <2>6 DEF IOInv, TaskTypes
  <2>9. \A t \in Tasks : AnnouncedKept(t)
    BY <2>1, <2>6, AnnouncedGrows
  <2>10. ASSUME NEW t \in Ends, t # s PROVE EdgeSound(t)'
    <3>1. t \in Tasks /\ Peer(t) \in Ends /\ EdgeSound(t)
      BY EndFacts DEF EdgesSound
    <3>2. sock'[Peer(t)].bytes = sock[Peer(t)].bytes
      BY <2>4, <2>5, <3>1
    <3>3. EdgeKept(t)
      BY <2>4, <2>8, <2>9, <2>10, <3>1, <3>2 DEF EdgeKept
    <3> QED
      BY <3>1, <3>3, EdgeStays
  <2>11. ListenerEdge'
    BY <1>1, <1>2, <2>8, <2>9, ListenerStays, CoreFacts DEF EdgesSound
  <2>12. \A d \in Cores : task'[EventSub(d)].st = task[EventSub(d)].st
    BY <2>8, CoreFacts
  <2>13. \A d \in Cores : SleepSound(d)'
    BY <1>1, <1>2, <2>1, <2>6, <2>12, CoroGoesOn
  <2> QED
    BY <2>7, <2>10, <2>11, <2>13 DEF EdgesSound
<1>7. CASE Writable(s)
  <2>1. sock[Peer(s)].st # "closed"
    BY <1>1, SendExpected
  <2>2. /\ Then(c, "recv") /\ UNCHANGED task
        /\ sock' = [sock EXCEPT ![p].bytes = @ + 1] /\ WakeUp({p})
    BY <1>3, <1>4, <1>7, <2>1 DEF Send
  <2>3. UNCHANGED <<pc, batch>>
    BY <2>2 DEF Then
  <2>4. sock'[p] = [sock[p] EXCEPT !.bytes = @ + 1] /\ \A t \in Ends : t # p => sock'[t] = sock[t]
    BY <1>5, <2>2
  <2>5. sock'[p].st = sock[p].st /\ sock'[p].full = sock[p].full
    BY <1>5, <2>4 DEF SockRecord
  <2>6. p \in Tasks /\ Core(p) \in Cores
    BY <1>5, EndFacts
  <2>7. (\A d \in Cores : ready[d] \subseteq ready'[d]) /\ (task[p].st = "working" => p \in ready'[Core(p)])
    <3>1. \A d \in Cores : ready[d] \subseteq ready'[d]
      BY <2>2, <2>6, WakeUpFacts DEF IOInv
    <3>2. task[p].st = "working" => Registered(p)
      BY <2>6, RegisteredLive DEF IOInv, Live
    <3> QED
      BY <2>2, <2>6, <3>1, <3>2 DEF WakeUp
  <2>8. \A t \in Tasks : AnnouncedKept(t)
    BY <2>3, <2>7, AnnouncedGrows
  <2>9. EdgeSound(s)'
    <3>1. Readable(s)' <=> Readable(s)
      BY <1>5, <2>4 DEF Readable
    <3>2. Announced(s, "R") => Announced(s, "R")'
      BY <1>2, <2>8 DEF AnnouncedKept
    <3> QED
      BY <1>2, <1>3, <2>2, <3>1, <3>2 DEF EdgeSound
  <2>10. EdgeSound(p)'
    <3>1. EdgeSound(p)
      BY <1>5 DEF EdgesSound
    <3>2. CASE task[p].st = "working"
      <4>1. Writable(p)' <=> Writable(p)
        BY <1>5, <2>4, <2>5 DEF Writable
      <4> QED
        BY <1>5, <2>2, <2>5, <2>7, <3>1, <3>2, <4>1, EdgeWoken DEF EdgeSound
    <3>3. CASE task[p].st # "working"
      BY <2>2, <3>3 DEF EdgeSound
    <3> QED
      BY <3>2, <3>3
  <2>11. ASSUME NEW t \in Ends, t # s, t # p PROVE EdgeSound(t)'
    <3>1. t \in Tasks /\ Peer(t) \in Ends /\ Peer(Peer(t)) = t /\ EdgeSound(t)
      BY EndFacts DEF EdgesSound
    <3>2. Peer(t) # p
      BY <1>5, <2>11, <3>1
    <3>3. EdgeKept(t)
      BY <2>2, <2>4, <2>8, <2>11, <3>1, <3>2 DEF EdgeKept
    <3> QED
      BY <3>1, <3>3, EdgeStays
  <2>12. ListenerEdge'
    BY <1>1, <2>2, <2>8, ListenerStays, CoreFacts DEF EdgesSound
  <2>13. \A d \in Cores : SleepSound(d)'
    BY <1>1, <1>2, <2>2, <2>3, <2>7, CoroGoesOn
  <2> QED
    BY <2>9, <2>10, <2>11, <2>12, <2>13 DEF EdgesSound
<1> QED
  BY <1>6, <1>7

LEMMA RecvEdges ==
    ASSUME IOInv, EdgesSound, NEW c \in Cores, NEW s \in Ends, Recv(c, s)
    PROVE  EdgesSound'
<1>1. /\ Runs(c, s, "recv") /\ UNCHANGED <<myQueue, myIsStopped, backlog>>
  BY DEF Recv, mainVars
<1>2. /\ s \in Tasks /\ s # Listener /\ Core(s) = c /\ pc[c] = "coro"
      /\ task[s].st = "working" /\ task[s].op = "none" /\ task[s] \in TaskRecord
  BY <1>1, RunsFacts
<1>3. EdgeSound(s) /\ "W" \in task[s].bits
  BY <1>2 DEF EdgesSound, EdgeSound
<1>4. PICK p : p = Peer(s)
  OBVIOUS
<1>5. /\ p \in Ends /\ p # s /\ Peer(p) = s /\ sock \in [Ends -> SockRecord]
      /\ sock[s] \in SockRecord /\ sock[p] \in SockRecord /\ task \in [Tasks -> TaskRecord]
  BY <1>4, EndFacts DEF IOInv, KernelTypes, TaskTypes
<1>6. CASE "R" \notin task[s].bits \/ ~Readable(s)
  <2>1. Suspend(c, s, "recv") /\ UNCHANGED <<sock, ready>>
    BY <1>6 DEF Recv
  <2>2. /\ task' = [task EXCEPT ![s].op = "recv", ![s].bits = @ \ {Bit("recv")}]
        /\ pc' = [pc EXCEPT ![c] = "batch"] /\ batch' = batch
    BY <2>1 DEF Suspend, BackToRoll
  <2>3. EdgeSound(s)'
    BY <1>1, <1>6, <2>1, <2>2, SuspendEdge
  <2>4. \A t \in Tasks : t # s => task'[t] = task[t]
    BY <1>5, <2>2
  <2>5. \A t \in Tasks : AnnouncedKept(t)
    BY <2>1, <2>2, AnnouncedGrows
  <2>6. ASSUME NEW t \in Ends, t # s PROVE EdgeSound(t)'
    <3>1. t \in Tasks /\ EdgeSound(t)
      BY EndFacts DEF EdgesSound
    <3>2. EdgeKept(t)
      BY <2>1, <2>4, <2>5, <2>6, <3>1 DEF EdgeKept
    <3> QED
      BY <3>1, <3>2, EdgeStays
  <2>7. ListenerEdge'
    BY <1>1, <1>2, <2>4, <2>5, ListenerStays, CoreFacts DEF EdgesSound
  <2>8. \A d \in Cores : task'[EventSub(d)].st = task[EventSub(d)].st
    BY <1>2, <2>4, CoreFacts
  <2>9. \A d \in Cores : SleepSound(d)'
    BY <1>1, <1>2, <2>1, <2>2, <2>8, CoroGoesOn
  <2> QED
    BY <2>3, <2>6, <2>7, <2>9 DEF EdgesSound
<1>7. CASE "R" \in task[s].bits /\ Readable(s)
  <2>1. PICK woken : woken = IF sock[p].full THEN {p} ELSE {}
    OBVIOUS
  <2>2. /\ Then(c, coroRun(s)) /\ task' = [task EXCEPT ![s].recvs = @ + 1]
        /\ sock' = [sock EXCEPT ![s].bytes = @ - 1, ![p].full = FALSE] /\ WakeUp(woken)
    BY <1>4, <1>7, <2>1 DEF Recv
  <2>3. UNCHANGED <<pc, batch>>
    BY <2>2 DEF Then
  <2>4. /\ sock'[s] = [sock[s] EXCEPT !.bytes = @ - 1] /\ sock'[p] = [sock[p] EXCEPT !.full = FALSE]
        /\ \A t \in Ends : t # p /\ t # s => sock'[t] = sock[t]
    BY <1>5, <2>2
  <2>5. /\ sock'[s].bytes = sock[s].bytes - 1 /\ sock'[p].st = sock[p].st /\ sock'[p].fin = sock[p].fin
        /\ sock'[p].bytes = sock[p].bytes
    BY <1>5, <2>4 DEF SockRecord
  <2>6. sock[s].bytes \in 0..Cap /\ sock'[s].bytes < Cap
    BY <2>5, Counted, IOCoroAssumption
  <2>7. p \in Tasks /\ Core(p) \in Cores /\ woken \subseteq Tasks
    BY <1>5, <2>1, EndFacts
  <2>8. /\ \A d \in Cores : ready[d] \subseteq ready'[d]
        /\ task[p].st = "working" /\ sock[p].full = TRUE => p \in ready'[Core(p)]
    <3>1. \A d \in Cores : ready[d] \subseteq ready'[d]
      BY <2>2, <2>7, WakeUpFacts DEF IOInv
    <3>2. task[p].st = "working" => Registered(p)
      BY <2>7, RegisteredLive DEF IOInv, Live
    <3>3. sock[p].full = TRUE => p \in woken
      BY <2>1
    <3> QED
      BY <2>2, <2>7, <3>1, <3>2, <3>3 DEF WakeUp
  <2>9. \A t \in Tasks : AnnouncedKept(t)
    BY <2>3, <2>8, AnnouncedGrows
  <2>10. /\ task'[s] = [task[s] EXCEPT !.recvs = @ + 1] /\ \A t \in Tasks : t # s => task'[t] = task[t]
    BY <1>2, <1>5, <2>2
  <2>11. task'[s].st = "working" /\ task'[s].op = "none" /\ task'[s].bits = task[s].bits
    BY <1>2, <2>10 DEF TaskRecord
  <2>12. EdgeSound(s)'
    BY <1>3, <1>7, <2>11 DEF EdgeSound
  <2>13. EdgeSound(p)'
    <3>1. EdgeSound(p) /\ task'[p] = task[p]
      BY <1>5, <2>7, <2>10 DEF EdgesSound
    <3>2. Readable(p)' <=> Readable(p)
      BY <2>5 DEF Readable
    <3>3. sock'[p].st = "open" => Writable(p)'
      BY <1>5, <2>6 DEF Writable
    <3>4. Writable(p)' => sock[p].st = "open"
      BY <2>5 DEF Writable
    <3>5. /\ Announced(p, "R") => Announced(p, "R")'
          /\ Announced(p, "W") => Announced(p, "W")'
          /\ task[p].st = "working" /\ sock[p].full = TRUE => Announced(p, "W")'
      BY <2>7, <2>8, <2>9 DEF AnnouncedKept, Announced
    <3> QED
      BY <3>1, <3>2, <3>3, <3>4, <3>5 DEF EdgeSound
  <2>14. ASSUME NEW t \in Ends, t # s, t # p PROVE EdgeSound(t)'
    <3>1. t \in Tasks /\ Peer(t) \in Ends /\ Peer(Peer(t)) = t /\ EdgeSound(t)
      BY EndFacts DEF EdgesSound
    <3>2. Peer(t) # s /\ Peer(t) # p
      BY <1>4, <1>5, <2>14, <3>1
    <3>3. EdgeKept(t)
      BY <2>4, <2>9, <2>10, <2>14, <3>1, <3>2 DEF EdgeKept
    <3> QED
      BY <3>1, <3>3, EdgeStays
  <2>15. ListenerEdge'
    BY <1>1, <1>2, <2>9, <2>10, ListenerStays, CoreFacts DEF EdgesSound
  <2>16. \A d \in Cores : task'[EventSub(d)].st = task[EventSub(d)].st
    BY <1>2, <2>10, CoreFacts
  <2>17. \A d \in Cores : SleepSound(d)'
    BY <1>1, <1>2, <2>3, <2>8, <2>16, CoroGoesOn
  <2> QED
    BY <2>12, <2>13, <2>14, <2>15, <2>17 DEF EdgesSound
<1> QED
  BY <1>6, <1>7


LEMMA FinishEdges ==
    ASSUME IOInv, EdgesSound, NEW c \in Cores, NEW s \in Ends, Finish(c, s)
    PROVE  EdgesSound'
<1>1. UNCHANGED <<task, sock, backlog, batch, ready, pc, myQueue, myIsStopped>>
  BY DEF Finish, Then, coreVars, mainVars, kernelVars
<1> QED
  BY <1>1, FrameEdges

(* A task is marked for deletion.                                          *)
LEMMA UnsubscribeEdges ==
    ASSUME IOInv, EdgesSound, NEW s \in Tasks, task[s].st = "working", unsubscribe(s),
           UNCHANGED <<myTasks, sock, backlog, batch>>, \A d \in Cores : SleepSound(d)'
    PROVE  EdgesSound'
<1>1. (\A t \in Tasks : t # s => task'[t] = task[t]) /\ task'[s].st = "deleting"
  BY UnsubscribeFacts
<1>2. \A d \in Cores : ready[d] \subseteq ready'[d]
  BY TaskKinds, wakeupFacts DEF unsubscribe, IOInv
<1>3. \A t \in Tasks : AnnouncedKept(t)
  BY <1>2, AnnouncedGrows
<1>4. ASSUME NEW t \in Ends PROVE EdgeSound(t)'
  <2>1. t \in Tasks /\ EdgeSound(t)
    BY EndFacts DEF EdgesSound
  <2>2. CASE t = s
    BY <1>1, <2>2 DEF EdgeSound
  <2>3. CASE t # s
    <3>1. EdgeKept(t)
      BY <1>1, <1>3, <2>1, <2>3 DEF EdgeKept
    <3> QED
      BY <2>1, <3>1, EdgeStays
  <2> QED
    BY <2>2, <2>3
<1>5. ListenerEdge'
  <2>1. task'[Listener].st = "working" => task'[Listener] = task[Listener]
    BY <1>1, CoreFacts
  <2> QED
    BY <1>3, <2>1, ListenerStays, CoreFacts DEF EdgesSound
<1> QED
  BY <1>4, <1>5 DEF EdgesSound

LEMMA DeleteClientEdges ==
    ASSUME IOInv, EdgesSound, NEW c \in Cores, NEW s \in Ends, DeleteClient(c, s)
    PROVE  EdgesSound'
<1>1. /\ Runs(c, s, "delete") /\ unsubscribe(s)
      /\ pc' = [pc EXCEPT ![c] = "batch"] /\ UNCHANGED <<myTasks, myIsStopped, sock, backlog, batch>>
  BY DEF DeleteClient, BackToRoll, mainVars
<1>2. /\ s \in Tasks /\ Core(s) = c /\ pc[c] = "coro" /\ task[s].st = "working"
  BY <1>1, RunsFacts
<1>3. /\ \A t \in Tasks : t # s => task'[t] = task[t]
      /\ myQueue' = [myQueue EXCEPT ![c] = Append(@, s)]
  BY <1>1, <1>2, UnsubscribeFacts
<1>4. \A d \in Cores : ready[d] \subseteq ready'[d]
  BY <1>1, <1>2, wakeupFacts DEF unsubscribe, IOInv
<1>5. \A d \in Cores : d # c => /\ myQueue'[d] = myQueue[d]
                                /\ task'[EventSub(d)].st = task[EventSub(d)].st
  <2>1. \A d \in Cores : d # c => myQueue'[d] = myQueue[d]
    BY <1>3 DEF IOInv, TaskTypes
  <2>2. \A d \in Cores : EventSub(d) # s /\ EventSub(d) \in Tasks
    BY CoreFacts
  <2> QED
    BY <1>3, <2>1, <2>2
<1>6. \A d \in Cores : SleepSound(d)'
  BY <1>1, <1>2, <1>4, <1>5, CoroGoesOn
<1> QED
  BY <1>1, <1>2, <1>6, UnsubscribeEdges

LEMMA AcceptEdges ==
    ASSUME IOInv, EdgesSound, NEW c \in Cores, Accept(c)
    PROVE  EdgesSound'
<1>1. Runs(c, Listener, "accept") /\ UNCHANGED <<myTasks, myIsStopped, sock>>
  BY DEF Accept, mainVars
<1>2. pc[c] = "coro" /\ coro[c].task = Listener
  BY <1>1 DEF Runs
<1>3. /\ Listener \in Tasks /\ Listener \notin Ends /\ c = "srv" /\ Core(Listener) = c
      /\ task[Listener].op = "none" /\ "R" \in task[Listener].bits
      /\ \A d \in Cores : EventSub(d) # Listener /\ EventSub(d) \in Tasks /\ EventSub(d) \notin Ends
  BY <1>2, CoreFacts DEF IOInv, UsesSound, CoroSound
<1>4. CASE backlog = <<>>
  <2>1. Suspend(c, Listener, "accept") /\ UNCHANGED <<myQueue, backlog, ready>>
    BY <1>4 DEF Accept
  <2>2. /\ task' = [task EXCEPT ![Listener].op = "accept", ![Listener].bits = @ \ {Bit("accept")}]
        /\ pc' = [pc EXCEPT ![c] = "batch"] /\ batch' = batch
    BY <2>1 DEF Suspend, BackToRoll
  <2>3. \A t \in Tasks : t # Listener => task'[t] = task[t]
    BY <2>2 DEF IOInv, TaskTypes
  <2>4. \A t \in Tasks : AnnouncedKept(t)
    BY <2>1, <2>2, AnnouncedGrows
  <2>5. ASSUME NEW t \in Ends PROVE EdgeSound(t)'
    <3>1. t \in Tasks /\ t # Listener /\ EdgeSound(t)
      BY <1>3, EndFacts DEF EdgesSound
    <3>2. EdgeKept(t)
      BY <1>1, <2>3, <2>4, <3>1 DEF EdgeKept
    <3> QED
      BY <3>1, <3>2, EdgeStays
  <2>6. ListenerEdge'
    BY <1>4, <2>1 DEF ListenerEdge
  <2>7. \A d \in Cores : task'[EventSub(d)].st = task[EventSub(d)].st
    BY <1>3, <2>3
  <2>8. \A d \in Cores : SleepSound(d)'
    BY <1>1, <1>2, <2>1, <2>2, <2>7, CoroGoesOn
  <2> QED
    BY <2>5, <2>6, <2>8 DEF EdgesSound
<1>5. CASE backlog # <<>>
  <2>1. PICK k : k = Head(backlog)
    OBVIOUS
  <2>2. PICK s : s = <<c, k>>
    OBVIOUS
  <2>3. /\ subscribe(s, "send") /\ wakeup(Core(s)) /\ backlog' = Tail(backlog) /\ UNCHANGED <<pc, batch>>
    BY <1>3, <1>5, <2>1, <2>2 DEF Accept, wrapAndRun, threadVars
  <2>4. k \in 1..ClientCount /\ InBacklog(k)
    BY <1>5, <2>1, <2>3, BacklogPopped
  <2>5. s \in Ends /\ Core(s) = c /\ s[2] = k /\ s \in Tasks
    BY <2>2, <2>4, NumberedEnd, EndFacts
  <2>6. task[s].st = "none"
    BY <1>3, <2>4, <2>5 DEF IOInv, FlowSound, ConnectionSound, ServerSound
  <2>7. /\ \A t \in Tasks : t # s => task'[t] = task[t]
        /\ task'[s].st = "new" /\ myQueue' = [myQueue EXCEPT ![c] = Append(@, s)]
    BY <1>1, <2>3, <2>5, <2>6, SubscribeFacts
  <2>8. \A d \in Cores : ready[d] \subseteq ready'[d]
    BY <2>3, <2>5, wakeupFacts DEF IOInv
  <2>9. \A t \in Tasks : AnnouncedKept(t)
    BY <2>3, <2>8, AnnouncedGrows
  <2>10. ASSUME NEW t \in Ends PROVE EdgeSound(t)'
    <3>1. t \in Tasks /\ EdgeSound(t)
      BY EndFacts DEF EdgesSound
    <3>2. EdgeKept(t)
      BY <1>1, <2>7, <2>9, <3>1 DEF EdgeKept
    <3> QED
      BY <3>1, <3>2, EdgeStays
  <2>11. ListenerEdge'
    BY <1>3, <2>5, <2>7 DEF ListenerEdge
  <2>12. \A d \in Cores : d # c => /\ myQueue'[d] = myQueue[d]
                                   /\ task'[EventSub(d)].st = task[EventSub(d)].st
    <3>1. \A d \in Cores : d # c => myQueue'[d] = myQueue[d]
      BY <2>7 DEF IOInv, TaskTypes
    <3> QED
      BY <1>3, <2>5, <2>7, <3>1
  <2>13. \A d \in Cores : SleepSound(d)'
    BY <1>1, <1>2, <2>3, <2>8, <2>12, CoroGoesOn
  <2> QED
    BY <2>10, <2>11, <2>13 DEF EdgesSound
<1> QED
  BY <1>4, <1>5

LEMMA StopServerEdges ==
    ASSUME IOInv, EdgesSound, StopServer
    PROVE  EdgesSound'
<1>1. /\ main = "joinClients" /\ unsubscribe(Listener)
      /\ UNCHANGED <<myTasks, pc, batch, myIsStopped, sock, backlog>>
  BY DEF StopServer, Go, threadVars
<1>2. /\ Listener \in Tasks /\ Core(Listener) = "srv" /\ "srv" \in Cores
      /\ \A c \in Cores : EventSub(c) # Listener /\ EventSub(c) \in Tasks
  BY CoreFacts
<1>3. task[Listener].st = "working"
  <2>1. \A t \in Ends : Done(t)
    BY <1>1 DEF IOInv, StagesSound
  <2>2. task[Listener].st \in States /\ ~Gone(Listener) /\ task[Listener].st # "none"
    BY <1>1, <1>2 DEF IOInv, TaskTypes, TaskRecord, StagesSound, ListenerSound, Stopping, Down
  <2> QED
    BY <2>1, <2>2, AllSubscribed DEF States, Gone
<1>4. /\ \A t \in Tasks : t # Listener => task'[t] = task[t]
      /\ myQueue' = [myQueue EXCEPT !["srv"] = Append(@, Listener)]
  BY <1>1, <1>2, <1>3, UnsubscribeFacts
<1>5. /\ \A d \in Cores : ready[d] \subseteq ready'[d]
      /\ Registered(EventSub("srv")) => EventSub("srv") \in ready'["srv"]
  BY <1>1, <1>2, wakeupFacts DEF unsubscribe, IOInv
<1>6. task[EventSub("srv")].st = "working" => EventSub("srv") \in ready'["srv"]
  BY <1>2, <1>5, RegisteredLive DEF IOInv, Live
<1>7. ASSUME NEW d \in Cores PROVE SleepSound(d)'
  <2>1. SleepSound(d) /\ task'[EventSub(d)] = task[EventSub(d)]
    BY <1>2, <1>4 DEF EdgesSound
  <2>2. CASE d = "srv"
    BY <1>1, <1>5, <1>6, <2>1, <2>2 DEF SleepSound
  <2>3. CASE d # "srv"
    <3>1. myQueue'[d] = myQueue[d]
      BY <1>4, <2>3 DEF IOInv, TaskTypes
    <3> QED
      BY <1>1, <1>5, <2>1, <3>1, SleepStays
  <2> QED
    BY <2>2, <2>3
<1> QED
  BY <1>1, <1>2, <1>3, <1>7, UnsubscribeEdges

LEMMA DestroyCoreEdges ==
    ASSUME IOInv, EdgesSound, NEW c \in Cores, NEW from, NEW to, DestroyCore(c, from, to),
           \/ c = "cli" /\ from = "joinServer" /\ to = "~cli" /\ pc["srv"] = "ended"
           \/ c = "srv" /\ from = "~cli" /\ to = "~srv" /\ pc["cli"] = "gone"
    PROVE  EdgesSound'
<1>1. /\ main = from /\ unsubscribe(EventSub(c)) /\ pc' = [pc EXCEPT ![c] = "drain"]
      /\ UNCHANGED <<myTasks, batch, myIsStopped, sock, backlog>>
  BY DEF DestroyCore, Go
<1>2. EventSub(c) \in Tasks /\ \A d \in Cores : Core(EventSub(d)) = d /\ EventSub(d) \in Tasks
  BY CoreFacts
<1>3. task[EventSub(c)].st = "working"
  <2>1. \A t \in Ends : Done(t)
    BY <1>1 DEF IOInv, StagesSound, Stopping, Down
  <2>2. task[EventSub(c)].st \in States /\ ~Gone(EventSub(c)) /\ task[EventSub(c)].st # "none"
    BY <1>1, <1>2 DEF IOInv, TaskTypes, TaskRecord, StagesSound, SubsSound, EventSubSound, Down
  <2> QED
    BY <2>1, <2>2, AllSubscribed DEF States, Gone
<1>4. /\ \A t \in Tasks : t # EventSub(c) => task'[t] = task[t]
      /\ task'[EventSub(c)].st = "deleting"
      /\ myQueue' = [myQueue EXCEPT ![c] = Append(@, EventSub(c))]
  BY <1>1, <1>2, <1>3, UnsubscribeFacts
<1>5. \A d \in Cores : ready[d] \subseteq ready'[d]
  BY <1>1, <1>2, wakeupFacts DEF unsubscribe, IOInv
<1>6. ASSUME NEW d \in Cores PROVE SleepSound(d)'
  <2>1. CASE d = c
    <3>1. pc'[c] = "drain"
      BY <1>1 DEF IOInv, ThreadTypes
    <3> QED
      BY <1>4, <2>1, <3>1 DEF SleepSound
  <2>2. CASE d # c
    <3>1. myQueue'[d] = myQueue[d] /\ pc'[d] = pc[d]
      BY <1>1, <1>4, <2>2 DEF IOInv, TaskTypes, ThreadTypes
    <3>2. task'[EventSub(d)] = task[EventSub(d)]
      BY <1>2, <1>4, <2>2
    <3> QED
      BY <1>1, <1>5, <3>1, <3>2, SleepStays DEF EdgesSound
  <2> QED
    BY <2>1, <2>2
<1> QED
  BY <1>1, <1>2, <1>3, <1>6, UnsubscribeEdges


(* The sockets of the connection of s change their states: the other end   *)
(* of it has no task yet.                                                  *)
LEMMA OtherEnds ==
    ASSUME IOInv, EdgesSound, NEW s \in Ends, Core(s) = "cli", sock[s].st \in {"none", "connecting"},
           \A t \in Ends : sock'[t].bytes = sock[t].bytes,
           \A t \in Ends : t # s /\ t # Peer(s) => sock'[t] = sock[t],
           \A t \in Tasks : t # s => task'[t] = task[t],
           batch' = batch, \A d \in Cores : ready[d] \subseteq ready'[d]
    PROVE  \A t \in Ends : t # s => EdgeSound(t)'
<1> SUFFICES ASSUME NEW t \in Ends, t # s PROVE EdgeSound(t)'
  OBVIOUS
<1>1. t \in Tasks /\ Peer(t) \in Ends /\ EdgeSound(t) /\ AnnouncedKept(t)
  BY EndFacts, AnnouncedGrows DEF EdgesSound
<1>2. CASE t = Peer(s)
  <2>1. task[t].st = "none"
    BY <1>2 DEF IOInv, FlowSound, ConnectionSound, ClientSound
  <2> QED
    BY <1>1, <2>1 DEF EdgeSound
<1>3. CASE t # Peer(s)
  <2>1. EdgeKept(t)
    BY <1>1, <1>3 DEF EdgeKept
  <2> QED
    BY <1>1, <2>1, EdgeStays
<1> QED
  BY <1>2, <1>3

LEMMA EstablishedEdges ==
    ASSUME IOInv, EdgesSound, NEW s \in Ends, Established(s)
    PROVE  EdgesSound'
<1>1. /\ sock[s].st = "connecting" /\ sock' = [sock EXCEPT ![s].st = "open", ![Peer(s)].st = "open"]
      /\ WakeUp({s, Listener})
      /\ UNCHANGED <<task, myQueue, pc, batch, myIsStopped>>
  BY DEF Established, coreVars, threadVars, mainVars
<1>2. /\ s \in Tasks /\ Core(s) \in Cores /\ Listener \in Tasks /\ Core(Listener) \in Cores
      /\ Peer(s) \in Ends /\ Peer(s) # s /\ Peer(Peer(s)) = s
  BY EndFacts, CoreFacts
<1>3. Core(s) = "cli"
  BY <1>1 DEF IOInv, FlowSound, ConnectionSound, ServerSound
<1>4. PICK p : p = Peer(s)
  OBVIOUS
<1>5. /\ sock'[s].st = "open" /\ \A t \in Ends : sock'[t].bytes = sock[t].bytes
      /\ \A t \in Ends : t # s /\ t # p => sock'[t] = sock[t]
  <2>1. sock \in [Ends -> SockRecord] /\ sock[s] \in SockRecord /\ sock[p] \in SockRecord
    BY <1>2, <1>4 DEF IOInv, KernelTypes
  <2>2. sock' = [sock EXCEPT ![s].st = "open", ![p].st = "open"] /\ p \in Ends /\ p # s
    BY <1>1, <1>2, <1>4
  <2>3. /\ sock'[s] = [sock[s] EXCEPT !.st = "open"] /\ sock'[p] = [sock[p] EXCEPT !.st = "open"]
        /\ \A t \in Ends : t # s /\ t # p => sock'[t] = sock[t]
    BY <2>1, <2>2
  <2>4. sock'[s].st = "open" /\ sock'[s].bytes = sock[s].bytes /\ sock'[p].bytes = sock[p].bytes
    BY <2>1, <2>3 DEF SockRecord
  <2> QED
    BY <2>3, <2>4
<1>6. /\ \A d \in Cores : ready[d] \subseteq ready'[d]
      /\ task[s].st = "working" => s \in ready'[Core(s)]
      /\ task[Listener].st = "working" => Listener \in ready'[Core(Listener)]
  <2>1. {s, Listener} \subseteq Tasks
    BY <1>2
  <2>2. \A d \in Cores : ready[d] \subseteq ready'[d]
    BY <1>1, <2>1, WakeUpFacts DEF IOInv
  <2>3. (task[s].st = "working" => Registered(s)) /\ (task[Listener].st = "working" => Registered(Listener))
    BY <1>2, RegisteredLive DEF IOInv, Live
  <2> QED
    BY <1>1, <1>2, <2>2, <2>3 DEF WakeUp
<1>7. \A t \in Ends : t # s => EdgeSound(t)'
  BY <1>1, <1>3, <1>4, <1>5, <1>6, OtherEnds
<1>8. EdgeSound(s)'
  <2>1. EdgeSound(s)
    BY DEF EdgesSound
  <2>2. CASE task[s].st # "working"
    BY <1>1, <2>2 DEF EdgeSound
  <2>3. CASE task[s].st = "working"
    <3>1. task[s].op \in {"send", "connect"} => Writable(s)'
      <4> SUFFICES ASSUME task[s].op \in {"send", "connect"} PROVE Writable(s)'
        OBVIOUS
      <4>1. ~Running(s)
        BY <1>2 DEF Running, IOInv, UsesSound, CoroSound
      <4>2. Does(s) # "recv" /\ ~Gone(s)
        BY <2>3, <4>1 DEF Does, Gone
      <4>3. task[p].st = "none" /\ p \in Ends /\ Peer(p) = s /\ EndSound(p) /\ p \in Tasks
        BY <1>1, <1>2, <1>3, <1>4, EndFacts DEF IOInv, FlowSound, ConnectionSound, ClientSound
      <4>4. task[p].op = "none" /\ task[p].recvs = 0 /\ ~Gone(p)
        BY <4>3 DEF EndSound, Gone
      <4>5. Does(p) # "recv"
        <5>1. Core(p) \in Cores /\ p # Listener
          BY <4>3, EndFacts, CoreFacts
        <5>2. ~Running(p)
          BY <4>3, <5>1 DEF Running, IOInv, UsesSound, CoroSound
        <5> QED
          BY <4>4, <5>2 DEF Does
      <4>6. Sent(p) = 0
        BY <4>4, <4>5 DEF Sent
      <4>7. task[s].recvs \in Nat /\ sock[s].bytes \in Nat /\ task[s].recvs + sock[s].bytes = 0
        BY <1>4, <4>2, <4>6, Counted DEF Received
      <4>8. sock[Peer(s)].bytes = 0
        BY <4>2, <4>7, NothingSent
      <4>9. sock'[Peer(s)].bytes = 0
        BY <1>2, <1>5, <4>8
      <4> QED
        BY <1>5, <4>9, IOCoroAssumption DEF Writable
    <3> QED
      BY <1>1, <1>6, <2>1, <2>3, <3>1, EdgeWoken DEF EdgeSound
  <2> QED
    BY <2>2, <2>3
<1>9. ListenerEdge'
  BY <1>1, <1>6 DEF ListenerEdge, Announced
<1>10. ASSUME NEW d \in Cores PROVE SleepSound(d)'
  BY <1>1, <1>6, SleepStays DEF EdgesSound
<1> QED
  BY <1>7, <1>8, <1>9, <1>10 DEF EdgesSound

LEMMA connectAndRunEdges ==
    ASSUME IOInv, EdgesSound, connectAndRun
    PROVE  EdgesSound'
<1>1. connected \in Nat /\ connected + 1 \in 1..ClientCount /\ main = "connect"
  BY IOCoroAssumption DEF connectAndRun, IOInv, ThreadTypes
<1>2. PICK k \in 1..ClientCount : k = connected + 1
  BY <1>1
<1>3. PICK s : s = <<"cli", k>>
  OBVIOUS
<1>4. /\ s \in Ends /\ Core(s) = "cli" /\ s[2] = k /\ s \in Tasks /\ s # Listener /\ "cli" \in Cores
      /\ \A d \in Cores : EventSub(d) # s /\ EventSub(d) \in Tasks
  BY <1>3, NumberedEnd, CoreFacts, EndFacts
<1>5. ClientSound(s)
  BY <1>4 DEF IOInv, FlowSound, ConnectionSound
<1>6. task[s].st = "none" /\ sock[s].st = "none"
  BY <1>1, <1>2, <1>4, <1>5 DEF ClientSound
<1>7. AsyncConnect(s) /\ UNCHANGED <<myTasks, pc, batch, myIsStopped>>
  BY <1>2, <1>3 DEF connectAndRun, threadVars
<1>8. PICK op \in {"send", "connect"} : subscribe(s, op)
  BY <1>7 DEF AsyncConnect
<1>9. /\ \A t \in Tasks : t # s => task'[t] = task[t]
      /\ task'[s].st = "new" /\ myQueue' = [myQueue EXCEPT !["cli"] = Append(@, s)]
  BY <1>4, <1>6, <1>7, <1>8, SubscribeFacts
<1>10. PICK p : p = Peer(s)
  OBVIOUS
<1>11. p \in Ends /\ p # s /\ sock \in [Ends -> SockRecord] /\ sock[s] \in SockRecord /\ sock[p] \in SockRecord
  BY <1>4, <1>10, EndFacts DEF IOInv, KernelTypes
<1>12. /\ \A t \in Ends : sock'[t].bytes = sock[t].bytes
       /\ \A t \in Ends : t # s /\ t # p => sock'[t] = sock[t]
  <2>1. CASE sock' = [sock EXCEPT ![s].st = "connecting"]
    <3>1. sock'[s] = [sock[s] EXCEPT !.st = "connecting"] /\ \A t \in Ends : t # s => sock'[t] = sock[t]
      BY <1>4, <1>11, <2>1
    <3>2. sock'[s].bytes = sock[s].bytes
      BY <1>11, <3>1 DEF SockRecord
    <3> QED
      BY <3>1, <3>2
  <2>2. CASE sock' = [sock EXCEPT ![s].st = "open", ![p].st = "open"]
    <3>1. /\ sock'[s] = [sock[s] EXCEPT !.st = "open"] /\ sock'[p] = [sock[p] EXCEPT !.st = "open"]
          /\ \A t \in Ends : t # s /\ t # p => sock'[t] = sock[t]
      BY <1>4, <1>11, <2>2
    <3>2. sock'[s].bytes = sock[s].bytes /\ sock'[p].bytes = sock[p].bytes
      BY <1>11, <3>1 DEF SockRecord
    <3> QED
      BY <3>1, <3>2
  <2> QED
    BY <1>7, <1>10, <2>1, <2>2 DEF AsyncConnect
<1>13. /\ \A d \in Cores : ready[d] \subseteq ready'[d]
       /\ backlog' = backlog \/ (task[Listener].st = "working" => Listener \in ready'[Core(Listener)])
  <2>1. CASE UNCHANGED <<backlog, ready>>
    BY <2>1
  <2>2. CASE WakeUp({Listener})
    <3>1. Listener \in Tasks /\ Core(Listener) \in Cores /\ {Listener} \subseteq Tasks
      BY CoreFacts
    <3>2. \A d \in Cores : ready[d] \subseteq ready'[d]
      BY <2>2, <3>1, WakeUpFacts DEF IOInv
    <3>3. task[Listener].st = "working" => Registered(Listener)
      BY <3>1, RegisteredLive DEF IOInv, Live
    <3> QED
      BY <2>2, <3>1, <3>2, <3>3 DEF WakeUp
  <2> QED
    BY <1>7, <2>1, <2>2 DEF AsyncConnect
<1>14. \A t \in Ends : t # s => EdgeSound(t)'
  BY <1>4, <1>6, <1>7, <1>9, <1>10, <1>12, <1>13, OtherEnds
<1>15. EdgeSound(s)'
  BY <1>9 DEF EdgeSound
<1>16. ListenerEdge'
  <2>1. task'[Listener] = task[Listener] /\ AnnouncedKept(Listener)
    BY <1>4, <1>7, <1>9, <1>13, AnnouncedGrows, CoreFacts
  <2>2. CASE backlog' = backlog
    BY <2>1, <2>2, ListenerStays DEF EdgesSound
  <2>3. CASE task[Listener].st = "working" => Listener \in ready'[Core(Listener)]
    BY <2>1, <2>3 DEF ListenerEdge, Announced
  <2> QED
    BY <1>13, <2>2, <2>3
<1>17. \A d \in Cores : SleepSound(d)'
  <2>1. pc'["cli"] = "off"
    BY <1>1, <1>7 DEF IOInv, ThreadsSound
  <2>2. \A d \in Cores : d # "cli" => myQueue'[d] = myQueue[d]
    BY <1>9 DEF IOInv, TaskTypes
  <2>3. \A d \in Cores : task'[EventSub(d)] = task[EventSub(d)]
    BY <1>4, <1>9
  <2>4. "cli" \in Cores /\ pc'["cli"] \notin {"queues", "drain", "wait"}
    BY <1>4, <2>1
  <2> QED
    BY <1>7, <1>13, <2>2, <2>3, <2>4, OthersSleep
<1> QED
  BY <1>14, <1>15, <1>16, <1>17 DEF EdgesSound

LEMMA EdgesInit == Init => EdgesSound
<1> SUFFICES ASSUME Init PROVE EdgesSound
  OBVIOUS
<1>1. ListenerEdge
  BY DEF Init, ListenerEdge
<1>2. ASSUME NEW t \in Ends PROVE EdgeSound(t)
  <2>1. task[t] = NoTask
    BY EndFacts, CoreFacts DEF Init
  <2> QED
    BY <2>1 DEF EdgeSound, NoTask
<1>3. \A c \in Cores : SleepSound(c)
  BY DEF Init, SleepSound
<1> QED
  BY <1>1, <1>2, <1>3 DEF EdgesSound

LEMMA EdgesNext ==
    ASSUME IOInv, EdgesSound, [Next]_vars
    PROVE  EdgesSound'
<1>1. ASSUME NEW c \in Cores, CoreStep(c) PROVE EdgesSound'
  <2>1. CASE CheckStopped(c)
    BY <2>1, CheckStoppedEdges
  <2>2. CASE processQueues(c)
    BY <2>2, processQueuesEdges
  <2>3. CASE AddTask(c)
    BY <2>3, AddTaskEdges
  <2>4. CASE DropTask(c)
    BY <2>4, DropTaskEdges
  <2>5. CASE Drained(c)
    BY <2>5, DrainedEdges
  <2>6. CASE epoll_wait(c)
    BY <2>6, epoll_waitEdges
  <2>7. CASE \E t \in Tasks : Event(c, t)
    BY <2>7, EventEdges
  <2>8. CASE EndOfBatch(c)
    BY <2>8, EndOfBatchEdges
  <2>9. CASE Accept(c)
    BY <2>9, AcceptEdges
  <2>10. ASSUME NEW t \in Ends, Send(c, t) PROVE EdgesSound'
    BY <2>10, SendEdges
  <2>11. ASSUME NEW t \in Ends, Recv(c, t) PROVE EdgesSound'
    BY <2>11, RecvEdges
  <2>12. ASSUME NEW t \in Ends, Finish(c, t) PROVE EdgesSound'
    BY <2>12, FinishEdges
  <2>13. ASSUME NEW t \in Ends, DeleteClient(c, t) PROVE EdgesSound'
    BY <2>13, DeleteClientEdges
  <2> QED
    BY <1>1, <2>1, <2>2, <2>3, <2>4, <2>5, <2>6, <2>7, <2>8, <2>9, <2>10, <2>11, <2>12, <2>13
       DEF CoreStep, CoroStep
<1>2. CASE MainStep
  <2>1. CASE connectAndRun
    BY <2>1, connectAndRunEdges
  <2>2. CASE StartClientThread
    BY <2>2, StartClientThreadEdges
  <2>3. CASE StopClients
    BY <2>3, StopEdges, CoreFacts DEF StopClients, coreVars, threadVars
  <2>4. CASE StopServer
    BY <2>4, StopServerEdges
  <2>5. CASE StopServerCore
    BY <2>5, StopEdges, CoreFacts DEF StopServerCore, coreVars, threadVars
  <2>6. CASE DestroyClientCore
    BY <2>6, DestroyCoreEdges, CoreFacts DEF DestroyClientCore
  <2>7. CASE DestroyServerCore
    BY <2>7, DestroyCoreEdges, CoreFacts DEF DestroyServerCore
  <2>8. CASE Leave
    BY <2>8, FrameEdges DEF Leave, coreVars, threadVars, kernelVars
  <2> QED
    BY <1>2, <2>1, <2>2, <2>3, <2>4, <2>5, <2>6, <2>7, <2>8 DEF MainStep
<1>3. CASE Handshake
  BY <1>3, EstablishedEdges DEF Handshake
<1>4. CASE UNCHANGED vars
  BY <1>4, FrameEdges DEF vars, coreVars, threadVars, mainVars, kernelVars
<1> QED
  BY <1>1, <1>2, <1>3, <1>4 DEF Next

(* For any number of clients and requests, any size of a batch and of the  *)
(* buffers: an operation that could go on has its event in the kernel or   *)
(* in the batch, although events are edge-triggered and a bit is cleared   *)
(* only after the call that would have blocked; and a core does not sleep  *)
(* with work in its queue or when it is stopped.                           *)
THEOREM NothingIsMissed == Spec => []NothingMissed
<1>1. Init => EdgesSound
  BY EdgesInit
<1>2. IOInv /\ EdgesSound /\ [Next]_vars => EdgesSound'
  BY EdgesNext
<1>3. Spec => []EdgesSound
  BY <1>1, <1>2, IOInvariant, PTL DEF Spec
<1>4. IOInv /\ EdgesSound => NothingMissed
  <2> SUFFICES ASSUME IOInv, EdgesSound PROVE NothingMissed
    OBVIOUS
  <2>1. ASSUME NEW t \in Tasks, task[t].st = "working", Possible(t)
        PROVE  Announced(t, Bit(task[t].op))
    <3>1. t \in Ends \/ t = Listener \/ t = EventSub(Core(t))
      BY TaskKinds
    <3>2. task[t] \in TaskRecord
      BY DEF IOInv, TaskTypes
    <3>3. task[t].op \in {"recv", "send", "accept", "connect", "none"}
      BY <3>2 DEF TaskRecord, Ops
    <3>4. CASE t \in Ends
      <4>1. EdgeSound(t) /\ EndSound(t)
        BY <3>4 DEF EdgesSound, IOInv, FlowSound
      <4>2. task[t].op # "accept"
        <5>1. Does(t) # "accept"
          BY <2>1, <4>1 DEF EndSound
        <5>2. task[t].op # "none" => ~Running(t)
          BY TaskKinds DEF Running, IOInv, UsesSound, CoroSound
        <5> QED
          BY <5>1, <5>2 DEF Does
      <4>3. CASE task[t].op = "recv"
        BY <2>1, <4>1, <4>3 DEF EdgeSound, Possible, Bit
      <4>4. CASE task[t].op \in {"send", "connect"}
        BY <2>1, <4>1, <4>4 DEF EdgeSound, Possible, Bit
      <4>5. CASE task[t].op = "none"
        BY <2>1, <4>5 DEF Possible
      <4> QED
        BY <3>3, <4>2, <4>3, <4>4, <4>5
    <3>5. CASE t = Listener
      <4>1. Does(t) = "accept"
        BY <2>1, <3>5 DEF IOInv, ListenerSound
      <4>2. task[t].op # "none" => ~Running(t)
        BY TaskKinds DEF Running, IOInv, UsesSound, CoroSound
      <4>3. task[t].op \in {"accept", "none"}
        BY <4>1, <4>2 DEF Does
      <4>4. CASE task[t].op = "accept"
        BY <2>1, <3>5, <4>4 DEF EdgesSound, ListenerEdge, Possible, Bit
      <4>5. CASE task[t].op = "none"
        BY <2>1, <4>5 DEF Possible
      <4> QED
        BY <4>3, <4>4, <4>5
    <3>6. CASE t = EventSub(Core(t))
      <4>1. task[t].op = "none"
        BY <3>6, TaskKinds DEF IOInv, SubsSound, EventSubSound
      <4> QED
        BY <2>1, <4>1 DEF Possible
    <3> QED
      BY <3>1, <3>4, <3>5, <3>6
  <2>2. NoLostEdge
    BY <2>1 DEF NoLostEdge, Announced
  <2>3. NoSleepWithWork
    <3> SUFFICES ASSUME NEW c \in Cores, pc[c] = "wait", myQueue[c] # <<>> \/ myIsStopped[c]
                 PROVE  EventSub(c) \in ready[c]
      BY DEF NoSleepWithWork
    <3>1. SleepSound(c) /\ myIsStopped[c] \in BOOLEAN
      BY DEF EdgesSound, IOInv, ThreadTypes
    <3> QED
      BY <3>1 DEF SleepSound
  <2> QED
    BY <2>2, <2>3 DEF NothingMissed
<1> QED
  BY <1>3, <1>4, IOInvariant, PTL
=============================================================================
