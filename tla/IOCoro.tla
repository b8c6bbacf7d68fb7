------------------------------- MODULE IOCoro -------------------------------
(***************************************************************************)
(* The event loop with coroutines of examples/cpp20_coroutines: two        *)
(* IOCores, each rolled by a thread of its own, and the main thread of     *)
(* main.cpp that connects clients on one to a server on the other, waits   *)
(* until both sides of every connection have exchanged Requests bytes, and *)
(* takes everything down.                                                  *)
(*                                                                         *)
(* A task (IOTask) is named <<core, k>>: k = 0 is the task of the core's   *)
(* eventfd, k = -1 the server's listening socket, and k >= 1 the k-th      *)
(* connection, "cli" being the end that connects and "srv" the accepted    *)
(* one.  A step of a coroutine is one system call; it goes on until an     *)
(* operation would block.  The awaited AsyncOperation is named by its kind *)
(* in the field op.                                                        *)
(***************************************************************************)
EXTENDS Integers, SequencesExt, FiniteSetsExt

CONSTANTS
    ClientCount,    \* theClientCount
    Requests,       \* theRequestTargetCount
    BatchSize,      \* theEpollBatchSize
    Cap             \* bytes that fit in the kernel, each way of a connection

ASSUME IOCoroAssumption ==
    ClientCount \in Nat \ {0} /\ Requests \in Nat \ {0} /\ BatchSize \in Nat \ {0} /\ Cap \in Nat \ {0}

Cores == {"cli", "srv"}
EventSub(c) == <<c, 0>>
Listener == <<"srv", -1>>
Ends == {<<c, k>> : c \in Cores, k \in 1..ClientCount}
Tasks == Ends \cup {EventSub(c) : c \in Cores} \cup {Listener}
Ops == {"recv", "send", "accept", "connect"}
Core(t) == t[1]
Peer(t) == <<IF t[1] = "cli" THEN "srv" ELSE "cli", t[2]>>

VARIABLES
    task,           \* the IOTasks: myState, myIdx, myEventsReady, myAsyncOp; recvs made
    myTasks,        \* per core, a sequence of tasks
    myQueue,        \* per core, a sequence of tasks
    mySize,         \* per core
    myIsStopped,    \* per core
    pc,             \* where the thread of the core is
    batch,          \* evs: the events not handled yet, a function from tasks to masks
    coro,           \* the coroutine that runs: its task, and what it does next
    main,           \* where the main thread is
    connected,      \* how many clients connectAndRun was called for
    finished,       \* myFinishClientCount
    serverFinished, \* myIsServerFinished
    sock,           \* the sockets of the connections, in the kernel
    backlog,        \* connections to be accepted
    signalled,      \* the eventfds that were written to
    ready,          \* per core, the ready list of the epoll instance
    failed          \* an assert() has failed

coreVars == <<task, myTasks, myQueue, mySize>>
threadVars == <<pc, batch, coro>>
mainVars == <<main, connected, myIsStopped>>
contextVars == <<finished, serverFinished>>
kernelVars == <<sock, backlog, signalled, ready>>
vars == <<coreVars, threadVars, mainVars, contextVars, kernelVars, failed>>

NoTask == [st |-> "none", idx |-> 0, bits |-> {}, op |-> "none", recvs |-> 0]
NewTask == [NoTask EXCEPT !.st = "new"]
NoSock == [st |-> "none", bytes |-> 0, fin |-> FALSE, reset |-> FALSE, full |-> FALSE]
NoEvents == [t \in {} |-> {}]
NoCoro == [task |-> Listener, next |-> "none"]

(* assert(cond)                                                            *)
Expect(cond) == failed' = (failed \/ ~cond)

-----------------------------------------------------------------------------
(* The kernel.                                                             *)
Registered(t) == t \in Range(myTasks[Core(t)])
Wake(t) == IF Registered(t) THEN {t} ELSE {}
WakeUp(set) == ready' = [c \in Cores |-> ready[c] \cup {t \in set : Core(t) = c /\ Registered(t)}]

Readable(t) == sock[t].bytes > 0 \/ sock[t].fin
Writable(t) == sock[t].st = "open" /\ sock[Peer(t)].bytes < Cap

(* What epoll_wait reports of a descriptor in the ready list; "H" stands   *)
(* for EPOLLHUP and EPOLLERR.                                              *)
Mask(t) ==
    CASE t \notin Ends \cup {Listener} -> IF Core(t) \in signalled THEN {"R", "W"} ELSE {}
      [] t = Listener -> IF backlog # <<>> THEN {"R"} ELSE {}
      [] t \in Ends -> {b \in {"R", "W", "H"} : \/ b = "R" /\ Readable(t)
                                                \/ b = "W" /\ Writable(t)
                                                \/ b = "H" /\ sock[t].reset}

(* The handshake of a connect() that returned EINPROGRESS ends.            *)
Established(t) ==
    /\ sock[t].st = "connecting"
    /\ sock' = [sock EXCEPT ![t].st = "open", ![Peer(t)].st = "open"]
    /\ backlog' = Append(backlog, t[2])
    /\ WakeUp({t, Listener})
    /\ UNCHANGED <<coreVars, threadVars, mainVars, contextVars, signalled, failed>>

(* close(): the other end gets the end of the stream, or is reset when     *)
(* input was left unread.                                                  *)
Closed(t) ==
    IF t \notin Ends THEN sock
    ELSE [sock EXCEPT ![t].st = "closed",
                      ![Peer(t)].fin = TRUE, ![Peer(t)].reset = @ \/ sock[t].bytes > 0]

-----------------------------------------------------------------------------
(* Mutant: nothing is written to the eventfd.                              *)
Mutantwakeup(c) == UNCHANGED <<signalled, ready>>

wakeup(c) ==
    /\ signalled' = signalled \cup {c}
    /\ ready' = [ready EXCEPT ![c] = @ \cup Wake(EventSub(c))]

(* The mutex of a core is held during processQueues, and for a moment in   *)
(* subscribe and unsubscribe.                                              *)
Unlocked(c) == pc[c] # "drain"

(* subscribe(): the task t with the operation op that its coroutine        *)
(* awaits first.  A task that is new has no event ready: the coroutine is  *)
(* suspended at once.                                                      *)
subscribe(t, op) ==
    /\ Expect(task[t].st = "none")
    /\ task' = [task EXCEPT ![t] = [NewTask EXCEPT !.op = op]]
    /\ myQueue' = [myQueue EXCEPT ![Core(t)] = Append(@, t)]
    /\ mySize' = [mySize EXCEPT ![Core(t)] = @ + 1]

(* The tasks after t was marked for deletion, by the next processQueues.   *)
Doomed(t) == [task EXCEPT ![t].st = "deleting"]

unsubscribe(t) ==
    LET c == Core(t)
    IN  /\ Expect(/\ t \notin Range(myQueue[c])
                  /\ task[t].idx \in DOMAIN myTasks[c] /\ myTasks[c][task[t].idx] = t
                  /\ task[t].st = "working")
        /\ task' = Doomed(t)
        /\ myQueue' = [myQueue EXCEPT ![c] = Append(@, t)]
        /\ mySize' = [mySize EXCEPT ![c] = @ + 1]
        /\ wakeup(c)

-----------------------------------------------------------------------------
(* The thread of a core: ioCoreRunF and roll.                              *)
CheckStopped(c) ==
    /\ pc[c] = "check"
    /\ pc' = [pc EXCEPT ![c] = IF myIsStopped[c] THEN "ended" ELSE "queues"]
    /\ UNCHANGED <<coreVars, batch, coro, mainVars, contextVars, kernelVars, failed>>

processQueues(c) ==
    /\ pc[c] = "queues"
    /\ pc' = [pc EXCEPT ![c] = IF mySize[c] = 0 \/ myQueue[c] = <<>> THEN "wait" ELSE "drain"]
    /\ UNCHANGED <<coreVars, batch, coro, mainVars, contextVars, kernelVars, failed>>

AddTask(c) ==
    /\ pc[c] = "drain" /\ myQueue[c] # <<>>
    /\ LET s == Head(myQueue[c])
       IN  /\ task[s].st = "new"
           /\ task' = [task EXCEPT ![s].st = "working", ![s].bits = {"R", "W"},
                                   ![s].idx = Len(myTasks[c]) + 1]
           /\ myTasks' = [myTasks EXCEPT ![c] = Append(@, s)]
           /\ ready' = [ready EXCEPT ![c] = @ \cup (IF Mask(s) # {} THEN {s} ELSE {})]
    /\ myQueue' = [myQueue EXCEPT ![c] = Tail(@)]
    /\ UNCHANGED <<mySize, threadVars, mainVars, contextVars, sock, backlog, signalled, failed>>

(* Mutant: the task that moves keeps its old index.                        *)
MutantMoved(c, s) == task

(* The last task of myTasks takes the place of s: the tasks after that.    *)
Moved(c, s) == [task EXCEPT ![Last(myTasks[c])].idx = task[s].idx]

(* onServerFinish, when the server's coroutine ends: its task s is dropped. *)
onServerFinish(s) == serverFinished' = (serverFinished \/ task[s].op = "accept")

(* A task is dropped.  An operation that waits is cancelled: the server's  *)
(* coroutine ends, no other coroutine expects it.                          *)
DropTask(c) ==
    /\ pc[c] = "drain" /\ myQueue[c] # <<>>
    /\ LET s == Head(myQueue[c])
           i == task[s].idx
           n == Len(myTasks[c])
       IN  /\ task[s].st = "deleting"
           /\ Expect(/\ i \in 1..n /\ myTasks[c][i] = s
                     /\ task[s].op \in {"none", "accept"}
                     /\ (task[s].op = "accept" => ~serverFinished))
           /\ task' = [Moved(c, s) EXCEPT ![s] = [NoTask EXCEPT !.st = "deleted"]]
           /\ myTasks' = [myTasks EXCEPT ![c] = SubSeq([@ EXCEPT ![i] = myTasks[c][n]], 1, n - 1)]
           /\ onServerFinish(s)
           /\ sock' = Closed(s)
           /\ LET woken == IF s \in Ends /\ Registered(Peer(s)) THEN {Peer(s)} ELSE {}
              IN  ready' = [d \in Cores |-> (ready[d] \cup {t \in woken : Core(t) = d}) \ {s}]
    /\ myQueue' = [myQueue EXCEPT ![c] = Tail(@)]
    /\ UNCHANGED <<mySize, threadVars, mainVars, finished, backlog, signalled>>

(* The end of processQueues; it was called by roll, or by ~IOCore.         *)
Drained(c) ==
    /\ pc[c] = "drain" /\ myQueue[c] = <<>>
    /\ mySize' = [mySize EXCEPT ![c] = Len(myTasks[c])]
    /\ pc' = [pc EXCEPT ![c] = IF main \in {"~cli", "~srv"} THEN "gone" ELSE "wait"]
    /\ UNCHANGED <<task, myTasks, myQueue, batch, coro, mainVars, contextVars, kernelVars, failed>>

epoll_wait(c) ==
    /\ pc[c] = "wait"
    /\ LET live == {t \in ready[c] : Mask(t) # {}}
       IN  /\ live # {}
           /\ \E evs \in kSubset(Min({BatchSize, Cardinality(live)}), live) :
                  /\ batch' = [batch EXCEPT ![c] = [t \in evs |-> Mask(t)]]
                  /\ ready' = [ready EXCEPT ![c] = live \ evs]
    /\ pc' = [pc EXCEPT ![c] = "batch"]
    /\ UNCHANGED <<coreVars, coro, mainVars, contextVars, sock, backlog, signalled, failed>>

(* The bit an operation waits for.                                         *)
Bit(op) == IF op \in {"recv", "accept"} THEN "R" ELSE "W"

(* Mutant: the events replace those that were ready already.               *)
MutantEvents(t, mask) == mask

Events(t, mask) == task[t].bits \cup mask

(* Mutant: myAsyncOp still points to the operation.                        *)
MutantTaken(t) == task[t].op

(* myAsyncOp while its onIOEvent runs.                                     *)
Taken(t) == "none"

(* What a coroutine does first when its operation has got its bit: a       *)
(* connect is done, the others are tried again.                            *)
Resumed(op) == IF op = "connect" THEN "send" ELSE op

(* One event of roll.  onIOEvent is called when an operation waits; unless *)
(* its bit is missing the coroutine runs, or the operation is tried again. *)
(* With the bit missing it does nothing, for a task that is being deleted  *)
(* it would cancel the operation: that is left to DropTask.                *)
Event(c, t) ==
    /\ pc[c] = "batch" /\ t \in DOMAIN batch[c]
    /\ batch' = [batch EXCEPT ![c] = [s \in DOMAIN batch[c] \ {t} |-> batch[c][s]]]
    /\ LET bits == Events(t, batch[c][t])
           op == task[t].op
       IN  /\ Expect(/\ "H" \notin batch[c][t]
                     /\ op # "none" /\ Bit(op) \notin bits => task[t].st # "deleting")
           /\ IF op # "none" /\ Bit(op) \in bits
              THEN /\ task' = [task EXCEPT ![t].bits = bits, ![t].op = Taken(t)]
                   /\ coro' = [coro EXCEPT ![c] = [task |-> t, next |-> Resumed(op)]]
                   /\ pc' = [pc EXCEPT ![c] = "coro"]
              ELSE task' = [task EXCEPT ![t].bits = bits] /\ UNCHANGED <<coro, pc>>
    /\ UNCHANGED <<myTasks, myQueue, mySize, mainVars, contextVars, kernelVars>>

EndOfBatch(c) ==
    /\ pc[c] = "batch" /\ batch[c] = NoEvents
    /\ pc' = [pc EXCEPT ![c] = "check"]
    /\ UNCHANGED <<coreVars, batch, coro, mainVars, contextVars, kernelVars, failed>>

-----------------------------------------------------------------------------
(* The coroutines.  Each step starts with the coroutine of a task that is  *)
(* about to do what "next" says.                                           *)
Runs(c, t, next) == pc[c] = "coro" /\ coro[c] = [task |-> t, next |-> next]
Then(c, next) == coro' = [coro EXCEPT ![c].next = next] /\ UNCHANGED <<pc, batch>>
BackToRoll(c) ==
    /\ pc' = [pc EXCEPT ![c] = "batch"]
    /\ coro' = [coro EXCEPT ![c] = NoCoro]
    /\ UNCHANGED batch

(* The operation cannot be done: its bit is cleared if it was tried, and   *)
(* the coroutine is suspended (await_suspend, or myAsyncOp restored).      *)
Suspend(c, t, op) ==
    /\ Expect(task[t].op = "none")
    /\ task' = [task EXCEPT ![t].op = op, ![t].bits = @ \ {Bit(op)}]
    /\ BackToRoll(c)

(* AsyncSend of one byte.  A byte for a socket that is closed is answered  *)
(* by a reset.                                                             *)
Send(c, t) ==
    /\ Runs(c, t, "send")
    /\ IF "W" \notin task[t].bits \/ ~Writable(t)
       THEN /\ Suspend(c, t, "send")
            /\ sock' = [sock EXCEPT ![t].full = "W" \in task[t].bits]
            /\ UNCHANGED ready
       ELSE /\ Then(c, "recv")
            /\ IF sock[Peer(t)].st = "closed"
               THEN sock' = [sock EXCEPT ![t].reset = TRUE] /\ WakeUp({t})
               ELSE sock' = [sock EXCEPT ![Peer(t)].bytes = @ + 1] /\ WakeUp({Peer(t)})
            /\ UNCHANGED <<task, failed>>
    /\ UNCHANGED <<myTasks, myQueue, mySize, mainVars, contextVars, backlog, signalled>>

(* The loop of Client::coroRun after a byte was received.                  *)
coroRun(t) == IF task[t].recvs + 1 < Requests THEN "send" ELSE "finish"

(* AsyncRecv of one byte; the end of the stream is not expected.           *)
Recv(c, t) ==
    /\ Runs(c, t, "recv")
    /\ IF "R" \notin task[t].bits \/ ~Readable(t)
       THEN Suspend(c, t, "recv") /\ UNCHANGED <<sock, ready>>
       ELSE /\ Expect(sock[t].bytes > 0)
            /\ task' = [task EXCEPT ![t].recvs = @ + 1]
            /\ Then(c, coroRun(t))
            /\ sock' = [sock EXCEPT ![t].bytes = @ - 1, ![Peer(t)].full = FALSE]
            /\ WakeUp(IF sock[Peer(t)].full THEN {Peer(t)} ELSE {})
    /\ UNCHANGED <<myTasks, myQueue, mySize, mainVars, contextVars, backlog, signalled>>

(* onClientFinish.                                                         *)
Finish(c, t) ==
    /\ Runs(c, t, "finish")
    /\ finished' = finished + 1
    /\ Then(c, "delete")
    /\ UNCHANGED <<coreVars, mainVars, serverFinished, kernelVars, failed>>

(* delete this: the task is closed.                                        *)
DeleteClient(c, t) ==
    /\ Runs(c, t, "delete")
    /\ unsubscribe(t)
    /\ BackToRoll(c)
    /\ UNCHANGED <<myTasks, mainVars, contextVars, sock, backlog>>

(* A Client for an accepted socket, with a task on the same core.          *)
wrapAndRun(t) == subscribe(t, "send") /\ wakeup(Core(t))

(* AsyncAccept in the loop of the server's coroutine: every connection     *)
(* gets a Client, and the next accept is tried.                            *)
Accept(c) ==
    /\ Runs(c, Listener, "accept")
    /\ IF "R" \notin task[Listener].bits \/ backlog = <<>>
       THEN Suspend(c, Listener, "accept") /\ UNCHANGED <<myQueue, mySize, backlog, signalled, ready>>
       ELSE /\ wrapAndRun(<<c, Head(backlog)>>)
            /\ backlog' = Tail(backlog)
            /\ UNCHANGED threadVars
    /\ UNCHANGED <<myTasks, mainVars, contextVars, sock>>

-----------------------------------------------------------------------------
(* The main thread: run() and main().                                      *)
Init ==
    /\ task = [t \in Tasks |-> CASE t = Listener -> [NewTask EXCEPT !.op = "accept"]
                                [] t \in Ends -> NoTask
                                [] OTHER -> NewTask]
    /\ myTasks = [c \in Cores |-> <<>>]
    /\ myQueue = [c \in Cores |-> IF c = "srv" THEN <<EventSub(c), Listener>> ELSE <<EventSub(c)>>]
    /\ mySize = [c \in Cores |-> Len(myQueue[c])]
    /\ myIsStopped = [c \in Cores |-> FALSE]
    /\ pc = [c \in Cores |-> IF c = "srv" THEN "check" ELSE "off"]
    /\ batch = [c \in Cores |-> NoEvents]
    /\ coro = [c \in Cores |-> NoCoro]
    /\ main = "connect"
    /\ connected = 0
    /\ finished = 0
    /\ serverFinished = FALSE
    /\ sock = [t \in Ends |-> NoSock]
    /\ backlog = <<>>
    /\ signalled = Cores
    /\ ready = [c \in Cores |-> {}]
    /\ failed = FALSE

(* AsyncConnect: connect() goes on, or is done at once.                    *)
AsyncConnect(t) ==
    \/ /\ subscribe(t, "connect")
       /\ sock' = [sock EXCEPT ![t].st = "connecting"]
       /\ UNCHANGED <<backlog, ready>>
    \/ /\ subscribe(t, "send")
       /\ sock' = [sock EXCEPT ![t].st = "open", ![Peer(t)].st = "open"]
       /\ backlog' = Append(backlog, t[2])
       /\ WakeUp({Listener})

(* Client::connectAndRun, of one client after the other.                   *)
connectAndRun ==
    /\ main = "connect" /\ connected < ClientCount
    /\ connected' = connected + 1
    /\ AsyncConnect(<<"cli", connected + 1>>)
    /\ signalled' = signalled \cup {"cli"}
    /\ UNCHANGED <<myTasks, threadVars, main, myIsStopped, contextVars>>

Go(from, to) == main = from /\ main' = to

StartClientThread ==
    /\ connected = ClientCount
    /\ Go("connect", "clients")
    /\ pc' = [pc EXCEPT !["cli"] = "check"]
    /\ UNCHANGED <<coreVars, batch, coro, connected, myIsStopped, contextVars, kernelVars, failed>>

(* waitClientsFinish, and clientCore.stop().                               *)
StopClients ==
    /\ finished >= 2 * ClientCount
    /\ Go("clients", "joinClients")
    /\ Expect(finished = 2 * ClientCount)
    /\ myIsStopped' = [myIsStopped EXCEPT !["cli"] = TRUE]
    /\ wakeup("cli")
    /\ UNCHANGED <<coreVars, threadVars, connected, contextVars, sock, backlog>>

(* clientThread.join(), and server.stop().                                 *)
StopServer ==
    /\ pc["cli"] = "ended" /\ Unlocked("srv")
    /\ Go("joinClients", "server")
    /\ unsubscribe(Listener)
    /\ UNCHANGED <<myTasks, threadVars, connected, myIsStopped, contextVars, sock, backlog>>

(* waitServerFinish, and serverCore.stop().                                *)
StopServerCore ==
    /\ serverFinished
    /\ Go("server", "joinServer")
    /\ myIsStopped' = [myIsStopped EXCEPT !["srv"] = TRUE]
    /\ wakeup("srv")
    /\ UNCHANGED <<coreVars, threadVars, connected, contextVars, sock, backlog, failed>>

(* ~IOCore of c: the eventfd is unsubscribed, the queues are processed.    *)
DestroyCore(c, from, to) ==
    /\ Go(from, to)
    /\ unsubscribe(EventSub(c))
    /\ pc' = [pc EXCEPT ![c] = "drain"]
    /\ UNCHANGED <<myTasks, batch, coro, connected, myIsStopped, contextVars, sock, backlog>>

DestroyClientCore == pc["srv"] = "ended" /\ DestroyCore("cli", "joinServer", "~cli")
DestroyServerCore == pc["cli"] = "gone" /\ DestroyCore("srv", "~cli", "~srv")

(* The asserts of ~IOCore and main(): nothing is left.                     *)
Leave ==
    /\ pc["srv"] = "gone"
    /\ Go("~srv", "done")
    /\ Expect(/\ \A c \in Cores : myTasks[c] = <<>> /\ myQueue[c] = <<>>
              /\ \A t \in Tasks : task[t].st = "deleted")
    /\ UNCHANGED <<coreVars, threadVars, connected, myIsStopped, contextVars, kernelVars>>

-----------------------------------------------------------------------------
CoroStep(c) ==
    \/ Accept(c)
    \/ \E t \in Ends : Send(c, t) \/ Recv(c, t) \/ Finish(c, t) \/ DeleteClient(c, t)

CoreStep(c) ==
    \/ CheckStopped(c) \/ processQueues(c) \/ AddTask(c) \/ DropTask(c) \/ Drained(c)
    \/ epoll_wait(c) \/ (\E t \in Tasks : Event(c, t)) \/ EndOfBatch(c) \/ CoroStep(c)

MainStep ==
    \/ connectAndRun \/ StartClientThread \/ StopClients \/ StopServer \/ StopServerCore
    \/ DestroyClientCore \/ DestroyServerCore \/ Leave

Handshake == \E t \in Ends : Established(t)

Next == (\E c \in Cores : CoreStep(c)) \/ MainStep \/ Handshake

Spec == Init /\ [][Next]_vars

(* The threads are scheduled, and connecting to a server that listens on   *)
(* the same host succeeds.                                                 *)
FairSpec ==
    /\ Spec
    /\ \A c \in Cores : WF_vars(CoreStep(c))
    /\ WF_vars(MainStep) /\ WF_vars(Handshake)

-----------------------------------------------------------------------------
(* Properties.                                                             *)
States == {"none", "new", "working", "deleting", "deleted"}

(* States, operations and counters have their types; a connection holds at *)
(* most Cap bytes each way.                                                *)
IOCoroTypeOK ==
    /\ \A t \in Tasks : /\ task[t].st \in States /\ task[t].bits \subseteq {"R", "W", "H"}
                        /\ task[t].op \in Ops \cup {"none"}
                        /\ task[t].recvs \in 0..Requests
    /\ \A t \in Ends : sock[t].bytes \in 0..Cap
    /\ finished \in 0..(2 * ClientCount)

(* No assert() of the event loop or of the program fails: among them those *)
(* that no operation is overwritten, that no socket is reset or ends while *)
(* a client waits for data, and that nothing is left at the end.           *)
NoAssertFails == ~failed

(* myTasks and myIdx agree, myQueue holds what has to be done: the cyclic  *)
(* deletion of processQueues, whatever is added and dropped in one go.     *)
IndexesAgree ==
    \A c \in Cores :
        /\ \A i \in DOMAIN myTasks[c] :
              task[myTasks[c][i]].idx = i /\ task[myTasks[c][i]].st \in {"working", "deleting"}
        /\ IsInjective(myQueue[c])
        /\ \A t \in Tasks : Core(t) = c =>
              (t \in Range(myQueue[c]) <=> task[t].st \in {"new", "deleting"})

(* No deleted task is used: not by an event of the batch, not by the ready *)
(* list, and not by a coroutine.                                           *)
NoUseAfterFree ==
    \A c \in Cores : \A t \in DOMAIN batch[c] \cup ready[c] \cup
                              (IF pc[c] = "coro" THEN {coro[c].task} ELSE {}) :
        task[t].st \in {"working", "deleting"}

(* The lists of a core and the tasks in them.                              *)
TasksSound == IOCoroTypeOK /\ IndexesAgree /\ NoUseAfterFree

(* An operation that could go on is going to be tried: the task has an     *)
(* event in the kernel or in the batch, or is not added to epoll yet.      *)
Possible(t) ==
    CASE task[t].op = "accept" -> backlog # <<>>
      [] task[t].op = "recv" -> Readable(t)
      [] task[t].op \in {"send", "connect"} -> Writable(t)
      [] OTHER -> FALSE

(* Edge-triggered events are not lost, although a bit of myEventsReady is  *)
(* cleared after the call that would have blocked.                         *)
NoLostEdge ==
    \A t \in Tasks : (task[t].st = "working" /\ Possible(t)) =>
        \/ t \in ready[Core(t)]
        \/ t \in DOMAIN batch[Core(t)] /\ Bit(task[t].op) \in batch[Core(t)][t]

(* A core does not sleep in epoll_wait with work in its queue, or when it  *)
(* is stopped.                                                             *)
NoSleepWithWork ==
    \A c \in Cores : (pc[c] = "wait" /\ (myQueue[c] # <<>> \/ myIsStopped[c])) =>
        EventSub(c) \in ready[c]

(* Whatever can be done is announced to the core that has to do it.        *)
NothingMissed == NoLostEdge /\ NoSleepWithWork

(* Liveness: the program ends.                                             *)
ProgramEnds == <>(main = "done")
=============================================================================
