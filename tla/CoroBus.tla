------------------------------- MODULE CoroBus -------------------------------
(***************************************************************************)
(* The message bus of 1/corobus.cpp on top of the coroutine engine.        *)
(*                                                                         *)
(* A descriptor is an index into bus->channels; the channel objects live   *)
(* on the heap and are distinct from the descriptors that name them, since *)
(* a closed channel outlives its descriptor until the closer deletes it,   *)
(* and a descriptor is reused by the next open.  The entries of the wait   *)
(* queues live on the stacks of the waiting coroutines: a coroutine stands *)
(* for its entry.                                                          *)
(***************************************************************************)
EXTENDS CoroEngine

CONSTANTS
    Chans,        \* addresses new coro_bus_channel can return
    Data,         \* messages
    Limits,       \* size limits channels are opened with
    MaxChannels   \* bound on channel_count

ASSUME ChansAssumption == NULL \notin Chans \cup Data
ASSUME LimitsAssumption == Limits \subseteq Nat
ASSUME MaxChannelsAssumption == MaxChannels \in Nat

VARIABLES
    bus,      \* "live" between coro_bus_new and coro_bus_delete, else "none"
    slots,    \* bus->channels: channel or NULL for each descriptor
    heap,     \* the allocated channel objects
    closed,   \* chan->closed
    limit,    \* chan->size_limit
    data,     \* chan->data
    sendq,    \* chan->send_queue
    recvq,    \* chan->recv_queue
    call,     \* the bus call a coroutine is switched away in
    err       \* global_error

chanVars == <<heap, closed, limit>>
busVars == <<bus, slots, heap, closed, limit, data, sendq, recvq, call, err>>
vars == <<engineVars, busVars>>

Descriptors == 1..MaxChannels

Idle == [op |-> "none", slot |-> 0, val |-> NULL, chan |-> NULL]

(* A running coroutine that may make its next API call.                    *)
Free(c) == InUserCode(c) /\ call[c] = Idle

(* The bus exists and the coroutine in control may use it.                 *)
CanCall(c) == Free(c) /\ bus = "live"

(* The three tests that end in CORO_BUS_ERR_NO_CHANNEL.                    *)
NoChannel(s) == ~(s \in DOMAIN slots /\ slots[s] # NULL /\ ~closed[slots[s]])

(* rlist_del_entry: a nop for an entry that was shifted off its list.      *)
Unlink(q, c) ==
    IF c \in Range(q)
    THEN LET i == CHOOSE k \in DOMAIN q : q[k] = c
         IN [j \in 1..Len(q) - 1 |-> IF j < i THEN q[j] ELSE q[j + 1]]
    ELSE q

(* wakeup_queue_wakeup_first on sendq[o] or recvq[o].                      *)
WakeupFirst(queue, o) ==
    IF queue[o] = <<>>
    THEN UNCHANGED <<queue, state, next>>
    ELSE /\ queue' = [queue EXCEPT ![o] = Tail(@)]
         /\ Wakeup(Head(queue[o]))

Fail(c, e) ==
    /\ err' = e
    /\ call' = [call EXCEPT ![c] = Idle]
    /\ UNCHANGED <<engineVars, bus, slots, chanVars, data>>

Succeed(c) ==
    /\ err' = "NONE"
    /\ call' = [call EXCEPT ![c] = Idle]
    /\ UNCHANGED <<engine, this, now, pool, count, func, ret, joiner>>
    /\ UNCHANGED <<bus, slots, chanVars>>

(* wakeup_queue_suspend_this, up to the switch.                            *)
Block(c, op, s, v, o) ==
    /\ call' = [call EXCEPT ![c] = [op |-> op, slot |-> s, val |-> v, chan |-> o]]
    /\ SuspendThis(c)
    /\ UNCHANGED <<engine, next, pool, count, func, ret, joiner>>
    /\ UNCHANGED <<bus, slots, chanVars, data, err>>

-----------------------------------------------------------------------------
(* Mutants: a message is added or taken and nobody is told.                *)
MutantPush(c, o, v) ==
    /\ data' = [data EXCEPT ![o] = Append(@, v)]
    /\ UNCHANGED <<recvq, state, next>>
    /\ Succeed(c)

MutantPop(c, o) ==
    /\ data' = [data EXCEPT ![o] = Tail(@)]
    /\ UNCHANGED <<sendq, state, next>>
    /\ Succeed(c)

(* push_back and pop_front with the wakeup that follows.                   *)
Push(c, o, v) ==
    /\ data' = [data EXCEPT ![o] = Append(@, v)]
    /\ WakeupFirst(recvq, o)
    /\ Succeed(c)

Pop(c, o) ==
    /\ data' = [data EXCEPT ![o] = Tail(@)]
    /\ WakeupFirst(sendq, o)
    /\ Succeed(c)

HasRoom(o) == Len(data[o]) < limit[o]

(* One turn of coro_bus_send's loop; sq is send_queue without the caller's *)
(* entry.                                                                  *)
SendLoop(c, s, v, sq) ==
    \/ NoChannel(s) /\ Fail(c, "NO_CHANNEL") /\ sendq' = sq /\ UNCHANGED recvq
    \/ /\ ~NoChannel(s)
       /\ LET o == slots[s] IN
            \/ HasRoom(o) /\ Push(c, o, v) /\ sendq' = sq
            \/ /\ ~HasRoom(o)
               /\ sendq' = [sq EXCEPT ![o] = Append(@, c)]
               /\ Block(c, "send", s, v, o)
               /\ UNCHANGED recvq

Send(c, s, v) == CanCall(c) /\ SendLoop(c, s, v, sendq)

SendResume(c) ==
    /\ engine = "up" /\ this = c /\ call[c].op = "send"
    /\ SendLoop(c, call[c].slot, call[c].val,
                [sendq EXCEPT ![call[c].chan] = Unlink(@, c)])

TrySend(c, s, v) ==
    /\ CanCall(c)
    /\ \/ NoChannel(s) /\ Fail(c, "NO_CHANNEL") /\ UNCHANGED <<sendq, recvq>>
       \/ /\ ~NoChannel(s)
          /\ LET o == slots[s] IN
               \/ ~HasRoom(o) /\ Fail(c, "WOULD_BLOCK") /\ UNCHANGED <<sendq, recvq>>
               \/ HasRoom(o) /\ Push(c, o, v) /\ UNCHANGED sendq

(* One turn of coro_bus_recv's loop; rq is recv_queue without the caller's *)
(* entry.                                                                  *)
RecvLoop(c, s, rq) ==
    \/ NoChannel(s) /\ Fail(c, "NO_CHANNEL") /\ recvq' = rq /\ UNCHANGED sendq
    \/ /\ ~NoChannel(s)
       /\ LET o == slots[s] IN
            \/ data[o] # <<>> /\ Pop(c, o) /\ recvq' = rq
            \/ /\ data[o] = <<>>
               /\ recvq' = [rq EXCEPT ![o] = Append(@, c)]
               /\ Block(c, "recv", s, NULL, o)
               /\ UNCHANGED sendq

Recv(c, s) == CanCall(c) /\ RecvLoop(c, s, recvq)

RecvResume(c) ==
    /\ engine = "up" /\ this = c /\ call[c].op = "recv"
    /\ RecvLoop(c, call[c].slot, [recvq EXCEPT ![call[c].chan] = Unlink(@, c)])

TryRecv(c, s) ==
    /\ CanCall(c)
    /\ \/ NoChannel(s) /\ Fail(c, "NO_CHANNEL") /\ UNCHANGED <<sendq, recvq>>
       \/ /\ ~NoChannel(s)
          /\ LET o == slots[s] IN
               \/ data[o] = <<>> /\ Fail(c, "WOULD_BLOCK") /\ UNCHANGED <<sendq, recvq>>
               \/ data[o] # <<>> /\ Pop(c, o) /\ UNCHANGED recvq

-----------------------------------------------------------------------------
(* coro_bus_channel_open puts a new channel into slot s with limit l.      *)
NewChannel(s, l, array) ==
    \E o \in Chans \ heap :
        /\ heap' = heap \cup {o}
        /\ closed' = [closed EXCEPT ![o] = FALSE]
        /\ limit' = [limit EXCEPT ![o] = l]
        /\ data' = [data EXCEPT ![o] = <<>>]
        /\ sendq' = [sendq EXCEPT ![o] = <<>>]
        /\ recvq' = [recvq EXCEPT ![o] = <<>>]
        /\ slots' = [array EXCEPT ![s] = o]

(* The first free descriptor is reused; the array grows by one when there  *)
(* is none.                                                                *)
ChannelOpen(c, l) ==
    /\ CanCall(c)
    /\ \/ \E s \in DOMAIN slots :
            /\ slots[s] = NULL
            /\ \A r \in 1..s - 1 : slots[r] # NULL
            /\ NewChannel(s, l, slots)
       \/ /\ \A s \in DOMAIN slots : slots[s] # NULL
          /\ Len(slots) < MaxChannels
          /\ NewChannel(Len(slots) + 1, l, Append(slots, NULL))
    /\ err' = "NONE"
    /\ UNCHANGED <<engineVars, bus, call>>

(* The coroutines of q that are suspended, in the order of q: the ones for *)
(* which the wakeups of coro_bus_channel_close are not nops.               *)
IsSleepersOf(w, q) ==
    /\ Range(w) = {c \in Range(q) : state[c] = "SUSPENDED"}
    /\ \A i, j \in DOMAIN w : i < j =>
         \E a, b \in DOMAIN q : a < b /\ q[a] = w[i] /\ q[b] = w[j]

SleeperLists(q) ==
    LET S == {c \in Range(q) : state[c] = "SUSPENDED"}
    IN {w \in [1..Cardinality(S) -> S] : IsSleepersOf(w, q)}

(* Mutant: the closer yields first and wakes the waiters up after that.    *)
MutantYieldFirst(c, o) ==
    /\ \E w \in SleeperLists(sendq[o] \o recvq[o]) :
         /\ state' = [d \in Coros |-> IF d \in Range(w) THEN "RUNNING" ELSE state[d]]
         /\ next' = Append(next, c) \o w
    /\ ResumeNext

(* Mutant: the receivers are forgotten.                                    *)
MutantWakeSenders(c, o) ==
    /\ \E w \in SleeperLists(sendq[o]) :
         /\ state' = [d \in Coros |-> IF d \in Range(w) THEN "RUNNING" ELSE state[d]]
         /\ next' = Append(next \o w, c)
    /\ ResumeNext

(* Mutant: the closer suspends itself and waits to be woken up.            *)
MutantSuspendCloser(c, o) ==
    /\ \E w \in SleeperLists(sendq[o] \o recvq[o]) :
         /\ state' = [d \in Coros |-> IF d \in Range(w) THEN "RUNNING"
                                      ELSE IF d = c THEN "SUSPENDED" ELSE state[d]]
         /\ next' = next \o w
    /\ ResumeNext

(* The two wakeup loops of coro_bus_channel_close and its coro_yield: the  *)
(* waiters stay linked and the closer queues itself behind them.           *)
WakeAllAndYield(c, o) ==
    /\ \E w \in SleeperLists(sendq[o] \o recvq[o]) :
         /\ state' = [d \in Coros |-> IF d \in Range(w) THEN "RUNNING" ELSE state[d]]
         /\ next' = Append(next \o w, c)
    /\ ResumeNext

(* Mutant: the closed channel stays in its slot.                           *)
MutantChannelClose(c, s) ==
    /\ CanCall(c)
    /\ s <= Len(slots) /\ slots[s] # NULL
    /\ closed' = [closed EXCEPT ![slots[s]] = TRUE]
    /\ WakeAllAndYield(c, slots[s])
    /\ call' = [call EXCEPT ![c] =
                  [op |-> "close", slot |-> s, val |-> NULL, chan |-> slots[s]]]
    /\ UNCHANGED <<engine, pool, count, func, ret, joiner>>
    /\ UNCHANGED <<bus, slots, heap, limit, data, sendq, recvq, err>>

(* coro_bus_channel_close up to the switch in its coro_yield.  An unknown  *)
(* or empty descriptor returns at once.                                    *)
ChannelClose(c, s) ==
    /\ CanCall(c)
    /\ s <= Len(slots) /\ slots[s] # NULL
    /\ closed' = [closed EXCEPT ![slots[s]] = TRUE]
    /\ slots' = [slots EXCEPT ![s] = NULL]
    /\ WakeAllAndYield(c, slots[s])
    /\ call' = [call EXCEPT ![c] =
                  [op |-> "close", slot |-> s, val |-> NULL, chan |-> slots[s]]]
    /\ UNCHANGED <<engine, pool, count, func, ret, joiner>>
    /\ UNCHANGED <<bus, heap, limit, data, sendq, recvq, err>>

(* Back from coro_yield: delete chan.  The queues of a deleted channel are *)
(* left as they were; a coroutine in one of them would unlink its entry    *)
(* from freed memory.                                                      *)
ChannelCloseResume(c) ==
    /\ engine = "up" /\ this = c /\ call[c].op = "close"
    /\ LET o == call[c].chan IN
         /\ heap' = heap \ {o}
         /\ closed' = [closed EXCEPT ![o] = FALSE]
         /\ limit' = [limit EXCEPT ![o] = 0]
         /\ data' = [data EXCEPT ![o] = <<>>]
    /\ call' = [call EXCEPT ![c] = Idle]
    /\ UNCHANGED <<engineVars, bus, slots, sendq, recvq, err>>

BusNew(c) ==
    /\ Free(c)
    /\ bus = "none"
    /\ bus' = "live"
    /\ slots' = <<>>
    /\ err' = "NONE"
    /\ UNCHANGED <<engineVars, chanVars, data, sendq, recvq, call>>

(* coro_bus_delete.  The caller guarantees that no coroutine is inside a   *)
(* send or a receive; unconsumed messages go with their channels.          *)
BusDelete(c) ==
    /\ CanCall(c)
    /\ \A d \in Coros : call[d].op \notin {"send", "recv"}
    /\ LET gone == Range(slots) IN
         /\ heap' = heap \ gone
         /\ closed' = [o \in Chans |-> IF o \in gone THEN FALSE ELSE closed[o]]
         /\ limit' = [o \in Chans |-> IF o \in gone THEN 0 ELSE limit[o]]
         /\ data' = [o \in Chans |-> IF o \in gone THEN <<>> ELSE data[o]]
    /\ bus' = "none"
    /\ slots' = <<>>
    /\ UNCHANGED <<engineVars, sendq, recvq, call, err>>

-----------------------------------------------------------------------------
Init ==
    /\ EngineCreate
    /\ bus = "none"
    /\ slots = <<>>
    /\ heap = {}
    /\ closed = [o \in Chans |-> FALSE]
    /\ limit = [o \in Chans |-> 0]
    /\ data = [o \in Chans |-> <<>>]
    /\ sendq = [o \in Chans |-> <<>>]
    /\ recvq = [o \in Chans |-> <<>>]
    /\ call = [c \in Coros |-> Idle]
    /\ err = "NONE"

BusCall(c) ==
    \/ BusNew(c)
    \/ BusDelete(c)
    \/ \E l \in Limits : ChannelOpen(c, l)
    \/ \E s \in Descriptors :
         \/ ChannelClose(c, s)
         \/ Recv(c, s)
         \/ TryRecv(c, s)
         \/ \E v \in Data : Send(c, s, v) \/ TrySend(c, s, v)

(* A coroutine switched away inside a bus call continues that call.        *)
BusResume(c) == SendResume(c) \/ RecvResume(c) \/ ChannelCloseResume(c)

UserStep(c) == BusCall(c) \/ (Free(c) /\ CoroStep(c) /\ UNCHANGED busVars)

LibraryStep ==
    \/ \E c \in Coros : BusResume(c)
    \/ (SchedStep \/ \E c \in Coros : JoinResume(c)) /\ UNCHANGED busVars

Next ==
    \/ \E c \in Coros : UserStep(c)
    \/ LibraryStep
    \/ MainStep /\ UNCHANGED busVars

Spec == Init /\ [][Next]_vars

(* The thread runs on: library code and the scheduler proceed, and a       *)
(* coroutine function gives control up in the end.                         *)
Fairness ==
    /\ WF_vars(LibraryStep)
    /\ WF_vars(\E c \in Coros : UserStep(c) /\ this' # c)

FairSpec == Spec /\ Fairness

-----------------------------------------------------------------------------
Calls ==
    [op : {"none", "send", "recv", "close"}, slot : Descriptors \cup {0},
     val : Data \cup {NULL}, chan : Chans \cup {NULL}]

BusTypeOK ==
    /\ bus \in {"none", "live"}
    /\ slots \in Seq(Chans \cup {NULL})
    /\ heap \in SUBSET Chans
    /\ closed \in [Chans -> BOOLEAN]
    /\ limit \in [Chans -> Nat]
    /\ data \in [Chans -> Seq(Data)]
    /\ sendq \in [Chans -> Seq(Coros)]
    /\ recvq \in [Chans -> Seq(Coros)]
    /\ call \in [Coros -> Calls]
    /\ err \in {"NONE", "NO_CHANNEL", "WOULD_BLOCK"}

Waiters(o) == Range(sendq[o]) \cup Range(recvq[o])

(* A coroutine's entry is linked at most once, into a queue of the channel *)
(* it blocked on, and that channel is still allocated: unlinking the entry *)
(* after the wakeup never writes to a deleted channel.                     *)
EntriesLinkLive ==
    \A o \in Chans :
        /\ NoRepeat(sendq[o]) /\ NoRepeat(recvq[o])
        /\ \A c \in Range(sendq[o]) : call[c].op = "send" /\ call[c].chan = o
        /\ \A c \in Range(recvq[o]) : call[c].op = "recv" /\ call[c].chan = o
        /\ Waiters(o) # {} => o \in heap

(* A channel is deleted once.  Every allocated channel is either in exactly*)
(* one slot and open, or closed with exactly one coroutine about to delete *)
(* it; nothing else is in a slot or about to be deleted.                   *)
OneOwner ==
    /\ \A r, s \in DOMAIN slots : slots[r] = slots[s] /\ slots[r] # NULL => r = s
    /\ \A c, d \in Coros :
         call[c].op = "close" /\ call[d].op = "close" /\ call[c].chan = call[d].chan
            => c = d
    /\ Range(slots) \ {NULL} = {o \in heap : ~closed[o]}
    /\ {call[c].chan : c \in {d \in Coros : call[d].op = "close"}}
          = {o \in heap : closed[o]}

(* Memory safety of the bus: both of them.                                 *)
MemorySafe == BusTypeOK /\ EntriesLinkLive /\ OneOwner

(* Where control comes next: the coroutine itself, the rest of this        *)
(* iteration, then the next one.                                           *)
RunOrder == <<this>> \o now \o next

(* Once a channel is closed all of its waiters are scheduled, ahead of the *)
(* closer that is going to delete it.                                      *)
WaitersLeaveFirst ==
    \A c, d \in Coros :
        (call[c].op = "close" /\ d \in Waiters(call[c].chan)) =>
            \E i, j \in DOMAIN RunOrder :
                i < j /\ RunOrder[i] = d /\ RunOrder[j] = c

(* Coroutines woken through the queue of o that have not run yet.          *)
Pending(op, o, queue) ==
    {c \in Coros : call[c].op = op /\ call[c].chan = o /\ c \notin Range(queue[o])}

(* No sender sleeps beside room nobody is coming to fill: an open channel  *)
(* with queued senders is full up to the senders already on their way.  No *)
(* receiver sleeps beside a message nobody is coming to take.  And whoever *)
(* is switched away inside a call and not queued is scheduled, so that the *)
(* wakeups the two counts rely on do arrive.                               *)
NoLostWakeup ==
    /\ \A o \in Range(slots) \ {NULL} :
         /\ Len(data[o]) <= limit[o]
         /\ sendq[o] # <<>> =>
              Len(data[o]) + Cardinality(Pending("send", o, sendq)) >= limit[o]
         /\ recvq[o] # <<>> =>
              Len(data[o]) <= Cardinality(Pending("recv", o, recvq))
    /\ \A c \in Coros :
         (\/ call[c].op = "close"
          \/ call[c].op = "send" /\ c \notin Range(sendq[call[c].chan])
          \/ call[c].op = "recv" /\ c \notin Range(recvq[call[c].chan]))
              => state[c] = "RUNNING"

(* When coro_sched_run has nothing left to run, nobody is stuck on a       *)
(* channel that could serve them, nor on one that is gone.                 *)
QuietMeansBlocked ==
    (this = NULL /\ next = <<>>) =>
        \A c \in Coros :
            /\ call[c].op = "send" => ~closed[call[c].chan] /\ ~HasRoom(call[c].chan)
            /\ call[c].op = "recv" => ~closed[call[c].chan] /\ data[call[c].chan] = <<>>
            /\ call[c].op # "close"
=============================================================================
