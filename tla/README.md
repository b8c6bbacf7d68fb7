# TLA+ models of the system-programming homeworks

The repository holds five homeworks of a system-programming course, each a small
library or program of its own, two utilities they share (`utils/rlist.h`, an
intrusive list, and `utils/heap_help`, a leak detector) and an example of an event
loop with C++20 coroutines. All of them are concurrent, or keep linked state that is
easy to corrupt; these models are about that state.

## 1. Inventory

| component | state | operations | what is hard |
|---|---|---|---|
| coroutine engine, `1/libcoro.cpp` | three lists of coroutines (running now, running next, pool), the current coroutine, a count; per coroutine its state, function, result, joiner | init, run, destroy; new, yield, suspend, wakeup, join | cooperative interleaving; wakeups before, during and after a join; reuse of finished coroutines |
| message bus, `1/corobus.cpp` | array of channel slots; per channel a bounded queue of messages and two queues of waiting coroutines (stack-allocated entries) | new, delete, open, close; send, try_send, recv, try_recv | lost wakeups; close while others wait; descriptors that are reused |
| shell parser, `2/parser.cpp` | the bytes fed and not consumed | feed, pop | input that arrives in pieces; quotations, escapes, comments, lines with errors |
| shell, `2/solution.cpp` | the line being executed, the last status, pipe ends, children | read, evaluate a line: segments, pipelines, cd, exit | pipe ends that keep a reader waiting; background children; failures between fork and exec |
| file system, `3/userfs.cpp` | list of files, each a list of 512-byte blocks; descriptors with position and cached block | open, close, read, write, delete, resize, destroy | blocks freed under another descriptor's cache; deletion of open files; block boundaries |
| thread pool, `4/thread_pool.cpp` | queue, atomic `task_count`, thread list, `stopping`; per task a state, its pool, a detached flag; one mutex and condition per pool and per task | pool new and delete, push; task new, join, timed join, detach, delete | preemptive interleaving, lock-free limit, spurious wakeups, timeouts, frees by different threads |
| chat server and client, `5/` | peers with name, input and output buffers; the epoll set and its ready list; messages | listen, connect, update, feed, pop, delete | partial reads and writes, edge-triggered events, peers that leave in the middle of a broadcast |
| intrusive list, `utils/rlist.h` | prev and next of every node | create, add, delete, move, shift, swap, splice, cut, foreach | empty lists; a loop whose body unlinks the current item |
| leak detector, `utils/heap_help` | table of live allocations, a pool of records | operator new and delete, report at exit | several threads; an address that malloc returns again; exit while others allocate |
| C++20 I/O coroutines, `examples/cpp20_coroutines` | per core its tasks, a queue of tasks to add or drop, an epoll set; per task the ready bits and the awaited operation | subscribe, unsubscribe, roll, stop; async accept, connect, send, recv | two threads; bits cleared after a call that would have blocked; tasks dropped while events for them are in a batch |

The bus is built on the engine (`coro_suspend`, `coro_wakeup`, `coro_yield`,
`coro_this`), the shell on its parser, and clients talk to the server over TCP; no
other component calls another, apart from the list, which several use.
`lecture_examples`, `advanced/boost_chat` (a template whose operations end in
`abort()`), the test helpers and the checking scripts are not part of any of these
systems.

What makes each correct:

* engine: a coroutine is in one list at most and its state says which; a switch
  always finds a target; a join returns exactly when its target is finished; a
  reused coroutine starts clean; destroy frees everything;
* bus: nobody sleeps beside a message or beside room; a channel is freed after
  its last waiter has left it; the limit holds; close returns;
* shell: the lines do not depend on how the input is cut; no process and not the
  shell itself hangs on a pipe; the status is that of the last command; `&&` and `||`
  skip what they should (they do not, see 6);
* file system: whatever the blocks and caches do, the calls behave as on plain
  byte sequences, and no block leaks or is freed early;
* pool: `task_count` is exact, tasks run once, nothing is used after being freed,
  no signal is missed, every join, delete and detached task gets to its end;
* chat: a line reaches every other peer once and in the sender's order; with
  edge-triggered events nothing may be left undone without being announced;
* list: pointer surgery does what the same call does to sequences;
* leak detector: no false alarm, no missed leak;
* I/O coroutines: no `assert` of the program fails, no event is lost, it ends.

`PROJECT.json` lists all components, the hazards with their lines, and for each
definition the source lines it stands for.

## 2. Plan

1. *(done)* `CoroEngine`, then `CoroBus` on top of it, with the proofs of
   `CoroEngineProofs`.
2. *(done)* `ThreadPool`, one module for workers and clients.
3. *(done)* `FlatFS`, what `userfs.h` promises, and `UserFS`, which implements it.
4. *(done)* `Chat`: server, clients and the connections between them.
5. *(done)* `Parser` as functions, `Shell` composed with it.
6. *(done)* `Lists` and `RList`, `HeapHelp`, `IOCoro`.
7. Proofs *(done: engine, bus, pool, leak detector, the file system with its refinement
   of `FlatFS`, I/O coroutines, chat)*. Left: `PipesSound` and `StatusOfLast` of the
   shell, once the shell is separated from the recursion of `Parser`. `WellLinked` of
   the list stays with TLC: `Walk` is a recursion over the steps of a walk.

## 3. The modules

Operators named `Mutant...` are deliberately faulty copies of the operator that
follows them. No specification refers to them; each is substituted for its
original in one experiment, to see that a property notices the fault.

### CoroEngine

State is `struct coro_engine` and `struct coro`, one variable per field: `now`,
`next` and `pool` are the three lists, as sequences of addresses; `this` is
`this_coro`, `NULL` while the main program has control and `Sched` at the moment
the scheduler loop has it. All code runs on one OS thread and control moves only in
`coro_engine_resume_next`, so an action reaches from one switch (or API call) to the
next. `JoinResume` is the rest of `coro_engine_join` after a switch; `Finish` is
the end of `coro_body`; `SchedStep` and `MainRun` are turns of
`coro_engine_run`. What a coroutine does between calls is left open: it may make any
call next, on any coroutine. A `coro_join` outside a coroutine on an unfinished
target ends the process (`exit(-1)`), as in the code.

Assumed of callers: a handle is joined once and not used after that (`Unjoined`),
and by one coroutine at a time, which `coro_engine_join` asserts. Destroy is called
when everything is joined. The stack tricks of `coro_engine_spawn_new` (signals,
`setjmp`) leave a new, queued coroutine behind, and that is what `SpawnNew` does.

### CoroBus

Extends the engine. Channel *objects* (`Chans`) are distinct from the *descriptors*
that name them, since a descriptor is reused while an older object with the same
number is waiting to be deleted. `slots` is `bus->channels`; `call[c]` is what
coroutine `c` has on its stack when it was switched away inside a bus call: which
call, on which descriptor, and the object its queue entry is linked into. The two
waiting queues are sequences of coroutines.

`SendLoop` and `RecvLoop` are one turn of the `while` loops; they are entered by
the call and again by `SendResume` and `RecvResume`, which first unlink the entry.
`ChannelClose` is the call up to its `coro_yield`, `ChannelCloseResume` deletes the
channel. Deleting leaves the queues of the object alone: if somebody were still
linked, `EntriesLinkLive` (part of `MemorySafe`) would say so. Coroutines may also use
the engine directly, so a waiter may be woken for no reason related to the bus.

Assumed: the bus is deleted only when no coroutine is in a send or receive, as
`corobus.h:35-37` demands. Broadcast and batch calls are compiled out.

### ThreadPool

Workers and clients are threads with a program counter (`wpc`, `cpc`) and the local
variables that survive from one step to the next. A step is one critical section,
one operation on the atomic `task_count`, or code that touches nothing shared;
since all shared fields are read and written under a mutex or atomically, finer
steps would add nothing. `thread_pool_push_task` is `Push` (load), `PushReserve`
(compare-and-exchange), `PushCheck`, `PushUndo` and `PushEnqueue`; a join is
`Join`/`JoinTest` and, after the unlock, `JoinLeave`; a worker is `WorkerLoop`,
`WorkerStart`, `WorkerFinish` and, for a detached task, `WorkerDelete` and
`WorkerRelease`. Broadcasts turn waiting threads into threads about to test their
condition again; spurious wakeups and timeouts are actions of their own.

A timed join with an infinite timeout is modelled by what the build does: the
conversions at lines 295-296 give `tv_nsec` a negative value,
`pthread_cond_timedwait` answers `EINVAL` and keeps the mutex, and the loop asks
again. The client is then at `"spin"` and the task's mutex is `Locked`.

Assumed of callers, from `thread_pool.h`: a task is deleted or detached only by a
thread that has it to itself, and is not used afterwards; nobody pushes into a pool
that is being deleted. Joins may be combined in any way. A task that is joined a second
time after a timed join corrupts the count (section 6); the history variable `rejoined`
records that this has happened. No new calls are made from then on (a bound: `ClientCall`
has the guard, the code has not), and `CountExact`, `DeleteOnlyEmpty` and `NoUseAfterFree`
claim nothing. `OneHolder` and `NoMissedSignal` hold all the same. `TasksProceed` and `CallsReturn` name their exceptions:
`Spoilt`, which is `rejoined`, the end of the process it leads to, or a client at `"spin"`;
and for `TasksProceed` a task that is detached after a timed join took it.

### UserFS and FlatFS

`FlatFS` is the header file: a directory, files as byte sequences, descriptors with a
position. `UserFS` is the code: addresses of files and blocks, the list of blocks of
each file, `blocks_count`, reference counts, and per descriptor the cached block and
index. Reads and writes find their first block the way `get_block_by_index` does
(cached block, its neighbour, or a walk) and then follow the list. A freed block
counts as cleared: `allocate_block` clears a new one. A cached pointer
to a block that is freed becomes `Dangling`, so that it is never mistaken for the block
that is allocated at the same address later. Following it is undefined behaviour, and a
behaviour of the model ends there: `Followable` guards the two actions that would do so.
`CacheValid` says where that can be: only after a read of zero bytes and a truncation to
exactly the position of the descriptor (section 6).
`f->last` is left out because it is read only immediately after it is set; a null
file name is not modelled.

The refinement maps a file to the bytes its blocks spell out (`Content`), a name to
the file that `find_file_by_name` finds (`Holder`) and a descriptor to its file,
position and mode (`Handle`). `errno` and the results, delivered bytes included, are
variables of both specifications, and so is `call`, the name and the arguments of the
last call. The refinement therefore says that every call returns what it should, and
that it does what the abstract call of the same name does, not what some other would.

### RList and Lists

`Lists` is what the header offers: each list a sequence of items, an item in one list
at most, and loops that visit every item once. `RList` is the code: `links` is the
`prev` and `next` of every head and item, and the operators `Add`, `Del`, `MoveTo`,
`SwapHeads`, `Splice`, `CutBefore` and so on map the links before a call to the links
after it, in the order of the assignments. An action is one call, or one turn of a
`rlist_foreach...` macro, whose `tmp` pointer is kept in `loop`. The refinement reads
a list off the `next` pointers; `call`, in both modules, ties every call to the abstract
call of its name. Callers keep the header's rules (an item that is added
is in no list; the body of a "safe" loop takes out only the current item).

### HeapHelp

`operator new` is `New` (malloc), `Trace` (under the mutex: take a record from the pool
or a batch, enter it in the table) and `Backtrace` (without the mutex); `operator
delete` is `Delete`, `Untrace` and `FreeMemory`; `Exit` is the destructor, which runs
while other threads may be inside either. When it has nothing to report, or is told to be
quiet, it returns, and the process goes on (`proc` is `"returned"`) until `End`: threads
finish what they do and make new calls. A `trace` or `untrace` among these finds the
table destroyed (`UseDestroyed`, `"undefined"`), and nothing is claimed from there on. `malloc` is external: any address that is
not handed out. `junk` is the set of records whose `trace_size` was never written:
code that reads it has an arbitrary outcome, here the failure of the assertion
(`"trace_size"`) or a crash in `trace_resolve`. The program may delete an address
nobody holds, which sets `misused`; the properties are about programs that have not.
Batches are not given back, as in the code. The text of the report, the resolution of
symbols and the dead variable of `HHCONTENT` are left out.

### Parser and Shell

`Parser` gives `parser_pop_next` as a function of the buffer, made of two automata:
`TokenStep` is the loop of `parse_token` over characters, with the state of the
quotation, and `GrammarStep` the loop of `parser_pop_next` over tokens, with its errors
and assertions (`kind` is `"line"`, `"error"`, `"abort"` or `"none"`). Characters are a
letter, a blank, a new line, a quotation mark and so on; the words the shell knows
are one letter long (`"e"` is `exit`, `"c"` is `cd`).

`Shell` is the loop of `main`, with `pc` for where it is. `Read` feeds a piece, `Pop`
takes a line, `Segment` starts a segment of the line (in the shell for `cd`, else the
`pipe` calls), `Fork` is a turn of the fork loop, `ForksDone` the `close` calls after it,
`WaitLast` and `Drain` the two waits, `After` what follows `run_pipeline`. A child is
a record with its pipe ends: `ChildStart` is everything between `fork` and `exec`,
`ChildEnd` the end of the program. What flows through a pipe is left out: a program is
described by when it may end (`"r"` at the end of its input, `"y"` when nobody
listens, others at any time), which is all that hanging depends on. `pipe`, `fork` and
`open` may fail.

A file name may be a FIFO (`Fifos`). A child whose output goes to one calls `open` before
it closes its pipe ends; the call waits until somebody has the other end (`OpenFifo`, and
`opens` in the record of the child), and so does the `open` of a program that reads a FIFO
given as an argument, like `cat` (`ChildOpen`). Reader and writer may be children of
different lines.

### Chat

The server is one thread; a step of `chat_server_update` or `chat_server_feed` is one
system call on a socket or the code between two, with `job` for the place in it and
`batch` for the events not handled yet, so that clients act in between. `Accept` is a
turn of `accept_pending_clients`, `Recv` of the loop around `recv`, `TakeLine` of the
loop over lines, `Send` of the loop over peers, `Flush` the `EPOLLOUT` part. A client
has one socket, polled level-triggered, and nobody else touches its state, so each of
its calls is one step. The kernel is external: a connection has a bounded stream each
way and, for each end, what it knows of the other (`open`, end of stream, reset waiting
to be reported, nothing but `EPIPE`). `ready` is the ready list of epoll: a descriptor
enters it on an edge and leaves it when it is reported. A `send` that fails with
`EPIPE` raises `SIGPIPE`, which nothing catches: the process is gone (`"killed"`).

Popping messages is left out: the queues `log` and `heard` keep what was ever put in
them, and only the caller of `pop` reads them. Streams are sequences of words, blanks,
new lines and `": "`.

### IOCoro

Two `IOCore`s with a thread each and the main thread of `main.cpp`. The thread of a
core goes through `CheckStopped`, `processQueues`, `AddTask`/`DropTask`/`Drained`,
`epoll_wait`, `Event` and `EndOfBatch`. A coroutine that runs is in `coro`, with the
system call it is about to make; it is suspended when its operation would block, and
then the operation is in `task[t].op`, which is `myAsyncOp`. The mutex of a core is
held while its queue is drained (`Unlocked`). The main thread connects the clients, starts the client thread,
waits for everybody, stops both cores and destroys them. Every `assert` on the way is
an `Expect`; `failed` records that one was false. Transfers are of one byte, as in the
program.

## 4. Runs

| run | instance | shows |
|---|---|---|
| `bus_safety` | 4 coroutines, 2 channel objects, 1 descriptor, limits 1 and 2; all calls of the engine and of the bus | engine: list discipline, scheduler position, joins, reuse, destroy; bus: no access to deleted channels, one owner per channel, no lost wakeup, the limit |
| `bus_liveness` | 3 coroutines, limit 1; the same calls | every runnable coroutine runs, joins on finished coroutines return; close returns; a queued sender or receiver that can be served leaves the queue |
| `pool_safety` | 2 pools, 2 tasks, 2 workers, 3 clients, any joins and timeouts, failing `pthread_create` | exact count, single execution, no use after free, no missed signal |
| `pool_liveness` | 1 pool, 2 tasks, 2 workers, 2 clients, every kind of join | tasks run, joins and deletes return, detached tasks are freed, with the exceptions of section 3 |
| `ufs` | 1 name, 2 files, 2 blocks of 2 bytes, 2 descriptors, files up to 3 bytes, reads of 0, 1 and 2 bytes | caches, reference counts, block lists and zero tails are right; refinement of `FlatFS` |
| `ufs_cut` | the same | violation, see 6 |
| `rlist` | 2 lists, 4 items, all calls and loops | lists are well linked both ways; refinement of `Lists` |
| `heap` | 3 threads, 3 addresses, batches of 2 records, 5 allocations | the table is exact, traces go to the right record, no false alarm, no missed leak |
| `shell` | every text of up to four special characters, with and without a new line, and 28 scripts, in pieces of 1, 2, 3, 5 or 8; failing calls | the cut of the input does not matter, lines alternate, no pipe end stays open, nobody hangs, the status is the last command's, the shell ends unless a child waits in `open` for ever |
| `shell_chain` | the 28 scripts | violation, see 6 |
| `chat` | 2 clients, 2 connections, kernel buffers of 3 and `recv` of 2 units, batches of 2 events, 2 feeds, one client that leaves, one failing `accept` | messages arrive once and in order at both ends, no event is lost, everything is delivered in the end |
| `iocoro` | 2 clients, 2 requests each, batches of 2, kernel buffers of 1 byte | no `assert` fails, indexes and queues agree, no event is lost, the program ends |

Several properties are conjunctions of named parts, each about one side of the same
hazard: `MemorySafe` of `BusTypeOK`, `EntriesLinkLive` and `OneOwner`; `NoLostWakeup`
of the senders' and the receivers' half; `BlocksSound` of types, block lists without
leaks (`NoLeak`) and clean tails; `TrackingSound` of `RecordsOnce` and `TableExact`;
`ReportsTrue` of `NoFalseAlarm` and `LeaksReported`; `LinesSound` of
`PiecesDoNotMatter` and `LinesAlternate`; `PipesSound` of `PipesClosed` and
`NobodyHangs`; `NothingStranded` of `NoLostEdge` and `NoLineLeftBehind`;
`TasksSound` of `IndexesAgree` and `NoUseAfterFree`; `NothingMissed` of `NoLostEdge`
and `NoSleepWithWork`.

The engine has no run of its own: the bus extends it, the coroutines and the main program of
the bus runs make every call of the engine too, and before a bus is created they make no
other. All engine actions thus occur there in more company than they would have alone.

Why the bounds are enough to meet the interesting cases.

* *Bus*: four coroutines are a closer, a waiter, one that reopens the descriptor and
  one that competes for the message; two objects let an old channel live beside a new
  one at the same descriptor; with limits 1 and 2 the queue is empty, part full and full.
* *Pool*: two pools compete for one task, three clients make a push, a join and a delete
  overlap, two workers make one sleep while the other takes the task; `MaxTasks` is
  reached.
* *File system*: with blocks of two bytes and files of up to three, positions fall on
  the start, the middle and the end of a block and on the limit; two blocks are a file of the
  greatest length, or a deleted one and its successor with one each, and a block that is freed
  is soon another file's (a call that would need a third is not made); two `struct file`s let
  a deleted, still open file live beside a new one of the same name; two descriptors let
  one truncate under the other.
* *List*: with four items over two lists a list is empty, has one item, two (where
  `prev` and `next` differ) and more; three would not separate the middle of a cut.
* *Leak detector*: three addresses and five allocations let an address return while
  another thread is still between `untrace` and `free`; batches of two are used up, and
  the third leak exceeds the report limit.
* *Shell*: four characters are an operator of two, something before it and after it;
  the scripts have pipelines of up to four processes, and background lines beside a
  foreground one, and readers and writers of a FIFO in one line, in two lines and in the
background. Seven processes are enough for each of them.
* *Chat*: a message is longer than a kernel buffer and than a `recv`, so both ends cut
  it; two events fit in a batch and three descriptors have them; one client may leave
  and, since a connection is not reused, its successor is the other client.
* *I/O coroutines*: both ends of two connections are dropped in different orders, so
  that the last task moves to the place of another; with one byte of room sends block.

In `bus_liveness` the temporal properties are checked for one coroutine and one channel
object (`Observed`, `ObservedChans`), since the specification treats all of them alike.
Symmetry is used only in runs without liveness properties, on sets the specification
treats alike (the refinements of `FlatFS` and `Lists` are checked step by step). `ufs` and
`rlist` have a `VIEW` that leaves the answer and the name of the last call (`errno`,
`result`, `call`) out of the fingerprint: every call sets them and none reads them, and the
refinement is checked on steps.

Deadlock is checked in `ufs` and `rlist`. Elsewhere programs may stop:
everybody suspended is a legal end for coroutines, `exit(-1)` is one for the process, a
pool whose first `pthread_create` failed waits for another push, the shell and the
programs around the chat and the leak detector end, and so does the example of the I/O
coroutines (that it stops nowhere before its end is `ProgramEnds`).

### Fairness

* Engine and bus: one thread executes all of it and the code has no blocking call. Weak
  fairness of library code (the scheduler, the rest of a join or of a bus call), and of "the running coroutine does something
  that switches away": a coroutine function that never gives up control stops
  everything in this library. Nothing says which call it makes, and nothing is assumed
  of the main program.
* Pool: weak fairness of every worker and of every client that is inside a call
  (the OS schedules all threads, mutexes are granted, timers fire, task functions
  return). The deadline of a timed wait passes however often the thread is woken before it,
so its timeout has a fairness of its own. No client is forced to make a call. That joins return has the condition
  that pushing ends: a thread that joins a task and pushes it again can overtake
  another joiner for ever, which is the documented use; a join with a finite timeout returns
even so. Threads can be created.
* Shell: weak fairness of the shell's steps and of each child: the OS schedules
  processes, and a program that may end does. A child in `open` of a FIFO cannot go on before
the other end is opened, and nothing makes anybody open it: `ShellEnds` excepts a child
that waits there for ever. For `Pop` it is written out without
  `ENABLED`, which would run the parser once more for every state.
* Chat: weak fairness of the server's and of each client's update: the programs around
  the library call it in a loop, as `chat_client_exe.cpp` and the tests do. `ServerCan`
  and `ClientCan` are the states in which these steps are possible, written out for TLC.
  Nobody has to feed, connect or leave.
* I/O coroutines: weak fairness of each core's thread and of the main thread, and the
  handshake of a connection to a server that listens on the same host ends.

## 5. Proofs

The safety properties below hold for every value of the constants that meets the
assumptions, by the theorems listed in `PROJECT.json`. All proofs have the same shape.
An inductive invariant is the conjunction of named parts; one lemma per operation shows
that it keeps every part, with one step per part; the theorem about the invariant
follows by `PTL` from those lemmas and the one about `Init`; each property of a run is then
a consequence. The inductive invariants were checked by TLC on the instances of section 4
before they were proved.

### Coroutine engine (`CoroEngineProofs`)

For any set of coroutines and functions. Assumed are only that the scheduler's address is
not that of a coroutine (`SchedAssumption`) and that `NULL` is neither (`NullAssumption`).

    EngineInv == EngineTypeOK /\ OneHome /\ SchedulerLast /\ NoLostJoin
                 /\ FuncOrResult /\ CountsAllocated

None of the parts is inductive alone. `EngineTypeOK` needs `SchedulerLast`, because
`Head(now)` has a type only if `now` is not empty, and `CountsAllocated`
(`coro_count` is the number of allocated coroutines, which are finitely many, none
after destroy), because `coro_engine_destroy` subtracts the length of the pool.
`SchedulerLast` needs `OneHome`: if the scheduler could be queued twice, its first
entry would not be the last of the list. `NoLostJoin` needs `OneHome` (who is
awake is queued or running) and in turn protects `OneHome` when a finished coroutine
goes to the pool: nobody else may still wait for it.

Below the operations are lemmas about lists without repetitions (append, take the head,
push in front, and that such a list has as many entries as elements). `DestroyFreesAll` needs
a small argument of its own (`AllPooled`): if every handle is joined then everything
allocated is in the pool, so nothing is queued and the pool's length is the count.

### Message bus (`CoroBusProofs`)

Extends the proofs of the engine, for any channels, messages, limits and number of
descriptors. Assumed: `NULL` is neither a channel nor a message, limits are numbers.

    BusInv == EngineInv /\ BusTypeOK /\ EntriesLinkLive /\ OneOwner /\ CallsSound
              /\ CallersLeaveFirst /\ UnlinkedRun
              /\ (bus = "none" => slots = <<>>)
              /\ \A o \in Range(slots) \ {NULL} : CountsRight(o)

* `MemorySafe` needs to know that the closer is the last to touch the channel. After
  `coro_bus_channel_close` has woken the waiters and yielded, it deletes the object; so everyone
  inside a send or a receive on it must be scheduled *before* the closer. That is
  `CallersLeaveFirst`, stated with `RunsBefore`, the order of `this`, `now` and `next`.
  `WaitersLeaveFirst` of the run speaks of the linked waiters only and is not inductive:
  a waiter leaves its queue before it has left the call.
* `RunsBefore` must survive everything the engine does, coroutines that know nothing of the
  bus included. The lemmas `...KeepsTurns` and `...Turns` show it for every engine step: what is
  ahead stays ahead until it has run.
* `NoLostWakeup` is the two inequalities of `CountsRight` for the open channels and
  `UnlinkedRun`. The counts need `CallsSound`: a coroutine in a call on an open
  channel still finds that channel in its slot, so a wakeup that is pending will be spent on
  this channel.
* A coroutine inside a bus call must not be anyone's joiner (`JoinTargets(c) = {}` in
  `CallsSound`), or the engine could wake it through a join.

`QuietMeansBlocked` (when nobody is runnable, whoever waits has a reason) follows from
the invariant at states in which the scheduler has nothing to do.

### Thread pool (`ThreadPoolProofs`)

For any number of pools, tasks, workers and clients, and any `MaxThreads` and `MaxTasks`.
Assumed: tasks, workers and clients are finitely many, since the counts are
cardinalities, and `NULL` is neither a pool nor a task.

    PoolInv   == Structure /\ (~rejoined => \A p \in alive : CountRight(p))
    Structure == TypeOK /\ CrashSound /\ Owned /\ OwnedOnce /\ Users /\ NoMissedSignal
                 /\ (~rejoined => StillOwned /\ Refs /\ DeleteSafe)

* `Owned` and `OwnedOnce` follow a task from `push_task` through the queue to a worker: it has
  one holder, and is in the state and the pool that holder expects. `OneHolder` is a
  corollary. They hold even after a second join.
* `Users` is the same for clients: a task stays allocated and attached while a client is
  inside a call on it, and the client that deletes it is alone.
* `CountRight` says that `task_count` is the number of tasks in the pool, plus the
  pushes that have reserved a place and not used it, plus the workers that have a detached task
  freed and not yet subtracted. `CountKept`, `OneMore` and `OneLess` are the
  arithmetic of it.
* `DeleteSafe` closes the gap between the test in `thread_pool_delete` and the freeing:
  the count was zero, so by `CountRight` nothing is in the pool and nobody is on
  the way in; and it stays so.
* `Refs` gives `NoUseAfterFree`. It holds until `rejoined`, as do the count and
  `DeleteSafe`: the code breaks them (section 6). `CrashSound` says that the null dereference
  of a second join is the only way the process dies.

### Leak detector (`HeapHelpProofs`)

For any threads, addresses and records. Assumed: batches have at least one
record, the report shows at least one line (`report_limit` is a positive constant), the
addresses are finitely many, and `NULL` is neither an address nor a record.

    HeapInv    == MemoryInv /\ CorrectInv
    MemoryInv  == HeapHelpTypeOK /\ Shape /\ NewsBounded /\ UsedAreTaken /\ RecordsOnce
                  /\ NothingRecorded
    CorrectInv == OneOwner /\ TableExact /\ TraceIntoOwnRecord /\ ReportsTrue

`MemoryInv` holds of every program. `RecordsOnce` needs `UsedAreTaken`, so that a record fresh
from the batch is nobody's. `NothingRecorded` says that a destructor that has returned (and
was not told to be quiet) left an empty table, which stays so because every later trace is
already undefined; hence no leak is passed over in silence. `CorrectInv` is about programs that have not misused the heap:
`TableExact` needs `OneOwner`, since two threads that delete the same address would take it from
the table twice. `TraceIntoOwnRecord` is why writing the backtrace *without* the
mutex is harmless: the record stays entered under the thread's own address until it returns.

### File system (`UserFSProofs`, `UserFSRefinement`)

For any names, files, blocks and bytes, any sizes of blocks and files and any arguments of the
calls. Assumed: bytes and buffers have their types, a block has at least one byte, `NULL` is not
an address or a record, and `Dangling` is neither of these (`UserFSAssumption`). Reads of zero
bytes are included; a behaviour ends where a call would follow a dangling pointer.

    FSInv            == UserFSTypeOK /\ FilesSound /\ DescriptorsSound
    FilesSound       == BlocksOwned /\ BlocksOnce /\ SizesFit /\ RestZero /\ FreeClean /\ NamesOnce
    DescriptorsSound == FilesReachable /\ PositionsInside /\ CacheExact

* `CacheValid` is not inductive. A resize to `n` frees the blocks behind `n` but tells only the
  descriptors *behind* `n`; one that stands exactly at `n` keeps its block. `CacheExact` says
  what becomes of it. The cached block holds the last byte *before* the position (`Behind`),
  and so survives; or it starts at the position (`Ahead`), which only a read of zero bytes can
  leave, and is dangling once it is freed. That is the one exception in `CacheValid`. Hence the
  arithmetic at the start of the module.
* `ZeroTail` is not inductive either, although it says all that `ufs_resize` relies on. Writing past
  the last block takes blocks from the heap, and those must be clear (`FreeClean`). `RestZero`
  states the tail by positions (no byte behind the end is anything but zero), which is the
  form in which a write, a growth and a truncation keep it.
* `NamesOnce`, one listed file per name, makes `ufs_open` and `ufs_delete` mean the same file.
* `FilesReachable` is why `ufs_destroy` frees everything: the files that are listed and those
  that are open are all there are.

The calls are taken apart into effects: `WriteEffect`, `ReadEffect`, `GrowEffect` and
`ShrinkEffect` say what happens to the bytes of the file, `RewrittenFile`, `FreedFiles` and
`SameBytes` what that means for the other files, `DescriptorsAfter` and its relatives
what it means for the descriptors.

`UserFSRefinement` proves on top of this that `UserFS` implements `FlatFS`
(`FlatRefinement`), call by call and each call its namesake:

* `Mapped` says what the refinement mapping is in a state that satisfies `FSInv`: one file
  behind a name (`NamesOnce`), the file, position and mode of every open descriptor, a
  sequence of exactly `size` bytes per file, and the files in use are exactly those that are
  allocated (`FilesReachable`); the last part makes `Forget` of `FlatFS` the freeing of the code.
* `Flat<call>` shows for each call that the step between two such states is the step of
  `FlatFS`, answers included. `Splice` and `CutOrFilled` say what the sequence operators of
  `FlatFS` compute, `WrittenContent`, `GrownContent` and `ShrunkContent` that the
  blocks spell the same bytes.
* Growing is where the invariant is needed most: `ufs_resize` clears the rest of the *new*
  last block, so the old one reads as zeros only because `RestZero` kept it so.

### I/O coroutines (`IOCoroProofs`)

For any number of clients and requests, any size of a batch and of the buffers in the kernel,
each at least one (`IOCoroAssumption`).

    IOInv     == types /\ ListsSound /\ UsesSound /\ FlowSound /\ ListenerSound /\ SubsSound
                 /\ BacklogSound /\ FinishedSound /\ StagesSound /\ ThreadsSound /\ ~failed
    FlowSound == \A t \in Ends : EndSound(t) /\ Conserved(t) /\ SockSound(t) /\ ConnectionSound(t)

That no `assert` fails is itself a conjunct, so every action has to show that its own
asserts hold in a state of the invariant:

* *Lists.* A task is in `myTasks`, at the index it remembers, exactly while it is working or
  being deleted, and once in `myQueue` exactly while it is new or being deleted (`ListsSound`).
  A drop moves the last task to the place of the dropped one, which may be the same one.
* *Bytes.* `Conserved(t)`: what `t` has received and what waits in its socket is what the other
  end has sent. So an end that is gone, and has received `Requests` bytes, has left nothing unread
  (nobody is reset), and one that waits for a byte is still owed it: the other end
  may be closed already, but then the byte is in the kernel and `recv` does not meet the end of
  the stream (`RecvExpected`). Nobody sends to a closed end (`SendExpected`).
* *Taking down.* `finished` counts the ends whose coroutine has called `onClientFinish`
  (`FinishedSound`). When it is `2 * ClientCount` all ends were subscribed, and since the
  queues are first in, first out, so was everything that is unsubscribed afterwards (`AllSubscribed`): `unsubscribe`
  meets a working task. The stages of the main thread say which threads have ended
  (`StagesSound`, `ThreadsSound`), and a core that is gone has no task left.

`NothingMissed` is not inductive. `EdgesSound` is, on top of `IOInv`. It adds what is known while
*nothing* waits: a coroutine that does not wait to send has its `W` bit, one that waits to receive
does not have its `R` bit, and data that is there without the bit is announced (`EdgeSound`).
An end that waits to send and cannot was refused by the kernel, which is why the kernel tells it
when there is room again (`full`). A core about to sleep has its
eventfd in epoll, and ready if it was stopped (`SleepSound`): that is why an unconditional
`epoll_wait` after `processQueues` is safe.

### Chat (`ChatProofs`)

For any clients, names, chunks, number of connections, feeds, leaving clients and faults, any
size of the kernel's buffers, of a `recv` and of a batch of events, the sizes at least one.
`ChatAssumption` says besides that names and chunks are sequences, and names not empty.

    ChatInv   == Types /\ ClientsConnected /\ PeersConnected /\ JobSound
                 /\ NoLineLeftBehind /\ Announced
    Announced == (server = "on" /\ ~aborted) =>
                   AcceptAnnounced /\ \A n : Open(n) => InputAnnounced(n) /\ OutputAnnounced(n)

`NothingStranded` is not inductive for two reasons:

* *Output.* `NoLostEdge` speaks of output that waits while there is room, but room appears in
  a step of the client, which wakes the server only if the kernel had refused it before.
  `OutputAnnounced` says so in advance: output that waits has filled its socket, which then
  remembers that it was `full`, or there is room and an event or the current handler will see
  to it. This holds after every flush, partial ones included, because `send` takes all it can
  (`flush_peer_outputStep`), and is why a message appended to waiting output needs no event
  of its own.
* *The handler at work.* Which peer is current, that a feed has no batch, that a broadcast has a
  message, that peers not yet accepted have no output (`JobSound`, `Types`), and whose socket a
  socket is (`ClientsConnected`).

The steps of the clients and of the kernel are one lemma (`KernelStepInv`): whoever adds input, ends a
stream or makes room in a full socket wakes the server. The steps of the server on a peer share
`PeerStepFacts` and `OthersAnnounced`: closing or flushing one peer, in the middle of a
broadcast too, takes no other peer's event away. A client's input buffer is what `Split`, a fold,
leaves over; the invariant says nothing of it, and needs nothing.

### Only model-checked

Temporal properties need reasoning about fairness, which is out of reach. So is
what `Parser`, `Split` of `Chat` and `LinesSound` of `Shell` compute: they are folds over
sequences, and it would take induction on data; the same goes for `SaidInOrder` and
`HeardInOrder`, which compare what was received with a fold of what was sent, and for
`WellLinked` of `RList` and the refinement of `Lists`, which rest on the recursion of
`Walk`. `PipesSound` and `StatusOfLast` of `Shell`, whose module reaches the recursion of
`Parser`, are checked by TLC and not proved.

## 6. Where code and documentation disagree

Two of these are runs in which TLC finds the violation, and findings in `PROJECT.json`:

* `shell_chain`: the `continue` statements at `solution.cpp:243-248`, which
  should skip a segment, stand at the end of the loop body and skip nothing. The segment
  after `&&` runs after a failure, and the one after `||` after a success, though
  `tests.txt:233` expects `false && echo 123` to print nothing.
* `ufs_cut`: after a read of zero bytes a descriptor has cached the block that *starts* at
  its position. `ufs_resize` to exactly that size frees the block and tells only descriptors
  *behind* the new size (`userfs.cpp:473`). The next write goes to freed memory, where
  `userfs.h:146` says the descriptor proceeds from the new end.

The others are part of the models, and the properties say where they stop claiming something
because of them.

Coroutines, files, threads:

* `corobus.h:57` promises that those suspended on a closed channel get an error. If the
  descriptor is reopened before they run, they carry on with the new channel
  (`corobus.cpp:213`).
* A second join of a task after a timed one decrements `task_count` again
  (`thread_pool.cpp:285-287`), after which a pool with a task in it counts none and can be
  deleted, though `thread_pool.h:62` has an error for that. This is what `rejoined` records.
* `thread_task_timed_join` leaves `task->pool` set, so the next push is refused, though
  `task_eng.txt` allows it. For the same reason a task that is detached after a timed join
  is accepted at line 375 and never freed, since no worker will see it again;
  `thread_pool.h:154-156` says it is deleted. `TasksProceed` excepts it.
* A timed join with an infinite timeout never returns and blocks the task, though
  `thread_pool.h:126-127` recommends it. Who joins the task with `thread_task_join`
  meanwhile hangs, and so does the worker that is to run it; `Spoilt` excepts these states.
* `thread_task_is_finished` answers true only for a task that is joined.
* `thread_pool_push_task` starts a thread only while the queue is longer than the thread
  list (line 170), so with one busy thread and one queued task no second thread is
  started.
* `ufs_resize` clears the wrong block when growing over a block boundary (line 448),
  which does no harm because the rest of the last block is always zero (`ZeroTail`).

Shell:

* After a foreground pipeline the shell waits for background children too
  (`solution.cpp:140`). In the first test on background lines (`tests.txt:288`, one of the
  scripts of `shell`) the background child is in `open` of a FIFO (line 65) until the FIFO is
  read, which a later line does; the shell never gets there. `ShellEnds` excepts it.
* An `exit` that is the only command of a line ends the shell even with a redirection
  or in the background.
* Assertions of the parser can be reached by input: a line that starts with `&` or `>`,
  and an escaped new line followed by a blank.
* A syntax error found at a new line skips the line after it as well.
* After a `pipe()` that fails, the pipes made before it stay open; `PipesClosed` excepts
  them.

Chat:

* Neither program handles `SIGPIPE`: a `send` to a peer that is gone may end the server
  or the client.
* An error of `accept` or `recv` returns from `chat_server_update` at once (`:310`,
  `:341`). The rest of the batch is dropped, and with edge-triggered events nobody
  mentions it again; the peer with the error stays open. `aborted` records it, and
  `NoLostEdge` and `Settles` claim nothing from then on.
* A hang-up closes a peer without reading what it sent; a client that finds the end of
  the stream does not take the complete lines it has received (`chat_client.cpp:190`).
* A client that connects again keeps its old buffers and does not send its name again;
  the order properties are about first connections (`First`). A blank name makes the
  first message the name, and a name with `": "` in it is divided in the wrong place.

* `chat_server_exe.cpp` has no loop when `NEED_SERVER_FEED` is 1, as it is in `chat.h`:
  the program ends right after it has begun to listen.

Leak detector:

* After a destructor that returns, other threads and static destructors that allocate or free
  use the destroyed table.
* With `HHBACKTRACE=off`, or when the program exits while another thread is storing a
  trace, `trace_size` is read without ever having been written.
* `HHCONTENT` is read and not used; `heaph_get_alloc_count` is declared and not defined.
* `delete` of a null pointer would be reported as unknown memory.

## 7. Not modelled

* `advanced/boost_chat`: a template for another assignment, most operations of which
  end in `abort()`.
* The terminal programs around the chat library and the file system: poll loops,
  printing, command lines. That they keep calling `update` is an assumption of `Chat`.
* `lecture_examples` and the other directories under `examples`: independent snippets,
  each about one system call, which are not parts of a system.
* Test helpers and checking scripts.
* Inside the modelled parts: memory exhaustion; errors of mutex and condition calls;
  `EINTR`; failing `dup2`, `waitpid` and socket set-up calls; `sigaltstack` and signals
  in the creation of a coroutine; address resolution; working directory and file contents
  of the shell; the wording of messages.
* Broadcast and batch calls of the bus and author-less builds of the chat, which are
  compiled out.
