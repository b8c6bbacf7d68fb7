------------------------------ MODULE MCCoroBus ------------------------------
(* Instances of the coroutine engine with the message bus on top of it for *)
(* TLC, and their liveness properties.  The specification treats all       *)
(* coroutines alike, and all channel objects, so the liveness properties   *)
(* are checked for those observed only: one stands for all.                *)
EXTENDS CoroBus, TLC

CONSTANTS Observed, ObservedChans

BusSymmetry == Permutations(Coros) \cup Permutations(Chans)

(* Once the loop runs, a runnable coroutine gets control.                  *)
RunnableRuns ==
    \A c \in Observed : (state[c] = "RUNNING" /\ this # NULL) ~> this = c

(* A join on a finished coroutine returns.                                 *)
JoinsFinished(c) == \E d \in Coros : joiner[d] = c /\ state[d] = "FINISHED"
JoinCompletes ==
    \A c \in Observed : (JoinsFinished(c) /\ this # NULL) ~> ~JoinsFinished(c)

(* Nobody starves, whatever the others call: both of them.                 *)
NobodyStarves == RunnableRuns /\ JoinCompletes

(* coro_bus_channel_close returns and the waiters of a closed channel      *)
(* leave it, once the scheduler loop runs.                                 *)
CloseCompletes ==
    \A c \in Observed : call[c].op = "close" ~> call[c].op # "close"

(* A coroutine queued on a channel that could serve it, a sender beside    *)
(* room or a receiver beside messages, is served, or another one was.      *)
WaiterServed ==
    \A c \in Observed, o \in ObservedChans :
        /\ (c \in Range(sendq[o]) /\ HasRoom(o) /\ this # NULL)
              ~> (c \notin Range(sendq[o]) \/ ~HasRoom(o))
        /\ (c \in Range(recvq[o]) /\ data[o] # <<>> /\ this # NULL)
              ~> (c \notin Range(recvq[o]) \/ data[o] = <<>>)
=============================================================================
