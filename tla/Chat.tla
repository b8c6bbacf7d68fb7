-------------------------------- MODULE Chat --------------------------------
(***************************************************************************)
(* The chat of 5/: the server of chat_server.cpp, clients of               *)
(* chat_client.cpp, and the TCP connections between them.                  *)
(*                                                                         *)
(* The server is one thread that calls chat_server_update and              *)
(* chat_server_feed; each is modelled step by step, a step being one       *)
(* system call on a socket (or a stretch of code between two), so that     *)
(* clients act in between.  A client's calls are single steps: it has one  *)
(* socket, polled level-triggered, and nobody else touches its state.  The *)
(* queues of messages that pop_next takes from are read by the caller      *)
(* alone; the model keeps what was ever put in them.  Of a result code it  *)
(* keeps whether it is CHAT_ERR_SYS.                                       *)
(*                                                                         *)
(* A stream is a sequence of units: words, Blank, NewLine and Colon, the   *)
(* ": " between author and text.  A connection is a record of the two      *)
(* streams in the kernel and of what each end knows of the other: "open",  *)
(* "fin" (end of stream), "reset" (an error is waiting to be reported),    *)
(* "pipe" (nothing but end of stream and EPIPE is left), "closed".         *)
(***************************************************************************)
EXTENDS Integers, SequencesExt, FiniteSetsExt

CONSTANTS
    Clients,        \* chat_client objects
    Name,           \* [Clients -> sequence of units], chat_client_new's argument
    Chunks,         \* what one feed may be given
    MaxConns,       \* bound on the number of connections
    Cap,            \* how much fits in the kernel, each way of a connection
    BufSize,        \* how much one recv takes (sizeof(buf))
    MaxEvents,      \* how many events one epoll_wait returns (16)
    MaxFeeds,       \* bound on the number of feeds
    MaxLeaves,      \* bound on the number of clients deleted
    MaxFaults       \* bound on the number of failing calls in accept

Blank == " "
NewLine == "\n"
Colon == ": "

Conns == 1..MaxConns
Listener == 0       \* the listening socket, among the epoll descriptors

ASSUME ChatAssumption ==
    /\ MaxConns \in Nat /\ Cap \in Nat \ {0} /\ BufSize \in Nat \ {0}
    /\ MaxEvents \in Nat \ {0} /\ MaxFeeds \in Nat /\ MaxLeaves \in Nat /\ MaxFaults \in Nat
    /\ \A c \in Clients : Name[c] \in Seq(Range(Name[c])) /\ Len(Name[c]) > 0
    /\ \A chunk \in Chunks : chunk \in Seq(Range(chunk))

VARIABLES
    tcp,            \* the connections, in the kernel
    ready,          \* the ready list of the epoll instance
    server,         \* "new", "on", "deleted" or "killed"
    peers,          \* server->peers, by connection, and the listen backlog
    feedBuffer,     \* server->input_buffer
    batch,          \* events[]: the ones not handled yet, with their masks
    job,            \* where the server is in update or feed
    cli,            \* the clients
    log,            \* server->messages, those popped from it included
    spoken,         \* history: what was fed on a connection
    heard,          \* client->messages, by connection, those popped included
    owner,          \* history: the client of a connection, in order of connect
    joined,         \* history: Len(log) when the connection was accepted
    aborted,        \* history: an update or feed returned CHAT_ERR_SYS
    feeds, faults   \* how many feeds and faults there were

serverVars == <<server, peers, feedBuffer, batch, job>>
historyVars == <<log, spoken, heard, owner, joined, aborted>>
countVars == <<feeds, faults>>
vars == <<tcp, ready, serverVars, cli, historyVars, countVars>>

NoTcp == [up |-> <<>>, down |-> <<>>, far |-> "closed", near |-> "closed", full |-> FALSE]
NewTcp == [NoTcp EXCEPT !.far = "open", !.near = "open"]
NoPeer == [st |-> "none", buf |-> <<>>, out |-> <<>>, name |-> <<>>]
NewClient == [st |-> "on", sock |-> 0, buf |-> <<>>, out |-> <<>>, nameSent |-> FALSE]
NoEvents == [f \in {} |-> {}]
Idle == [op |-> "idle", at |-> "none", cur |-> 0, mask |-> {}, to |-> 0,
         text |-> <<>>]

-----------------------------------------------------------------------------
(* Lines.                                                                  *)
trim(s) ==
    LET ink == {i \in DOMAIN s : s[i] # Blank}
    IN  IF ink = {} THEN <<>> ELSE SubSeq(s, Min(ink), Max(ink))

(* extract_message: the buffer is cut after its first new line.            *)
EndOfLine(buf) == SelectInSeq(buf, LAMBDA u : u = NewLine)
HasLine(buf) == EndOfLine(buf) # 0
FirstLine(buf) == SubSeq(buf, 1, EndOfLine(buf) - 1)

(* Mutant: the rest of the buffer is dropped with the line.                *)
MutantAfterLine(buf) == <<>>

AfterLine(buf) == SubSeq(buf, EndOfLine(buf) + 1, Len(buf))

(* The trimmed lines of a stream that are not empty, and its unfinished    *)
(* last line.                                                              *)
Split(s) ==
    LET Step(a, u) ==
            IF u # NewLine THEN [a EXCEPT !.rest = Append(@, u)]
            ELSE [lines |-> IF trim(a.rest) = <<>> THEN a.lines
                            ELSE Append(a.lines, trim(a.rest)),
                  rest |-> <<>>]
    IN  FoldLeft(Step, [lines |-> <<>>, rest |-> <<>>], s)
Lines(s) == Split(s).lines

(* How a client divides a line into author and text.                       *)
Parse(line) ==
    LET i == SelectInSeq(line, LAMBDA u : u = Colon)
    IN  IF i = 0 THEN [author |-> <<>>, data |-> line]
        ELSE [author |-> SubSeq(line, 1, i - 1), data |-> SubSeq(line, i + 1, Len(line))]
ParseAll(lines) == [i \in DOMAIN lines |-> Parse(lines[i])]

(* "name: msg\n"                                                           *)
Wire(m) == m.author \o <<Colon>> \o m.data \o <<NewLine>>

-----------------------------------------------------------------------------
(* The kernel.                                                             *)
Open(n) == peers[n].st = "open"
Backlog == {n \in Conns : peers[n].st = "backlog"}

(* close() on the server's end: with unread input the client is reset.     *)
ServerCloses(t) ==
    IF t.near # "open" THEN t
    ELSE [t EXCEPT !.near = IF t.up # <<>> THEN "reset" ELSE "fin"]

(* close() on the client's end: with unread input the server is reset, and *)
(* what did not reach it yet is lost.                                      *)
ClientCloses(t) ==
    LET gone == [t EXCEPT !.near = "closed"]
    IN  IF t.far # "open" THEN {gone}
        ELSE IF t.down = <<>> THEN {[gone EXCEPT !.far = "fin"]}
        ELSE {[gone EXCEPT !.far = "reset", !.up = SubSeq(t.up, 1, k)] : k \in 0..Len(t.up)}

Wake(n) == IF Open(n) THEN {n} ELSE {}

(* What epoll_wait reports of a descriptor that is in the ready list.      *)
Mask(f) ==
    IF f = Listener THEN IF Backlog # {} THEN {"IN"} ELSE {}
    ELSE (IF tcp[f].far \in {"reset", "pipe"} THEN {"HUP"} ELSE {})
         \cup (IF tcp[f].up # <<>> \/ tcp[f].far # "open" THEN {"IN"} ELSE {})
         \cup (IF Len(tcp[f].down) < Cap THEN {"OUT"} ELSE {})

(* The answer of a socket that is gone to data sent to it.                 *)
ResetArrives(n) ==
    /\ \/ /\ Open(n) /\ tcp[n].near = "closed" /\ tcp[n].far = "fin" /\ tcp[n].down # <<>>
          /\ tcp' = [tcp EXCEPT ![n].far = "pipe"]
          /\ ready' = ready \cup {n}
       \/ /\ ~Open(n) /\ tcp[n].near = "fin" /\ tcp[n].up # <<>>
          /\ tcp' = [tcp EXCEPT ![n].near = "pipe"]
          /\ UNCHANGED ready
    /\ UNCHANGED <<serverVars, cli, historyVars, countVars>>

-----------------------------------------------------------------------------
(* The server.                                                             *)
Init ==
    /\ tcp = [n \in Conns |-> NoTcp]
    /\ ready = {}
    /\ server = "new"
    /\ peers = [n \in Conns |-> NoPeer]
    /\ feedBuffer = <<>>
    /\ batch = NoEvents
    /\ job = Idle
    /\ cli = [c \in Clients |-> NewClient]
    /\ log = <<>>
    /\ spoken = [n \in Conns \cup {Listener} |-> <<>>]
    /\ heard = [n \in Conns |-> <<>>]
    /\ owner = <<>>
    /\ joined = [n \in Conns |-> 0]
    /\ aborted = FALSE
    /\ feeds = 0 /\ faults = 0

(* chat_server_listen, when no call of it fails.                           *)
Listen ==
    /\ server = "new"
    /\ server' = "on"
    /\ UNCHANGED <<tcp, ready, peers, feedBuffer, batch, job, cli,
                   historyVars, countVars>>

Return(code) ==
    /\ job' = Idle
    /\ batch' = NoEvents
    /\ aborted' = (aborted \/ code = "SYS")

Goto(at) == job' = [job EXCEPT !.at = at] /\ UNCHANGED <<batch, aborted>>

close_peer(n) ==
    /\ ready' = ready \ {n}
    /\ tcp' = [tcp EXCEPT ![n] = ServerCloses(@)]
    /\ peers' = [peers EXCEPT ![n].st = "closed"]

(* All sockets of the server close: it was deleted, or killed by a signal. *)
Stop(how) ==
    /\ server' = how
    /\ tcp' = [n \in Conns |->
                 CASE peers[n].st = "open" -> ServerCloses(tcp[n])
                   [] peers[n].st = "backlog" /\ tcp[n].near = "open" ->
                        [tcp[n] EXCEPT !.near = "reset"]
                   [] OTHER -> tcp[n]]
    /\ peers' = [n \in Conns |-> IF peers[n].st = "none" THEN NoPeer
                                 ELSE [NoPeer EXCEPT !.st = "closed"]]
    /\ ready' = {}
    /\ feedBuffer' = <<>>
    /\ job' = Idle /\ batch' = NoEvents
    /\ UNCHANGED aborted

chat_server_delete ==
    /\ server \in {"new", "on"}
    /\ job = Idle
    /\ Stop("deleted")
    /\ UNCHANGED <<cli, log, spoken, heard, owner, joined, countVars>>

(* epoll_wait: of the descriptors in the ready list that have an event,    *)
(* MaxEvents at most are returned; being edge-triggered they leave the     *)
(* list.  None is a timeout.                                               *)
chat_server_update ==
    /\ server = "on"
    /\ job = Idle
    /\ LET live == {f \in ready : Mask(f) # {}}
       IN  IF live = {} THEN /\ ready' = {}
                             /\ Return("TIMEOUT")
           ELSE \E evs \in kSubset(Min({MaxEvents, Cardinality(live)}), live) :
                    /\ ready' = live \ evs
                    /\ batch' = [f \in evs |-> Mask(f)]
                    /\ job' = [Idle EXCEPT !.op = "update", !.at = "next"]
                    /\ UNCHANGED aborted
    /\ UNCHANGED <<tcp, server, peers, feedBuffer, cli, log, spoken, heard, owner,
                   joined, countVars>>

(* The head of the loop over events[].                                     *)
NextEvent(f) ==
    /\ job.at = "next"
    /\ f \in DOMAIN batch
    /\ batch' = [g \in DOMAIN batch \ {f} |-> batch[g]]
    /\ LET go(at) == job' = [job EXCEPT !.at = at, !.cur = f, !.mask = batch[f]]
       IN  CASE f = Listener -> go("accept") /\ UNCHANGED <<tcp, ready, peers>>
             [] f # Listener /\ ~Open(f) -> UNCHANGED <<job, tcp, ready, peers>>
             [] f # Listener /\ Open(f) /\ "HUP" \in batch[f] -> go("next") /\ close_peer(f)
             [] OTHER -> /\ go(IF "IN" \in batch[f] THEN "recv" ELSE "flush")
                         /\ UNCHANGED <<tcp, ready, peers>>
    /\ UNCHANGED <<server, feedBuffer, cli, historyVars, countVars>>

EndOfBatch ==
    /\ job.at = "next"
    /\ batch = NoEvents
    /\ Return("0")
    /\ UNCHANGED <<tcp, ready, server, peers, feedBuffer, cli, log, spoken, heard,
                   owner, joined, countVars>>

(* The return of accept_pending_clients to its caller; only now does       *)
(* chat_server_feed append what it was given.                              *)
Accepted ==
    IF job.op = "feed"
    THEN /\ Goto("lines")
         /\ feedBuffer' = feedBuffer \o job.text
         /\ spoken' = [spoken EXCEPT ![Listener] = @ \o job.text]
    ELSE Goto("next") /\ UNCHANGED <<feedBuffer, spoken>>

Admit(n) == [peers EXCEPT ![n].st = "open"]

(* One accept() of the loop, and whether another one follows.              *)
AcceptOne(loop) ==
    /\ job.at = "accept"
    /\ IF Backlog = {} THEN /\ Accepted
                            /\ UNCHANGED <<peers, ready, joined>>
       ELSE LET n == Min(Backlog)
            IN  /\ peers' = Admit(n)
                /\ ready' = ready \cup {n}
                /\ joined' = [joined EXCEPT ![n] = Len(log)]
                /\ IF loop THEN UNCHANGED <<job, batch, aborted, feedBuffer, spoken>> ELSE Accepted
    /\ UNCHANGED <<tcp, server, cli, log, heard, owner, countVars>>

(* Mutant: one connection per event.                                       *)
MutantAccept == AcceptOne(FALSE)

(* accept_pending_clients.                                                 *)
Accept == AcceptOne(TRUE)

(* accept() fails, or a call that prepares the new socket, which is closed *)
(* then; either way the rest of the batch is dropped.                      *)
AcceptFails ==
    /\ job.at = "accept"
    /\ faults < MaxFaults
    /\ faults' = faults + 1
    /\ Return("SYS")
    /\ \/ UNCHANGED <<tcp, peers>>
       \/ /\ Backlog # {}
          /\ tcp' = [tcp EXCEPT ![Min(Backlog)] = ServerCloses(@)]
          /\ peers' = [peers EXCEPT ![Min(Backlog)].st = "closed"]
    /\ UNCHANGED <<ready, server, feedBuffer, cli, log, spoken, heard, owner, joined, feeds>>

(* recv() returned 0: the peer is closed, its lines are still handled.     *)
EndOfStream(n) == close_peer(n) /\ Goto("lines")

(* One recv() and what follows it when it returned data.  The other        *)
(* answers: nothing yet, the end of the stream, or an error, which returns *)
(* from chat_server_update with the peer still open.                       *)
RecvThen(at) ==
    /\ job.at = "recv"
    /\ LET n == job.cur
           k == Min({BufSize, Len(tcp[n].up)})
       IN  \/ /\ k > 0
              /\ peers' = [peers EXCEPT ![n].buf = @ \o SubSeq(tcp[n].up, 1, k)]
              /\ tcp' = [tcp EXCEPT ![n].up = SubSeq(@, k + 1, Len(@))]
              /\ Goto(at)
              /\ UNCHANGED ready
           \/ k = 0 /\ tcp[n].far = "open" /\ Goto("lines") /\ UNCHANGED <<tcp, peers, ready>>
           \/ k = 0 /\ tcp[n].far \in {"fin", "pipe"} /\ EndOfStream(n)
           \/ /\ k = 0 /\ tcp[n].far = "reset"
              /\ tcp' = [tcp EXCEPT ![n].far = "pipe"]
              /\ Return("SYS")
              /\ UNCHANGED <<peers, ready>>
    /\ UNCHANGED <<server, feedBuffer, cli, log, spoken, heard, owner, joined, countVars>>

(* Mutant: one recv per event.                                             *)
MutantRecv == RecvThen("lines")

(* The loop around recv.                                                   *)
Recv == RecvThen("recv")

(* The stream the server takes lines from: a peer's, or its own.           *)
Source == IF job.op = "feed" THEN Listener ELSE job.cur
Input == IF Source = Listener THEN feedBuffer ELSE peers[Source].buf

(* After the last line: the output of the peer, or the end of the feed.    *)
NoMoreLines ==
    IF Source = Listener THEN Return("0") ELSE Goto("flush")

(* The next line: an empty one is skipped, the first one of a peer is its  *)
(* name, any other is a message for the others.                            *)
TakeLine ==
    /\ job.at = "lines"
    /\ IF ~HasLine(Input) THEN NoMoreLines /\ UNCHANGED <<peers, feedBuffer, log>>
       ELSE LET line == trim(FirstLine(Input))
                isName == Source # Listener /\ peers[Source].name = <<>>
                author == IF Source = Listener THEN <<"server">> ELSE peers[Source].name
            IN  /\ IF Source = Listener
                   THEN feedBuffer' = AfterLine(feedBuffer) /\ UNCHANGED peers
                   ELSE /\ peers' = [peers EXCEPT ![Source].buf = AfterLine(@),
                                                  ![Source].name = IF isName THEN line ELSE @]
                        /\ UNCHANGED feedBuffer
                /\ IF line = <<>> \/ isName THEN Goto("lines") /\ UNCHANGED log
                   ELSE /\ log' = Append(log, [src |-> Source, author |-> author, data |-> line])
                        /\ job' = [job EXCEPT !.at = "send", !.to = 1]
                        /\ UNCHANGED <<batch, aborted>>
    /\ UNCHANGED <<tcp, ready, server, cli, spoken, heard, owner, joined, countVars>>

(* flush_peer_output, with the output o: as much as the kernel takes is    *)
(* sent; an error closes the peer.                                         *)
flush_peer_output(p, o) ==
    \/ /\ tcp[p].far \in {"open", "fin"}
       /\ LET k == Min({Len(o), Cap - Len(tcp[p].down)})
          IN  /\ tcp' = [tcp EXCEPT ![p].down = @ \o SubSeq(o, 1, k), ![p].full = (k < Len(o))]
              /\ peers' = [peers EXCEPT ![p].out = SubSeq(o, k + 1, Len(o))]
       /\ UNCHANGED ready
    \/ /\ tcp[p].far = "reset"
       /\ ready' = ready \ {p}
       /\ tcp' = [tcp EXCEPT ![p].far = "pipe"]
       /\ peers' = [peers EXCEPT ![p].st = "closed", ![p].out = o]

(* Mutant: output that waits already is overtaken.                         *)
MutantQueue(p) == Wire(Last(log)) \o peers[p].out

(* p->output_buffer += full_msg                                            *)
Queue(p) == peers[p].out \o Wire(Last(log))

(* The rest of the peers the message goes to.                              *)
Receivers == {p \in Conns : p >= job.to /\ p # Source /\ Open(p)}

(* The loop over the peers: one of them.  A send() that fails with EPIPE   *)
(* raises SIGPIPE, which nothing in the program catches or ignores.        *)
Send ==
    /\ job.at = "send"
    /\ IF Receivers = {} THEN Goto("lines") /\ UNCHANGED <<tcp, ready, server, peers, feedBuffer>>
       ELSE LET p == Min(Receivers)
            IN  \/ /\ flush_peer_output(p, Queue(p))
                   /\ job' = [job EXCEPT !.to = p + 1]
                   /\ UNCHANGED <<server, feedBuffer, batch, aborted>>
                \/ tcp[p].far = "pipe" /\ Stop("killed")
    /\ UNCHANGED <<cli, log, spoken, heard, owner, joined, countVars>>

(* EPOLLOUT.                                                               *)
Flush ==
    /\ job.at = "flush"
    /\ LET p == job.cur
       IN  IF "OUT" \in job.mask /\ Open(p) /\ peers[p].out # <<>>
           THEN \/ /\ flush_peer_output(p, peers[p].out)
                   /\ job' = [job EXCEPT !.at = "next"]
                   /\ UNCHANGED <<server, feedBuffer, batch, aborted>>
                \/ tcp[p].far = "pipe" /\ Stop("killed")
           ELSE Goto("next") /\ UNCHANGED <<tcp, ready, server, peers, feedBuffer>>
    /\ UNCHANGED <<cli, log, spoken, heard, owner, joined, countVars>>

chat_server_feed(chunk) ==
    /\ server = "on"
    /\ job = Idle
    /\ feeds < MaxFeeds
    /\ feeds' = feeds + 1
    /\ job' = [Idle EXCEPT !.op = "feed", !.at = "accept", !.text = chunk]
    /\ UNCHANGED <<tcp, ready, server, peers, feedBuffer, batch, cli, historyVars, faults>>

-----------------------------------------------------------------------------
(* The clients.                                                            *)
chat_client_connect(c) ==
    /\ cli[c].st = "on" /\ cli[c].sock = 0
    /\ server = "on"
    /\ Len(owner) < MaxConns
    /\ LET n == Len(owner) + 1
       IN  /\ tcp' = [tcp EXCEPT ![n] = NewTcp]
           /\ peers' = [peers EXCEPT ![n].st = "backlog"]
           /\ cli' = [cli EXCEPT ![c].sock = n]
           /\ owner' = Append(owner, c)
    /\ ready' = ready \cup {Listener}
    /\ UNCHANGED <<server, feedBuffer, batch, job, log, spoken, heard, joined,
                   aborted, countVars>>

(* The client r, which was connected, closes its socket; k is its          *)
(* connection as its other steps left it.                                  *)
CloseSocket(c, r, k) ==
    /\ cli' = [cli EXCEPT ![c] = [r EXCEPT !.sock = 0]]
    /\ tcp' \in {[tcp EXCEPT ![cli[c].sock] = t] : t \in ClientCloses(k)}
    /\ ready' = ready \cup Wake(cli[c].sock)

(* flush_output, with the output o of the client r.  SIGPIPE kills a       *)
(* client as it kills the server.                                          *)
flush_output(c, r, k, o) ==
    LET n == cli[c].sock
        len == Min({Len(o), Cap - Len(k.up)})
    IN  CASE o = <<>> \/ k.near \in {"open", "fin"} ->
               /\ cli' = [cli EXCEPT ![c] = [r EXCEPT !.out = SubSeq(o, len + 1, Len(o))]]
               /\ tcp' = [tcp EXCEPT ![n] = [k EXCEPT !.up = @ \o SubSeq(o, 1, len)]]
               /\ ready' = ready \cup (IF len > 0 \/ k.full # tcp[n].full THEN Wake(n) ELSE {})
          [] o # <<>> /\ k.near = "reset" -> CloseSocket(c, [r EXCEPT !.out = o], k)
          [] o # <<>> /\ k.near = "pipe" -> CloseSocket(c, [NewClient EXCEPT !.st = "gone"], k)

chat_client_feed(c, chunk) ==
    /\ cli[c].sock # 0
    /\ feeds < MaxFeeds
    /\ feeds' = feeds + 1
    /\ LET r == cli[c]
           greeting == IF r.nameSent THEN <<>> ELSE Name[c] \o <<NewLine>>
       IN  flush_output(c, [r EXCEPT !.nameSent = TRUE], tcp[r.sock],
                        r.out \o greeting \o chunk)
    /\ spoken' = [spoken EXCEPT ![cli[c].sock] = @ \o chunk]
    /\ UNCHANGED <<serverVars, log, heard, owner, joined, aborted, faults>>

(* The input buffer, divided into lines.                                   *)
Received(r, t) == Split(r.buf \o t.down)

(* poll() reports what the socket is ready for at this moment; the end of  *)
(* the stream, found by the last recv, returns before lines are taken.     *)
chat_client_update(c) ==
    /\ cli[c].sock # 0
    /\ LET r == cli[c]
           n == r.sock
           t == tcp[n]
           in == t.down # <<>> \/ t.near = "fin"
           k == IF in THEN [t EXCEPT !.down = <<>>, !.full = FALSE] ELSE t
           got == Received(r, t)
           new == ParseAll(got.lines)
       IN  CASE t.near \in {"reset", "pipe"} -> CloseSocket(c, r, t) /\ UNCHANGED heard
             [] t.near = "fin" -> /\ CloseSocket(c, [r EXCEPT !.buf = @ \o t.down], k)
                                  /\ UNCHANGED heard
             [] t.near = "open" ->
                  /\ in \/ (r.out # <<>> /\ Len(t.up) < Cap)
                  /\ IF in THEN /\ flush_output(c, [r EXCEPT !.buf = got.rest], k, r.out)
                                /\ heard' = [heard EXCEPT ![n] = @ \o new]
                     ELSE flush_output(c, r, k, r.out) /\ UNCHANGED heard
    /\ UNCHANGED <<serverVars, log, spoken, owner, joined, aborted, countVars>>

chat_client_delete(c) ==
    /\ cli[c].st = "on"
    /\ Cardinality({d \in Clients : cli[d].st = "gone"}) < MaxLeaves
    /\ IF cli[c].sock # 0 THEN CloseSocket(c, [NewClient EXCEPT !.st = "gone"], tcp[cli[c].sock])
       ELSE cli' = [cli EXCEPT ![c] = [NewClient EXCEPT !.st = "gone"]] /\ UNCHANGED <<tcp, ready>>
    /\ UNCHANGED <<serverVars, historyVars, countVars>>

-----------------------------------------------------------------------------
HandleEvents == \E f \in Conns \cup {Listener} : NextEvent(f)
ServerStep ==
    \/ chat_server_update \/ HandleEvents \/ EndOfBatch
    \/ Accept \/ AcceptFails \/ Recv \/ TakeLine \/ Send \/ Flush

Next ==
    \/ Listen \/ ServerStep \/ chat_server_delete
    \/ \E chunk \in Chunks : chat_server_feed(chunk)
    \/ \E n \in Conns : ResetArrives(n)
    \/ \E c \in Clients : \/ chat_client_connect(c) \/ chat_client_update(c)
                          \/ chat_client_delete(c)
                          \/ \E chunk \in Chunks : chat_client_feed(c, chunk)

Spec == Init /\ [][Next]_vars

(* When the server has something to do, and when poll() returns to a       *)
(* client: these are the states in which the steps below are enabled.      *)
ServerCan == server = "on" /\ (job # Idle \/ ready # {})
ClientCan(c) ==
    /\ cli[c].sock # 0
    /\ LET t == tcp[cli[c].sock]
       IN  t.near # "open" \/ t.down # <<>> \/ (cli[c].out # <<>> /\ Len(t.up) < Cap)

(* The program around the server calls chat_server_update again and again, *)
(* and each client's program chat_client_update: weak fairness, with the   *)
(* enabling conditions spelled out for TLC.                                *)
FairSpec ==
    /\ Spec
    /\ []<>~ServerCan \/ []<><<ServerStep>>_vars
    /\ \A c \in Clients : []<>~ClientCan(c) \/ []<><<chat_client_update(c)>>_vars

-----------------------------------------------------------------------------
(* Properties.                                                             *)
Ends == {"open", "fin", "reset", "pipe", "closed"}

(* Every buffer, descriptor and position has its type: kernel buffers stay *)
(* within Cap, and at most MaxEvents events are in a batch.                *)
ChatTypeOK ==
    /\ \A n \in Conns : /\ Len(tcp[n].up) <= Cap /\ Len(tcp[n].down) <= Cap
                        /\ tcp[n].far \in Ends /\ tcp[n].near \in Ends
                        /\ peers[n].st \in {"none", "backlog", "open", "closed"}
    /\ ready \subseteq {Listener} \cup {n \in Conns : Open(n)}
    /\ server \in {"new", "on", "deleted", "killed"}
    /\ DOMAIN batch \subseteq Conns \cup {Listener} /\ Cardinality(DOMAIN batch) <= MaxEvents
    /\ job.op \in {"idle", "update", "feed"}
    /\ job.at \in {"none", "next", "accept", "recv", "lines", "send", "flush"}
    /\ \A c \in Clients : cli[c].sock \in 0..Len(owner) /\ cli[c].st \in {"on", "gone"}

Text(ms) == [i \in DOMAIN ms |-> [author |-> ms[i].author, data |-> ms[i].data]]
Said(n) == SelectSeq(log, LAMBDA m : m.src = n)

(* The first connection of a client object; a later one inherits buffers,  *)
(* and does not send the name again.                                       *)
First(n) == n \in DOMAIN owner /\ \A k \in 1..(n - 1) : owner[k] # owner[n]
Alive(n) ==
    n \in DOMAIN owner /\ cli[owner[n]].sock = n /\ tcp[n].near = "open" /\ tcp[n].far = "open"

(* What a client feeds arrives line by line, trimmed, under its name, in   *)
(* order and once, however it is cut by feeds, partial sends and partial   *)
(* recvs; nothing is missing between two live ends.  The same for what     *)
(* chat_server_feed is given.                                              *)
SaidInOrder ==
    /\ \A n \in Conns : First(n) =>
          LET c == owner[n]
              all == [i \in DOMAIN Lines(spoken[n]) |->
                        [author |-> Name[c], data |-> Lines(spoken[n])[i]]]
              way == Lines(peers[n].buf \o tcp[n].up \o cli[c].out)
              coming == IF peers[n].name = <<>> /\ way # <<>> THEN Tail(way) ELSE way
              pending == [i \in DOMAIN coming |-> [author |-> Name[c], data |-> coming[i]]]
          IN  IF Alive(n) THEN Text(Said(n)) \o pending = all ELSE IsPrefix(Text(Said(n)), all)
    /\ server = "on" =>
          [i \in DOMAIN Said(Listener) |-> Said(Listener)[i].data] \o Lines(feedBuffer)
              = Lines(spoken[Listener])

(* Messages meant for a connection: all the server made since it was       *)
(* accepted, without its own.                                              *)
Due(n) == Text(SelectSeq(SubSeq(log, joined[n] + 1, Len(log)), LAMBDA m : m.src # n))

(* A client hears what the others and the server said since it was         *)
(* accepted, in the server's order, once, and never its own messages;      *)
(* nothing is missing between two live ends, whatever broadcasts were cut  *)
(* short by a full socket.                                                 *)
HeardInOrder ==
    \A n \in Conns : First(n) =>
        IF Alive(n) /\ Open(n)
        THEN heard[n] \o ParseAll(Lines(cli[owner[n]].buf \o tcp[n].down \o peers[n].out))
               = IF job.at = "send" /\ n \in Receivers THEN Front(Due(n)) ELSE Due(n)
        ELSE IsPrefix(heard[n], Due(n))

Pending(f, events) == f \in ready \/ (f \in DOMAIN batch /\ batch[f] \cap events # {})

(* With edge-triggered events what is left undone must still be announced: *)
(* a connection that waits to be accepted, input that was not read, output *)
(* for which there is room again.  An update that returned an error may    *)
(* break this: it drops the rest of its batch.                             *)
NoLostEdge ==
    (server = "on" /\ ~aborted) =>
        /\ Backlog # {} => Pending(Listener, {"IN"}) \/ job.at = "accept"
        /\ \A n \in Conns : Open(n) =>
              /\ (tcp[n].up # <<>> \/ tcp[n].far # "open") =>
                    Pending(n, {"IN", "HUP"}) \/ (job.at = "recv" /\ job.cur = n)
              /\ (peers[n].out # <<>> /\ Len(tcp[n].down) < Cap) =>
                    Pending(n, {"OUT"}) \/ (job.cur = n /\ "OUT" \in job.mask /\ job.at # "next")

(* No complete line stays in the buffer of a peer after its event, not     *)
(* even of a peer whose stream has ended.                                  *)
NoLineLeftBehind ==
    \A n \in Conns : (HasLine(peers[n].buf) /\ ~aborted) =>
        job.op = "update" /\ job.cur = n /\ job.at \in {"recv", "lines", "send"}

(* Nothing is stranded: neither in the kernel nor in a buffer.             *)
NothingStranded == ChatTypeOK /\ NoLostEdge /\ NoLineLeftBehind

(* In the end everything between live ends was delivered, unless an update *)
(* failed or the server is gone.                                           *)
Delivered ==
    /\ Backlog = {}
    /\ \A n \in Conns : (Alive(n) /\ Open(n)) =>
          /\ tcp[n].up = <<>> /\ tcp[n].down = <<>>
          /\ peers[n].out = <<>> /\ cli[owner[n]].out = <<>>
          /\ ~HasLine(peers[n].buf)

(* Liveness: the state settles with everything delivered.                  *)
Settles == <>[](server # "on" \/ aborted \/ Delivered)
=============================================================================
