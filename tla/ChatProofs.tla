----------------------------- MODULE ChatProofs -----------------------------
(***************************************************************************)
(* In the chat nothing is stranded, for any number of clients, connections *)
(* and feeds, any size of the buffers and of a batch of events: what a     *)
(* handler leaves undone is announced by an event that is still to come.   *)
(***************************************************************************)
EXTENDS Chat, SequenceTheorems, FiniteSetTheorems, WellFoundedInduction, TLAPS

(* What streams are made of: the units of the names and of the chunks, and *)
(* the ones the server adds.                                               *)
NameUnits == UNION {Range(Name[c]) : c \in Clients}
ChunkUnits == UNION {Range(chunk) : chunk \in Chunks}
Units == {Blank, NewLine, Colon, "server"} \cup NameUnits \cup ChunkUnits
Stream == Seq(Units)

Bits == {"IN", "OUT", "HUP"}
TcpRecord == [up : Stream, down : Stream, far : Ends, near : Ends, full : BOOLEAN]
PeerRecord == [st : {"none", "backlog", "open", "closed"}, buf : Stream, out : Stream, name : Stream]
JobRecord == [op : {"idle", "update", "feed"},
              at : {"none", "next", "accept", "recv", "lines", "send", "flush"},
              cur : Conns \cup {Listener}, mask : SUBSET Bits, to : Nat, text : Stream]
Message == [src : Conns \cup {Listener}, author : Stream, data : Stream]
ClientFields == {"st", "sock", "buf", "out", "nameSent"}

(* The state of a connection in the kernel.                                *)
TcpOK(t) == t \in TcpRecord /\ Len(t.up) <= Cap /\ Len(t.down) <= Cap

(* What a client keeps of its connection; its input buffer is whatever     *)
(* Split leaves over.                                                      *)
ClientOK(r) ==
    /\ DOMAIN r = ClientFields
    /\ r.st \in {"on", "gone"} /\ r.sock \in 0..Len(owner) /\ r.out \in Stream

KernelTypes ==
    /\ tcp \in [Conns -> TcpRecord] /\ \A n \in Conns : TcpOK(tcp[n])
    /\ ready \subseteq {Listener} \cup {n \in Conns : Open(n)}
PeerTypes ==
    /\ peers \in [Conns -> PeerRecord]
    /\ owner \in Seq(Clients) /\ Len(owner) <= MaxConns
    /\ \A n \in Conns : n > Len(owner) => peers[n].st = "none"
    /\ server = "new" => owner = <<>>
    /\ \A n \in Conns : peers[n].st \in {"none", "backlog"} => peers[n].out = <<>>
ServerTypes ==
    /\ server \in {"new", "on", "deleted", "killed"} /\ aborted \in BOOLEAN
    /\ feedBuffer \in Stream /\ log \in Seq(Message)
    /\ job \in JobRecord
BatchTypes ==
    /\ DOMAIN batch \subseteq Conns \cup {Listener} /\ Cardinality(DOMAIN batch) <= MaxEvents
    /\ \A f \in DOMAIN batch : batch[f] \subseteq Bits
ClientTypes == DOMAIN cli = Clients /\ \A c \in Clients : ClientOK(cli[c])
Types == KernelTypes /\ PeerTypes /\ ServerTypes /\ BatchTypes /\ ClientTypes

(* Where the server can be: a batch and a current peer are there only      *)
(* within an update, a message to send only within a broadcast.            *)
JobSound ==
    /\ job.op = "idle" <=> job.at = "none"
    /\ job.op # "update" => /\ DOMAIN batch = {} /\ job.cur = Listener
                            /\ job.at \in {"none", "accept", "lines", "send"}
    /\ (job.op = "update" /\ job.at = "accept") => job.cur = Listener
    /\ (job.op = "update" /\ job.at \in {"recv", "lines", "send", "flush"}) =>
          job.cur \in Conns /\ peers[job.cur].st \in {"open", "closed"}
    /\ job.at = "send" => log # <<>>

(* Every socket of a client is its own and still open on its side, and the *)
(* server knows of no connection that was never made.                      *)
ClientsConnected ==
    \A c \in Clients : cli[c].sock # 0 =>
        owner[cli[c].sock] = c /\ tcp[cli[c].sock].near # "closed"
PeersConnected == \A n \in Conns : peers[n].st # "none" => tcp[n].far # "closed"

(* NoLostEdge, by what is announced.  Output that waits has filled the     *)
(* socket, or there is room again and the peer's event is to come: a       *)
(* socket that was full wakes the server when it is read.                  *)
AcceptAnnounced == Backlog # {} => Pending(Listener, {"IN"}) \/ job.at = "accept"
InputAnnounced(n) ==
    (tcp[n].up # <<>> \/ tcp[n].far # "open") =>
        Pending(n, {"IN", "HUP"}) \/ (job.at = "recv" /\ job.cur = n)
OutputAnnounced(n) ==
    peers[n].out # <<>> =>
        \/ tcp[n].full /\ Len(tcp[n].down) = Cap
        \/ /\ Len(tcp[n].down) < Cap
           /\ Pending(n, {"OUT"}) \/ (job.cur = n /\ "OUT" \in job.mask /\ job.at # "next")
Announced ==
    (server = "on" /\ ~aborted) =>
        AcceptAnnounced /\ \A n \in Conns : Open(n) => InputAnnounced(n) /\ OutputAnnounced(n)

(* The inductive invariant.                                                *)
ChatInv ==
    /\ Types /\ ClientsConnected /\ PeersConnected
    /\ JobSound /\ NoLineLeftBehind /\ Announced

-----------------------------------------------------------------------------
(* Numbers and streams.                                                    *)

(* A non-empty set of natural numbers has a least element.                 *)
LEMMA MinFacts ==
    ASSUME NEW S, S \subseteq Nat, S # {}
    PROVE  Min(S) \in S /\ \A y \in S : Min(S) <= y
<1>. DEFINE Less == {ss \in Nat \X Nat : ss[1] < ss[2]}
<1>1. IsWellFoundedOn(Less, Nat)
  BY NatLessThanWellFounded DEF OpToRel
<1>2. PICK x \in S : \A y \in S : ~(<<y, x>> \in Less)
  <2>. HIDE DEF Less
  <2> QED BY <1>1, WFMin
<1>3. ASSUME NEW y \in S PROVE x <= y
  <2>1. <<y, x>> \in Less <=> y < x
    OBVIOUS
  <2> QED BY <2>1, <1>2, <1>3
<1>4. \E z \in S : \A y \in S : z <= y
  BY <1>3
<1> QED BY <1>4 DEF Min

(* A non-empty bounded set of natural numbers has a greatest one.          *)
LEMMA MaxFacts ==
    ASSUME NEW n \in Nat, NEW S, S \subseteq 1..n, S # {}
    PROVE  Max(S) \in S
<1>. DEFINE T == {n - i : i \in S}
<1>1. T \subseteq Nat /\ T # {}
  <2>1. \A i \in S : n - i \in Nat
    OBVIOUS
  <2>2. T \subseteq Nat
    BY <2>1
  <2>3. PICK i : i \in S
    OBVIOUS
  <2>4. n - i \in T
    BY <2>3
  <2> QED BY <2>2, <2>4
<1>2. Min(T) \in T /\ \A y \in T : Min(T) <= y
  BY <1>1, MinFacts
<1>3. PICK x \in S : Min(T) = n - x
  BY <1>2
<1>4. ASSUME NEW y \in S PROVE x >= y
  <2>1. n - x <= n - y
    BY <1>2, <1>3
  <2> QED BY <2>1
<1>5. \E z \in S : \A y \in S : z >= y
  BY <1>4
<1> QED BY <1>5 DEF Max

(* The smaller of two numbers.                                             *)
LEMMA MinOfTwo ==
    ASSUME NEW a \in Nat, NEW b \in Nat
    PROVE  Min({a, b}) = IF a <= b THEN a ELSE b
<1>1. Min({a, b}) \in {a, b} /\ \A y \in {a, b} : Min({a, b}) <= y
  BY MinFacts
<1> QED BY <1>1

(* A part of a stream.                                                     *)
LEMMA PartOfStream ==
    ASSUME NEW s \in Stream, NEW m \in Int, NEW n \in Int, m >= 1, n <= Len(s)
    PROVE  /\ SubSeq(s, m, n) \in Stream
           /\ Len(SubSeq(s, m, n)) = IF m <= n THEN n - m + 1 ELSE 0
<1>1. \A i \in m .. n : s[i] \in Units
  BY ElementOfSeq, LenProperties DEF Stream
<1> QED BY <1>1, SubSeqProperties DEF Stream

LEMMA JoinedStreams ==
    ASSUME NEW s \in Stream, NEW t \in Stream
    PROVE  s \o t \in Stream /\ Len(s \o t) = Len(s) + Len(t)
BY ConcatProperties DEF Stream

LEMMA LengthOfStream ==
    ASSUME NEW s \in Stream
    PROVE  Len(s) \in Nat /\ (Len(s) = 0 <=> s = <<>>)
BY LenProperties, EmptySeq DEF Stream

LEMMA TrimmedStream ==
    ASSUME NEW s \in Stream
    PROVE  trim(s) \in Stream
<1>. DEFINE ink == {i \in DOMAIN s : s[i] # Blank}
<1>1. DOMAIN s = 1..Len(s) /\ Len(s) \in Nat
  BY LenProperties DEF Stream
<1>2. CASE ink = {}
  BY <1>2, EmptySeq DEF trim, Stream
<1>3. CASE ink # {}
  <2>1. ink \subseteq 1..Len(s) /\ ink \subseteq Nat
    BY <1>1
  <2>2. Min(ink) \in 1..Len(s) /\ Max(ink) \in 1..Len(s)
    BY <1>1, <1>3, <2>1, MinFacts, MaxFacts
  <2>3. SubSeq(s, Min(ink), Max(ink)) \in Stream
    BY <1>1, <2>2, PartOfStream
  <2> QED BY <1>3, <2>3 DEF trim
<1> QED BY <1>2, <1>3

(* extract_message finds the end of a line in the buffer or nowhere.       *)
LEMMA LineFacts ==
    ASSUME NEW s \in Stream, HasLine(s)
    PROVE  EndOfLine(s) \in 1..Len(s)
<1>. DEFINE I == {i \in 1..Len(s) : s[i] = NewLine}
<1>1. Len(s) \in Nat
  BY LengthOfStream
<1>2. EndOfLine(s) = IF I # {} THEN Min(I) ELSE 0
  BY DEF EndOfLine, SelectInSeq
<1>3. I # {}
  BY <1>2 DEF HasLine
<1>4. I \subseteq Nat /\ I \subseteq 1..Len(s)
  BY <1>1
<1>5. Min(I) \in I
  BY <1>3, <1>4, MinFacts
<1> QED BY <1>2, <1>3, <1>4, <1>5

LEMMA NoLineInNothing == ~HasLine(<<>>)
<1>. DEFINE I == {i \in 1..Len(<<>>) : <<>>[i] = NewLine}
<1>1. I = {}
  BY Len(<<>>) = 0
<1>2. EndOfLine(<<>>) = IF I # {} THEN Min(I) ELSE 0
  BY DEF EndOfLine, SelectInSeq
<1> QED BY <1>1, <1>2 DEF HasLine

LEMMA LineStreams ==
    ASSUME NEW s \in Stream, HasLine(s)
    PROVE  trim(FirstLine(s)) \in Stream /\ AfterLine(s) \in Stream
<1>1. EndOfLine(s) \in 1..Len(s) /\ Len(s) \in Nat
  BY LineFacts, LengthOfStream
<1>2. FirstLine(s) \in Stream
  BY <1>1, PartOfStream DEF FirstLine
<1>3. AfterLine(s) \in Stream
  BY <1>1, PartOfStream DEF AfterLine
<1> QED BY <1>2, <1>3, TrimmedStream

LEMMA GivenStreams ==
    /\ <<>> \in Stream /\ Len(<<>>) = 0
    /\ <<"server">> \in Stream
    /\ \A chunk \in Chunks : chunk \in Stream
    /\ \A c \in Clients : Name[c] \o <<NewLine>> \in Stream
<1>1. <<>> \in Stream /\ Len(<<>>) = 0
  BY EmptySeq DEF Stream
<1>2. \A u \in Units : <<u>> \in Stream
  BY DEF Stream
<1>3. <<"server">> \in Stream /\ <<NewLine>> \in Stream
  BY <1>2 DEF Units
<1>4. ASSUME NEW chunk \in Chunks PROVE chunk \in Stream
  <2>1. chunk \in Seq(Range(chunk))
    BY ChatAssumption
  <2>2. Range(chunk) \subseteq ChunkUnits
    BY Zenon DEF ChunkUnits
  <2> QED BY <2>1, <2>2, SeqMonotonic DEF Stream, Units
<1>5. ASSUME NEW c \in Clients PROVE Name[c] \o <<NewLine>> \in Stream
  <2>1. Name[c] \in Seq(Range(Name[c]))
    BY ChatAssumption
  <2>2. Range(Name[c]) \subseteq NameUnits
    BY Zenon DEF NameUnits
  <2>3. Name[c] \in Stream
    BY <2>1, <2>2, SeqMonotonic DEF Stream, Units
  <2> QED BY <2>3, <1>3, JoinedStreams
<1> QED BY <1>1, <1>3, <1>4, <1>5

-----------------------------------------------------------------------------
(* The initial state, and what the invariant says.                         *)
LEMMA Descriptors == Listener \notin Conns /\ Conns \subseteq Nat /\ Cap \in Nat \ {0}
BY ChatAssumption DEF Listener, Conns

LEMMA DescriptorsFinite == IsFiniteSet(Conns \cup {Listener})
<1>1. IsFiniteSet(Conns)
  BY FS_Interval, ChatAssumption DEF Conns
<1> QED BY <1>1, FS_AddElement

LEMMA IdleFacts ==
    /\ Idle \in JobRecord /\ DOMAIN NoEvents = {}
    /\ Idle.op = "idle" /\ Idle.at = "none" /\ Idle.cur = Listener /\ Idle.mask = {}
BY GivenStreams DEF Idle, JobRecord, NoEvents, Listener

LEMMA InitInv ==
    ASSUME Init
    PROVE  ChatInv
<1>. USE DEF Init
<1>1. NoTcp \in TcpRecord /\ TcpOK(NoTcp) /\ NoPeer \in PeerRecord
  BY GivenStreams, ChatAssumption DEF NoTcp, TcpOK, TcpRecord, Ends, NoPeer, PeerRecord
<1>2. KernelTypes
  BY <1>1 DEF KernelTypes
<1>3. PeerTypes
  BY <1>1, ChatAssumption DEF PeerTypes, NoPeer
<1>4. ServerTypes
  <2>1. job \in JobRecord
    BY IdleFacts
  <2>2. feedBuffer \in Stream /\ log \in Seq(Message)
    BY GivenStreams
  <2>3. aborted \in BOOLEAN /\ server = "new"
    OBVIOUS
  <2> QED BY <2>1, <2>2, <2>3, Zenon DEF ServerTypes
<1>5. BatchTypes
  BY IdleFacts, FS_EmptySet, ChatAssumption DEF BatchTypes
<1>6. ClientTypes
  BY GivenStreams DEF ClientTypes, ClientOK, ClientFields, NewClient
<1>7. JobSound
  BY IdleFacts DEF JobSound
<1>8. NoLineLeftBehind
  BY NoLineInNothing DEF NoLineLeftBehind, NoPeer
<1>9. Announced
  BY DEF Announced
<1>10. ClientsConnected /\ PeersConnected
  BY DEF ClientsConnected, PeersConnected, NewClient, NoPeer
<1> QED BY <1>2, <1>3, <1>4, <1>5, <1>6, <1>7, <1>8, <1>9, <1>10 DEF ChatInv, Types

LEMMA InvStrong ==
    ASSUME ChatInv
    PROVE  NothingStranded
<1>. USE DEF ChatInv, Types
<1>1. ChatTypeOK
  <2>1. ASSUME NEW n \in Conns
        PROVE  /\ Len(tcp[n].up) <= Cap /\ Len(tcp[n].down) <= Cap
               /\ tcp[n].far \in Ends /\ tcp[n].near \in Ends
               /\ peers[n].st \in {"none", "backlog", "open", "closed"}
    BY DEF KernelTypes, PeerTypes, TcpOK, TcpRecord, PeerRecord
  <2>2. job.op \in {"idle", "update", "feed"}
        /\ job.at \in {"none", "next", "accept", "recv", "lines", "send", "flush"}
    BY DEF ServerTypes, JobRecord
  <2>3. \A c \in Clients : cli[c].sock \in 0..Len(owner) /\ cli[c].st \in {"on", "gone"}
    BY DEF ClientTypes, ClientOK
  <2> QED BY <2>1, <2>2, <2>3 DEF ChatTypeOK, KernelTypes, ServerTypes, BatchTypes
<1>2. NoLostEdge
  <2>1. SUFFICES ASSUME server = "on", ~aborted
                 PROVE  /\ Backlog # {} => Pending(Listener, {"IN"}) \/ job.at = "accept"
                        /\ \A n \in Conns : Open(n) =>
                             /\ (tcp[n].up # <<>> \/ tcp[n].far # "open") =>
                                   Pending(n, {"IN", "HUP"}) \/ (job.at = "recv" /\ job.cur = n)
                             /\ (peers[n].out # <<>> /\ Len(tcp[n].down) < Cap) =>
                                   \/ Pending(n, {"OUT"})
                                   \/ job.cur = n /\ "OUT" \in job.mask /\ job.at # "next"
    BY DEF NoLostEdge
  <2>2. AcceptAnnounced /\ \A n \in Conns : Open(n) => InputAnnounced(n) /\ OutputAnnounced(n)
    BY <2>1 DEF Announced
  <2>3. ASSUME NEW n \in Conns, Len(tcp[n].down) < Cap PROVE Len(tcp[n].down) # Cap
    <3>1. tcp[n].down \in Stream
      BY DEF KernelTypes, TcpRecord
    <3> QED BY <2>3, <3>1, LengthOfStream, Descriptors
  <2> QED BY <2>2, <2>3 DEF AcceptAnnounced, InputAnnounced, OutputAnnounced
<1> QED BY <1>1, <1>2 DEF NothingStranded

-----------------------------------------------------------------------------
(* The clients and the kernel: one connection changes, the server does     *)
(* not move.                                                               *)

(* The connection n becomes t and W are woken.  Input and the end of the   *)
(* stream wake the server, and so does room in a socket that was full.     *)
KernelStep(n, t, W) ==
    /\ TcpOK(t)
    /\ tcp' = [tcp EXCEPT ![n] = t]
    /\ ready' = ready \cup W /\ W \in {{}, Wake(n)}
    /\ \/ t.full = tcp[n].full /\ t.down = tcp[n].down
       \/ t.full = FALSE /\ t.down = <<>>
    /\ (W = {} /\ Open(n)) => t.up = tcp[n].up /\ t.far = tcp[n].far /\ t.full = tcp[n].full
    /\ t.far = "closed" => tcp[n].far = "closed"

LEMMA KernelStepInv ==
    ASSUME ChatInv, NEW n \in Conns, NEW t, NEW W, KernelStep(n, t, W),
           UNCHANGED <<server, peers, feedBuffer, batch, job, log, owner, aborted>>,
           ClientTypes', ClientsConnected'
    PROVE  ChatInv'
<1>. USE DEF ChatInv, Types
<1>1. /\ tcp \in [Conns -> TcpRecord] /\ t \in TcpRecord
      /\ tcp' = [tcp EXCEPT ![n] = t] /\ ready' = ready \cup W
  BY DEF KernelTypes, KernelStep, TcpOK
<1>2. /\ tcp' \in [Conns -> TcpRecord] /\ tcp'[n] = t
      /\ \A m \in Conns : m # n => tcp'[m] = tcp[m]
  BY <1>1
<1>3. \A m \in Conns : Open(m)' = Open(m)
  BY DEF Open
<1>4. KernelTypes'
  <2>1. \A m \in Conns : TcpOK(tcp'[m])
    BY <1>2 DEF KernelTypes, KernelStep
  <2>2. W \subseteq {m \in Conns : Open(m)}
    BY DEF KernelStep, Wake
  <2> QED BY <1>1, <1>2, <1>3, <2>1, <2>2 DEF KernelTypes, TcpOK
<1>5. PeerTypes' /\ ServerTypes' /\ BatchTypes'
  BY DEF PeerTypes, ServerTypes, BatchTypes
<1>6. JobSound'
  BY DEF JobSound
<1>7. NoLineLeftBehind'
  BY DEF NoLineLeftBehind
<1>8. \A f, events : Pending(f, events) => Pending(f, events)'
  BY <1>1 DEF Pending
<1>9. ASSUME server = "on", ~aborted
      PROVE  AcceptAnnounced' /\ \A m \in Conns : Open(m) => InputAnnounced(m)' /\ OutputAnnounced(m)'
  <2>1. AcceptAnnounced /\ \A m \in Conns : Open(m) => InputAnnounced(m) /\ OutputAnnounced(m)
    BY <1>9 DEF Announced
  <2>2. AcceptAnnounced'
    BY <2>1, <1>8 DEF AcceptAnnounced, Backlog
  <2>3. ASSUME NEW m \in Conns, Open(m), m # n PROVE InputAnnounced(m)' /\ OutputAnnounced(m)'
    BY <2>1, <2>3, <1>2, <1>8 DEF InputAnnounced, OutputAnnounced
  <2>4. ASSUME Open(n), W = Wake(n) PROVE InputAnnounced(n)' /\ OutputAnnounced(n)'
    <3>1. n \in ready'
      BY <2>4, <1>1 DEF Wake
    <3>2. \A events : Pending(n, events)'
      BY <3>1 DEF Pending
    <3>3. InputAnnounced(n)'
      BY <3>2 DEF InputAnnounced
    <3>4. OutputAnnounced(n)
      BY <2>1, <2>4
    <3>5. \/ t.full = tcp[n].full /\ t.down = tcp[n].down
          \/ t.full = FALSE /\ Len(t.down) < Cap
      BY Descriptors, GivenStreams DEF KernelStep
    <3>6. OutputAnnounced(n)'
      BY <3>2, <3>4, <3>5, <1>2 DEF OutputAnnounced
    <3> QED BY <3>3, <3>6
  <2>5. ASSUME Open(n), W = {} PROVE InputAnnounced(n)' /\ OutputAnnounced(n)'
    <3>1. InputAnnounced(n) /\ OutputAnnounced(n)
      BY <2>1, <2>5
    <3>2. /\ t.up = tcp[n].up /\ t.far = tcp[n].far /\ t.full = tcp[n].full
          /\ t.down = tcp[n].down \/ (t.full = FALSE /\ Len(t.down) < Cap)
      BY <2>5, Descriptors, GivenStreams DEF KernelStep
    <3>3. InputAnnounced(n)'
      BY <3>1, <3>2, <1>2, <1>8 DEF InputAnnounced
    <3>4. OutputAnnounced(n)'
      BY <3>1, <3>2, <1>2, <1>8 DEF OutputAnnounced
    <3> QED BY <3>3, <3>4
  <2>6. W = {} \/ W = Wake(n)
    BY DEF KernelStep
  <2> QED BY <2>2, <2>3, <2>4, <2>5, <2>6
<1>10. Announced'
  BY <1>9, <1>3 DEF Announced
<1>11. PeersConnected'
  BY <1>2 DEF PeersConnected, KernelStep
<1> QED BY <1>4, <1>5, <1>6, <1>7, <1>10, <1>11

(* Nothing but the clients changes.                                        *)
LEMMA NothingMovedInv ==
    ASSUME ChatInv, UNCHANGED <<tcp, ready, server, peers, feedBuffer, batch, job, log, owner, aborted>>,
           ClientTypes', ClientsConnected'
    PROVE  ChatInv'
<1>. USE DEF ChatInv, Types
<1>1. KernelTypes' /\ PeerTypes' /\ ServerTypes' /\ BatchTypes' /\ JobSound' /\ PeersConnected'
  BY DEF KernelTypes, PeerTypes, ServerTypes, BatchTypes, JobSound, PeersConnected, Open
<1>2. NoLineLeftBehind'
  BY DEF NoLineLeftBehind
<1>3. Announced'
  BY DEF Announced, AcceptAnnounced, InputAnnounced, OutputAnnounced, Pending, Backlog, Open
<1> QED BY <1>1, <1>2, <1>3

(* The same for a client that has a connection and may close it.           *)
LEMMA ClientStepInv ==
    ASSUME ChatInv, NEW c \in Clients, cli[c].sock # 0, NEW t, NEW W,
           KernelStep(cli[c].sock, t, W),
           NEW r, ClientOK(r), cli' = [cli EXCEPT ![c] = r],
           r.sock \in {0, cli[c].sock}, r.sock # 0 => t.near # "closed",
           UNCHANGED <<server, peers, feedBuffer, batch, job, log, owner, aborted>>
    PROVE  ChatInv'
<1>. DEFINE n == cli[c].sock
<1>1. n \in Conns
  BY ChatAssumption DEF ChatInv, Types, ClientTypes, ClientOK, PeerTypes, Conns
<1>2. DOMAIN cli = Clients /\ \A d \in Clients : ClientOK(cli[d])
  BY DEF ChatInv, Types, ClientTypes
<1>3. cli'[c] = r /\ DOMAIN cli' = Clients /\ \A d \in Clients : d # c => cli'[d] = cli[d]
  BY <1>2
<1>4. ClientTypes'
  BY <1>2, <1>3 DEF ClientTypes, ClientOK
<1>5. \A d \in Clients : cli[d].sock # 0 => owner[cli[d].sock] = d /\ tcp[cli[d].sock].near # "closed"
  BY DEF ChatInv, ClientsConnected
<1>6. tcp'[n] = t /\ \A m \in Conns : m # n => tcp'[m] = tcp[m]
  BY <1>1 DEF ChatInv, Types, KernelTypes, KernelStep
<1>7. ASSUME NEW d \in Clients, cli'[d].sock # 0
      PROVE  owner'[cli'[d].sock] = d /\ tcp'[cli'[d].sock].near # "closed"
  <2>1. CASE d = c
    BY <2>1, <1>3, <1>5, <1>6, <1>7
  <2>2. CASE d # c
    <3>1. cli'[d].sock = cli[d].sock /\ cli[d].sock \in Conns
      BY <2>2, <1>2, <1>3, <1>7, ChatAssumption DEF ChatInv, Types, ClientOK, PeerTypes, Conns
    <3>2. cli[d].sock # n
      BY <2>2, <3>1, <1>5, <1>7
    <3> QED BY <3>1, <3>2, <1>5, <1>6, <1>7
  <2> QED BY <2>1, <2>2
<1>8. ClientsConnected'
  BY <1>7 DEF ClientsConnected
<1>. HIDE DEF n
<1>9. KernelStep(n, t, W)
  BY DEF n
<1> QED BY <1>1, <1>4, <1>8, <1>9, KernelStepInv

LEMMA ClosedEnd ==
    ASSUME NEW k, TcpOK(k), NEW t \in ClientCloses(k)
    PROVE  TcpOK(t) /\ t.down = k.down /\ t.full = k.full /\ (t.far = "closed" => k.far = "closed")
<1>1. k \in TcpRecord /\ Len(k.up) <= Cap /\ Len(k.down) <= Cap /\ k.up \in Stream
  BY DEF TcpOK, TcpRecord
<1>. DEFINE gone == [k EXCEPT !.near = "closed"]
<1>2. gone \in TcpRecord /\ gone.up = k.up /\ gone.down = k.down /\ gone.full = k.full /\ gone.far = k.far
  BY <1>1 DEF TcpRecord, Ends
<1>3. CASE t = gone
  BY <1>1, <1>2, <1>3 DEF TcpOK
<1>4. CASE t = [gone EXCEPT !.far = "fin"]
  BY <1>1, <1>4 DEF TcpOK, TcpRecord, Ends
<1>5. CASE \E j \in 0..Len(k.up) : t = [gone EXCEPT !.far = "reset", !.up = SubSeq(k.up, 1, j)]
  <2>1. PICK j \in 0..Len(k.up) : t = [gone EXCEPT !.far = "reset", !.up = SubSeq(k.up, 1, j)]
    BY <1>5
  <2>2. Len(k.up) \in Nat
    BY <1>1, LengthOfStream
  <2>3. SubSeq(k.up, 1, j) \in Stream /\ Len(SubSeq(k.up, 1, j)) <= Cap
    BY <1>1, <2>2, PartOfStream, Descriptors
  <2>4. t = [k EXCEPT !.near = "closed", !.far = "reset", !.up = SubSeq(k.up, 1, j)]
    BY <2>1
  <2> QED BY <1>1, <2>3, <2>4 DEF TcpOK, TcpRecord, Ends
<1>6. \/ t = gone \/ t = [gone EXCEPT !.far = "fin"]
      \/ \E j \in 0..Len(k.up) : t = [gone EXCEPT !.far = "reset", !.up = SubSeq(k.up, 1, j)]
  BY DEF ClientCloses
<1> QED BY <1>3, <1>4, <1>5, <1>6

(* How far a client's earlier steps may have changed its connection: they  *)
(* may have read it.                                                       *)
ReadOnly(k, t) ==
    /\ TcpOK(k) /\ k.up = t.up /\ k.far = t.far /\ k.near = t.near
    /\ \/ k.full = t.full /\ k.down = t.down
       \/ k.full = FALSE /\ k.down = <<>>

LEMMA CloseSocketInv ==
    ASSUME ChatInv, NEW c \in Clients, cli[c].sock # 0, NEW k, ReadOnly(k, tcp[cli[c].sock]),
           NEW r, ClientOK(r), CloseSocket(c, r, k),
           UNCHANGED <<server, peers, feedBuffer, batch, job, log, owner, aborted>>
    PROVE  ChatInv'
<1>. DEFINE n == cli[c].sock
<1>1. PICK t \in ClientCloses(k) : tcp' = [tcp EXCEPT ![n] = t]
  BY DEF CloseSocket
<1>2. TcpOK(t) /\ t.down = k.down /\ t.full = k.full /\ (t.far = "closed" => k.far = "closed")
  BY ClosedEnd DEF ReadOnly
<1>3. ready' = ready \cup Wake(n)
  BY DEF CloseSocket
<1>4. Open(n) => Wake(n) # {}
  BY DEF Wake
<1>5. KernelStep(n, t, Wake(n))
  BY <1>1, <1>2, <1>3, <1>4 DEF KernelStep, ReadOnly
<1>6. /\ cli' = [cli EXCEPT ![c] = [r EXCEPT !.sock = 0]]
      /\ ClientOK([r EXCEPT !.sock = 0]) /\ [r EXCEPT !.sock = 0].sock = 0
  <2>1. Len(owner) \in Nat
    BY LenProperties DEF ChatInv, Types, PeerTypes
  <2> QED BY <2>1 DEF CloseSocket, ClientOK, ClientFields
<1> QED BY <1>5, <1>6, ClientStepInv

LEMMA GoneClient ==
    ASSUME ChatInv
    PROVE  ClientOK([NewClient EXCEPT !.st = "gone"]) /\ ClientOK(NewClient)
<1>1. Len(owner) \in Nat
  BY LenProperties DEF ChatInv, Types, PeerTypes
<1> QED BY <1>1, GivenStreams DEF ClientOK, ClientFields, NewClient

(* flush_output of a client.                                               *)
LEMMA flush_outputInv ==
    ASSUME ChatInv, NEW c \in Clients, cli[c].sock # 0, NEW k, ReadOnly(k, tcp[cli[c].sock]),
           NEW r, ClientOK(r), r.sock = cli[c].sock, NEW o \in Stream, flush_output(c, r, k, o),
           UNCHANGED <<server, peers, feedBuffer, batch, job, log, owner, aborted>>
    PROVE  ChatInv'
<1>. DEFINE n == cli[c].sock
            len == Min({Len(o), Cap - Len(k.up)})
            t == [k EXCEPT !.up = @ \o SubSeq(o, 1, len)]
            W == IF len > 0 \/ k.full # tcp[n].full THEN Wake(n) ELSE {}
            s == [r EXCEPT !.out = SubSeq(o, len + 1, Len(o))]
<1>1. k \in TcpRecord /\ k.up \in Stream /\ Len(k.up) <= Cap /\ Len(k.down) <= Cap
  BY DEF ReadOnly, TcpOK, TcpRecord
<1>2. Len(o) \in Nat /\ Len(k.up) \in Nat /\ Cap - Len(k.up) \in Nat
  BY <1>1, LengthOfStream, Descriptors
<1>3. len \in Nat /\ len <= Len(o) /\ len <= Cap - Len(k.up)
  BY <1>2, MinOfTwo
<1>. HIDE DEF len
<1>4. /\ SubSeq(o, 1, len) \in Stream /\ Len(SubSeq(o, 1, len)) = len
      /\ SubSeq(o, len + 1, Len(o)) \in Stream
  BY <1>2, <1>3, PartOfStream
<1>5. /\ k.up \o SubSeq(o, 1, len) \in Stream
      /\ Len(k.up \o SubSeq(o, 1, len)) <= Cap
      /\ len = 0 => k.up \o SubSeq(o, 1, len) = k.up
  <2>1. k.up \o SubSeq(o, 1, len) \in Stream /\ Len(k.up \o SubSeq(o, 1, len)) = Len(k.up) + len
    BY <1>1, <1>4, JoinedStreams
  <2>2. len = 0 => SubSeq(o, 1, len) = <<>>
    BY <1>4, LengthOfStream
  <2>3. k.up \o <<>> = k.up
    BY <1>1, ConcatEmptySeq DEF Stream
  <2>4. Len(k.up) + len <= Cap
    BY <1>2, <1>3, Descriptors
  <2>5. len = 0 => k.up \o SubSeq(o, 1, len) = k.up
    BY <2>2, <2>3, Zenon
  <2> QED BY <2>1, <2>4, <2>5
<1>6. k.near \in {"open", "fin", "reset", "pipe"}
  <2>1. tcp[n].near # "closed"
    BY DEF ChatInv, ClientsConnected
  <2> QED BY <1>1, <2>1 DEF ReadOnly, TcpRecord, Ends
<1>7. CASE o = <<>> \/ k.near \in {"open", "fin"}
  <2>1. /\ cli' = [cli EXCEPT ![c] = s] /\ tcp' = [tcp EXCEPT ![n] = t] /\ ready' = ready \cup W
    BY <1>7 DEF flush_output, len
  <2>2. t \in TcpRecord /\ t = [k EXCEPT !.up = k.up \o SubSeq(o, 1, len)]
    BY <1>1, <1>5 DEF TcpRecord
  <2>3. /\ t.up = k.up \o SubSeq(o, 1, len) /\ t.down = k.down /\ t.full = k.full
        /\ t.far = k.far /\ t.near = k.near
    BY <1>1 DEF TcpRecord
  <2>4. TcpOK(t)
    BY <1>1, <1>5, <2>2, <2>3 DEF TcpOK
  <2>5. Open(n) => Wake(n) # {}
    BY DEF Wake
  <2>6. (W = {} /\ Open(n)) => len = 0 /\ k.full = tcp[n].full
    BY <2>5, <1>3
  <2>. HIDE DEF t, W
  <2>7. W \in {{}, Wake(n)}
    BY DEF W
  <2>8. KernelStep(n, t, W)
    BY <2>1, <2>3, <2>4, <2>6, <2>7, <1>5 DEF KernelStep, ReadOnly
  <2>9. ClientOK(s) /\ s.sock = n
    BY <1>4 DEF ClientOK, ClientFields
  <2>10. t.near # "closed"
    BY <1>6, <2>3
  <2>. HIDE DEF s
  <2> QED BY <2>1, <2>8, <2>9, <2>10, ClientStepInv
<1>8. CASE o # <<>> /\ k.near = "reset"
  <2>1. CloseSocket(c, [r EXCEPT !.out = o], k)
    BY <1>8 DEF flush_output
  <2>2. ClientOK([r EXCEPT !.out = o])
    BY DEF ClientOK, ClientFields
  <2> QED BY <2>1, <2>2, CloseSocketInv
<1>9. CASE o # <<>> /\ k.near = "pipe"
  <2>1. CloseSocket(c, [NewClient EXCEPT !.st = "gone"], k)
    BY <1>9 DEF flush_output
  <2> QED BY <2>1, GoneClient, CloseSocketInv
<1> QED BY <1>6, <1>7, <1>8, <1>9

LEMMA ConnectedClient ==
    ASSUME ChatInv, NEW c \in Clients, cli[c].sock # 0
    PROVE  /\ cli[c].sock \in Conns /\ tcp[cli[c].sock] \in TcpRecord
           /\ ReadOnly(tcp[cli[c].sock], tcp[cli[c].sock])
           /\ tcp[cli[c].sock].near \in {"open", "fin", "reset", "pipe"}
           /\ ClientOK(cli[c])
<1>1. ClientOK(cli[c])
  BY DEF ChatInv, Types, ClientTypes
<1>2. cli[c].sock \in Conns
  BY <1>1, ChatAssumption DEF ChatInv, Types, ClientOK, PeerTypes, Conns
<1>3. TcpOK(tcp[cli[c].sock]) /\ tcp[cli[c].sock] \in TcpRecord
  BY <1>2 DEF ChatInv, Types, KernelTypes
<1>4. tcp[cli[c].sock].near # "closed"
  BY DEF ChatInv, ClientsConnected
<1> QED BY <1>1, <1>2, <1>3, <1>4 DEF ReadOnly, TcpRecord, Ends

LEMMA chat_client_feedInv ==
    ASSUME ChatInv, NEW c \in Clients, NEW chunk \in Chunks, chat_client_feed(c, chunk)
    PROVE  ChatInv'
<1>. DEFINE r == cli[c]
            greeting == IF r.nameSent THEN <<>> ELSE Name[c] \o <<NewLine>>
            o == r.out \o greeting \o chunk
            s == [r EXCEPT !.nameSent = TRUE]
<1>1. cli[c].sock # 0 /\ flush_output(c, s, tcp[cli[c].sock], o)
  BY DEF chat_client_feed
<1>2. UNCHANGED <<server, peers, feedBuffer, batch, job, log, owner, aborted>>
  BY DEF chat_client_feed, serverVars
<1>3. ClientOK(r) /\ ReadOnly(tcp[cli[c].sock], tcp[cli[c].sock])
  BY <1>1, ConnectedClient
<1>4. o \in Stream
  <2>1. r.out \in Stream /\ greeting \in Stream /\ chunk \in Stream
    BY <1>3, GivenStreams DEF ClientOK
  <2>. HIDE DEF greeting, r
  <2> QED BY <2>1, JoinedStreams
<1>5. ClientOK(s) /\ s.sock = cli[c].sock
  BY <1>3 DEF ClientOK, ClientFields
<1>. HIDE DEF o, s
<1> QED BY <1>1, <1>2, <1>3, <1>4, <1>5, flush_outputInv

LEMMA ReadEnd ==
    ASSUME NEW t, TcpOK(t)
    PROVE  ReadOnly([t EXCEPT !.down = <<>>, !.full = FALSE], t)
<1>. DEFINE k == [t EXCEPT !.down = <<>>, !.full = FALSE]
<1>1. t \in TcpRecord /\ Len(t.up) <= Cap
  BY DEF TcpOK
<1>2. k \in TcpRecord
  BY <1>1, GivenStreams DEF TcpRecord
<1>3. /\ k.up = t.up /\ k.far = t.far /\ k.near = t.near /\ k.down = <<>> /\ k.full = FALSE
  BY <1>1 DEF TcpRecord
<1>4. Len(k.down) <= Cap
  BY <1>3, GivenStreams, Descriptors
<1>. HIDE DEF k
<1>5. ReadOnly(k, t)
  BY <1>1, <1>2, <1>3, <1>4 DEF ReadOnly, TcpOK
<1> QED BY <1>5 DEF k

LEMMA chat_client_updateInv ==
    ASSUME ChatInv, NEW c \in Clients, chat_client_update(c)
    PROVE  ChatInv'
<1>. DEFINE r == cli[c]
            n == cli[c].sock
            t == tcp[n]
            read == [t EXCEPT !.down = <<>>, !.full = FALSE]
<1>1. cli[c].sock # 0 /\ UNCHANGED <<server, peers, feedBuffer, batch, job, log, owner, aborted>>
  BY DEF chat_client_update, serverVars
<1>2. /\ t \in TcpRecord /\ ReadOnly(t, t) /\ ClientOK(r)
      /\ t.near \in {"open", "fin", "reset", "pipe"}
  BY <1>1, ConnectedClient
<1>3. ReadOnly(read, t)
  BY <1>2, ReadEnd DEF ReadOnly
<1>4. \A b : ClientOK([r EXCEPT !.buf = b]) /\ [r EXCEPT !.buf = b].sock = n
  BY <1>2 DEF ClientOK, ClientFields
<1>5. r.out \in Stream
  BY <1>2 DEF ClientOK
<1>6. CASE t.near \in {"reset", "pipe"}
  <2>1. CloseSocket(c, r, t)
    BY <1>6 DEF chat_client_update
  <2> QED BY <2>1, <1>1, <1>2, CloseSocketInv
<1>7. CASE t.near = "fin"
  <2>1. CloseSocket(c, [r EXCEPT !.buf = @ \o t.down], read)
    BY <1>7 DEF chat_client_update
  <2>2. ClientOK([r EXCEPT !.buf = @ \o t.down])
    BY <1>4
  <2>. HIDE DEF read
  <2> QED BY <2>1, <2>2, <1>1, <1>3, CloseSocketInv
<1>8. CASE t.near = "open"
  <2>1. CASE t.down # <<>>
    <3>1. flush_output(c, [r EXCEPT !.buf = Received(r, t).rest], read, r.out)
      BY <1>8, <2>1 DEF chat_client_update
    <3>. HIDE DEF read
    <3> QED BY <3>1, <1>1, <1>3, <1>4, <1>5, flush_outputInv
  <2>2. CASE t.down = <<>>
    <3>1. flush_output(c, r, t, r.out)
      BY <1>8, <2>2 DEF chat_client_update
    <3> QED BY <3>1, <1>1, <1>2, <1>5, flush_outputInv
  <2> QED BY <2>1, <2>2
<1> QED BY <1>2, <1>6, <1>7, <1>8

LEMMA chat_client_deleteInv ==
    ASSUME ChatInv, NEW c \in Clients, chat_client_delete(c)
    PROVE  ChatInv'
<1>. DEFINE gone == [NewClient EXCEPT !.st = "gone"]
<1>1. UNCHANGED <<server, peers, feedBuffer, batch, job, log, owner, aborted>>
  BY DEF chat_client_delete, serverVars, historyVars
<1>2. ClientOK(gone)
  BY GoneClient
<1>3. CASE cli[c].sock # 0
  <2>1. CloseSocket(c, gone, tcp[cli[c].sock])
    BY <1>3 DEF chat_client_delete
  <2> QED BY <2>1, <1>1, <1>2, <1>3, ConnectedClient, CloseSocketInv
<1>4. CASE cli[c].sock = 0
  <2>1. cli' = [cli EXCEPT ![c] = gone] /\ tcp' = tcp /\ ready' = ready
    BY <1>4 DEF chat_client_delete
  <2>2. gone.sock = 0
    BY DEF NewClient
  <2>. HIDE DEF gone
  <2>3. ClientTypes' /\ ClientsConnected'
    <3>1. DOMAIN cli = Clients /\ \A d \in Clients : ClientOK(cli[d])
      BY DEF ChatInv, Types, ClientTypes
    <3>2. cli'[c] = gone /\ DOMAIN cli' = Clients /\ \A d \in Clients : d # c => cli'[d] = cli[d]
      BY <2>1, <3>1
    <3>3. ClientTypes'
      BY <1>1, <1>2, <3>1, <3>2 DEF ClientTypes, ClientOK
    <3>4. ClientsConnected'
      BY <1>1, <2>1, <2>2, <3>2 DEF ChatInv, ClientsConnected
    <3> QED BY <3>3, <3>4
  <2> QED BY <1>1, <2>1, <2>3, NothingMovedInv
<1> QED BY <1>3, <1>4

LEMMA ResetArrivesInv ==
    ASSUME ChatInv, NEW n \in Conns, ResetArrives(n)
    PROVE  ChatInv'
<1>1. UNCHANGED <<server, peers, feedBuffer, batch, job, log, owner, aborted, cli>>
  BY DEF ResetArrives, serverVars, historyVars
<1>2. /\ tcp \in [Conns -> TcpRecord] /\ tcp[n] \in TcpRecord
      /\ Len(tcp[n].up) <= Cap /\ Len(tcp[n].down) <= Cap
  BY DEF ChatInv, Types, KernelTypes, TcpOK
<1>3. ClientTypes'
  BY <1>1 DEF ChatInv, Types, ClientTypes, ClientOK
<1>4. CASE /\ Open(n) /\ tcp' = [tcp EXCEPT ![n].far = "pipe"] /\ ready' = ready \cup {n}
  <2>. DEFINE t == [tcp[n] EXCEPT !.far = "pipe"]
  <2>1. tcp' = [tcp EXCEPT ![n] = t] /\ Wake(n) = {n}
    BY <1>4 DEF Wake
  <2>2. /\ TcpOK(t) /\ t.full = tcp[n].full /\ t.down = tcp[n].down /\ t.far = "pipe"
        /\ t.near = tcp[n].near
    BY <1>2 DEF TcpOK, TcpRecord, Ends
  <2>. HIDE DEF t
  <2>3. KernelStep(n, t, Wake(n))
    BY <1>4, <2>1, <2>2 DEF KernelStep
  <2>4. \A m \in Conns : tcp'[m].near = tcp[m].near
    BY <2>1, <2>2, <1>2
  <2>5. ClientsConnected'
    BY <1>1, <2>4, ConnectedClient DEF ChatInv, ClientsConnected
  <2> QED BY <1>1, <1>3, <2>3, <2>5, KernelStepInv
<1>5. CASE /\ ~Open(n) /\ tcp' = [tcp EXCEPT ![n].near = "pipe"] /\ ready' = ready
  <2>. DEFINE t == [tcp[n] EXCEPT !.near = "pipe"]
  <2>1. tcp' = [tcp EXCEPT ![n] = t]
    BY <1>5
  <2>2. /\ TcpOK(t) /\ t.full = tcp[n].full /\ t.down = tcp[n].down /\ t.far = tcp[n].far
        /\ t.near = "pipe"
    BY <1>2 DEF TcpOK, TcpRecord, Ends
  <2>. HIDE DEF t
  <2>3. KernelStep(n, t, {})
    BY <1>5, <2>1, <2>2 DEF KernelStep
  <2>4. \A m \in Conns : tcp'[m].near = tcp[m].near \/ tcp'[m].near = "pipe"
    BY <2>1, <2>2, <1>2
  <2>5. ClientsConnected'
    BY <1>1, <2>4, ConnectedClient DEF ChatInv, ClientsConnected
  <2> QED BY <1>1, <1>3, <2>3, <2>5, KernelStepInv
<1> QED BY <1>4, <1>5 DEF ResetArrives

LEMMA chat_client_connectInv ==
    ASSUME ChatInv, NEW c \in Clients, chat_client_connect(c)
    PROVE  ChatInv'
<1>. DEFINE n == Len(owner) + 1
<1>. USE DEF ChatInv, Types
<1>1. /\ tcp' = [tcp EXCEPT ![n] = NewTcp] /\ peers' = [peers EXCEPT ![n].st = "backlog"]
      /\ cli' = [cli EXCEPT ![c].sock = n] /\ owner' = Append(owner, c)
      /\ ready' = ready \cup {Listener} /\ Len(owner) < MaxConns
      /\ UNCHANGED <<server, feedBuffer, batch, job, log, aborted>> /\ server = "on"
  BY DEF chat_client_connect
<1>2. owner \in Seq(Clients) /\ Len(owner) \in Nat /\ n \in Conns /\ Len(owner) < MaxConns
  BY <1>1, LenProperties, ChatAssumption DEF PeerTypes, Conns
<1>3. /\ owner' \in Seq(Clients) /\ Len(owner') = n /\ owner'[n] = c
      /\ \A m \in 1..Len(owner) : owner'[m] = owner[m]
  BY <1>1, <1>2
<1>4. tcp \in [Conns -> TcpRecord] /\ peers \in [Conns -> PeerRecord] /\ peers[n].st = "none"
  BY <1>2 DEF KernelTypes, PeerTypes
<1>5. NewTcp \in TcpRecord /\ TcpOK(NewTcp) /\ NewTcp.far = "open" /\ NewTcp.near = "open"
  <2>1. NoTcp \in TcpRecord /\ NoTcp.up = <<>> /\ NoTcp.down = <<>>
    BY GivenStreams DEF NoTcp, TcpRecord, Ends
  <2>2. /\ NewTcp \in TcpRecord /\ NewTcp.far = "open" /\ NewTcp.near = "open"
        /\ NewTcp.up = <<>> /\ NewTcp.down = <<>>
    BY <2>1 DEF NewTcp, TcpRecord, Ends
  <2> QED BY <2>2, GivenStreams, Descriptors DEF TcpOK
<1>6. /\ tcp' \in [Conns -> TcpRecord] /\ tcp'[n] = NewTcp
      /\ \A m \in Conns : m # n => tcp'[m] = tcp[m] /\ peers'[m] = peers[m]
  BY <1>1, <1>2, <1>4, <1>5
<1>7. /\ peers' \in [Conns -> PeerRecord] /\ peers'[n].st = "backlog"
      /\ \A m \in Conns : peers'[m].out = peers[m].out /\ peers'[m].buf = peers[m].buf
  BY <1>1, <1>2, <1>4 DEF PeerRecord
<1>. HIDE DEF n
<1>8. \A m \in Conns : Open(m)' <=> Open(m)
  BY <1>4, <1>6, <1>7 DEF Open
<1>9. KernelTypes'
  <2>1. \A m \in Conns : TcpOK(tcp'[m])
    BY <1>5, <1>6 DEF KernelTypes
  <2> QED BY <2>1, <1>1, <1>6, <1>8 DEF KernelTypes, TcpOK
<1>10. PeerTypes'
  <2>1. Len(owner') <= MaxConns
    BY <1>1, <1>2, <1>3, ChatAssumption DEF n
  <2>2. ASSUME NEW m \in Conns, m > Len(owner') PROVE peers'[m].st = "none"
    <3>1. m # n /\ m > Len(owner)
      BY <2>2, <1>2, <1>3, Descriptors DEF n
    <3> QED BY <3>1, <1>6 DEF PeerTypes
  <2> QED BY <1>1, <1>3, <1>7, <2>1, <2>2 DEF PeerTypes
<1>11. ServerTypes' /\ BatchTypes'
  BY <1>1 DEF ServerTypes, BatchTypes
<1>12. /\ DOMAIN cli = Clients /\ DOMAIN cli' = Clients
       /\ cli'[c] = [cli[c] EXCEPT !.sock = n]
       /\ \A d \in Clients : ClientOK(cli[d]) /\ (d # c => cli'[d] = cli[d])
  BY <1>1 DEF ClientTypes
<1>13. 0..Len(owner) \subseteq 0..Len(owner') /\ n \in 0..Len(owner')
  BY <1>2, <1>3 DEF n
<1>14. /\ DOMAIN cli'[c] = ClientFields /\ cli'[c].sock = n /\ cli'[c].st = cli[c].st
       /\ cli'[c].out = cli[c].out
  BY <1>12 DEF ClientOK, ClientFields
<1>15. ClientTypes'
  BY <1>12, <1>13, <1>14 DEF ClientTypes, ClientOK
<1>16. ClientsConnected'
  <2>1. ASSUME NEW d \in Clients, d # c, cli[d].sock # 0
        PROVE  owner'[cli[d].sock] = d /\ tcp'[cli[d].sock].near # "closed"
    <3>0. cli[d].sock \in 0..Len(owner)
      BY <2>1, <1>12 DEF ClientOK
    <3>1. cli[d].sock \in 1..Len(owner) /\ cli[d].sock \in Conns
      BY <3>0, <2>1, <1>2, ChatAssumption DEF Conns
    <3>2. owner'[cli[d].sock] = owner[cli[d].sock] /\ tcp'[cli[d].sock] = tcp[cli[d].sock]
      BY <3>1, <1>2, <1>3, <1>6 DEF n
    <3> QED BY <2>1, <3>2 DEF ClientsConnected
  <2>2. owner'[n] = c /\ tcp'[n].near # "closed"
    BY <1>3, <1>5, <1>6
  <2>3. ASSUME NEW d \in Clients, cli'[d].sock # 0
        PROVE  owner'[cli'[d].sock] = d /\ tcp'[cli'[d].sock].near # "closed"
    <3>1. CASE d = c
      BY <3>1, <2>2, <1>14
    <3>2. CASE d # c
      BY <3>2, <2>1, <2>3, <1>12
    <3> QED BY <3>1, <3>2
  <2> QED BY <2>3 DEF ClientsConnected
<1>17. PeersConnected'
  BY <1>5, <1>6 DEF PeersConnected
<1>18. JobSound'
  <2>1. (job.op = "update" /\ job.at \in {"recv", "lines", "send", "flush"}) =>
            job.cur \in Conns /\ job.cur # n
    BY <1>4 DEF JobSound
  <2>2. \A m \in Conns : m # n => peers'[m] = peers[m]
    BY <1>6
  <2> QED BY <1>1, <2>1, <2>2 DEF JobSound
<1>19. NoLineLeftBehind'
  BY <1>1, <1>7 DEF NoLineLeftBehind
<1>20. Announced'
  <2>1. AcceptAnnounced'
    BY <1>1 DEF AcceptAnnounced, Pending
  <2>2. \A f, events : Pending(f, events) => Pending(f, events)'
    BY <1>1 DEF Pending
  <2>3. ASSUME NEW m \in Conns, Open(m), InputAnnounced(m), OutputAnnounced(m)
        PROVE  InputAnnounced(m)' /\ OutputAnnounced(m)'
    <3>1. m # n
      BY <2>3, <1>4 DEF Open
    <3>2. tcp'[m] = tcp[m] /\ peers'[m] = peers[m]
      BY <3>1, <1>6
    <3> QED BY <2>2, <2>3, <3>2, <1>1 DEF InputAnnounced, OutputAnnounced
  <2> QED BY <1>1, <1>8, <2>1, <2>3 DEF Announced
<1> QED BY <1>9, <1>10, <1>11, <1>15, <1>16, <1>17, <1>18, <1>19, <1>20

-----------------------------------------------------------------------------
(* The server.                                                             *)

(* A step of the server leaves the clients alone, and closes none of their *)
(* ends.                                                                   *)
LEMMA ClientsApart ==
    ASSUME ChatInv, UNCHANGED <<cli, owner>>,
           \A m \in Conns : tcp'[m].near = "closed" => tcp[m].near = "closed"
    PROVE  ClientTypes' /\ ClientsConnected'
<1>1. ClientTypes'
  BY DEF ChatInv, Types, ClientTypes, ClientOK
<1>2. ClientsConnected'
  BY ConnectedClient DEF ChatInv, ClientsConnected
<1> QED BY <1>1, <1>2

LEMMA ServerClosesFacts ==
    ASSUME NEW t, TcpOK(t)
    PROVE  /\ TcpOK(ServerCloses(t)) /\ ServerCloses(t).far = t.far
           /\ ServerCloses(t).near = "closed" => t.near = "closed"
<1>1. t \in TcpRecord
  BY DEF TcpOK
<1> QED BY <1>1 DEF TcpOK, TcpRecord, Ends, ServerCloses

LEMMA StopInv ==
    ASSUME ChatInv, NEW how \in {"deleted", "killed"}, Stop(how), UNCHANGED <<cli, log, owner>>
    PROVE  ChatInv'
<1>. USE DEF ChatInv, Types
<1>1. /\ server' = how /\ ready' = {} /\ feedBuffer' = <<>> /\ job' = Idle
      /\ batch' = NoEvents /\ aborted' = aborted
  BY DEF Stop
<1>2. \A n \in Conns : TcpOK(tcp[n])
  BY DEF KernelTypes
<1>. DEFINE T(n) == CASE peers[n].st = "open" -> ServerCloses(tcp[n])
                      [] peers[n].st = "backlog" /\ tcp[n].near = "open" ->
                           [tcp[n] EXCEPT !.near = "reset"]
                      [] OTHER -> tcp[n]
<1>3. tcp' = [n \in Conns |-> T(n)]
  BY DEF Stop
<1>4. ASSUME NEW n \in Conns
      PROVE  TcpOK(T(n)) /\ T(n).far = tcp[n].far /\ (T(n).near = "closed" => tcp[n].near = "closed")
  <2>1. TcpOK(tcp[n]) /\ tcp[n] \in TcpRecord
    BY <1>2 DEF TcpOK
  <2>2. CASE peers[n].st = "open"
    BY <2>1, <2>2, ServerClosesFacts
  <2>3. CASE peers[n].st = "backlog" /\ tcp[n].near = "open"
    <3>1. T(n) = [tcp[n] EXCEPT !.near = "reset"]
      BY <2>3
    <3> QED BY <2>1, <3>1 DEF TcpOK, TcpRecord, Ends
  <2>4. CASE peers[n].st # "open" /\ ~(peers[n].st = "backlog" /\ tcp[n].near = "open")
    <3>1. T(n) = tcp[n]
      BY <2>4
    <3> QED BY <2>1, <3>1
  <2> QED BY <2>2, <2>3, <2>4
<1>. HIDE DEF T
<1>5. /\ tcp' \in [Conns -> TcpRecord]
      /\ \A n \in Conns : /\ TcpOK(tcp'[n]) /\ tcp'[n].far = tcp[n].far
                          /\ tcp'[n].near = "closed" => tcp[n].near = "closed"
  BY <1>3, <1>4 DEF TcpOK
<1>6. KernelTypes'
  BY <1>1, <1>5 DEF KernelTypes, TcpOK
<1>7. peers' = [n \in Conns |-> IF peers[n].st = "none" THEN NoPeer ELSE [NoPeer EXCEPT !.st = "closed"]]
  BY DEF Stop
<1>8. /\ NoPeer \in PeerRecord /\ [NoPeer EXCEPT !.st = "closed"] \in PeerRecord
      /\ NoPeer.buf = <<>> /\ [NoPeer EXCEPT !.st = "closed"].buf = <<>>
      /\ NoPeer.out = <<>> /\ [NoPeer EXCEPT !.st = "closed"].out = <<>>
      /\ NoPeer.st = "none" /\ [NoPeer EXCEPT !.st = "closed"].st = "closed"
  BY GivenStreams DEF NoPeer, PeerRecord
<1>9. /\ peers' \in [Conns -> PeerRecord]
      /\ \A n \in Conns : /\ peers'[n].buf = <<>> /\ peers'[n].out = <<>>
                          /\ peers'[n].st = "none" <=> peers[n].st = "none"
  BY <1>7, <1>8
<1>10. PeerTypes'
  BY <1>1, <1>9 DEF PeerTypes
<1>11. ServerTypes'
  BY <1>1, IdleFacts, GivenStreams DEF ServerTypes
<1>12. BatchTypes'
  BY <1>1, IdleFacts, FS_EmptySet, ChatAssumption DEF BatchTypes
<1>13. ClientTypes' /\ ClientsConnected'
  BY <1>5, ClientsApart
<1>14. PeersConnected'
  BY <1>5, <1>9 DEF PeersConnected
<1>15. JobSound'
  BY <1>1, IdleFacts DEF JobSound
<1>16. NoLineLeftBehind'
  BY <1>9, NoLineInNothing DEF NoLineLeftBehind
<1>17. Announced'
  BY <1>1 DEF Announced
<1> QED BY <1>6, <1>10, <1>11, <1>12, <1>13, <1>14, <1>15, <1>16, <1>17

LEMMA chat_server_deleteInv ==
    ASSUME ChatInv, chat_server_delete
    PROVE  ChatInv'
BY StopInv DEF chat_server_delete

(* A step of the server that touches no socket.                            *)
LEMMA QuietInv ==
    ASSUME ChatInv, UNCHANGED <<tcp, server, peers, cli, owner>>, ready' \subseteq ready,
           ServerTypes', BatchTypes', JobSound', NoLineLeftBehind', Announced'
    PROVE  ChatInv'
<1>1. KernelTypes'
  BY DEF ChatInv, Types, KernelTypes, Open
<1>2. PeerTypes' /\ PeersConnected'
  BY DEF ChatInv, Types, PeerTypes, PeersConnected
<1>3. ClientTypes' /\ ClientsConnected'
  BY ClientsApart
<1> QED BY <1>1, <1>2, <1>3 DEF ChatInv, Types

LEMMA NoBatch ==
    ASSUME batch' = NoEvents
    PROVE  BatchTypes'
BY IdleFacts, FS_EmptySet, ChatAssumption DEF BatchTypes

LEMMA ListenInv ==
    ASSUME ChatInv, Listen
    PROVE  ChatInv'
<1>. USE DEF ChatInv, Types
<1>1. server = "new" /\ server' = "on" /\ UNCHANGED <<tcp, ready, peers, feedBuffer, batch, job, cli>>
      /\ UNCHANGED <<log, owner, aborted>>
  BY DEF Listen, historyVars
<1>2. \A n \in Conns : peers[n].st = "none"
  <2>1. Len(owner) = 0
    BY <1>1 DEF PeerTypes
  <2>2. \A n \in Conns : n > 0
    BY ChatAssumption DEF Conns
  <2> QED BY <2>1, <2>2 DEF PeerTypes
<1>3. KernelTypes' /\ PeerTypes' /\ ServerTypes' /\ BatchTypes' /\ JobSound' /\ PeersConnected'
  BY <1>1 DEF KernelTypes, PeerTypes, ServerTypes, BatchTypes, JobSound, PeersConnected, Open
<1>4. ClientTypes' /\ ClientsConnected'
  BY <1>1, ClientsApart
<1>5. NoLineLeftBehind'
  BY <1>1 DEF NoLineLeftBehind
<1>6. Announced'
  BY <1>1, <1>2 DEF Announced, AcceptAnnounced, Backlog, Open
<1> QED BY <1>3, <1>4, <1>5, <1>6

(* Between two calls there is no batch and no current peer, so everything  *)
(* is announced by the ready list.                                         *)
LEMMA IdleReady ==
    ASSUME ChatInv, job = Idle, server = "on", ~aborted
    PROVE  /\ Backlog # {} => Listener \in ready
           /\ \A n \in Conns : Open(n) =>
                /\ (tcp[n].up # <<>> \/ tcp[n].far # "open") => n \in ready
                /\ peers[n].out # <<>> => \/ tcp[n].full /\ Len(tcp[n].down) = Cap
                                          \/ Len(tcp[n].down) < Cap /\ n \in ready
<1>1. job.at = "none" /\ job.cur \notin Conns /\ DOMAIN batch = {}
  BY IdleFacts, Descriptors DEF ChatInv, JobSound
<1> QED BY <1>1 DEF ChatInv, Announced, AcceptAnnounced, InputAnnounced, OutputAnnounced, Pending

LEMMA chat_server_feedInv ==
    ASSUME ChatInv, NEW chunk \in Chunks, chat_server_feed(chunk)
    PROVE  ChatInv'
<1>1. /\ server = "on" /\ job = Idle
      /\ UNCHANGED <<tcp, ready, server, peers, feedBuffer, batch, cli, log, owner, aborted>>
  BY DEF chat_server_feed, historyVars
<1>2. /\ job' \in JobRecord /\ job'.op = "feed" /\ job'.at = "accept" /\ job'.cur = Listener
      /\ job'.mask = {}
  <2>1. job' = [Idle EXCEPT !.op = "feed", !.at = "accept", !.text = chunk] /\ chunk \in Stream
    BY GivenStreams DEF chat_server_feed
  <2> QED BY <2>1, IdleFacts DEF JobRecord
<1>3. DOMAIN batch' = {}
  BY <1>1, IdleFacts DEF ChatInv, JobSound
<1>4. ServerTypes' /\ BatchTypes'
  BY <1>1, <1>2 DEF ChatInv, Types, ServerTypes, BatchTypes
<1>5. JobSound'
  BY <1>2, <1>3 DEF JobSound
<1>6. NoLineLeftBehind'
  BY <1>1, IdleFacts DEF ChatInv, NoLineLeftBehind
<1>7. Announced'
  <2>1. SUFFICES ASSUME server = "on", ~aborted
                 PROVE  /\ AcceptAnnounced'
                        /\ \A n \in Conns : Open(n)' => InputAnnounced(n)' /\ OutputAnnounced(n)'
    BY <1>1 DEF Announced
  <2> QED BY <2>1, <1>1, <1>2, IdleReady
          DEF AcceptAnnounced, InputAnnounced, OutputAnnounced, Pending, Open
<1> QED BY <1>1, <1>4, <1>5, <1>6, <1>7, QuietInv

(* What epoll_wait reports covers what is left undone.                     *)
LEMMA MaskFacts ==
    ASSUME ChatInv
    PROVE  /\ \A f : Mask(f) \subseteq Bits
           /\ Backlog # {} => "IN" \in Mask(Listener)
           /\ \A n \in Conns : /\ (tcp[n].up # <<>> \/ tcp[n].far # "open") => "IN" \in Mask(n)
                               /\ Len(tcp[n].down) < Cap => "OUT" \in Mask(n)
BY Descriptors DEF Mask, Bits

LEMMA chat_server_updateInv ==
    ASSUME ChatInv, chat_server_update
    PROVE  ChatInv'
<1>. DEFINE live == {f \in ready : Mask(f) # {}}
            k == Min({MaxEvents, Cardinality(live)})
<1>1. server = "on" /\ job = Idle /\ UNCHANGED <<tcp, server, peers, feedBuffer, cli, log, owner>>
  BY DEF chat_server_update
<1>2. /\ \A f : Mask(f) \subseteq Bits
      /\ Backlog # {} => "IN" \in Mask(Listener)
      /\ \A n \in Conns : /\ (tcp[n].up # <<>> \/ tcp[n].far # "open") => "IN" \in Mask(n)
                          /\ Len(tcp[n].down) < Cap => "OUT" \in Mask(n)
  BY MaskFacts
<1>3. \A n \in Conns : ~HasLine(peers[n].buf) \/ aborted
  BY <1>1, IdleFacts DEF ChatInv, NoLineLeftBehind
<1>4. CASE live = {}
  <2>1. ready' = {} /\ job' = Idle /\ batch' = NoEvents /\ aborted' = aborted
    BY <1>4 DEF chat_server_update, Return, ChatInv, Types, ServerTypes
  <2>2. ServerTypes' /\ BatchTypes'
    BY <1>1, <2>1, NoBatch, IdleFacts DEF ChatInv, Types, ServerTypes
  <2>3. JobSound'
    BY <2>1, IdleFacts DEF JobSound
  <2>4. NoLineLeftBehind'
    BY <1>1, <1>3, <2>1 DEF NoLineLeftBehind
  <2>5. Announced'
    <3>1. SUFFICES ASSUME server = "on", ~aborted
                   PROVE  /\ AcceptAnnounced'
                          /\ \A n \in Conns : Open(n)' => InputAnnounced(n)' /\ OutputAnnounced(n)'
      BY <1>1, <2>1 DEF Announced
    <3>2. \A f \in ready : Mask(f) = {}
      BY <1>4
    <3>3. Backlog = {}
      BY <3>1, <3>2, <1>1, <1>2, IdleReady
    <3>4. ASSUME NEW n \in Conns, Open(n)
          PROVE  /\ tcp[n].up = <<>> /\ tcp[n].far = "open"
                 /\ peers[n].out # <<>> => tcp[n].full /\ Len(tcp[n].down) = Cap
      BY <3>1, <3>2, <3>4, <1>1, <1>2, IdleReady
    <3> QED BY <3>3, <3>4, <1>1 DEF AcceptAnnounced, InputAnnounced, OutputAnnounced, Backlog, Open
  <2> QED BY <1>1, <2>1, <2>2, <2>3, <2>4, <2>5, QuietInv
<1>5. CASE live # {}
  <2>1. PICK evs \in kSubset(k, live) :
               /\ ready' = live \ evs
               /\ batch' = [f \in evs |-> Mask(f)]
               /\ job' = [Idle EXCEPT !.op = "update", !.at = "next"]
               /\ aborted' = aborted
    BY <1>5 DEF chat_server_update
  <2>2. evs \subseteq live /\ evs \subseteq ready /\ Cardinality(evs) = k
    BY DEF kSubset
  <2>3. /\ job' \in JobRecord /\ job'.op = "update" /\ job'.at = "next" /\ job'.cur = Listener
        /\ job'.mask = {}
    BY <2>1, IdleFacts DEF JobRecord
  <2>4. DOMAIN batch' = evs /\ \A f \in evs : batch'[f] = Mask(f)
    BY <2>1
  <2>5. BatchTypes'
    <3>1. ready \subseteq Conns \cup {Listener}
      BY DEF ChatInv, Types, KernelTypes
    <3>3. IsFiniteSet(live)
      BY <3>1, DescriptorsFinite, FS_Subset
    <3>4. Cardinality(live) \in Nat
      BY <3>3, FS_CardinalityType
    <3>5. k <= MaxEvents
      <4>. HIDE DEF live
      <4>1. MaxEvents \in Nat
        BY ChatAssumption
      <4>2. k = IF MaxEvents <= Cardinality(live) THEN MaxEvents ELSE Cardinality(live)
        BY <3>4, <4>1, MinOfTwo
      <4>. HIDE DEF k
      <4> QED BY <3>4, <4>1, <4>2
    <3> QED BY <1>2, <2>2, <2>4, <3>1, <3>5 DEF BatchTypes
  <2>6. ServerTypes'
    BY <1>1, <2>1, <2>3 DEF ChatInv, Types, ServerTypes
  <2>7. JobSound'
    BY <2>3 DEF JobSound
  <2>8. NoLineLeftBehind'
    BY <1>1, <1>3, <2>1 DEF NoLineLeftBehind
  <2>9. Announced'
    <3>1. SUFFICES ASSUME server = "on", ~aborted
                   PROVE  /\ AcceptAnnounced'
                          /\ \A n \in Conns : Open(n)' => InputAnnounced(n)' /\ OutputAnnounced(n)'
      BY <1>1, <2>1 DEF Announced
    <3>2. ASSUME NEW f \in ready, NEW events, NEW e \in events, e \in Mask(f)
          PROVE  Pending(f, events)'
      <4>1. f \in live
        BY <3>2
      <4>. HIDE DEF live
      <4>2. CASE f \in evs
        BY <4>2, <3>2, <2>4 DEF Pending
      <4>3. CASE f \notin evs
        BY <4>1, <4>3, <2>1 DEF Pending
      <4> QED BY <4>2, <4>3
    <3>. HIDE DEF live, k
    <3>3. AcceptAnnounced'
      <4>1. Backlog' = Backlog
        BY <1>1 DEF Backlog
      <4>2. Backlog # {} => Pending(Listener, {"IN"})'
        BY <3>1, <3>2, <1>1, <1>2, IdleReady
      <4> QED BY <4>1, <4>2 DEF AcceptAnnounced
    <3>4. ASSUME NEW n \in Conns, Open(n) PROVE InputAnnounced(n)' /\ OutputAnnounced(n)'
      <4>1. (tcp[n].up # <<>> \/ tcp[n].far # "open") => Pending(n, {"IN", "HUP"})'
        BY <3>1, <3>2, <3>4, <1>1, <1>2, IdleReady
      <4>2. peers[n].out # <<>> => \/ tcp[n].full /\ Len(tcp[n].down) = Cap
                                   \/ Len(tcp[n].down) < Cap /\ Pending(n, {"OUT"})'
        BY <3>1, <3>2, <3>4, <1>1, <1>2, IdleReady
      <4> QED BY <4>1, <4>2, <1>1 DEF InputAnnounced, OutputAnnounced
    <3> QED BY <3>3, <3>4, <1>1 DEF Open
  <2> QED BY <1>1, <2>1, <2>2, <2>5, <2>6, <2>7, <2>8, <2>9, QuietInv
<1> QED BY <1>4, <1>5

-----------------------------------------------------------------------------
(* Steps of the server on one peer.                                        *)
SocketInv == KernelTypes /\ PeerTypes /\ ClientTypes /\ ClientsConnected /\ PeersConnected

(* The peer n becomes q, its connection t.                                 *)
PeerStep(n, q, t) ==
    /\ peers' = [peers EXCEPT ![n] = q] /\ tcp' = [tcp EXCEPT ![n] = t]
    /\ q \in PeerRecord /\ q.st \in {"open", "closed"} /\ TcpOK(t)
    /\ t.far # "closed" /\ (t.near = "closed" => tcp[n].near = "closed")
    /\ ready' \ {n} = ready \ {n} /\ (n \in ready' => q.st = "open")

LEMMA PeerStepFacts ==
    ASSUME ChatInv, NEW n \in Conns, NEW q, NEW t, peers[n].st # "none", PeerStep(n, q, t),
           UNCHANGED <<server, cli, owner>>
    PROVE  /\ SocketInv' /\ peers'[n] = q /\ tcp'[n] = t
           /\ \A m \in Conns : m # n => peers'[m] = peers[m] /\ tcp'[m] = tcp[m]
           /\ \A f : f # n => (f \in ready' <=> f \in ready)
           /\ Backlog' = Backlog \ {n} /\ \A m \in Conns : peers'[m].st = "none" <=> peers[m].st = "none"
<1>. USE DEF ChatInv, Types
<1>1. /\ peers \in [Conns -> PeerRecord] /\ tcp \in [Conns -> TcpRecord]
      /\ q \in PeerRecord /\ t \in TcpRecord
  BY DEF PeerTypes, KernelTypes, PeerStep, TcpOK
<1>2. /\ peers' \in [Conns -> PeerRecord] /\ tcp' \in [Conns -> TcpRecord]
      /\ peers'[n] = q /\ tcp'[n] = t
      /\ \A m \in Conns : m # n => peers'[m] = peers[m] /\ tcp'[m] = tcp[m]
  BY <1>1 DEF PeerStep
<1>3. q.st \in {"open", "closed"} /\ (n \in ready' => q.st = "open") /\ ready' \ {n} = ready \ {n}
  BY DEF PeerStep
<1>4. \A f : f # n => (f \in ready' <=> f \in ready)
  BY <1>3
<1>5. Backlog' = Backlog \ {n}
  BY <1>2, <1>3 DEF Backlog
<1>6. KernelTypes'
  <2>1. \A m \in Conns : TcpOK(tcp'[m])
    BY <1>2 DEF PeerStep, KernelTypes
  <2>2. ASSUME NEW f \in ready' PROVE f \in {Listener} \cup {m \in Conns : Open(m)'}
    <3>1. CASE f = n
      BY <3>1, <2>2, <1>2, <1>3 DEF Open
    <3>2. CASE f # n
      <4>1. f \in {Listener} \cup {m \in Conns : Open(m)}
        BY <3>2, <2>2, <1>4 DEF KernelTypes
      <4> QED BY <4>1, <3>2, <1>2 DEF Open
    <3> QED BY <3>1, <3>2
  <2> QED BY <2>1, <2>2, <1>2 DEF KernelTypes, TcpOK
<1>7. \A m \in Conns : peers'[m].st = "none" <=> peers[m].st = "none"
  BY <1>2, <1>3
<1>8. PeerTypes'
  <2>1. \A m \in Conns : peers'[m].st \in {"none", "backlog"} => peers'[m].out = <<>>
    BY <1>2, <1>3 DEF PeerTypes
  <2> QED BY <2>1, <1>2, <1>7 DEF PeerTypes
<1>9. \A m \in Conns : tcp'[m].near = "closed" => tcp[m].near = "closed"
  BY <1>2 DEF PeerStep
<1>10. ClientTypes' /\ ClientsConnected'
  BY <1>9, ClientsApart
<1>11. PeersConnected'
  BY <1>2, <1>7 DEF PeersConnected, PeerStep
<1> QED BY <1>2, <1>4, <1>5, <1>6, <1>7, <1>8, <1>10, <1>11 DEF SocketInv

LEMMA close_peerStep ==
    ASSUME ChatInv, NEW n \in Conns, peers[n].st # "none", close_peer(n)
    PROVE  /\ PeerStep(n, [peers[n] EXCEPT !.st = "closed"], ServerCloses(tcp[n]))
           /\ [peers[n] EXCEPT !.st = "closed"].st = "closed"
           /\ [peers[n] EXCEPT !.st = "closed"].buf = peers[n].buf
<1>. DEFINE q == [peers[n] EXCEPT !.st = "closed"]
<1>1. peers \in [Conns -> PeerRecord] /\ peers[n] \in PeerRecord /\ TcpOK(tcp[n])
  BY DEF ChatInv, Types, PeerTypes, KernelTypes
<1>2. q \in PeerRecord /\ q.st = "closed" /\ q.buf = peers[n].buf
  BY <1>1 DEF PeerRecord
<1>3. /\ peers' = [peers EXCEPT ![n] = q] /\ ready' = ready \ {n}
      /\ tcp' = [tcp EXCEPT ![n] = ServerCloses(tcp[n])]
  BY DEF close_peer
<1>4. tcp[n].far # "closed"
  BY DEF ChatInv, PeersConnected
<1>. HIDE DEF q
<1>5. PeerStep(n, q, ServerCloses(tcp[n]))
  BY <1>1, <1>2, <1>3, <1>4, ServerClosesFacts DEF PeerStep
<1> QED BY <1>2, <1>5 DEF q

LEMMA EndOfBatchInv ==
    ASSUME ChatInv, EndOfBatch
    PROVE  ChatInv'
<1>1. /\ job.at = "next" /\ batch = NoEvents /\ job' = Idle /\ batch' = NoEvents /\ aborted' = aborted
      /\ UNCHANGED <<tcp, ready, server, peers, feedBuffer, cli, log, owner>>
  BY DEF EndOfBatch, Return, ChatInv, Types, ServerTypes
<1>2. DOMAIN batch = {}
  BY <1>1, IdleFacts
<1>3. ServerTypes' /\ BatchTypes'
  BY <1>1, NoBatch, IdleFacts DEF ChatInv, Types, ServerTypes
<1>4. JobSound'
  BY <1>1, IdleFacts DEF JobSound
<1>5. NoLineLeftBehind'
  BY <1>1 DEF ChatInv, NoLineLeftBehind
<1>6. Announced'
  BY <1>1, <1>2 DEF ChatInv, Announced, AcceptAnnounced, InputAnnounced, OutputAnnounced,
                    Pending, Backlog, Open
<1> QED BY <1>1, <1>3, <1>4, <1>5, <1>6, QuietInv

LEMMA NextEventInv ==
    ASSUME ChatInv, NEW f \in Conns \cup {Listener}, NextEvent(f)
    PROVE  ChatInv'
<1>. DEFINE go(at) == job' = [job EXCEPT !.at = at, !.cur = f, !.mask = batch[f]]
<1>1. /\ job.at = "next" /\ f \in DOMAIN batch
      /\ batch' = [g \in DOMAIN batch \ {f} |-> batch[g]]
      /\ UNCHANGED <<server, feedBuffer, cli, log, owner, aborted>>
  BY DEF NextEvent, historyVars
<1>2. job.op = "update" /\ job \in JobRecord /\ batch[f] \subseteq Bits
  BY <1>1 DEF ChatInv, Types, ServerTypes, BatchTypes, JobSound
<1>3. \A at \in {"next", "accept", "recv", "flush"} :
        go(at) => /\ job' \in JobRecord /\ job'.op = "update" /\ job'.at = at
                  /\ job'.cur = f /\ job'.mask = batch[f]
  <2>1. SUFFICES ASSUME NEW at \in {"next", "accept", "recv", "flush"}, go(at)
                 PROVE  /\ job' \in JobRecord /\ job'.op = "update" /\ job'.at = at
                        /\ job'.cur = f /\ job'.mask = batch[f]
    OBVIOUS
  <2>2. PICK mask : mask = batch[f]
    OBVIOUS
  <2>3. mask \in SUBSET Bits /\ job' = [job EXCEPT !.at = at, !.cur = f, !.mask = mask]
    BY <1>2, <2>1, <2>2
  <2>4. /\ job' \in JobRecord /\ job'.op = job.op /\ job'.at = at
        /\ job'.cur = f /\ job'.mask = mask
    BY <1>2, <2>3 DEF JobRecord
  <2> QED BY <1>2, <2>2, <2>4
<1>. HIDE DEF go
<1>4. /\ BatchTypes'
      /\ \A g : g # f => (g \in DOMAIN batch' <=> g \in DOMAIN batch)
      /\ \A g \in DOMAIN batch' : batch'[g] = batch[g]
  <2>1. DOMAIN batch' = DOMAIN batch \ {f} /\ \A g \in DOMAIN batch' : batch'[g] = batch[g]
    BY <1>1
  <2>2. DOMAIN batch \subseteq Conns \cup {Listener} /\ Cardinality(DOMAIN batch) <= MaxEvents
    BY DEF ChatInv, Types, BatchTypes
  <2>3. IsFiniteSet(DOMAIN batch)
    BY <2>2, DescriptorsFinite, FS_Subset
  <2>4. Cardinality(DOMAIN batch') <= MaxEvents
    <3>1. Cardinality(DOMAIN batch') <= Cardinality(DOMAIN batch)
      BY <2>1, <2>3, FS_Subset
    <3>2. Cardinality(DOMAIN batch) \in Nat /\ Cardinality(DOMAIN batch') \in Nat
      BY <2>1, <2>3, FS_Subset, FS_CardinalityType
    <3> QED BY <3>1, <3>2, <2>2, ChatAssumption
  <2> QED BY <2>1, <2>2, <2>4 DEF ChatInv, Types, BatchTypes
<1>5. \A n \in Conns : ~HasLine(peers[n].buf) \/ aborted
  BY <1>1 DEF ChatInv, NoLineLeftBehind
<1>6. ASSUME server = "on", ~aborted
      PROVE  /\ Backlog # {} => Pending(Listener, {"IN"})
             /\ \A n \in Conns : Open(n) =>
                  /\ (tcp[n].up # <<>> \/ tcp[n].far # "open") => Pending(n, {"IN", "HUP"})
                  /\ peers[n].out # <<>> => \/ tcp[n].full /\ Len(tcp[n].down) = Cap
                                            \/ Len(tcp[n].down) < Cap /\ Pending(n, {"OUT"})
  BY <1>1, <1>6 DEF ChatInv, Announced, AcceptAnnounced, InputAnnounced, OutputAnnounced
<1>7. CASE UNCHANGED <<tcp, ready, peers>>
  <2>1. \A g, events : (g # f /\ Pending(g, events)) => Pending(g, events)'
    BY <1>4, <1>7 DEF Pending
  <2>2. NoLineLeftBehind'
    BY <1>1, <1>5, <1>7 DEF NoLineLeftBehind
  <2>3. Backlog' = Backlog /\ \A n \in Conns : Open(n)' = Open(n)
    BY <1>7 DEF Backlog, Open
  <2>4. ASSUME server = "on", ~aborted, f # Listener PROVE AcceptAnnounced'
    BY <2>1, <2>3, <2>4, <1>6 DEF AcceptAnnounced
  <2>5. ASSUME server = "on", ~aborted, NEW n \in Conns, Open(n), n # f
        PROVE  InputAnnounced(n)' /\ OutputAnnounced(n)'
    BY <2>1, <2>5, <1>6, <1>7 DEF InputAnnounced, OutputAnnounced
  <2>6. CASE f = Listener
    <3>1. go("accept")
      BY <2>6 DEF NextEvent, go
    <3>2. ServerTypes' /\ JobSound'
      BY <1>1, <1>3, <2>6, <3>1 DEF ChatInv, Types, ServerTypes, JobSound
    <3>3. AcceptAnnounced'
      BY <1>3, <3>1 DEF AcceptAnnounced
    <3>4. Announced'
      BY <1>1, <2>3, <2>5, <2>6, <3>3, Descriptors DEF Announced
    <3> QED BY <1>1, <1>4, <1>7, <2>2, <3>2, <3>4, QuietInv
  <2>7. CASE f # Listener /\ ~Open(f)
    <3>1. job' = job
      BY <2>7 DEF NextEvent
    <3>2. ServerTypes' /\ JobSound'
      BY <1>1, <1>2, <3>1 DEF ChatInv, Types, ServerTypes, JobSound
    <3>3. Announced'
      BY <1>1, <2>3, <2>4, <2>5, <2>7 DEF Announced
    <3> QED BY <1>1, <1>4, <1>7, <2>2, <3>2, <3>3, QuietInv
  <2>8. CASE f # Listener /\ Open(f) /\ "HUP" \notin batch[f]
    <3>. DEFINE at == IF "IN" \in batch[f] THEN "recv" ELSE "flush"
    <3>1. go(at)
      BY <2>8 DEF NextEvent, go
    <3>2. /\ job' \in JobRecord /\ job'.op = "update" /\ job'.at = at
          /\ job'.cur = f /\ job'.mask = batch[f]
      BY <3>1, <1>3
    <3>3. f \in Conns /\ peers'[f].st = "open"
      BY <2>8, <1>7 DEF Open
    <3>4. ServerTypes' /\ JobSound'
      BY <1>1, <3>2, <3>3 DEF ChatInv, Types, ServerTypes, JobSound
    <3>5. ASSUME server = "on", ~aborted PROVE InputAnnounced(f)' /\ OutputAnnounced(f)'
      <4>1. "IN" \notin batch[f] => (Pending(f, {"IN", "HUP"}) => f \in ready)
        BY <2>8 DEF Pending
      <4>2. "OUT" \notin batch[f] => (Pending(f, {"OUT"}) => f \in ready)
        BY DEF Pending
      <4>3. f \in ready => \A events : Pending(f, events)'
        BY <1>7 DEF Pending
      <4>4. InputAnnounced(f)'
        BY <4>1, <4>3, <3>2, <3>3, <3>5, <2>8, <1>6, <1>7 DEF InputAnnounced
      <4>5. OutputAnnounced(f)'
        BY <4>2, <4>3, <3>2, <3>3, <3>5, <2>8, <1>6, <1>7 DEF OutputAnnounced
      <4> QED BY <4>4, <4>5
    <3>6. Announced'
      BY <1>1, <2>3, <2>4, <2>5, <2>8, <3>5 DEF Announced
    <3> QED BY <1>1, <1>4, <1>7, <2>2, <3>4, <3>6, QuietInv
  <2>9. CASE f # Listener /\ Open(f) /\ "HUP" \in batch[f]
    <3>1. close_peer(f) /\ f \in Conns
      BY <2>9 DEF NextEvent
    <3>2. peers'[f].st = "closed" /\ peers[f].st = "open"
      BY <3>1, <2>9 DEF close_peer, ChatInv, Types, PeerTypes, PeerRecord, Open
    <3> QED BY <3>2, <1>7
  <2> QED BY <2>6, <2>7, <2>8, <2>9
<1>8. CASE f # Listener /\ Open(f) /\ "HUP" \in batch[f]
  <2>1. go("next") /\ close_peer(f) /\ f \in Conns
    BY <1>8 DEF NextEvent, go
  <2>. DEFINE q == [peers[f] EXCEPT !.st = "closed"]
              t == ServerCloses(tcp[f])
  <2>2. peers[f].st # "none"
    BY <1>8 DEF Open
  <2>3. PeerStep(f, q, t) /\ q.st = "closed" /\ q.buf = peers[f].buf
    BY <2>1, <2>2, close_peerStep
  <2>. HIDE DEF q, t
  <2>4. /\ SocketInv' /\ peers'[f] = q /\ tcp'[f] = t
        /\ \A m \in Conns : m # f => peers'[m] = peers[m] /\ tcp'[m] = tcp[m]
        /\ \A g : g # f => (g \in ready' <=> g \in ready)
        /\ Backlog' = Backlog \ {f}
    BY <1>1, <2>1, <2>2, <2>3, PeerStepFacts
  <2>5. ServerTypes' /\ JobSound'
    BY <1>1, <1>3, <2>1 DEF ChatInv, Types, ServerTypes, JobSound
  <2>6. NoLineLeftBehind'
    BY <1>1, <1>5, <2>3, <2>4 DEF NoLineLeftBehind
  <2>7. \A g, events : (g # f /\ Pending(g, events)) => Pending(g, events)'
    BY <1>4, <2>4 DEF Pending
  <2>8. ASSUME server = "on", ~aborted, NEW n \in Conns, Open(n)'
        PROVE  InputAnnounced(n)' /\ OutputAnnounced(n)'
    <3>1. n # f /\ Open(n) /\ peers'[n] = peers[n] /\ tcp'[n] = tcp[n]
      BY <2>3, <2>4, <2>8 DEF Open
    <3> QED BY <2>7, <2>8, <3>1, <1>6 DEF InputAnnounced, OutputAnnounced
  <2>9. ASSUME server = "on", ~aborted PROVE AcceptAnnounced'
    BY <2>4, <2>7, <2>9, <1>6, <1>8 DEF AcceptAnnounced
  <2>10. Announced'
    BY <1>1, <2>8, <2>9 DEF Announced
  <2> QED BY <1>4, <2>4, <2>5, <2>6, <2>10 DEF ChatInv, Types, SocketInv
<1>9. UNCHANGED <<tcp, ready, peers>> \/ (f # Listener /\ Open(f) /\ "HUP" \in batch[f])
  BY DEF NextEvent
<1> QED BY <1>7, <1>8, <1>9

LEMMA AcceptInv ==
    ASSUME ChatInv, Accept
    PROVE  ChatInv'
<1>1. /\ job.at = "accept" /\ UNCHANGED <<tcp, server, cli, log, owner>>
      /\ job \in JobRecord /\ feedBuffer \in Stream
  BY DEF Accept, AcceptOne, ChatInv, Types, ServerTypes
<1>2. job.op \in {"update", "feed"} /\ job.cur = Listener /\ job.text \in Stream
  BY <1>1 DEF ChatInv, JobSound, JobRecord
<1>3. \A n \in Conns : ~HasLine(peers[n].buf) \/ aborted
  BY <1>1 DEF ChatInv, NoLineLeftBehind
<1>4. ASSUME server = "on", ~aborted
      PROVE  \A n \in Conns : Open(n) =>
                  /\ (tcp[n].up # <<>> \/ tcp[n].far # "open") => Pending(n, {"IN", "HUP"})
                  /\ peers[n].out # <<>> => \/ tcp[n].full /\ Len(tcp[n].down) = Cap
                                            \/ Len(tcp[n].down) < Cap /\ Pending(n, {"OUT"})
  BY <1>1, <1>2, <1>4, Descriptors DEF ChatInv, Announced, InputAnnounced, OutputAnnounced
<1>5. CASE Backlog = {}
  <2>1. UNCHANGED <<peers, ready, batch, aborted>> /\ Accepted
    BY <1>5 DEF Accept, AcceptOne, Accepted, Goto
  <2>2. /\ job' \in JobRecord /\ job'.op = job.op /\ job'.cur = job.cur
        /\ job'.at = IF job.op = "feed" THEN "lines" ELSE "next"
    BY <1>1, <2>1 DEF Accepted, Goto, JobRecord
  <2>3. feedBuffer' \in Stream
    BY <1>1, <1>2, <2>1, JoinedStreams DEF Accepted
  <2>4. ServerTypes' /\ BatchTypes'
    BY <1>1, <2>1, <2>2, <2>3 DEF ChatInv, Types, ServerTypes, BatchTypes
  <2>5. JobSound'
    BY <1>1, <1>2, <2>1, <2>2 DEF ChatInv, JobSound
  <2>6. NoLineLeftBehind'
    BY <1>3, <2>1 DEF NoLineLeftBehind
  <2>7. Announced'
    <3>1. Backlog' = {}
      BY <1>5, <2>1 DEF Backlog
    <3>2. ASSUME server = "on", ~aborted, NEW n \in Conns, Open(n)
          PROVE  InputAnnounced(n)' /\ OutputAnnounced(n)'
      BY <1>1, <1>4, <2>1, <3>2 DEF InputAnnounced, OutputAnnounced, Pending
    <3> QED BY <1>1, <2>1, <3>1, <3>2 DEF Announced, AcceptAnnounced, Open
  <2> QED BY <1>1, <2>1, <2>4, <2>5, <2>6, <2>7, QuietInv
<1>6. CASE Backlog # {}
  <2>. DEFINE n == Min(Backlog)
              q == [peers[n] EXCEPT !.st = "open"]
  <2>1. n \in Conns /\ peers[n].st = "backlog"
    <3>1. Backlog \subseteq Nat
      BY Descriptors DEF Backlog
    <3> QED BY <1>6, <3>1, MinFacts DEF Backlog
  <2>2. /\ peers' = [peers EXCEPT ![n].st = "open"] /\ ready' = ready \cup {n}
        /\ UNCHANGED <<job, batch, aborted, feedBuffer>>
    BY <1>6 DEF Accept, AcceptOne, Admit
  <2>. HIDE DEF n
  <2>3. q \in PeerRecord /\ q.st = "open" /\ q.buf = peers[n].buf /\ q.out = <<>>
    BY <2>1 DEF ChatInv, Types, PeerTypes, PeerRecord
  <2>4. PeerStep(n, q, tcp[n])
    <3>1. peers' = [peers EXCEPT ![n] = q]
      BY <2>2
    <3>2. tcp' = [tcp EXCEPT ![n] = tcp[n]]
      BY <1>1, <2>1 DEF ChatInv, Types, KernelTypes
    <3>3. TcpOK(tcp[n]) /\ tcp[n].far # "closed"
      BY <2>1 DEF ChatInv, Types, KernelTypes, PeersConnected
    <3>. HIDE DEF q
    <3> QED BY <2>2, <2>3, <3>1, <3>2, <3>3 DEF PeerStep
  <2>. HIDE DEF q
  <2>5. /\ SocketInv' /\ peers'[n] = q
        /\ \A m \in Conns : m # n => peers'[m] = peers[m]
    BY <1>1, <2>1, <2>4, PeerStepFacts
  <2>6. ServerTypes' /\ BatchTypes'
    BY <1>1, <2>2 DEF ChatInv, Types, ServerTypes, BatchTypes
  <2>7. JobSound'
    BY <1>1, <2>2 DEF ChatInv, JobSound
  <2>8. NoLineLeftBehind'
    BY <1>3, <2>2, <2>3, <2>5 DEF NoLineLeftBehind
  <2>9. Announced'
    <3>1. n \in ready' /\ \A f, events : Pending(f, events) => Pending(f, events)'
      BY <2>2 DEF Pending
    <3>2. ASSUME server = "on", ~aborted, NEW m \in Conns, Open(m)'
          PROVE  InputAnnounced(m)' /\ OutputAnnounced(m)'
      <4>1. CASE m = n
        BY <4>1, <2>3, <2>5, <3>1 DEF InputAnnounced, OutputAnnounced, Pending
      <4>2. CASE m # n
        <5>1. Open(m) /\ peers'[m] = peers[m]
          BY <4>2, <3>2, <2>5 DEF Open
        <5> QED BY <5>1, <3>1, <3>2, <1>1, <1>4 DEF InputAnnounced, OutputAnnounced
      <4> QED BY <4>1, <4>2
    <3>3. AcceptAnnounced'
      BY <1>1, <2>2 DEF AcceptAnnounced
    <3> QED BY <1>1, <2>2, <3>2, <3>3 DEF Announced
  <2> QED BY <2>5, <2>6, <2>7, <2>8, <2>9 DEF ChatInv, Types, SocketInv
<1> QED BY <1>5, <1>6

(* An update or a feed that failed promises nothing more.                  *)
LEMMA AbortedInv ==
    ASSUME ChatInv, Return("SYS"), SocketInv', UNCHANGED <<server, feedBuffer, log>>
    PROVE  ChatInv'
<1>1. job' = Idle /\ batch' = NoEvents /\ aborted' = TRUE
  BY DEF Return
<1>2. ServerTypes' /\ BatchTypes'
  BY <1>1, NoBatch, IdleFacts DEF ChatInv, Types, ServerTypes
<1>3. JobSound'
  BY <1>1, IdleFacts DEF JobSound
<1>4. NoLineLeftBehind' /\ Announced'
  BY <1>1 DEF NoLineLeftBehind, Announced
<1> QED BY <1>2, <1>3, <1>4 DEF ChatInv, Types, SocketInv

LEMMA SocketsSame ==
    ASSUME ChatInv, UNCHANGED <<tcp, ready, server, peers, cli, owner>>
    PROVE  SocketInv'
<1>1. ClientTypes' /\ ClientsConnected'
  BY ClientsApart
<1> QED BY <1>1 DEF ChatInv, Types, SocketInv, KernelTypes, PeerTypes, PeersConnected, Open

LEMMA AcceptFailsInv ==
    ASSUME ChatInv, AcceptFails
    PROVE  ChatInv'
<1>1. Return("SYS") /\ UNCHANGED <<ready, server, feedBuffer, cli, log, owner>>
  BY DEF AcceptFails
<1>2. CASE UNCHANGED <<tcp, peers>>
  BY <1>1, <1>2, SocketsSame, AbortedInv
<1>3. CASE /\ Backlog # {}
           /\ tcp' = [tcp EXCEPT ![Min(Backlog)] = ServerCloses(@)]
           /\ peers' = [peers EXCEPT ![Min(Backlog)].st = "closed"]
  <2>. DEFINE n == Min(Backlog)
  <2>1. n \in Conns /\ peers[n].st = "backlog"
    <3>1. Backlog \subseteq Nat
      BY Descriptors DEF Backlog
    <3> QED BY <1>3, <3>1, MinFacts DEF Backlog
  <2>. HIDE DEF n
  <2>2. n \notin ready
    BY <2>1, Descriptors DEF ChatInv, Types, KernelTypes, Open
  <2>3. close_peer(n)
    BY <1>1, <1>3, <2>2 DEF close_peer, n
  <2>4. SocketInv'
    BY <1>1, <2>1, <2>3, close_peerStep, PeerStepFacts
  <2> QED BY <1>1, <2>4, AbortedInv
<1> QED BY <1>2, <1>3 DEF AcceptFails

(* Goto keeps all but the position.                                        *)
LEMMA GotoFacts ==
    ASSUME ChatInv, NEW at \in {"next", "lines", "recv", "flush"}, Goto(at)
    PROVE  /\ job' \in JobRecord /\ job'.op = job.op /\ job'.cur = job.cur /\ job'.mask = job.mask
           /\ job'.at = at /\ UNCHANGED <<batch, aborted>>
BY DEF ChatInv, Types, ServerTypes, Goto, JobRecord

(* The server works on the peer that is current, which becomes q, with its *)
(* connection t; everyone else's events are announced as before.           *)
LEMMA OthersAnnounced ==
    ASSUME ChatInv, NEW n \in Conns, server = "on", ~aborted,
           \A m \in Conns : m # n => peers'[m] = peers[m] /\ tcp'[m] = tcp[m],
           \A f : f # n => (f \in ready' <=> f \in ready),
           Backlog' \subseteq Backlog,
           UNCHANGED batch, job'.cur = job.cur, job'.mask = job.mask,
           job.at # "accept", job'.at = "next" => job.cur \notin Conns \ {n},
           job.at = "recv" => job.cur = n
    PROVE  /\ AcceptAnnounced'
           /\ \A m \in Conns : (m # n /\ Open(m)') => InputAnnounced(m)' /\ OutputAnnounced(m)'
<1>1. \A f, events : f # n => (Pending(f, events)' <=> Pending(f, events))
  BY DEF Pending
<1>2. AcceptAnnounced /\ \A m \in Conns : Open(m) => InputAnnounced(m) /\ OutputAnnounced(m)
  BY DEF ChatInv, Announced
<1>3. AcceptAnnounced'
  BY <1>1, <1>2, Descriptors DEF AcceptAnnounced
<1>4. ASSUME NEW m \in Conns, m # n, Open(m)' PROVE InputAnnounced(m)' /\ OutputAnnounced(m)'
  <2>1. Open(m) /\ InputAnnounced(m) /\ OutputAnnounced(m) /\ tcp'[m] = tcp[m] /\ peers'[m] = peers[m]
    BY <1>2, <1>4 DEF Open
  <2> QED BY <1>1, <1>4, <2>1 DEF InputAnnounced, OutputAnnounced
<1> QED BY <1>3, <1>4

LEMMA RecvFromInv ==
    ASSUME ChatInv, NEW n \in Conns, n = job.cur, Recv
    PROVE  ChatInv'
<1>. DEFINE k == Min({BufSize, Len(tcp[job.cur].up)})
<1>1. /\ job.at = "recv" /\ UNCHANGED <<server, feedBuffer, cli, log, owner>>
  BY DEF Recv, RecvThen
<1>2. job.op = "update" /\ peers[n].st \in {"open", "closed"} /\ peers[n].st # "none"
  BY <1>1 DEF ChatInv, JobSound
<1>3. /\ tcp[n] \in TcpRecord /\ TcpOK(tcp[n]) /\ peers[n] \in PeerRecord
      /\ tcp[n].up \in Stream /\ peers[n].buf \in Stream /\ Len(tcp[n].up) \in Nat
      /\ n \in ready => peers[n].st = "open"
  <2>1. tcp[n] \in TcpRecord /\ TcpOK(tcp[n]) /\ peers[n] \in PeerRecord
    BY <1>2 DEF ChatInv, Types, KernelTypes, PeerTypes
  <2>2. n \in ready => peers[n].st = "open"
    BY <1>2, Descriptors DEF ChatInv, Types, KernelTypes, Open
  <2> QED BY <2>1, <2>2, LengthOfStream DEF TcpRecord, PeerRecord
<1>4. tcp[n].far \in {"open", "fin", "reset", "pipe"}
  BY <1>2, <1>3 DEF ChatInv, PeersConnected, TcpRecord, Ends
<1>5. k \in Nat /\ k <= Len(tcp[n].up) /\ (k = 0 <=> tcp[n].up = <<>>)
  <2>1. BufSize \in Nat \ {0}
    BY ChatAssumption
  <2>2. k = IF BufSize <= Len(tcp[n].up) THEN BufSize ELSE Len(tcp[n].up)
    BY <1>3, <2>1, MinOfTwo
  <2>. HIDE DEF k
  <2> QED BY <1>3, <2>1, <2>2, LengthOfStream
<1>6. \A m \in Conns : m # n => (~HasLine(peers[m].buf) \/ aborted)
  BY <1>1 DEF ChatInv, NoLineLeftBehind
<1>7. CASE k > 0
  <2>. DEFINE q == [peers[n] EXCEPT !.buf = @ \o SubSeq(tcp[n].up, 1, k)]
              t == [tcp[n] EXCEPT !.up = SubSeq(@, k + 1, Len(@))]
  <2>1. /\ peers' = [peers EXCEPT ![n] = q] /\ tcp' = [tcp EXCEPT ![n] = t]
        /\ Goto("recv") /\ ready' = ready
    <3>1. peers' = [peers EXCEPT ![job.cur].buf = @ \o SubSeq(tcp[job.cur].up, 1, k)]
      BY <1>5, <1>7 DEF Recv, RecvThen
    <3>2. tcp' = [tcp EXCEPT ![job.cur].up = SubSeq(@, k + 1, Len(@))]
      BY <1>5, <1>7 DEF Recv, RecvThen
    <3>3. Goto("recv") /\ ready' = ready
      BY <1>5, <1>7 DEF Recv, RecvThen
    <3>. HIDE DEF k
    <3> QED BY <3>1, <3>2, <3>3
  <2>. HIDE DEF k
  <2>2. /\ SubSeq(tcp[n].up, 1, k) \in Stream /\ SubSeq(tcp[n].up, k + 1, Len(tcp[n].up)) \in Stream
        /\ Len(SubSeq(tcp[n].up, k + 1, Len(tcp[n].up))) <= Len(tcp[n].up)
    BY <1>3, <1>5, PartOfStream
  <2>3. peers[n].buf \o SubSeq(tcp[n].up, 1, k) \in Stream
    BY <1>3, <2>2, JoinedStreams
  <2>4. q \in PeerRecord /\ q.st = peers[n].st /\ q.out = peers[n].out
    BY <1>3, <2>3 DEF PeerRecord
  <2>5. /\ t \in TcpRecord /\ t.up = SubSeq(tcp[n].up, k + 1, Len(tcp[n].up))
        /\ t.down = tcp[n].down /\ t.far = tcp[n].far /\ t.near = tcp[n].near /\ t.full = tcp[n].full
    BY <1>3, <2>2 DEF TcpRecord
  <2>6. TcpOK(t)
    <3>1. Len(tcp[n].up) <= Cap /\ Len(tcp[n].down) <= Cap
      BY <1>3 DEF TcpOK
    <3>2. Len(SubSeq(tcp[n].up, k + 1, Len(tcp[n].up))) \in Nat
      BY <2>2, LengthOfStream
    <3>3. Len(t.up) = Len(SubSeq(tcp[n].up, k + 1, Len(tcp[n].up)))
      BY <2>5
    <3>. HIDE DEF t
    <3>4. Len(t.up) <= Cap
      <4>1. /\ Len(t.up) \in Nat /\ Len(tcp[n].up) \in Nat /\ Cap \in Nat
            /\ Len(t.up) <= Len(tcp[n].up) /\ Len(tcp[n].up) <= Cap
        BY <1>3, <2>2, <3>1, <3>2, <3>3, Descriptors
      <4> QED BY <4>1
    <3> QED BY <2>5, <3>1, <3>4 DEF TcpOK
  <2>. HIDE DEF q, t
  <2>7. PeerStep(n, q, t)
    BY <1>2, <1>3, <1>4, <2>1, <2>4, <2>5, <2>6 DEF PeerStep
  <2>8. /\ SocketInv' /\ peers'[n] = q /\ tcp'[n] = t
        /\ \A m \in Conns : m # n => peers'[m] = peers[m] /\ tcp'[m] = tcp[m]
        /\ Backlog' \subseteq Backlog
    BY <1>1, <1>2, <2>7, PeerStepFacts
  <2>9. /\ job' \in JobRecord /\ job'.op = job.op /\ job'.cur = job.cur /\ job'.mask = job.mask
        /\ job'.at = "recv" /\ UNCHANGED <<batch, aborted>>
    BY <2>1, GotoFacts
  <2>10. ServerTypes' /\ BatchTypes'
    BY <1>1, <2>9 DEF ChatInv, Types, ServerTypes, BatchTypes
  <2>11. JobSound'
    BY <1>2, <2>4, <2>8, <2>9 DEF JobSound
  <2>12. NoLineLeftBehind'
    BY <1>2, <1>6, <2>8, <2>9 DEF NoLineLeftBehind
  <2>13. Announced'
    <3>1. SUFFICES ASSUME server = "on", ~aborted
                   PROVE  /\ AcceptAnnounced'
                          /\ \A m \in Conns : Open(m)' => InputAnnounced(m)' /\ OutputAnnounced(m)'
      BY <1>1, <2>9 DEF Announced
    <3>2. /\ AcceptAnnounced'
          /\ \A m \in Conns : (m # n /\ Open(m)') => InputAnnounced(m)' /\ OutputAnnounced(m)'
      BY <1>1, <1>2, <2>1, <2>8, <2>9, <3>1, OthersAnnounced
    <3>3. InputAnnounced(n)'
      BY <2>9 DEF InputAnnounced
    <3>4. Open(n)' => OutputAnnounced(n)'
      <4>1. Open(n)' => OutputAnnounced(n)
        BY <1>2, <2>4, <2>8, <3>1 DEF ChatInv, Announced, Open
      <4> QED BY <4>1, <1>1, <2>1, <2>4, <2>5, <2>8, <2>9 DEF OutputAnnounced, Pending
    <3> QED BY <3>2, <3>3, <3>4
  <2> QED BY <2>8, <2>10, <2>11, <2>12, <2>13 DEF ChatInv, Types, SocketInv
<1>8. CASE k = 0 /\ tcp[n].far = "open"
  <2>1. Goto("lines") /\ UNCHANGED <<tcp, peers, ready>>
    BY <1>8 DEF Recv, RecvThen
  <2>2. /\ job' \in JobRecord /\ job'.op = job.op /\ job'.cur = job.cur /\ job'.mask = job.mask
        /\ job'.at = "lines" /\ UNCHANGED <<batch, aborted>>
    BY <2>1, GotoFacts
  <2>3. ServerTypes' /\ BatchTypes'
    BY <1>1, <2>2 DEF ChatInv, Types, ServerTypes, BatchTypes
  <2>4. JobSound'
    BY <1>2, <2>1, <2>2 DEF JobSound
  <2>5. NoLineLeftBehind'
    BY <1>2, <1>6, <2>1, <2>2 DEF NoLineLeftBehind
  <2>6. Announced'
    <3>1. SUFFICES ASSUME server = "on", ~aborted
                   PROVE  /\ AcceptAnnounced'
                          /\ \A m \in Conns : Open(m)' => InputAnnounced(m)' /\ OutputAnnounced(m)'
      BY <1>1, <2>2 DEF Announced
    <3>2. Backlog' \subseteq Backlog
      BY <2>1 DEF Backlog
    <3>3. /\ AcceptAnnounced'
          /\ \A m \in Conns : (m # n /\ Open(m)') => InputAnnounced(m)' /\ OutputAnnounced(m)'
      BY <1>1, <1>2, <2>1, <2>2, <3>1, <3>2, OthersAnnounced
    <3>4. InputAnnounced(n)'
      BY <1>5, <1>8, <2>1 DEF InputAnnounced
    <3>5. Open(n)' => OutputAnnounced(n)'
      <4>1. Open(n)' => OutputAnnounced(n)
        BY <1>2, <2>1, <3>1 DEF ChatInv, Announced, Open
      <4> QED BY <4>1, <1>1, <2>1, <2>2 DEF OutputAnnounced, Pending
    <3> QED BY <3>3, <3>4, <3>5
  <2> QED BY <1>1, <2>1, <2>3, <2>4, <2>5, <2>6, QuietInv
<1>9. CASE k = 0 /\ tcp[n].far \in {"fin", "pipe"}
  <2>1. close_peer(n) /\ Goto("lines")
    BY <1>9 DEF Recv, RecvThen, EndOfStream
  <2>. DEFINE q == [peers[n] EXCEPT !.st = "closed"]
              t == ServerCloses(tcp[n])
  <2>2. PeerStep(n, q, t) /\ q.st = "closed" /\ q.buf = peers[n].buf
    BY <1>2, <2>1, close_peerStep
  <2>. HIDE DEF q, t
  <2>3. /\ SocketInv' /\ peers'[n] = q /\ tcp'[n] = t
        /\ \A m \in Conns : m # n => peers'[m] = peers[m] /\ tcp'[m] = tcp[m]
        /\ Backlog' \subseteq Backlog /\ \A f : f # n => (f \in ready' <=> f \in ready)
    BY <1>1, <1>2, <2>2, PeerStepFacts
  <2>4. /\ job' \in JobRecord /\ job'.op = job.op /\ job'.cur = job.cur /\ job'.mask = job.mask
        /\ job'.at = "lines" /\ UNCHANGED <<batch, aborted>>
    BY <2>1, GotoFacts
  <2>5. ServerTypes' /\ BatchTypes'
    BY <1>1, <2>4 DEF ChatInv, Types, ServerTypes, BatchTypes
  <2>6. JobSound'
    BY <1>2, <2>2, <2>3, <2>4 DEF JobSound
  <2>7. NoLineLeftBehind'
    BY <1>2, <1>6, <2>3, <2>4 DEF NoLineLeftBehind
  <2>8. Announced'
    <3>1. ASSUME server = "on", ~aborted
          PROVE  /\ AcceptAnnounced'
                 /\ \A m \in Conns : (m # n /\ Open(m)') => InputAnnounced(m)' /\ OutputAnnounced(m)'
      BY <1>1, <1>2, <2>3, <2>4, <3>1, OthersAnnounced
    <3>2. ~Open(n)'
      BY <2>2, <2>3 DEF Open
    <3> QED BY <1>1, <2>4, <3>1, <3>2 DEF Announced
  <2> QED BY <2>3, <2>5, <2>6, <2>7, <2>8 DEF ChatInv, Types, SocketInv
<1>10. CASE k = 0 /\ tcp[n].far = "reset"
  <2>. DEFINE t == [tcp[n] EXCEPT !.far = "pipe"]
  <2>1. tcp' = [tcp EXCEPT ![n] = t] /\ Return("SYS") /\ UNCHANGED <<peers, ready>>
    BY <1>10 DEF Recv, RecvThen
  <2>2. TcpOK(t) /\ t.far = "pipe" /\ t.near = tcp[n].near
    BY <1>3 DEF TcpOK, TcpRecord, Ends
  <2>3. peers' = [peers EXCEPT ![n] = peers[n]]
    BY <1>2, <2>1 DEF ChatInv, Types, PeerTypes
  <2>. HIDE DEF t
  <2>4. PeerStep(n, peers[n], t)
    BY <1>2, <1>3, <2>1, <2>2, <2>3 DEF PeerStep
  <2>5. SocketInv'
    BY <1>1, <1>2, <2>4, PeerStepFacts
  <2> QED BY <1>1, <2>1, <2>5, AbortedInv
<1>11. k > 0 \/ k = 0
  BY <1>5
<1> QED BY <1>4, <1>7, <1>8, <1>9, <1>10, <1>11

LEMMA RecvInv ==
    ASSUME ChatInv, Recv
    PROVE  ChatInv'
<1>1. job.cur \in Conns
  BY DEF ChatInv, JobSound, Recv, RecvThen
<1> QED BY <1>1, RecvFromInv

(* Within a feed, or while a message goes to the peers, the other events   *)
(* are announced as before; nothing of the sockets changes here.           *)
LEMMA StillAnnounced ==
    ASSUME ChatInv, UNCHANGED <<server, aborted, ready, batch>>,
           job'.cur = job.cur, job'.mask = job.mask,
           job.at \in {"lines", "send"}, job'.at # "next",
           \A m \in Conns : /\ tcp'[m] = tcp[m] /\ peers'[m].out = peers[m].out
                            /\ peers'[m].st = peers[m].st
    PROVE  Announced'
<1>1. \A f, events : Pending(f, events)' <=> Pending(f, events)
  BY DEF Pending
<1>2. Backlog' = Backlog /\ \A m \in Conns : Open(m)' <=> Open(m)
  BY DEF Backlog, Open
<1>3. ASSUME server = "on", ~aborted
      PROVE  AcceptAnnounced' /\ \A m \in Conns : Open(m) => InputAnnounced(m)' /\ OutputAnnounced(m)'
  <2>1. AcceptAnnounced /\ \A m \in Conns : Open(m) => InputAnnounced(m) /\ OutputAnnounced(m)
    BY <1>3 DEF ChatInv, Announced
  <2>2. AcceptAnnounced'
    BY <1>1, <1>2, <2>1 DEF AcceptAnnounced
  <2>3. ASSUME NEW m \in Conns, Open(m) PROVE InputAnnounced(m)' /\ OutputAnnounced(m)'
    BY <1>1, <2>1, <2>3 DEF InputAnnounced, OutputAnnounced
  <2> QED BY <2>2, <2>3
<1> QED BY <1>2, <1>3 DEF Announced

(* Lines of the server's own input.                                        *)
LEMMA TakeOwnLineInv ==
    ASSUME ChatInv, TakeLine, job.op = "feed"
    PROVE  ChatInv'
<1>1. /\ job.at = "lines" /\ Source = Listener /\ Input = feedBuffer /\ job.cur = Listener
      /\ UNCHANGED <<tcp, ready, server, cli, owner>> /\ job \in JobRecord /\ feedBuffer \in Stream
      /\ log \in Seq(Message) /\ DOMAIN batch = {}
  BY DEF TakeLine, Source, Input, ChatInv, Types, ServerTypes, JobSound
<1>2. \A n \in Conns : ~HasLine(peers[n].buf) \/ aborted
  BY DEF ChatInv, NoLineLeftBehind
<1>3. CASE ~HasLine(feedBuffer)
  <2>1. Return("0") /\ UNCHANGED <<peers, feedBuffer, log>>
    BY <1>1, <1>3 DEF TakeLine, NoMoreLines
  <2>2. job' = Idle /\ batch' = NoEvents /\ aborted' = aborted
    BY <2>1 DEF Return, ChatInv, Types, ServerTypes
  <2>3. ServerTypes' /\ BatchTypes'
    BY <1>1, <2>1, <2>2, NoBatch, IdleFacts DEF ChatInv, Types, ServerTypes
  <2>4. JobSound'
    BY <2>2, IdleFacts DEF JobSound
  <2>5. NoLineLeftBehind'
    BY <1>2, <2>1, <2>2 DEF NoLineLeftBehind
  <2>6. Announced'
    BY <1>1, <2>1, <2>2, Descriptors
       DEF ChatInv, Announced, AcceptAnnounced, InputAnnounced, OutputAnnounced, Pending, Backlog, Open
  <2> QED BY <1>1, <2>1, <2>3, <2>4, <2>5, <2>6, QuietInv
<1>4. CASE HasLine(feedBuffer)
  <2>. DEFINE line == trim(FirstLine(feedBuffer))
              msg == [src |-> Listener, author |-> <<"server">>, data |-> line]
  <2>1. line \in Stream /\ AfterLine(feedBuffer) \in Stream
    BY <1>1, <1>4, LineStreams
  <2>2. /\ feedBuffer' = AfterLine(feedBuffer) /\ UNCHANGED <<peers, batch, aborted>>
        /\ \/ Goto("lines") /\ log' = log
           \/ log' = Append(log, msg) /\ job' = [job EXCEPT !.at = "send", !.to = 1]
    BY <1>1, <1>4 DEF TakeLine, Goto
  <2>3. msg \in Message
    BY <2>1, GivenStreams DEF Message
  <2>. HIDE DEF msg, line
  <2>4. /\ job' \in JobRecord /\ job'.op = job.op /\ job'.cur = job.cur /\ job'.mask = job.mask
        /\ job'.at \in {"lines", "send"}
    <3>1. CASE Goto("lines")
      BY <3>1, GotoFacts
    <3>2. CASE job' = [job EXCEPT !.at = "send", !.to = 1]
      BY <1>1, <3>2 DEF JobRecord
    <3> QED BY <2>2, <3>1, <3>2
  <2>5. log' \in Seq(Message) /\ (job'.at = "send" => log' # <<>>)
    <3>1. CASE Goto("lines") /\ log' = log
      BY <1>1, <3>1 DEF Goto, JobRecord
    <3>2. CASE log' = Append(log, msg)
      BY <1>1, <2>3, <3>2
    <3> QED BY <2>2, <3>1, <3>2
  <2>6. ServerTypes' /\ BatchTypes'
    BY <1>1, <2>1, <2>2, <2>4, <2>5 DEF ChatInv, Types, ServerTypes, BatchTypes
  <2>7. JobSound'
    BY <1>1, <2>2, <2>4, <2>5 DEF JobSound
  <2>8. NoLineLeftBehind'
    BY <1>2, <2>2 DEF NoLineLeftBehind
  <2>9. Announced'
    BY <1>1, <2>2, <2>4, StillAnnounced
  <2> QED BY <1>1, <2>2, <2>6, <2>7, <2>8, <2>9, QuietInv
<1> QED BY <1>3, <1>4

(* Lines of a peer.                                                        *)
LEMMA TakePeerLineInv ==
    ASSUME ChatInv, TakeLine, job.op = "update", NEW n \in Conns, n = job.cur
    PROVE  ChatInv'
<1>1. /\ job.at = "lines" /\ Source = n /\ Input = peers[n].buf /\ n # Listener
      /\ UNCHANGED <<tcp, ready, server, cli, owner>> /\ job \in JobRecord
      /\ log \in Seq(Message) /\ peers[n] \in PeerRecord /\ peers[n].st \in {"open", "closed"}
  BY Descriptors DEF TakeLine, Source, Input, ChatInv, Types, ServerTypes, PeerTypes, JobSound
<1>2. \A m \in Conns : m # n => (~HasLine(peers[m].buf) \/ aborted)
  BY DEF ChatInv, NoLineLeftBehind
<1>3. CASE ~HasLine(peers[n].buf)
  <2>1. Goto("flush") /\ UNCHANGED <<peers, feedBuffer, log>>
    BY <1>1, <1>3 DEF TakeLine, NoMoreLines
  <2>2. /\ job' \in JobRecord /\ job'.op = job.op /\ job'.cur = job.cur /\ job'.mask = job.mask
        /\ job'.at = "flush" /\ UNCHANGED <<batch, aborted>>
    BY <2>1, GotoFacts
  <2>3. ServerTypes' /\ BatchTypes'
    BY <1>1, <2>1, <2>2 DEF ChatInv, Types, ServerTypes, BatchTypes
  <2>4. JobSound'
    BY <1>1, <2>1, <2>2 DEF JobSound
  <2>5. NoLineLeftBehind'
    BY <1>2, <1>3, <2>1, <2>2 DEF NoLineLeftBehind
  <2>6. Announced'
    BY <1>1, <2>1, <2>2, StillAnnounced
  <2> QED BY <1>1, <2>1, <2>3, <2>4, <2>5, <2>6, QuietInv
<1>4. CASE HasLine(peers[n].buf)
  <2>. DEFINE line == trim(FirstLine(peers[n].buf))
              isName == peers[n].name = <<>>
              msg == [src |-> n, author |-> peers[n].name, data |-> line]
              q == [peers[n] EXCEPT !.buf = AfterLine(@), !.name = IF isName THEN line ELSE @]
  <2>1. line \in Stream /\ AfterLine(peers[n].buf) \in Stream /\ peers[n].name \in Stream
    BY <1>1, <1>4, LineStreams DEF PeerRecord
  <2>2. /\ peers' = [peers EXCEPT ![n] = q] /\ UNCHANGED <<feedBuffer, batch, aborted>>
        /\ \/ Goto("lines") /\ log' = log
           \/ log' = Append(log, msg) /\ job' = [job EXCEPT !.at = "send", !.to = 1]
    BY <1>1, <1>4 DEF TakeLine, Goto
  <2>3. msg \in Message
    BY <2>1 DEF Message
  <2>4. q \in PeerRecord /\ q.st = peers[n].st /\ q.out = peers[n].out
    BY <1>1, <2>1 DEF PeerRecord
  <2>. HIDE DEF msg, line, q
  <2>5. /\ job' \in JobRecord /\ job'.op = job.op /\ job'.cur = job.cur /\ job'.mask = job.mask
        /\ job'.at \in {"lines", "send"}
    <3>1. CASE Goto("lines")
      BY <3>1, GotoFacts
    <3>2. CASE job' = [job EXCEPT !.at = "send", !.to = 1]
      BY <1>1, <3>2 DEF JobRecord
    <3> QED BY <2>2, <3>1, <3>2
  <2>6. log' \in Seq(Message) /\ (job'.at = "send" => log' # <<>>)
    <3>1. CASE Goto("lines") /\ log' = log
      BY <1>1, <3>1 DEF Goto, JobRecord
    <3>2. CASE log' = Append(log, msg)
      BY <1>1, <2>3, <3>2
    <3> QED BY <2>2, <3>1, <3>2
  <2>7. PeerStep(n, q, tcp[n])
    <3>1. tcp' = [tcp EXCEPT ![n] = tcp[n]]
      BY <1>1 DEF ChatInv, Types, KernelTypes
    <3>2. TcpOK(tcp[n]) /\ tcp[n].far # "closed" /\ (n \in ready => peers[n].st = "open")
      BY <1>1 DEF ChatInv, Types, KernelTypes, PeersConnected, Open
    <3> QED BY <1>1, <2>2, <2>4, <3>1, <3>2 DEF PeerStep
  <2>8. /\ SocketInv' /\ peers'[n] = q
        /\ \A m \in Conns : m # n => peers'[m] = peers[m]
    BY <1>1, <2>7, PeerStepFacts
  <2>9. ServerTypes' /\ BatchTypes'
    BY <1>1, <2>2, <2>5, <2>6 DEF ChatInv, Types, ServerTypes, BatchTypes
  <2>10. JobSound'
    BY <1>1, <2>2, <2>4, <2>5, <2>6, <2>8 DEF JobSound
  <2>11. NoLineLeftBehind'
    BY <1>2, <2>2, <2>5, <2>8 DEF NoLineLeftBehind
  <2>12. Announced'
    BY <1>1, <2>2, <2>4, <2>5, <2>8, StillAnnounced
  <2> QED BY <2>8, <2>9, <2>10, <2>11, <2>12 DEF ChatInv, Types, SocketInv
<1> QED BY <1>3, <1>4

LEMMA TakeLineInv ==
    ASSUME ChatInv, TakeLine
    PROVE  ChatInv'
<1>1. job.at = "lines" /\ job.op \in {"update", "feed"}
  BY DEF TakeLine, ChatInv, Types, ServerTypes, JobRecord, JobSound
<1>2. CASE job.op = "feed"
  BY <1>2, TakeOwnLineInv
<1>3. CASE job.op = "update"
  <2>1. job.cur \in Conns
    BY <1>1, <1>3 DEF ChatInv, JobSound
  <2> QED BY <1>3, <2>1, TakePeerLineInv
<1> QED BY <1>1, <1>2, <1>3

(* flush_peer_output, when it does not raise SIGPIPE: what is left over    *)
(* has filled the socket, or the peer is closed.                           *)
LEMMA flush_peer_outputStep ==
    ASSUME ChatInv, NEW p \in Conns, Open(p), NEW o \in Stream, flush_peer_output(p, o)
    PROVE  \E q, t : /\ PeerStep(p, q, t) /\ q.buf = peers[p].buf
                     /\ q.st = "open" => /\ t.up = tcp[p].up /\ t.far = tcp[p].far /\ ready' = ready
                                         /\ q.out # <<>> => t.full /\ Len(t.down) = Cap
<1>1. /\ tcp[p] \in TcpRecord /\ peers[p] \in PeerRecord /\ peers[p].st = "open"
      /\ tcp[p].down \in Stream /\ Len(tcp[p].up) <= Cap /\ Len(tcp[p].down) <= Cap
  BY DEF ChatInv, Types, KernelTypes, PeerTypes, TcpOK, TcpRecord, Open
<1>2. CASE tcp[p].far \in {"open", "fin"}
  <2>. DEFINE k == Min({Len(o), Cap - Len(tcp[p].down)})
              t == [tcp[p] EXCEPT !.down = @ \o SubSeq(o, 1, k), !.full = (k < Len(o))]
              q == [peers[p] EXCEPT !.out = SubSeq(o, k + 1, Len(o))]
  <2>1. tcp' = [tcp EXCEPT ![p] = t] /\ peers' = [peers EXCEPT ![p] = q] /\ ready' = ready
    BY <1>2 DEF flush_peer_output
  <2>2. Len(o) \in Nat /\ Len(tcp[p].down) \in Nat /\ Cap - Len(tcp[p].down) \in Nat
    BY <1>1, LengthOfStream, Descriptors
  <2>3. /\ k \in Nat /\ k <= Len(o) /\ k <= Cap - Len(tcp[p].down)
        /\ k < Len(o) => k = Cap - Len(tcp[p].down)
    BY <2>2, MinOfTwo
  <2>. HIDE DEF k
  <2>4. /\ SubSeq(o, 1, k) \in Stream /\ Len(SubSeq(o, 1, k)) = k
        /\ SubSeq(o, k + 1, Len(o)) \in Stream
        /\ k = Len(o) => SubSeq(o, k + 1, Len(o)) = <<>>
    <3>1. /\ SubSeq(o, 1, k) \in Stream /\ Len(SubSeq(o, 1, k)) = k
          /\ SubSeq(o, k + 1, Len(o)) \in Stream
      BY <2>2, <2>3, PartOfStream
    <3>2. k = Len(o) => SubSeq(o, k + 1, Len(o)) = <<>>
      BY <2>2, <2>3, SubSeqEmpty
    <3> QED BY <3>1, <3>2
  <2>5. /\ tcp[p].down \o SubSeq(o, 1, k) \in Stream
        /\ Len(tcp[p].down \o SubSeq(o, 1, k)) = Len(tcp[p].down) + k
    <3>1. tcp[p].down \in Stream /\ SubSeq(o, 1, k) \in Stream /\ Len(SubSeq(o, 1, k)) = k
      BY <1>1, <2>4
    <3>2. /\ tcp[p].down \o SubSeq(o, 1, k) \in Stream
          /\ Len(tcp[p].down \o SubSeq(o, 1, k)) = Len(tcp[p].down) + Len(SubSeq(o, 1, k))
      BY <3>1, JoinedStreams
    <3> QED BY <3>1, <3>2
  <2>6. /\ t \in TcpRecord /\ t.up = tcp[p].up /\ t.far = tcp[p].far /\ t.near = tcp[p].near
        /\ t.down = tcp[p].down \o SubSeq(o, 1, k) /\ t.full = (k < Len(o))
    <3>. DEFINE down == tcp[p].down \o SubSeq(o, 1, k)
                full == k < Len(o)
    <3>1. down \in Stream /\ full \in BOOLEAN /\ t = [tcp[p] EXCEPT !.down = down, !.full = full]
      BY <2>5
    <3>. HIDE DEF down, full
    <3>2. /\ t \in TcpRecord /\ t.up = tcp[p].up /\ t.far = tcp[p].far /\ t.near = tcp[p].near
          /\ t.down = down /\ t.full = full
      BY <1>1, <3>1 DEF TcpRecord
    <3> QED BY <3>2 DEF down, full
  <2>7. /\ q \in PeerRecord /\ q.st = "open" /\ q.buf = peers[p].buf
        /\ q.out = SubSeq(o, k + 1, Len(o))
    BY <1>1, <2>4 DEF PeerRecord
  <2>. HIDE DEF t, q
  <2>8. Len(t.down) = Len(tcp[p].down) + k
    BY <2>5, <2>6
  <2>9. TcpOK(t)
    <3>1. Len(t.down) <= Cap
      BY <2>2, <2>3, <2>8, Descriptors
    <3> QED BY <1>1, <2>6, <3>1 DEF TcpOK
  <2>10. PeerStep(p, q, t)
    BY <1>2, <2>1, <2>6, <2>7, <2>9 DEF PeerStep
  <2>11. ASSUME q.out # <<>> PROVE t.full /\ Len(t.down) = Cap
    <3>1. k # Len(o)
      BY <2>4, <2>7, <2>11
    <3>2. k < Len(o)
      BY <2>2, <2>3, <3>1
    <3>3. Len(t.down) = Cap
      BY <2>2, <2>3, <2>8, <3>2, Descriptors
    <3> QED BY <2>6, <3>2, <3>3
  <2> QED BY <2>1, <2>6, <2>7, <2>10, <2>11
<1>3. CASE tcp[p].far = "reset"
  <2>. DEFINE t == [tcp[p] EXCEPT !.far = "pipe"]
              q == [peers[p] EXCEPT !.st = "closed", !.out = o]
  <2>1. tcp' = [tcp EXCEPT ![p] = t] /\ peers' = [peers EXCEPT ![p] = q] /\ ready' = ready \ {p}
    BY <1>3 DEF flush_peer_output
  <2>2. /\ t \in TcpRecord /\ t.up = tcp[p].up /\ t.down = tcp[p].down /\ t.far = "pipe"
        /\ t.near = tcp[p].near
    BY <1>1 DEF TcpRecord, Ends
  <2>3. q \in PeerRecord /\ q.st = "closed" /\ q.buf = peers[p].buf
    BY <1>1 DEF PeerRecord
  <2>. HIDE DEF t, q
  <2>4. PeerStep(p, q, t)
    BY <1>1, <2>1, <2>2, <2>3 DEF PeerStep, TcpOK
  <2> QED BY <2>3, <2>4
<1> QED BY <1>2, <1>3 DEF flush_peer_output

(* The server goes on after it has flushed the output of p.                *)
LEMMA FlushedInv ==
    ASSUME ChatInv, NEW p \in Conns, Open(p), NEW o \in Stream, flush_peer_output(p, o),
           UNCHANGED <<server, feedBuffer, batch, aborted, cli, log, owner>>,
           job' \in JobRecord, job'.op = job.op, job'.cur = job.cur, job'.mask = job.mask,
           \/ job.at = "send" /\ job'.at = "send"
           \/ job.at = "flush" /\ job'.at = "next" /\ job.cur = p
    PROVE  ChatInv'
<1>1. PICK q, t : /\ PeerStep(p, q, t) /\ q.buf = peers[p].buf
                  /\ q.st = "open" => /\ t.up = tcp[p].up /\ t.far = tcp[p].far /\ ready' = ready
                                      /\ q.out # <<>> => t.full /\ Len(t.down) = Cap
  BY flush_peer_outputStep
<1>2. peers[p].st # "none" /\ peers[p].st = "open" /\ q.st \in {"open", "closed"}
  BY <1>1 DEF Open, PeerStep
<1>3. /\ SocketInv' /\ peers'[p] = q /\ tcp'[p] = t
      /\ \A m \in Conns : m # p => peers'[m] = peers[m] /\ tcp'[m] = tcp[m]
      /\ \A f : f # p => (f \in ready' <=> f \in ready)
      /\ Backlog' \subseteq Backlog
  BY <1>1, <1>2, PeerStepFacts
<1>4. ServerTypes' /\ BatchTypes'
  BY DEF ChatInv, Types, ServerTypes, BatchTypes
<1>5. \A m \in Conns : peers[m].st \in {"open", "closed"} => peers'[m].st \in {"open", "closed"}
  BY <1>2, <1>3
<1>6. JobSound'
  BY <1>5 DEF ChatInv, JobSound
<1>7. NoLineLeftBehind'
  <2>1. \A m \in Conns : peers'[m].buf = peers[m].buf
    BY <1>1, <1>3
  <2>2. job.at = "flush" => \A m \in Conns : ~HasLine(peers[m].buf) \/ aborted
    BY DEF ChatInv, NoLineLeftBehind
  <2> QED BY <2>1, <2>2 DEF ChatInv, NoLineLeftBehind
<1>8. Announced'
  <2>1. SUFFICES ASSUME server = "on", ~aborted
                 PROVE  /\ AcceptAnnounced'
                        /\ \A m \in Conns : Open(m)' => InputAnnounced(m)' /\ OutputAnnounced(m)'
    BY DEF Announced
  <2>2. /\ AcceptAnnounced'
        /\ \A m \in Conns : (m # p /\ Open(m)') => InputAnnounced(m)' /\ OutputAnnounced(m)'
    BY <1>3, <2>1, OthersAnnounced
  <2>3. ASSUME Open(p)' PROVE InputAnnounced(p)' /\ OutputAnnounced(p)'
    <3>1. /\ t.up = tcp[p].up /\ t.far = tcp[p].far /\ ready' = ready
          /\ q.out # <<>> => t.full /\ Len(t.down) = Cap
      BY <1>1, <1>3, <2>3 DEF Open
    <3>2. InputAnnounced(p)
      BY <2>1 DEF ChatInv, Announced
    <3>3. InputAnnounced(p)'
      BY <3>1, <3>2, <1>3 DEF InputAnnounced, Pending
    <3>4. OutputAnnounced(p)'
      BY <3>1, <1>3 DEF OutputAnnounced
    <3> QED BY <3>3, <3>4
  <2> QED BY <2>2, <2>3
<1> QED BY <1>3, <1>4, <1>6, <1>7, <1>8 DEF ChatInv, Types, SocketInv

LEMMA SendInv ==
    ASSUME ChatInv, Send
    PROVE  ChatInv'
<1>1. job.at = "send" /\ UNCHANGED <<cli, log, owner>> /\ job \in JobRecord
  BY DEF Send, ChatInv, Types, ServerTypes
<1>2. CASE Receivers = {}
  <2>1. Goto("lines") /\ UNCHANGED <<tcp, ready, server, peers, feedBuffer>>
    BY <1>2 DEF Send
  <2>2. /\ job' \in JobRecord /\ job'.op = job.op /\ job'.cur = job.cur /\ job'.mask = job.mask
        /\ job'.at = "lines" /\ UNCHANGED <<batch, aborted>>
    BY <2>1, GotoFacts
  <2>3. ServerTypes' /\ BatchTypes'
    BY <1>1, <2>1, <2>2 DEF ChatInv, Types, ServerTypes, BatchTypes
  <2>4. JobSound'
    BY <1>1, <2>1, <2>2 DEF ChatInv, JobSound
  <2>5. NoLineLeftBehind'
    BY <1>1, <2>1, <2>2 DEF ChatInv, NoLineLeftBehind
  <2>6. Announced'
    BY <1>1, <2>1, <2>2, StillAnnounced
  <2> QED BY <1>1, <2>1, <2>3, <2>4, <2>5, <2>6, QuietInv
<1>3. CASE Receivers # {}
  <2>. DEFINE p == Min(Receivers)
  <2>1. p \in Conns /\ Open(p)
    <3>1. Receivers \subseteq Nat
      BY Descriptors DEF Receivers
    <3> QED BY <1>3, <3>1, MinFacts DEF Receivers
  <2>2. \/ /\ flush_peer_output(p, Queue(p))
           /\ job' = [job EXCEPT !.to = p + 1]
           /\ UNCHANGED <<server, feedBuffer, batch, aborted>>
        \/ Stop("killed")
    BY <1>3 DEF Send
  <2>. HIDE DEF p
  <2>3. CASE Stop("killed")
    BY <1>1, <2>3, StopInv
  <2>4. CASE /\ flush_peer_output(p, Queue(p))
             /\ job' = [job EXCEPT !.to = p + 1]
             /\ UNCHANGED <<server, feedBuffer, batch, aborted>>
    <3>1. /\ job' \in JobRecord /\ job'.op = job.op /\ job'.cur = job.cur /\ job'.mask = job.mask
          /\ job'.at = "send"
      <4>1. p + 1 \in Nat
        BY <2>1, Descriptors
      <4> QED BY <1>1, <2>4, <4>1 DEF JobRecord
    <3>2. Queue(p) \in Stream
      <4>1. log \in Seq(Message) /\ log # <<>>
        BY <1>1 DEF ChatInv, Types, ServerTypes, JobSound
      <4>2. Last(log) \in Message
        BY <4>1, LenProperties, EmptySeq, ElementOfSeq DEF Last
      <4>3. Last(log).author \in Stream /\ Last(log).data \in Stream
        BY <4>2 DEF Message
      <4>4. <<Colon>> \in Stream /\ <<NewLine>> \in Stream
        BY DEF Stream, Units
      <4>5. Wire(Last(log)) \in Stream
        BY <4>3, <4>4, JoinedStreams DEF Wire
      <4>6. peers[p].out \in Stream
        BY <2>1 DEF ChatInv, Types, PeerTypes, PeerRecord
      <4> QED BY <4>5, <4>6, JoinedStreams DEF Queue
    <3> QED BY <1>1, <2>1, <2>4, <3>1, <3>2, FlushedInv
  <2> QED BY <2>2, <2>3, <2>4
<1> QED BY <1>2, <1>3

LEMMA FlushPeerInv ==
    ASSUME ChatInv, Flush, NEW p \in Conns, p = job.cur
    PROVE  ChatInv'
<1>1. job.at = "flush" /\ UNCHANGED <<cli, log, owner>> /\ job \in JobRecord
  BY DEF Flush, ChatInv, Types, ServerTypes
<1>2. CASE "OUT" \in job.mask /\ Open(p) /\ peers[p].out # <<>>
  <2>1. \/ /\ flush_peer_output(p, peers[p].out)
           /\ job' = [job EXCEPT !.at = "next"]
           /\ UNCHANGED <<server, feedBuffer, batch, aborted>>
        \/ Stop("killed")
    BY <1>2 DEF Flush
  <2>2. CASE Stop("killed")
    BY <1>1, <2>2, StopInv
  <2>3. CASE /\ flush_peer_output(p, peers[p].out)
             /\ job' = [job EXCEPT !.at = "next"]
             /\ UNCHANGED <<server, feedBuffer, batch, aborted>>
    <3>1. /\ job' \in JobRecord /\ job'.op = job.op /\ job'.cur = job.cur /\ job'.mask = job.mask
          /\ job'.at = "next"
      BY <1>1, <2>3 DEF JobRecord
    <3>2. peers[p].out \in Stream
      BY DEF ChatInv, Types, PeerTypes, PeerRecord
    <3> QED BY <1>1, <1>2, <2>3, <3>1, <3>2, FlushedInv
  <2> QED BY <2>1, <2>2, <2>3
<1>3. CASE ~("OUT" \in job.mask /\ Open(p) /\ peers[p].out # <<>>)
  <2>1. Goto("next") /\ UNCHANGED <<tcp, ready, server, peers, feedBuffer>>
    BY <1>3 DEF Flush
  <2>2. /\ job' \in JobRecord /\ job'.op = job.op /\ job'.cur = job.cur /\ job'.mask = job.mask
        /\ job'.at = "next" /\ UNCHANGED <<batch, aborted>>
    BY <2>1, GotoFacts
  <2>3. ServerTypes' /\ BatchTypes'
    BY <1>1, <2>1, <2>2 DEF ChatInv, Types, ServerTypes, BatchTypes
  <2>4. JobSound'
    BY <1>1, <2>1, <2>2 DEF ChatInv, JobSound
  <2>5. NoLineLeftBehind'
    BY <1>1, <2>1, <2>2 DEF ChatInv, NoLineLeftBehind
  <2>6. Announced'
    <3>1. SUFFICES ASSUME server = "on", ~aborted
                   PROVE  /\ AcceptAnnounced'
                          /\ \A m \in Conns : Open(m)' => InputAnnounced(m)' /\ OutputAnnounced(m)'
      BY <2>1, <2>2 DEF Announced
    <3>2. Backlog' \subseteq Backlog
      BY <2>1 DEF Backlog
    <3>3. /\ AcceptAnnounced'
          /\ \A m \in Conns : (m # p /\ Open(m)') => InputAnnounced(m)' /\ OutputAnnounced(m)'
      BY <1>1, <2>1, <2>2, <3>1, <3>2, OthersAnnounced
    <3>4. ASSUME Open(p)' PROVE InputAnnounced(p)' /\ OutputAnnounced(p)'
      <4>1. Open(p) /\ InputAnnounced(p) /\ OutputAnnounced(p)
        BY <2>1, <3>1, <3>4 DEF ChatInv, Announced, Open
      <4>2. "OUT" \notin job.mask \/ peers[p].out = <<>>
        BY <1>3, <4>1
      <4> QED BY <1>1, <2>1, <2>2, <4>1, <4>2 DEF InputAnnounced, OutputAnnounced, Pending
    <3> QED BY <3>3, <3>4
  <2> QED BY <1>1, <2>1, <2>3, <2>4, <2>5, <2>6, QuietInv
<1> QED BY <1>2, <1>3

LEMMA FlushInv ==
    ASSUME ChatInv, Flush
    PROVE  ChatInv'
<1>1. job.cur \in Conns
  BY DEF ChatInv, JobSound, Flush
<1> QED BY <1>1, FlushPeerInv

-----------------------------------------------------------------------------
(* The invariant holds in every state of the chat, whatever the clients,   *)
(* the kernel and the server do in between.                                *)
THEOREM ChatInvariant == Spec => []ChatInv
<1>1. Init => ChatInv
  BY InitInv
<1>2. ChatInv /\ [Next]_vars => ChatInv'
  <2>1. SUFFICES ASSUME ChatInv, [Next]_vars PROVE ChatInv'
    OBVIOUS
  <2>2. CASE Listen
    BY <2>1, <2>2, ListenInv
  <2>3. CASE chat_server_update
    BY <2>1, <2>3, chat_server_updateInv
  <2>4. ASSUME NEW f \in Conns \cup {Listener}, NextEvent(f) PROVE ChatInv'
    BY <2>1, <2>4, NextEventInv
  <2>5. CASE EndOfBatch
    BY <2>1, <2>5, EndOfBatchInv
  <2>6. CASE Accept
    BY <2>1, <2>6, AcceptInv
  <2>7. CASE AcceptFails
    BY <2>1, <2>7, AcceptFailsInv
  <2>8. CASE Recv
    BY <2>1, <2>8, RecvInv
  <2>9. CASE TakeLine
    BY <2>1, <2>9, TakeLineInv
  <2>10. CASE Send
    BY <2>1, <2>10, SendInv
  <2>11. CASE Flush
    BY <2>1, <2>11, FlushInv
  <2>12. CASE chat_server_delete
    BY <2>1, <2>12, chat_server_deleteInv
  <2>13. ASSUME NEW chunk \in Chunks, chat_server_feed(chunk) PROVE ChatInv'
    BY <2>1, <2>13, chat_server_feedInv
  <2>14. ASSUME NEW n \in Conns, ResetArrives(n) PROVE ChatInv'
    BY <2>1, <2>14, ResetArrivesInv
  <2>15. ASSUME NEW c \in Clients, chat_client_connect(c) PROVE ChatInv'
    BY <2>1, <2>15, chat_client_connectInv
  <2>16. ASSUME NEW c \in Clients, chat_client_update(c) PROVE ChatInv'
    BY <2>1, <2>16, chat_client_updateInv
  <2>17. ASSUME NEW c \in Clients, chat_client_delete(c) PROVE ChatInv'
    BY <2>1, <2>17, chat_client_deleteInv
  <2>18. ASSUME NEW c \in Clients, NEW chunk \in Chunks, chat_client_feed(c, chunk) PROVE ChatInv'
    BY <2>1, <2>18, chat_client_feedInv
  <2>19. CASE UNCHANGED vars
    <3>1. UNCHANGED <<tcp, ready, server, peers, feedBuffer, batch, job, log, owner, aborted, cli>>
      BY <2>19 DEF vars, serverVars, historyVars
    <3>2. ClientTypes' /\ ClientsConnected'
      BY <2>1, <3>1, ClientsApart
    <3> QED BY <2>1, <3>1, <3>2, NothingMovedInv
  <2> QED BY <2>1, <2>2, <2>3, <2>4, <2>5, <2>6, <2>7, <2>8, <2>9, <2>10, <2>11, <2>12, <2>13,
             <2>14, <2>15, <2>16, <2>17, <2>18, <2>19 DEF Next, ServerStep, HandleEvents
<1> QED BY <1>1, <1>2, PTL DEF Spec

(* With edge-triggered events nothing of the chat is ever stranded: as     *)
(* long as no update has failed, a connection that waits in the backlog,   *)
(* input that was not read and output for which the socket has room again  *)
(* have an event to come or are being handled, and no complete line stays  *)
(* in the buffer of a peer.                                                *)
THEOREM NothingIsStranded == Spec => []NothingStranded
<1>1. ChatInv => NothingStranded
  BY InvStrong
<1> QED BY <1>1, ChatInvariant, PTL
=============================================================================
