------------------------------- MODULE Shell -------------------------------
(***************************************************************************)
(* The shell of 2/solution.cpp: a loop that reads its input in pieces,     *)
(* feeds them to the parser and executes the lines, and the child          *)
(* processes and pipes it makes for them.  The shell is sequential; its    *)
(* steps are system calls that other processes can notice, or stretches of *)
(* code between them.  Words are sequences of characters: <<"e">> stands   *)
(* for "exit", <<"c">> for "cd"; the other programs are described by       *)
(* MayEnd.                                                                 *)
(*                                                                         *)
(* A pipe end is <<pipe, "r">> or <<pipe, "w">>; a process and the shell   *)
(* have sets of ends.  What flows through a pipe is left out: what matters *)
(* is whether a reader can still get data and a writer still has a reader. *)
(* A FIFO, made by mkfifo beforehand, is a pipe that has a name; open() of *)
(* one of its ends waits until somebody opens the other.  The working      *)
(* directory and the content of files are left out.                        *)
(***************************************************************************)
EXTENDS Parser, FiniteSets, FiniteSetsExt

CONSTANTS
    Inputs,         \* what may be typed, a set of sequences of characters
    PieceSizes,     \* how much one read may return (up to buf_size)
    Pids,           \* bound on the number of children, a set of numbers
    CallsMayFail,   \* pipe, fork and open may fail
    Fifos,          \* the file names that are FIFOs
    NULL

VARIABLES
    typed, pos,     \* the input, and how much of it was read
    buffer,         \* parser->buffer
    popped,         \* history: the results of parser_pop_next
    pc,             \* where the shell is
    line, segs,     \* the line being executed, and its segments
    si, fi,         \* the segment, and the command of it to be forked
    status,         \* last_status
    shellEnds,      \* pipefds that are open in the shell
    procs,          \* the children
    pipelines,      \* how many were run so far: names their pipes
    pids,           \* the children of the pipeline
    failed          \* history: a pipe() or fork() has failed

parseVars == <<typed, pos, buffer, popped>>
lineVars == <<line, segs, si, fi>>
procVars == <<shellEnds, procs, pipelines, pids>>
vars == <<parseVars, pc, lineVars, status, procVars, failed>>

(* A child: where it is, its command, its ends and which of them are in    *)
(* pipefds, its input and output, the file it still has to open as output, *)
(* the end of a FIFO that its open() is waiting to get, its exit code.     *)
NoProc == [st |-> "none", words |-> <<>>, ends |-> {}, pipefds |-> {}, in |-> NULL,
           out |-> NULL, redirect |-> NULL, opens |-> NULL, code |-> 0]

-----------------------------------------------------------------------------
(* Words and segments.                                                     *)
IsExit(words) == words[1] = <<"e">>
IsCd(words) == words[1] = <<"c">>

(* atoi: the number that the leading digits spell; "1" is the only digit   *)
(* among the characters.                                                   *)
Atoi(w) ==
    LET Digit(n, k) == IF \A j \in 1..k : w[j] = "1" THEN 10 * n + 1 ELSE n
    IN  FoldLeftDomain(Digit, 0, w)

ExitCode(words) == IF Len(words) = 1 THEN 0 ELSE Atoi(words[2]) % 256

(* The segments between && and ||: commands, and what stands before them.  *)
Segments(l) ==
    LET Add(all, e) ==
            IF e.type = "COMMAND" THEN Front(all) \o <<[Last(all) EXCEPT !.cmds = Append(@, e.words)]>>
            ELSE IF e.type = "PIPE" THEN all
            ELSE Append(all, [cmds |-> <<>>, sep |-> e.type])
    IN  FoldLeft(Add, << [cmds |-> <<>>, sep |-> "NONE"] >>, l.exprs)

Cmds == segs[si].cmds
IsLastSegment == si = Len(segs)
RedirectOut == IsLastSegment /\ line.out_type # "STDOUT"

Pipe(i) == <<pipelines, i>>
Fifo(name) == <<0, name>>
PipeEnds == {<<Pipe(i), e>> : i \in 1..Len(Cmds) - 1, e \in {"r", "w"}}
Holds(end) == end \in shellEnds \/ \E p \in Pids : end \in procs[p].ends

-----------------------------------------------------------------------------
(* main: read a piece and feed it, or end at the end of the input.         *)
Read ==
    /\ pc = "read"
    /\ \/ \E n \in PieceSizes :
            /\ pos + n <= Len(typed)
            /\ buffer' = parser_feed(buffer, SubSeq(typed, pos + 1, pos + n))
            /\ pos' = pos + n
            /\ pc' = "pop"
       \/ /\ pos = Len(typed)
          /\ pc' = "ended"
          /\ UNCHANGED <<buffer, pos>>
    /\ UNCHANGED <<typed, popped, lineVars, status, procVars, failed>>

(* Pop until there is no complete line.  An exit that is the only command  *)
(* of a line ends the shell, wherever its output goes.                     *)
Pop ==
    /\ pc = "pop"
    /\ \E r \in {parser_pop_next(buffer)} :
         /\ buffer' = parser_consume(buffer, r.used)
         /\ popped' = IF r.kind = "none" THEN popped ELSE Append(popped, r)
         /\ \/ r.kind = "none" /\ pc' = "read" /\ UNCHANGED <<lineVars, status>>
            \/ r.kind = "abort" /\ pc' = "aborted" /\ UNCHANGED <<lineVars, status>>
            \/ r.kind = "error" /\ pc' = "pop" /\ UNCHANGED <<lineVars, status>>
            \/ /\ r.kind = "line"
               /\ line' = r.line /\ segs' = Segments(r.line) /\ si' = 1 /\ fi' = 1
               /\ IF Len(r.line.exprs) = 1 /\ IsExit(r.line.exprs[1].words)
                  THEN pc' = "ended" /\ status' = ExitCode(r.line.exprs[1].words)
                  ELSE pc' = "segment" /\ status' = 0
    /\ UNCHANGED <<typed, pos, procVars, failed>>

(* The end of the loop body: its "continue" statements skip nothing, the   *)
(* next segment is run whatever the status.                                *)
Advance == si + 1

(* execute_command_line, one segment: cd in the shell itself, or pipes for *)
(* run_pipeline.  A pipe() that fails leaves the ones before it open.      *)
Segment ==
    /\ pc = "segment"
    /\ \/ /\ si > Len(segs)
          /\ status' = status % 256
          /\ pc' = "pop"
          /\ line' = NoLine /\ segs' = <<>> /\ si' = 1
          /\ UNCHANGED <<procVars, fi, failed>>
       \/ /\ si <= Len(segs) /\ Len(Cmds) = 1 /\ IsCd(Cmds[1])
          /\ status' \in IF Len(Cmds[1]) = 1 THEN {0} ELSE {0, 1}
          /\ si' = Advance
          /\ UNCHANGED <<pc, line, segs, procVars, fi, failed>>
       \/ /\ si <= Len(segs) /\ ~(Len(Cmds) = 1 /\ IsCd(Cmds[1]))
          /\ \/ /\ shellEnds' = shellEnds \cup PipeEnds
                /\ pc' = "fork"
                /\ UNCHANGED <<failed, status>>
             \/ /\ CallsMayFail
                /\ \E k \in 1..Len(Cmds) - 1 :
                     shellEnds' = shellEnds \cup {<<Pipe(i), e>> : i \in 1..k - 1, e \in {"r", "w"}}
                /\ pc' = "after" /\ status' = -1 /\ failed' = TRUE
          /\ pids' = <<>> /\ fi' = 1
          /\ UNCHANGED <<line, segs, si, procs, pipelines>>
    /\ UNCHANGED parseVars

(* Mutant: the shell keeps its pipe ends.                                  *)
MutantCloseAll == shellEnds

(* close() of everything in pipefds.                                       *)
CloseAll == shellEnds \ PipeEnds

(* One turn of the fork loop.  A new child has copies of all ends.         *)
Fork ==
    /\ pc = "fork" /\ fi <= Len(Cmds)
    /\ \/ LET p == Min({q \in Pids : procs[q].st = "none"}) IN
            /\ procs' = [procs EXCEPT ![p] =
                 [NoProc EXCEPT !.st = "forked", !.words = Cmds[fi],
                    !.ends = shellEnds, !.pipefds = PipeEnds,
                    !.in = IF fi > 1 THEN Pipe(fi - 1) ELSE NULL,
                    !.out = IF fi < Len(Cmds) THEN Pipe(fi) ELSE NULL,
                    !.redirect = IF RedirectOut /\ fi = Len(Cmds) THEN line.out_file ELSE NULL]]
            /\ pids' = Append(pids, p)
            /\ fi' = fi + 1
            /\ UNCHANGED <<pc, status, shellEnds, failed>>
       \/ /\ CallsMayFail
          /\ shellEnds' = CloseAll
          /\ status' = -1 /\ failed' = TRUE /\ pc' = "after"
          /\ UNCHANGED <<procs, pids, fi>>
    /\ UNCHANGED <<parseVars, line, segs, si, pipelines>>

ForksDone ==
    /\ pc = "fork" /\ fi > Len(Cmds)
    /\ shellEnds' = CloseAll
    /\ IF line.is_background THEN pc' = "after" /\ status' = 0
       ELSE pc' = "wait" /\ UNCHANGED status
    /\ UNCHANGED <<parseVars, lineVars, procs, pipelines, pids, failed>>

(* Mutant: any child of the pipeline will do.                              *)
MutantWaitLast ==
    /\ pc = "wait"
    /\ \E p \in Range(pids) :
         /\ procs[p].st = "zombie"
         /\ status' = procs[p].code
         /\ procs' = [procs EXCEPT ![p] = NoProc]
    /\ pc' = "drain"
    /\ UNCHANGED <<parseVars, lineVars, shellEnds, pipelines, pids, failed>>

(* waitpid(last_pid).                                                      *)
WaitLast ==
    /\ pc = "wait" /\ procs[Last(pids)].st = "zombie"
    /\ status' = procs[Last(pids)].code
    /\ procs' = [procs EXCEPT ![Last(pids)] = NoProc]
    /\ pc' = "drain"
    /\ UNCHANGED <<parseVars, lineVars, shellEnds, pipelines, pids, failed>>

(* waitpid(-1) until there are no children, those of background lines      *)
(* included.                                                               *)
Drain ==
    /\ pc = "drain"
    /\ \/ \E p \in Pids :
            /\ procs[p].st = "zombie"
            /\ procs' = [procs EXCEPT ![p] = NoProc]
            /\ UNCHANGED pc
       \/ /\ \A p \in Pids : procs[p].st = "none"
          /\ pc' = "after"
          /\ UNCHANGED procs
    /\ UNCHANGED <<parseVars, lineVars, status, shellEnds, pipelines, pids, failed>>

(* After run_pipeline: an exit that was run as the last segment ends the   *)
(* shell too.                                                              *)
After ==
    /\ pc = "after"
    /\ IF /\ Len(Cmds) = 1 /\ IsExit(Cmds[1])
          /\ IsLastSegment /\ ~RedirectOut /\ ~line.is_background
       THEN pc' = "ended" /\ status' = status % 256 /\ UNCHANGED si
       ELSE pc' = "segment" /\ si' = Advance /\ UNCHANGED status
    /\ pipelines' = pipelines + 1
    /\ UNCHANGED <<parseVars, line, segs, fi, shellEnds, procs, pids, failed>>

-----------------------------------------------------------------------------
(* A child: dup2, open and close up to execvp, or an _exit before it.      *)
Exits(p, code) == procs' = [procs EXCEPT ![p].st = "zombie", ![p].ends = {}, ![p].code = code]

(* Mutant: the child keeps the ends it does not use.                       *)
MutantChildEnds(p) == procs[p].ends

(* pipefds are closed.  What dup2 made its input and output stays, and so  *)
(* do ends that the shell had open besides.                                *)
ChildEnds(p) == (procs[p].ends \ procs[p].pipefds)
    \cup (IF procs[p].in = NULL THEN {} ELSE {<<procs[p].in, "r">>})
    \cup (IF procs[p].out = NULL THEN {} ELSE {<<procs[p].out, "w">>})

(* open() of a FIFO.  It has the end at once, which lets go everybody who  *)
(* waits for that, and returns when somebody has the other end.            *)
OpenFifo(p, name, e) ==
    LET mine == <<Fifo(name), e>>
        other == <<Fifo(name), IF e = "w" THEN "r" ELSE "w">>
        child == [procs[p] EXCEPT !.ends = @ \cup {mine},
                                  !.opens = IF Holds(other) THEN NULL ELSE mine]
    IN  procs' = [q \in Pids |->
            IF q = p THEN IF e = "w" THEN [child EXCEPT !.out = Fifo(name), !.redirect = NULL]
                                     ELSE [child EXCEPT !.in = Fifo(name)]
            ELSE IF procs[q].opens = other THEN [procs[q] EXCEPT !.opens = NULL]
            ELSE procs[q]]

(* The output file comes first, while the child has all its ends; open()   *)
(* may fail, or wait.                                                      *)
ChildStart(p) ==
    /\ procs[p].st = "forked" /\ procs[p].opens = NULL
    /\ LET w == procs[p].words
           file == procs[p].redirect
       IN
         \/ CallsMayFail /\ file # NULL /\ Exits(p, 127)
         \/ file \in Fifos /\ OpenFifo(p, file, "w")
         \/ file \notin Fifos /\ IsExit(w) /\ Exits(p, ExitCode(w))
         \/ file \notin Fifos /\ IsCd(w) /\ (Exits(p, 0) \/ (Len(w) > 1 /\ Exits(p, 1)))
         \/ /\ file \notin Fifos /\ ~IsExit(w) /\ ~IsCd(w)
            /\ procs' = [procs EXCEPT ![p].st = "running", ![p].ends = ChildEnds(p)]
    /\ UNCHANGED <<parseVars, pc, lineVars, status, shellEnds, pipelines, pids, failed>>

(* The programs: "r" reads its input, or the FIFO it is given (like cat),  *)
(* to the end or until nobody listens; "y" writes until a signal tells it  *)
(* that nobody listens (128 + SIGPIPE); "f" fails, "t" does not; other     *)
(* words are not programs (127).                                           *)
EndOfInput(p) == procs[p].in = NULL \/ ~Holds(<<procs[p].in, "w">>)
NoListener(p) == procs[p].out = NULL \/ ~Holds(<<procs[p].out, "r">>)
Code(words) ==
    CASE words[1] = <<"f">> -> 1
      [] words[1] = <<"y">> -> 141
      [] words[1] \in {<<"t">>, <<"r">>} -> 0
      [] OTHER -> 127
ToRead(p) == {name \in Fifos : procs[p].words = <<<<"r">>, name>> /\ procs[p].in # Fifo(name)}
MayEnd(p) ==
    CASE ToRead(p) # {} \/ procs[p].opens # NULL -> FALSE
      [] procs[p].words[1] = <<"r">> -> EndOfInput(p) \/ (procs[p].out # NULL /\ NoListener(p))
      [] procs[p].words[1] = <<"y">> -> NoListener(p)
      [] OTHER -> TRUE

ChildOpen(p) ==
    /\ procs[p].st = "running"
    /\ \E name \in ToRead(p) : OpenFifo(p, name, "r")
    /\ UNCHANGED <<parseVars, pc, lineVars, status, shellEnds, pipelines, pids, failed>>

ChildEnd(p) ==
    /\ procs[p].st = "running" /\ MayEnd(p)
    /\ Exits(p, Code(procs[p].words))
    /\ UNCHANGED <<parseVars, pc, lineVars, status, shellEnds, pipelines, pids, failed>>

Child(p) == ChildStart(p) \/ ChildOpen(p) \/ ChildEnd(p)

Init ==
    /\ typed \in Inputs /\ pos = 0
    /\ buffer = <<>> /\ popped = <<>>
    /\ pc = "read"
    /\ line = NoLine /\ segs = <<>> /\ si = 1 /\ fi = 1
    /\ status = 0
    /\ shellEnds = {} /\ pipelines = 1 /\ pids = <<>>
    /\ procs = [p \in Pids |-> NoProc]
    /\ failed = FALSE

Execute == Segment \/ Fork \/ ForksDone \/ WaitLast \/ Drain \/ After

Next == Read \/ Pop \/ Execute \/ \E p \in Pids : Child(p)

Spec == Init /\ [][Next]_vars

(* The shell and its children go on when they can.  For Pop this is said   *)
(* without ENABLED, which costs TLC less: it can be taken whenever pc is   *)
(* "pop", and the other steps from there are those of children.  A child   *)
(* that waits in open() cannot go on.                                      *)
FairSpec ==
    /\ Spec
    /\ WF_vars(Read) /\ WF_vars(Execute)
    /\ []<>(pc # "pop") \/ []<><<pc = "pop" /\ UNCHANGED procs>>_vars
    /\ \A p \in Pids : WF_vars(Child(p))

-----------------------------------------------------------------------------
Opening(p) == procs[p].opens # NULL

ShellTypeOK ==
    /\ pos \in 0..Len(typed) /\ Len(buffer) <= pos
    /\ pc \in {"read", "pop", "segment", "fork", "wait", "drain", "after", "ended", "aborted"}
    /\ status \in -1..255
    /\ pc \in {"fork", "wait", "drain", "after"} => si \in 1..Len(segs) /\ fi \in 1..Len(Cmds) + 1
    /\ \A p \in Pids : /\ procs[p].st \in {"none", "forked", "running", "zombie"}
                      /\ Opening(p) => procs[p].opens \in procs[p].ends

(* However the input is cut into pieces (inside an operator, a quotation,  *)
(* a comment, a line with an error), the shell gets the same lines and     *)
(* errors: what parser_pop_next returns for what has arrived is what it    *)
(* would return if all the rest were there too.                            *)
PiecesDoNotMatter ==
    pc = "pop" => \A r \in {parser_pop_next(buffer)} :
        r.kind # "none" => parser_pop_next(buffer \o SubSeq(typed, pos + 1, Len(typed))) = r

(* What execute_command_line relies on: commands and connectives           *)
(* alternate, with a command at both ends, so that no segment is empty.    *)
LinesAlternate ==
    \A k \in 1..Len(popped) : popped[k].kind = "line" =>
        LET es == popped[k].line.exprs IN
        /\ Len(es) % 2 = 1
        /\ \A j \in 1..Len(es) : (j % 2 = 1) <=> (es[j].type = "COMMAND")

(* What the shell may expect of its parser: both of them.                  *)
LinesSound == PiecesDoNotMatter /\ LinesAlternate

(* Between two segments the shell has no pipe open, fork failures          *)
(* included.  (After a failed pipe() it has: the ones made before.)        *)
PipesClosed == pc \in {"read", "pop", "segment", "ended"} =>
    \A e \in shellEnds : failed /\ e[1][1] < pipelines

(* While the shell waits, somebody can go on: no circle of a reader that   *)
(* waits for the end of its input and processes, or the shell, that keep   *)
(* the other end of the pipe open.  A child that waits in open() for       *)
(* somebody to open the other end of a FIFO is no such circle: whether that*)
(* happens is up to the lines that were typed.                             *)
CanGoOn(p) == ~Opening(p) /\ (procs[p].st = "forked" \/
    (procs[p].st = "running" /\ (ToRead(p) # {} \/ MayEnd(p))))
NobodyHangs ==
    /\ pc = "wait" => procs[Last(pids)].st = "zombie" \/ \E p \in Pids : CanGoOn(p) \/ Opening(p)
    /\ pc = "drain" => \/ \A p \in Pids : procs[p].st \in {"none", "zombie"}
                       \/ \E p \in Pids : CanGoOn(p) \/ Opening(p)

(* What keeps the shell from hanging: all of these.                        *)
PipesSound == ShellTypeOK /\ PipesClosed /\ NobodyHangs

(* The status of a foreground pipeline is that of its last command,        *)
(* whoever of its processes, or of a background line, ends first.          *)
StatusOfLast ==
    (pc = "after" /\ status # -1 /\ ~line.is_background) =>
        status \in LET w == Last(Cmds) IN
            (IF IsExit(w) THEN {ExitCode(w)} ELSE IF IsCd(w) THEN {0, 1} ELSE {Code(w)})
                \cup (IF RedirectOut THEN {127} ELSE {})

(* The shell reads its whole input and ends: no pipeline hangs because a   *)
(* pipe end is open somewhere, and every waitpid is answered.  The one     *)
(* exception: a child, of a background line too, stays in open() of a FIFO *)
(* for ever because nobody opens the other end; so in tests.txt:288, where *)
(* that would be a later line: Drain waits for the child of the background *)
(* line, and the shell never reads the later one.  (The programs end when  *)
(* their input does; one that runs for ever, in the background too, would  *)
(* keep Drain waiting.)                                                    *)
ShellEnds == <>(pc \in {"ended", "aborted"}) \/ \E p \in Pids : <>[]Opening(p)

(* tests.txt:233: "false && echo 123" prints nothing, and as in bash, a    *)
(* segment runs after && only if the status is 0, after || only if not.    *)
ChainRespected ==
    pc = "fork" => /\ segs[si].sep = "AND" => status = 0
                   /\ segs[si].sep = "OR" => status # 0
=============================================================================
