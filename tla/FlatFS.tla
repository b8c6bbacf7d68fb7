------------------------------- MODULE FlatFS -------------------------------
(***************************************************************************)
(* What 3/userfs.h promises: a flat directory of files, each a sequence of *)
(* bytes, and descriptors with a position of their own.  There are no      *)
(* blocks here.  UserFS is shown to implement this specification.          *)
(***************************************************************************)
EXTENDS Integers, Sequences

CONSTANTS
    Names, Files,   \* file names; identities of files
    Fds,            \* descriptor numbers
    Zero,           \* the byte new space is filled with
    MaxSize,        \* MAX_FILE_SIZE
    Buffers,        \* what clients write
    ReadSizes,      \* how much they ask for
    NewSizes,       \* what they resize to
    Modes,          \* the access they ask for
    NULL

VARIABLES
    dir,        \* the file that has a name, or NULL
    content,    \* the bytes of a file
    handle,     \* an open descriptor: file, position and mode, or NULL
    errno,      \* ufs_errno
    result,     \* what the last call returned: a number and, for a read, bytes
    call        \* the last call: its name and arguments

vars == <<dir, content, handle, errno, result, call>>

Answer(err, ret, data) == errno' = err /\ result' = [ret |-> ret, data |-> data]
Refuse(err) == Answer(err, -1, <<>>) /\ UNCHANGED <<dir, content, handle>>
Done(ret) == Answer("NO_ERR", ret, <<>>)

Open(fd) == fd \in Fds /\ handle[fd] # NULL

(* A file somebody can still reach.                                        *)
InUse(f) == (\E n \in Names : dir[n] = f) \/ (\E fd \in Fds : Open(fd) /\ handle[fd].file = f)

(* A file nobody can reach any more is gone.                               *)
Forget == content' = [f \in Files |-> IF InUse(f)' THEN content[f] ELSE <<>>]

OpenFile(n, create, mode) ==
    \/ dir[n] = NULL /\ ~create /\ Refuse("NO_FILE")
    \/ /\ dir[n] # NULL \/ create
       /\ \E f \in Files, fd \in Fds :
            /\ Done(fd)
            /\ IF dir[n] # NULL THEN f = dir[n] ELSE ~InUse(f)
            /\ handle[fd] = NULL
            /\ dir' = [dir EXCEPT ![n] = f]
            /\ content' = [content EXCEPT ![f] = IF dir[n] = NULL THEN <<>> ELSE @]
            /\ handle' = [handle EXCEPT ![fd] =
                 [file |-> f, pos |-> 0,
                  mode |-> IF mode = {} THEN {"READ", "WRITE"} ELSE mode]]

Close(fd) ==
    \/ ~Open(fd) /\ Refuse("NO_FILE")
    \/ /\ Open(fd)
       /\ Done(0)
       /\ handle' = [handle EXCEPT ![fd] = NULL]
       /\ UNCHANGED dir
       /\ Forget

(* The name is free at once, the content stays for the open descriptors.   *)
Delete(n) ==
    \/ dir[n] = NULL /\ Refuse("NO_FILE")
    \/ /\ dir[n] # NULL
       /\ Done(0)
       /\ dir' = [dir EXCEPT ![n] = NULL]
       /\ UNCHANGED handle
       /\ Forget

(* Bytes from the position to the end, as many as asked for.               *)
Read(fd, n) ==
    \/ ~Open(fd) /\ Refuse("NO_FILE")
    \/ Open(fd) /\ "READ" \notin handle[fd].mode /\ Refuse("NO_PERMISSION")
    \/ /\ Open(fd) /\ "READ" \in handle[fd].mode
       /\ LET bytes == content[handle[fd].file]
              pos == handle[fd].pos
              end == IF pos + n < Len(bytes) THEN pos + n ELSE Len(bytes)
          IN /\ Answer("NO_ERR", end - pos, SubSeq(bytes, pos + 1, end))
             /\ handle' = [handle EXCEPT ![fd].pos = end]
       /\ UNCHANGED <<dir, content>>

(* The bytes replace the old ones from the position on and may extend the  *)
(* file; all of them are written or none.                                  *)
Write(fd, buf) ==
    \/ ~Open(fd) /\ Refuse("NO_FILE")
    \/ Open(fd) /\ "WRITE" \notin handle[fd].mode /\ Refuse("NO_PERMISSION")
    \/ /\ Open(fd) /\ "WRITE" \in handle[fd].mode
       /\ LET f == handle[fd].file
              pos == handle[fd].pos
              end == pos + Len(buf)
          IN \/ end > MaxSize /\ buf # <<>> /\ Refuse("NO_MEM")
             \/ /\ end <= MaxSize \/ buf = <<>>
                /\ Done(Len(buf))
                /\ handle' = [handle EXCEPT ![fd].pos = end]
                /\ content' = [content EXCEPT ![f] =
                     SubSeq(@, 1, pos) \o buf \o SubSeq(@, end + 1, Len(@))]
                /\ UNCHANGED dir

(* Truncate or fill up with zeros; descriptors behind the end move there.  *)
Resize(fd, n) ==
    \/ ~Open(fd) /\ Refuse("NO_FILE")
    \/ Open(fd) /\ "WRITE" \notin handle[fd].mode /\ Refuse("NO_PERMISSION")
    \/ /\ Open(fd) /\ "WRITE" \in handle[fd].mode
       /\ LET f == handle[fd].file
          IN \/ n > MaxSize /\ Refuse("NO_MEM")
             \/ /\ n <= MaxSize
                /\ Done(0)
                /\ handle' = [d \in Fds |->
                     IF Open(d) /\ handle[d].file = f /\ handle[d].pos > n
                     THEN [handle[d] EXCEPT !.pos = n] ELSE handle[d]]
                /\ content' = [content EXCEPT ![f] =
                     [i \in 1..n |-> IF i <= Len(@) THEN @[i] ELSE Zero]]
                /\ UNCHANGED dir

Destroy ==
    /\ dir' = [n \in Names |-> NULL]
    /\ handle' = [fd \in Fds |-> NULL]
    /\ Forget
    /\ errno' = "NO_ERR"
    /\ UNCHANGED result

Init ==
    /\ dir = [n \in Names |-> NULL]
    /\ content = [f \in Files |-> <<>>]
    /\ handle = [fd \in Fds |-> NULL]
    /\ errno = "NO_ERR"
    /\ result = [ret |-> 0, data |-> <<>>]
    /\ call = <<>>

Next ==
    \/ \E fd \in {0} \cup Fds :
         \/ call' = <<"close", fd>> /\ Close(fd)
         \/ \E n \in ReadSizes : call' = <<"read", fd, n>> /\ Read(fd, n)
         \/ \E buf \in Buffers : call' = <<"write", fd, buf>> /\ Write(fd, buf)
         \/ \E n \in NewSizes : call' = <<"resize", fd, n>> /\ Resize(fd, n)
    \/ \E n \in Names, create \in BOOLEAN, mode \in Modes :
         call' = <<"open", n, create, mode>> /\ OpenFile(n, create, mode)
    \/ \E n \in Names : call' = <<"delete", n>> /\ Delete(n)
    \/ call' = <<"destroy">> /\ Destroy

Spec == Init /\ [][Next]_vars
=============================================================================
