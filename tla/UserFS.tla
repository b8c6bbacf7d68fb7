------------------------------- MODULE UserFS -------------------------------
(***************************************************************************)
(* The in-memory file system of 3/userfs.cpp.  A file is a list of blocks; *)
(* every descriptor caches the block it used last and that block's index.  *)
(* Each action is one call of the API; the program has a single thread.    *)
(* Blocks have addresses; a cached pointer to a block that was freed       *)
(* becomes Dangling, so that it is never mistaken for a new block there.   *)
(*                                                                         *)
(* Following a Dangling pointer is undefined behaviour: behaviours are     *)
(* modelled up to the first call that does it.  CacheValid says in which   *)
(* states a descriptor has such a pointer.                                 *)
(***************************************************************************)
EXTENDS Integers, Sequences, FiniteSets, Functions

CONSTANTS
    Names,
    Files, Blocks,  \* addresses of struct file and struct block
    MaxFds,         \* bound on the size of file_descriptors
    Data, Zero,     \* bytes
    BlockSize,      \* BLOCK_SIZE
    MaxSize,        \* MAX_FILE_SIZE
    Buffers, ReadSizes, NewSizes,  \* arguments of write, read and resize
    Modes,          \* access flags given to open: a set of "READ", "WRITE"
    Dangling,       \* a pointer to memory that has been freed
    NULL

(* struct file, struct filedesc, and what of the latter a caller can see.  *)
FileRecord == [name : Names, refs : Nat, size : 0..MaxSize, blocks : Seq(Blocks),
               count : Nat, deleted : BOOLEAN]
Visible == [file : Files, pos : 0..MaxSize, mode : SUBSET {"READ", "WRITE"}]
Descriptor == [file : Files, pos : 0..MaxSize, cur : Blocks \cup {NULL, Dangling},
               idx : Int, mode : SUBSET {"READ", "WRITE"}]

ASSUME UserFSAssumption ==
    /\ MaxFds \in Nat /\ BlockSize \in Nat \ {0} /\ MaxSize \in Nat
    /\ Zero \in Data
    /\ Buffers \subseteq Seq(Data)
    /\ Modes \subseteq SUBSET {"READ", "WRITE"}
    /\ ReadSizes \subseteq Nat /\ NewSizes \subseteq Nat
    /\ Dangling \notin Blocks \cup {NULL}
    /\ NULL \notin Files \cup Blocks \cup FileRecord \cup Descriptor \cup Visible

VARIABLES
    listed,   \* the files linked into file_list
    file,     \* struct file, NULL for an address that is not allocated
    heap,     \* the allocated blocks
    mem,      \* block->memory
    desc,     \* file_descriptors: struct filedesc or NULL
    errno,    \* ufs_error_code
    result,   \* what the last call returned, and the bytes a read delivered
    call      \* the last call: its name and arguments, as the client sees it

vars == <<listed, file, heap, mem, desc, errno, result, call>>

Offsets == 0..BlockSize - 1
EmptyBlock == [o \in Offsets |-> Zero]
BlocksFor(n) == (n + BlockSize - 1) \div BlockSize
Least(a, b) == IF a < b THEN a ELSE b
Most(a, b) == IF a < b THEN b ELSE a

Answer(err, ret, data) == errno' = err /\ result' = [ret |-> ret, data |-> data]
Refuse(err) == Answer(err, -1, <<>>) /\ UNCHANGED <<listed, file, heap, mem, desc>>
Done(ret) == Answer("NO_ERR", ret, <<>>)

ValidFd(fd) == fd \in 1..Len(desc) /\ desc[fd] # NULL

(* find_file_by_name *)
Lookup(n) == {f \in listed : ~file[f].deleted /\ file[f].name = n}

(* Sequences of m different addresses that allocate_block can return; the  *)
(* memory of a free block counts as cleared, as a new block's is.          *)
Fresh(m) == {s \in [1..m -> Blocks \ heap] : \A i, j \in 1..m : s[i] = s[j] => i = j}

-----------------------------------------------------------------------------
(* A new descriptor goes into the first free entry of the vector.          *)
AddDescriptor(f, mode) ==
    LET d == [file |-> f, pos |-> 0, cur |-> NULL, idx |-> 0,
              mode |-> IF mode = {} THEN {"READ", "WRITE"} ELSE mode]
        free == {i \in 1..Len(desc) : desc[i] = NULL}
    IN \/ /\ free # {}
          /\ LET i == CHOOSE i \in free : \A j \in free : i <= j IN
               desc' = [desc EXCEPT ![i] = d] /\ Done(i)
       \/ /\ free = {} /\ Len(desc) < MaxFds
          /\ desc' = Append(desc, d) /\ Done(Len(desc) + 1)

OpenFile(n, create, mode) ==
    \/ Lookup(n) = {} /\ ~create /\ Refuse("NO_FILE")
    \/ /\ Lookup(n) = {} /\ create
       /\ \E f \in {g \in Files : file[g] = NULL} :
            /\ file' = [file EXCEPT ![f] =
                 [name |-> n, refs |-> 1, size |-> 0, blocks |-> <<>>, count |-> 0,
                  deleted |-> FALSE]]
            /\ listed' = listed \cup {f}
            /\ AddDescriptor(f, mode)
       /\ UNCHANGED <<heap, mem>>
    \/ /\ Lookup(n) # {}
       /\ \E f \in Lookup(n) :
            /\ file' = [file EXCEPT ![f].refs = @ + 1, ![f].deleted = FALSE]
            /\ AddDescriptor(f, mode)
       /\ UNCHANGED <<listed, heap, mem>>

(* Blocks behind and before b in the list s: none, or one.                 *)
After(s, b) == {s[i] : i \in {k \in 2..Len(s) : s[k - 1] = b}}
Before(s, b) == {s[i] : i \in {k \in 1..Len(s) - 1 : s[k + 1] = b}}

(* The block get_block_by_index finds without allocating one: the cached   *)
(* block, a neighbour of it, or what a walk over the list arrives at.      *)
Cached(d, i) ==
    IF d.cur = NULL THEN {}
    ELSE IF i = d.idx THEN {d.cur}
    ELSE IF i = d.idx + 1 THEN After(file[d.file].blocks, d.cur)
    ELSE IF i = d.idx - 1 THEN Before(file[d.file].blocks, d.cur)
    ELSE {}

Found(d, i) ==
    LET s == file[d.file].blocks IN
    IF Cached(d, i) # {} THEN Cached(d, i)
    ELSE IF i < Len(s) THEN {s[i + 1]} ELSE {}

(* The cached pointer may be followed.                                     *)
Followable(d) == d.cur # Dangling

(* Where in the list s block b is.                                         *)
Position(s, b) == CHOOSE k \in 1..Len(s) : s[k] = b

(* Where the i-th block is, or will be when blocks have been added.        *)
FirstIndex(d, i) ==
    LET f == file[d.file] IN
    IF Found(d, i) = {} THEN Len(f.blocks) + i + 1 - f.count
    ELSE Position(f.blocks, CHOOSE b \in Found(d, i) : TRUE)

(* The memory with buf stored from position pos of a file on, in the blocks*)
(* s[j] of it, j \in js; the j-th block in s is block j + shift of the file.*)
Stored(s, js, shift, pos, buf) ==
    [b \in Blocks |-> [o \in Offsets |->
        LET FilePos(j) == (j + shift) * BlockSize + o
            at == {j \in js : s[j] = b /\ FilePos(j) \in pos..pos + Len(buf) - 1}
        IN IF at = {} THEN mem[b][o] ELSE buf[FilePos(CHOOSE j \in at : TRUE) - pos + 1]]]

(* Write a non-empty buffer into the blocks from the k-th on; new ones are *)
(* added where the list is too short.  (file->last is read only right      *)
(* after it was set to such a new block, so the model does without it.)    *)
WriteBytes(fd, buf) ==
    LET d == desc[fd]
        f == file[d.file]
        end == d.pos + Len(buf)
        first == d.pos \div BlockSize
        k == FirstIndex(d, first)
        last == k + (end - 1) \div BlockSize - first
    IN \E new \in Fresh(Most(0, last - Len(f.blocks))) :
         LET s == f.blocks \o new IN
         /\ heap' = heap \cup Range(new)
         /\ mem' = Stored(s, k..last, first - k, d.pos, buf)
         /\ file' = [file EXCEPT ![d.file] =
              [f EXCEPT !.blocks = s, !.count = @ + Len(new), !.size = Most(@, end)]]
         /\ desc' = [desc EXCEPT ![fd] =
              [d EXCEPT !.pos = end, !.cur = s[last], !.idx = first + last - k]]
         /\ Done(Len(buf))
         /\ UNCHANGED listed

Write(fd, buf) ==
    \/ ~ValidFd(fd) /\ Refuse("NO_FILE")
    \/ ValidFd(fd) /\ "WRITE" \notin desc[fd].mode /\ Refuse("NO_PERMISSION")
    \/ /\ ValidFd(fd) /\ "WRITE" \in desc[fd].mode
       /\ \/ buf = <<>> /\ Done(0) /\ UNCHANGED <<listed, file, heap, mem, desc>>
          \/ buf # <<>> /\ desc[fd].pos + Len(buf) > MaxSize /\ Refuse("NO_MEM")
          \/ /\ buf # <<>> /\ desc[fd].pos + Len(buf) <= MaxSize
             /\ Followable(desc[fd])
             /\ WriteBytes(fd, buf)

(* Deliver bytes up to the end of the file, or of the list of blocks.      *)
ReadBytes(fd, n) ==
    LET d == desc[fd]
        f == file[d.file]
        first == d.pos \div BlockSize
        wanted == Least(n, f.size - d.pos)
        span == IF wanted = 0 THEN 1 ELSE (d.pos + wanted - 1) \div BlockSize - first + 1
    IN \E b \in Found(d, first) :
         LET k == Position(f.blocks, b)
             last == Least(k + span - 1, Len(f.blocks))
             end == Least(d.pos + wanted, (first + last - k + 1) * BlockSize)
         IN /\ desc' = [desc EXCEPT ![fd] =
                 [d EXCEPT !.pos = end, !.cur = f.blocks[last], !.idx = first + last - k]]
            /\ Answer("NO_ERR", end - d.pos,
                 [i \in 1..end - d.pos |->
                    LET p == d.pos + i - 1 IN
                    mem[f.blocks[k + p \div BlockSize - first]][p % BlockSize]])

Read(fd, n) ==
    \/ ~ValidFd(fd) /\ Refuse("NO_FILE")
    \/ ValidFd(fd) /\ "READ" \notin desc[fd].mode /\ Refuse("NO_PERMISSION")
    \/ /\ ValidFd(fd) /\ "READ" \in desc[fd].mode
       /\ LET d == desc[fd] IN
            IF d.pos < file[d.file].size /\ Found(d, d.pos \div BlockSize) # {}
            THEN Followable(d) /\ ReadBytes(fd, n)
            ELSE Done(0) /\ UNCHANGED desc
       /\ UNCHANGED <<listed, file, heap, mem>>

-----------------------------------------------------------------------------
(* The descriptors, with the cache of those of file f dropped.             *)
DropCaches(ds, f) ==
    [i \in DOMAIN ds |-> IF ds[i] # NULL /\ ds[i].file = f
                         THEN [ds[i] EXCEPT !.cur = NULL, !.idx = -1] ELSE ds[i]]

(* free_file_blocks and delete f. *)
FreeFile(f) ==
    /\ heap' = heap \ Range(file[f].blocks)
    /\ mem' = [b \in Blocks |-> IF b \in heap' THEN mem[b] ELSE EmptyBlock]
    /\ file' = [file EXCEPT ![f] = NULL]

(* The last descriptor of a deleted file takes the file with it.           *)
Close(fd) ==
    \/ ~ValidFd(fd) /\ Refuse("NO_FILE")
    \/ /\ ValidFd(fd)
       /\ desc' = [desc EXCEPT ![fd] = NULL]
       /\ LET f == desc[fd].file IN
            IF file[f].refs = 1 /\ file[f].deleted
            THEN FreeFile(f)
            ELSE file' = [file EXCEPT ![f].refs = @ - 1] /\ UNCHANGED <<heap, mem>>
       /\ Done(0)
       /\ UNCHANGED listed

(* Mutant: a file nobody has open is left to a close that never comes.     *)
MutantDelete(n) ==
    \/ Lookup(n) = {} /\ Refuse("NO_FILE")
    \/ \E f \in Lookup(n) :
         /\ listed' = listed \ {f}
         /\ desc' = DropCaches(desc, f)
         /\ file' = [file EXCEPT ![f].deleted = TRUE]
         /\ Done(0)
         /\ UNCHANGED <<heap, mem>>

(* The name goes at once, the file with its last descriptor.               *)
Delete(n) ==
    \/ Lookup(n) = {} /\ Refuse("NO_FILE")
    \/ \E f \in Lookup(n) :
         /\ listed' = listed \ {f}
         /\ desc' = DropCaches(desc, f)
         /\ IF file[f].refs = 0
            THEN FreeFile(f)
            ELSE file' = [file EXCEPT ![f].deleted = TRUE] /\ UNCHANGED <<heap, mem>>
         /\ Done(0)

(* Mutant: the rest of the block keeps its old bytes.                      *)
MutantCleared(b, from, to) == mem[b]

(* Bytes of block b, with the offsets of a range cleared.                  *)
Cleared(b, from, to) == [o \in Offsets |-> IF o \in from..to THEN Zero ELSE mem[b][o]]

(* Blocks are added; then the bytes behind the old end are cleared in what *)
(* is now the last block.                                                  *)
Grow(f, n) ==
    LET old == file[f].size
        to == Least(n, BlocksFor(old) * BlockSize)
        o == old % BlockSize
    IN \E new \in Fresh(Most(0, BlocksFor(n) - file[f].count)) :
         LET s == file[f].blocks \o new IN
         /\ heap' = heap \cup Range(new)
         /\ mem' = IF o # 0 /\ old \div BlockSize < BlocksFor(n)
                   THEN [mem EXCEPT ![s[Len(s)]] = Cleared(s[Len(s)], o, o + to - old - 1)]
                   ELSE mem
         /\ file' = [file EXCEPT ![f] =
              [file[f] EXCEPT !.blocks = s, !.count = @ + Len(new), !.size = n]]

(* Blocks are freed from the end of the list, and the rest of the last one *)
(* that stays is cleared.                                                  *)
Shrink(f, n) ==
    LET s == file[f].blocks
        freed == Most(0, file[f].count - BlocksFor(n))
        kept == SubSeq(s, 1, Len(s) - freed)
        gone == Range(s) \ Range(kept)
        tail == n % BlockSize
    IN /\ heap' = heap \ gone
       /\ mem' = [b \in Blocks |->
            IF b \in gone THEN EmptyBlock
            ELSE IF tail # 0 /\ kept # <<>> /\ b = kept[Len(kept)]
                 THEN Cleared(b, tail, BlockSize - 1) ELSE mem[b]]
       /\ file' = [file EXCEPT ![f] =
            [file[f] EXCEPT !.blocks = kept, !.count = @ - freed, !.size = n]]

(* Mutant: the cached block is kept.                                       *)
MutantClamp(f, n, gone) ==
    [i \in DOMAIN desc |->
        IF desc[i] # NULL /\ desc[i].file = f
        THEN [desc[i] EXCEPT !.pos = Least(@, n), !.cur = IF @ \in gone THEN Dangling ELSE @]
        ELSE desc[i]]

(* Descriptors of f behind the new end move there and forget their block;  *)
(* the others keep theirs, even when it is one of the blocks gone.         *)
Clamp(f, n, gone) ==
    [i \in DOMAIN desc |->
        IF desc[i] # NULL /\ desc[i].file = f /\ desc[i].pos > n
        THEN [desc[i] EXCEPT !.pos = n, !.cur = NULL, !.idx = -1]
        ELSE IF desc[i] # NULL /\ desc[i].file = f /\ desc[i].cur \in gone
        THEN [desc[i] EXCEPT !.cur = Dangling] ELSE desc[i]]

Resize(fd, n) ==
    \/ ~ValidFd(fd) /\ Refuse("NO_FILE")
    \/ ValidFd(fd) /\ "WRITE" \notin desc[fd].mode /\ Refuse("NO_PERMISSION")
    \/ ValidFd(fd) /\ "WRITE" \in desc[fd].mode /\ n > MaxSize /\ Refuse("NO_MEM")
    \/ /\ ValidFd(fd) /\ "WRITE" \in desc[fd].mode /\ n <= MaxSize
       /\ LET f == desc[fd].file IN
            /\ \/ n > file[f].size /\ Grow(f, n)
               \/ n < file[f].size /\ Shrink(f, n)
               \/ n = file[f].size /\ UNCHANGED <<file, heap, mem>>
            /\ desc' = Clamp(f, n, heap \ heap')
       /\ Done(0)
       /\ UNCHANGED listed

(* ufs_destroy frees the files that are listed and those that are open.    *)
Destroy ==
    LET open == {desc[i].file : i \in {j \in 1..Len(desc) : desc[j] # NULL}}
        gone == open \cup listed
    IN /\ desc' = <<>>
       /\ listed' = {}
       /\ file' = [f \in Files |-> IF f \in gone THEN NULL ELSE file[f]]
       /\ heap' = heap \ (UNION {Range(file[f].blocks) : f \in gone})
       /\ mem' = [b \in Blocks |-> IF b \in heap' THEN mem[b] ELSE EmptyBlock]
       /\ errno' = "NO_ERR"
       /\ UNCHANGED result

-----------------------------------------------------------------------------
Init ==
    /\ listed = {}
    /\ file = [f \in Files |-> NULL]
    /\ heap = {}
    /\ mem = [b \in Blocks |-> EmptyBlock]
    /\ desc = <<>>
    /\ errno = "NO_ERR"
    /\ result = [ret |-> 0, data |-> <<>>]
    /\ call = <<>>

Next ==
    \/ \E n \in Names, create \in BOOLEAN, mode \in Modes :
         call' = <<"open", n, create, mode>> /\ OpenFile(n, create, mode)
    \/ \E n \in Names : call' = <<"delete", n>> /\ Delete(n)
    \/ \E fd \in 0..MaxFds :
         \/ call' = <<"close", fd>> /\ Close(fd)
         \/ \E n \in ReadSizes : call' = <<"read", fd, n>> /\ Read(fd, n)
         \/ \E buf \in Buffers : call' = <<"write", fd, buf>> /\ Write(fd, buf)
         \/ \E n \in NewSizes : call' = <<"resize", fd, n>> /\ Resize(fd, n)
    \/ call' = <<"destroy">> /\ Destroy

Spec == Init /\ [][Next]_vars

-----------------------------------------------------------------------------
OpenFds == {i \in 1..Len(desc) : desc[i] # NULL}
Allocated == {f \in Files : file[f] # NULL}

UserFSTypeOK ==
    /\ listed \subseteq Allocated
    /\ file \in [Files -> FileRecord \cup {NULL}]
    /\ heap \subseteq Blocks
    /\ mem \in [Blocks -> [Offsets -> Data]]
    /\ desc \in Seq(Descriptor \cup {NULL})
    /\ \A i \in OpenFds : desc[i].file \in Allocated
    /\ Len(desc) <= MaxFds
    /\ errno \in {"NO_ERR", "NO_FILE", "NO_PERMISSION", "NO_MEM"}
    /\ result \in [ret : Int, data : Seq(Data)]

(* The block a descriptor has cached is a live block of its file, at the   *)
(* index it remembers: no call on another descriptor (delete, resize) frees*)
(* it behind the descriptor's back.  There is one exception: a read of zero*)
(* bytes caches the block that starts at the position, and a resize to that*)
(* very position frees it and leaves the pointer, since it only looks at   *)
(* descriptors behind the new end.                                         *)
CacheValid ==
    \A i \in OpenFds : desc[i].cur # NULL =>
        \/ /\ desc[i].idx \in 0..Len(file[desc[i].file].blocks) - 1
           /\ file[desc[i].file].blocks[desc[i].idx + 1] = desc[i].cur
           /\ desc[i].cur \in heap
        \/ /\ desc[i].cur = Dangling
           /\ 0 \in ReadSizes /\ desc[i].pos = desc[i].idx * BlockSize

(* The promise of ufs_resize, that open descriptors proceed from the end of*)
(* the truncated file: what they have cached can be followed.              *)
ProceedFromEnd == \A i \in OpenFds : Followable(desc[i])

(* Every allocated block is in the list of exactly one file, once ...      *)
BlocksOwned == heap = UNION {Range(file[f].blocks) : f \in Allocated}
BlocksOnce ==
    \A f, g \in Allocated : \A i \in DOMAIN file[f].blocks, j \in DOMAIN file[g].blocks :
        file[f].blocks[i] = file[g].blocks[j] => f = g /\ i = j

(* ... and every allocated file can be reached by name or by as many       *)
(* descriptors as it counts.                                               *)
FilesReachable ==
    \A f \in Allocated :
        /\ file[f].refs = Cardinality({i \in OpenFds : desc[i].file = f})
        /\ file[f].deleted <=> f \notin listed
        /\ file[f].refs = 0 => f \in listed

(* Nothing leaks and nothing is freed twice.                               *)
NoLeak == BlocksOwned /\ BlocksOnce /\ FilesReachable

(* A file has the blocks its size needs, no descriptor is behind its end,  *)
(* and the unused rest of its last block is zero.  The last part is what   *)
(* makes growing right: Grow clears the new last block, never the old one. *)
SizesFit ==
    \A f \in Allocated :
        file[f].count = Len(file[f].blocks) /\ Len(file[f].blocks) = BlocksFor(file[f].size)
PositionsInside == \A i \in OpenFds : desc[i].pos <= file[desc[i].file].size
ZeroTail ==
    \A f \in Allocated :
        LET s == file[f].blocks
            tail == file[f].size % BlockSize
        IN  tail # 0 => \A o \in tail..BlockSize - 1 : mem[s[Len(s)]][o] = Zero
TailClean == SizesFit /\ PositionsInside /\ ZeroTail

(* Every block is accounted for, and in the state its place demands.       *)
BlocksSound == UserFSTypeOK /\ NoLeak /\ TailClean

(* The promise of userfs.h: through the blocks and caches, every call does *)
(* what it would do to a plain sequence of bytes, and answers the same.  As*)
(* both specifications record the call, each one implements its namesake.  *)
Content(f) ==
    IF file[f] = NULL THEN <<>>
    ELSE [i \in 1..file[f].size |->
            mem[file[f].blocks[(i - 1) \div BlockSize + 1]][(i - 1) % BlockSize]]
Holder(n) == IF Lookup(n) = {} THEN NULL ELSE CHOOSE f \in Lookup(n) : TRUE
Handle(i) ==
    IF ValidFd(i) THEN [file |-> desc[i].file, pos |-> desc[i].pos, mode |-> desc[i].mode]
    ELSE NULL

Flat == INSTANCE FlatFS WITH
    Fds <- 1..MaxFds,
    dir <- [n \in Names |-> Holder(n)],
    content <- [f \in Files |-> Content(f)],
    handle <- [i \in 1..MaxFds |-> Handle(i)]

ImplementsFlatFS == Flat!Spec
=============================================================================
