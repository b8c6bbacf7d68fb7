-------------------------- MODULE UserFSRefinement --------------------------
(***************************************************************************)
(* Every call on blocks and caches does what FlatFS says of bytes.         *)
(***************************************************************************)
EXTENDS UserFSProofs

(* What a caller sees of a descriptor.                                     *)
Seen(d) == [file |-> d.file, pos |-> d.pos, mode |-> d.mode]

(* The refinement mapping, in every state that satisfies the invariant:    *)
(* one file behind a name, descriptors as they are seen, the bytes the     *)
(* blocks spell, and the files in use are those that are allocated.        *)
HolderRight(n) ==
    /\ \A f \in Lookup(n) : Holder(n) = f /\ f # NULL /\ f \in Allocated
    /\ Lookup(n) = {} => Holder(n) = NULL
    /\ Lookup(n) = {f \in listed : file[f].name = n}
HandleRight(i) ==
    /\ ValidFd(i) <=> i \in OpenFds
    /\ i \in OpenFds => Handle(i) = Seen(desc[i]) /\ Handle(i) # NULL
    /\ i \notin OpenFds => Handle(i) = NULL
ContentRight(f) ==
    /\ f \notin Allocated => Content(f) = <<>>
    /\ f \in Allocated =>
         /\ Content(f) \in Seq(Data) /\ Len(Content(f)) = file[f].size
         /\ \A p \in Nat : p < file[f].size => Content(f)[p + 1] = Spell(mem, file[f].blocks, p)

Mapped ==
    /\ \A n \in Names : HolderRight(n)
    /\ OpenFds \subseteq 1..MaxFds /\ \A i \in 0..MaxFds : HandleRight(i)
    /\ \A f \in Files : ContentRight(f)
    /\ \A f \in Files : Flat!InUse(f) <=> f \in Allocated

LEMMA SeenDescriptor ==
    ASSUME NEW d \in Descriptor
    PROVE  /\ Seen(d) \in Visible /\ Seen(d) # NULL
           /\ Seen(d).file = d.file /\ Seen(d).pos = d.pos /\ Seen(d).mode = d.mode
<1>1. Seen(d) \in Visible
  BY DEF Seen, Visible, Descriptor
<1>2. Seen(d) # NULL
  BY <1>1, UserFSAssumption
<1>. QED BY <1>1, <1>2 DEF Seen

(* A file's bytes are a sequence as long as its size.                      *)
LEMMA FileContent ==
    ASSUME FSInv, NEW f \in Allocated
    PROVE  ContentRight(f)
<1>0. UserFSTypeOK /\ SizesFit
  BY DEF FSInv, FilesSound
<1>1. PICK n \in Nat : n = file[f].size
  BY <1>0, FileFacts
<1>2. file[f] # NULL
  BY DEF Allocated
<1>. DEFINE s == file[f].blocks
            c == [i \in 1..n |-> mem[s[(i - 1) \div BlockSize + 1]][(i - 1) % BlockSize]]
<1>3. Content(f) = c
  BY <1>1, <1>2 DEF Content
<1>4. s \in Seq(Blocks) /\ Len(s) = BlocksFor(n) /\ Len(s) \in Nat
  BY <1>0, <1>1, FileFacts DEF SizesFit
<1>5. \A b \in Blocks, o \in Offsets : mem[b][o] \in Data
  BY <1>0 DEF UserFSTypeOK
<1>6. ASSUME NEW p \in Nat, p < n
      PROVE  c[p + 1] = Spell(mem, s, p) /\ c[p + 1] \in Data
  <2>1. p + 1 \in 1..n /\ (p + 1) - 1 = p
    BY <1>1, <1>6
  <2>2. c[p + 1] = Spell(mem, s, p)
    BY <2>1 DEF Spell
  <2>3. PICK k \in Nat, o \in Offsets : k = p \div BlockSize /\ o = p % BlockSize /\ k < Len(s)
    <3>1. /\ p \div BlockSize \in Nat /\ p % BlockSize \in Offsets
          /\ p \div BlockSize < BlocksFor(n)
      BY <1>6, PlaceOf
    <3>. HIDE DEF s
    <3>. QED BY <1>4, <3>1
  <2>4. s[k + 1] \in Blocks
    BY <1>4, <2>3
  <2>5. Spell(mem, s, p) \in Data
    BY <1>5, <2>3, <2>4 DEF Spell
  <2>. QED BY <2>2, <2>5
<1>7. \A i \in 1..n : c[i] \in Data
  <2>. SUFFICES ASSUME NEW i \in 1..n PROVE c[i] \in Data
    OBVIOUS
  <2>1. PICK p \in Nat : i = p + 1 /\ p < n
    <3>1. i - 1 \in Nat /\ i = (i - 1) + 1 /\ i - 1 < n
      BY <1>1
    <3>. QED BY <3>1
  <2>. QED BY <1>6, <2>1
<1>. HIDE DEF s
<1>8. c \in Seq(Data) /\ Len(c) = n
  BY <1>7
<1>. HIDE DEF c
<1>. QED BY <1>1, <1>3, <1>6, <1>8 DEF ContentRight, s

LEMMA MappingRight == FSInv => Mapped
<1>. SUFFICES ASSUME FSInv PROVE Mapped
  OBVIOUS
<1>0. UserFSTypeOK /\ NamesOnce /\ FilesReachable /\ listed \subseteq Allocated
  BY DEF FSInv, FilesSound, DescriptorsSound, UserFSTypeOK
<1>1. ASSUME NEW n \in Names PROVE HolderRight(n)
  <2>1. Lookup(n) = {f \in listed : file[f].name = n}
    BY <1>0 DEF Lookup, FilesReachable
  <2>2. ASSUME NEW f \in Lookup(n) PROVE Holder(n) = f /\ f # NULL /\ f \in Allocated
    <3>1. f \in listed /\ f \in Allocated /\ f # NULL
      BY <1>0, UserFSAssumption DEF Lookup, Allocated
    <3>2. \A g \in Lookup(n) : g = f
      BY <1>0, <3>1 DEF Lookup, NamesOnce
    <3>3. (CHOOSE g \in Lookup(n) : TRUE) \in Lookup(n)
      OBVIOUS
    <3>. QED BY <3>1, <3>2, <3>3 DEF Holder
  <2>. QED BY <2>1, <2>2 DEF HolderRight, Holder
<1>2. ASSUME NEW i \in 0..MaxFds PROVE HandleRight(i)
  <2>1. ValidFd(i) <=> i \in OpenFds
    BY DEF ValidFd, OpenFds
  <2>2. i \in OpenFds => Handle(i) = Seen(desc[i])
    BY <2>1 DEF Handle, Seen
  <2>3. i \in OpenFds => Seen(desc[i]) # NULL
    <3>1. i \in OpenFds => desc[i] \in Descriptor
      BY <1>0, DescFacts
    <3>. QED BY <3>1, SeenDescriptor
  <2>. QED BY <2>1, <2>2, <2>3 DEF HandleRight, Handle
<1>3. OpenFds \subseteq 1..MaxFds
  BY <1>0, UserFSAssumption DEF OpenFds, UserFSTypeOK
<1>4. ASSUME NEW f \in Files PROVE ContentRight(f)
  <2>1. CASE f \in Allocated
    BY <2>1, FileContent
  <2>2. CASE f \notin Allocated
    BY <2>2 DEF ContentRight, Content, Allocated
  <2>. QED BY <2>1, <2>2
<1>5. ASSUME NEW f \in Files PROVE Flat!InUse(f) <=> f \in Allocated
  <2>1. Flat!InUse(f) <=> \/ \E n \in Names : Holder(n) = f
                          \/ \E i \in 1..MaxFds : Handle(i) # NULL /\ Handle(i).file = f
    BY DEF Flat!InUse, Flat!Open
  <2>2. \A n \in Names : Holder(n) = f <=> f \in Lookup(n)
    BY <1>1, UserFSAssumption DEF HolderRight
  <2>3. \A i \in 1..MaxFds : Handle(i) # NULL /\ Handle(i).file = f <=> i \in FdsOf(f)
    <3>. SUFFICES ASSUME NEW i \in 1..MaxFds
                  PROVE  Handle(i) # NULL /\ Handle(i).file = f <=> i \in FdsOf(f)
      OBVIOUS
    <3>1. HandleRight(i)
      BY <1>2
    <3>2. i \in OpenFds => Seen(desc[i]).file = desc[i].file
      BY DEF Seen
    <3>. QED BY <3>1, <3>2 DEF HandleRight, FdsOf
  <2>4. (\E i \in 1..MaxFds : Handle(i) # NULL /\ Handle(i).file = f) <=> FdsOf(f) # {}
    <3>1. FdsOf(f) \subseteq 1..MaxFds
      BY <1>3 DEF FdsOf
    <3>. QED BY <2>3, <3>1
  <2>5. (\E n \in Names : Holder(n) = f) <=> f \in listed
    <3>1. f \in listed => file[f].name \in Names
      BY <1>0, FileFacts
    <3>2. \A n \in Names : f \in Lookup(n) <=> f \in listed /\ file[f].name = n
      BY <1>1 DEF HolderRight
    <3>. QED BY <2>2, <3>1, <3>2
  <2>6. FdsOf(f) # {} => f \in Allocated
    BY <1>0, DescFacts DEF FdsOf
  <2>7. f \in Allocated /\ f \notin listed => FdsOf(f) # {}
    <3>. SUFFICES ASSUME f \in Allocated, f \notin listed, FdsOf(f) = {} PROVE FALSE
      OBVIOUS
    <3>1. Reachable(f)
      BY <1>0, ReachableAll
    <3>2. Cardinality(FdsOf(f)) = 0
      <4>1. PICK S : S = FdsOf(f)
        OBVIOUS
      <4>2. Cardinality(S) = 0
        BY <4>1, FS_EmptySet
      <4>. QED BY <4>1, <4>2
    <3>. QED BY <3>1, <3>2 DEF Reachable
  <2>. QED BY <1>0, <2>1, <2>4, <2>5, <2>6, <2>7
<1>. QED BY <1>1, <1>2, <1>3, <1>4, <1>5 DEF Mapped

LEMMA MappingRightPrime == FSInv' => Mapped'
BY MappingRight, PTL

-----------------------------------------------------------------------------
(* What a step leaves as it was.                                           *)
SameDir == \A n \in Names : Holder(n)' = Holder(n)
SameHandles == \A i \in 1..MaxFds : Handle(i)' = Handle(i)

LEMMA HolderOf ==
    ASSUME Mapped, NEW n \in Names, NEW f, f \in listed, file[f].name = n
    PROVE  Holder(n) = f /\ f # NULL /\ Lookup(n) # {}
BY DEF Mapped, HolderRight

LEMMA HolderOfPrime ==
    ASSUME Mapped', NEW n \in Names, NEW f, f \in listed', file'[f].name = n
    PROVE  Holder(n)' = f
BY DEF Mapped, HolderRight

LEMMA NoHolder ==
    ASSUME Mapped, NEW n \in Names, \A f \in listed : file[f].name # n
    PROVE  Holder(n) = NULL /\ Lookup(n) = {}
BY DEF Mapped, HolderRight

LEMMA NoHolderPrime ==
    ASSUME Mapped', NEW n \in Names, \A f \in listed' : file'[f].name # n
    PROVE  Holder(n)' = NULL
BY DEF Mapped, HolderRight

(* A name keeps its file.                                                  *)
LEMMA KeptName ==
    ASSUME Mapped, Mapped', NEW n \in Names,
           \A f \in listed : file[f].name = n => f \in listed' /\ file'[f].name = n,
           \A f \in listed' : file'[f].name = n => f \in listed /\ file[f].name = n
    PROVE  Holder(n)' = Holder(n)
<1>1. CASE \E f \in listed : file[f].name = n
  BY <1>1, HolderOf, HolderOfPrime
<1>2. CASE \A f \in listed : file[f].name # n
  BY <1>2, NoHolder, NoHolderPrime
<1>. QED BY <1>1, <1>2

LEMMA KeptNames ==
    ASSUME Mapped, Mapped', listed' = listed, \A f \in listed : file'[f].name = file[f].name
    PROVE  SameDir
<1>. SUFFICES ASSUME NEW n \in Names PROVE Holder(n)' = Holder(n)
  BY DEF SameDir
<1>. QED BY KeptName

LEMMA KeptHandle ==
    ASSUME Mapped, Mapped', NEW i \in 1..MaxFds, i \in OpenFds' <=> i \in OpenFds,
           i \in OpenFds => Seen(desc'[i]) = Seen(desc[i])
    PROVE  Handle(i)' = Handle(i)
<1>1. HandleRight(i) /\ HandleRight(i)' /\ i \in 0..MaxFds
  BY UserFSAssumption DEF Mapped
<1>2. i \in OpenFds' => Handle(i)' = Seen(desc'[i])
  BY <1>1 DEF HandleRight
<1>3. i \notin OpenFds' => Handle(i)' = NULL
  BY <1>1 DEF HandleRight
<1>. QED BY <1>1, <1>2, <1>3 DEF HandleRight

(* A file's bytes are what its blocks spell.                               *)
LEMMA SameSequence ==
    ASSUME NEW s \in Seq(Data), NEW t \in Seq(Data), Len(s) = Len(t),
           \A p \in Nat : p < Len(s) => s[p + 1] = t[p + 1]
    PROVE  s = t
<1>1. ASSUME NEW i \in 1..Len(s) PROVE s[i] = t[i]
  <2>1. i - 1 \in Nat /\ (i - 1) + 1 = i /\ i - 1 < Len(s)
    OBVIOUS
  <2>2. PICK p \in Nat : p = i - 1
    BY <2>1
  <2>. QED BY <2>1, <2>2
<1>. QED BY <1>1

LEMMA Bytes ==
    ASSUME Mapped, NEW f, f \in Allocated, NEW c, c = Content(f)
    PROVE  /\ c \in Seq(Data) /\ Len(c) = file[f].size
           /\ \A p \in Nat : p < Len(c) => c[p + 1] = Spell(mem, file[f].blocks, p)
<1>1. ContentRight(f)
  BY DEF Mapped, Allocated
<1>. QED BY <1>1 DEF ContentRight

LEMMA BytesPrime ==
    ASSUME Mapped', NEW f, f \in Allocated', NEW c, c = Content(f)'
    PROVE  /\ c \in Seq(Data) /\ Len(c) = file'[f].size
           /\ \A p \in Nat : p < Len(c) => c[p + 1] = Spell(mem', file'[f].blocks, p)
<1>1. ContentRight(f)'
  BY DEF Mapped, Allocated
<1>. QED BY <1>1 DEF ContentRight

LEMMA KeptContent ==
    ASSUME Mapped, Mapped', NEW f, f \in Allocated, f \in Allocated', file'[f].size = file[f].size,
           \A p \in Nat : p < file[f].size =>
               Spell(mem', file'[f].blocks, p) = Spell(mem, file[f].blocks, p)
    PROVE  Content(f)' = Content(f)
<1>1. PICK c, d : c = Content(f) /\ d = Content(f)'
  OBVIOUS
<1>2. /\ c \in Seq(Data) /\ Len(c) = file[f].size
      /\ \A p \in Nat : p < Len(c) => c[p + 1] = Spell(mem, file[f].blocks, p)
  BY <1>1, Bytes
<1>3. /\ d \in Seq(Data) /\ Len(d) = file'[f].size
      /\ \A p \in Nat : p < Len(d) => d[p + 1] = Spell(mem', file'[f].blocks, p)
  BY <1>1, BytesPrime
<1>4. Len(c) = Len(d) /\ \A p \in Nat : p < Len(c) => c[p + 1] = d[p + 1]
  BY <1>2, <1>3
<1>5. c = d
  BY <1>2, <1>3, <1>4, SameSequence
<1>. QED BY <1>1, <1>5

LEMMA NoContent ==
    ASSUME Mapped, NEW f \in Files, f \notin Allocated
    PROVE  Content(f) = <<>>
BY DEF Mapped, ContentRight

LEMMA NoContentPrime ==
    ASSUME Mapped', NEW f \in Files, f \notin Allocated'
    PROVE  Content(f)' = <<>>
BY DEF Mapped, ContentRight

(* A file that keeps its blocks keeps its bytes if the memory in use stays.*)
LEMMA KeptBytes ==
    ASSUME FSInv, FSInv', Mapped, Mapped', NEW f, f \in Allocated, f \in Allocated', Keeps(f),
           \A b \in heap' : mem'[b] = mem[b]
    PROVE  Content(f)' = Content(f)
<1>1. PICK s, n : s = file[f].blocks /\ n = file[f].size
  OBVIOUS
<1>2. file'[f].blocks = s /\ file'[f].size = n
  BY <1>1 DEF Keeps
<1>3. s \in Seq(Blocks) /\ n \in Nat /\ Len(s) = BlocksFor(n) /\ Len(s) \in Nat
  BY <1>1, FileFacts DEF FSInv, FilesSound, SizesFit
<1>4. Range(s) \subseteq heap'
  <2>1. BlocksOwned'
    BY DEF FSInv, FilesSound
  <2>. QED BY <1>2, <2>1 DEF BlocksOwned
<1>5. ASSUME NEW p \in Nat, p < n PROVE Spell(mem', s, p) = Spell(mem, s, p)
  <2>1. PICK k \in Nat : k = p \div BlockSize /\ k < Len(s)
    BY <1>3, <1>5, PlaceOf
  <2>2. s[k + 1] \in Range(s)
    BY <1>3, <2>1 DEF Range
  <2>3. mem'[s[k + 1]] = mem[s[k + 1]]
    BY <1>4, <2>2
  <2>. QED BY <2>1, <2>3 DEF Spell
<1>. QED BY <1>1, <1>2, <1>5, KeptContent

(* Calls that do nothing.                                                  *)
LEMMA NothingSeen ==
    ASSUME UNCHANGED <<listed, file, heap, mem, desc>>
    PROVE  SameDir /\ SameHandles /\ \A f \in Files : Content(f)' = Content(f)
<1>1. \A n \in Names : Holder(n)' = Holder(n)
  BY DEF Holder, Lookup
<1>2. \A f \in Files : Content(f)' = Content(f)
  BY DEF Content
<1>3. \A i \in 1..MaxFds : Handle(i)' = Handle(i)
  BY DEF Handle, ValidFd
<1>. QED BY <1>1, <1>2, <1>3 DEF SameDir, SameHandles

LEMMA FlatRefuse ==
    ASSUME NEW e, Refuse(e)
    PROVE  Flat!Refuse(e)
<1>1. SameDir /\ SameHandles /\ \A f \in Files : Content(f)' = Content(f)
  BY NothingSeen DEF Refuse
<1>. QED BY <1>1 DEF Flat!Refuse, Refuse, Flat!Answer, Answer, SameDir, SameHandles

LEMMA FlatForget ==
    ASSUME Mapped, Mapped', Allocated' \subseteq Allocated,
           \A g \in Allocated' : Content(g)' = Content(g)
    PROVE  Flat!Forget
<1>1. ASSUME NEW f \in Files
      PROVE  Content(f)' = IF Flat!InUse(f)' THEN Content(f) ELSE <<>>
  <2>1. Flat!InUse(f)' <=> f \in Allocated'
    BY DEF Mapped
  <2>. QED BY <2>1, NoContentPrime
<1>. QED BY <1>1 DEF Flat!Forget

(* A number leads to a descriptor in both.                                 *)
LEMMA FlatOpen ==
    ASSUME Mapped, NEW fd \in 0..MaxFds
    PROVE  /\ Flat!Open(fd) <=> fd \in OpenFds
           /\ ValidFd(fd) <=> fd \in OpenFds
           /\ fd \in OpenFds => fd \in 1..MaxFds /\ Handle(fd) = Seen(desc[fd])
<1>1. HandleRight(fd) /\ OpenFds \subseteq 1..MaxFds
  BY DEF Mapped
<1>2. fd \in 1..MaxFds => (Flat!Open(fd) <=> Handle(fd) # NULL)
  BY DEF Flat!Open
<1>3. fd \notin 1..MaxFds => ~Flat!Open(fd)
  BY DEF Flat!Open
<1>. QED BY <1>1, <1>2, <1>3 DEF HandleRight

-----------------------------------------------------------------------------
(* Calls that change names, descriptors and counters.                      *)
LEMMA FlatClose ==
    ASSUME FSInv, FSInv', Mapped, Mapped', NEW fd \in 0..MaxFds, Close(fd)
    PROVE  Flat!Close(fd)
<1>0. /\ Flat!Open(fd) <=> fd \in OpenFds
      /\ ValidFd(fd) <=> fd \in OpenFds
      /\ fd \in OpenFds => fd \in 1..MaxFds
  BY FlatOpen
<1>1. CASE fd \notin OpenFds
  <2>1. Flat!Refuse("NO_FILE")
    BY <1>0, <1>1, FlatRefuse DEF Close
  <2>. QED BY <1>0, <1>1, <2>1 DEF Flat!Close
<1>2. CASE fd \in OpenFds
  <2>0. UserFSTypeOK /\ listed \subseteq Allocated /\ Allocated \subseteq Files
    BY DEF FSInv, UserFSTypeOK, Allocated
  <2>1. PICK f : f = desc[fd].file
    OBVIOUS
  <2>2. /\ desc' = [desc EXCEPT ![fd] = NULL] /\ Done(0) /\ listed' = listed
        /\ IF file[f].refs = 1 /\ file[f].deleted
           THEN FreeFile(f)
           ELSE file' = [file EXCEPT ![f].refs = @ - 1] /\ UNCHANGED <<heap, mem>>
    BY <1>0, <1>2, <2>1 DEF Close
  <2>3. f \in Allocated /\ f \in Files /\ file[f] \in FileRecord
    BY <1>2, <2>0, <2>1, DescFacts, FileFacts
  <2>4. /\ Allocated' \subseteq Allocated /\ \A b \in heap' : mem'[b] = mem[b]
        /\ \A g \in Allocated' : Keeps(g) /\ file'[g].name = file[g].name
    <3>1. CASE file[f].refs = 1 /\ file[f].deleted
      <4>1. FreeFile(f) /\ f \notin listed'
        BY <2>2, <2>3, <3>1 DEF FSInv, DescriptorsSound, FilesReachable
      <4>2. Frees(f)
        BY <2>2, <2>3, <4>1, FreeFileEffect
      <4>3. \A b \in heap' : mem'[b] = mem[b]
        BY <4>1, <4>2 DEF FreeFile, Frees
      <4>. QED BY <4>2, <4>3 DEF Frees
    <3>2. CASE ~(file[f].refs = 1 /\ file[f].deleted)
      <4>1. file' = [file EXCEPT ![f].refs = @ - 1] /\ mem' = mem
        BY <2>2, <3>2
      <4>2. PICK r : r = [file[f] EXCEPT !.refs = file[f].refs - 1]
                     /\ file' = [file EXCEPT ![f] = r]
        BY <2>0, <2>3, <4>1 DEF UserFSTypeOK
      <4>3. /\ r.name = file[f].name /\ r.size = file[f].size
            /\ r.blocks = file[f].blocks /\ r.count = file[f].count
        BY <2>3, <4>2 DEF FileRecord
      <4>4. file'[f] = r /\ \A g \in Files : g # f => file'[g] = file[g]
        BY <2>0, <2>3, <4>2 DEF UserFSTypeOK
      <4>5. \A g \in Files : Keeps(g) /\ file'[g].name = file[g].name
        BY <4>3, <4>4 DEF Keeps
      <4>6. Allocated' \subseteq Allocated
        BY <2>3, <4>4 DEF Allocated
      <4>. QED BY <2>0, <4>1, <4>5, <4>6
    <3>. QED BY <3>1, <3>2
  <2>5. SameDir
    <3>1. listed' \subseteq Allocated'
      BY DEF FSInv, UserFSTypeOK
    <3>. QED BY <2>2, <2>4, <3>1, KeptNames
  <2>6. Flat!Forget
    <3>1. \A g \in Allocated' : Content(g)' = Content(g)
      BY <2>4, KeptBytes
    <3>. QED BY <2>4, <3>1, FlatForget
  <2>7. OpenFds' = OpenFds \ {fd} /\ \A j \in OpenFds' : desc'[j] = desc[j]
    BY <1>2, <2>1, <2>2, ClosedCounts
  <2>8. ASSUME NEW i \in 1..MaxFds, i # fd PROVE Handle(i)' = Handle(i)
    <3>1. i \in OpenFds' <=> i \in OpenFds
      BY <2>7, <2>8
    <3>2. i \in OpenFds => Seen(desc'[i]) = Seen(desc[i])
      BY <2>7, <3>1
    <3>. QED BY <3>1, <3>2, KeptHandle
  <2>9. Handle(fd)' = NULL
    <3>1. HandleRight(fd)'
      BY DEF Mapped
    <3>. QED BY <2>7, <3>1 DEF HandleRight
  <2>10. [i \in 1..MaxFds |-> Handle(i)]' = [[i \in 1..MaxFds |-> Handle(i)] EXCEPT ![fd] = NULL]
    BY <2>8, <2>9
  <2>11. Flat!Done(0)
    BY <2>2 DEF Done, Answer, Flat!Done, Flat!Answer
  <2>. QED BY <1>0, <1>2, <2>5, <2>6, <2>10, <2>11 DEF Flat!Close, SameDir
<1>. QED BY <1>1, <1>2

LEMMA FlatDelete ==
    ASSUME FSInv, FSInv', Mapped, Mapped', NEW n \in Names, Delete(n)
    PROVE  Flat!Delete(n)
<1>0. /\ UserFSTypeOK /\ listed \subseteq Allocated /\ Allocated \subseteq Files
      /\ NamesOnce /\ HolderRight(n)
  BY DEF FSInv, FilesSound, UserFSTypeOK, Allocated, Mapped
<1>1. CASE Lookup(n) = {}
  <2>1. Flat!Refuse("NO_FILE")
    BY <1>1, FlatRefuse DEF Delete
  <2>2. Holder(n) = NULL
    BY <1>0, <1>1 DEF HolderRight
  <2>. QED BY <2>1, <2>2 DEF Flat!Delete
<1>2. CASE Lookup(n) # {}
  <2>1. PICK f \in Lookup(n) :
          /\ listed' = listed \ {f}
          /\ desc' = DropCaches(desc, f)
          /\ IF file[f].refs = 0
             THEN FreeFile(f)
             ELSE file' = [file EXCEPT ![f].deleted = TRUE] /\ UNCHANGED <<heap, mem>>
          /\ Done(0)
    BY <1>2 DEF Delete
  <2>2. f \in listed /\ file[f].name = n /\ f \in Allocated /\ f \in Files
    BY <1>0 DEF HolderRight
  <2>3. file[f] \in FileRecord
    BY <1>0, <2>2, FileFacts
  <2>4. /\ Allocated' \subseteq Allocated /\ \A b \in heap' : mem'[b] = mem[b]
        /\ \A g \in Allocated' : Keeps(g) /\ file'[g].name = file[g].name
    <3>1. CASE file[f].refs = 0
      <4>1. FreeFile(f) /\ listed' \subseteq listed /\ f \notin listed'
        BY <2>1, <3>1
      <4>2. Frees(f)
        BY <2>2, <4>1, FreeFileEffect
      <4>3. \A b \in heap' : mem'[b] = mem[b]
        BY <4>1, <4>2 DEF FreeFile, Frees
      <4>. QED BY <4>2, <4>3 DEF Frees
    <3>2. CASE file[f].refs # 0
      <4>1. file' = [file EXCEPT ![f].deleted = TRUE] /\ mem' = mem
        BY <2>1, <3>2
      <4>2. PICK r : r = [file[f] EXCEPT !.deleted = TRUE] /\ file' = [file EXCEPT ![f] = r]
        BY <1>0, <2>2, <4>1 DEF UserFSTypeOK
      <4>3. /\ r.name = file[f].name /\ r.size = file[f].size
            /\ r.blocks = file[f].blocks /\ r.count = file[f].count
        BY <2>3, <4>2 DEF FileRecord
      <4>4. file'[f] = r /\ \A g \in Files : g # f => file'[g] = file[g]
        BY <1>0, <2>2, <4>2 DEF UserFSTypeOK
      <4>5. \A g \in Files : Keeps(g) /\ file'[g].name = file[g].name
        BY <4>3, <4>4 DEF Keeps
      <4>6. Allocated' \subseteq Allocated
        BY <2>2, <4>4 DEF Allocated
      <4>. QED BY <1>0, <4>1, <4>5, <4>6
    <3>. QED BY <3>1, <3>2
  <2>5. listed' \subseteq Allocated'
    BY DEF FSInv, UserFSTypeOK
  <2>6. Holder(n)' = NULL
    <3>1. \A g \in listed' : file'[g].name # n
      BY <1>0, <2>1, <2>2, <2>4, <2>5 DEF NamesOnce
    <3>. QED BY <3>1, NoHolderPrime
  <2>7. ASSUME NEW m \in Names, m # n PROVE Holder(m)' = Holder(m)
    <3>1. \A g \in listed : file[g].name = m => g \in listed' /\ file'[g].name = m
      BY <2>1, <2>2, <2>4, <2>5, <2>7
    <3>2. \A g \in listed' : file'[g].name = m => g \in listed /\ file[g].name = m
      BY <2>1, <2>4, <2>5
    <3>. QED BY <3>1, <3>2, KeptName
  <2>8. [m \in Names |-> Holder(m)]' = [[m \in Names |-> Holder(m)] EXCEPT ![n] = NULL]
    BY <2>6, <2>7
  <2>9. Flat!Forget
    <3>1. \A g \in Allocated' : Content(g)' = Content(g)
      BY <2>4, KeptBytes
    <3>. QED BY <2>4, <3>1, FlatForget
  <2>10. SameHandles
    <3>. SUFFICES ASSUME NEW i \in 1..MaxFds PROVE Handle(i)' = Handle(i)
      BY DEF SameHandles
    <3>1. /\ OpenFds' = OpenFds
          /\ \A j \in OpenFds' : /\ desc'[j].file = desc[j].file
                                 /\ desc'[j] = desc[j] \/ Forgets(desc'[j], desc[j])
      BY <2>1, DroppedFds
    <3>2. i \in OpenFds => Seen(desc'[i]) = Seen(desc[i])
      BY <3>1 DEF Seen, Forgets
    <3>. QED BY <3>1, <3>2, KeptHandle
  <2>11. Flat!Done(0) /\ Holder(n) # NULL
    BY <1>0, <2>1 DEF Done, Answer, Flat!Done, Flat!Answer, HolderRight
  <2>. QED BY <2>8, <2>9, <2>10, <2>11 DEF Flat!Delete, SameHandles
<1>. QED BY <1>1, <1>2

LEMMA FlatDestroy ==
    ASSUME FSInv, FSInv', Mapped, Mapped', Destroy
    PROVE  Flat!Destroy
<1>1. listed' = {} /\ desc' = <<>> /\ errno' = "NO_ERR" /\ result' = result
  BY DEF Destroy
<1>2. Allocated' = {}
  <2>1. Len(desc') = 0
    BY <1>1
  <2>2. OpenFds' = {}
    <3>1. OpenFds' = {i \in 1..Len(desc') : desc'[i] # NULL}
      BY DEF OpenFds
    <3>. QED BY <2>1, <3>1
  <2>3. ASSUME NEW f \in Allocated' PROVE FALSE
    <3>1. FilesReachable'
      BY DEF FSInv, DescriptorsSound
    <3>2. file'[f].refs = Cardinality({i \in OpenFds' : desc'[i].file = f}) /\ file'[f].refs # 0
      BY <1>1, <3>1 DEF FilesReachable
    <3>3. {i \in OpenFds' : desc'[i].file = f} = {}
      BY <2>2
    <3>. QED BY <3>2, <3>3, FS_EmptySet
  <2>. QED BY <2>3
<1>3. \A n \in Names : Holder(n)' = NULL
  BY <1>1, NoHolderPrime
<1>4. \A i \in 1..MaxFds : Handle(i)' = NULL
  <2>1. \A i : ~(i \in 1..Len(desc'))
    BY <1>1
  <2>. QED BY <2>1 DEF Handle, ValidFd
<1>5. Flat!Forget
  BY <1>2, FlatForget
<1>. QED BY <1>1, <1>3, <1>4, <1>5 DEF Flat!Destroy


(* The new descriptor is seen at a number that was free.                   *)
LEMMA FlatOpened ==
    ASSUME FSInv, Mapped, Mapped', NEW f, NEW mode, NEW d, d = NewDescriptor(f, mode),
           NEW i, Opened(i, d)
    PROVE  /\ i \in 1..MaxFds /\ Handle(i) = NULL /\ Flat!Done(i)
           /\ [j \in 1..MaxFds |-> Handle(j)]' =
                [[j \in 1..MaxFds |-> Handle(j)] EXCEPT ![i] =
                    [file |-> f, pos |-> 0,
                     mode |-> IF mode = {} THEN {"READ", "WRITE"} ELSE mode]]
<1>1. /\ i \notin OpenFds /\ OpenFds' = OpenFds \cup {i}
      /\ desc'[i] = d /\ \A j \in OpenFds : desc'[j] = desc[j] /\ Done(i)
  BY DEF Opened
<1>2. i \in 1..MaxFds /\ i \in 0..MaxFds
  <2>1. OpenFds' \subseteq 1..MaxFds
    BY DEF Mapped
  <2>. QED BY <1>1, <2>1, UserFSAssumption
<1>3. HandleRight(i) /\ HandleRight(i)'
  BY <1>2 DEF Mapped
<1>4. Handle(i) = NULL /\ Handle(i)' = Seen(d)
  BY <1>1, <1>3 DEF HandleRight
<1>5. Seen(d) = [file |-> f, pos |-> 0,
                 mode |-> IF mode = {} THEN {"READ", "WRITE"} ELSE mode]
  BY DEF Seen, NewDescriptor
<1>6. ASSUME NEW j \in 1..MaxFds, j # i PROVE Handle(j)' = Handle(j)
  <2>1. j \in OpenFds' <=> j \in OpenFds
    BY <1>1, <1>6
  <2>2. j \in OpenFds => Seen(desc'[j]) = Seen(desc[j])
    BY <1>1
  <2>. QED BY <2>1, <2>2, KeptHandle
<1>7. Flat!Done(i)
  BY DEF Opened, Done, Answer, Flat!Done, Flat!Answer
<1>8. PICK x : x = Seen(d)
  OBVIOUS
<1>9. [j \in 1..MaxFds |-> Handle(j)]' = [[j \in 1..MaxFds |-> Handle(j)] EXCEPT ![i] = x]
  BY <1>2, <1>4, <1>6, <1>8
<1>. QED BY <1>2, <1>4, <1>5, <1>7, <1>8, <1>9

LEMMA FlatOpenNew ==
    ASSUME FSInv, FSInv', Mapped, Mapped', NEW n \in Names, NEW create \in BOOLEAN, create,
           NEW mode \in SUBSET {"READ", "WRITE"}, Lookup(n) = {},
           NEW f \in Files, file[f] = NULL, AddDescriptor(f, mode), heap' = heap, mem' = mem,
           listed' = listed \cup {f},
           file' = [file EXCEPT ![f] =
                      [name |-> n, refs |-> 1, size |-> 0, blocks |-> <<>>, count |-> 0,
                       deleted |-> FALSE]]
    PROVE  Flat!OpenFile(n, create, mode)
<1>0. /\ UserFSTypeOK /\ listed \subseteq Allocated /\ Allocated \subseteq Files
      /\ HolderRight(n) /\ f \notin Allocated
  BY DEF FSInv, UserFSTypeOK, Allocated, Mapped
<1>1. PICK d : d = NewDescriptor(f, mode)
  OBVIOUS
<1>2. PICK i \in Nat : Opened(i, d)
  BY <1>1, DescriptorAdded
<1>3. /\ i \in 1..MaxFds /\ Handle(i) = NULL /\ Flat!Done(i)
      /\ [j \in 1..MaxFds |-> Handle(j)]' =
           [[j \in 1..MaxFds |-> Handle(j)] EXCEPT ![i] =
               [file |-> f, pos |-> 0,
                mode |-> IF mode = {} THEN {"READ", "WRITE"} ELSE mode]]
  BY <1>1, <1>2, FlatOpened
<1>4. PICK r : /\ r = [name |-> n, refs |-> 1, size |-> 0, blocks |-> <<>>, count |-> 0,
                       deleted |-> FALSE]
               /\ file' = [file EXCEPT ![f] = r]
  OBVIOUS
<1>5. r.name = n /\ r.size = 0
  BY <1>4
<1>6. file'[f] = r /\ \A g \in Files : g # f => file'[g] = file[g]
  BY <1>0, <1>4 DEF UserFSTypeOK
<1>7. f \in Allocated' /\ Allocated \subseteq Allocated'
      /\ \A g \in Allocated' : g # f => g \in Allocated
  <2>1. f \in Allocated'
    BY DEF FSInv, UserFSTypeOK
  <2>2. Allocated \subseteq Allocated'
    BY <1>0, <1>6 DEF Allocated
  <2>3. \A g \in Allocated' : g # f => g \in Allocated
    BY <1>6 DEF Allocated
  <2>. QED BY <2>1, <2>2, <2>3
<1>8. Holder(n) = NULL /\ ~Flat!InUse(f)
  BY <1>0 DEF HolderRight, Mapped
<1>9. [m \in Names |-> Holder(m)]' = [[m \in Names |-> Holder(m)] EXCEPT ![n] = f]
  <2>1. Holder(n)' = f
    BY <1>5, <1>6, HolderOfPrime
  <2>2. ASSUME NEW m \in Names, m # n PROVE Holder(m)' = Holder(m)
    <3>1. \A g \in listed : file'[g] = file[g] /\ g # f
      BY <1>0, <1>6
    <3>2. \A g \in listed : file[g].name = m => g \in listed' /\ file'[g].name = m
      BY <3>1
    <3>3. \A g \in listed' : file'[g].name = m => g \in listed /\ file[g].name = m
      BY <1>5, <1>6, <2>2, <3>1
    <3>. QED BY <3>2, <3>3, KeptName
  <2>. QED BY <2>1, <2>2
<1>10. \A g \in Files : Content(g)' = Content(g)
  <2>. SUFFICES ASSUME NEW g \in Files PROVE Content(g)' = Content(g)
    OBVIOUS
  <2>1. CASE g = f
    <3>1. PICK c : c = Content(f)'
      OBVIOUS
    <3>2. c \in Seq(Data) /\ Len(c) = 0
      BY <1>5, <1>6, <1>7, <3>1, BytesPrime
    <3>3. c = <<>>
      BY <3>2, EmptySeq
    <3>. QED BY <1>0, <2>1, <3>1, <3>3, NoContent
  <2>2. CASE g # f /\ g \in Allocated
    <3>1. Keeps(g) /\ g \in Allocated'
      BY <1>6, <1>7, <2>2 DEF Keeps
    <3>. QED BY <2>2, <3>1, KeptBytes
  <2>3. CASE g # f /\ g \notin Allocated
    BY <1>7, <2>3, NoContent, NoContentPrime
  <2>. QED BY <2>1, <2>2, <2>3
<1>11. Content(f) = <<>>
  BY <1>0, NoContent
<1>12. [g \in Files |-> Content(g)]' = [[g \in Files |-> Content(g)] EXCEPT ![f] = <<>>]
  BY <1>10, <1>11
<1>13. [m \in Names |-> Holder(m)][n] = NULL /\ [j \in 1..MaxFds |-> Handle(j)][i] = NULL
  BY <1>3, <1>8
<1>. QED BY <1>3, <1>8, <1>9, <1>12, <1>13 DEF Flat!OpenFile

LEMMA FlatOpenOld ==
    ASSUME FSInv, FSInv', Mapped, Mapped', NEW n \in Names, NEW create \in BOOLEAN,
           NEW mode \in SUBSET {"READ", "WRITE"},
           NEW f, f \in Lookup(n), AddDescriptor(f, mode), heap' = heap, mem' = mem,
           listed' = listed, file' = [file EXCEPT ![f].refs = @ + 1, ![f].deleted = FALSE]
    PROVE  Flat!OpenFile(n, create, mode)
<1>0. /\ UserFSTypeOK /\ listed \subseteq Allocated /\ Allocated \subseteq Files
      /\ HolderRight(n)
  BY DEF FSInv, UserFSTypeOK, Allocated, Mapped
<1>1. f \in listed /\ f \in Files /\ f \in Allocated /\ Holder(n) = f /\ f # NULL
      /\ file[f] \in FileRecord
  BY <1>0, FileFacts DEF HolderRight
<1>2. PICK d : d = NewDescriptor(f, mode)
  OBVIOUS
<1>3. PICK i \in Nat : Opened(i, d)
  BY <1>1, <1>2, DescriptorAdded
<1>4. /\ i \in 1..MaxFds /\ Handle(i) = NULL /\ Flat!Done(i)
      /\ [j \in 1..MaxFds |-> Handle(j)]' =
           [[j \in 1..MaxFds |-> Handle(j)] EXCEPT ![i] =
               [file |-> f, pos |-> 0,
                mode |-> IF mode = {} THEN {"READ", "WRITE"} ELSE mode]]
  BY <1>2, <1>3, FlatOpened
<1>5. PICK r :
        /\ r = [file[f] EXCEPT !.refs = file[f].refs + 1, !.deleted = FALSE]
        /\ file' = [file EXCEPT ![f] = r]
  BY <1>0, <1>1 DEF UserFSTypeOK
<1>6. /\ r.name = file[f].name /\ r.size = file[f].size
      /\ r.blocks = file[f].blocks /\ r.count = file[f].count
  BY <1>1, <1>5 DEF FileRecord
<1>7. file'[f] = r /\ \A g \in Files : g # f => file'[g] = file[g]
  BY <1>0, <1>1, <1>5 DEF UserFSTypeOK
<1>8. \A g \in Files : Keeps(g) /\ file'[g].name = file[g].name
  BY <1>6, <1>7 DEF Keeps
<1>9. Allocated' = Allocated
  <2>1. f \in Allocated'
    BY <1>1 DEF FSInv, UserFSTypeOK
  <2>. QED BY <1>1, <1>7, <2>1 DEF Allocated
<1>10. SameDir
  BY <1>0, <1>8, KeptNames
<1>11. \A g \in Files : Content(g)' = Content(g)
  <2>. SUFFICES ASSUME NEW g \in Files PROVE Content(g)' = Content(g)
    OBVIOUS
  <2>1. CASE g \in Allocated
    BY <1>8, <1>9, <2>1, KeptBytes
  <2>2. CASE g \notin Allocated
    BY <1>9, <2>2, NoContent, NoContentPrime
  <2>. QED BY <2>1, <2>2
<1>12. [m \in Names |-> Holder(m)]' = [[m \in Names |-> Holder(m)] EXCEPT ![n] = f]
  BY <1>1, <1>10 DEF SameDir
<1>13. /\ [m \in Names |-> Holder(m)][n] = f /\ [j \in 1..MaxFds |-> Handle(j)][i] = NULL
       /\ [g \in Files |-> Content(g)]' = [[g \in Files |-> Content(g)] EXCEPT ![f] = @]
  BY <1>1, <1>4, <1>11
<1>. QED BY <1>1, <1>4, <1>12, <1>13 DEF Flat!OpenFile

LEMMA FlatOpenFile ==
    ASSUME FSInv, FSInv', Mapped, Mapped', NEW n \in Names, NEW create \in BOOLEAN,
           NEW mode \in Modes, OpenFile(n, create, mode)
    PROVE  Flat!OpenFile(n, create, mode)
<1>0. mode \in SUBSET {"READ", "WRITE"} /\ HolderRight(n)
  BY UserFSAssumption DEF Mapped
<1>1. CASE Lookup(n) = {} /\ ~create
  <2>1. Flat!Refuse("NO_FILE")
    BY <1>1, FlatRefuse DEF OpenFile
  <2>2. Holder(n) = NULL
    BY <1>0, <1>1 DEF HolderRight
  <2>. QED BY <1>1, <2>1, <2>2 DEF Flat!OpenFile
<1>2. CASE Lookup(n) = {} /\ create
  <2>1. PICK f \in Files :
          /\ file[f] = NULL
          /\ file' = [file EXCEPT ![f] =
               [name |-> n, refs |-> 1, size |-> 0, blocks |-> <<>>, count |-> 0,
                deleted |-> FALSE]]
          /\ listed' = listed \cup {f}
          /\ AddDescriptor(f, mode)
          /\ heap' = heap /\ mem' = mem
    BY <1>2 DEF OpenFile
  <2>. QED BY <1>0, <1>2, <2>1, FlatOpenNew
<1>3. CASE Lookup(n) # {}
  <2>1. PICK f \in Lookup(n) :
          /\ file' = [file EXCEPT ![f].refs = @ + 1, ![f].deleted = FALSE]
          /\ AddDescriptor(f, mode)
          /\ listed' = listed /\ heap' = heap /\ mem' = mem
    BY <1>3 DEF OpenFile
  <2>. QED BY <1>0, <2>1, FlatOpenOld
<1>. QED BY <1>1, <1>2, <1>3


-----------------------------------------------------------------------------
(* Calls that move a descriptor.                                           *)
LEMMA OneEntry ==
    ASSUME NEW S, NEW s \in Seq(S), NEW i \in 1..Len(s), NEW x \in S, NEW t, t = [s EXCEPT ![i] = x]
    PROVE  Len(t) = Len(s) /\ t[i] = x /\ \A j \in 1..Len(s) : j # i => t[j] = s[j]
OBVIOUS

LEMMA FlatMoved ==
    ASSUME FSInv, Mapped, Mapped', NEW fd, fd \in OpenFds, NEW p \in 0..MaxSize, NEW c \in Blocks,
           NEW x \in Int,
           desc' = [desc EXCEPT ![fd] = [desc[fd] EXCEPT !.pos = p, !.cur = c, !.idx = x]]
    PROVE  [i \in 1..MaxFds |-> Handle(i)]' =
             [[i \in 1..MaxFds |-> Handle(i)] EXCEPT ![fd].pos = p]
<1>0. /\ UserFSTypeOK /\ desc \in Seq(Descriptor \cup {NULL}) /\ fd \in 1..Len(desc)
      /\ desc[fd] \in Descriptor
  BY DescFacts DEF FSInv, UserFSTypeOK, OpenFds
<1>1. PICK d, e : e = desc[fd] /\ d = [e EXCEPT !.pos = p, !.cur = c, !.idx = x]
  OBVIOUS
<1>2. Moved(d, e, p, c, x)
  <2>1. e \in Descriptor /\ c \in Blocks \cup {NULL, Dangling}
    BY <1>0, <1>1
  <2>. QED BY <1>1, <2>1, MovedDescriptor
<1>3. desc' = [desc EXCEPT ![fd] = d]
  BY <1>1
<1>4. /\ Len(desc') = Len(desc) /\ desc'[fd] = d
      /\ \A i \in 1..Len(desc) : i # fd => desc'[i] = desc[i]
  <2>1. d \in Descriptor \cup {NULL}
    BY <1>2 DEF Moved
  <2>2. PICK t : t = desc'
    OBVIOUS
  <2>3. PICK e0 : e0 = desc
    OBVIOUS
  <2>4. e0 \in Seq(Descriptor \cup {NULL}) /\ fd \in 1..Len(e0) /\ t = [e0 EXCEPT ![fd] = d]
    BY <1>0, <1>3, <2>2, <2>3
  <2>5. Len(t) = Len(e0) /\ t[fd] = d /\ \A j \in 1..Len(e0) : j # fd => t[j] = e0[j]
    BY <2>1, <2>4, OneEntry
  <2>. QED BY <2>2, <2>3, <2>5
<1>5. OpenFds' = OpenFds
  <2>1. OpenFds' = {i \in 1..Len(desc) : desc'[i] # NULL}
    BY <1>4 DEF OpenFds
  <2>2. d # NULL
    BY <1>2 DEF Moved
  <2>. QED BY <1>4, <2>1, <2>2 DEF OpenFds
<1>6. fd \in 1..MaxFds /\ fd \in 0..MaxFds
  BY UserFSAssumption DEF Mapped
<1>7. Handle(fd) = Seen(e) /\ Handle(fd)' = Seen(d)
  <2>1. HandleRight(fd) /\ HandleRight(fd)'
    BY <1>6 DEF Mapped
  <2>. QED BY <1>1, <1>4, <1>5, <2>1 DEF HandleRight
<1>8. Seen(d) = [Seen(e) EXCEPT !.pos = p]
  BY <1>2 DEF Moved, Seen
<1>9. ASSUME NEW i \in 1..MaxFds, i # fd PROVE Handle(i)' = Handle(i)
  <2>1. i \in OpenFds => Seen(desc'[i]) = Seen(desc[i])
    BY <1>4, <1>9 DEF OpenFds
  <2>. QED BY <1>5, <2>1, KeptHandle
<1>10. PICK u, v : u = Handle(fd) /\ v = Handle(fd)' /\ v = [u EXCEPT !.pos = p]
  BY <1>7, <1>8
<1>. QED BY <1>6, <1>9, <1>10

(* The part of a sequence that a read delivers.                            *)
LEMMA PartOf ==
    ASSUME NEW c \in Seq(Data), NEW pos \in Nat, NEW end \in Nat, pos <= end, end <= Len(c),
           NEW b, b = [i \in 1..end - pos |-> c[pos + i]]
    PROVE  SubSeq(c, pos + 1, end) = b
<1>1. PICK m \in Nat : m = end - pos
  <2>1. end - pos \in Nat
    OBVIOUS
  <2>. QED BY <2>1
<1>2. b = [i \in 1..m |-> c[pos + i]]
  BY <1>1
<1>3. \A i \in 1..m : pos + i \in 1..Len(c)
  BY <1>1
<1>4. b \in Seq(Data) /\ Len(b) = m
  BY <1>2, <1>3
<1>5. SubSeq(c, pos + 1, end) \in Seq(Data) /\ Len(SubSeq(c, pos + 1, end)) = m
  <2>1. PICK k \in Nat : k = pos + 1 /\ k <= end + 1 /\ k >= 1
    OBVIOUS
  <2>2. end - k + 1 = m
    BY <1>1, <2>1
  <2>. QED BY <2>1, <2>2
<1>6. ASSUME NEW i \in 1..m PROVE SubSeq(c, pos + 1, end)[i] = c[pos + i]
  <2>1. (pos + 1) + i - 1 = pos + i
    BY <1>1
  <2>. QED BY <1>1, <1>5, <2>1
<1>7. PICK t : t = SubSeq(c, pos + 1, end)
  OBVIOUS
<1>8. t \in Seq(Data) /\ Len(t) = m /\ \A i \in 1..m : t[i] = b[i]
  BY <1>2, <1>5, <1>6, <1>7
<1>9. t = b
  BY <1>4, <1>8
<1>. QED BY <1>7, <1>9

LEMMA FlatRead ==
    ASSUME FSInv, FSInv', Mapped, Mapped', NEW fd \in 0..MaxFds, NEW n, n \in Nat,
           Read(fd, n)
    PROVE  Flat!Read(fd, n)
<1>0. /\ Flat!Open(fd) <=> fd \in OpenFds
      /\ ValidFd(fd) <=> fd \in OpenFds
      /\ fd \in OpenFds => fd \in 1..MaxFds /\ Handle(fd) = Seen(desc[fd])
  BY FlatOpen
<1>1. CASE fd \notin OpenFds
  <2>1. Flat!Refuse("NO_FILE")
    BY <1>0, <1>1, FlatRefuse DEF Read
  <2>. QED BY <1>0, <1>1, <2>1 DEF Flat!Read
<1>. SUFFICES ASSUME fd \in OpenFds PROVE Flat!Read(fd, n)
  BY <1>1
<1>2. PICK d, g, s, pos, f :
        d = desc[fd] /\ g = file[d.file] /\ s = g.blocks /\ pos = d.pos /\ f = d.file
  OBVIOUS
<1>3. /\ UserFSTypeOK /\ d \in Descriptor /\ f \in Allocated /\ pos \in Nat
      /\ g \in FileRecord /\ g.size \in Nat /\ Len(s) = BlocksFor(g.size) /\ Fits(d, g)
      /\ g = file[f]
  BY <1>2, OpenDescriptor DEF FSInv
<1>4. f \in Files /\ g.size \in 0..MaxSize /\ s \in Seq(Blocks)
  BY <1>2, <1>3, FileFacts
<1>5. PICK h : h = Handle(fd) /\ h.file = f /\ h.pos = pos /\ h.mode = d.mode
  BY <1>0, <1>2, <1>3, SeenDescriptor
<1>6. [i \in 1..MaxFds |-> Handle(i)][fd] = h
  BY <1>0, <1>5
<1>7. CASE "READ" \notin d.mode
  <2>1. Flat!Refuse("NO_PERMISSION")
    BY <1>0, <1>2, <1>7, FlatRefuse DEF Read
  <2>. QED BY <1>0, <1>5, <1>6, <1>7, <2>1 DEF Flat!Read
<1>8. CASE "READ" \in d.mode
  <2>1. PICK c : c = Content(f)
    OBVIOUS
  <2>2. /\ c \in Seq(Data) /\ Len(c) = g.size
        /\ \A p \in Nat : p < Len(c) => c[p + 1] = Spell(mem, s, p)
    BY <1>2, <1>3, <2>1, Bytes
  <2>3. UNCHANGED <<listed, file, heap, mem>>
    BY <1>0, <1>2, <1>8 DEF Read
  <2>4. SameDir
    BY <2>3, KeptNames
  <2>5. \A k \in Files : Content(k)' = Content(k)
    BY <2>3 DEF Content
  <2>. DEFINE End == IF pos + n < Len(c) THEN pos + n ELSE Len(c)
              H == [i \in 1..MaxFds |-> Handle(i)]
  <2>6. SUFFICES /\ Flat!Answer("NO_ERR", End - pos, SubSeq(c, pos + 1, End))
                 /\ H' = [H EXCEPT ![fd].pos = End]
    <3>1. [k \in Files |-> Content(k)][f] = c
      BY <1>4, <2>1
    <3>2. UNCHANGED <<[m \in Names |-> Holder(m)], [k \in Files |-> Content(k)]>>
      BY <2>4, <2>5 DEF SameDir
    <3>3. /\ "READ" \in h.mode /\ [k \in Files |-> Content(k)][h.file] = c /\ h.pos = pos
      BY <1>5, <1>8, <3>1
    <3>. DEFINE K == [k \in Files |-> Content(k)]
                E == IF H[fd].pos + n < Len(K[H[fd].file]) THEN H[fd].pos + n
                     ELSE Len(K[H[fd].file])
    <3>4. H[fd].pos = pos /\ K[H[fd].file] = c /\ "READ" \in H[fd].mode
      BY <1>6, <3>3
    <3>5. E = End
      BY <3>4
    <3>6. H' = [H EXCEPT ![fd].pos = E]
      BY <2>6, <3>5
    <3>7. Flat!Answer("NO_ERR", E - H[fd].pos, SubSeq(K[H[fd].file], H[fd].pos + 1, E))
      <4>. HIDE DEF H, K, E, End
      <4>. QED BY <2>6, <3>4, <3>5 DEF Flat!Answer
    <3>. QED BY <1>0, <3>2, <3>4, <3>6, <3>7, Zenon DEF Flat!Read
  <2>7. pos <= g.size
    BY <1>2, <1>3 DEF Fits
  <2>8. CASE pos < g.size
    <3>0. Followable(d)
      <4>1. ASSUME ~Followable(d) PROVE Found(d, pos \div BlockSize) = {Dangling}
        <5>1. d.cur = Dangling /\ d.cur # NULL
          BY <4>1, UserFSAssumption DEF Followable
        <5>2. Ahead(d)
          BY <1>3, <5>1 DEF Fits, CacheFits
        <5>3. pos \div BlockSize = d.idx
          BY <1>2, <5>2, AheadPlace
        <5>4. Cached(d, pos \div BlockSize) = {Dangling}
          BY <5>1, <5>3 DEF Cached
        <5>. QED BY <5>4 DEF Found
      <4>. QED BY <1>0, <1>2, <1>8, <2>8, <4>1 DEF Read
    <3>1. Found(d, pos \div BlockSize) # {}
      <4>1. PICK k \in Nat : k = pos \div BlockSize /\ k < Len(s)
        <5>. HIDE DEF H, End
        <5>1. PICK z \in Nat : z = g.size /\ pos < z
          BY <1>3, <2>8
        <5>2. pos \div BlockSize \in Nat /\ pos \div BlockSize < BlocksFor(z)
          BY <1>3, <5>1, PlaceOf
        <5>. QED BY <1>3, <5>1, <5>2
      <4>2. k < Len(s) => Found(d, k) = {s[k + 1]}
        BY <1>2, <3>0, <4>1, FoundBlock
      <4>. QED BY <4>1, <4>2
    <3>2. ReadBytes(fd, n)
      BY <1>0, <1>2, <1>8, <2>8, <3>1 DEF Read
    <3>3. PICK end \in Nat, q \in Nat : Delivered(fd, n, end, q)
      BY <1>2, <2>8, <3>0, <3>2, ReadEffect
    <3>4. /\ end = pos + Least(n, g.size - pos) /\ end <= g.size
          /\ end - pos \in Nat /\ q < Len(s)
          /\ desc' = [desc EXCEPT ![fd] = [d EXCEPT !.pos = end, !.cur = s[q + 1], !.idx = q]]
          /\ Answer("NO_ERR", end - pos, [i \in 1..end - pos |-> Spell(mem, s, pos + i - 1)])
      BY <1>2, <3>3 DEF Delivered
    <3>5. end = End
      <4>1. \A x, y, z \in Nat :
              x + Least(y, z - x) = IF x + y < z THEN x + y ELSE z
        BY DEF Least
      <4>2. PICK z \in Nat, y \in Nat : z = g.size /\ y = n /\ z = Len(c)
        BY <1>3, <2>2
      <4>3. end = pos + Least(y, z - pos)
        BY <3>4, <4>2
      <4>4. end = IF pos + y < z THEN pos + y ELSE z
        BY <1>3, <4>1, <4>3
      <4>. QED BY <4>2, <4>4
    <3>6. H' = [H EXCEPT ![fd].pos = end]
      <4>1. PICK b, x : b = s[q + 1] /\ x = q
        OBVIOUS
      <4>2. b \in Blocks /\ x \in Int /\ end \in 0..MaxSize
        <5>1. q + 1 \in 1..Len(s)
          BY <1>4, <3>4
        <5>. QED BY <1>4, <3>4, <4>1, <5>1, UserFSAssumption
      <4>3. desc' = [desc EXCEPT ![fd] = [desc[fd] EXCEPT !.pos = end, !.cur = b, !.idx = x]]
        BY <1>2, <3>4, <4>1
      <4>. QED BY <4>2, <4>3, FlatMoved
    <3>7. SubSeq(c, pos + 1, end) = [i \in 1..end - pos |-> Spell(mem, s, pos + i - 1)]
      <4>1. PICK b : b = [i \in 1..end - pos |-> c[pos + i]]
        OBVIOUS
      <4>2. pos <= end /\ end <= Len(c)
        BY <1>3, <2>2, <3>4
      <4>3. SubSeq(c, pos + 1, end) = b
        BY <1>3, <2>2, <4>1, <4>2, PartOf
      <4>4. ASSUME NEW i \in 1..end - pos PROVE c[pos + i] = Spell(mem, s, pos + i - 1)
        <5>0. end <= Len(c) /\ Len(c) \in Nat /\ end \in Nat /\ pos \in Nat
          BY <1>3, <2>2, <4>2
        <5>1. PICK p \in Nat : p = pos + i - 1 /\ p < Len(c) /\ p + 1 = pos + i
          BY <5>0
        <5>. QED BY <2>2, <5>1
      <4>. QED BY <4>1, <4>3, <4>4
    <3>8. Flat!Answer("NO_ERR", end - pos, SubSeq(c, pos + 1, end))
      <4>1. PICK b : b = SubSeq(c, pos + 1, end)
        OBVIOUS
      <4>2. Answer("NO_ERR", end - pos, b)
        BY <3>4, <3>7, <4>1
      <4>3. Flat!Answer("NO_ERR", end - pos, b)
        BY <4>2 DEF Answer, Flat!Answer
      <4>. QED BY <4>1, <4>3
    <3>. QED BY <3>5, <3>6, <3>8
  <2>9. CASE pos = g.size
    <3>1. Done(0) /\ UNCHANGED desc
      BY <1>0, <1>2, <1>3, <1>8, <2>9 DEF Read
    <3>2. End = pos /\ End - pos = 0
      BY <1>3, <2>2, <2>9
    <3>3. H' = H
      <4>1. SameHandles
        BY <2>3, <3>1, NothingSeen
      <4>. QED BY <4>1 DEF SameHandles
    <3>4. H = [H EXCEPT ![fd].pos = pos]
      <4>1. h = [h EXCEPT !.pos = pos]
        BY <1>0, <1>2, <1>5 DEF Seen
      <4>. QED BY <1>6, <4>1
    <3>5. SubSeq(c, pos + 1, pos) = <<>>
      <4>1. PICK t : t = SubSeq(c, pos + 1, pos)
        OBVIOUS
      <4>2. t \in Seq(Data) /\ Len(t) = 0
        BY <1>3, <2>2, <4>1
      <4>3. t = <<>>
        BY <4>2, EmptySeq
      <4>. QED BY <4>1, <4>3
    <3>6. Flat!Answer("NO_ERR", 0, <<>>)
      BY <3>1 DEF Done, Answer, Flat!Answer
    <3>. QED BY <3>2, <3>3, <3>4, <3>5, <3>6
  <2>. QED BY <1>3, <2>7, <2>8, <2>9
<1>. QED BY <1>7, <1>8

-----------------------------------------------------------------------------
(* Bytes that replace those of a sequence from a position on.              *)
SplicedTo(w, c, pos, buf, end) ==
    /\ w \in Seq(Data) /\ Len(w) = Most(Len(c), end)
    /\ \A p \in Nat : p < Len(w) =>
         w[p + 1] = IF p \in pos..end - 1 THEN buf[p - pos + 1] ELSE c[p + 1]

Rests(z, c, end, m) ==
    z \in Seq(Data) /\ Len(z) = m /\ \A i \in 1..m : z[i] = c[end + i]

LEMMA RestOf ==
    ASSUME NEW c \in Seq(Data), NEW end \in Nat, NEW m \in Nat, m = Most(0, Len(c) - end),
           NEW z, z = SubSeq(c, end + 1, Len(c))
    PROVE  Rests(z, c, end, m)
<1>1. PICK l \in Nat : l = Len(c) /\ z = SubSeq(c, end + 1, l)
  OBVIOUS
<1>2. CASE end <= l
  <2>1. PICK b : b = [i \in 1..l - end |-> c[end + i]]
    OBVIOUS
  <2>2. SubSeq(c, end + 1, l) = b
    BY <1>1, <1>2, <2>1, PartOf
  <2>3. m = l - end
    BY <1>1, <1>2 DEF Most
  <2>4. \A i \in 1..m : end + i \in 1..Len(c)
    BY <1>1, <1>2, <2>3
  <2>5. z = [i \in 1..m |-> c[end + i]]
    BY <1>1, <2>1, <2>2, <2>3
  <2>6. z \in Seq(Data) /\ Len(z) = m /\ \A i \in 1..m : z[i] = c[end + i]
    BY <2>4, <2>5
  <2>. QED BY <2>6 DEF Rests
<1>3. CASE end > l
  <2>1. m = 0
    BY <1>1, <1>3 DEF Most
  <2>2. z \in Seq(Data) /\ Len(z) = 0
    <3>1. PICK k \in Nat : k = end + 1 /\ k >= 1 /\ k > l
      BY <1>1, <1>3
    <3>2. z = SubSeq(c, k, l)
      BY <1>1, <3>1
    <3>. QED BY <1>1, <3>1, <3>2
  <2>. QED BY <2>1, <2>2 DEF Rests
<1>. QED BY <1>1, <1>2, <1>3

LEMMA Splice ==
    ASSUME NEW c \in Seq(Data), NEW buf \in Seq(Data), NEW pos \in Nat, pos <= Len(c),
           NEW end \in Nat, end = pos + Len(buf), NEW w,
           w = SubSeq(c, 1, pos) \o buf \o SubSeq(c, end + 1, Len(c))
    PROVE  SplicedTo(w, c, pos, buf, end)
<1>0. PICK l \in Nat, b \in Nat : l = Len(c) /\ b = Len(buf) /\ end = pos + b /\ pos <= l
  OBVIOUS
<1>1. PICK m \in Nat : m = Most(0, l - end) /\ end + m = Most(l, end)
  <2>1. Most(0, l - end) \in Nat /\ end + Most(0, l - end) = Most(end, l)
    BY EnoughBlocks
  <2>2. Most(end, l) = Most(l, end)
    BY DEF Most
  <2>. QED BY <2>1, <2>2
<1>2. PICK a, z : a = SubSeq(c, 1, pos) /\ z = SubSeq(c, end + 1, Len(c))
  OBVIOUS
<1>3. a \in Seq(Data) /\ Len(a) = pos /\ \A i \in 1..pos : a[i] = c[i]
  <2>1. \A i \in 1..pos : 1 + i - 1 = i
    OBVIOUS
  <2>. QED BY <1>0, <1>2, <2>1
<1>4. z \in Seq(Data) /\ Len(z) = m /\ \A i \in 1..m : z[i] = c[end + i]
  <2>1. m = Most(0, Len(c) - end)
    BY <1>0, <1>1
  <2>2. Rests(z, c, end, m)
    BY <1>2, <2>1, RestOf
  <2>. QED BY <2>2 DEF Rests
<1>5. PICK y : y = a \o buf
  OBVIOUS
<1>6. /\ y \in Seq(Data) /\ Len(y) = end
      /\ \A i \in 1..end : y[i] = IF i <= pos THEN a[i] ELSE buf[i - pos]
  BY <1>0, <1>3, <1>5, ConcatProperties
<1>7. /\ w \in Seq(Data) /\ Len(w) = end + m
      /\ \A i \in 1..end + m : w[i] = IF i <= end THEN y[i] ELSE z[i - end]
  <2>1. w = y \o z
    BY <1>2, <1>5
  <2>2. /\ y \o z \in Seq(Data) /\ Len(y \o z) = Len(y) + Len(z)
        /\ \A i \in 1..Len(y) + Len(z) : (y \o z)[i] = IF i <= Len(y) THEN y[i] ELSE z[i - Len(y)]
    BY <1>4, <1>6, ConcatProperties
  <2>3. Len(y) = end /\ Len(z) = m
    BY <1>4, <1>6
  <2>. QED BY <2>1, <2>2, <2>3
<1>9. ASSUME NEW p \in Nat, p < end + m
      PROVE  w[p + 1] = IF p \in pos..end - 1 THEN buf[p - pos + 1] ELSE c[p + 1]
  <2>1. PICK i \in Nat : i = p + 1 /\ i \in 1..end + m
    BY <1>9
  <2>2. CASE p < pos
    <3>1. i \in 1..pos /\ i <= end /\ i <= pos /\ i \in 1..end /\ p \notin pos..end - 1
      BY <1>0, <2>1, <2>2
    <3>2. w[i] = y[i] /\ y[i] = a[i] /\ a[i] = c[i]
      BY <1>3, <1>6, <1>7, <2>1, <3>1
    <3>. QED BY <2>1, <3>1, <3>2
  <2>3. CASE pos <= p /\ p < end
    <3>1. /\ ~(i <= pos) /\ i <= end /\ i \in 1..end /\ p \in pos..end - 1
          /\ i - pos = p - pos + 1
      BY <2>1, <2>3
    <3>2. w[i] = buf[i - pos]
      BY <1>6, <1>7, <2>1, <3>1
    <3>. QED BY <2>1, <3>1, <3>2
  <2>4. CASE end <= p
    <3>1. PICK j \in 1..m : j = i - end /\ end + j = i
      <4>1. i - end \in 1..m /\ end + (i - end) = i
        BY <1>9, <2>1, <2>4
      <4>. QED BY <4>1
    <3>2. ~(i <= end) /\ p \notin pos..end - 1
      BY <2>1, <2>4
    <3>3. w[i] = z[j] /\ z[j] = c[i]
      BY <1>4, <1>7, <2>1, <3>1, <3>2
    <3>. QED BY <2>1, <3>2, <3>3
  <2>5. p < pos \/ (pos <= p /\ p < end) \/ end <= p
    OBVIOUS
  <2>. QED BY <2>2, <2>3, <2>4, <2>5
<1>. QED BY <1>0, <1>1, <1>7, <1>9 DEF SplicedTo

(* A rewritten file is the only one whose bytes change.                    *)
LEMMA OtherContents ==
    ASSUME FSInv, Mapped, Mapped', NEW f, f \in Allocated, NEW r, Rewrites(f, r)
    PROVE  /\ SameDir /\ Allocated' = Allocated /\ file'[f] = r
           /\ \A g \in Files : g # f => Content(g)' = Content(g)
           /\ r.blocks \in Seq(Blocks) /\ r.size \in 0..MaxSize /\ r.size \in Nat
           /\ Len(r.blocks) = BlocksFor(r.size)
<1>1. /\ Allocated' = Allocated /\ file'[f] = r
      /\ \A g \in Files : g # f => file'[g] = file[g]
      /\ r.blocks \in Seq(Blocks) /\ r.size \in 0..MaxSize /\ r.size \in Nat
      /\ Len(r.blocks) = BlocksFor(r.size)
  BY RewrittenFile
<1>2. \A g \in Allocated : g # f => \A p \in Nat :
        p \div BlockSize < Len(file[g].blocks) =>
            Spell(mem', file[g].blocks, p) = Spell(mem, file[g].blocks, p)
  BY RewrittenFile
<1>3. r.name = file[f].name /\ listed' = listed
  BY DEF Rewrites
<1>4. UserFSTypeOK /\ SizesFit /\ listed \subseteq Allocated /\ Allocated \subseteq Files
  BY DEF FSInv, FilesSound, UserFSTypeOK, Allocated
<1>5. SameDir
  <2>1. \A g \in listed : file'[g].name = file[g].name
    BY <1>1, <1>3, <1>4
  <2>. QED BY <1>3, <2>1, KeptNames
<1>6. ASSUME NEW g \in Files, g # f PROVE Content(g)' = Content(g)
  <2>1. CASE g \in Allocated
    <3>1. PICK n \in Nat : n = file[g].size
      BY <1>4, <2>1, FileFacts
    <3>2. PICK s : s = file[g].blocks /\ Len(s) = BlocksFor(n)
      BY <1>4, <2>1, <3>1 DEF SizesFit
    <3>3. ASSUME NEW p \in Nat, p < n PROVE Spell(mem', s, p) = Spell(mem, s, p)
      <4>1. p \div BlockSize < Len(s)
        BY <3>2, <3>3, PlaceOf
      <4>. QED BY <1>2, <1>6, <2>1, <3>2, <4>1
    <3>4. file'[g].blocks = s /\ file'[g].size = n /\ g \in Allocated'
      BY <1>1, <1>6, <2>1, <3>1, <3>2
    <3>. QED BY <2>1, <3>1, <3>2, <3>3, <3>4, KeptContent
  <2>2. CASE g \notin Allocated
    BY <1>1, <2>2, NoContent, NoContentPrime
  <2>. QED BY <2>1, <2>2
<1>. QED BY <1>1, <1>5, <1>6


(* The old bytes stay where they are when blocks are added.                *)
LEMMA SpelledFurther ==
    ASSUME NEW m, NEW s, NEW t, NEW n \in Nat, Len(s) = BlocksFor(n), Begins(s, t),
           NEW p \in Nat, p < n
    PROVE  Spell(m, t, p) = Spell(m, s, p)
<1>1. p \div BlockSize \in Nat /\ p \div BlockSize < BlocksFor(n)
  BY PlaceOf
<1>2. PICK k \in Nat : k = p \div BlockSize /\ k < Len(s)
  BY <1>1
<1>3. BlocksFor(n) \in Nat
  BY BlocksForSize
<1>4. k + 1 \in 1..Len(s)
  BY <1>2, <1>3
<1>5. t[k + 1] = s[k + 1]
  BY <1>4 DEF Begins
<1>. QED BY <1>2, <1>5 DEF Spell

LEMMA WrittenContent ==
    ASSUME FSInv, FSInv', Mapped, Mapped', NEW fd, fd \in OpenFds, NEW buf \in Seq(Data),
           NEW r, NEW q, Wrote(fd, buf, r, q),
           NEW f, f = desc[fd].file, NEW pos, pos = desc[fd].pos, NEW c, c = Content(f),
           NEW end \in Nat, end = pos + Len(buf), NEW w, SplicedTo(w, c, pos, buf, end)
    PROVE  Content(f)' = w
<1>1. PICK g, s : g = file[f] /\ s = g.blocks
  OBVIOUS
<1>2. /\ f \in Allocated /\ pos \in Nat /\ g.size \in Nat /\ Len(s) = BlocksFor(g.size)
      /\ pos <= g.size
  BY <1>1, OpenDescriptor DEF Fits
<1>3. /\ Rewrites(f, r) /\ Begins(s, r.blocks) /\ r.size = Most(g.size, end)
      /\ Overwrites(mem', r.blocks, pos, buf)
  BY <1>1 DEF Wrote
<1>4. /\ c \in Seq(Data) /\ Len(c) = g.size
      /\ \A p \in Nat : p < Len(c) => c[p + 1] = Spell(mem, s, p)
  BY <1>1, <1>2, Bytes
<1>5. Allocated' = Allocated /\ file'[f] = r /\ Len(r.blocks) = BlocksFor(r.size) /\ r.size \in Nat
  BY <1>2, <1>3, OtherContents
<1>6. PICK e : e = Content(f)'
  OBVIOUS
<1>7. /\ e \in Seq(Data) /\ Len(e) = r.size
      /\ \A p \in Nat : p < Len(e) => e[p + 1] = Spell(mem', r.blocks, p)
  BY <1>2, <1>5, <1>6, BytesPrime
<1>10. /\ w \in Seq(Data) /\ Len(w) = r.size
       /\ \A p \in Nat : p < Len(w) =>
            w[p + 1] = IF p \in pos..end - 1 THEN buf[p - pos + 1] ELSE c[p + 1]
  BY <1>3, <1>4 DEF SplicedTo
<1>11. ASSUME NEW p \in Nat, p < r.size PROVE e[p + 1] = w[p + 1]
  <2>1. p \div BlockSize < Len(r.blocks)
    BY <1>5, <1>11, PlaceOf
  <2>2. e[p + 1] = IF p \in pos..end - 1 THEN buf[p - pos + 1] ELSE Spell(mem, r.blocks, p)
    <3>1. Spell(mem', r.blocks, p) =
            IF p \in pos..pos + Len(buf) - 1 THEN buf[p - pos + 1] ELSE Spell(mem, r.blocks, p)
      BY <1>3, <2>1 DEF Overwrites
    <3>2. pos + Len(buf) - 1 = end - 1
      <4>1. PICK b \in Nat : b = Len(buf)
        BY EmptySeq
      <4>2. \A x \in Nat : x + b - 1 = (x + b) - 1
        OBVIOUS
      <4>. QED BY <1>2, <4>1, <4>2
    <3>3. e[p + 1] = Spell(mem', r.blocks, p)
      BY <1>7, <1>11
    <3>. QED BY <3>1, <3>2, <3>3
  <2>3. p \notin pos..end - 1 => p < g.size
    <3>1. \A x, y, z \in Nat : z < Most(x, y) => z < x \/ z < y
      BY DEF Most
    <3>2. p < g.size \/ p < end
      BY <1>2, <1>3, <1>11, <3>1
    <3>. QED BY <1>2, <3>2
  <2>4. p < g.size => Spell(mem, r.blocks, p) = Spell(mem, s, p)
    BY <1>2, <1>3, SpelledFurther
  <2>5. p < g.size => Spell(mem, s, p) = c[p + 1]
    BY <1>4
  <2>6. w[p + 1] = IF p \in pos..end - 1 THEN buf[p - pos + 1] ELSE c[p + 1]
    BY <1>10, <1>11
  <2>. QED BY <2>2, <2>3, <2>4, <2>5, <2>6
<1>12. e = w
  <2>1. Len(e) = Len(w) /\ \A p \in Nat : p < Len(e) => e[p + 1] = w[p + 1]
    BY <1>7, <1>10, <1>11
  <2>. QED BY <1>7, <1>10, <2>1, SameSequence
<1>. QED BY <1>6, <1>12


LEMMA FlatWrite ==
    ASSUME FSInv, FSInv', Mapped, Mapped', NEW fd \in 0..MaxFds, NEW buf \in Seq(Data),
           Write(fd, buf)
    PROVE  Flat!Write(fd, buf)
<1>0. /\ Flat!Open(fd) <=> fd \in OpenFds
      /\ ValidFd(fd) <=> fd \in OpenFds
      /\ fd \in OpenFds => fd \in 1..MaxFds /\ Handle(fd) = Seen(desc[fd])
  BY FlatOpen
<1>1. CASE fd \notin OpenFds
  <2>1. Flat!Refuse("NO_FILE")
    BY <1>0, <1>1, FlatRefuse DEF Write
  <2>. QED BY <1>0, <1>1, <2>1 DEF Flat!Write
<1>. SUFFICES ASSUME fd \in OpenFds PROVE Flat!Write(fd, buf)
  BY <1>1
<1>2. PICK d, g, pos, f : d = desc[fd] /\ g = file[d.file] /\ pos = d.pos /\ f = d.file
  OBVIOUS
<1>3. /\ UserFSTypeOK /\ d \in Descriptor /\ f \in Allocated /\ pos \in Nat
      /\ g.size \in Nat /\ Fits(d, g) /\ g = file[f] /\ pos <= g.size
  BY <1>2, OpenDescriptor DEF FSInv, Fits
<1>4. f \in Files /\ Len(buf) \in Nat
  BY <1>3 DEF Allocated
<1>5. PICK h : h = Handle(fd) /\ h.file = f /\ h.pos = pos /\ h.mode = d.mode
  BY <1>0, <1>2, <1>3, SeenDescriptor
<1>6. [i \in 1..MaxFds |-> Handle(i)][fd] = h
  BY <1>0, <1>5
<1>7. CASE "WRITE" \notin d.mode
  <2>1. Flat!Refuse("NO_PERMISSION")
    BY <1>0, <1>2, <1>7, FlatRefuse DEF Write
  <2>. QED BY <1>0, <1>5, <1>6, <1>7, <2>1 DEF Flat!Write
<1>8. CASE "WRITE" \in d.mode
  <2>1. PICK c : c = Content(f)
    OBVIOUS
  <2>2. PICK end \in Nat : end = pos + Len(buf)
    BY <1>3, <1>4
  <2>. DEFINE H == [i \in 1..MaxFds |-> Handle(i)]
              K == [k \in Files |-> Content(k)]
              D == [n \in Names |-> Holder(n)]
              E == H[fd].pos + Len(buf)
              B == K[H[fd].file]
              W == SubSeq(B, 1, H[fd].pos) \o buf \o SubSeq(B, E + 1, Len(B))
  <2>3. /\ H[fd].pos = pos /\ H[fd].file = f /\ B = c /\ "WRITE" \in H[fd].mode /\ E = end
    <3>1. H[fd].pos = pos /\ H[fd].file = f /\ "WRITE" \in H[fd].mode
      BY <1>5, <1>6, <1>8
    <3>. QED BY <1>4, <2>1, <2>2, <3>1
  <2>. HIDE DEF B
  <2>4. W = SubSeq(c, 1, pos) \o buf \o SubSeq(c, end + 1, Len(c))
    BY <2>3, Zenon
  <2>. USE DEF B
  <2>5. CASE buf # <<>> /\ end > MaxSize
    <3>1. Refuse("NO_MEM")
      BY <1>0, <1>2, <1>3, <1>8, <2>2, <2>5, UserFSAssumption DEF Write
    <3>2. Flat!Refuse("NO_MEM")
      BY <3>1, FlatRefuse
    <3>. QED BY <1>0, <2>3, <2>5, <3>2, Zenon DEF Flat!Write
  <2>. SUFFICES ASSUME ~(buf # <<>> /\ end > MaxSize) PROVE Flat!Write(fd, buf)
    BY <2>5
  <2>6. SUFFICES /\ Flat!Done(Len(buf)) /\ H' = [H EXCEPT ![fd].pos = end]
                 /\ K' = [K EXCEPT ![f] = W] /\ SameDir
    <3>1. end <= MaxSize \/ buf = <<>>
      <4>. HIDE DEF H, K, D, E, B, W
      <4>. QED BY UserFSAssumption
    <3>2. /\ Flat!Done(Len(buf)) /\ H' = [H EXCEPT ![fd].pos = end]
          /\ K' = [K EXCEPT ![f] = W] /\ D' = D
      BY <2>6 DEF SameDir
    <3>3. H' = [H EXCEPT ![fd].pos = E] /\ K' = [K EXCEPT ![H[fd].file] = W]
      BY <2>3, <3>2
    <3>. QED BY <1>0, <2>3, <3>1, <3>2, <3>3, Zenon DEF Flat!Write
  <2>7. CASE buf = <<>>
    <3>1. Done(0) /\ UNCHANGED <<listed, file, heap, mem, desc>>
      BY <1>0, <1>2, <1>8, <2>7 DEF Write
    <3>2. SameDir /\ SameHandles /\ \A k \in Files : Content(k)' = Content(k)
      BY <3>1, NothingSeen
    <3>3. Len(buf) = 0 /\ end = pos
      BY <1>3, <2>2, <2>7
    <3>4. Flat!Done(Len(buf))
      BY <3>1, <3>3 DEF Done, Answer, Flat!Done, Flat!Answer
    <3>5. H = [H EXCEPT ![fd].pos = pos]
      <4>1. h = [h EXCEPT !.pos = pos]
        BY <1>0, <1>2, <1>5 DEF Seen
      <4>. QED BY <1>6, <4>1
    <3>6. H' = [H EXCEPT ![fd].pos = end]
      <4>1. H' = H
        BY <3>2 DEF SameHandles
      <4>. QED BY <3>3, <3>5, <4>1
    <3>7. W = c
      <4>1. c \in Seq(Data) /\ Len(c) = g.size
        BY <1>3, <2>1, Bytes
      <4>2. PICK w : w = W
        OBVIOUS
      <4>3. SplicedTo(w, c, pos, buf, end)
        <5>1. w = SubSeq(c, 1, pos) \o buf \o SubSeq(c, end + 1, Len(c))
          BY <2>4, <4>2
        <5>. QED BY <1>3, <2>2, <4>1, <5>1, Splice
      <4>4. Len(w) = Len(c) /\ w \in Seq(Data)
        <5>1. Most(g.size, end) = g.size
          BY <1>3, <3>3 DEF Most
        <5>. QED BY <4>1, <4>3, <5>1 DEF SplicedTo
      <4>5. \A p \in Nat : p < Len(w) => w[p + 1] = c[p + 1]
        <5>1. pos..end - 1 = {}
          BY <1>3, <3>3
        <5>. QED BY <4>3, <5>1 DEF SplicedTo
      <4>. QED BY <4>1, <4>2, <4>4, <4>5, SameSequence
    <3>8. K' = [K EXCEPT ![f] = c]
      <4>1. K' = K
        BY <3>2
      <4>. QED BY <1>4, <2>1, <4>1
    <3>9. K' = [K EXCEPT ![f] = W]
      <4>. HIDE DEF W, K
      <4>. QED BY <3>7, <3>8
    <3>. QED BY <3>2, <3>4, <3>6, <3>9
  <2>8. CASE buf # <<>>
    <3>0. end <= MaxSize /\ desc[fd].pos + Len(buf) <= MaxSize
      BY <1>2, <2>2, <2>8, UserFSAssumption
    <3>1. WriteBytes(fd, buf) /\ Followable(desc[fd])
      BY <1>0, <1>2, <1>8, <2>2, <2>8, <3>0, UserFSAssumption DEF Write
    <3>2. PICK r \in FileRecord, q \in Nat : Wrote(fd, buf, r, q)
      BY <2>8, <3>0, <3>1, WriteEffect
    <3>3. /\ Rewrites(f, r) /\ r.size = Most(g.size, end) /\ q = (end - 1) \div BlockSize
          /\ desc' = [desc EXCEPT ![fd] =
               [desc[fd] EXCEPT !.pos = end, !.cur = r.blocks[q + 1], !.idx = q]]
          /\ Done(Len(buf))
      BY <1>2, <1>3, <2>2, <3>2 DEF Wrote
    <3>4. /\ SameDir /\ \A k \in Files : k # f => Content(k)' = Content(k)
          /\ r.blocks \in Seq(Blocks) /\ r.size \in Nat /\ Len(r.blocks) = BlocksFor(r.size)
      BY <1>3, <3>3, OtherContents
    <3>5. Flat!Done(Len(buf))
      BY <3>3 DEF Done, Answer, Flat!Done, Flat!Answer
    <3>6. end \in Nat \ {0} /\ end \in 0..MaxSize /\ end <= r.size
      <4>1. Len(buf) \in Nat \ {0}
        BY <2>8, EmptySeq
      <4>2. end <= Most(g.size, end)
        BY <1>3, MostOf
      <4>. QED BY <1>3, <2>2, <3>0, <3>3, <4>1, <4>2, UserFSAssumption
    <3>7. r.blocks[q + 1] \in Blocks
      <4>1. PICK p \in Nat, n \in Nat : p = end - 1 /\ n = r.size /\ p < n
        <5>1. end - 1 \in Nat /\ end - 1 < r.size
          BY <3>4, <3>6
        <5>. QED BY <3>4, <5>1
      <4>2. p \div BlockSize < BlocksFor(n) /\ BlocksFor(n) \in Nat
        BY <4>1, PlaceOf, BlocksForSize
      <4>3. q + 1 \in 1..Len(r.blocks)
        BY <3>3, <3>4, <4>1, <4>2
      <4>. QED BY <3>4, <4>3
    <3>8. H' = [H EXCEPT ![fd].pos = end]
      <4>1. PICK b, x : b = r.blocks[q + 1] /\ x = q
        OBVIOUS
      <4>2. b \in Blocks /\ x \in Int
        BY <3>7, <4>1
      <4>3. desc' = [desc EXCEPT ![fd] = [desc[fd] EXCEPT !.pos = end, !.cur = b, !.idx = x]]
        BY <3>3, <4>1
      <4>. QED BY <3>6, <4>2, <4>3, FlatMoved
    <3>9. Content(f)' = W
      <4>. HIDE DEF H, K, D, E, B, W
      <4>1. f = desc[fd].file /\ pos = desc[fd].pos
        BY <1>2
      <4>2. PICK w : w = W
        OBVIOUS
      <4>3. w = SubSeq(c, 1, pos) \o buf \o SubSeq(c, end + 1, Len(c))
        BY <2>4, <4>2
      <4>4. c \in Seq(Data) /\ pos <= Len(c)
        BY <1>3, <2>1, Bytes
      <4>5. SplicedTo(w, c, pos, buf, end)
        BY <1>3, <2>2, <4>3, <4>4, Splice
      <4>6. Content(f)' = w
        BY <2>1, <2>2, <3>2, <4>1, <4>5, WrittenContent
      <4>. QED BY <4>2, <4>6
    <3>10. K' = [K EXCEPT ![f] = W]
      <4>1. PICK w : w = W
        OBVIOUS
      <4>2. Content(f)' = w
        BY <3>9, <4>1
      <4>3. K' = [K EXCEPT ![f] = w]
        BY <1>4, <3>4, <4>2
      <4>. QED BY <4>1, <4>3
    <3>. QED BY <3>4, <3>5, <3>8, <3>10
  <2>. QED BY <2>6, <2>7, <2>8
<1>. QED BY <1>7, <1>8


-----------------------------------------------------------------------------
(* Resizing moves the descriptors behind the new end there ...             *)
LEMMA ClampedHandles ==
    ASSUME FSInv, Mapped, Mapped', NEW f, NEW n, n \in 0..MaxSize,
           NEW gone, desc' = Clamp(f, n, gone), NEW i \in 1..MaxFds
    PROVE  Handle(i)' = IF Handle(i) # NULL /\ Handle(i).file = f /\ Handle(i).pos > n
                        THEN [Handle(i) EXCEPT !.pos = n] ELSE Handle(i)
<1>0. UserFSTypeOK /\ i \in 0..MaxFds /\ HandleRight(i) /\ HandleRight(i)'
  BY UserFSAssumption DEF FSInv, Mapped
<1>1. Redescribes /\ \A k \in OpenFds : Clamped(desc'[k], desc[k], f, n, gone)
  BY ClampedDescriptors
<1>2. OpenFds' = OpenFds
  BY <1>0, <1>1, RedescribedFds
<1>3. CASE i \notin OpenFds
  BY <1>0, <1>2, <1>3 DEF HandleRight
<1>4. CASE i \in OpenFds
  <2>1. PICK d, e, u, v : d = desc[i] /\ e = desc'[i] /\ u = Handle(i) /\ v = Handle(i)'
    OBVIOUS
  <2>2. d \in Descriptor
    BY <1>0, <1>4, <2>1, DescFacts
  <2>3. u = Seen(d) /\ v = Seen(e) /\ u # NULL
    <3>1. u = Seen(d) /\ u # NULL
      BY <1>0, <1>4, <2>1 DEF HandleRight
    <3>2. v = Seen(e)
      BY <1>0, <1>2, <1>4, <2>1 DEF HandleRight
    <3>. QED BY <3>1, <3>2
  <2>4. u.file = d.file /\ u.pos = d.pos
    BY <2>2, <2>3, SeenDescriptor
  <2>5. IF d.file = f /\ d.pos > n THEN Moved(e, d, n, NULL, -1)
        ELSE Moved(e, d, d.pos, Dangling, d.idx) \/ e = d
    BY <1>1, <1>4, <2>1 DEF Clamped
  <2>6. /\ Moved(e, d, n, NULL, -1) => v = [u EXCEPT !.pos = n]
        /\ Moved(e, d, d.pos, Dangling, d.idx) => v = u
    BY <2>3 DEF Moved, Seen
  <2>7. v = IF u # NULL /\ u.file = f /\ u.pos > n THEN [u EXCEPT !.pos = n] ELSE u
    BY <2>3, <2>4, <2>5, <2>6
  <2>. QED BY <2>1, <2>7
<1>. QED BY <1>3, <1>4

(* ... and cuts the bytes or fills them up with zeros.                     *)
ResizedTo(w, c, n) ==
    /\ w \in Seq(Data) /\ Len(w) = n
    /\ \A p \in Nat : p < n => w[p + 1] = IF p < Len(c) THEN c[p + 1] ELSE Zero

LEMMA CutOrFilled ==
    ASSUME NEW c \in Seq(Data), NEW n \in Nat, NEW w,
           w = [i \in 1..n |-> IF i <= Len(c) THEN c[i] ELSE Zero]
    PROVE  ResizedTo(w, c, n)
<1>0. PICK l \in Nat : l = Len(c)
  OBVIOUS
<1>1. \A i \in 1..n : i <= l => c[i] \in Data
  BY <1>0
<1>2. Zero \in Data
  BY UserFSAssumption
<1>3. \A i \in 1..n : w[i] \in Data /\ w[i] = IF i <= l THEN c[i] ELSE Zero
  BY <1>0, <1>1, <1>2
<1>4. w \in Seq(Data) /\ Len(w) = n
  BY <1>3
<1>5. ASSUME NEW p \in Nat, p < n PROVE w[p + 1] = IF p < l THEN c[p + 1] ELSE Zero
  <2>1. p + 1 \in 1..n /\ (p + 1 <= l <=> p < l)
    BY <1>5
  <2>. QED BY <1>3, <2>1
<1>. QED BY <1>0, <1>4, <1>5 DEF ResizedTo

LEMMA SameResized ==
    ASSUME NEW c, NEW n \in Nat, NEW v, NEW w, ResizedTo(v, c, n), ResizedTo(w, c, n)
    PROVE  v = w
<1>1. v \in Seq(Data) /\ w \in Seq(Data) /\ Len(v) = n /\ Len(w) = n
  BY DEF ResizedTo
<1>2. \A p \in Nat : p < Len(v) => v[p + 1] = w[p + 1]
  BY <1>1 DEF ResizedTo
<1>. QED BY <1>1, <1>2, SameSequence

LEMMA GrownContent ==
    ASSUME FSInv, FSInv', Mapped, Mapped', NEW f, f \in Allocated, NEW n \in Nat,
           n > file[f].size, NEW r, Grew(f, n, r), NEW c, c = Content(f),
           NEW e, e = Content(f)'
    PROVE  ResizedTo(e, c, n)
<1>1. PICK g, s : g = file[f] /\ s = g.blocks
  OBVIOUS
<1>2. g.size \in Nat /\ Len(s) = BlocksFor(g.size)
  BY <1>1, FileFacts DEF FSInv, FilesSound, SizesFit
<1>3. /\ Rewrites(f, r) /\ Begins(s, r.blocks) /\ r.size = n
      /\ mem' = mem /\ ZeroFrom(mem, r.blocks, g.size)
  BY <1>1 DEF Grew
<1>4. /\ Len(c) = g.size /\ \A p \in Nat : p < Len(c) => c[p + 1] = Spell(mem, s, p)
  BY <1>1, Bytes
<1>5. Allocated' = Allocated /\ file'[f] = r /\ Len(r.blocks) = BlocksFor(n)
  BY <1>3, OtherContents
<1>6. /\ e \in Seq(Data) /\ Len(e) = n
      /\ \A p \in Nat : p < n => e[p + 1] = Spell(mem, r.blocks, p)
  <2>1. /\ e \in Seq(Data) /\ Len(e) = file'[f].size
        /\ \A p \in Nat : p < Len(e) => e[p + 1] = Spell(mem', file'[f].blocks, p)
    BY <1>5, BytesPrime
  <2>. QED BY <1>3, <1>5, <2>1
<1>7. ASSUME NEW p \in Nat, p < n PROVE e[p + 1] = IF p < g.size THEN c[p + 1] ELSE Zero
  <2>1. CASE p < g.size
    <3>1. Spell(mem, r.blocks, p) = Spell(mem, s, p)
      BY <1>2, <1>3, <2>1, SpelledFurther
    <3>. QED BY <1>4, <1>6, <1>7, <2>1, <3>1
  <2>2. CASE ~(p < g.size)
    <3>1. p >= g.size
      BY <1>2, <2>2
    <3>2. p \div BlockSize < Len(r.blocks)
      BY <1>5, <1>7, PlaceOf
    <3>3. Spell(mem, r.blocks, p) = Zero
      BY <1>3, <3>1, <3>2 DEF ZeroFrom
    <3>. QED BY <1>6, <1>7, <2>2, <3>3
  <2>. QED BY <2>1, <2>2
<1>. QED BY <1>4, <1>6, <1>7 DEF ResizedTo

LEMMA ShrunkContent ==
    ASSUME FSInv, FSInv', Mapped, Mapped', NEW f, f \in Allocated, NEW n \in Nat,
           n < file[f].size, NEW r, Shrank(f, n, r), NEW c, c = Content(f),
           NEW e, e = Content(f)'
    PROVE  ResizedTo(e, c, n)
<1>1. PICK g, s : g = file[f] /\ s = g.blocks
  OBVIOUS
<1>2. g.size \in Nat /\ n < g.size
  BY <1>1, FileFacts DEF FSInv
<1>3. /\ Rewrites(f, r) /\ r.size = n
      /\ \A p \in Nat : p < n => Spell(mem', r.blocks, p) = Spell(mem, s, p)
  BY <1>1 DEF Shrank
<1>4. /\ Len(c) = g.size /\ \A p \in Nat : p < Len(c) => c[p + 1] = Spell(mem, s, p)
  BY <1>1, Bytes
<1>5. Allocated' = Allocated /\ file'[f] = r
  BY <1>3, OtherContents
<1>6. /\ e \in Seq(Data) /\ Len(e) = n
      /\ \A p \in Nat : p < n => e[p + 1] = Spell(mem', r.blocks, p)
  <2>1. /\ e \in Seq(Data) /\ Len(e) = file'[f].size
        /\ \A p \in Nat : p < Len(e) => e[p + 1] = Spell(mem', file'[f].blocks, p)
    BY <1>5, BytesPrime
  <2>. QED BY <1>3, <1>5, <2>1
<1>7. ASSUME NEW p \in Nat, p < n PROVE p < g.size /\ e[p + 1] = c[p + 1]
  <2>1. p < g.size
    BY <1>2, <1>7
  <2>. QED BY <1>3, <1>4, <1>6, <1>7, <2>1
<1>. QED BY <1>4, <1>6, <1>7 DEF ResizedTo


LEMMA FlatResize ==
    ASSUME FSInv, FSInv', Mapped, Mapped', NEW fd \in 0..MaxFds, NEW n \in Nat, Resize(fd, n)
    PROVE  Flat!Resize(fd, n)
<1>0. /\ Flat!Open(fd) <=> fd \in OpenFds
      /\ ValidFd(fd) <=> fd \in OpenFds
      /\ fd \in OpenFds => fd \in 1..MaxFds /\ Handle(fd) = Seen(desc[fd])
  BY FlatOpen
<1>1. CASE fd \notin OpenFds
  <2>1. Flat!Refuse("NO_FILE")
    BY <1>0, <1>1, FlatRefuse DEF Resize
  <2>. QED BY <1>0, <1>1, <2>1 DEF Flat!Resize
<1>. SUFFICES ASSUME fd \in OpenFds PROVE Flat!Resize(fd, n)
  BY <1>1
<1>2. PICK d, g, f : d = desc[fd] /\ g = file[d.file] /\ f = d.file
  OBVIOUS
<1>3. /\ UserFSTypeOK /\ d \in Descriptor /\ f \in Allocated /\ g.size \in Nat /\ g = file[f]
  BY <1>2, OpenDescriptor DEF FSInv
<1>4. f \in Files
  BY <1>3 DEF Allocated
<1>5. PICK h : h = Handle(fd) /\ h.file = f /\ h.mode = d.mode
  BY <1>0, <1>2, <1>3, SeenDescriptor
<1>. DEFINE H == [i \in 1..MaxFds |-> Handle(i)]
            K == [k \in Files |-> Content(k)]
            D == [m \in Names |-> Holder(m)]
<1>6. H[fd].file = f /\ H[fd].mode = d.mode
  BY <1>0, <1>5
<1>7. CASE "WRITE" \notin d.mode
  <2>1. Flat!Refuse("NO_PERMISSION")
    BY <1>0, <1>2, <1>7, FlatRefuse DEF Resize
  <2>. QED BY <1>0, <1>6, <1>7, <2>1 DEF Flat!Resize
<1>8. CASE "WRITE" \in d.mode /\ n > MaxSize
  <2>1. Refuse("NO_MEM")
    BY <1>0, <1>2, <1>8, UserFSAssumption DEF Resize
  <2>2. Flat!Refuse("NO_MEM")
    BY <2>1, FlatRefuse
  <2>. QED BY <1>0, <1>6, <1>8, <2>2, Zenon DEF Flat!Resize
<1>9. CASE "WRITE" \in d.mode /\ n <= MaxSize
  <2>1. /\ \/ n > file[f].size /\ Grow(f, n)
           \/ n < file[f].size /\ Shrink(f, n)
           \/ n = file[f].size /\ UNCHANGED <<file, heap, mem>>
        /\ desc' = Clamp(f, n, heap \ heap') /\ Done(0) /\ listed' = listed
    BY <1>0, <1>2, <1>9, UserFSAssumption DEF Resize
  <2>2. PICK c, e : c = Content(f) /\ e = Content(f)'
    OBVIOUS
  <2>3. /\ SameDir /\ \A k \in Files : k # f => Content(k)' = Content(k)
        /\ ResizedTo(e, c, n)
    <3>1. CASE n > file[f].size /\ Grow(f, n)
      <4>1. PICK r \in FileRecord : Grew(f, n, r)
        BY <1>3, <1>9, <2>1, <3>1, GrowEffect
      <4>2. Rewrites(f, r)
        BY <4>1 DEF Grew
      <4>. QED BY <1>3, <2>2, <3>1, <4>1, <4>2, OtherContents, GrownContent
    <3>2. CASE n < file[f].size /\ Shrink(f, n)
      <4>1. PICK r \in FileRecord : Shrank(f, n, r)
        BY <1>3, <2>1, <3>2, ShrinkEffect
      <4>2. Rewrites(f, r)
        BY <4>1 DEF Shrank
      <4>. QED BY <1>3, <2>2, <3>2, <4>1, <4>2, OtherContents, ShrunkContent
    <3>3. CASE n = file[f].size /\ UNCHANGED <<file, heap, mem>>
      <4>1. SameDir
        BY <2>1, <3>3, KeptNames
      <4>2. \A k \in Files : Content(k)' = Content(k)
        BY <3>3 DEF Content
      <4>3. c \in Seq(Data) /\ Len(c) = n /\ e = c
        BY <1>3, <1>4, <2>2, <3>3, <4>2, Bytes
      <4>4. ResizedTo(e, c, n)
        BY <4>3 DEF ResizedTo
      <4>. QED BY <4>1, <4>2, <4>4
    <3>. QED BY <2>1, <3>1, <3>2, <3>3
  <2>4. Flat!Done(0)
    BY <2>1 DEF Done, Answer, Flat!Done, Flat!Answer
  <2>5. D' = D
    BY <2>3 DEF SameDir
  <2>6. PICK w : w = [i \in 1..n |-> IF i <= Len(c) THEN c[i] ELSE Zero]
    OBVIOUS
  <2>7. e = w
    <3>1. c \in Seq(Data)
      BY <1>3, <2>2, Bytes
    <3>2. ResizedTo(w, c, n)
      BY <2>6, <3>1, CutOrFilled
    <3>. QED BY <2>3, <3>2, SameResized
  <2>8. K' = [K EXCEPT ![f] = w]
    BY <1>4, <2>2, <2>3, <2>7
  <2>9. K[f] = c
    BY <1>4, <2>2
  <2>. DEFINE W == [i \in 1..n |-> IF i <= Len(K[H[fd].file]) THEN K[H[fd].file][i] ELSE Zero]
  <2>10. W = w
    <3>1. K[H[fd].file] = c
      BY <1>6, <2>9
    <3>. HIDE DEF K, H
    <3>. QED BY <2>6, <3>1, Zenon
  <2>11. K' = [K EXCEPT ![H[fd].file] = W]
    BY <1>6, <2>8, <2>10, Zenon
  <2>12. ASSUME NEW i \in 1..MaxFds
         PROVE  Handle(i)' = IF H[i] # NULL /\ H[i].file = f /\ H[i].pos > n
                             THEN [H[i] EXCEPT !.pos = n] ELSE H[i]
    <3>1. H[i] = Handle(i)
      OBVIOUS
    <3>2. n \in 0..MaxSize
      BY <1>9, UserFSAssumption
    <3>. HIDE DEF H
    <3>. QED BY <2>1, <3>1, <3>2, ClampedHandles
  <2>13. H' = [i \in 1..MaxFds |->
               IF (i \in 1..MaxFds /\ H[i] # NULL) /\ H[i].file = H[fd].file /\ H[i].pos > n
               THEN [H[i] EXCEPT !.pos = n] ELSE H[i]]
    <3>1. H' = [i \in 1..MaxFds |-> Handle(i)']
      OBVIOUS
    <3>. HIDE DEF H
    <3>. QED BY <1>6, <2>12, <3>1
  <2>. QED BY <1>0, <1>6, <1>9, <2>4, <2>5, <2>11, <2>13, Zenon DEF Flat!Resize, Flat!Open
<1>10. n > MaxSize \/ n <= MaxSize
  BY UserFSAssumption
<1>. QED BY <1>7, <1>8, <1>9, <1>10


-----------------------------------------------------------------------------
LEMMA FlatInit ==
    ASSUME Init
    PROVE  Flat!Init
<1>1. \A n \in Names : Holder(n) = NULL
  BY DEF Init, Holder, Lookup
<1>2. \A f \in Files : Content(f) = <<>>
  BY DEF Init, Content
<1>3. \A i \in 1..MaxFds : Handle(i) = NULL
  BY DEF Init, Handle, ValidFd
<1>. QED BY <1>1, <1>2, <1>3 DEF Init, Flat!Init

LEMMA FlatStutter ==
    ASSUME UNCHANGED vars
    PROVE  UNCHANGED Flat!vars
<1>1. /\ UNCHANGED <<listed, file, heap, mem, desc>>
      /\ errno' = errno /\ result' = result /\ call' = call
  BY DEF vars
<1>2. SameDir /\ SameHandles /\ \A f \in Files : Content(f)' = Content(f)
  BY <1>1, NothingSeen
<1>. QED BY <1>1, <1>2 DEF Flat!vars, SameDir, SameHandles

LEMMA FlatNext ==
    ASSUME FSInv, FSInv', [Next]_vars
    PROVE  [Flat!Next]_(Flat!vars)
<1>0. Mapped /\ Mapped'
  BY MappingRight, MappingRightPrime
<1>1. ASSUME NEW n \in Names, NEW create \in BOOLEAN, NEW mode \in Modes,
             call' = <<"open", n, create, mode>>, OpenFile(n, create, mode)
      PROVE  Flat!Next
  <2>1. Flat!OpenFile(n, create, mode)
    BY <1>0, <1>1, FlatOpenFile
  <2>. QED BY <1>1, <2>1 DEF Flat!Next
<1>2. ASSUME NEW n \in Names, call' = <<"delete", n>>, Delete(n) PROVE Flat!Next
  <2>1. Flat!Delete(n)
    BY <1>0, <1>2, FlatDelete
  <2>. QED BY <1>2, <2>1 DEF Flat!Next
<1>3. ASSUME NEW fd \in 0..MaxFds PROVE fd \in {0} \cup 1..MaxFds
  BY UserFSAssumption
<1>4. ASSUME NEW fd \in 0..MaxFds, call' = <<"close", fd>>, Close(fd) PROVE Flat!Next
  <2>1. Flat!Close(fd)
    BY <1>0, <1>4, FlatClose
  <2>. QED BY <1>3, <1>4, <2>1 DEF Flat!Next
<1>5. ASSUME NEW fd \in 0..MaxFds, NEW n \in ReadSizes, call' = <<"read", fd, n>>, Read(fd, n)
      PROVE  Flat!Next
  <2>1. n \in Nat
    BY UserFSAssumption
  <2>2. Flat!Read(fd, n)
    BY <1>0, <1>5, <2>1, FlatRead
  <2>. QED BY <1>3, <1>5, <2>2 DEF Flat!Next
<1>6. ASSUME NEW fd \in 0..MaxFds, NEW buf \in Buffers, call' = <<"write", fd, buf>>, Write(fd, buf)
      PROVE  Flat!Next
  <2>1. buf \in Seq(Data)
    BY UserFSAssumption
  <2>2. Flat!Write(fd, buf)
    BY <1>0, <1>6, <2>1, FlatWrite
  <2>. QED BY <1>3, <1>6, <2>2 DEF Flat!Next
<1>7. ASSUME NEW fd \in 0..MaxFds, NEW n \in NewSizes, call' = <<"resize", fd, n>>, Resize(fd, n)
      PROVE  Flat!Next
  <2>1. n \in Nat
    BY UserFSAssumption
  <2>2. Flat!Resize(fd, n)
    BY <1>0, <1>7, <2>1, FlatResize
  <2>. QED BY <1>3, <1>7, <2>2 DEF Flat!Next
<1>8. ASSUME call' = <<"destroy">>, Destroy PROVE Flat!Next
  <2>1. Flat!Destroy
    BY <1>0, <1>8, FlatDestroy
  <2>. QED BY <1>8, <2>1 DEF Flat!Next
<1>9. ASSUME UNCHANGED vars PROVE UNCHANGED Flat!vars
  BY <1>9, FlatStutter
<1>10. Next => Flat!Next
  BY <1>1, <1>2, <1>4, <1>5, <1>6, <1>7, <1>8 DEF Next
<1>. QED BY <1>9, <1>10

(* Through its blocks, lists and cached block pointers, every call of      *)
(* userfs.cpp has the effect and the answer that FlatFS gives the call of  *)
(* the same name and arguments on plain sequences of bytes, for every      *)
(* number of files, blocks and descriptors, every block size and size      *)
(* limit and every mix of arguments - up to a call that would follow a     *)
(* pointer to a freed block, which CachesAreValid confines to descriptors  *)
(* that have read zero bytes.                                              *)
THEOREM FlatRefinement == Spec => ImplementsFlatFS
<1>1. Init => Flat!Init
  BY FlatInit
<1>2. FSInv /\ FSInv' /\ [Next]_vars => [Flat!Next]_(Flat!vars)
  BY FlatNext
<1>. QED BY <1>1, <1>2, FSInvariant, PTL DEF Spec, ImplementsFlatFS, Flat!Spec
=============================================================================
