----------------------------- MODULE UserFSProofs -----------------------------
(***************************************************************************)
(* Proofs about the file system, for any names, files and bytes, any sizes *)
(* of blocks and files and any arguments of the calls.                     *)
(***************************************************************************)
EXTENDS UserFS, SequenceTheorems, FiniteSetTheorems, TLAPS

(* The byte at position p, counted from 0, of a file with the blocks s, if *)
(* m is the memory.                                                        *)
Spell(m, s, p) == m[s[p \div BlockSize + 1]][p % BlockSize]

(* Behind position n there is nothing but zeros.                           *)
ZeroFrom(m, s, n) ==
    \A p \in Nat : p >= n /\ p \div BlockSize < Len(s) => Spell(m, s, p) = Zero

(* A list of blocks has no block twice; a longer one begins with it.       *)
Distinct(s) == \A i, j \in 1..Len(s) : s[i] = s[j] => i = j
Begins(s, t) == Len(s) <= Len(t) /\ \A i \in 1..Len(s) : t[i] = s[i]

(* The blocks of t behind those of s are free ones.                        *)
Extends(s, t) == Begins(s, t) /\ \A i \in 1..Len(t) : i > Len(s) => t[i] \in Blocks \ heap

(* The rest of the last block is zero, and so is what is free.             *)
RestZero == \A f \in Allocated : ZeroFrom(mem, file[f].blocks, file[f].size)
FreeClean == \A b \in Blocks \ heap : mem[b] = EmptyBlock

(* What a descriptor has cached is the block of the last byte before its   *)
(* position, so that a descriptor whose position stays in the file keeps   *)
(* its block; or, after a read of zero bytes, the block that starts at the *)
(* position, which a resize to that position frees.                        *)
Behind(d) == d.pos > 0 /\ d.idx = (d.pos - 1) \div BlockSize
Ahead(d) == 0 \in ReadSizes /\ d.idx \in Nat /\ d.pos = d.idx * BlockSize

CacheFits(d, g) ==
    \/ d.cur = Dangling /\ Ahead(d)
    \/ /\ d.cur # Dangling /\ g.blocks[d.idx + 1] = d.cur
       /\ Behind(d) \/ (Ahead(d) /\ d.pos < g.size)

CacheExact ==
    \A i \in OpenFds : desc[i].cur # NULL => CacheFits(desc[i], file[desc[i].file])

(* A name leads to one file.                                               *)
NamesOnce == \A f, g \in listed : file[f].name = file[g].name => f = g

(* The inductive invariant: what is true of the files, and what of the     *)
(* descriptors.                                                            *)
FilesSound == BlocksOwned /\ BlocksOnce /\ SizesFit /\ RestZero /\ FreeClean /\ NamesOnce
DescriptorsSound == FilesReachable /\ PositionsInside /\ CacheExact
FSInv == UserFSTypeOK /\ FilesSound /\ DescriptorsSound

-----------------------------------------------------------------------------
(* Division by BlockSize.                                                  *)
LEMMA DivMod ==
    ASSUME NEW x \in Nat
    PROVE  /\ x \div BlockSize \in Nat /\ x % BlockSize \in Offsets
           /\ x = (x \div BlockSize) * BlockSize + (x % BlockSize)
<1>0. BlockSize \in Nat \ {0}
  BY UserFSAssumption
<1>1. x \div BlockSize \in Nat
  BY <1>0
<1>2. x % BlockSize \in Offsets
  BY <1>0 DEF Offsets
<1>3. (x \div BlockSize) * BlockSize <= x /\ x < (x \div BlockSize) * BlockSize + BlockSize
  BY <1>0
<1>4. x - (x \div BlockSize) * BlockSize \in 0..BlockSize - 1
  BY <1>0, <1>1, <1>3
<1>5. ASSUME NEW q \in Nat, NEW r \in 0..BlockSize - 1, x = q * BlockSize + r
      PROVE  x % BlockSize = r
  BY <1>0, <1>5
<1>6. PICK q \in Nat, m \in Int : q = x \div BlockSize /\ m = q * BlockSize
  BY <1>0, <1>1
<1>7. x = m + (x - m) /\ x - m \in 0..BlockSize - 1
  BY <1>4, <1>6
<1>8. x % BlockSize = x - m
  BY <1>5, <1>6, <1>7
<1>9. x = m + (x % BlockSize)
  BY <1>0, <1>2, <1>6, <1>7, <1>8
<1>. QED BY <1>1, <1>2, <1>6, <1>9

LEMMA DivUnique ==
    ASSUME NEW q \in Nat, NEW r \in Offsets
    PROVE  /\ q * BlockSize + r \in Nat
           /\ (q * BlockSize + r) \div BlockSize = q
           /\ (q * BlockSize + r) % BlockSize = r
<1>0. BlockSize \in Nat \ {0} /\ r \in 0..BlockSize - 1
  BY UserFSAssumption DEF Offsets
<1>1. q * BlockSize + r \in Nat
  BY <1>0
<1>2. ASSUME NEW x \in Nat, x = q * BlockSize + r
      PROVE  x \div BlockSize = q /\ x % BlockSize = r
  BY <1>0, <1>2
<1>. QED BY <1>1, <1>2

LEMMA DivMonotone ==
    ASSUME NEW x \in Nat, NEW y \in Nat
    PROVE  /\ x <= y => x \div BlockSize <= y \div BlockSize
           /\ (x \div BlockSize = y \div BlockSize) => (x < y <=> x % BlockSize < y % BlockSize)
           /\ x \div BlockSize < y \div BlockSize => x < y
<1>0. BlockSize \in Nat \ {0}
  BY UserFSAssumption
<1>1. ASSUME NEW u \in Nat, NEW v \in Nat, u <= v
      PROVE  u \div BlockSize <= v \div BlockSize
  BY <1>0, <1>1
<1>2. /\ x \div BlockSize \in Nat /\ y \div BlockSize \in Nat
      /\ x % BlockSize \in Int /\ y % BlockSize \in Int
  BY <1>0, DivMod DEF Offsets
<1>3. (x \div BlockSize = y \div BlockSize) => (x < y <=> x % BlockSize < y % BlockSize)
  <2>. SUFFICES ASSUME x \div BlockSize = y \div BlockSize
                PROVE  x < y <=> x % BlockSize < y % BlockSize
    OBVIOUS
  <2>1. PICK q \in Nat, m \in Int, a \in Int, b \in Int :
          /\ q = x \div BlockSize /\ m = q * BlockSize
          /\ a = x % BlockSize /\ b = y % BlockSize
    BY <1>0, <1>2
  <2>2. x = m + a /\ y = m + b
    BY <1>0, <2>1, DivMod
  <2>3. x < y <=> a < b
    BY <2>2
  <2>. QED BY <2>1, <2>3
<1>. QED BY <1>1, <1>2, <1>3

(* The next position is in the same block or at the start of the next.     *)
LEMMA DivStep ==
    ASSUME NEW x \in Nat \ {0}
    PROVE  /\ (x - 1) \div BlockSize \in Nat
           /\ x % BlockSize # 0 => x \div BlockSize = (x - 1) \div BlockSize
           /\ x % BlockSize = 0 => x \div BlockSize = (x - 1) \div BlockSize + 1
<1>0. BlockSize \in Nat \ {0}
  BY UserFSAssumption
<1>1. x - 1 \in Nat
  OBVIOUS
<1>2. /\ x \div BlockSize \in Nat /\ x % BlockSize \in 0..BlockSize - 1
      /\ x = (x \div BlockSize) * BlockSize + (x % BlockSize)
  BY DivMod DEF Offsets
<1>3. CASE x % BlockSize # 0
  <2>1. (x % BlockSize) - 1 \in Offsets
    BY <1>0, <1>2, <1>3 DEF Offsets
  <2>2. x - 1 = (x \div BlockSize) * BlockSize + ((x % BlockSize) - 1)
    BY <1>0, <1>2
  <2>. QED BY <1>1, <1>2, <1>3, <2>1, <2>2, DivUnique
<1>4. CASE x % BlockSize = 0
  <2>1. PICK q \in Nat : q = x \div BlockSize
    BY <1>2
  <2>2. x = q * BlockSize
    BY <1>0, <1>2, <1>4, <2>1
  <2>3. q - 1 \in Nat
    BY <1>0, <2>1, <2>2
  <2>4. BlockSize - 1 \in Offsets
    BY <1>0 DEF Offsets
  <2>5. x - 1 = (q - 1) * BlockSize + (BlockSize - 1)
    BY <1>0, <2>1, <2>2
  <2>6. (x - 1) \div BlockSize = q - 1
    BY <2>3, <2>4, <2>5, DivUnique
  <2>. QED BY <1>4, <2>1, <2>3, <2>6
<1>. QED BY <1>3, <1>4

(* How many blocks a file of n bytes has.                                  *)
LEMMA BlocksForSize ==
    ASSUME NEW n \in Nat
    PROVE  /\ BlocksFor(n) \in Nat
           /\ n = 0 => BlocksFor(n) = 0
           /\ n # 0 => BlocksFor(n) = (n - 1) \div BlockSize + 1
           /\ n % BlockSize # 0 => BlocksFor(n) = n \div BlockSize + 1
           /\ n % BlockSize = 0 => BlocksFor(n) = n \div BlockSize
<1>0. BlockSize \in Nat \ {0}
  BY UserFSAssumption
<1>1. CASE n = 0
  <2>1. BlockSize - 1 \in Offsets /\ 0 \in Offsets
    BY <1>0 DEF Offsets
  <2>2. 0 * BlockSize + (BlockSize - 1) = n + BlockSize - 1 /\ 0 * BlockSize + 0 = 0
    BY <1>0, <1>1
  <2>3. BlocksFor(n) = 0
    BY <2>1, <2>2, DivUnique DEF BlocksFor
  <2>4. 0 % BlockSize = 0 /\ 0 \div BlockSize = 0
    BY <2>1, <2>2, DivUnique
  <2>. QED BY <1>1, <2>3, <2>4
<1>2. CASE n # 0
  <2>1. n - 1 \in Nat /\ n \in Nat \ {0}
    BY <1>2
  <2>2. PICK q \in Nat, r \in Offsets :
          q = (n - 1) \div BlockSize /\ n - 1 = q * BlockSize + r
    <3>1. ASSUME NEW x \in Nat
          PROVE  \E q \in Nat, r \in Offsets : q = x \div BlockSize /\ x = q * BlockSize + r
      BY <1>0, DivMod
    <3>. QED BY <2>1, <3>1
  <2>3. n + BlockSize - 1 = (q + 1) * BlockSize + r
    BY <1>0, <2>1, <2>2 DEF Offsets
  <2>4. BlocksFor(n) = q + 1
    BY <2>3, DivUnique DEF BlocksFor
  <2>. QED BY <1>2, <2>1, <2>2, <2>4, DivStep
<1>. QED BY <1>1, <1>2

LEMMA BlocksForMonotone ==
    ASSUME NEW m \in Nat, NEW n \in Nat, m <= n
    PROVE  BlocksFor(m) <= BlocksFor(n)
<1>1. CASE m = 0
  BY <1>1, BlocksForSize
<1>2. CASE m # 0
  <2>1. m - 1 \in Nat /\ n - 1 \in Nat /\ m - 1 <= n - 1 /\ n # 0
    BY <1>2
  <2>2. (m - 1) \div BlockSize <= (n - 1) \div BlockSize
    BY <2>1, DivMonotone
  <2>3. (m - 1) \div BlockSize \in Nat /\ (n - 1) \div BlockSize \in Nat
    BY <2>1, DivMod
  <2>. QED BY <1>2, <2>1, <2>2, <2>3, BlocksForSize
<1>. QED BY <1>1, <1>2

(* Where the position p is among the blocks of a file of n bytes.          *)
LEMMA PlaceOf ==
    ASSUME NEW p \in Nat, NEW n \in Nat
    PROVE  /\ p \div BlockSize \in Nat /\ p % BlockSize \in Offsets
           /\ p < n => p \div BlockSize < BlocksFor(n)
           /\ p <= n => p \div BlockSize <= BlocksFor(n)
           /\ p \div BlockSize < BlocksFor(n) =>
                (p >= n <=> /\ n % BlockSize # 0 /\ p \div BlockSize + 1 = BlocksFor(n)
                            /\ p % BlockSize >= n % BlockSize)
<1>1. /\ p \div BlockSize \in Nat /\ p % BlockSize \in Offsets
      /\ n \div BlockSize \in Nat /\ n % BlockSize \in Offsets
  BY DivMod
<1>0. p % BlockSize \in Int /\ n % BlockSize \in Nat /\ BlockSize \in Nat \ {0}
  BY <1>1, UserFSAssumption DEF Offsets
<1>2. p < n => p \div BlockSize < BlocksFor(n)
  <2>. SUFFICES ASSUME p < n PROVE p \div BlockSize < BlocksFor(n)
    OBVIOUS
  <2>1. n - 1 \in Nat /\ p <= n - 1 /\ n # 0
    OBVIOUS
  <2>2. p \div BlockSize <= (n - 1) \div BlockSize
    BY <2>1, DivMonotone
  <2>. QED BY <1>1, <2>1, <2>2, DivMod, BlocksForSize
<1>3. p <= n => p \div BlockSize <= BlocksFor(n)
  <2>1. n \div BlockSize <= BlocksFor(n)
    BY <1>0, <1>1, BlocksForSize
  <2>2. BlocksFor(n) \in Nat
    BY BlocksForSize
  <2>3. CASE p < n
    BY <1>1, <1>2, <2>2, <2>3
  <2>4. CASE p = n
    BY <2>1, <2>4
  <2>. QED BY <2>3, <2>4
<1>4. ASSUME p \div BlockSize < BlocksFor(n)
      PROVE  p >= n <=> /\ n % BlockSize # 0 /\ p \div BlockSize + 1 = BlocksFor(n)
                        /\ p % BlockSize >= n % BlockSize
  <2>1. CASE n % BlockSize = 0
    <3>1. p \div BlockSize < n \div BlockSize
      BY <1>4, <2>1, BlocksForSize
    <3>. QED BY <2>1, <3>1, DivMonotone
  <2>2. CASE n % BlockSize # 0
    <3>1. BlocksFor(n) = n \div BlockSize + 1
      BY <2>2, BlocksForSize
    <3>2. CASE p \div BlockSize = n \div BlockSize
      BY <1>0, <1>1, <2>2, <3>1, <3>2, DivMonotone
    <3>3. CASE p \div BlockSize < n \div BlockSize
      <4>1. p < n
        BY <3>3, DivMonotone
      <4>2. p \div BlockSize + 1 # BlocksFor(n)
        BY <1>0, <1>1, <3>1, <3>3
      <4>. QED BY <4>1, <4>2
    <3>. QED BY <1>1, <1>4, <3>1, <3>2, <3>3
  <2>. QED BY <2>1, <2>2
<1>. QED BY <1>1, <1>2, <1>3, <1>4


-----------------------------------------------------------------------------
(* The records of a file and of a descriptor.                              *)
LEMMA FileFacts ==
    ASSUME UserFSTypeOK, NEW f \in Allocated
    PROVE  /\ f \in Files /\ file[f] \in FileRecord
           /\ file[f].name \in Names /\ file[f].refs \in Nat /\ file[f].size \in 0..MaxSize
           /\ file[f].size \in Nat /\ file[f].blocks \in Seq(Blocks)
           /\ file[f].count \in Nat /\ file[f].deleted \in BOOLEAN
           /\ Len(file[f].blocks) \in Nat
           /\ DOMAIN file[f].blocks = 1..Len(file[f].blocks)
           /\ \A i \in 1..Len(file[f].blocks) : file[f].blocks[i] \in Blocks
<1>1. f \in Files /\ file[f] \in FileRecord
  BY DEF UserFSTypeOK, Allocated
<1>2. /\ file[f].name \in Names /\ file[f].refs \in Nat /\ file[f].size \in 0..MaxSize
      /\ file[f].blocks \in Seq(Blocks)
      /\ file[f].count \in Nat /\ file[f].deleted \in BOOLEAN
  BY <1>1 DEF FileRecord
<1>3. file[f].size \in Nat
  BY <1>2, UserFSAssumption
<1>. QED BY <1>1, <1>2, <1>3

LEMMA DescFacts ==
    ASSUME UserFSTypeOK, NEW i \in OpenFds
    PROVE  /\ i \in 1..Len(desc) /\ DOMAIN desc = 1..Len(desc) /\ desc[i] \in Descriptor
           /\ desc[i].file \in Allocated /\ desc[i].pos \in 0..MaxSize /\ desc[i].pos \in Nat
           /\ desc[i].cur \in Blocks \cup {NULL, Dangling} /\ desc[i].idx \in Int
           /\ desc[i].mode \in SUBSET {"READ", "WRITE"}
<1>1. desc \in Seq(Descriptor \cup {NULL}) /\ i \in 1..Len(desc) /\ desc[i] # NULL
  BY DEF UserFSTypeOK, OpenFds
<1>2. DOMAIN desc = 1..Len(desc) /\ desc[i] \in Descriptor
  BY <1>1
<1>3. /\ desc[i].pos \in 0..MaxSize /\ desc[i].cur \in Blocks \cup {NULL, Dangling} /\ desc[i].idx \in Int
      /\ desc[i].mode \in SUBSET {"READ", "WRITE"}
  BY <1>2 DEF Descriptor
<1>4. desc[i].file \in Allocated /\ desc[i].pos \in Nat
  BY <1>3, UserFSAssumption DEF UserFSTypeOK
<1>. QED BY <1>1, <1>2, <1>3, <1>4

LEMMA OwnBlocks ==
    ASSUME FSInv, NEW f \in Allocated, NEW s, s = file[f].blocks
    PROVE  s \in Seq(Blocks) /\ Len(s) \in Nat /\ Distinct(s) /\ Range(s) \subseteq heap
<1>1. s \in Seq(Blocks) /\ Len(s) \in Nat /\ DOMAIN s = 1..Len(s)
  BY FileFacts DEF FSInv
<1>2. Distinct(s)
  BY <1>1 DEF FSInv, FilesSound, BlocksOnce, Distinct
<1>3. Range(s) \subseteq heap
  BY DEF FSInv, FilesSound, BlocksOwned
<1>. QED BY <1>1, <1>2, <1>3

(* After a read of zero bytes the cached block starts at the position.     *)
LEMMA AheadPlace ==
    ASSUME NEW d, Ahead(d)
    PROVE  d.idx \in Nat /\ d.pos \in Nat /\ d.pos \div BlockSize = d.idx /\ d.pos % BlockSize = 0
<1>1. PICK q \in Nat : q = d.idx /\ d.pos = q * BlockSize
  BY DEF Ahead
<1>2. 0 \in Offsets /\ q * BlockSize \in Nat
  BY UserFSAssumption DEF Offsets
<1>3. q * BlockSize + 0 = q * BlockSize
  BY <1>2
<1>. QED BY <1>1, <1>2, <1>3, DivUnique

(* get_block_by_index finds the block of the position, if there is one,    *)
(* whatever the descriptor has cached, as long as it is not a freed block. *)
LEMMA FoundBlock ==
    ASSUME FSInv, NEW i \in OpenFds, NEW s, NEW at, NEW d,
           d = desc[i], s = file[d.file].blocks, at = d.pos \div BlockSize, Followable(d)
    PROVE  /\ at \in Nat /\ at <= Len(s)
           /\ at >= Len(s) => Found(d, at) = {}
           /\ at < Len(s) => Found(d, at) = {s[at + 1]} /\ Position(s, s[at + 1]) = at + 1
<1>. USE DEF FSInv, FilesSound, DescriptorsSound
<1>0. PICK f \in Allocated : f = desc[i].file
  BY DescFacts
<1>1. /\ d.pos \in Nat /\ d.idx \in Int /\ d.file = f
      /\ s = file[f].blocks /\ s \in Seq(Blocks) /\ Len(s) \in Nat /\ DOMAIN s = 1..Len(s)
      /\ file[f].size \in Nat
  BY <1>0, DescFacts, FileFacts
<1>2. d.pos <= file[f].size /\ Len(s) = BlocksFor(file[f].size)
  BY <1>0, <1>1 DEF PositionsInside, SizesFit
<1>3. at \in Nat /\ at <= Len(s)
  BY <1>1, <1>2, PlaceOf
<1>4. \A j, k \in 1..Len(s) : s[j] = s[k] => j = k
  BY <1>0, <1>1 DEF BlocksOnce
<1>5. ASSUME d.cur # NULL
      PROVE  /\ d.idx \in Nat /\ d.idx < Len(s) /\ s[d.idx + 1] = d.cur
             /\ at = d.idx \/ at = d.idx + 1
  <2>1. /\ s[d.idx + 1] = d.cur
        /\ Behind(d) \/ (Ahead(d) /\ d.pos < file[f].size)
    BY <1>0, <1>1, <1>5 DEF CacheExact, CacheFits, Followable
  <2>2. CASE Behind(d)
    <3>1. d.pos \in Nat \ {0} /\ d.idx = (d.pos - 1) \div BlockSize
      BY <1>1, <2>2 DEF Behind
    <3>2. d.pos - 1 \in Nat /\ file[f].size \in Nat /\ d.pos - 1 < file[f].size
      BY <1>1, <1>2, <3>1
    <3>3. PICK p \in Nat, n \in Nat : p = d.pos - 1 /\ n = file[f].size /\ p < n
      BY <3>2
    <3>4. p \div BlockSize \in Nat /\ p \div BlockSize < BlocksFor(n)
      BY <3>3, PlaceOf
    <3>5. d.idx \in Nat /\ d.idx < Len(s)
      BY <1>2, <3>1, <3>3, <3>4
    <3>. QED BY <2>1, <3>1, <3>5, DivStep
  <2>3. CASE Ahead(d) /\ d.pos < file[f].size
    <3>1. d.idx \in Nat /\ at = d.idx
      BY <2>3, AheadPlace
    <3>2. PICK p \in Nat, n \in Nat : p = d.pos /\ n = file[f].size /\ p < n
      BY <1>1, <2>3
    <3>3. p \div BlockSize < BlocksFor(n)
      BY <3>2, PlaceOf
    <3>. QED BY <1>2, <2>1, <3>1, <3>2, <3>3
  <2>. QED BY <2>1, <2>2, <2>3
<1>7. Found(d, at) = IF at < Len(s) THEN {s[at + 1]} ELSE {}
  <2>1. CASE d.cur = NULL
    BY <1>1, <2>1 DEF Found, Cached
  <2>2. CASE d.cur # NULL /\ at = d.idx
    <3>1. Cached(d, at) = {d.cur}
      BY <2>2 DEF Cached
    <3>. QED BY <1>5, <2>2, <3>1 DEF Found
  <2>3. CASE d.cur # NULL /\ at = d.idx + 1
    <3>1. Cached(d, at) = After(s, d.cur)
      BY <1>1, <1>5, <2>3 DEF Cached
    <3>2. ASSUME NEW k \in 2..Len(s) PROVE s[k - 1] = d.cur <=> k = at + 1
      <4>1. k - 1 \in 1..Len(s) /\ at \in 1..Len(s) /\ s[at] = d.cur
        BY <1>1, <1>5, <2>3
      <4>. QED BY <1>3, <1>4, <4>1
    <3>3. ASSUME at < Len(s) PROVE After(s, d.cur) = {s[at + 1]}
      <4>1. at + 1 \in 2..Len(s)
        BY <1>1, <1>3, <1>5, <2>3, <3>3
      <4>. QED BY <3>2, <3>3, <4>1 DEF After
    <3>4. ASSUME ~(at < Len(s)) PROVE After(s, d.cur) = {}
      <4>1. at + 1 \notin 2..Len(s)
        BY <1>1, <1>3, <3>4
      <4>. QED BY <3>2, <3>4, <4>1 DEF After
    <3>5. After(s, d.cur) = IF at < Len(s) THEN {s[at + 1]} ELSE {}
      BY <3>3, <3>4
    <3>. QED BY <1>1, <3>1, <3>5 DEF Found
  <2>. QED BY <1>5, <2>1, <2>2, <2>3
<1>8. at < Len(s) => Position(s, s[at + 1]) = at + 1
  BY <1>1, <1>3, <1>4 DEF Position
<1>9. at < Len(s) => Found(d, at) = {s[at + 1]}
  BY <1>7
<1>10. at >= Len(s) => Found(d, at) = {}
  <2>1. at >= Len(s) => ~(at < Len(s))
    BY <1>1, <1>3
  <2>. QED BY <1>7, <2>1
<1>. QED BY <1>3, <1>8, <1>9, <1>10

(* What fresh blocks are.                                                  *)
LEMMA FreshBlocks ==
    ASSUME NEW m \in Nat, NEW new \in Fresh(m)
    PROVE  /\ new \in Seq(Blocks) /\ Len(new) = m
           /\ \A i \in 1..m : new[i] \in Blocks /\ new[i] \notin heap
           /\ \A i, j \in 1..m : new[i] = new[j] => i = j
<1>1. new \in [1..m -> Blocks \ heap] /\ \A i, j \in 1..m : new[i] = new[j] => i = j
  BY DEF Fresh
<1>2. new \in [1..m -> Blocks]
  BY <1>1
<1>3. new \in Seq(Blocks) /\ Len(new) = m
  BY <1>2
<1>. QED BY <1>1, <1>3

-----------------------------------------------------------------------------
(* File f gets other blocks and another size: some of its blocks are kept, *)
(* others freed, and new ones come from the free ones.                     *)
Rewrites(f, r) ==
    LET s == file[f].blocks IN
    /\ r \in FileRecord
    /\ r.name = file[f].name /\ r.refs = file[f].refs /\ r.deleted = file[f].deleted
    /\ r.count = Len(r.blocks) /\ r.count = BlocksFor(r.size)
    /\ Distinct(r.blocks)
    /\ \A b \in Range(r.blocks) : b \in Range(s) \/ b \notin heap
    /\ listed' = listed
    /\ file' = [file EXCEPT ![f] = r]
    /\ heap' = (heap \ Range(s)) \cup Range(r.blocks)
    /\ mem' \in [Blocks -> [Offsets -> Data]]
    /\ \A b \in Blocks \ (Range(s) \cup Range(r.blocks)) : mem'[b] = mem[b]
    /\ \A b \in Range(s) \ Range(r.blocks) : mem'[b] = EmptyBlock
    /\ ZeroFrom(mem', r.blocks, r.size)

LEMMA RewrittenFile ==
    ASSUME FSInv, NEW f, NEW r, f \in Allocated, Rewrites(f, r)
    PROVE  /\ FilesSound'
           /\ file' \in [Files -> FileRecord \cup {NULL}] /\ heap' \subseteq Blocks
           /\ Allocated' = Allocated /\ file'[f] = r
           /\ \A g \in Files : g # f => file'[g] = file[g]
           /\ \A g \in Allocated : g # f => \A p \in Nat :
                p \div BlockSize < Len(file[g].blocks) =>
                    Spell(mem', file[g].blocks, p) = Spell(mem, file[g].blocks, p)
           /\ r.blocks \in Seq(Blocks) /\ r.size \in 0..MaxSize /\ r.size \in Nat
           /\ Len(r.blocks) = BlocksFor(r.size)
<1>. USE DEF FSInv, FilesSound
<1>. DEFINE s == file[f].blocks
<1>1. /\ r \in FileRecord /\ r.blocks \in Seq(Blocks) /\ r.size \in 0..MaxSize /\ r.size \in Nat
      /\ r.name = file[f].name /\ Len(r.blocks) = BlocksFor(r.size)
      /\ r.count = Len(r.blocks) /\ Len(r.blocks) \in Nat /\ DOMAIN r.blocks = 1..Len(r.blocks)
  <2>1. /\ r \in FileRecord /\ r.blocks \in Seq(Blocks) /\ r.size \in 0..MaxSize
    BY DEF Rewrites, FileRecord
  <2>2. r.size \in Nat /\ Len(r.blocks) \in Nat /\ DOMAIN r.blocks = 1..Len(r.blocks)
    BY <2>1, UserFSAssumption
  <2>. QED BY <2>1, <2>2 DEF Rewrites
<1>2. r # NULL
  BY <1>1, UserFSAssumption
<1>3. /\ f \in Files /\ file' = [file EXCEPT ![f] = r] /\ listed' = listed
      /\ file \in [Files -> FileRecord \cup {NULL}] /\ heap \subseteq Blocks
  BY FileFacts DEF Rewrites, UserFSTypeOK
<1>4. /\ file' \in [Files -> FileRecord \cup {NULL}]
      /\ file'[f] = r /\ \A g \in Files : g # f => file'[g] = file[g]
  BY <1>1, <1>3
<1>5. Allocated' = Allocated
  BY <1>2, <1>4 DEF Allocated
<1>6. heap' = (heap \ Range(s)) \cup Range(r.blocks)
  BY DEF Rewrites
<1>7. heap' \subseteq Blocks
  BY <1>1, <1>3, <1>6 DEF Range
<1>8. \A g \in Allocated : g # f => Range(file[g].blocks) \cap (Range(s) \cup Range(r.blocks)) = {}
  <2>. SUFFICES ASSUME NEW g \in Allocated, g # f, NEW b \in Range(file[g].blocks)
                PROVE  b \notin Range(s) /\ b \notin Range(r.blocks)
    OBVIOUS
  <2>1. b \in heap
    BY DEF BlocksOwned
  <2>2. b \notin Range(s)
    BY DEF BlocksOnce, Range
  <2>. QED BY <2>1, <2>2 DEF Rewrites
<1>9. \A g \in Allocated : g # f => \A b \in Range(file[g].blocks) : mem'[b] = mem[b]
  <2>1. \A g \in Allocated : Range(file[g].blocks) \subseteq Blocks
    BY FileFacts DEF Range
  <2>. QED BY <1>8, <2>1 DEF Rewrites
<1>10. \A g \in Allocated : g # f => \A p \in Nat :
          p \div BlockSize < Len(file[g].blocks) =>
              Spell(mem', file[g].blocks, p) = Spell(mem, file[g].blocks, p)
  <2>. SUFFICES ASSUME NEW g \in Allocated, g # f, NEW p \in Nat,
                       p \div BlockSize < Len(file[g].blocks)
                PROVE  Spell(mem', file[g].blocks, p) = Spell(mem, file[g].blocks, p)
    OBVIOUS
  <2>1. PICK q \in Nat : q = p \div BlockSize
    BY DivMod
  <2>2. file[g].blocks[q + 1] \in Range(file[g].blocks)
    BY <2>1, FileFacts DEF Range
  <2>. QED BY <1>9, <2>1, <2>2 DEF Spell
<1>11. BlocksOwned'
  <2>1. \A b : b \in heap' <=> \E g \in Allocated : b \in Range(file'[g].blocks)
    <3>1. \A b : b \in heap <=> \E g \in Allocated : b \in Range(file[g].blocks)
      BY DEF BlocksOwned
    <3>2. \A g \in Allocated : g \in Files
      BY DEF Allocated
    <3>. QED BY <1>4, <1>6, <1>8, <3>1, <3>2
  <2>. QED BY <1>5, <2>1 DEF BlocksOwned
<1>12. BlocksOnce'
  <2>. SUFFICES ASSUME NEW g \in Allocated, NEW h \in Allocated,
                       NEW i \in DOMAIN file'[g].blocks, NEW j \in DOMAIN file'[h].blocks,
                       file'[g].blocks[i] = file'[h].blocks[j]
                PROVE  g = h /\ i = j
    BY <1>5 DEF BlocksOnce
  <2>0. g \in Files /\ h \in Files
    BY DEF Allocated
  <2>1. CASE g = f /\ h = f
    BY <1>1, <1>4, <2>1 DEF Rewrites, Distinct
  <2>2. CASE g # f /\ h # f
    BY <1>4, <2>0, <2>2 DEF BlocksOnce
  <2>3. CASE g = f /\ h # f
    BY <1>4, <1>8, <2>0, <2>3 DEF Range
  <2>4. CASE g # f /\ h = f
    BY <1>4, <1>8, <2>0, <2>4 DEF Range
  <2>. QED BY <2>1, <2>2, <2>3, <2>4
<1>13. SizesFit'
  <2>. SUFFICES ASSUME NEW g \in Allocated
                PROVE  /\ file'[g].count = Len(file'[g].blocks)
                       /\ Len(file'[g].blocks) = BlocksFor(file'[g].size)
    BY <1>5 DEF SizesFit
  <2>. QED BY <1>1, <1>4, FileFacts DEF SizesFit
<1>14. RestZero'
  <2>. SUFFICES ASSUME NEW g \in Allocated
                PROVE  ZeroFrom(mem', file'[g].blocks, file'[g].size)
    BY <1>5 DEF RestZero
  <2>1. CASE g = f
    BY <1>4, <2>1 DEF Rewrites
  <2>2. CASE g # f
    <3>1. ZeroFrom(mem, file[g].blocks, file[g].size) /\ file'[g] = file[g]
      BY <1>4, <2>2, FileFacts DEF RestZero
    <3>2. ZeroFrom(mem', file[g].blocks, file[g].size)
      BY <1>10, <2>2, <3>1 DEF ZeroFrom
    <3>. QED BY <3>1, <3>2
  <2>. QED BY <2>1, <2>2
<1>15. FreeClean'
  <2>. SUFFICES ASSUME NEW b \in Blocks \ heap' PROVE mem'[b] = EmptyBlock
    BY DEF FreeClean
  <2>1. b \notin Range(r.blocks) /\ (b \in Range(s) \/ b \notin heap)
    BY <1>6
  <2>. QED BY <2>1 DEF FreeClean, Rewrites
<1>16. NamesOnce'
  <2>1. \A g \in listed : file'[g].name = file[g].name
    BY <1>1, <1>3, <1>4, FileFacts DEF UserFSTypeOK
  <2>. QED BY <1>3, <2>1 DEF NamesOnce
<1>. QED BY <1>1, <1>4, <1>5, <1>7, <1>10, <1>11, <1>12, <1>13, <1>14, <1>15, <1>16

(* The list t is the list s with the m new blocks behind it.               *)
Longer(s, m, new, t) ==
    /\ t \in Seq(Blocks) /\ Len(t) = Len(s) + m /\ Len(t) \in Nat /\ Len(new) = m
    /\ Extends(s, t) /\ Distinct(t)
    /\ Range(t) = Range(s) \cup Range(new) /\ Range(new) \cap heap = {}

LEMMA MoreBlocks ==
    ASSUME NEW s \in Seq(Blocks), NEW m \in Nat, NEW new \in Fresh(m), NEW t, t = s \o new,
           Distinct(s), Range(s) \subseteq heap
    PROVE  Longer(s, m, new, t)
<1>0. \A i \in 1..Len(s) : s[i] \in heap
  BY DEF Range
<1>1. /\ new \in Seq(Blocks) /\ Len(new) = m
      /\ \A i \in 1..m : new[i] \in Blocks /\ new[i] \notin heap
      /\ \A i, j \in 1..m : new[i] = new[j] => i = j
  BY FreshBlocks
<1>2. Len(s) \in Nat /\ DOMAIN s = 1..Len(s) /\ DOMAIN new = 1..m
  BY <1>1
<1>3. /\ t \in Seq(Blocks) /\ Len(t) = Len(s) + m /\ DOMAIN t = 1..Len(t)
      /\ \A i \in 1..Len(s) : t[i] = s[i]
      /\ \A i \in 1..m : t[Len(s) + i] = new[i]
  <2>1. /\ t \in Seq(Blocks) /\ Len(t) = Len(s) + m
        /\ \A i \in 1..Len(s) + m : t[i] = IF i <= Len(s) THEN s[i] ELSE new[i - Len(s)]
    BY <1>1, ConcatProperties
  <2>2. PICK k \in Nat : k = Len(s)
    BY <1>2
  <2>3. \A i \in 1..k : i \in 1..k + m /\ i <= k
    OBVIOUS
  <2>4. \A i \in 1..m : k + i \in 1..k + m /\ ~(k + i <= k) /\ (k + i) - k = i
    OBVIOUS
  <2>5. \A i \in 1..Len(s) : t[i] = s[i]
    BY <2>1, <2>2, <2>3
  <2>6. \A i \in 1..m : t[Len(s) + i] = new[i]
    BY <2>1, <2>2, <2>4
  <2>7. DOMAIN t = 1..Len(t)
    BY <2>1
  <2>. QED BY <2>1, <2>5, <2>6, <2>7
<1>4. PICK k \in Nat : k = Len(s) /\ Len(t) = k + m
  BY <1>2, <1>3
<1>5. ASSUME NEW i \in 1..k + m, i > k
      PROVE  i - k \in 1..m /\ i = k + (i - k)
  BY <1>5
<1>6. \A i \in 1..k + m : i > k => \E j \in 1..m : i = k + j
  BY <1>5
<1>7. /\ \A i \in 1..k : i \in 1..k + m
      /\ \A i \in 1..m : k + i \in 1..k + m /\ k + i > k
      /\ \A i \in 1..k + m : ~(i > k) => i \in 1..k
  OBVIOUS
<1>8. ASSUME NEW i \in 1..k + m, i > k PROVE t[i] \in Blocks \ heap
  <2>1. PICK j \in 1..m : i = k + j
    BY <1>6, <1>8
  <2>2. t[k + j] = new[j]
    BY <1>3, <1>4
  <2>3. new[j] \in Blocks \ heap
    BY <1>1
  <2>. QED BY <2>1, <2>2, <2>3
<1>9. ASSUME NEW i \in 1..k + m, NEW j \in 1..k + m, t[i] = t[j] PROVE i = j
  <2>1. CASE i > k /\ j > k
    <3>1. PICK x \in 1..m, y \in 1..m : i = k + x /\ j = k + y
      BY <1>6, <2>1
    <3>2. t[k + x] = new[x] /\ t[k + y] = new[y]
      BY <1>3, <1>4
    <3>3. new[x] = new[y]
      BY <1>9, <3>1, <3>2
    <3>. QED BY <1>1, <3>1, <3>3
  <2>2. CASE i > k /\ ~(j > k)
    BY <1>0, <1>3, <1>4, <1>7, <1>8, <1>9, <2>2
  <2>3. CASE ~(i > k) /\ j > k
    BY <1>0, <1>3, <1>4, <1>7, <1>8, <1>9, <2>3
  <2>4. CASE ~(i > k) /\ ~(j > k)
    BY <1>3, <1>4, <1>7, <1>9, <2>4 DEF Distinct
  <2>. QED BY <2>1, <2>2, <2>3, <2>4
<1>10. Range(t) = Range(s) \cup Range(new)
  <2>1. /\ Range(t) = {t[i] : i \in 1..k + m} /\ Range(s) = {s[i] : i \in 1..k}
        /\ Range(new) = {new[i] : i \in 1..m}
    BY <1>2, <1>3, <1>4 DEF Range
  <2>2. \A i \in 1..k + m : t[i] \in {s[j] : j \in 1..k} \cup {new[j] : j \in 1..m}
    <3>. SUFFICES ASSUME NEW i \in 1..k + m
                  PROVE  t[i] \in {s[j] : j \in 1..k} \cup {new[j] : j \in 1..m}
      OBVIOUS
    <3>1. CASE i > k
      <4>1. PICK x \in 1..m : i = k + x
        BY <1>6, <3>1
      <4>2. t[k + x] = new[x]
        BY <1>3, <1>4
      <4>. QED BY <4>1, <4>2
    <3>2. CASE ~(i > k)
      BY <1>3, <1>4, <1>7, <3>2
    <3>. QED BY <3>1, <3>2
  <2>3. \A i \in 1..k : s[i] \in {t[j] : j \in 1..k + m}
    BY <1>3, <1>4, <1>7
  <2>4. \A i \in 1..m : new[i] \in {t[j] : j \in 1..k + m}
    <3>. SUFFICES ASSUME NEW i \in 1..m PROVE new[i] \in {t[j] : j \in 1..k + m}
      OBVIOUS
    <3>1. t[k + i] = new[i] /\ k + i \in 1..k + m
      BY <1>3, <1>4, <1>7
    <3>. QED BY <3>1
  <2>5. Range(t) \subseteq Range(s) \cup Range(new)
    BY <2>1, <2>2
  <2>6. Range(s) \subseteq Range(t) /\ Range(new) \subseteq Range(t)
    BY <2>1, <2>3, <2>4
  <2>. QED BY <2>5, <2>6
<1>11. Range(new) \cap heap = {}
  BY <1>1, <1>2 DEF Range
<1>12. Extends(s, t)
  BY <1>3, <1>4, <1>8 DEF Begins, Extends
<1>13. Distinct(t)
  BY <1>4, <1>9 DEF Distinct
<1>. QED BY <1>1, <1>3, <1>4, <1>10, <1>11, <1>12, <1>13 DEF Longer

(* The bytes m are those of mem with buf written from position pos on.     *)
Overwrites(m, s, pos, buf) ==
    \A p \in Nat : p \div BlockSize < Len(s) =>
        Spell(m, s, p) = IF p \in pos..pos + Len(buf) - 1 THEN buf[p - pos + 1]
                         ELSE Spell(mem, s, p)

(* The bytes m are those of mem but for the blocks s.                      *)
Elsewhere(m, s) == \A b \in Blocks : b \notin Range(s) => m[b] = mem[b]

(* What a write stores where.                                              *)
LEMMA StoredBytes ==
    ASSUME UserFSTypeOK, NEW t \in Seq(Blocks), NEW pos \in Nat, NEW buf \in Seq(Data) \ {<<>>},
           Distinct(t),
           NEW js, js = (pos \div BlockSize + 1)..((pos + Len(buf) - 1) \div BlockSize + 1),
           (pos + Len(buf) - 1) \div BlockSize < Len(t),
           NEW m, m = Stored(t, js, -1, pos, buf)
    PROVE  /\ m \in [Blocks -> [Offsets -> Data]]
           /\ Elsewhere(m, t)
           /\ Overwrites(m, t, pos, buf)
<1>. DEFINE at(b, o) == {j \in js : t[j] = b /\ (j + -1) * BlockSize + o \in pos..pos + Len(buf) - 1}
            byte(b, o) == buf[((((CHOOSE j \in at(b, o) : TRUE) + -1) * BlockSize + o) - pos) + 1]
<1>0. /\ BlockSize \in Nat \ {0} /\ Len(buf) \in Nat \ {0} /\ pos + Len(buf) - 1 \in Nat
      /\ Len(t) \in Nat /\ mem \in [Blocks -> [Offsets -> Data]]
      /\ \A i \in 1..Len(buf) : buf[i] \in Data
      /\ \A i \in 1..Len(t) : t[i] \in Blocks
  BY UserFSAssumption DEF UserFSTypeOK
<1>00. PICK last \in Nat : last = pos + Len(buf) - 1 /\ pos <= last
  <2>1. ASSUME NEW n \in Nat \ {0} PROVE pos + n - 1 \in Nat /\ pos <= pos + n - 1
    OBVIOUS
  <2>. QED BY <1>0, <2>1
<1>1. m = [b \in Blocks |-> [o \in Offsets |->
            IF at(b, o) = {} THEN mem[b][o] ELSE byte(b, o)]]
  BY DEF Stored
<1>2. js \subseteq 1..Len(t)
  <2>1. /\ pos \div BlockSize \in Nat /\ (pos + Len(buf) - 1) \div BlockSize \in Nat
    BY <1>0, DivMod
  <2>. QED BY <1>0, <2>1
<1>. HIDE DEF byte
<1>3. ASSUME NEW b \in Blocks, NEW o \in Offsets
      PROVE  /\ at(b, o) # {} => byte(b, o) \in Data
             /\ m[b][o] = IF at(b, o) = {} THEN mem[b][o] ELSE byte(b, o)
  <2>1. ASSUME at(b, o) # {} PROVE byte(b, o) \in Data
    <3>1. PICK j \in at(b, o) : j = CHOOSE i \in at(b, o) : TRUE
      BY <2>1
    <3>2. byte(b, o) = buf[(((j + -1) * BlockSize + o) - pos) + 1]
      BY <3>1 DEF byte
    <3>3. PICK p \in pos..pos + Len(buf) - 1 : p = (j + -1) * BlockSize + o
      OBVIOUS
    <3>4. PICK i \in 1..Len(buf) : i = (p - pos) + 1
      <4>1. p \in pos..last
        BY <1>00, <3>3
      <4>2. (p - pos) + 1 \in 1..Len(buf)
        BY <1>0, <4>1
      <4>. QED BY <4>2
    <3>5. byte(b, o) = buf[i]
      BY <3>2, <3>3, <3>4
    <3>. QED BY <1>0, <3>5
  <2>. HIDE DEF at
  <2>. QED BY <1>1, <2>1
<1>4. m \in [Blocks -> [Offsets -> Data]]
  <2>. HIDE DEF at
  <2>1. \A b \in Blocks : [o \in Offsets |-> IF at(b, o) = {} THEN mem[b][o] ELSE byte(b, o)]
                           \in [Offsets -> Data]
    BY <1>0, <1>3
  <2>. QED BY <1>1, <2>1
<1>5. ASSUME NEW b \in Blocks, b \notin Range(t) PROVE m[b] = mem[b]
  <2>1. \A o \in Offsets : at(b, o) = {}
    BY <1>2, <1>5 DEF Range
  <2>. HIDE DEF at
  <2>2. \A o \in Offsets : m[b][o] = mem[b][o]
    BY <1>3, <2>1
  <2>3. m[b] \in [Offsets -> Data] /\ mem[b] \in [Offsets -> Data]
    BY <1>0, <1>4
  <2>. QED BY <2>2, <2>3
<1>6. ASSUME NEW p \in Nat, p \div BlockSize < Len(t)
      PROVE  m[t[p \div BlockSize + 1]][p % BlockSize] =
                 IF p \in pos..pos + Len(buf) - 1 THEN buf[p - pos + 1]
                 ELSE mem[t[p \div BlockSize + 1]][p % BlockSize]
  <2>1. PICK i \in Nat, o \in Offsets :
          i = p \div BlockSize /\ o = p % BlockSize /\ p = i * BlockSize + o
    BY <1>0, DivMod
  <2>2. PICK b \in Blocks : b = t[i + 1] /\ i + 1 \in 1..Len(t)
    BY <1>0, <1>6, <2>1
  <2>3. p \in pos..pos + Len(buf) - 1 => i + 1 \in js
    <3>. SUFFICES ASSUME p \in pos..pos + Len(buf) - 1 PROVE i + 1 \in js
      OBVIOUS
    <3>1. pos <= p /\ p <= last
      BY <1>0, <1>00
    <3>2. pos \div BlockSize <= i /\ i <= last \div BlockSize
      BY <2>1, <3>1, DivMonotone
    <3>3. pos \div BlockSize \in Nat /\ last \div BlockSize \in Nat
      BY DivMod
    <3>4. i + 1 \in (pos \div BlockSize + 1)..(last \div BlockSize + 1)
      BY <3>2, <3>3
    <3>. QED BY <1>00, <3>4
  <2>4. ASSUME NEW j \in js
        PROVE  j \in at(b, o) <=> j = i + 1 /\ p \in pos..pos + Len(buf) - 1
    <3>1. j \in 1..Len(t)
      BY <1>2
    <3>2. t[j] = b <=> j = i + 1
      BY <2>2, <3>1 DEF Distinct
    <3>3. j = i + 1 => (j + -1) * BlockSize + o = p
      <4>1. j = i + 1 => j + -1 = i
        OBVIOUS
      <4>. QED BY <2>1, <4>1
    <3>. QED BY <3>2, <3>3
  <2>5. CASE p \in pos..pos + Len(buf) - 1
    <3>1. at(b, o) = {i + 1}
      BY <2>3, <2>4, <2>5
    <3>2. (CHOOSE j \in at(b, o) : TRUE) = i + 1
      BY <3>1
    <3>. HIDE DEF at
    <3>3. byte(b, o) = buf[((((i + 1) + -1) * BlockSize + o) - pos) + 1]
      BY <3>2 DEF byte
    <3>4. ((i + 1) + -1) * BlockSize + o = p
      <4>1. (i + 1) + -1 = i
        OBVIOUS
      <4>. QED BY <2>1, <4>1
    <3>5. byte(b, o) = buf[p - pos + 1]
      BY <3>3, <3>4
    <3>6. m[b][o] = byte(b, o)
      BY <1>3, <3>1
    <3>. QED BY <2>1, <2>2, <2>5, <3>5, <3>6
  <2>6. CASE p \notin pos..pos + Len(buf) - 1
    <3>1. at(b, o) = {}
      BY <2>4, <2>6
    <3>. HIDE DEF at
    <3>2. m[b][o] = mem[b][o]
      BY <1>3, <3>1
    <3>. QED BY <2>1, <2>2, <2>6, <3>2
  <2>. QED BY <2>5, <2>6
<1>. QED BY <1>4, <1>5, <1>6 DEF Elsewhere, Overwrites, Spell

(* Behind the end of a file its new blocks are zero, too.                  *)
LEMMA NewBlocksZero ==
    ASSUME FreeClean, NEW s, Len(s) \in Nat, NEW t \in Seq(Blocks), Extends(s, t), NEW n \in Nat,
           ZeroFrom(mem, s, n)
    PROVE  ZeroFrom(mem, t, n)
<1>. SUFFICES ASSUME NEW p \in Nat, p >= n, p \div BlockSize < Len(t)
              PROVE  Spell(mem, t, p) = Zero
  BY DEF ZeroFrom
<1>1. PICK i \in Nat, o \in Offsets, k \in Nat, l \in Nat :
        i = p \div BlockSize /\ o = p % BlockSize /\ k = Len(s) /\ l = Len(t) /\ i < l
  BY DivMod
<1>2. CASE i < k
  <2>1. Spell(mem, s, p) = Zero
    BY <1>1, <1>2 DEF ZeroFrom
  <2>2. i + 1 \in 1..k
    BY <1>2
  <2>3. t[i + 1] = s[i + 1]
    BY <1>1, <2>2 DEF Begins, Extends
  <2>. QED BY <1>1, <2>1, <2>3 DEF Spell
<1>3. CASE ~(i < k)
  <2>1. i + 1 \in 1..l /\ i + 1 > k
    BY <1>1, <1>3
  <2>2. t[i + 1] \in Blocks \ heap
    BY <1>1, <2>1 DEF Extends
  <2>3. mem[t[i + 1]] = EmptyBlock
    BY <2>2 DEF FreeClean
  <2>. QED BY <1>1, <2>3 DEF Spell, EmptyBlock
<1>. QED BY <1>2, <1>3

LEMMA OverwrittenZero ==
    ASSUME NEW t, NEW m, NEW buf, Len(buf) \in Nat, NEW pos \in Nat, NEW n \in Nat, NEW size \in Nat,
           Overwrites(m, t, pos, buf), ZeroFrom(mem, t, n), n <= size, pos + Len(buf) <= size
    PROVE  ZeroFrom(m, t, size)
<1>. SUFFICES ASSUME NEW p \in Nat, p >= size, p \div BlockSize < Len(t)
              PROVE  Spell(m, t, p) = Zero
  BY DEF ZeroFrom
<1>1. PICK l \in Nat : l = Len(buf)
  OBVIOUS
<1>2. p \notin pos..pos + l - 1 /\ p >= n
  BY <1>1
<1>. QED BY <1>1, <1>2 DEF Overwrites, ZeroFrom

(* The length of a list with as many new blocks as it needs to have n.     *)
LEMMA EnoughBlocks ==
    ASSUME NEW k \in Nat, NEW n \in Nat
    PROVE  Most(0, n - k) \in Nat /\ k + Most(0, n - k) = Most(k, n)
           /\ Most(k, n) \in Nat /\ n <= Most(k, n) /\ k <= Most(k, n)
BY DEF Most

LEMMA MostOf ==
    ASSUME NEW m \in Nat, NEW n \in Nat, NEW k \in Nat, m <= k, n <= k
    PROVE  Most(m, n) \in Nat /\ m <= Most(m, n) /\ n <= Most(m, n) /\ Most(m, n) <= k
BY DEF Most

LEMMA BlocksForMost ==
    ASSUME NEW m \in Nat, NEW n \in Nat
    PROVE  BlocksFor(Most(m, n)) = Most(BlocksFor(m), BlocksFor(n))
<1>0. BlocksFor(m) \in Nat /\ BlocksFor(n) \in Nat
  BY BlocksForSize
<1>1. CASE m < n
  <2>1. BlocksFor(m) <= BlocksFor(n)
    BY <1>1, BlocksForMonotone
  <2>. QED BY <1>0, <1>1, <2>1 DEF Most
<1>2. CASE ~(m < n)
  <2>1. BlocksFor(n) <= BlocksFor(m)
    BY <1>2, BlocksForMonotone
  <2>. QED BY <1>0, <1>2, <2>1 DEF Most
<1>. QED BY <1>1, <1>2

(* A write rewrites the file: the old blocks stay, new ones are added, and *)
(* the descriptor caches the block of the last byte written.               *)
Wrote(fd, buf, r, q) ==
    LET f == desc[fd].file
        pos == desc[fd].pos
        end == pos + Len(buf)
    IN  /\ Rewrites(f, r) /\ Begins(file[f].blocks, r.blocks)
        /\ r.size = Most(file[f].size, end)
        /\ q = (end - 1) \div BlockSize
        /\ desc' = [desc EXCEPT ![fd] =
             [desc[fd] EXCEPT !.pos = end, !.cur = r.blocks[q + 1], !.idx = q]]
        /\ Overwrites(mem', r.blocks, pos, buf)
        /\ Done(Len(buf))

LEMMA WriteEffect ==
    ASSUME FSInv, NEW fd, fd \in OpenFds, NEW buf, buf \in Seq(Data) \ {<<>>}, WriteBytes(fd, buf),
           desc[fd].pos + Len(buf) <= MaxSize, Followable(desc[fd])
    PROVE  \E r \in FileRecord, q \in Nat : Wrote(fd, buf, r, q)
<1>. PICK f, pos, end, s :
       /\ f = desc[fd].file /\ pos = desc[fd].pos /\ end = pos + Len(buf) /\ end <= MaxSize
       /\ s = file[f].blocks
  OBVIOUS
<1>0. BlockSize \in Nat \ {0} /\ MaxSize \in Nat /\ Zero \in Data
  BY UserFSAssumption
<1>1. /\ f \in Allocated /\ pos \in Nat /\ file[f] \in FileRecord
      /\ s \in Seq(Blocks) /\ Len(s) \in Nat /\ DOMAIN s = 1..Len(s)
      /\ file[f].size \in Nat /\ file[f].size <= MaxSize
      /\ pos <= file[f].size /\ Len(s) = BlocksFor(file[f].size) /\ file[f].count = Len(s)
  <2>. USE DEF FSInv, FilesSound, DescriptorsSound
  <2>1. /\ f \in Allocated /\ pos \in Nat
    BY DescFacts
  <2>. QED BY <1>0, <2>1, FileFacts DEF PositionsInside, SizesFit
<1>2. PICK at \in Nat : at = pos \div BlockSize
  BY <1>1, DivMod
<1>3. /\ at <= Len(s)
      /\ FirstIndex(desc[fd], at) = at + 1
  <2>1. /\ at <= Len(s)
        /\ at >= Len(s) => Found(desc[fd], at) = {}
        /\ at < Len(s) => Found(desc[fd], at) = {s[at + 1]} /\ Position(s, s[at + 1]) = at + 1
    BY <1>2, FoundBlock
  <2>2. CASE at >= Len(s)
    BY <1>1, <2>1, <2>2 DEF FirstIndex
  <2>3. CASE at < Len(s)
    <3>1. (CHOOSE b \in {s[at + 1]} : TRUE) = s[at + 1]
      OBVIOUS
    <3>. QED BY <2>1, <2>3, <3>1 DEF FirstIndex
  <2>. QED BY <1>1, <2>1, <2>2, <2>3
<1>4. /\ Len(buf) \in Nat \ {0} /\ end \in Nat \ {0} /\ end - 1 \in Nat /\ pos <= end - 1
  <2>1. Len(buf) \in Nat \ {0}
    BY EmptySeq
  <2>2. \A x \in Nat, n \in Nat \ {0} :
          x + n \in Nat \ {0} /\ (x + n) - 1 \in Nat /\ x <= (x + n) - 1
    OBVIOUS
  <2>. QED BY <1>1, <2>1, <2>2
<1>5. PICK q \in Nat : q = (end - 1) \div BlockSize
  BY <1>4, DivMod
<1>6. at <= q /\ BlocksFor(end) = q + 1
  BY <1>1, <1>2, <1>4, <1>5, DivMonotone, BlocksForSize
<1>7. PICK first \in Nat, k \in Nat, last \in Nat :
        /\ first = desc[fd].pos \div BlockSize /\ k = FirstIndex(desc[fd], first)
        /\ last = k + ((desc[fd].pos + Len(buf)) - 1) \div BlockSize - first
        /\ first = at /\ k = at + 1 /\ last = q + 1
  BY <1>2, <1>3, <1>5
<1>8. PICK new \in Fresh(Most(0, last - Len(file[desc[fd].file].blocks))) :
        /\ heap' = heap \cup Range(new)
        /\ mem' = Stored(file[desc[fd].file].blocks \o new, k..last, first - k, desc[fd].pos, buf)
        /\ file' = [file EXCEPT ![desc[fd].file] =
             [file[desc[fd].file] EXCEPT !.blocks = file[desc[fd].file].blocks \o new,
                !.count = @ + Len(new), !.size = Most(@, desc[fd].pos + Len(buf))]]
        /\ desc' = [desc EXCEPT ![fd] =
             [desc[fd] EXCEPT !.pos = desc[fd].pos + Len(buf),
                !.cur = (file[desc[fd].file].blocks \o new)[last], !.idx = first + last - k]]
        /\ Done(Len(buf))
        /\ listed' = listed
  BY <1>7 DEF WriteBytes
<1>9. first + last - k = q /\ first - k = -1
  BY <1>7
<1>10. PICK m \in Nat : m = Most(0, (q + 1) - Len(s)) /\ new \in Fresh(m)
  <2>1. Most(0, (q + 1) - Len(s)) \in Nat
    BY <1>1 DEF Most
  <2>2. Most(0, last - Len(file[desc[fd].file].blocks)) = Most(0, (q + 1) - Len(s))
    <3>1. Len(file[desc[fd].file].blocks) = Len(s) /\ last = q + 1
      BY <1>7
    <3>2. last - Len(s) = (q + 1) - Len(s)
      BY <1>1, <3>1
    <3>. QED BY <3>1, <3>2
  <2>. QED BY <1>8, <2>1, <2>2
<1>11. PICK t : t = s \o new
  OBVIOUS
<1>12. mem' = Stored(t, at + 1..q + 1, -1, pos, buf)
  BY <1>7, <1>8, <1>9, <1>11
<1>13. file' = [file EXCEPT ![f] =
          [file[f] EXCEPT !.blocks = t, !.count = @ + Len(new), !.size = Most(@, end)]]
  BY <1>8, <1>11
<1>14. desc' = [desc EXCEPT ![fd] = [desc[fd] EXCEPT !.pos = end, !.cur = t[q + 1], !.idx = q]]
  BY <1>7, <1>8, <1>9, <1>11
<1>15. Distinct(s) /\ Range(s) \subseteq heap
  BY <1>1, OwnBlocks
<1>16. /\ t \in Seq(Blocks) /\ Len(t) = Len(s) + m /\ Len(t) \in Nat /\ Len(new) = m
       /\ Extends(s, t) /\ Distinct(t)
       /\ Range(t) = Range(s) \cup Range(new) /\ Range(new) \cap heap = {}
  <2>1. s \in Seq(Blocks) /\ new \in Fresh(m) /\ t = s \o new /\ Distinct(s) /\ Range(s) \subseteq heap
    BY <1>1, <1>10, <1>11, <1>15
  <2>2. Longer(s, m, new, t)
    BY <1>10, <2>1, MoreBlocks
  <2>. QED BY <2>2 DEF Longer
<1>17. PICK old \in Nat, size \in Nat :
         /\ old = file[f].size /\ size = Most(old, end) /\ size <= MaxSize
         /\ old <= size /\ end <= size
  <2>1. file[f].size \in Nat /\ end \in Nat /\ MaxSize \in Nat /\ file[f].size <= MaxSize
    BY <1>0, <1>1, <1>4
  <2>2. PICK old \in Nat, size \in Nat : old = file[f].size /\ size = Most(old, end)
    BY <2>1 DEF Most
  <2>3. old <= size /\ end <= size /\ size <= MaxSize
    BY <2>1, <2>2, MostOf
  <2>. QED BY <2>2, <2>3
<1>18. BlocksFor(size) = Len(t) /\ q < Len(t)
  <2>1. Len(t) = Most(Len(s), q + 1) /\ q + 1 <= Most(Len(s), q + 1)
    <3>1. Len(s) \in Nat /\ q + 1 \in Nat /\ Len(t) = Len(s) + Most(0, (q + 1) - Len(s))
      <4>1. Len(s) \in Nat /\ q + 1 \in Nat
        BY <1>1
      <4>2. Len(t) = Len(s) + m
        BY <1>16
      <4>. QED BY <1>10, <4>1, <4>2
    <3>. QED BY <3>1, EnoughBlocks
  <2>2. BlocksFor(size) = Most(Len(s), q + 1)
    <3>1. end \in Nat /\ BlocksFor(old) = Len(s)
      BY <1>1, <1>4, <1>17
    <3>. QED BY <1>6, <1>17, <3>1, BlocksForMost
  <2>3. Most(Len(s), q + 1) \in Nat
    <3>1. Len(s) \in Nat /\ q + 1 \in Nat
      BY <1>1
    <3>. QED BY <3>1, EnoughBlocks
  <2>4. q < Len(t)
    BY <2>1, <2>3
  <2>. QED BY <2>1, <2>2, <2>4
<1>19. PICK r \in FileRecord :
         r = [file[f] EXCEPT !.blocks = t, !.count = @ + Len(new), !.size = Most(@, end)]
  <2>1. file[f].count + Len(new) \in Nat
    BY <1>1, <1>10, <1>16
  <2>2. Most(file[f].size, end) \in 0..MaxSize
    BY <1>0, <1>17
  <2>. QED BY <1>1, <1>16, <2>1, <2>2 DEF FileRecord
<1>20. /\ r.name = file[f].name /\ r.refs = file[f].refs /\ r.deleted = file[f].deleted
       /\ r.blocks = t /\ r.size = size /\ r.count = Len(t)
  BY <1>1, <1>16, <1>17, <1>19 DEF FileRecord
<1>21. /\ mem' \in [Blocks -> [Offsets -> Data]] /\ Elsewhere(mem', t)
       /\ Overwrites(mem', t, pos, buf)
  <2>1. pos + Len(buf) - 1 = end - 1
    BY <1>1, <1>4
  <2>2. PICK js, mm :
          /\ js = (pos \div BlockSize + 1)..((pos + Len(buf) - 1) \div BlockSize + 1)
          /\ mm = Stored(t, js, -1, pos, buf) /\ mem' = mm
    BY <1>2, <1>5, <1>12, <2>1
  <2>3. (pos + Len(buf) - 1) \div BlockSize < Len(t)
    BY <1>5, <1>18, <2>1
  <2>4. UserFSTypeOK
    BY DEF FSInv
  <2>5. mm \in [Blocks -> [Offsets -> Data]] /\ Elsewhere(mm, t) /\ Overwrites(mm, t, pos, buf)
    BY <1>1, <1>16, <2>2, <2>3, <2>4, StoredBytes
  <2>. QED BY <2>2, <2>5
<1>22. ZeroFrom(mem', t, size)
  <2>1. FreeClean /\ ZeroFrom(mem, s, old)
    BY <1>1, <1>17 DEF FSInv, FilesSound, RestZero
  <2>2. ZeroFrom(mem, t, old)
    BY <1>1, <1>16, <2>1, NewBlocksZero
  <2>3. pos + Len(buf) <= size /\ Len(buf) \in Nat
    BY <1>4, <1>17
  <2>4. PICK mm : mm = mem'
    OBVIOUS
  <2>5. Overwrites(mm, t, pos, buf)
    BY <1>21, <2>4
  <2>6. ZeroFrom(mm, t, size)
    BY <1>1, <1>17, <2>2, <2>3, <2>5, OverwrittenZero
  <2>. QED BY <2>4, <2>6
<1>23. Rewrites(f, r)
  <2>1. Range(r.blocks) = Range(s) \cup Range(new)
    BY <1>16, <1>20
  <2>2. heap' = (heap \ Range(s)) \cup Range(r.blocks)
    BY <1>8, <1>15, <2>1
  <2>3. \A b \in Range(r.blocks) : b \in Range(s) \/ b \notin heap
    BY <1>16, <2>1
  <2>4. /\ \A b \in Blocks \ (Range(s) \cup Range(r.blocks)) : mem'[b] = mem[b]
        /\ \A b \in Range(s) \ Range(r.blocks) : mem'[b] = EmptyBlock
    BY <1>20, <1>21, <2>1 DEF Elsewhere
  <2>5. file' = [file EXCEPT ![f] = r] /\ listed' = listed
    BY <1>8, <1>13, <1>19
  <2>6. /\ r.count = Len(r.blocks) /\ r.count = BlocksFor(r.size) /\ Distinct(r.blocks)
        /\ ZeroFrom(mem', r.blocks, r.size) /\ r \in FileRecord
    BY <1>16, <1>18, <1>20, <1>22
  <2>. QED BY <1>20, <1>21, <2>2, <2>3, <2>4, <2>5, <2>6 DEF Rewrites
<1>24. Begins(s, r.blocks)
  BY <1>16, <1>20 DEF Extends
<1>25. r.size = Most(file[f].size, end) /\ Overwrites(mem', r.blocks, pos, buf)
  BY <1>17, <1>20, <1>21
<1>26. desc' = [desc EXCEPT ![fd] =
          [desc[fd] EXCEPT !.pos = end, !.cur = r.blocks[q + 1], !.idx = q]]
  BY <1>14, <1>20
<1>27. Done(Len(buf))
  BY <1>8
<1>28. Wrote(fd, buf, r, q)
  <2>. HIDE DEF Rewrites
  <2>. QED BY <1>5, <1>23, <1>24, <1>25, <1>26, <1>27 DEF Wrote
<1>. QED BY <1>28

-----------------------------------------------------------------------------
(* The descriptor d is right for the file g.                               *)
Fits(d, g) ==
    /\ d.pos <= g.size
    /\ d.cur # NULL => CacheFits(d, g)

LEMMA FitsAll ==
    (\A i \in OpenFds : Fits(desc[i], file[desc[i].file])) <=> PositionsInside /\ CacheExact
BY DEF Fits, PositionsInside, CacheExact

LEMMA FitsAllPrime ==
    (\A i \in OpenFds' : Fits(desc'[i], file'[desc'[i].file])) <=> PositionsInside' /\ CacheExact'
BY DEF Fits, PositionsInside, CacheExact

(* Descriptors change what they say of their file, not the file.           *)
Redescribes ==
    /\ desc' \in Seq(Descriptor \cup {NULL}) /\ Len(desc') = Len(desc)
    /\ \A i \in 1..Len(desc) : desc[i] = NULL => desc'[i] = NULL
    /\ \A i \in OpenFds : desc'[i] # NULL /\ desc'[i].file = desc[i].file

LEMMA RedescribedFds ==
    ASSUME UserFSTypeOK, Redescribes
    PROVE  OpenFds' = OpenFds /\ \A i \in OpenFds : desc'[i].file = desc[i].file
<1>1. 1..Len(desc') = 1..Len(desc)
  BY DEF Redescribes
<1>2. \A i \in 1..Len(desc) : desc'[i] # NULL <=> desc[i] # NULL
  BY DEF Redescribes, OpenFds
<1>3. OpenFds' = {i \in 1..Len(desc') : desc'[i] # NULL}
  BY DEF OpenFds
<1>4. OpenFds' = OpenFds
  BY <1>1, <1>2, <1>3 DEF OpenFds
<1>. QED BY <1>4 DEF Redescribes

LEMMA DescriptorsAfter ==
    ASSUME FSInv, Redescribes, listed' = listed, Allocated' = Allocated,
           \A g \in Allocated : file'[g].refs = file[g].refs /\ file'[g].deleted = file[g].deleted,
           \A i \in OpenFds : Fits(desc'[i], file'[desc[i].file])
    PROVE  /\ DescriptorsSound'
           /\ desc' \in Seq(Descriptor \cup {NULL}) /\ Len(desc') <= MaxFds
           /\ \A i \in OpenFds' : desc'[i].file \in Allocated'
<1>0. UserFSTypeOK /\ FilesReachable
  BY DEF FSInv, DescriptorsSound
<1>1. OpenFds' = OpenFds /\ \A i \in OpenFds : desc'[i].file = desc[i].file
  BY <1>0, RedescribedFds
<1>2. PositionsInside' /\ CacheExact'
  BY <1>1, FitsAllPrime
<1>3. \A g : {i \in OpenFds' : desc'[i].file = g} = {i \in OpenFds : desc[i].file = g}
  BY <1>1
<1>4. FilesReachable'
  <2>. SUFFICES ASSUME NEW g \in Allocated
                PROVE  /\ file'[g].refs = Cardinality({i \in OpenFds' : desc'[i].file = g})
                       /\ file'[g].deleted <=> g \notin listed'
                       /\ file'[g].refs = 0 => g \in listed'
    BY DEF FilesReachable
  <2>1. /\ file[g].refs = Cardinality({i \in OpenFds : desc[i].file = g})
        /\ file[g].deleted <=> g \notin listed
        /\ file[g].refs = 0 => g \in listed
    BY <1>0 DEF FilesReachable
  <2>. QED BY <1>3, <2>1
<1>5. \A i \in OpenFds' : desc'[i].file \in Allocated'
  BY <1>0, <1>1, DescFacts
<1>6. desc' \in Seq(Descriptor \cup {NULL}) /\ Len(desc') <= MaxFds
  BY <1>0 DEF Redescribes, UserFSTypeOK
<1>. QED BY <1>2, <1>4, <1>5, <1>6 DEF DescriptorsSound

(* The call's answer has the right type.                                   *)
LEMMA AnswerType ==
    ASSUME NEW e \in {"NO_ERR", "NO_FILE", "NO_PERMISSION", "NO_MEM"}, NEW r \in Int,
           NEW d \in Seq(Data), Answer(e, r, d)
    PROVE  /\ errno' \in {"NO_ERR", "NO_FILE", "NO_PERMISSION", "NO_MEM"}
           /\ result' \in [ret : Int, data : Seq(Data)]
BY DEF Answer

LEMMA DoneType ==
    ASSUME NEW r \in Int, Done(r)
    PROVE  /\ errno' \in {"NO_ERR", "NO_FILE", "NO_PERMISSION", "NO_MEM"}
           /\ result' \in [ret : Int, data : Seq(Data)]
<1>1. <<>> \in Seq(Data) /\ "NO_ERR" \in {"NO_ERR", "NO_FILE", "NO_PERMISSION", "NO_MEM"}
  OBVIOUS
<1>. QED BY <1>1, AnswerType DEF Done

(* A call that is refused changes nothing but the answer.                  *)
LEMMA SameState ==
    ASSUME FSInv, UNCHANGED <<listed, file, heap, mem, desc>>,
           errno' \in {"NO_ERR", "NO_FILE", "NO_PERMISSION", "NO_MEM"},
           result' \in [ret : Int, data : Seq(Data)]
    PROVE  FSInv'
<1>1. OpenFds' = OpenFds /\ Allocated' = Allocated
  BY DEF OpenFds, Allocated
<1>2. UserFSTypeOK'
  BY <1>1 DEF FSInv, UserFSTypeOK
<1>3. FilesSound'
  BY <1>1 DEF FSInv, FilesSound, BlocksOwned, BlocksOnce, SizesFit, RestZero, FreeClean, NamesOnce
<1>4. DescriptorsSound'
  BY <1>1 DEF FSInv, DescriptorsSound, FilesReachable, PositionsInside, CacheExact
<1>. QED BY <1>2, <1>3, <1>4 DEF FSInv

LEMMA Refused ==
    ASSUME FSInv, NEW e \in {"NO_ERR", "NO_FILE", "NO_PERMISSION", "NO_MEM"}, Refuse(e)
    PROVE  FSInv'
<1>1. -1 \in Int /\ <<>> \in Seq(Data)
  OBVIOUS
<1>2. /\ errno' \in {"NO_ERR", "NO_FILE", "NO_PERMISSION", "NO_MEM"}
      /\ result' \in [ret : Int, data : Seq(Data)]
  BY <1>1, AnswerType DEF Refuse
<1>. QED BY <1>2, SameState DEF Refuse

-----------------------------------------------------------------------------
(* What is cached is in the file.                                          *)
LEMMA CachedPlace ==
    ASSUME NEW d, NEW g, Fits(d, g), d.pos \in Nat, g.size \in Nat, d.cur \notin {NULL, Dangling}
    PROVE  d.idx \in Nat /\ d.idx < BlocksFor(g.size) /\ g.blocks[d.idx + 1] = d.cur
<1>1. /\ g.blocks[d.idx + 1] = d.cur /\ d.pos <= g.size
      /\ Behind(d) \/ (Ahead(d) /\ d.pos < g.size)
  BY DEF Fits, CacheFits
<1>2. CASE Behind(d)
  <2>1. d.pos > 0 /\ d.idx = (d.pos - 1) \div BlockSize
    BY <1>2 DEF Behind
  <2>2. PICK p \in Nat, n \in Nat : p = d.pos - 1 /\ n = g.size /\ p < n
    <3>1. d.pos - 1 \in Nat /\ d.pos - 1 < g.size
      BY <1>1, <2>1
    <3>. QED BY <3>1
  <2>3. p \div BlockSize \in Nat /\ p \div BlockSize < BlocksFor(n)
    BY <2>2, PlaceOf
  <2>. QED BY <1>1, <2>1, <2>2, <2>3
<1>3. CASE Ahead(d) /\ d.pos < g.size
  <2>1. d.idx \in Nat /\ d.pos \div BlockSize = d.idx
    BY <1>3, AheadPlace
  <2>2. PICK p \in Nat, n \in Nat : p = d.pos /\ n = g.size /\ p < n
    BY <1>3
  <2>3. p \div BlockSize < BlocksFor(n)
    BY <2>2, PlaceOf
  <2>. QED BY <1>1, <2>1, <2>2, <2>3
<1>. QED BY <1>1, <1>2, <1>3

LEMMA OpenDescriptor ==
    ASSUME FSInv, NEW i \in OpenFds, NEW d, d = desc[i], NEW g, g = file[d.file]
    PROVE  /\ d \in Descriptor /\ d.file \in Allocated /\ d.pos \in Nat
           /\ g \in FileRecord /\ g.size \in Nat /\ Len(g.blocks) = BlocksFor(g.size)
           /\ Fits(d, g)
<1>0. UserFSTypeOK /\ SizesFit /\ PositionsInside /\ CacheExact
  BY DEF FSInv, FilesSound, DescriptorsSound
<1>1. d \in Descriptor /\ d.file \in Allocated /\ d.pos \in Nat
  BY <1>0, DescFacts
<1>2. g \in FileRecord /\ g.size \in Nat
  BY <1>0, <1>1, FileFacts
<1>3. Len(g.blocks) = BlocksFor(g.size)
  BY <1>0, <1>1 DEF SizesFit
<1>4. Fits(d, g)
  BY <1>0, FitsAll
<1>. QED BY <1>1, <1>2, <1>3, <1>4

(* A descriptor is right for its file when the file gets longer.           *)
LEMMA FitsLonger ==
    ASSUME NEW d, NEW g, NEW r, Fits(d, g), d.pos \in Nat, g.size \in Nat, r.size \in Nat,
           Len(g.blocks) = BlocksFor(g.size), Begins(g.blocks, r.blocks), g.size <= r.size
    PROVE  Fits(d, r)
<1>1. d.pos <= r.size
  BY DEF Fits
<1>2. ASSUME d.cur \notin {NULL, Dangling} PROVE r.blocks[d.idx + 1] = g.blocks[d.idx + 1]
  <2>1. d.idx \in Nat /\ d.idx < Len(g.blocks) /\ Len(g.blocks) \in Nat
    <3>1. d.idx \in Nat /\ d.idx < BlocksFor(g.size)
      BY <1>2, CachedPlace
    <3>. QED BY <3>1, BlocksForSize
  <2>2. PICK j \in Nat, k \in Nat : j = d.idx /\ k = Len(g.blocks) /\ j + 1 \in 1..k
    BY <2>1
  <2>. QED BY <2>2 DEF Begins
<1>3. d.cur # NULL => CacheFits(d, g)
  BY DEF Fits
<1>4. d.pos < g.size => d.pos < r.size
  OBVIOUS
<1>5. d.cur # NULL => CacheFits(d, r)
  BY <1>2, <1>3, <1>4 DEF CacheFits
<1>. QED BY <1>1, <1>5 DEF Fits

(* The descriptor e after a call that moves it to p and caches c.          *)
Moved(d, e, p, c, x) ==
    /\ d \in Descriptor /\ d # NULL
    /\ d.file = e.file /\ d.pos = p /\ d.cur = c /\ d.idx = x /\ d.mode = e.mode

LEMMA MovedDescriptor ==
    ASSUME NEW e \in Descriptor, NEW p \in 0..MaxSize, NEW c \in Blocks \cup {NULL, Dangling}, NEW x \in Int,
           NEW d, d = [e EXCEPT !.pos = p, !.cur = c, !.idx = x]
    PROVE  Moved(d, e, p, c, x)
<1>1. /\ d \in Descriptor
      /\ d.file = e.file /\ d.pos = p /\ d.cur = c /\ d.idx = x /\ d.mode = e.mode
  BY DEF Descriptor
<1>. QED BY <1>1, UserFSAssumption DEF Moved

(* The records of the other files are the same.                            *)
LEMMA RewriteType ==
    ASSUME FSInv, NEW f, NEW r, f \in Allocated, Rewrites(f, r), DescriptorsSound',
           desc' \in Seq(Descriptor \cup {NULL}), Len(desc') <= MaxFds,
           \A i \in OpenFds' : desc'[i].file \in Allocated',
           errno' \in {"NO_ERR", "NO_FILE", "NO_PERMISSION", "NO_MEM"},
           result' \in [ret : Int, data : Seq(Data)]
    PROVE  FSInv'
<1>1. /\ FilesSound' /\ file' \in [Files -> FileRecord \cup {NULL}] /\ heap' \subseteq Blocks
      /\ Allocated' = Allocated
  BY RewrittenFile
<1>2. listed' = listed /\ mem' \in [Blocks -> [Offsets -> Data]]
  BY DEF Rewrites
<1>3. UserFSTypeOK'
  BY <1>1, <1>2 DEF FSInv, UserFSTypeOK
<1>. QED BY <1>1, <1>3 DEF FSInv

LEMMA RewriteInv ==
    ASSUME FSInv, NEW f, NEW r, f \in Allocated, Rewrites(f, r), Redescribes,
           \A i \in OpenFds : Fits(desc'[i], file'[desc[i].file]),
           errno' \in {"NO_ERR", "NO_FILE", "NO_PERMISSION", "NO_MEM"},
           result' \in [ret : Int, data : Seq(Data)]
    PROVE  FSInv'
<1>1. /\ Allocated' = Allocated /\ file'[f] = r
      /\ \A g \in Files : g # f => file'[g] = file[g]
  BY RewrittenFile
<1>2. listed' = listed /\ r.refs = file[f].refs /\ r.deleted = file[f].deleted
  BY DEF Rewrites
<1>3. \A g \in Allocated : file'[g].refs = file[g].refs /\ file'[g].deleted = file[g].deleted
  BY <1>1, <1>2 DEF Allocated
<1>4. /\ DescriptorsSound'
      /\ desc' \in Seq(Descriptor \cup {NULL}) /\ Len(desc') <= MaxFds
      /\ \A i \in OpenFds' : desc'[i].file \in Allocated'
  BY <1>1, <1>2, <1>3, DescriptorsAfter
<1>. QED BY <1>4, RewriteType

LEMMA WriteInv ==
    ASSUME FSInv, NEW fd, fd \in OpenFds, NEW buf, buf \in Seq(Data) \ {<<>>},
           WriteBytes(fd, buf), desc[fd].pos + Len(buf) <= MaxSize, Followable(desc[fd])
    PROVE  FSInv'
<1>1. PICK f, pos, end, s :
        /\ f = desc[fd].file /\ pos = desc[fd].pos /\ end = pos + Len(buf) /\ s = file[f].blocks
  OBVIOUS
<1>0. PICK r \in FileRecord, q \in Nat : Wrote(fd, buf, r, q)
  BY WriteEffect
<1>2. /\ Rewrites(f, r) /\ Begins(s, r.blocks)
      /\ r.size = Most(file[f].size, end)
      /\ q = (end - 1) \div BlockSize
      /\ desc' = [desc EXCEPT ![fd] =
           [desc[fd] EXCEPT !.pos = end, !.cur = r.blocks[q + 1], !.idx = q]]
      /\ Done(Len(buf))
  BY <1>0, <1>1 DEF Wrote
<1>3. /\ UserFSTypeOK /\ desc[fd] \in Descriptor /\ f \in Allocated /\ pos \in Nat
      /\ file[f].size \in Nat /\ Len(s) = BlocksFor(file[f].size)
  BY <1>1, OpenDescriptor DEF FSInv
<1>4. Len(buf) \in Nat \ {0}
  BY EmptySeq
<1>5. end \in Nat \ {0} /\ end <= MaxSize /\ end \in 0..MaxSize
  <2>1. \A x \in Nat, n \in Nat \ {0} : x + n \in Nat \ {0} /\ (x + n <= MaxSize => x + n \in 0..MaxSize)
    BY UserFSAssumption
  <2>. QED BY <1>1, <1>3, <1>4, <2>1
<1>6. file[f].size <= r.size /\ end <= r.size /\ r.size \in Nat
  <2>1. \A x, y \in Nat : Most(x, y) \in Nat /\ x <= Most(x, y) /\ y <= Most(x, y)
    BY DEF Most
  <2>. QED BY <1>2, <1>3, <1>5, <2>1
<1>7. /\ file'[f] = r /\ \A g \in Files : g # f => file'[g] = file[g]
      /\ r.blocks \in Seq(Blocks) /\ Len(r.blocks) = BlocksFor(r.size) /\ Len(r.blocks) \in Nat
  BY <1>2, <1>3, RewrittenFile, BlocksForSize
<1>8. q < Len(r.blocks) /\ r.blocks[q + 1] \in Blocks
  <2>1. PICK p \in Nat, n \in Nat : p = end - 1 /\ n = r.size /\ p < n
    <3>1. end - 1 \in Nat /\ end - 1 < r.size
      BY <1>5, <1>6
    <3>. QED BY <1>6, <3>1
  <2>2. p \div BlockSize < BlocksFor(n)
    BY <2>1, PlaceOf
  <2>3. q < Len(r.blocks)
    BY <1>2, <1>7, <2>1, <2>2
  <2>4. q + 1 \in 1..Len(r.blocks)
    BY <1>7, <2>3
  <2>. QED BY <1>7, <2>3, <2>4
<1>9. PICK d \in Descriptor :
        /\ d = [desc[fd] EXCEPT !.pos = end, !.cur = r.blocks[q + 1], !.idx = q]
        /\ d.file = f /\ d.pos = end /\ d.cur = r.blocks[q + 1] /\ d.idx = q /\ d # NULL
  <2>1. PICK d : d = [desc[fd] EXCEPT !.pos = end, !.cur = r.blocks[q + 1], !.idx = q]
    OBVIOUS
  <2>2. /\ d \in Descriptor
        /\ d.file = f /\ d.pos = end /\ d.cur = r.blocks[q + 1] /\ d.idx = q
    <3>1. /\ desc[fd] \in Descriptor /\ end \in 0..MaxSize /\ q \in Int
          /\ r.blocks[q + 1] \in Blocks \cup {NULL, Dangling} /\ desc[fd].file = f
      BY <1>1, <1>3, <1>5, <1>8
    <3>2. PICK e, c : e = desc[fd] /\ c = r.blocks[q + 1]
      OBVIOUS
    <3>3. /\ e \in Descriptor /\ end \in 0..MaxSize /\ c \in Blocks \cup {NULL, Dangling} /\ q \in Int
          /\ d = [e EXCEPT !.pos = end, !.cur = c, !.idx = q]
      BY <2>1, <3>1, <3>2
    <3>4. Moved(d, e, end, c, q)
      BY <3>3, MovedDescriptor
    <3>. QED BY <3>1, <3>2, <3>4 DEF Moved
  <2>. QED BY <2>1, <2>2, UserFSAssumption
<1>10. /\ fd \in 1..Len(desc) /\ desc \in Seq(Descriptor \cup {NULL})
       /\ desc' = [desc EXCEPT ![fd] = d]
  BY <1>2, <1>3, <1>9 DEF UserFSTypeOK, OpenFds
<1>11. /\ desc' \in Seq(Descriptor \cup {NULL}) /\ Len(desc') = Len(desc) /\ desc'[fd] = d
       /\ \A i \in 1..Len(desc) : i # fd => desc'[i] = desc[i]
  BY <1>10
<1>12. Redescribes
  BY <1>1, <1>9, <1>11 DEF Redescribes, OpenFds
<1>13. ASSUME NEW i \in OpenFds PROVE Fits(desc'[i], file'[desc[i].file])
  <2>0. i \in 1..Len(desc)
    BY DEF OpenFds
  <2>1. CASE i = fd
    <3>1. Behind(d) /\ d.cur # Dangling
      BY <1>2, <1>5, <1>8, <1>9, UserFSAssumption DEF Behind
    <3>2. Fits(d, r)
      BY <1>6, <1>9, <3>1 DEF Fits, CacheFits
    <3>. QED BY <1>1, <1>7, <1>11, <2>1, <3>2
  <2>2. CASE i # fd
    <3>1. PICK e, g : e = desc[i] /\ g = file[e.file]
      OBVIOUS
    <3>2. /\ e.file \in Allocated /\ e.pos \in Nat /\ g.size \in Nat
          /\ Len(g.blocks) = BlocksFor(g.size) /\ Fits(e, g) /\ desc'[i] = e
      BY <1>11, <2>0, <2>2, <3>1, OpenDescriptor
    <3>3. CASE e.file = f
      <4>1. Fits(e, r)
        BY <1>1, <1>2, <1>6, <3>1, <3>2, <3>3, FitsLonger
      <4>. QED BY <1>7, <3>1, <3>2, <3>3, <4>1
    <3>4. CASE e.file # f
      BY <1>7, <3>1, <3>2, <3>4 DEF Allocated
    <3>. QED BY <3>3, <3>4
  <2>. QED BY <2>1, <2>2
<1>14. /\ errno' \in {"NO_ERR", "NO_FILE", "NO_PERMISSION", "NO_MEM"}
       /\ result' \in [ret : Int, data : Seq(Data)]
  BY <1>2, <1>4, DoneType
<1>. QED BY <1>2, <1>3, <1>12, <1>13, <1>14, RewriteInv

-----------------------------------------------------------------------------
(* How far a read of n bytes at position pos of a file of size bytes goes. *)
LEMMA ReadLength ==
    ASSUME NEW pos \in Nat, NEW size \in Nat, pos < size, NEW n \in Nat,
           NEW wanted, wanted = Least(n, size - pos)
    PROVE  /\ wanted \in Nat /\ pos + wanted \in Nat /\ pos + wanted <= size
           /\ (pos + wanted) - pos = wanted /\ (wanted = 0 <=> n = 0)
<1>1. wanted \in Nat /\ wanted <= size - pos /\ (wanted = 0 <=> n = 0)
  BY DEF Least
<1>. QED BY <1>1

(* The block a read ends in: that of the last byte it delivers, or that of *)
(* the position when it delivers none.                                     *)
ReadEnd(pos, wanted) ==
    IF wanted = 0 THEN pos \div BlockSize ELSE (pos + wanted - 1) \div BlockSize

(* A read goes from the block of its first byte to that of its last one.   *)
ReadSpan(pos, wanted, at, q, l) ==
    /\ at \in Nat /\ q \in Nat /\ at <= q /\ q < l /\ l \in Nat
    /\ Least((at + 1) + (q - at + 1) - 1, l) = q + 1
    /\ Least(pos + wanted, (at + (q + 1) - (at + 1) + 1) * BlockSize) = pos + wanted

LEMMA ReadBlocks ==
    ASSUME NEW pos \in Nat, NEW size \in Nat, pos < size,
           NEW wanted \in Nat, pos + wanted <= size,
           NEW at, at = pos \div BlockSize, NEW q, q = ReadEnd(pos, wanted),
           NEW l, l = BlocksFor(size)
    PROVE  ReadSpan(pos, wanted, at, q, l)
<1>0. BlockSize \in Nat \ {0}
  BY UserFSAssumption
<1>1. PICK p \in Nat :
        /\ p = (IF wanted = 0 THEN pos ELSE pos + wanted - 1) /\ q = p \div BlockSize
        /\ pos <= p /\ p < size /\ pos + wanted <= p + 1
  <2>1. CASE wanted = 0
    BY <2>1 DEF ReadEnd
  <2>2. CASE wanted # 0
    BY <2>2 DEF ReadEnd
  <2>. QED BY <2>1, <2>2
<1>2. at \in Nat /\ q \in Nat /\ at <= q /\ q < l /\ l \in Nat
  BY <1>1, DivMod, DivMonotone, PlaceOf, BlocksForSize
<1>3. PICK a \in Nat, b \in Nat, c \in Nat : a = at /\ b = q /\ c = l
  BY <1>2
<1>4. Least((at + 1) + (q - at + 1) - 1, l) = q + 1
  <2>1. (a + 1) + (b - a + 1) - 1 = b + 1 /\ (b < c => Least(b + 1, c) = b + 1)
    BY DEF Least
  <2>. QED BY <1>2, <1>3, <2>1
<1>5. (at + (q + 1) - (at + 1) + 1) * BlockSize = (q + 1) * BlockSize
  <2>1. a + (b + 1) - (a + 1) + 1 = b + 1
    OBVIOUS
  <2>. QED BY <1>3, <2>1
<1>6. p < (q + 1) * BlockSize /\ (q + 1) * BlockSize \in Nat
  <2>1. PICK m \in Int, r \in Int : m = q * BlockSize /\ r = p % BlockSize /\ r < BlockSize /\ p = m + r
    <3>1. p % BlockSize \in 0..BlockSize - 1 /\ q = p \div BlockSize
          /\ p = (p \div BlockSize) * BlockSize + (p % BlockSize)
      BY <1>1, DivMod DEF Offsets
    <3>2. q * BlockSize \in Int /\ p % BlockSize \in Int /\ p % BlockSize < BlockSize
      BY <1>0, <1>2, <3>1
    <3>. QED BY <3>1, <3>2
  <2>2. (q + 1) * BlockSize = m + BlockSize
    BY <1>0, <1>2, <2>1
  <2>. QED BY <1>0, <2>1, <2>2
<1>7. PICK e \in Nat : e = (q + 1) * BlockSize /\ p < e
  BY <1>6
<1>8. Least(pos + wanted, e) = pos + wanted
  BY <1>1, <1>7 DEF Least
<1>. QED BY <1>2, <1>4, <1>5, <1>7, <1>8 DEF ReadSpan

(* A read delivers the bytes of the file and caches the block it ends in.  *)
Delivered(fd, n, end, q) ==
    LET pos == desc[fd].pos
        g == file[desc[fd].file]
        wanted == Least(n, g.size - pos)
    IN  /\ end = pos + wanted /\ end \in Nat /\ end <= g.size /\ end - pos \in Nat
        /\ q = ReadEnd(pos, wanted) /\ q < Len(g.blocks)
        /\ desc' = [desc EXCEPT ![fd] =
             [desc[fd] EXCEPT !.pos = end, !.cur = g.blocks[q + 1], !.idx = q]]
        /\ Answer("NO_ERR", end - pos, [i \in 1..end - pos |-> Spell(mem, g.blocks, pos + i - 1)])

LEMMA ReadEffect ==
    ASSUME FSInv, NEW fd, fd \in OpenFds, NEW n, n \in Nat, ReadBytes(fd, n),
           desc[fd].pos < file[desc[fd].file].size, Followable(desc[fd])
    PROVE  \E end \in Nat, q \in Nat : Delivered(fd, n, end, q)
<1>. DEFINE d == desc[fd]
            s == file[d.file].blocks
            pos == d.pos
            size == file[d.file].size
            at == pos \div BlockSize
            wanted == Least(n, size - pos)
            q == ReadEnd(pos, wanted)
            span == IF wanted = 0 THEN 1 ELSE (pos + wanted - 1) \div BlockSize - at + 1
            k(b) == Position(s, b)
            last(b) == Least(k(b) + span - 1, Len(s))
            end(b) == Least(pos + wanted, (at + last(b) - k(b) + 1) * BlockSize)
            byte(b, i) == mem[s[k(b) + (pos + i - 1) \div BlockSize - at]][(pos + i - 1) % BlockSize]
<1>1. PICK b \in Found(d, at) :
        /\ desc' = [desc EXCEPT ![fd] =
             [d EXCEPT !.pos = end(b), !.cur = s[last(b)], !.idx = at + last(b) - k(b)]]
        /\ Answer("NO_ERR", end(b) - pos, [i \in 1..end(b) - pos |-> byte(b, i)])
  BY DEF ReadBytes
<1>2. pos \in Nat /\ size \in Nat /\ Len(s) = BlocksFor(size) /\ pos < size
  <2>1. PICK e, g : e = d /\ g = file[e.file]
    OBVIOUS
  <2>. QED BY <2>1, OpenDescriptor
<1>3. PICK x, z, w, a, p, l :
        /\ x \in Nat /\ z \in Nat
        /\ x = pos /\ z = size /\ w = wanted /\ a = at /\ p = q /\ l = Len(s) /\ x < z
        /\ w = Least(n, z - x) /\ a = x \div BlockSize /\ p = ReadEnd(x, w)
        /\ l = BlocksFor(z)
  BY <1>2
<1>4. w \in Nat /\ x + w \in Nat /\ x + w <= z /\ (x + w) - x = w
  <2>1. x \in Nat /\ z \in Nat /\ x < z /\ w = Least(n, z - x)
    BY <1>3
  <2>. HIDE DEF wanted, q
  <2>. QED BY <2>1, ReadLength
<1>5. ReadSpan(x, w, a, p, l)
  BY <1>3, <1>4, ReadBlocks
<1>6. Found(d, at) = {s[at + 1]} /\ Position(s, s[at + 1]) = at + 1
  <2>1. PICK e, g, t : e = d /\ t = s
    OBVIOUS
  <2>2. a < Len(t) /\ a = e.pos \div BlockSize
    <3>1. a < l
      BY <1>5 DEF ReadSpan
    <3>2. l = Len(t) /\ a = e.pos \div BlockSize
      BY <1>3, <2>1
    <3>. QED BY <3>1, <3>2
  <2>3. Found(e, a) = {t[a + 1]} /\ Position(t, t[a + 1]) = a + 1
    BY <2>1, <2>2, FoundBlock
  <2>. QED BY <1>3, <2>1, <2>3
<1>7. k(b) = a + 1
  BY <1>3, <1>6
<1>8. last(b) = p + 1
  <2>1. span = p - a + 1
    <3>1. CASE w = 0
      <4>1. p = a /\ a \in Nat
        BY <1>3, <1>5, <3>1 DEF ReadEnd, ReadSpan
      <4>. QED BY <1>3, <3>1, <4>1
    <3>2. CASE w # 0
      BY <1>3, <3>2 DEF ReadEnd
    <3>. QED BY <3>1, <3>2
  <2>. QED BY <1>3, <1>5, <1>7, <2>1 DEF ReadSpan
<1>9. end(b) = x + w /\ at + last(b) - k(b) = p
  <2>1. end(b) = Least(x + w, (a + (p + 1) - (a + 1) + 1) * BlockSize)
    BY <1>3, <1>7, <1>8
  <2>2. at + last(b) - k(b) = a + (p + 1) - (a + 1)
    BY <1>3, <1>7, <1>8
  <2>3. a + (p + 1) - (a + 1) = p
    BY <1>5 DEF ReadSpan
  <2>. QED BY <1>5, <2>1, <2>2, <2>3 DEF ReadSpan
<1>10. ASSUME NEW i \in 1..w PROVE byte(b, i) = Spell(mem, s, pos + i - 1)
  <2>0. x \in Nat /\ w \in Nat
    BY <1>3, <1>4
  <2>1. PICK o \in Nat : o = x + i - 1
    BY <2>0
  <2>2. PICK j \in Nat : j = o \div BlockSize
    BY DivMod
  <2>3. (a + 1) + j - a = j + 1
    BY <1>5 DEF ReadSpan
  <2>4. k(b) + (pos + i - 1) \div BlockSize - at = (pos + i - 1) \div BlockSize + 1
    BY <1>3, <1>7, <2>1, <2>2, <2>3
  <2>. QED BY <2>4 DEF Spell
<1>11. end(b) - pos = w
  BY <1>3, <1>4, <1>9
<1>12. [i \in 1..end(b) - pos |-> byte(b, i)] = [i \in 1..w |-> Spell(mem, s, pos + i - 1)]
  <2>. HIDE DEF byte, end
  <2>. QED BY <1>10, <1>11
<1>13. PICK e \in Nat : e = x + w /\ e = pos + wanted /\ e - pos = w
  BY <1>3, <1>4
<1>14. Answer("NO_ERR", e - pos, [i \in 1..e - pos |-> Spell(mem, s, pos + i - 1)])
  BY <1>1, <1>11, <1>12, <1>13
<1>15. desc' = [desc EXCEPT ![fd] = [d EXCEPT !.pos = e, !.cur = s[p + 1], !.idx = p]]
  BY <1>1, <1>8, <1>9, <1>13
<1>16. Delivered(fd, n, e, p)
  <2>1. /\ e = pos + wanted /\ e \in Nat /\ e <= size /\ e - pos \in Nat
    BY <1>3, <1>4, <1>13
  <2>2. p = ReadEnd(pos, wanted) /\ p < Len(s)
    BY <1>3, <1>5 DEF ReadSpan
  <2>. QED BY <1>14, <1>15, <2>1, <2>2 DEF Delivered
<1>17. p \in Nat
  BY <1>5 DEF ReadSpan
<1>. QED BY <1>16, <1>17

(* The block a read ends in is the one to have cached at its end.          *)
LEMMA ReadCache ==
    ASSUME NEW d, NEW g, NEW pos \in Nat, NEW wanted \in Nat, pos < g.size, g.size \in Nat,
           d.pos = pos + wanted, d.pos <= g.size, d.idx = ReadEnd(pos, wanted),
           wanted = 0 => 0 \in ReadSizes, d.cur # Dangling, g.blocks[d.idx + 1] = d.cur
    PROVE  Fits(d, g)
<1>1. CASE wanted # 0
  <2>1. Behind(d)
    BY <1>1 DEF Behind, ReadEnd
  <2>. QED BY <2>1 DEF Fits, CacheFits
<1>2. CASE wanted = 0
  <2>1. d.pos = pos /\ d.idx = pos \div BlockSize
    BY <1>2 DEF ReadEnd
  <2>2. CASE pos % BlockSize = 0
    <3>1. PICK q \in Nat : q = pos \div BlockSize
      BY DivMod
    <3>2. pos = q * BlockSize
      <4>1. pos = q * BlockSize + 0 /\ q * BlockSize \in Nat
        BY <2>2, <3>1, DivMod, UserFSAssumption
      <4>. QED BY <4>1
    <3>3. Ahead(d) /\ d.pos < g.size
      BY <1>2, <2>1, <3>1, <3>2 DEF Ahead
    <3>. QED BY <3>3 DEF Fits, CacheFits
  <2>3. CASE pos % BlockSize # 0
    <3>1. pos # 0
      <4>1. BlocksFor(0) = 0
        BY BlocksForSize
      <4>2. 0 % BlockSize # 0 => BlocksFor(0) = 0 \div BlockSize + 1 /\ 0 \div BlockSize \in Nat
        BY BlocksForSize, DivMod
      <4>. QED BY <2>3, <4>1, <4>2
    <3>2. pos \div BlockSize = (pos - 1) \div BlockSize
      BY <2>3, <3>1, DivStep
    <3>3. Behind(d)
      BY <2>1, <3>1, <3>2 DEF Behind
    <3>. QED BY <3>3 DEF Fits, CacheFits
  <2>. QED BY <2>2, <2>3
<1>. QED BY <1>1, <1>2

LEMMA ReadInv ==
    ASSUME FSInv, NEW fd, fd \in OpenFds, NEW n, n \in ReadSizes, ReadBytes(fd, n),
           desc[fd].pos < file[desc[fd].file].size, Followable(desc[fd]),
           UNCHANGED <<listed, file, heap, mem>>
    PROVE  FSInv'
<1>1. PICK d, g, s, pos : d = desc[fd] /\ g = file[d.file] /\ s = g.blocks /\ pos = d.pos
  OBVIOUS
<1>2. PICK end \in Nat, q \in Nat : Delivered(fd, n, end, q)
  BY ReadEffect, UserFSAssumption
<1>3. /\ UserFSTypeOK /\ d \in Descriptor /\ d.file \in Allocated /\ pos \in Nat
      /\ g \in FileRecord /\ g.size \in Nat /\ Len(s) = BlocksFor(g.size)
  BY <1>1, OpenDescriptor DEF FSInv
<1>0. PICK wanted : wanted = Least(n, g.size - pos)
  OBVIOUS
<1>4. /\ end = pos + wanted /\ end <= g.size /\ end - pos \in Nat
      /\ q = ReadEnd(pos, wanted) /\ q < Len(s)
      /\ desc' = [desc EXCEPT ![fd] = [d EXCEPT !.pos = end, !.cur = s[q + 1], !.idx = q]]
      /\ Answer("NO_ERR", end - pos, [i \in 1..end - pos |-> Spell(mem, s, pos + i - 1)])
  BY <1>0, <1>1, <1>2 DEF Delivered
<1>5. /\ s \in Seq(Blocks) /\ Len(s) \in Nat /\ g.size \in 0..MaxSize
      /\ \A i \in 1..Len(s) : s[i] \in Blocks
  BY <1>1, <1>3, FileFacts
<1>6. PICK c, e : c \in Blocks /\ c = s[q + 1] /\ e = [d EXCEPT !.pos = end, !.cur = c, !.idx = q]
  <2>1. q + 1 \in 1..Len(s)
    BY <1>4, <1>5
  <2>. QED BY <1>5, <2>1
<1>7. Moved(e, d, end, c, q)
  <2>1. end \in 0..MaxSize
    BY <1>4, <1>5, UserFSAssumption
  <2>2. d \in Descriptor /\ c \in Blocks \cup {NULL, Dangling} /\ q \in Int
    BY <1>3, <1>6
  <2>3. e = [d EXCEPT !.pos = end, !.cur = c, !.idx = q]
    BY <1>6
  <2>. QED BY <2>1, <2>2, <2>3, MovedDescriptor
<1>8. e \in Descriptor /\ e # NULL /\ e.file = d.file /\ Fits(e, g)
  <2>1. /\ e \in Descriptor /\ e # NULL /\ e.file = d.file
        /\ e.pos = end /\ e.cur = c /\ e.idx = q
    BY <1>7 DEF Moved
  <2>2. g.blocks[q + 1] = c
    BY <1>1, <1>6
  <2>3. c # Dangling
    BY <1>6, UserFSAssumption
  <2>4. pos < g.size /\ wanted \in Nat /\ (wanted = 0 => 0 \in ReadSizes)
    <3>1. pos < g.size /\ n \in Nat
      BY <1>1, UserFSAssumption
    <3>2. PICK x \in Nat, z \in Nat : x = pos /\ z = g.size /\ x < z /\ wanted = Least(n, z - x)
      BY <1>0, <1>3, <3>1
    <3>3. wanted \in Nat /\ (wanted = 0 <=> n = 0)
      BY <3>1, <3>2 DEF Least
    <3>. QED BY <3>1, <3>3
  <2>5. Fits(e, g)
    BY <1>3, <1>4, <2>1, <2>2, <2>3, <2>4, ReadCache
  <2>. QED BY <2>1, <2>5
<1>9. /\ fd \in 1..Len(desc) /\ desc \in Seq(Descriptor \cup {NULL})
      /\ desc' = [desc EXCEPT ![fd] = e]
  BY <1>3, <1>4, <1>6 DEF UserFSTypeOK, OpenFds
<1>10. /\ desc' \in Seq(Descriptor \cup {NULL}) /\ Len(desc') = Len(desc) /\ desc'[fd] = e
       /\ \A i \in 1..Len(desc) : i # fd => desc'[i] = desc[i]
  BY <1>8, <1>9
<1>11. Redescribes
  BY <1>1, <1>8, <1>10 DEF Redescribes, OpenFds
<1>12. ASSUME NEW i \in OpenFds PROVE Fits(desc'[i], file'[desc[i].file])
  <2>0. i \in 1..Len(desc)
    BY DEF OpenFds
  <2>1. CASE i = fd
    BY <1>1, <1>8, <1>10, <2>1
  <2>2. CASE i # fd
    BY <1>10, <2>0, <2>2, OpenDescriptor
  <2>. QED BY <2>1, <2>2
<1>13. Allocated' = Allocated
  BY DEF Allocated
<1>14. /\ DescriptorsSound'
       /\ desc' \in Seq(Descriptor \cup {NULL}) /\ Len(desc') <= MaxFds
       /\ \A i \in OpenFds' : desc'[i].file \in Allocated'
  <2>1. \A f \in Allocated : file'[f].refs = file[f].refs /\ file'[f].deleted = file[f].deleted
    OBVIOUS
  <2>. QED BY <1>11, <1>12, <1>13, <2>1, DescriptorsAfter
<1>15. PICK bytes : bytes = [i \in 1..end - pos |-> Spell(mem, s, pos + i - 1)]
  OBVIOUS
<1>16. bytes \in Seq(Data)
  <2>1. ASSUME NEW i \in 1..end - pos PROVE Spell(mem, s, pos + i - 1) \in Data
    <3>1. PICK p \in Nat : p = pos + i - 1 /\ p < g.size
      BY <1>3, <1>4
    <3>2. PICK j \in Nat, o \in Offsets : j = p \div BlockSize /\ o = p % BlockSize /\ j < Len(s)
      BY <1>3, <3>1, PlaceOf
    <3>3. j + 1 \in 1..Len(s)
      BY <1>5, <3>2
    <3>4. mem[s[j + 1]][o] \in Data
      BY <1>3, <1>5, <3>3 DEF UserFSTypeOK
    <3>. QED BY <3>1, <3>2, <3>4 DEF Spell
  <2>2. PICK m \in Nat : m = end - pos
    BY <1>4
  <2>3. bytes \in [1..m -> Data]
    BY <1>15, <2>1, <2>2
  <2>. QED BY <2>3
<1>17. /\ errno' \in {"NO_ERR", "NO_FILE", "NO_PERMISSION", "NO_MEM"}
       /\ result' \in [ret : Int, data : Seq(Data)]
  <2>1. PICK m \in Int : m = end - pos
    BY <1>4
  <2>2. Answer("NO_ERR", m, bytes)
    BY <1>4, <1>15, <2>1
  <2>. QED BY <1>16, <2>2, AnswerType
<1>18. FilesSound'
  BY <1>13 DEF FSInv, FilesSound, BlocksOwned, BlocksOnce, SizesFit, RestZero, FreeClean, NamesOnce
<1>19. UserFSTypeOK'
  BY <1>3, <1>13, <1>14, <1>17 DEF UserFSTypeOK
<1>. QED BY <1>14, <1>18, <1>19 DEF FSInv

-----------------------------------------------------------------------------
(* Clearing bytes behind the end of the file changes nothing: they are     *)
(* zero already.                                                           *)
LEMMA ClearedIsSame ==
    ASSUME UserFSTypeOK, NEW t \in Seq(Blocks), NEW old \in Nat, ZeroFrom(mem, t, old),
           old % BlockSize # 0, BlocksFor(old) <= Len(t), NEW b, b = t[Len(t)],
           NEW from, from = old % BlockSize, NEW to
    PROVE  b \in Blocks /\ Cleared(b, from, to) = mem[b]
<1>0. BlockSize \in Nat \ {0}
  BY UserFSAssumption
<1>1. PICK i \in Nat, a \in Nat : i + 1 = Len(t) /\ a = old \div BlockSize /\ a <= i
  <2>1. BlocksFor(old) = old \div BlockSize + 1 /\ old \div BlockSize \in Nat
    BY DivMod, BlocksForSize
  <2>2. PICK l \in Nat, a \in Nat : l = Len(t) /\ a = old \div BlockSize /\ a + 1 <= l
    BY <2>1
  <2>3. l - 1 \in Nat /\ (l - 1) + 1 = l /\ a <= l - 1
    BY <2>2
  <2>. QED BY <2>2, <2>3
<1>2. b = t[i + 1] /\ b \in Blocks
  <2>1. i + 1 \in 1..Len(t)
    BY <1>1
  <2>. QED BY <1>1, <2>1
<1>3. mem[b] \in [Offsets -> Data]
  BY <1>2 DEF UserFSTypeOK
<1>4. ASSUME NEW o \in Offsets, o >= from PROVE mem[b][o] = Zero
  <2>1. PICK p \in Nat : p = i * BlockSize + o /\ p \div BlockSize = i /\ p % BlockSize = o
    BY DivUnique
  <2>2. p >= old
    <3>1. from \in Nat /\ o \in Nat
      BY <1>0, DivMod DEF Offsets
    <3>2. CASE a = i
      <4>1. p \div BlockSize = old \div BlockSize /\ ~(p % BlockSize < old % BlockSize)
        BY <1>1, <1>4, <2>1, <3>1, <3>2
      <4>. QED BY <4>1, DivMonotone
    <3>3. CASE a < i
      BY <1>1, <2>1, <3>3, DivMonotone
    <3>. QED BY <1>1, <3>2, <3>3
  <2>3. p \div BlockSize < Len(t)
    BY <1>1, <2>1
  <2>4. Spell(mem, t, p) = Zero
    BY <2>2, <2>3 DEF ZeroFrom
  <2>. QED BY <1>2, <2>1, <2>4 DEF Spell
<1>5. \A o \in Offsets : o \in from..to => o >= from
  BY <1>0 DEF Offsets
<1>6. \A o \in Offsets : Cleared(b, from, to)[o] = mem[b][o]
  BY <1>4, <1>5 DEF Cleared
<1>7. Cleared(b, from, to) = mem[b]
  BY <1>3, <1>6 DEF Cleared
<1>. QED BY <1>2, <1>7

(* Growing only adds blocks.                                               *)
Grew(f, n, r) ==
    /\ Rewrites(f, r) /\ Begins(file[f].blocks, r.blocks) /\ r.size = n
    /\ mem' = mem /\ ZeroFrom(mem, r.blocks, file[f].size)

LEMMA GrowEffect ==
    ASSUME FSInv, NEW f, f \in Allocated, NEW n, n \in Nat, n <= MaxSize, n > file[f].size,
           Grow(f, n), listed' = listed
    PROVE  \E r \in FileRecord : Grew(f, n, r)
<1>0. BlockSize \in Nat \ {0} /\ MaxSize \in Nat
  BY UserFSAssumption
<1>1. PICK s, old : s = file[f].blocks /\ old = file[f].size
  OBVIOUS
<1>2. /\ file[f] \in FileRecord /\ s \in Seq(Blocks) /\ Len(s) \in Nat /\ old \in Nat
      /\ Len(s) = BlocksFor(old) /\ file[f].count = Len(s) /\ UserFSTypeOK
  BY <1>1, FileFacts DEF FSInv, FilesSound, SizesFit
<1>3. Distinct(s) /\ Range(s) \subseteq heap /\ FreeClean /\ ZeroFrom(mem, s, old)
  BY <1>1, OwnBlocks DEF FSInv, FilesSound, RestZero
<1>4. PICK need \in Nat, m \in Nat :
        need = BlocksFor(n) /\ m = Most(0, need - Len(s)) /\ Len(s) <= need /\ Len(s) + m = need
  <2>0. old \in Nat /\ n \in Nat /\ old <= n
    BY <1>1, <1>2
  <2>1. BlocksFor(n) \in Nat /\ Len(s) <= BlocksFor(n)
    <3>1. BlocksFor(n) \in Nat
      BY <2>0, BlocksForSize
    <3>2. BlocksFor(old) <= BlocksFor(n)
      BY <2>0, BlocksForMonotone
    <3>. QED BY <1>2, <3>1, <3>2
  <2>2. PICK need \in Nat, k \in Nat : need = BlocksFor(n) /\ k = Len(s) /\ k <= need
    BY <1>2, <2>1
  <2>3. Most(0, need - k) \in Nat /\ k + Most(0, need - k) = need
    BY <2>2 DEF Most
  <2>. QED BY <2>2, <2>3
<1>50. PICK new \in Fresh(Most(0, BlocksFor(n) - file[f].count)) :
        /\ heap' = heap \cup Range(new)
        /\ mem' = IF file[f].size % BlockSize # 0 /\ file[f].size \div BlockSize < BlocksFor(n)
                  THEN [mem EXCEPT ![(file[f].blocks \o new)[Len(file[f].blocks \o new)]] =
                          Cleared((file[f].blocks \o new)[Len(file[f].blocks \o new)],
                                  file[f].size % BlockSize,
                                  (file[f].size % BlockSize) + Least(n, BlocksFor(file[f].size) * BlockSize) - file[f].size - 1)]
                  ELSE mem
        /\ file' = [file EXCEPT ![f] =
             [file[f] EXCEPT !.blocks = file[f].blocks \o new, !.count = @ + Len(new), !.size = n]]
  BY DEF Grow
<1>5. /\ heap' = heap \cup Range(new)
      /\ mem' = IF old % BlockSize # 0 /\ old \div BlockSize < BlocksFor(n)
                  THEN [mem EXCEPT ![(s \o new)[Len(s \o new)]] =
                          Cleared((s \o new)[Len(s \o new)], old % BlockSize,
                                  (old % BlockSize) + Least(n, BlocksFor(old) * BlockSize) - old - 1)]
                  ELSE mem
      /\ file' = [file EXCEPT ![f] =
             [file[f] EXCEPT !.blocks = s \o new, !.count = @ + Len(new), !.size = n]]
  BY <1>1, <1>50
<1>6. PICK t : t = s \o new
  OBVIOUS
<1>7. new \in Fresh(m)
  BY <1>2, <1>4, <1>50
<1>8. Longer(s, m, new, t)
  BY <1>2, <1>3, <1>6, <1>7, MoreBlocks
<1>9. /\ t \in Seq(Blocks) /\ Len(t) = BlocksFor(n) /\ Len(t) \in Nat /\ Len(new) = m
      /\ Extends(s, t) /\ Begins(s, t) /\ Distinct(t)
      /\ Range(t) = Range(s) \cup Range(new) /\ Range(new) \cap heap = {}
  BY <1>4, <1>8 DEF Longer, Extends
<1>10. ZeroFrom(mem, t, old)
  BY <1>2, <1>3, <1>9, NewBlocksZero
<1>11. mem' = mem
  <2>1. CASE old % BlockSize # 0
    <3>1. PICK b, from, to :
            /\ b = t[Len(t)] /\ from = old % BlockSize
            /\ to = (old % BlockSize) + Least(n, BlocksFor(old) * BlockSize) - old - 1
      OBVIOUS
    <3>2. BlocksFor(old) <= Len(t)
      BY <1>2, <1>4, <1>9
    <3>3. b \in Blocks /\ Cleared(b, from, to) = mem[b]
      <4>1. /\ UserFSTypeOK /\ t \in Seq(Blocks) /\ old \in Nat /\ ZeroFrom(mem, t, old)
            /\ b = t[Len(t)] /\ from = old % BlockSize
        BY <1>2, <1>9, <1>10, <3>1
      <4>2. Cleared(b, from, to) = mem[b]
        BY <2>1, <3>2, <4>1, ClearedIsSame
      <4>3. b \in Blocks
        BY <2>1, <3>2, <4>1, ClearedIsSame
      <4>. QED BY <4>2, <4>3
    <3>4. mem' = [mem EXCEPT ![b] = Cleared(b, from, to)] \/ mem' = mem
      BY <1>5, <1>6, <3>1
    <3>5. [mem EXCEPT ![b] = mem[b]] = mem
      BY <1>2, <3>3 DEF UserFSTypeOK
    <3>. QED BY <3>3, <3>4, <3>5
  <2>2. CASE ~(old % BlockSize # 0)
    BY <1>5, <2>2
  <2>. QED BY <2>1, <2>2
<1>12. PICK r \in FileRecord :
         r = [file[f] EXCEPT !.blocks = t, !.count = @ + Len(new), !.size = n]
  <2>1. file[f].count + Len(new) \in Nat /\ n \in 0..MaxSize
    BY <1>0, <1>2, <1>9
  <2>. QED BY <1>2, <1>9, <2>1 DEF FileRecord
<1>13. /\ r.name = file[f].name /\ r.refs = file[f].refs /\ r.deleted = file[f].deleted
       /\ r.blocks = t /\ r.size = n /\ r.count = Len(t)
  <2>1. file[f].count + Len(new) = Len(t)
    BY <1>2, <1>4, <1>9
  <2>. QED BY <1>2, <1>12, <2>1 DEF FileRecord
<1>14. ZeroFrom(mem', r.blocks, r.size)
  <2>1. \A p \in Nat : p >= n => p >= old
    BY <1>1, <1>2
  <2>. QED BY <1>10, <1>11, <1>13, <2>1 DEF ZeroFrom
<1>15. Rewrites(f, r)
  <2>1. Range(r.blocks) = Range(s) \cup Range(new)
    BY <1>9, <1>13
  <2>2. heap' = (heap \ Range(s)) \cup Range(r.blocks)
    BY <1>3, <1>5, <2>1
  <2>3. \A b \in Range(r.blocks) : b \in Range(s) \/ b \notin heap
    BY <1>9, <2>1
  <2>4. /\ \A b \in Blocks \ (Range(s) \cup Range(r.blocks)) : mem'[b] = mem[b]
        /\ \A b \in Range(s) \ Range(r.blocks) : mem'[b] = EmptyBlock
    BY <1>11, <2>1
  <2>5. file' = [file EXCEPT ![f] = r]
    BY <1>5, <1>6, <1>12
  <2>6. /\ r.count = Len(r.blocks) /\ r.count = BlocksFor(r.size) /\ Distinct(r.blocks)
        /\ r \in FileRecord
    BY <1>9, <1>13
  <2>7. mem' \in [Blocks -> [Offsets -> Data]]
    BY <1>2, <1>11 DEF UserFSTypeOK
  <2>. QED BY <1>1, <1>13, <1>14, <2>2, <2>3, <2>4, <2>5, <2>6, <2>7 DEF Rewrites
<1>16. Grew(f, n, r)
  <2>. HIDE DEF Rewrites
  <2>. QED BY <1>1, <1>9, <1>10, <1>11, <1>13, <1>15 DEF Grew
<1>. QED BY <1>16

-----------------------------------------------------------------------------
(* The first k blocks of a list.                                           *)
LEMMA FirstBlocks ==
    ASSUME NEW s \in Seq(Blocks), NEW k \in Nat, k <= Len(s), Distinct(s),
           NEW t, t = SubSeq(s, 1, k)
    PROVE  /\ t \in Seq(Blocks) /\ Len(t) = k /\ Begins(t, s) /\ Distinct(t)
           /\ Range(t) \subseteq Range(s)
<1>1. PICK l \in Nat : l = Len(s) /\ k <= l
  OBVIOUS
<1>2. t \in Seq(Blocks) /\ Len(t) = k /\ \A i \in 1..k : t[i] = s[i]
  <2>1. \A i \in 1..k : i \in 1..l /\ s[i] \in Blocks
    BY <1>1
  <2>2. t = [i \in 1..k |-> s[i]]
    <3>1. t = [i \in 1..((k - 1) + 1) |-> s[(i + 1) - 1]]
      OBVIOUS
    <3>2. (k - 1) + 1 = k /\ \A i \in 1..k : (i + 1) - 1 = i
      OBVIOUS
    <3>. QED BY <3>1, <3>2
  <2>3. t \in [1..k -> Blocks]
    BY <2>1, <2>2
  <2>4. t \in Seq(Blocks) /\ Len(t) = k
    BY <2>3
  <2>. QED BY <2>2, <2>4
<1>3. \A i \in 1..k : i \in 1..l
  BY <1>1
<1>4. Begins(t, s)
  BY <1>1, <1>2 DEF Begins
<1>5. Distinct(t)
  BY <1>1, <1>2, <1>3 DEF Distinct
<1>6. Range(t) \subseteq Range(s)
  <2>1. DOMAIN t = 1..k /\ DOMAIN s = 1..l
    BY <1>1, <1>2
  <2>. QED BY <1>2, <1>3, <2>1 DEF Range
<1>. QED BY <1>2, <1>4, <1>5, <1>6

(* What the memory is after blocks were freed and a tail was cleared.      *)
Trims(m, s, t, tail) ==
    m = [b \in Blocks |->
           IF b \in Range(s) \ Range(t) THEN EmptyBlock
           ELSE IF tail # 0 /\ t # <<>> /\ b = t[Len(t)]
                THEN Cleared(b, tail, BlockSize - 1) ELSE mem[b]]

LEMMA TrimmedBytes ==
    ASSUME UserFSTypeOK, NEW s, NEW t \in Seq(Blocks), Distinct(t), NEW n \in Nat,
           Len(t) = BlocksFor(n), NEW m, Trims(m, s, t, n % BlockSize), NEW p \in Nat,
           p \div BlockSize < Len(t)
    PROVE  Spell(m, t, p) = IF p < n THEN Spell(mem, t, p) ELSE Zero
<1>0. BlockSize \in Nat \ {0}
  BY UserFSAssumption
<1>1. PICK i \in Nat, o \in Offsets, l \in Nat, tail \in Offsets :
        /\ i = p \div BlockSize /\ o = p % BlockSize /\ l = Len(t) /\ i < l /\ tail = n % BlockSize
  BY DivMod
<1>2. /\ i + 1 \in 1..l /\ t[i + 1] \in Blocks /\ l \in 1..l
      /\ t[i + 1] \in Range(t) /\ t # <<>>
  <2>1. i + 1 \in 1..l /\ l \in 1..l /\ l # 0
    BY <1>1
  <2>2. DOMAIN t = 1..l
    BY <1>1
  <2>. QED BY <1>1, <2>1, <2>2 DEF Range
<1>3. t[i + 1] = t[Len(t)] <=> i + 1 = l
  BY <1>1, <1>2 DEF Distinct
<1>4. p >= n <=> tail # 0 /\ i + 1 = l /\ o >= tail
  <2>1. p \div BlockSize < BlocksFor(n)
    OBVIOUS
  <2>. QED BY <1>1, <2>1, PlaceOf
<1>5. m[t[i + 1]] = IF tail # 0 /\ i + 1 = l THEN Cleared(t[i + 1], tail, BlockSize - 1) ELSE mem[t[i + 1]]
  BY <1>1, <1>2, <1>3 DEF Trims
<1>6. CASE tail # 0 /\ i + 1 = l
  <2>1. o \in tail..BlockSize - 1 <=> o >= tail
    BY <1>0 DEF Offsets
  <2>2. m[t[i + 1]][o] = IF o >= tail THEN Zero ELSE mem[t[i + 1]][o]
    BY <1>5, <1>6, <2>1 DEF Cleared
  <2>3. p < n <=> ~(p >= n)
    OBVIOUS
  <2>. QED BY <1>1, <1>4, <1>6, <2>2, <2>3 DEF Spell
<1>7. CASE ~(tail # 0 /\ i + 1 = l)
  <2>1. p < n
    BY <1>4, <1>7
  <2>. QED BY <1>1, <1>5, <1>7, <2>1 DEF Spell
<1>. QED BY <1>6, <1>7

(* Freed blocks are empty, and other files' blocks as they were.           *)
Freed(m, s, t) ==
    /\ m \in [Blocks -> [Offsets -> Data]]
    /\ \A b \in Blocks : b \in Range(s) \ Range(t) => m[b] = EmptyBlock
    /\ \A b \in Blocks : b \notin Range(s) => m[b] = mem[b]

LEMMA TrimmedType ==
    ASSUME UserFSTypeOK, NEW s, NEW t \in Seq(Blocks), NEW tail, NEW m, Trims(m, s, t, tail),
           Range(t) \subseteq Range(s)
    PROVE  Freed(m, s, t)
<1>1. \A b \in Blocks : mem[b] \in [Offsets -> Data]
  BY DEF UserFSTypeOK
<1>2. EmptyBlock \in [Offsets -> Data]
  BY UserFSAssumption DEF EmptyBlock
<1>3. \A b \in Blocks : Cleared(b, tail, BlockSize - 1) \in [Offsets -> Data]
  BY <1>1, UserFSAssumption DEF Cleared
<1>4. m \in [Blocks -> [Offsets -> Data]]
  BY <1>1, <1>2, <1>3 DEF Trims
<1>5. \A b \in Blocks : b \in Range(s) \ Range(t) => m[b] = EmptyBlock
  BY DEF Trims
<1>6. t # <<>> => t[Len(t)] \in Range(t)
  <2>1. t # <<>> => Len(t) \in DOMAIN t
    BY EmptySeq
  <2>. QED BY <2>1 DEF Range
<1>7. \A b \in Blocks : b \notin Range(s) => m[b] = mem[b]
  BY <1>6 DEF Trims
<1>. QED BY <1>4, <1>5, <1>7 DEF Freed

(* Shrinking keeps the bytes before the new end.                           *)
Shrank(f, n, r) ==
    /\ Rewrites(f, r) /\ Begins(r.blocks, file[f].blocks) /\ r.size = n
    /\ \A p \in Nat : p < n => Spell(mem', r.blocks, p) = Spell(mem, file[f].blocks, p)

LEMMA ShrinkEffect ==
    ASSUME FSInv, NEW f, f \in Allocated, NEW n, n \in Nat, n < file[f].size,
           Shrink(f, n), listed' = listed
    PROVE  \E r \in FileRecord : Shrank(f, n, r)
<1>0. BlockSize \in Nat \ {0} /\ MaxSize \in Nat
  BY UserFSAssumption
<1>1. PICK s, old : s = file[f].blocks /\ old = file[f].size
  OBVIOUS
<1>2. /\ file[f] \in FileRecord /\ s \in Seq(Blocks) /\ Len(s) \in Nat /\ old \in 0..MaxSize
      /\ old \in Nat /\ Len(s) = BlocksFor(old) /\ file[f].count = Len(s) /\ UserFSTypeOK
  BY <1>1, FileFacts DEF FSInv, FilesSound, SizesFit
<1>3. Distinct(s) /\ Range(s) \subseteq heap
  BY <1>1, OwnBlocks
<1>. DEFINE S == file[f].blocks
            freed == Most(0, file[f].count - BlocksFor(n))
            kept == SubSeq(S, 1, Len(S) - freed)
<1>4. /\ heap' = heap \ (Range(S) \ Range(kept))
      /\ mem' = [b \in Blocks |->
           IF b \in Range(S) \ Range(kept) THEN EmptyBlock
           ELSE IF n % BlockSize # 0 /\ kept # <<>> /\ b = kept[Len(kept)]
                THEN Cleared(b, n % BlockSize, BlockSize - 1) ELSE mem[b]]
      /\ file' = [file EXCEPT ![f] =
           [file[f] EXCEPT !.blocks = kept, !.count = @ - freed, !.size = n]]
  BY DEF Shrink
<1>5. PICK k \in Nat, l \in Nat :
        k = BlocksFor(n) /\ l = Len(s) /\ k <= l /\ freed = l - k /\ Len(S) - freed = k
  <2>1. BlocksFor(n) \in Nat /\ BlocksFor(n) <= Len(s)
    <3>0. n \in Nat /\ n <= old
      BY <1>1, <1>2
    <3>1. BlocksFor(n) \in Nat
      BY <3>0, BlocksForSize
    <3>2. BlocksFor(n) <= BlocksFor(old)
      BY <1>2, <3>0, BlocksForMonotone
    <3>. QED BY <1>2, <3>1, <3>2
  <2>2. PICK k \in Nat, l \in Nat : k = BlocksFor(n) /\ l = Len(s) /\ k <= l
    BY <1>2, <2>1
  <2>3. Most(0, l - k) = l - k /\ l - (l - k) = k
    BY <2>2 DEF Most
  <2>4. freed = l - k /\ Len(S) - freed = k
    BY <1>1, <1>2, <2>2, <2>3
  <2>. QED BY <2>2, <2>4
<1>6. PICK t : t = SubSeq(s, 1, k) /\ t = kept
  BY <1>1, <1>5
<1>7. /\ t \in Seq(Blocks) /\ Len(t) = k /\ Begins(t, s) /\ Distinct(t)
      /\ Range(t) \subseteq Range(s)
  BY <1>2, <1>3, <1>5, <1>6, FirstBlocks
<1>. HIDE DEF kept
<1>8. PICK m : m = mem' /\ Trims(m, s, t, n % BlockSize)
  BY <1>1, <1>4, <1>6 DEF Trims
<1>9. /\ m \in [Blocks -> [Offsets -> Data]]
      /\ \A b \in Blocks : b \in Range(s) \ Range(t) => m[b] = EmptyBlock
      /\ \A b \in Blocks : b \notin Range(s) => m[b] = mem[b]
  <2>1. PICK tail : tail = n % BlockSize
    OBVIOUS
  <2>2. Trims(m, s, t, tail)
    BY <1>8, <2>1
  <2>3. UserFSTypeOK /\ t \in Seq(Blocks) /\ Range(t) \subseteq Range(s)
    BY <1>2, <1>7
  <2>4. Freed(m, s, t)
    BY <2>2, <2>3, TrimmedType
  <2>. QED BY <2>4 DEF Freed
<1>10. ASSUME NEW p \in Nat, p \div BlockSize < Len(t)
       PROVE  Spell(m, t, p) = IF p < n THEN Spell(mem, t, p) ELSE Zero
  <2>1. /\ UserFSTypeOK /\ t \in Seq(Blocks) /\ Distinct(t) /\ Len(t) = BlocksFor(n)
        /\ Trims(m, s, t, n % BlockSize)
    BY <1>2, <1>5, <1>7, <1>8
  <2>. QED BY <1>10, <2>1, TrimmedBytes
<1>11. ZeroFrom(m, t, n)
  BY <1>10 DEF ZeroFrom
<1>12. ASSUME NEW p \in Nat, p < n PROVE Spell(m, t, p) = Spell(mem, s, p)
  <2>1. PICK i \in Nat : i = p \div BlockSize /\ i < k
    BY <1>5, <1>12, PlaceOf
  <2>2. i + 1 \in 1..Len(t) /\ p \div BlockSize < Len(t)
    BY <1>7, <2>1
  <2>3. t[i + 1] = s[i + 1]
    BY <1>7, <2>2 DEF Begins
  <2>. QED BY <1>10, <1>12, <2>1, <2>2, <2>3 DEF Spell
<1>13. PICK r \in FileRecord :
         r = [file[f] EXCEPT !.blocks = t, !.count = @ - freed, !.size = n]
  <2>1. file[f].count - freed \in Nat /\ n \in 0..MaxSize
    <3>1. file[f].count - freed \in Nat
      <4>1. file[f].count = l /\ freed = l - k /\ k <= l
        BY <1>2, <1>5
      <4>2. l - (l - k) \in Nat
        OBVIOUS
      <4>. QED BY <4>1, <4>2
    <3>2. n \in 0..MaxSize
      <4>1. n < old /\ old \in 0..MaxSize
        BY <1>1, <1>2
      <4>. QED BY <1>0, <4>1
    <3>. QED BY <3>1, <3>2
  <2>. QED BY <1>2, <1>7, <2>1 DEF FileRecord
<1>14. /\ r.name = file[f].name /\ r.refs = file[f].refs /\ r.deleted = file[f].deleted
       /\ r.blocks = t /\ r.size = n /\ r.count = Len(t)
  <2>1. file[f].count - freed = Len(t)
    BY <1>2, <1>5, <1>7
  <2>. QED BY <1>2, <1>13, <2>1 DEF FileRecord
<1>15. Rewrites(f, r)
  <2>1. heap' = (heap \ Range(s)) \cup Range(r.blocks)
    BY <1>1, <1>3, <1>4, <1>6, <1>7, <1>14
  <2>2. \A b \in Range(r.blocks) : b \in Range(s) \/ b \notin heap
    BY <1>7, <1>14
  <2>3. Range(s) \subseteq Blocks
    BY <1>2 DEF Range
  <2>4. /\ \A b \in Blocks \ (Range(s) \cup Range(r.blocks)) : mem'[b] = mem[b]
        /\ \A b \in Range(s) \ Range(r.blocks) : mem'[b] = EmptyBlock
    BY <1>8, <1>9, <1>14, <2>3
  <2>5. file' = [file EXCEPT ![f] = r]
    BY <1>4, <1>6, <1>13
  <2>6. /\ r.count = Len(r.blocks) /\ r.count = BlocksFor(r.size) /\ Distinct(r.blocks)
        /\ r \in FileRecord
    BY <1>5, <1>7, <1>14
  <2>7. mem' \in [Blocks -> [Offsets -> Data]] /\ ZeroFrom(mem', r.blocks, r.size)
    BY <1>8, <1>9, <1>11, <1>14
  <2>. QED BY <1>1, <1>14, <2>1, <2>2, <2>4, <2>5, <2>6, <2>7 DEF Rewrites
<1>16. Shrank(f, n, r)
  <2>. HIDE DEF Rewrites
  <2>. QED BY <1>1, <1>7, <1>8, <1>12, <1>14, <1>15 DEF Shrank
<1>. QED BY <1>16

-----------------------------------------------------------------------------
(* A descriptor before the new end of a shorter file keeps its block, or   *)
(* has read zero bytes at the very end, and loses it.                      *)
LEMMA FitsShorter ==
    ASSUME NEW d, NEW g, NEW r, Fits(d, g), d.pos \in Nat, g.size \in Nat, r.size \in Nat,
           d.pos <= r.size, d.cur # NULL,
           Len(r.blocks) = BlocksFor(r.size), Len(g.blocks) = BlocksFor(g.size),
           g.blocks \in Seq(Blocks), r.blocks \in Seq(Blocks),
           Begins(r.blocks, g.blocks), Distinct(g.blocks)
    PROVE  IF d.cur \in Range(g.blocks) \ Range(r.blocks) THEN Ahead(d) ELSE Fits(d, r)
<1>0. /\ Len(r.blocks) \in Nat /\ Len(g.blocks) \in Nat /\ CacheFits(d, g)
      /\ DOMAIN r.blocks = 1..Len(r.blocks) /\ DOMAIN g.blocks = 1..Len(g.blocks)
  BY DEF Fits
<1>1. CASE d.cur = Dangling
  BY <1>0, <1>1 DEF Fits, CacheFits
<1>. SUFFICES ASSUME d.cur # Dangling
              PROVE  IF d.cur \in Range(g.blocks) \ Range(r.blocks) THEN Ahead(d) ELSE Fits(d, r)
  BY <1>1
<1>2. PICK j \in Nat : j = d.idx /\ j < Len(g.blocks) /\ g.blocks[j + 1] = d.cur
  BY CachedPlace
<1>3. ASSUME j < Len(r.blocks)
      PROVE  r.blocks[d.idx + 1] = d.cur /\ d.cur \in Range(r.blocks)
  <2>1. j + 1 \in 1..Len(r.blocks)
    BY <1>0, <1>3
  <2>2. r.blocks[j + 1] = d.cur
    BY <1>2, <2>1 DEF Begins
  <2>. QED BY <1>0, <1>2, <2>1, <2>2 DEF Range
<1>4. CASE Behind(d)
  <2>1. d.pos > 0 /\ d.idx = (d.pos - 1) \div BlockSize
    BY <1>4 DEF Behind
  <2>2. PICK p \in Nat, n \in Nat : p = d.pos - 1 /\ n = r.size /\ p < n
    <3>1. d.pos - 1 \in Nat /\ d.pos - 1 < r.size
      BY <2>1
    <3>. QED BY <3>1
  <2>3. p \div BlockSize < BlocksFor(n)
    BY <2>2, PlaceOf
  <2>4. j < Len(r.blocks)
    BY <1>2, <2>1, <2>2, <2>3
  <2>. QED BY <1>3, <1>4, <2>4 DEF Fits, CacheFits
<1>5. CASE Ahead(d)
  <2>1. d.pos \div BlockSize = j /\ d.pos % BlockSize = 0
    BY <1>2, <1>5, AheadPlace
  <2>2. PICK p \in Nat, n \in Nat : p = d.pos /\ n = r.size
    OBVIOUS
  <2>3. CASE p < n
    <3>1. p \div BlockSize < BlocksFor(n)
      BY <2>2, <2>3, PlaceOf
    <3>2. j < Len(r.blocks)
      BY <2>1, <2>2, <3>1
    <3>. QED BY <1>3, <1>5, <2>2, <2>3, <3>2 DEF Fits, CacheFits
  <2>4. CASE p = n
    <3>1. Len(r.blocks) = j
      BY <2>1, <2>2, <2>4, BlocksForSize
    <3>2. ASSUME NEW k \in 1..Len(r.blocks) PROVE r.blocks[k] # d.cur
      <4>1. k \in 1..Len(g.blocks) /\ j + 1 \in 1..Len(g.blocks) /\ k # j + 1
        BY <1>0, <1>2, <3>1
      <4>2. r.blocks[k] = g.blocks[k]
        BY DEF Begins
      <4>. QED BY <1>2, <4>1, <4>2 DEF Distinct
    <3>3. d.cur \notin Range(r.blocks)
      BY <1>0, <3>2 DEF Range
    <3>4. d.cur \in Range(g.blocks)
      <4>1. j + 1 \in DOMAIN g.blocks
        BY <1>0, <1>2
      <4>. QED BY <1>2, <4>1 DEF Range
    <3>. QED BY <1>5, <3>3, <3>4
  <2>. QED BY <2>2, <2>3, <2>4
<1>. QED BY <1>0, <1>4, <1>5 DEF CacheFits

(* Resizing moves the descriptors behind the new end, and of the others    *)
(* takes the blocks that are gone.                                         *)
Clamped(e, d, f, n, gone) ==
    IF d.file = f /\ d.pos > n THEN Moved(e, d, n, NULL, -1)
    ELSE IF d.file = f /\ d.cur \in gone THEN Moved(e, d, d.pos, Dangling, d.idx) ELSE e = d

LEMMA ClampedDescriptors ==
    ASSUME FSInv, NEW f, NEW n, n \in 0..MaxSize, NEW gone, desc' = Clamp(f, n, gone)
    PROVE  Redescribes /\ \A i \in OpenFds : Clamped(desc'[i], desc[i], f, n, gone)
<1>0. UserFSTypeOK /\ desc \in Seq(Descriptor \cup {NULL}) /\ DOMAIN desc = 1..Len(desc)
  BY DEF FSInv, UserFSTypeOK
<1>. DEFINE New(i) ==
        IF desc[i] # NULL /\ desc[i].file = f /\ desc[i].pos > n
        THEN [desc[i] EXCEPT !.pos = n, !.cur = NULL, !.idx = -1]
        ELSE IF desc[i] # NULL /\ desc[i].file = f /\ desc[i].cur \in gone
        THEN [desc[i] EXCEPT !.cur = Dangling] ELSE desc[i]
<1>1. desc' = [i \in 1..Len(desc) |-> New(i)]
  BY <1>0, Zenon DEF Clamp
<1>10. \A i \in 1..Len(desc) :
         /\ desc[i] = NULL \/ desc[i].file # f => New(i) = desc[i]
         /\ desc[i] # NULL /\ desc[i].file = f /\ desc[i].pos > n =>
              New(i) = [desc[i] EXCEPT !.pos = n, !.cur = NULL, !.idx = -1]
         /\ desc[i] # NULL /\ desc[i].file = f /\ ~(desc[i].pos > n) /\ desc[i].cur \in gone =>
              New(i) = [desc[i] EXCEPT !.cur = Dangling]
         /\ desc[i] # NULL /\ desc[i].file = f /\ ~(desc[i].pos > n) /\ desc[i].cur \notin gone =>
              New(i) = desc[i]
  BY Zenon
<1>. HIDE DEF New
<1>11. \A i \in 1..Len(desc) : desc'[i] = New(i)
  BY <1>1
<1>2. ASSUME NEW i \in OpenFds
      PROVE  /\ Clamped(desc'[i], desc[i], f, n, gone)
             /\ desc'[i] # NULL /\ desc'[i].file = desc[i].file /\ desc'[i] \in Descriptor
  <2>1. i \in 1..Len(desc) /\ desc[i] # NULL /\ desc[i] \in Descriptor
    BY <1>0, DescFacts DEF OpenFds
  <2>2. PICK d, e, x : d = desc'[i] /\ e = desc[i] /\ x \in Int /\ x = -1
    OBVIOUS
  <2>3. e \in Descriptor /\ e # NULL /\ NULL \in Blocks \cup {NULL, Dangling}
    BY <2>1, <2>2
  <2>4. CASE e.file = f /\ e.pos > n
    <3>1. d = [e EXCEPT !.pos = n, !.cur = NULL, !.idx = x]
      BY <1>10, <1>11, <2>1, <2>2, <2>4, Zenon
    <3>2. Moved(d, e, n, NULL, x)
      BY <2>2, <2>3, <3>1, MovedDescriptor
    <3>. QED BY <2>2, <2>4, <3>2 DEF Clamped, Moved
  <2>5. CASE e.file = f /\ ~(e.pos > n) /\ e.cur \in gone
    <3>1. d = [e EXCEPT !.cur = Dangling]
      BY <1>10, <1>11, <2>1, <2>2, <2>5, Zenon
    <3>2. /\ d \in Descriptor /\ d.file = e.file /\ d.pos = e.pos /\ d.cur = Dangling
          /\ d.idx = e.idx /\ d.mode = e.mode
      BY <2>3, <3>1 DEF Descriptor
    <3>3. Moved(d, e, e.pos, Dangling, e.idx)
      BY <3>2, UserFSAssumption DEF Moved
    <3>. QED BY <2>2, <2>5, <3>3 DEF Clamped, Moved
  <2>6. CASE e.file # f \/ (~(e.pos > n) /\ e.cur \notin gone)
    <3>1. d = e
      BY <1>10, <1>11, <2>1, <2>2, <2>6, Zenon
    <3>. QED BY <2>2, <2>3, <2>6, <3>1 DEF Clamped
  <2>. QED BY <2>4, <2>5, <2>6
<1>3. \A i \in 1..Len(desc) : desc[i] = NULL => desc'[i] = NULL
  BY <1>10, <1>11, Zenon
<1>4. \A i \in OpenFds : desc'[i] # NULL /\ desc'[i].file = desc[i].file /\ desc'[i] \in Descriptor
  BY <1>2
<1>5. \A i \in 1..Len(desc) : desc'[i] \in Descriptor \cup {NULL}
  BY <1>3, <1>4 DEF OpenFds
<1>6. desc' \in Seq(Descriptor \cup {NULL}) /\ Len(desc') = Len(desc)
  <2>0. Len(desc) \in Nat
    BY <1>0
  <2>1. PICK l \in Nat : l = Len(desc)
    BY <2>0
  <2>2. desc' \in [1..l -> Descriptor \cup {NULL}]
    BY <1>1, <1>5, <2>1
  <2>. QED BY <2>1, <2>2
<1>7. Redescribes
  BY <1>3, <1>4, <1>6 DEF Redescribes
<1>. QED BY <1>2, <1>7

LEMMA GrowInv ==
    ASSUME FSInv, NEW f, f \in Allocated, NEW n, n \in Nat, n <= MaxSize, n > file[f].size,
           Grow(f, n), desc' = Clamp(f, n, heap \ heap'), Done(0), listed' = listed
    PROVE  FSInv'
<1>1. PICK r \in FileRecord : Grew(f, n, r)
  BY GrowEffect
<1>2. Rewrites(f, r) /\ Begins(file[f].blocks, r.blocks) /\ r.size = n
  BY <1>1 DEF Grew
<1>3. /\ file'[f] = r /\ \A g \in Files : g # f => file'[g] = file[g]
  BY <1>2, RewrittenFile
<1>4. n \in 0..MaxSize
  BY UserFSAssumption
<1>0. PICK gone : gone = heap \ heap' /\ gone = {}
  BY DEF Grow
<1>5. Redescribes /\ \A i \in OpenFds : Clamped(desc'[i], desc[i], f, n, gone)
  BY <1>0, <1>4, ClampedDescriptors
<1>6. ASSUME NEW i \in OpenFds PROVE Fits(desc'[i], file'[desc[i].file])
  <2>1. PICK d, g : d = desc[i] /\ g = file[d.file]
    OBVIOUS
  <2>2. /\ d.file \in Allocated /\ d.pos \in Nat /\ g.size \in Nat
        /\ Len(g.blocks) = BlocksFor(g.size) /\ Fits(d, g) /\ d.pos <= g.size
    BY <2>1, OpenDescriptor DEF Fits
  <2>3. ~(desc[i].file = f /\ desc[i].pos > n)
    BY <2>1, <2>2
  <2>4. desc'[i] = d
    BY <1>0, <1>5, <2>1, <2>3 DEF Clamped
  <2>5. CASE d.file = f
    <3>1. g.size <= r.size /\ r.size \in Nat /\ Begins(g.blocks, r.blocks)
      BY <1>2, <2>1, <2>2, <2>5
    <3>2. Fits(d, r)
      BY <2>2, <3>1, FitsLonger
    <3>. QED BY <1>3, <2>1, <2>4, <2>5, <3>2
  <2>6. CASE d.file # f
    BY <1>3, <2>1, <2>2, <2>4, <2>6 DEF Allocated
  <2>. QED BY <2>5, <2>6
<1>7. /\ errno' \in {"NO_ERR", "NO_FILE", "NO_PERMISSION", "NO_MEM"}
      /\ result' \in [ret : Int, data : Seq(Data)]
  BY DoneType
<1>. QED BY <1>2, <1>5, <1>6, <1>7, RewriteInv

LEMMA ShrinkInv ==
    ASSUME FSInv, NEW f, f \in Allocated, NEW n, n \in Nat, n < file[f].size,
           Shrink(f, n), desc' = Clamp(f, n, heap \ heap'), Done(0), listed' = listed
    PROVE  FSInv'
<1>1. PICK r \in FileRecord : Shrank(f, n, r)
  BY ShrinkEffect
<1>2. Rewrites(f, r) /\ Begins(r.blocks, file[f].blocks) /\ r.size = n
  BY <1>1 DEF Shrank
<1>3. /\ file'[f] = r /\ \A g \in Files : g # f => file'[g] = file[g]
      /\ Len(r.blocks) = BlocksFor(r.size) /\ n \in 0..MaxSize
  BY <1>2, RewrittenFile
<1>0. PICK gone : gone = heap \ heap'
  OBVIOUS
<1>4. Redescribes /\ \A i \in OpenFds : Clamped(desc'[i], desc[i], f, n, gone)
  BY <1>0, <1>3, ClampedDescriptors
<1>7. /\ Distinct(file[f].blocks) /\ file[f].blocks \in Seq(Blocks) /\ r.blocks \in Seq(Blocks)
      /\ gone = Range(file[f].blocks) \ Range(r.blocks)
  <2>1. PICK s : s = file[f].blocks
    OBVIOUS
  <2>2. s \in Seq(Blocks) /\ Distinct(s) /\ Range(s) \subseteq heap
    BY <2>1, OwnBlocks
  <2>3. heap' = (heap \ Range(s)) \cup Range(r.blocks)
    BY <1>2, <2>1 DEF Rewrites
  <2>. QED BY <1>0, <2>1, <2>2, <2>3 DEF FileRecord
<1>5. ASSUME NEW i \in OpenFds PROVE Fits(desc'[i], file'[desc[i].file])
  <2>1. PICK d, e, g : d = desc[i] /\ e = desc'[i] /\ g = file[d.file]
    OBVIOUS
  <2>2. /\ d.file \in Allocated /\ d.pos \in Nat /\ Fits(d, g) /\ g.size \in Nat
        /\ Len(g.blocks) = BlocksFor(g.size) /\ Clamped(e, d, f, n, gone)
    BY <1>4, <2>1, OpenDescriptor
  <2>3. CASE d.file = f /\ d.pos > n
    <3>1. Moved(e, d, n, NULL, -1)
      BY <2>2, <2>3 DEF Clamped
    <3>2. Fits(e, r)
      BY <1>2, <3>1 DEF Moved, Fits
    <3>. QED BY <1>3, <2>1, <2>3, <3>2
  <2>4. CASE d.file = f /\ ~(d.pos > n)
    <3>1. /\ Begins(r.blocks, g.blocks) /\ r.size \in Nat /\ d.pos <= r.size
          /\ Distinct(g.blocks) /\ g.blocks \in Seq(Blocks)
          /\ gone = Range(g.blocks) \ Range(r.blocks)
      BY <1>2, <1>7, <2>1, <2>2, <2>4
    <3>2. CASE d.cur = NULL
      <4>1. NULL \notin gone
        <5>1. \A k \in 1..Len(g.blocks) : g.blocks[k] \in Blocks
          BY <3>1
        <5>2. Range(g.blocks) \subseteq Blocks
          BY <3>1, <5>1 DEF Range
        <5>. QED BY <3>1, <5>2, UserFSAssumption
      <4>2. e = d
        BY <2>2, <2>4, <3>2, <4>1 DEF Clamped
      <4>3. Fits(e, r)
        BY <3>1, <3>2, <4>2 DEF Fits
      <4>. QED BY <1>3, <2>1, <2>4, <4>3
    <3>3. CASE d.cur # NULL
      <4>1. IF d.cur \in gone THEN Ahead(d) ELSE Fits(d, r)
        BY <1>3, <1>7, <2>2, <3>1, <3>3, FitsShorter
      <4>2. Fits(e, r)
        <5>1. CASE d.cur \in gone
          <6>1. Moved(e, d, d.pos, Dangling, d.idx)
            BY <2>2, <2>4, <5>1 DEF Clamped
          <6>2. e.pos = d.pos /\ e.cur = Dangling /\ e.idx = d.idx
            BY <6>1 DEF Moved
          <6>3. Ahead(e)
            BY <4>1, <5>1, <6>2 DEF Ahead
          <6>. QED BY <3>1, <6>2, <6>3 DEF Fits, CacheFits
        <5>2. CASE d.cur \notin gone
          BY <2>2, <2>4, <4>1, <5>2 DEF Clamped
        <5>. QED BY <5>1, <5>2
      <4>. QED BY <1>3, <2>1, <2>4, <4>2
    <3>. QED BY <3>2, <3>3
  <2>5. CASE d.file # f
    <3>1. e = d
      BY <2>2, <2>5 DEF Clamped
    <3>. QED BY <1>3, <2>1, <2>2, <2>5, <3>1 DEF Allocated
  <2>. QED BY <2>3, <2>4, <2>5
<1>6. /\ errno' \in {"NO_ERR", "NO_FILE", "NO_PERMISSION", "NO_MEM"}
      /\ result' \in [ret : Int, data : Seq(Data)]
  BY DoneType
<1>. QED BY <1>2, <1>4, <1>5, <1>6, RewriteInv

LEMMA SameSizeInv ==
    ASSUME FSInv, NEW f, f \in Allocated, NEW n, n = file[f].size,
           UNCHANGED <<file, heap, mem>>, desc' = Clamp(f, n, heap \ heap'), Done(0),
           listed' = listed
    PROVE  FSInv'
<1>1. desc \in Seq(Descriptor \cup {NULL}) /\ DOMAIN desc = 1..Len(desc)
  BY DEF FSInv, UserFSTypeOK
<1>2. ASSUME NEW i \in 1..Len(desc), desc[i] # NULL, desc[i].file = f PROVE ~(desc[i].pos > n)
  <2>1. i \in OpenFds
    BY <1>2 DEF OpenFds
  <2>2. PICK d, g : d = desc[i] /\ g = file[d.file]
    OBVIOUS
  <2>3. d.pos \in Nat /\ g.size \in Nat /\ Fits(d, g)
    BY <2>1, <2>2, OpenDescriptor
  <2>. QED BY <1>2, <2>2, <2>3 DEF Fits
<1>3. desc' = desc
  <2>0. heap \ heap' = {}
    OBVIOUS
  <2>1. desc' = [i \in 1..Len(desc) |-> desc[i]]
    BY <1>1, <1>2, <2>0 DEF Clamp
  <2>2. desc = [i \in 1..Len(desc) |-> desc[i]]
    BY <1>1
  <2>. QED BY <2>1, <2>2
<1>4. /\ errno' \in {"NO_ERR", "NO_FILE", "NO_PERMISSION", "NO_MEM"}
      /\ result' \in [ret : Int, data : Seq(Data)]
  BY DoneType
<1>. QED BY <1>3, <1>4, SameState

-----------------------------------------------------------------------------
(* A file keeps its bytes.                                                 *)
Keeps(g) ==
    /\ file'[g].blocks = file[g].blocks /\ file'[g].size = file[g].size
    /\ file'[g].count = file[g].count

(* A file comes that has no bytes, and the others keep theirs.             *)
LEMMA SameBytes ==
    ASSUME FSInv, heap' = heap, mem' = mem, Allocated \subseteq Allocated',
           \A g \in Allocated : Keeps(g),
           \A g \in Allocated' : g \notin Allocated =>
               file'[g].blocks = <<>> /\ file'[g].size = 0 /\ file'[g].count = 0,
           NamesOnce'
    PROVE  FilesSound'
<1>0. BlocksOwned /\ BlocksOnce /\ SizesFit /\ RestZero /\ FreeClean /\ UserFSTypeOK
  BY DEF FSInv, FilesSound
<1>1. BlocksFor(0) = 0
  BY BlocksForSize
<1>2. BlocksOwned'
  <2>1. \A b : b \in heap' <=> \E g \in Allocated' : b \in Range(file'[g].blocks)
    <3>1. \A b : b \in heap <=> \E g \in Allocated : b \in Range(file[g].blocks)
      BY <1>0 DEF BlocksOwned
    <3>2. \A b : b \notin Range(<<>>)
      BY DEF Range
    <3>. QED BY <3>1, <3>2 DEF Keeps
  <2>. QED BY <2>1 DEF BlocksOwned
<1>3. BlocksOnce'
  <2>. SUFFICES ASSUME NEW g \in Allocated', NEW h \in Allocated',
                       NEW i \in DOMAIN file'[g].blocks, NEW j \in DOMAIN file'[h].blocks,
                       file'[g].blocks[i] = file'[h].blocks[j]
                PROVE  g = h /\ i = j
    BY DEF BlocksOnce
  <2>1. g \in Allocated /\ h \in Allocated
    <3>1. DOMAIN <<>> = {}
      OBVIOUS
    <3>. QED BY <3>1
  <2>. QED BY <1>0, <2>1 DEF BlocksOnce, Keeps
<1>4. SizesFit'
  <2>. SUFFICES ASSUME NEW g \in Allocated'
                PROVE  /\ file'[g].count = Len(file'[g].blocks)
                       /\ Len(file'[g].blocks) = BlocksFor(file'[g].size)
    BY DEF SizesFit
  <2>1. CASE g \in Allocated
    BY <1>0, <2>1 DEF SizesFit, Keeps
  <2>2. CASE g \notin Allocated
    BY <1>1, <2>2
  <2>. QED BY <2>1, <2>2
<1>5. RestZero'
  <2>. SUFFICES ASSUME NEW g \in Allocated'
                PROVE  ZeroFrom(mem', file'[g].blocks, file'[g].size)
    BY DEF RestZero
  <2>1. CASE g \in Allocated
    BY <1>0, <2>1 DEF RestZero, Keeps
  <2>2. CASE g \notin Allocated
    <3>1. \A p \in Nat : ~(p \div BlockSize < Len(<<>>))
      <4>. SUFFICES ASSUME NEW p \in Nat PROVE ~(p \div BlockSize < 0)
        OBVIOUS
      <4>1. p \div BlockSize \in Nat
        BY DivMod
      <4>. QED BY <4>1
    <3>. QED BY <2>2, <3>1 DEF ZeroFrom
  <2>. QED BY <2>1, <2>2
<1>6. FreeClean'
  BY <1>0 DEF FreeClean
<1>. QED BY <1>2, <1>3, <1>4, <1>5, <1>6 DEF FilesSound

(* Files go with all their blocks, and the others keep theirs.             *)
LEMMA FreedFiles ==
    ASSUME FSInv, NEW G, G \subseteq Allocated, Allocated' = Allocated \ G,
           \A g \in Allocated' : Keeps(g),
           heap' = heap \ UNION {Range(file[g].blocks) : g \in G},
           mem' = [b \in Blocks |-> IF b \in heap' THEN mem[b] ELSE EmptyBlock],
           NamesOnce'
    PROVE  FilesSound' /\ heap' \subseteq Blocks /\ mem' \in [Blocks -> [Offsets -> Data]]
<1>0. BlocksOwned /\ BlocksOnce /\ SizesFit /\ RestZero /\ FreeClean /\ UserFSTypeOK
  BY DEF FSInv, FilesSound
<1>1. \A g \in Allocated', h \in G : Range(file[g].blocks) \cap Range(file[h].blocks) = {}
  <2>. SUFFICES ASSUME NEW g \in Allocated', NEW h \in G,
                       NEW b \in Range(file[g].blocks), b \in Range(file[h].blocks)
                PROVE  FALSE
    OBVIOUS
  <2>1. g \in Allocated /\ h \in Allocated /\ g # h
    OBVIOUS
  <2>. QED BY <1>0, <2>1 DEF BlocksOnce, Range
<1>2. \A b : b \in heap' <=> \E g \in Allocated' : b \in Range(file[g].blocks)
  <2>1. \A b : b \in heap <=> \E g \in Allocated : b \in Range(file[g].blocks)
    BY <1>0 DEF BlocksOwned
  <2>2. \A b : b \in heap' <=> b \in heap /\ ~\E g \in G : b \in Range(file[g].blocks)
    OBVIOUS
  <2>. QED BY <1>1, <2>1, <2>2
<1>3. BlocksOwned'
  BY <1>2 DEF BlocksOwned, Keeps
<1>4. BlocksOnce'
  BY <1>0 DEF BlocksOnce, Keeps
<1>5. SizesFit'
  BY <1>0 DEF SizesFit, Keeps
<1>6. heap' \subseteq Blocks
  BY <1>0 DEF UserFSTypeOK
<1>7. \A b \in heap' : mem'[b] = mem[b]
  BY <1>6
<1>8. RestZero'
  <2>. SUFFICES ASSUME NEW g \in Allocated', NEW p \in Nat, p >= file[g].size,
                       p \div BlockSize < Len(file[g].blocks)
                PROVE  Spell(mem', file[g].blocks, p) = Zero
    BY DEF RestZero, ZeroFrom, Keeps
  <2>1. g \in Allocated
    OBVIOUS
  <2>2. Spell(mem, file[g].blocks, p) = Zero
    BY <1>0, <2>1 DEF RestZero, ZeroFrom
  <2>3. PICK i \in Nat : i = p \div BlockSize
    BY DivMod
  <2>4. file[g].blocks[i + 1] \in Range(file[g].blocks)
    BY <1>0, <2>1, <2>3, FileFacts DEF Range
  <2>5. mem'[file[g].blocks[i + 1]] = mem[file[g].blocks[i + 1]]
    <3>1. PICK b : b = file[g].blocks[i + 1]
      OBVIOUS
    <3>2. b \in Range(file[g].blocks)
      BY <2>4, <3>1
    <3>3. \E h \in Allocated' : b \in Range(file[h].blocks)
      BY <3>2
    <3>4. b \in heap'
      BY <1>2, <3>3, Zenon
    <3>5. mem'[b] = mem[b]
      BY <1>7, <3>4
    <3>. QED BY <3>1, <3>5
  <2>. QED BY <2>2, <2>3, <2>5 DEF Spell
<1>9. FreeClean'
  BY DEF FreeClean
<1>10. mem' \in [Blocks -> [Offsets -> Data]]
  <2>1. EmptyBlock \in [Offsets -> Data]
    BY UserFSAssumption DEF EmptyBlock
  <2>. QED BY <1>0, <2>1 DEF UserFSTypeOK
<1>. QED BY <1>3, <1>4, <1>5, <1>6, <1>8, <1>9, <1>10 DEF FilesSound

-----------------------------------------------------------------------------
(* The descriptors of a file can be counted.                               *)
FdsOf(f) == {i \in OpenFds : desc[i].file = f}

LEMMA FdsFinite ==
    ASSUME UserFSTypeOK, NEW f
    PROVE  IsFiniteSet(FdsOf(f)) /\ Cardinality(FdsOf(f)) \in Nat
<1>1. Len(desc) \in Nat
  BY DEF UserFSTypeOK
<1>2. IsFiniteSet(1..Len(desc))
  <2>1. PICK n \in Nat : n = Len(desc)
    BY <1>1
  <2>2. 1 \in Int /\ n \in Int
    OBVIOUS
  <2>3. IsFiniteSet(1..n)
    BY <2>2, FS_Interval
  <2>. QED BY <2>1, <2>3
<1>3. FdsOf(f) \subseteq 1..Len(desc)
  BY DEF FdsOf, OpenFds
<1>4. PICK S, T : S = 1..Len(desc) /\ T = FdsOf(f)
  OBVIOUS
<1>5. IsFiniteSet(S) /\ T \subseteq S
  BY <1>2, <1>3, <1>4
<1>6. IsFiniteSet(T)
  BY <1>5, FS_Subset
<1>7. Cardinality(T) \in Nat
  BY <1>6, FS_CardinalityType
<1>. QED BY <1>4, <1>6, <1>7

LEMMA LeastNumber ==
    ASSUME NEW S, S \subseteq Nat, S # {}
    PROVE  \E m \in S : \A j \in S : m <= j
<1>1. PICK R : R = OpToRel(<, Nat)
  OBVIOUS
<1>2. IsWellFoundedOn(R, Nat)
  BY <1>1, NatLessThanWellFounded
<1>3. PICK m \in S : \A j \in S : ~(<<j, m>> \in R)
  BY <1>2, WFMin
<1>4. \A j, k \in Nat : j < k => <<j, k>> \in R
  BY <1>1 DEF OpToRel
<1>5. ASSUME NEW j \in S PROVE m <= j
  <2>1. j \in Nat /\ m \in Nat /\ ~(j < m)
    BY <1>3, <1>4
  <2>. QED BY <2>1
<1>. QED BY <1>5

(* The descriptors after one was opened: entry i was free.                 *)
Opened(i, d) ==
    /\ d \in Descriptor /\ i \notin OpenFds /\ i \in Nat
    /\ OpenFds' = OpenFds \cup {i}
    /\ desc'[i] = d /\ \A j \in OpenFds : desc'[j] = desc[j]
    /\ desc' \in Seq(Descriptor \cup {NULL}) /\ Len(desc') <= MaxFds
    /\ Done(i)

NewDescriptor(f, mode) ==
    [file |-> f, pos |-> 0, cur |-> NULL, idx |-> 0,
     mode |-> IF mode = {} THEN {"READ", "WRITE"} ELSE mode]

LEMMA DescriptorAdded ==
    ASSUME FSInv, NEW f \in Files, NEW mode \in SUBSET {"READ", "WRITE"}, AddDescriptor(f, mode),
           NEW d, d = NewDescriptor(f, mode)
    PROVE  \E i \in Nat : Opened(i, d)
<1>0. /\ desc \in Seq(Descriptor \cup {NULL}) /\ Len(desc) \in Nat /\ DOMAIN desc = 1..Len(desc)
      /\ Len(desc) <= MaxFds /\ MaxFds \in Nat
  BY UserFSAssumption DEF FSInv, UserFSTypeOK
<1>1. d \in Descriptor /\ d # NULL
  <2>1. 0 \in 0..MaxSize /\ 0 \in Int /\ NULL \in Blocks \cup {NULL, Dangling}
        /\ (IF mode = {} THEN {"READ", "WRITE"} ELSE mode) \in SUBSET {"READ", "WRITE"}
    BY UserFSAssumption
  <2>2. d \in Descriptor
    BY <2>1 DEF Descriptor, NewDescriptor
  <2>. QED BY <2>2, UserFSAssumption
<1>. DEFINE free == {i \in 1..Len(desc) : desc[i] = NULL}
<1>2. \/ \E i \in free : desc' = [desc EXCEPT ![i] = d] /\ Done(i)
      \/ /\ free = {} /\ Len(desc) < MaxFds
         /\ desc' = Append(desc, d) /\ Done(Len(desc) + 1)
  <2>1. CASE free # {}
    <3>1. PICK i : i = CHOOSE k \in free : \A j \in free : k <= j
      OBVIOUS
    <3>2. i \in free
      <4>1. PICK m \in free : \A j \in free : m <= j
        <5>1. free \subseteq Nat
          OBVIOUS
        <5>2. PICK S : S = free
          OBVIOUS
        <5>3. S \subseteq Nat /\ S # {}
          BY <2>1, <5>1, <5>2
        <5>4. \E m \in S : \A j \in S : m <= j
          BY <5>3, LeastNumber
        <5>. QED BY <5>2, <5>4
      <4>. QED BY <3>1, <4>1
    <3>3. desc' = [desc EXCEPT ![i] = d] /\ Done(i)
      BY <2>1, <3>1 DEF AddDescriptor, NewDescriptor
    <3>. QED BY <3>2, <3>3
  <2>2. CASE free = {}
    BY <2>2 DEF AddDescriptor, NewDescriptor
  <2>. QED BY <2>1, <2>2
<1>3. ASSUME NEW i \in free, desc' = [desc EXCEPT ![i] = d], Done(i) PROVE Opened(i, d)
  <2>1. /\ i \in 1..Len(desc) /\ i \in Nat /\ i \notin OpenFds
    BY <1>0 DEF OpenFds
  <2>2. /\ desc' \in Seq(Descriptor \cup {NULL}) /\ Len(desc') = Len(desc) /\ desc'[i] = d
        /\ \A j \in 1..Len(desc) : j # i => desc'[j] = desc[j]
    BY <1>0, <1>1, <1>3, <2>1
  <2>3. OpenFds' = {j \in 1..Len(desc) : desc'[j] # NULL}
    BY <2>2 DEF OpenFds
  <2>4. OpenFds' = OpenFds \cup {i} /\ \A j \in OpenFds : desc'[j] = desc[j]
    BY <1>1, <2>1, <2>2, <2>3 DEF OpenFds
  <2>. QED BY <1>0, <1>1, <1>3, <2>1, <2>2, <2>4 DEF Opened
<1>4. ASSUME Len(desc) < MaxFds, desc' = Append(desc, d), NEW i \in Nat, i = Len(desc) + 1, Done(i)
      PROVE  Opened(i, d)
  <2>1. PICK l \in Nat : l = Len(desc) /\ i = l + 1
    BY <1>0, <1>4
  <2>2. /\ desc' \in Seq(Descriptor \cup {NULL}) /\ Len(desc') = i /\ desc'[i] = d
        /\ \A j \in 1..l : desc'[j] = desc[j]
    BY <1>0, <1>1, <1>4, <2>1
  <2>3. OpenFds = {j \in 1..l : desc[j] # NULL} /\ OpenFds' = {j \in 1..i : desc'[j] # NULL}
    BY <2>1, <2>2 DEF OpenFds
  <2>4. \A j \in 1..i : j = i \/ j \in 1..l
    BY <2>1
  <2>5. i \notin 1..l /\ i \in 1..i /\ \A j \in 1..l : j \in 1..i
    BY <2>1
  <2>6. OpenFds' = OpenFds \cup {i} /\ (\A j \in OpenFds : desc'[j] = desc[j]) /\ i \notin OpenFds
    BY <1>1, <2>2, <2>3, <2>4, <2>5
  <2>7. Len(desc') <= MaxFds
    BY <1>0, <1>4, <2>1, <2>2
  <2>. QED BY <1>1, <1>4, <2>2, <2>6, <2>7 DEF Opened
<1>5. CASE \E i \in free : desc' = [desc EXCEPT ![i] = d] /\ Done(i)
  <2>1. PICK i \in free : desc' = [desc EXCEPT ![i] = d] /\ Done(i)
    BY <1>5
  <2>2. i \in Nat
    BY <1>0
  <2>3. Opened(i, d)
    BY <1>3, <2>1
  <2>. QED BY <2>2, <2>3
<1>6. CASE Len(desc) < MaxFds /\ desc' = Append(desc, d) /\ Done(Len(desc) + 1)
  <2>1. PICK i \in Nat : i = Len(desc) + 1
    BY <1>0
  <2>2. Opened(i, d)
    BY <1>4, <1>6, <2>1
  <2>. QED BY <2>2
<1>. QED BY <1>2, <1>5, <1>6

(* A file whose counter follows its descriptors stays reachable.           *)
Reachable(f) ==
    /\ file[f].refs = Cardinality(FdsOf(f))
    /\ file[f].deleted <=> f \notin listed
    /\ file[f].refs = 0 => f \in listed

LEMMA ReachableAll ==
    (\A f \in Allocated : Reachable(f)) <=> FilesReachable
BY DEF Reachable, FdsOf, FilesReachable

LEMMA ReachableAllPrime ==
    (\A f \in Allocated' : Reachable(f)') <=> FilesReachable'
BY DEF Reachable, FdsOf, FilesReachable

(* A descriptor more for file f, none for the others.                      *)
LEMMA OpenedCounts ==
    ASSUME FSInv, NEW i, NEW d, NEW f, Opened(i, d), d.file = f
    PROVE  /\ Cardinality(FdsOf(f)') = Cardinality(FdsOf(f)) + 1
           /\ \A g : g # f => FdsOf(g)' = FdsOf(g)
           /\ Cardinality(FdsOf(f)) \in Nat
<1>0. UserFSTypeOK
  BY DEF FSInv
<1>1. /\ i \notin OpenFds /\ OpenFds' = OpenFds \cup {i} /\ desc'[i] = d
      /\ \A j \in OpenFds : desc'[j] = desc[j]
  BY DEF Opened
<1>2. FdsOf(f)' = FdsOf(f) \cup {i} /\ i \notin FdsOf(f)
  BY <1>1 DEF FdsOf
<1>3. \A g : g # f => FdsOf(g)' = FdsOf(g)
  BY <1>1 DEF FdsOf
<1>4. PICK S : S = FdsOf(f)
  OBVIOUS
<1>5. IsFiniteSet(S) /\ Cardinality(S) \in Nat /\ i \notin S
  BY <1>0, <1>2, <1>4, FdsFinite
<1>6. Cardinality(S \cup {i}) = Cardinality(S) + 1
  BY <1>5, FS_AddElement
<1>. QED BY <1>2, <1>3, <1>4, <1>5, <1>6

(* A new descriptor is right for its file, whatever the others are.        *)
LEMMA OpenedFits ==
    ASSUME FSInv, NEW i, NEW d, NEW f, Opened(i, d), d.file = f, d.pos = 0, d.cur = NULL,
           Allocated \subseteq Allocated', f \in Allocated', file'[f].size \in Nat,
           \A g \in Allocated : Keeps(g)
    PROVE  /\ PositionsInside' /\ CacheExact'
           /\ desc' \in Seq(Descriptor \cup {NULL}) /\ Len(desc') <= MaxFds
           /\ \A j \in OpenFds' : desc'[j].file \in Allocated'
<1>1. /\ i \notin OpenFds /\ OpenFds' = OpenFds \cup {i} /\ desc'[i] = d
      /\ \A j \in OpenFds : desc'[j] = desc[j]
      /\ desc' \in Seq(Descriptor \cup {NULL}) /\ Len(desc') <= MaxFds
  BY DEF Opened
<1>2. ASSUME NEW j \in OpenFds'
      PROVE  Fits(desc'[j], file'[desc'[j].file]) /\ desc'[j].file \in Allocated'
  <2>1. CASE j = i
    BY <1>1, <2>1 DEF Fits
  <2>2. CASE j \in OpenFds
    <3>1. desc'[j] = desc[j]
      BY <1>1, <2>2
    <3>2. PICK e, g : e = desc[j] /\ g = file[e.file]
      OBVIOUS
    <3>3. e.file \in Allocated /\ Fits(e, g)
      BY <2>2, <3>2, OpenDescriptor
    <3>4. Fits(e, file'[e.file])
      BY <3>2, <3>3 DEF Fits, CacheFits, Keeps
    <3>. QED BY <3>1, <3>2, <3>3, <3>4
  <2>. QED BY <1>1, <2>1, <2>2
<1>3. PositionsInside' /\ CacheExact'
  BY <1>2, FitsAllPrime
<1>. QED BY <1>1, <1>2, <1>3

LEMMA OpenNewInv ==
    ASSUME FSInv, NEW n \in Names, NEW mode \in SUBSET {"READ", "WRITE"}, Lookup(n) = {},
           NEW f \in Files, file[f] = NULL, AddDescriptor(f, mode), heap' = heap, mem' = mem,
           listed' = listed \cup {f},
           file' = [file EXCEPT ![f] =
                      [name |-> n, refs |-> 1, size |-> 0, blocks |-> <<>>, count |-> 0,
                       deleted |-> FALSE]]
    PROVE  FSInv'
<1>0. UserFSTypeOK /\ NamesOnce /\ FilesReachable
  BY DEF FSInv, FilesSound, DescriptorsSound
<1>1. PICK r : r = [name |-> n, refs |-> 1, size |-> 0, blocks |-> <<>>, count |-> 0,
                    deleted |-> FALSE]
  OBVIOUS
<1>2. /\ r \in FileRecord /\ r # NULL /\ r.name = n /\ r.refs = 1 /\ r.size = 0
      /\ r.blocks = <<>> /\ r.count = 0 /\ r.deleted = FALSE
  <2>1. 0 \in 0..MaxSize /\ <<>> \in Seq(Blocks)
    BY UserFSAssumption
  <2>2. r \in FileRecord
    BY <1>1, <2>1 DEF FileRecord
  <2>. QED BY <1>1, <2>2, UserFSAssumption
<1>3. /\ file' \in [Files -> FileRecord \cup {NULL}] /\ file'[f] = r
      /\ \A g \in Files : g # f => file'[g] = file[g]
  BY <1>0, <1>1, <1>2 DEF UserFSTypeOK
<1>4. Allocated' = Allocated \cup {f} /\ f \notin Allocated /\ Allocated \subseteq Files
  <2>1. Allocated' = {g \in Files : file'[g] # NULL}
    BY DEF Allocated
  <2>. QED BY <1>2, <1>3, <2>1 DEF Allocated
<1>5. /\ listed' \subseteq Allocated' /\ f \notin listed /\ listed \subseteq Allocated
  BY <1>0, <1>4 DEF UserFSTypeOK
<1>6. NamesOnce'
  <2>1. \A g \in listed : file'[g] = file[g]
    BY <1>3, <1>4, <1>5
  <2>2. \A g \in listed : file[g].name # n
    <3>1. \A g \in listed : ~file[g].deleted
      BY <1>0, <1>5 DEF FilesReachable
    <3>. QED BY <3>1 DEF Lookup
  <2>. QED BY <1>0, <1>2, <1>3, <2>1, <2>2 DEF NamesOnce
<1>7. \A g \in Allocated : file'[g] = file[g] /\ Keeps(g)
  BY <1>3, <1>4 DEF Keeps
<1>8. FilesSound'
  <2>1. \A g \in Allocated' : g \notin Allocated =>
          file'[g].blocks = <<>> /\ file'[g].size = 0 /\ file'[g].count = 0
    BY <1>2, <1>3, <1>4
  <2>2. Allocated \subseteq Allocated' /\ \A g \in Allocated : Keeps(g)
    BY <1>4, <1>7
  <2>. QED BY <1>6, <2>1, <2>2, SameBytes
<1>9. PICK d : d = NewDescriptor(f, mode) /\ d.file = f /\ d.pos = 0 /\ d.cur = NULL
  <2>1. PICK d : d = NewDescriptor(f, mode)
    OBVIOUS
  <2>2. d.file = f /\ d.pos = 0 /\ d.cur = NULL
    BY <2>1 DEF NewDescriptor
  <2>. QED BY <2>1, <2>2
<1>10. PICK i \in Nat : Opened(i, d)
  BY <1>9, DescriptorAdded
<1>11. /\ PositionsInside' /\ CacheExact'
       /\ desc' \in Seq(Descriptor \cup {NULL}) /\ Len(desc') <= MaxFds
       /\ \A j \in OpenFds' : desc'[j].file \in Allocated'
  <2>1. Allocated \subseteq Allocated' /\ f \in Allocated' /\ file'[f].size \in Nat
    BY <1>2, <1>3, <1>4
  <2>2. \A g \in Allocated : Keeps(g)
    BY <1>7
  <2>. QED BY <1>9, <1>10, <2>1, <2>2, OpenedFits
<1>12. FilesReachable'
  <2>1. /\ Cardinality(FdsOf(f)') = Cardinality(FdsOf(f)) + 1
        /\ \A g : g # f => FdsOf(g)' = FdsOf(g)
    BY <1>9, <1>10, OpenedCounts
  <2>2. Cardinality(FdsOf(f)) = 0
    <3>1. FdsOf(f) = {}
      BY <1>0, <1>4, DescFacts DEF FdsOf
    <3>. QED BY <3>1, FS_EmptySet
  <2>3. Reachable(f)'
    BY <1>2, <1>3, <2>1, <2>2 DEF Reachable
  <2>4. \A g \in Allocated : Reachable(g)'
    <3>. SUFFICES ASSUME NEW g \in Allocated PROVE Reachable(g)'
      OBVIOUS
    <3>1. g # f /\ FdsOf(g)' = FdsOf(g) /\ file'[g] = file[g] /\ (g \in listed' <=> g \in listed)
      BY <1>4, <1>7, <2>1
    <3>2. Reachable(g)
      BY <1>0, ReachableAll
    <3>. QED BY <3>1, <3>2 DEF Reachable
  <2>. QED BY <1>4, <2>3, <2>4, ReachableAllPrime
<1>13. /\ errno' \in {"NO_ERR", "NO_FILE", "NO_PERMISSION", "NO_MEM"}
       /\ result' \in [ret : Int, data : Seq(Data)]
  BY <1>10, DoneType DEF Opened
<1>14. UserFSTypeOK'
  BY <1>0, <1>3, <1>5, <1>11, <1>13 DEF UserFSTypeOK
<1>. QED BY <1>8, <1>11, <1>12, <1>14 DEF FSInv, DescriptorsSound

(* A file's counter and its mark of deletion change, and nothing else.     *)
Relabels(f, r) ==
    /\ file' \in [Files -> FileRecord \cup {NULL}] /\ Allocated' = Allocated
    /\ file'[f] = r
    /\ \A g \in Files : g # f => file'[g] = file[g]
    /\ \A g \in Allocated : Keeps(g) /\ file'[g].name = file[g].name

LEMMA Recounted ==
    ASSUME FSInv, NEW f, f \in Allocated, NEW r, r \in FileRecord, file' = [file EXCEPT ![f] = r],
           r.name = file[f].name, r.size = file[f].size, r.blocks = file[f].blocks,
           r.count = file[f].count
    PROVE  Relabels(f, r)
<1>0. UserFSTypeOK
  BY DEF FSInv
<1>1. f \in Files
  BY <1>0, FileFacts
<1>2. r # NULL
  BY UserFSAssumption
<1>3. /\ file' \in [Files -> FileRecord \cup {NULL}] /\ file'[f] = r
      /\ \A g \in Files : g # f => file'[g] = file[g]
  BY <1>0, <1>1 DEF UserFSTypeOK
<1>4. Allocated' = Allocated /\ Allocated \subseteq Files
  BY <1>2, <1>3 DEF Allocated
<1>5. \A g \in Allocated : Keeps(g) /\ file'[g].name = file[g].name
  BY <1>3, <1>4 DEF Keeps
<1>. QED BY <1>3, <1>4, <1>5 DEF Relabels

LEMMA OpenOldInv ==
    ASSUME FSInv, NEW n \in Names, NEW mode \in SUBSET {"READ", "WRITE"},
           NEW f, f \in Lookup(n), AddDescriptor(f, mode), heap' = heap, mem' = mem,
           listed' = listed, file' = [file EXCEPT ![f].refs = @ + 1, ![f].deleted = FALSE]
    PROVE  FSInv'
<1>0. UserFSTypeOK /\ NamesOnce /\ FilesReachable
  BY DEF FSInv, FilesSound, DescriptorsSound
<1>1. f \in listed /\ f \in Allocated /\ listed \subseteq Allocated
  BY <1>0 DEF Lookup, UserFSTypeOK
<1>2. f \in Files /\ file[f] \in FileRecord /\ file[f].refs \in Nat /\ file[f].size \in Nat
  BY <1>0, <1>1, FileFacts
<1>3. PICK r :
        /\ r = [file[f] EXCEPT !.refs = file[f].refs + 1, !.deleted = FALSE]
        /\ file' = [file EXCEPT ![f] = r]
  BY <1>0, <1>2 DEF UserFSTypeOK
<1>30. /\ r \in FileRecord /\ r.name = file[f].name /\ r.size = file[f].size
       /\ r.blocks = file[f].blocks /\ r.count = file[f].count
       /\ r.refs = file[f].refs + 1 /\ r.deleted = FALSE
  <2>1. file[f].refs + 1 \in Nat
    BY <1>2
  <2>. QED BY <1>2, <1>3, <2>1 DEF FileRecord
<1>4. /\ file' \in [Files -> FileRecord \cup {NULL}] /\ Allocated' = Allocated
      /\ file'[f] = r
      /\ \A g \in Files : g # f => file'[g] = file[g]
      /\ \A g \in Allocated : Keeps(g) /\ file'[g].name = file[g].name
  <2>1. Relabels(f, r)
    BY <1>1, <1>3, <1>30, Recounted
  <2>. QED BY <2>1 DEF Relabels
<1>5. NamesOnce'
  <2>1. \A g \in listed : file'[g].name = file[g].name
    BY <1>1, <1>4
  <2>. QED BY <1>0, <2>1 DEF NamesOnce
<1>6. FilesSound'
  BY <1>4, <1>5, SameBytes
<1>7. PICK d : d = NewDescriptor(f, mode) /\ d.file = f /\ d.pos = 0 /\ d.cur = NULL
  <2>1. PICK d : d = NewDescriptor(f, mode)
    OBVIOUS
  <2>2. d.file = f /\ d.pos = 0 /\ d.cur = NULL
    BY <2>1 DEF NewDescriptor
  <2>. QED BY <2>1, <2>2
<1>8. PICK i \in Nat : Opened(i, d)
  BY <1>2, <1>7, DescriptorAdded
<1>9. /\ PositionsInside' /\ CacheExact'
      /\ desc' \in Seq(Descriptor \cup {NULL}) /\ Len(desc') <= MaxFds
      /\ \A j \in OpenFds' : desc'[j].file \in Allocated'
  <2>1. /\ Allocated \subseteq Allocated' /\ f \in Allocated' /\ file'[f].size \in Nat
        /\ \A g \in Allocated : Keeps(g)
    BY <1>1, <1>2, <1>4 DEF Keeps
  <2>. QED BY <1>7, <1>8, <2>1, OpenedFits
<1>10. FilesReachable'
  <2>1. /\ Cardinality(FdsOf(f)') = Cardinality(FdsOf(f)) + 1
        /\ \A g : g # f => FdsOf(g)' = FdsOf(g)
    BY <1>7, <1>8, OpenedCounts
  <2>2. ASSUME NEW g \in Allocated PROVE Reachable(g)'
    <3>1. Reachable(g)
      BY <1>0, ReachableAll
    <3>2. CASE g = f
      BY <1>1, <1>30, <1>4, <2>1, <3>1, <3>2 DEF Reachable
    <3>3. CASE g # f
      <4>1. FdsOf(g)' = FdsOf(g) /\ file'[g] = file[g]
        BY <1>4, <2>1, <3>3 DEF Allocated
      <4>. QED BY <3>1, <4>1 DEF Reachable
    <3>. QED BY <3>2, <3>3
  <2>. QED BY <1>4, <2>2, ReachableAllPrime
<1>11. /\ errno' \in {"NO_ERR", "NO_FILE", "NO_PERMISSION", "NO_MEM"}
       /\ result' \in [ret : Int, data : Seq(Data)]
  BY <1>8, DoneType DEF Opened
<1>12. UserFSTypeOK'
  BY <1>0, <1>1, <1>4, <1>9, <1>11 DEF UserFSTypeOK
<1>. QED BY <1>6, <1>9, <1>10, <1>12 DEF FSInv, DescriptorsSound

-----------------------------------------------------------------------------
(* The descriptors after one was closed.                                   *)
LEMMA ClosedCounts ==
    ASSUME FSInv, NEW fd, fd \in OpenFds, NEW f, f = desc[fd].file,
           desc' = [desc EXCEPT ![fd] = NULL]
    PROVE  /\ OpenFds' = OpenFds \ {fd} /\ \A j \in OpenFds' : desc'[j] = desc[j]
           /\ desc' \in Seq(Descriptor \cup {NULL}) /\ Len(desc') <= MaxFds
           /\ Cardinality(FdsOf(f)') = Cardinality(FdsOf(f)) - 1
           /\ Cardinality(FdsOf(f)) \in Nat \ {0}
           /\ \A g : g # f => FdsOf(g)' = FdsOf(g)
           /\ Cardinality(FdsOf(f)) = 1 => FdsOf(f)' = {}
<1>0. UserFSTypeOK /\ desc \in Seq(Descriptor \cup {NULL}) /\ fd \in 1..Len(desc)
  BY DEF FSInv, UserFSTypeOK, OpenFds
<1>1. /\ desc' \in Seq(Descriptor \cup {NULL}) /\ Len(desc') = Len(desc) /\ desc'[fd] = NULL
      /\ \A j \in 1..Len(desc) : j # fd => desc'[j] = desc[j]
  BY <1>0
<1>2. OpenFds' = {j \in 1..Len(desc) : desc'[j] # NULL}
  BY <1>1 DEF OpenFds
<1>3. OpenFds' = OpenFds \ {fd} /\ \A j \in OpenFds' : desc'[j] = desc[j]
  BY <1>1, <1>2 DEF OpenFds
<1>4. FdsOf(f)' = FdsOf(f) \ {fd} /\ fd \in FdsOf(f)
  BY <1>3 DEF FdsOf
<1>5. \A g : g # f => FdsOf(g)' = FdsOf(g)
  BY <1>3 DEF FdsOf
<1>6. PICK S, T : S = FdsOf(f) /\ T = S \ {fd}
  OBVIOUS
<1>7. IsFiniteSet(S) /\ Cardinality(S) \in Nat /\ fd \in S
  BY <1>0, <1>4, <1>6, FdsFinite
<1>8. Cardinality(T) = Cardinality(S) - 1 /\ IsFiniteSet(T)
  BY <1>6, <1>7, FS_RemoveElement
<1>9. Cardinality(S) # 0
  BY <1>7, FS_EmptySet
<1>10. Cardinality(S) = 1 => T = {}
  BY <1>8, FS_EmptySet
<1>11. Len(desc') <= MaxFds
  BY <1>0, <1>1 DEF UserFSTypeOK
<1>. QED BY <1>1, <1>3, <1>4, <1>5, <1>6, <1>7, <1>8, <1>9, <1>10, <1>11

(* The descriptors that stay are right for files that keep their bytes.    *)
LEMMA FitsKept ==
    ASSUME FSInv, OpenFds' \subseteq OpenFds, \A g \in Allocated' : Keeps(g),
           \A j \in OpenFds' :
               /\ desc'[j].file = desc[j].file /\ desc[j].file \in Allocated'
               /\ desc'[j] = desc[j] \/ (desc'[j].pos = desc[j].pos /\ desc'[j].cur = NULL)
    PROVE  PositionsInside' /\ CacheExact'
<1>1. ASSUME NEW j \in OpenFds' PROVE Fits(desc'[j], file'[desc'[j].file])
  <2>1. PICK e, g, d : e = desc[j] /\ g = file[e.file] /\ d = desc'[j]
    OBVIOUS
  <2>2. Fits(e, g) /\ j \in OpenFds
    BY <2>1, OpenDescriptor
  <2>3. d.file = e.file /\ Keeps(e.file) /\ (d = e \/ (d.pos = e.pos /\ d.cur = NULL))
    BY <2>1
  <2>. QED BY <2>1, <2>2, <2>3 DEF Fits, CacheFits, Keeps
<1>. QED BY <1>1, FitsAllPrime

-----------------------------------------------------------------------------
(* A file goes that no name leads to any more.                             *)
Frees(f) ==
    /\ FilesSound' /\ Allocated' = Allocated \ {f}
    /\ \A g \in Allocated' : file'[g] = file[g] /\ Keeps(g)
    /\ file' \in [Files -> FileRecord \cup {NULL}] /\ heap' \subseteq Blocks
    /\ mem' \in [Blocks -> [Offsets -> Data]]

LEMMA FreeFileEffect ==
    ASSUME FSInv, NEW f, f \in Allocated, FreeFile(f), listed' \subseteq listed, f \notin listed'
    PROVE  Frees(f)
<1>0. UserFSTypeOK /\ NamesOnce
  BY DEF FSInv, FilesSound
<1>1. /\ heap' = heap \ Range(file[f].blocks) /\ file' = [file EXCEPT ![f] = NULL]
      /\ mem' = [b \in Blocks |-> IF b \in heap' THEN mem[b] ELSE EmptyBlock]
  BY DEF FreeFile
<1>2. f \in Files /\ file \in [Files -> FileRecord \cup {NULL}] /\ listed \subseteq Allocated
  BY <1>0, FileFacts DEF UserFSTypeOK
<1>3. /\ file' \in [Files -> FileRecord \cup {NULL}] /\ file'[f] = NULL
      /\ \A g \in Files : g # f => file'[g] = file[g]
  BY <1>1, <1>2
<1>4. Allocated' = Allocated \ {f} /\ Allocated \subseteq Files
  <2>1. Allocated' = {g \in Files : file'[g] # NULL}
    BY DEF Allocated
  <2>. QED BY <1>3, <2>1 DEF Allocated
<1>5. \A g \in Allocated' : file'[g] = file[g] /\ Keeps(g)
  BY <1>3, <1>4 DEF Keeps
<1>6. NamesOnce'
  <2>1. \A g \in listed' : file'[g] = file[g] /\ g \in listed
    BY <1>2, <1>4, <1>5
  <2>. QED BY <1>0, <2>1 DEF NamesOnce
<1>7. FilesSound' /\ heap' \subseteq Blocks /\ mem' \in [Blocks -> [Offsets -> Data]]
  <2>1. PICK G : G = {f}
    OBVIOUS
  <2>2. UNION {Range(file[g].blocks) : g \in G} = Range(file[f].blocks)
    BY <2>1
  <2>3. /\ G \subseteq Allocated /\ Allocated' = Allocated \ G
        /\ heap' = heap \ UNION {Range(file[g].blocks) : g \in G}
    BY <1>1, <1>4, <2>1, <2>2
  <2>4. \A g \in Allocated' : Keeps(g)
    BY <1>5
  <2>. QED BY <1>1, <1>6, <2>3, <2>4, FreedFiles
<1>. QED BY <1>3, <1>4, <1>5, <1>7 DEF Frees

(* close frees the file exactly when it was the last descriptor of a       *)
(* deleted file.                                                           *)
LEMMA CloseLastInv ==
    ASSUME FSInv, NEW fd, fd \in OpenFds, NEW f, f = desc[fd].file,
           desc' = [desc EXCEPT ![fd] = NULL], file[f].refs = 1, file[f].deleted, FreeFile(f),
           Done(0), listed' = listed
    PROVE  FSInv'
<1>0. UserFSTypeOK /\ FilesReachable
  BY DEF FSInv, DescriptorsSound
<1>1. f \in Allocated /\ listed \subseteq Allocated
  BY <1>0, DescFacts DEF UserFSTypeOK
<1>2. f \notin listed /\ Cardinality(FdsOf(f)) = 1
  BY <1>0, <1>1, ReachableAll DEF Reachable
<1>3. Frees(f)
  BY <1>1, <1>2, FreeFileEffect
<1>4. /\ FilesSound' /\ Allocated' = Allocated \ {f}
      /\ \A g \in Allocated' : file'[g] = file[g] /\ Keeps(g)
      /\ file' \in [Files -> FileRecord \cup {NULL}] /\ heap' \subseteq Blocks
      /\ mem' \in [Blocks -> [Offsets -> Data]]
  BY <1>3 DEF Frees
<1>5. /\ OpenFds' = OpenFds \ {fd} /\ \A j \in OpenFds' : desc'[j] = desc[j]
      /\ desc' \in Seq(Descriptor \cup {NULL}) /\ Len(desc') <= MaxFds
  BY ClosedCounts
<1>6. \A g : g # f => FdsOf(g)' = FdsOf(g)
  BY ClosedCounts
<1>7. FdsOf(f)' = {}
  BY <1>2, ClosedCounts
<1>8. \A j \in OpenFds' : desc'[j].file = desc[j].file /\ desc[j].file \in Allocated'
  <2>. SUFFICES ASSUME NEW j \in OpenFds'
                PROVE  desc'[j].file = desc[j].file /\ desc[j].file \in Allocated'
    OBVIOUS
  <2>1. desc'[j] = desc[j] /\ j \in OpenFds
    BY <1>5
  <2>2. desc[j].file # f
    BY <1>7, <2>1 DEF FdsOf
  <2>. QED BY <1>0, <1>4, <2>1, <2>2, DescFacts
<1>9. PositionsInside' /\ CacheExact'
  BY <1>4, <1>5, <1>8, FitsKept
<1>10. FilesReachable'
  <2>1. ASSUME NEW g \in Allocated' PROVE Reachable(g)'
    <3>1. g # f /\ g \in Allocated /\ file'[g] = file[g]
      BY <1>4
    <3>2. FdsOf(g)' = FdsOf(g)
      BY <1>6, <3>1
    <3>3. Reachable(g)
      BY <1>0, <3>1, ReachableAll
    <3>. QED BY <3>1, <3>2, <3>3 DEF Reachable
  <2>. QED BY <2>1, ReachableAllPrime
<1>11. /\ errno' \in {"NO_ERR", "NO_FILE", "NO_PERMISSION", "NO_MEM"}
       /\ result' \in [ret : Int, data : Seq(Data)]
  BY DoneType
<1>12. listed' \subseteq Allocated'
  BY <1>1, <1>2, <1>4
<1>13. UserFSTypeOK'
  BY <1>4, <1>5, <1>8, <1>11, <1>12 DEF UserFSTypeOK
<1>. QED BY <1>4, <1>9, <1>10, <1>13 DEF FSInv, DescriptorsSound

LEMMA CloseOtherInv ==
    ASSUME FSInv, NEW fd, fd \in OpenFds, NEW f, f = desc[fd].file,
           desc' = [desc EXCEPT ![fd] = NULL], ~(file[f].refs = 1 /\ file[f].deleted),
           file' = [file EXCEPT ![f].refs = @ - 1], heap' = heap, mem' = mem,
           Done(0), listed' = listed
    PROVE  FSInv'
<1>0. UserFSTypeOK /\ NamesOnce /\ FilesReachable
  BY DEF FSInv, FilesSound, DescriptorsSound
<1>1. f \in Allocated /\ listed \subseteq Allocated
  BY <1>0, DescFacts DEF UserFSTypeOK
<1>2. /\ f \in Files /\ file[f] \in FileRecord /\ file[f].refs \in Nat
      /\ file[f].deleted \in BOOLEAN
  BY <1>0, <1>1, FileFacts
<1>3. /\ OpenFds' = OpenFds \ {fd} /\ \A j \in OpenFds' : desc'[j] = desc[j]
      /\ desc' \in Seq(Descriptor \cup {NULL}) /\ Len(desc') <= MaxFds
  BY ClosedCounts
<1>4. \A g : g # f => FdsOf(g)' = FdsOf(g)
  BY ClosedCounts
<1>5. /\ Cardinality(FdsOf(f)') = Cardinality(FdsOf(f)) - 1
      /\ Cardinality(FdsOf(f)) \in Nat \ {0}
  BY ClosedCounts
<1>6. Reachable(f)
  BY <1>0, <1>1, ReachableAll
<1>7. PICK r : r = [file[f] EXCEPT !.refs = file[f].refs - 1] /\ file' = [file EXCEPT ![f] = r]
  BY <1>0, <1>2 DEF UserFSTypeOK
<1>70. /\ r \in FileRecord /\ r.name = file[f].name /\ r.size = file[f].size
       /\ r.blocks = file[f].blocks /\ r.count = file[f].count
       /\ r.refs = file[f].refs - 1 /\ r.deleted = file[f].deleted
  <2>1. file[f].refs - 1 \in Nat
    BY <1>2, <1>5, <1>6 DEF Reachable
  <2>. QED BY <1>2, <1>7, <2>1 DEF FileRecord
<1>8. Relabels(f, r)
  <2>1. r.name = file[f].name /\ r.size = file[f].size /\ r.blocks = file[f].blocks
        /\ r.count = file[f].count
    BY <1>70
  <2>2. r \in FileRecord /\ file' = [file EXCEPT ![f] = r]
    BY <1>7, <1>70
  <2>. QED BY <1>1, <2>1, <2>2, Recounted
<1>9. /\ file' \in [Files -> FileRecord \cup {NULL}] /\ Allocated' = Allocated
      /\ file'[f] = r
      /\ \A g \in Files : g # f => file'[g] = file[g]
      /\ \A g \in Allocated : Keeps(g) /\ file'[g].name = file[g].name
  BY <1>8 DEF Relabels
<1>10. NamesOnce'
  <2>1. \A g \in listed : file'[g].name = file[g].name
    BY <1>1, <1>9
  <2>. QED BY <1>0, <2>1 DEF NamesOnce
<1>11. FilesSound'
  BY <1>9, <1>10, SameBytes
<1>12. \A j \in OpenFds' : desc'[j].file = desc[j].file /\ desc[j].file \in Allocated'
  BY <1>0, <1>3, <1>9, DescFacts
<1>13. PositionsInside' /\ CacheExact'
  BY <1>3, <1>9, <1>12, FitsKept
<1>14. FilesReachable'
  <2>1. Reachable(f)'
    <3>1. r.refs = Cardinality(FdsOf(f)')
      BY <1>5, <1>6, <1>70 DEF Reachable
    <3>2. file[f].deleted <=> f \notin listed
      BY <1>6 DEF Reachable
    <3>3. r.deleted <=> f \notin listed
      BY <1>70, <3>2
    <3>4. r.refs = 0 => f \in listed
      <4>1. r.refs = 0 => file[f].refs = 1
        BY <1>2, <1>70
      <4>. QED BY <3>2, <4>1
    <3>. QED BY <1>9, <3>1, <3>3, <3>4 DEF Reachable
  <2>2. ASSUME NEW g \in Allocated, g # f PROVE Reachable(g)'
    <3>1. FdsOf(g)' = FdsOf(g) /\ file'[g] = file[g]
      BY <1>4, <1>9, <2>2 DEF Allocated
    <3>2. Reachable(g)
      BY <1>0, ReachableAll
    <3>. QED BY <3>1, <3>2 DEF Reachable
  <2>. QED BY <1>9, <2>1, <2>2, ReachableAllPrime
<1>15. /\ errno' \in {"NO_ERR", "NO_FILE", "NO_PERMISSION", "NO_MEM"}
       /\ result' \in [ret : Int, data : Seq(Data)]
  BY DoneType
<1>16. UserFSTypeOK'
  BY <1>0, <1>1, <1>3, <1>9, <1>12, <1>15 DEF UserFSTypeOK
<1>. QED BY <1>11, <1>13, <1>14, <1>16 DEF FSInv, DescriptorsSound

-----------------------------------------------------------------------------
(* Deleting a file makes its descriptors forget their block.               *)
Forgets(d, e) == d.pos = e.pos /\ d.mode = e.mode /\ d.cur = NULL

LEMMA DroppedCaches ==
    ASSUME FSInv, NEW f, desc' = DropCaches(desc, f)
    PROVE  /\ Redescribes
           /\ \A i \in OpenFds :
                desc'[i] = desc[i] \/ Forgets(desc'[i], desc[i])
<1>0. UserFSTypeOK /\ desc \in Seq(Descriptor \cup {NULL}) /\ DOMAIN desc = 1..Len(desc)
  BY DEF FSInv, UserFSTypeOK
<1>. DEFINE New(i) == IF desc[i] # NULL /\ desc[i].file = f
                      THEN [desc[i] EXCEPT !.cur = NULL, !.idx = -1] ELSE desc[i]
<1>1. desc' = [i \in 1..Len(desc) |-> New(i)]
  BY <1>0, Zenon DEF DropCaches
<1>10. \A i \in 1..Len(desc) :
         /\ desc[i] = NULL \/ desc[i].file # f => New(i) = desc[i]
         /\ desc[i] # NULL /\ desc[i].file = f =>
              New(i) = [desc[i] EXCEPT !.cur = NULL, !.idx = -1]
  BY Zenon
<1>. HIDE DEF New
<1>11. \A i \in 1..Len(desc) : desc'[i] = New(i)
  BY <1>1
<1>2. ASSUME NEW i \in OpenFds
      PROVE  /\ desc'[i] = desc[i] \/ Forgets(desc'[i], desc[i])
             /\ desc'[i] # NULL /\ desc'[i].file = desc[i].file /\ desc'[i] \in Descriptor
  <2>1. i \in 1..Len(desc) /\ desc[i] # NULL /\ desc[i] \in Descriptor
    BY <1>0, DescFacts DEF OpenFds
  <2>2. CASE desc[i].file = f
    <3>1. PICK d, e, x : d = desc'[i] /\ e = desc[i] /\ x \in Int /\ x = -1
      OBVIOUS
    <3>2. d = [e EXCEPT !.cur = NULL, !.idx = x]
      BY <1>10, <1>11, <2>1, <2>2, <3>1, Zenon
    <3>3. e \in Descriptor /\ NULL \in Blocks \cup {NULL, Dangling}
      BY <2>1, <3>1
    <3>4. d \in Descriptor /\ d.file = e.file /\ Forgets(d, e)
      BY <3>1, <3>2, <3>3 DEF Descriptor, Forgets
    <3>5. d # NULL
      BY <3>4, UserFSAssumption
    <3>. QED BY <3>1, <3>4, <3>5
  <2>3. CASE desc[i].file # f
    BY <1>10, <1>11, <2>1, <2>3, Zenon
  <2>. QED BY <2>2, <2>3
<1>3. \A i \in 1..Len(desc) : desc[i] = NULL => desc'[i] = NULL
  BY <1>10, <1>11, Zenon
<1>4. \A i \in OpenFds : desc'[i] # NULL /\ desc'[i].file = desc[i].file /\ desc'[i] \in Descriptor
  BY <1>2
<1>5. \A i \in 1..Len(desc) : desc'[i] \in Descriptor \cup {NULL}
  BY <1>3, <1>4 DEF OpenFds
<1>6. desc' \in Seq(Descriptor \cup {NULL}) /\ Len(desc') = Len(desc)
  <2>0. Len(desc) \in Nat
    BY <1>0
  <2>1. PICK l \in Nat : l = Len(desc)
    BY <2>0
  <2>2. desc' \in [1..l -> Descriptor \cup {NULL}]
    BY <1>1, <1>5, <2>1
  <2>. QED BY <2>1, <2>2
<1>7. Redescribes
  BY <1>3, <1>4, <1>6 DEF Redescribes
<1>. QED BY <1>2, <1>7

LEMMA DroppedFds ==
    ASSUME FSInv, NEW f, desc' = DropCaches(desc, f)
    PROVE  /\ OpenFds' = OpenFds /\ \A g : FdsOf(g)' = FdsOf(g)
           /\ desc' \in Seq(Descriptor \cup {NULL}) /\ Len(desc') <= MaxFds
           /\ \A i \in OpenFds' :
                /\ desc'[i].file = desc[i].file
                /\ desc'[i] = desc[i] \/ Forgets(desc'[i], desc[i])
<1>0. UserFSTypeOK
  BY DEF FSInv
<1>1. Redescribes
  BY DroppedCaches
<1>2. OpenFds' = OpenFds /\ \A i \in OpenFds : desc'[i].file = desc[i].file
  BY <1>0, <1>1, RedescribedFds
<1>3. \A i \in OpenFds :
        desc'[i] = desc[i] \/ Forgets(desc'[i], desc[i])
  BY DroppedCaches
<1>4. \A g : FdsOf(g)' = FdsOf(g)
  BY <1>2 DEF FdsOf
<1>5. desc' \in Seq(Descriptor \cup {NULL}) /\ Len(desc') <= MaxFds
  BY <1>0, <1>1 DEF Redescribes, UserFSTypeOK
<1>. QED BY <1>2, <1>3, <1>4, <1>5

(* delete frees a file that nobody has open ...                            *)
LEMMA DeleteUnusedInv ==
    ASSUME FSInv, NEW f, f \in listed, file[f].refs = 0, FreeFile(f), listed' = listed \ {f},
           desc' = DropCaches(desc, f), Done(0)
    PROVE  FSInv'
<1>0. UserFSTypeOK /\ FilesReachable
  BY DEF FSInv, DescriptorsSound
<1>1. f \in Allocated /\ listed \subseteq Allocated
  BY <1>0 DEF UserFSTypeOK
<1>2. FdsOf(f) = {}
  <2>1. Cardinality(FdsOf(f)) = 0 /\ IsFiniteSet(FdsOf(f))
    BY <1>0, <1>1, ReachableAll, FdsFinite DEF Reachable
  <2>2. PICK S : S = FdsOf(f)
    OBVIOUS
  <2>3. S = {}
    BY <2>1, <2>2, FS_EmptySet
  <2>. QED BY <2>2, <2>3
<1>3. Frees(f)
  <2>1. listed' \subseteq listed /\ f \notin listed'
    OBVIOUS
  <2>. QED BY <1>1, <2>1, FreeFileEffect
<1>4. /\ FilesSound' /\ Allocated' = Allocated \ {f}
      /\ \A g \in Allocated' : file'[g] = file[g] /\ Keeps(g)
      /\ file' \in [Files -> FileRecord \cup {NULL}] /\ heap' \subseteq Blocks
      /\ mem' \in [Blocks -> [Offsets -> Data]]
  BY <1>3 DEF Frees
<1>5. /\ OpenFds' = OpenFds /\ desc' \in Seq(Descriptor \cup {NULL}) /\ Len(desc') <= MaxFds
      /\ \A i \in OpenFds' :
           /\ desc'[i].file = desc[i].file
           /\ desc'[i] = desc[i] \/ Forgets(desc'[i], desc[i])
  BY DroppedFds
<1>6. \A g : FdsOf(g)' = FdsOf(g)
  BY DroppedFds
<1>7. \A j \in OpenFds' : desc'[j].file = desc[j].file /\ desc[j].file \in Allocated'
  <2>. SUFFICES ASSUME NEW j \in OpenFds'
                PROVE  desc'[j].file = desc[j].file /\ desc[j].file \in Allocated'
    OBVIOUS
  <2>1. desc'[j].file = desc[j].file /\ j \in OpenFds
    BY <1>5
  <2>2. desc[j].file # f
    BY <1>2, <2>1 DEF FdsOf
  <2>. QED BY <1>0, <1>4, <2>1, <2>2, DescFacts
<1>8. PositionsInside' /\ CacheExact'
  BY <1>4, <1>5, <1>7, FitsKept DEF Forgets
<1>9. FilesReachable'
  <2>1. ASSUME NEW g \in Allocated' PROVE Reachable(g)'
    <3>1. g # f /\ g \in Allocated /\ file'[g] = file[g]
      BY <1>4
    <3>2. FdsOf(g)' = FdsOf(g)
      BY <1>6
    <3>3. Reachable(g)
      BY <1>0, <3>1, ReachableAll
    <3>. QED BY <3>1, <3>2, <3>3 DEF Reachable
  <2>. QED BY <2>1, ReachableAllPrime
<1>10. /\ errno' \in {"NO_ERR", "NO_FILE", "NO_PERMISSION", "NO_MEM"}
       /\ result' \in [ret : Int, data : Seq(Data)]
  BY DoneType
<1>11. listed' \subseteq Allocated'
  BY <1>1, <1>4
<1>12. UserFSTypeOK'
  BY <1>4, <1>5, <1>7, <1>10, <1>11 DEF UserFSTypeOK
<1>. QED BY <1>4, <1>8, <1>9, <1>12 DEF FSInv, DescriptorsSound

(* ... and leaves one that is open to its last descriptor.                 *)
LEMMA DeleteUsedInv ==
    ASSUME FSInv, NEW f, f \in listed, file[f].refs # 0, listed' = listed \ {f},
           file' = [file EXCEPT ![f].deleted = TRUE], heap' = heap, mem' = mem,
           desc' = DropCaches(desc, f), Done(0)
    PROVE  FSInv'
<1>0. UserFSTypeOK /\ NamesOnce /\ FilesReachable
  BY DEF FSInv, FilesSound, DescriptorsSound
<1>1. f \in Allocated /\ listed \subseteq Allocated
  BY <1>0 DEF UserFSTypeOK
<1>2. f \in Files /\ file[f] \in FileRecord
  BY <1>0, <1>1, FileFacts
<1>3. PICK r : r = [file[f] EXCEPT !.deleted = TRUE] /\ file' = [file EXCEPT ![f] = r]
  BY <1>0, <1>2 DEF UserFSTypeOK
<1>4. /\ r \in FileRecord /\ r.name = file[f].name /\ r.size = file[f].size
      /\ r.blocks = file[f].blocks /\ r.count = file[f].count
      /\ r.refs = file[f].refs /\ r.deleted = TRUE
  BY <1>2, <1>3 DEF FileRecord
<1>5. Relabels(f, r)
  <2>1. r.name = file[f].name /\ r.size = file[f].size /\ r.blocks = file[f].blocks
        /\ r.count = file[f].count
    BY <1>4
  <2>2. r \in FileRecord /\ file' = [file EXCEPT ![f] = r]
    BY <1>3, <1>4
  <2>. QED BY <1>1, <2>1, <2>2, Recounted
<1>6. /\ file' \in [Files -> FileRecord \cup {NULL}] /\ Allocated' = Allocated
      /\ file'[f] = r
      /\ \A g \in Files : g # f => file'[g] = file[g]
      /\ \A g \in Allocated : Keeps(g) /\ file'[g].name = file[g].name
  BY <1>5 DEF Relabels
<1>7. NamesOnce'
  <2>1. \A g \in listed' : file'[g].name = file[g].name /\ g \in listed
    BY <1>1, <1>6
  <2>. QED BY <1>0, <2>1 DEF NamesOnce
<1>8. FilesSound'
  BY <1>6, <1>7, SameBytes
<1>9. /\ OpenFds' = OpenFds /\ desc' \in Seq(Descriptor \cup {NULL}) /\ Len(desc') <= MaxFds
      /\ \A i \in OpenFds' :
           /\ desc'[i].file = desc[i].file
           /\ desc'[i] = desc[i] \/ Forgets(desc'[i], desc[i])
  BY DroppedFds
<1>10. \A g : FdsOf(g)' = FdsOf(g)
  BY DroppedFds
<1>11. \A j \in OpenFds' : desc'[j].file = desc[j].file /\ desc[j].file \in Allocated'
  BY <1>0, <1>6, <1>9, DescFacts
<1>12. PositionsInside' /\ CacheExact'
  BY <1>6, <1>9, <1>11, FitsKept DEF Forgets
<1>13. FilesReachable'
  <2>1. Reachable(f)'
    <3>1. Reachable(f)
      BY <1>0, <1>1, ReachableAll
    <3>2. r.refs = Cardinality(FdsOf(f)') /\ r.refs # 0 /\ f \notin listed'
      BY <1>4, <1>10, <3>1 DEF Reachable
    <3>. QED BY <1>4, <1>6, <3>2 DEF Reachable
  <2>2. ASSUME NEW g \in Allocated, g # f PROVE Reachable(g)'
    <3>1. FdsOf(g)' = FdsOf(g) /\ file'[g] = file[g] /\ (g \in listed' <=> g \in listed)
      BY <1>6, <1>10, <2>2 DEF Allocated
    <3>2. Reachable(g)
      BY <1>0, ReachableAll
    <3>. QED BY <3>1, <3>2 DEF Reachable
  <2>. QED BY <1>6, <2>1, <2>2, ReachableAllPrime
<1>14. /\ errno' \in {"NO_ERR", "NO_FILE", "NO_PERMISSION", "NO_MEM"}
       /\ result' \in [ret : Int, data : Seq(Data)]
  BY DoneType
<1>15. UserFSTypeOK'
  <2>1. listed' \subseteq Allocated'
    BY <1>1, <1>6
  <2>. QED BY <1>0, <1>6, <1>9, <1>11, <1>14, <2>1 DEF UserFSTypeOK
<1>. QED BY <1>8, <1>12, <1>13, <1>15 DEF FSInv, DescriptorsSound

-----------------------------------------------------------------------------
(* ufs_destroy finds every file, by its name or by a descriptor, so that   *)
(* nothing stays allocated.                                                *)
LEMMA DestroyInv ==
    ASSUME FSInv, Destroy
    PROVE  FSInv'
<1>0. UserFSTypeOK /\ FilesReachable
  BY DEF FSInv, DescriptorsSound
<1>. DEFINE gone == {desc[i].file : i \in {j \in 1..Len(desc) : desc[j] # NULL}} \cup listed
<1>1. gone = Allocated
  <2>1. gone \subseteq Allocated
    BY <1>0 DEF UserFSTypeOK, OpenFds
  <2>2. ASSUME NEW f \in Allocated, f \notin listed PROVE \E i \in OpenFds : desc[i].file = f
    <3>1. Reachable(f)
      BY <1>0, ReachableAll
    <3>2. Cardinality(FdsOf(f)) # 0
      BY <2>2, <3>1 DEF Reachable
    <3>3. PICK S : S = FdsOf(f)
      OBVIOUS
    <3>4. S # {}
      BY <3>2, <3>3, FS_EmptySet
    <3>. QED BY <3>3, <3>4 DEF FdsOf
  <2>3. Allocated \subseteq gone
    BY <2>2 DEF OpenFds
  <2>. QED BY <2>1, <2>3
<1>2. /\ desc' = <<>> /\ listed' = {} /\ errno' = "NO_ERR" /\ result' = result
      /\ file' = [f \in Files |-> IF f \in Allocated THEN NULL ELSE file[f]]
      /\ heap' = heap \ UNION {Range(file[f].blocks) : f \in Allocated}
      /\ mem' = [b \in Blocks |-> IF b \in heap' THEN mem[b] ELSE EmptyBlock]
  BY <1>1 DEF Destroy
<1>3. Allocated' = {} /\ file' \in [Files -> FileRecord \cup {NULL}]
  <2>1. \A f \in Files : file'[f] = NULL
    BY <1>2 DEF Allocated
  <2>2. Allocated' = {f \in Files : file'[f] # NULL}
    BY DEF Allocated
  <2>3. file' \in [Files -> FileRecord \cup {NULL}]
    BY <1>2, <2>1
  <2>. QED BY <2>1, <2>2, <2>3
<1>4. NamesOnce'
  BY <1>2 DEF NamesOnce
<1>5. FilesSound' /\ heap' \subseteq Blocks /\ mem' \in [Blocks -> [Offsets -> Data]]
  <2>1. PICK G : G = Allocated
    OBVIOUS
  <2>2. /\ G \subseteq Allocated /\ Allocated' = Allocated \ G
        /\ heap' = heap \ UNION {Range(file[g].blocks) : g \in G}
        /\ \A g \in Allocated' : Keeps(g)
    BY <1>2, <1>3, <2>1
  <2>. QED BY <1>2, <1>4, <2>2, FreedFiles
<1>6. OpenFds' = {} /\ desc' \in Seq(Descriptor \cup {NULL}) /\ Len(desc') <= MaxFds
  <2>1. Len(desc') = 0 /\ desc' \in Seq(Descriptor \cup {NULL})
    BY <1>2
  <2>2. OpenFds' = {i \in 1..Len(desc') : desc'[i] # NULL}
    BY DEF OpenFds
  <2>3. OpenFds' = {}
    BY <2>1, <2>2
  <2>. QED BY <2>1, <2>3, UserFSAssumption
<1>7. DescriptorsSound'
  BY <1>3, <1>6 DEF DescriptorsSound, FilesReachable, PositionsInside, CacheExact
<1>8. UserFSTypeOK'
  BY <1>0, <1>2, <1>3, <1>5, <1>6 DEF UserFSTypeOK
<1>. QED BY <1>5, <1>7, <1>8 DEF FSInv

-----------------------------------------------------------------------------
(* Every call keeps the invariant.                                         *)
LEMMA InitInv ==
    ASSUME Init
    PROVE  FSInv
<1>1. Allocated = {}
  BY DEF Init, Allocated
<1>2. OpenFds = {} /\ desc \in Seq(Descriptor \cup {NULL}) /\ Len(desc) <= MaxFds
  <2>1. desc = <<>> /\ Len(desc) = 0
    BY DEF Init
  <2>2. OpenFds = {}
    BY <2>1 DEF OpenFds
  <2>. QED BY <2>1, <2>2, UserFSAssumption
<1>3. EmptyBlock \in [Offsets -> Data]
  BY UserFSAssumption DEF EmptyBlock
<1>4. UserFSTypeOK
  <2>1. /\ listed \subseteq Allocated /\ heap \subseteq Blocks
        /\ file \in [Files -> FileRecord \cup {NULL}]
        /\ \A i \in OpenFds : desc[i].file \in Allocated
    BY <1>2 DEF Init
  <2>2. mem \in [Blocks -> [Offsets -> Data]]
    BY <1>3 DEF Init
  <2>3. result \in [ret : Int, data : Seq(Data)]
    <3>1. 0 \in Int /\ <<>> \in Seq(Data)
      OBVIOUS
    <3>. QED BY <3>1 DEF Init
  <2>4. errno \in {"NO_ERR", "NO_FILE", "NO_PERMISSION", "NO_MEM"}
    BY DEF Init
  <2>. QED BY <1>2, <2>1, <2>2, <2>3, <2>4 DEF UserFSTypeOK
<1>5. FilesSound
  <2>1. heap = {} /\ listed = {} /\ mem = [b \in Blocks |-> EmptyBlock]
    BY DEF Init
  <2>2. BlocksOwned
    BY <1>1, <2>1 DEF BlocksOwned
  <2>3. BlocksOnce /\ SizesFit /\ RestZero
    BY <1>1 DEF BlocksOnce, SizesFit, RestZero
  <2>4. FreeClean /\ NamesOnce
    BY <2>1 DEF FreeClean, NamesOnce
  <2>. QED BY <2>2, <2>3, <2>4 DEF FilesSound
<1>6. DescriptorsSound
  BY <1>1, <1>2 DEF DescriptorsSound, FilesReachable, PositionsInside, CacheExact
<1>. QED BY <1>4, <1>5, <1>6 DEF FSInv

LEMMA OpenInv ==
    ASSUME FSInv, NEW n \in Names, NEW create \in BOOLEAN, NEW mode \in Modes,
           OpenFile(n, create, mode)
    PROVE  FSInv'
<1>0. mode \in SUBSET {"READ", "WRITE"}
  BY UserFSAssumption
<1>1. CASE Refuse("NO_FILE")
  BY <1>1, Refused
<1>2. CASE /\ Lookup(n) = {}
           /\ \E f \in {g \in Files : file[g] = NULL} :
                /\ file' = [file EXCEPT ![f] =
                     [name |-> n, refs |-> 1, size |-> 0, blocks |-> <<>>, count |-> 0,
                      deleted |-> FALSE]]
                /\ listed' = listed \cup {f}
                /\ AddDescriptor(f, mode)
           /\ UNCHANGED <<heap, mem>>
  <2>1. PICK f \in Files :
          /\ file[f] = NULL
          /\ file' = [file EXCEPT ![f] =
               [name |-> n, refs |-> 1, size |-> 0, blocks |-> <<>>, count |-> 0,
                deleted |-> FALSE]]
          /\ listed' = listed \cup {f}
          /\ AddDescriptor(f, mode)
    BY <1>2
  <2>2. heap' = heap /\ mem' = mem /\ Lookup(n) = {}
    BY <1>2
  <2>. QED BY <1>0, <2>1, <2>2, OpenNewInv
<1>3. CASE /\ \E f \in Lookup(n) :
                /\ file' = [file EXCEPT ![f].refs = @ + 1, ![f].deleted = FALSE]
                /\ AddDescriptor(f, mode)
           /\ UNCHANGED <<listed, heap, mem>>
  <2>1. PICK f \in Lookup(n) :
          /\ file' = [file EXCEPT ![f].refs = @ + 1, ![f].deleted = FALSE]
          /\ AddDescriptor(f, mode)
    BY <1>3
  <2>2. heap' = heap /\ mem' = mem /\ listed' = listed
    BY <1>3
  <2>. QED BY <1>0, <2>1, <2>2, OpenOldInv
<1>. QED BY <1>1, <1>2, <1>3 DEF OpenFile

LEMMA DeleteInv ==
    ASSUME FSInv, NEW n \in Names, Delete(n)
    PROVE  FSInv'
<1>1. CASE Refuse("NO_FILE")
  BY <1>1, Refused
<1>2. CASE \E f \in Lookup(n) :
             /\ listed' = listed \ {f}
             /\ desc' = DropCaches(desc, f)
             /\ IF file[f].refs = 0
                THEN FreeFile(f)
                ELSE file' = [file EXCEPT ![f].deleted = TRUE] /\ UNCHANGED <<heap, mem>>
             /\ Done(0)
  <2>1. PICK f \in Lookup(n) :
          /\ listed' = listed \ {f}
          /\ desc' = DropCaches(desc, f)
          /\ IF file[f].refs = 0
             THEN FreeFile(f)
             ELSE file' = [file EXCEPT ![f].deleted = TRUE] /\ UNCHANGED <<heap, mem>>
          /\ Done(0)
    BY <1>2
  <2>2. f \in listed
    BY DEF Lookup
  <2>3. CASE file[f].refs = 0
    BY <2>1, <2>2, <2>3, DeleteUnusedInv
  <2>4. CASE file[f].refs # 0
    BY <2>1, <2>2, <2>4, DeleteUsedInv
  <2>. QED BY <2>3, <2>4
<1>. QED BY <1>1, <1>2 DEF Delete

LEMMA CloseInv ==
    ASSUME FSInv, NEW fd, Close(fd)
    PROVE  FSInv'
<1>1. CASE Refuse("NO_FILE")
  BY <1>1, Refused
<1>2. CASE ~Refuse("NO_FILE")
  <2>1. fd \in OpenFds
    BY <1>2 DEF Close, ValidFd, OpenFds
  <2>2. PICK f : f = desc[fd].file
    OBVIOUS
  <2>3. /\ desc' = [desc EXCEPT ![fd] = NULL] /\ Done(0) /\ listed' = listed
        /\ IF file[f].refs = 1 /\ file[f].deleted
           THEN FreeFile(f)
           ELSE file' = [file EXCEPT ![f].refs = @ - 1] /\ UNCHANGED <<heap, mem>>
    BY <1>2, <2>2 DEF Close
  <2>4. CASE file[f].refs = 1 /\ file[f].deleted
    BY <2>1, <2>2, <2>3, <2>4, CloseLastInv
  <2>5. CASE ~(file[f].refs = 1 /\ file[f].deleted)
    BY <2>1, <2>2, <2>3, <2>5, CloseOtherInv
  <2>. QED BY <2>4, <2>5
<1>. QED BY <1>1, <1>2

LEMMA AnyReadInv ==
    ASSUME FSInv, NEW fd, NEW n \in ReadSizes, Read(fd, n)
    PROVE  FSInv'
<1>1. CASE Refuse("NO_FILE")
  BY <1>1, Refused
<1>2. CASE Refuse("NO_PERMISSION")
  BY <1>2, Refused
<1>3. CASE ~Refuse("NO_FILE") /\ ~Refuse("NO_PERMISSION")
  <2>1. fd \in OpenFds
    BY <1>3 DEF Read, ValidFd, OpenFds
  <2>2. UNCHANGED <<listed, file, heap, mem>>
    BY <1>3 DEF Read
  <2>3. \/ /\ desc[fd].pos < file[desc[fd].file].size /\ Followable(desc[fd])
           /\ ReadBytes(fd, n)
        \/ Done(0) /\ UNCHANGED desc
    BY <1>3 DEF Read
  <2>4. CASE /\ desc[fd].pos < file[desc[fd].file].size /\ Followable(desc[fd])
             /\ ReadBytes(fd, n)
    BY <2>1, <2>2, <2>4, ReadInv
  <2>5. CASE Done(0) /\ UNCHANGED desc
    <3>1. /\ errno' \in {"NO_ERR", "NO_FILE", "NO_PERMISSION", "NO_MEM"}
          /\ result' \in [ret : Int, data : Seq(Data)]
      BY <2>5, DoneType
    <3>2. UNCHANGED <<listed, file, heap, mem, desc>>
      BY <2>2, <2>5
    <3>. QED BY <3>1, <3>2, SameState
  <2>. QED BY <2>3, <2>4, <2>5
<1>. QED BY <1>1, <1>2, <1>3

LEMMA AnyWriteInv ==
    ASSUME FSInv, NEW fd, NEW buf \in Buffers, Write(fd, buf)
    PROVE  FSInv'
<1>1. CASE Refuse("NO_FILE")
  BY <1>1, Refused
<1>2. CASE Refuse("NO_PERMISSION")
  BY <1>2, Refused
<1>3. CASE Refuse("NO_MEM")
  BY <1>3, Refused
<1>4. CASE Done(0) /\ UNCHANGED <<listed, file, heap, mem, desc>>
  <2>1. /\ errno' \in {"NO_ERR", "NO_FILE", "NO_PERMISSION", "NO_MEM"}
        /\ result' \in [ret : Int, data : Seq(Data)]
    BY <1>4, DoneType
  <2>. QED BY <1>4, <2>1, SameState
<1>5. CASE /\ ValidFd(fd) /\ buf # <<>> /\ desc[fd].pos + Len(buf) <= MaxSize
           /\ Followable(desc[fd]) /\ WriteBytes(fd, buf)
  <2>1. fd \in OpenFds /\ buf \in Seq(Data) \ {<<>>}
    BY <1>5, UserFSAssumption DEF ValidFd, OpenFds
  <2>. QED BY <1>5, <2>1, WriteInv
<1>. QED BY <1>1, <1>2, <1>3, <1>4, <1>5 DEF Write

LEMMA ResizeInv ==
    ASSUME FSInv, NEW fd, NEW n \in NewSizes, Resize(fd, n)
    PROVE  FSInv'
<1>1. CASE Refuse("NO_FILE")
  BY <1>1, Refused
<1>2. CASE Refuse("NO_PERMISSION")
  BY <1>2, Refused
<1>3. CASE Refuse("NO_MEM")
  BY <1>3, Refused
<1>4. CASE /\ ValidFd(fd) /\ n <= MaxSize
           /\ LET f == desc[fd].file IN
                /\ \/ n > file[f].size /\ Grow(f, n)
                   \/ n < file[f].size /\ Shrink(f, n)
                   \/ n = file[f].size /\ UNCHANGED <<file, heap, mem>>
                /\ desc' = Clamp(f, n, heap \ heap')
           /\ Done(0)
           /\ UNCHANGED listed
  <2>1. fd \in OpenFds /\ n \in Nat
    BY <1>4, UserFSAssumption DEF ValidFd, OpenFds
  <2>2. PICK f : f = desc[fd].file
    OBVIOUS
  <2>3. f \in Allocated
    BY <2>1, <2>2, DescFacts DEF FSInv
  <2>4. /\ \/ n > file[f].size /\ Grow(f, n)
           \/ n < file[f].size /\ Shrink(f, n)
           \/ n = file[f].size /\ UNCHANGED <<file, heap, mem>>
        /\ desc' = Clamp(f, n, heap \ heap') /\ Done(0) /\ listed' = listed /\ n <= MaxSize
    BY <1>4, <2>2
  <2>5. CASE n > file[f].size /\ Grow(f, n)
    BY <2>1, <2>3, <2>4, <2>5, GrowInv
  <2>6. CASE n < file[f].size /\ Shrink(f, n)
    BY <2>1, <2>3, <2>4, <2>6, ShrinkInv
  <2>7. CASE n = file[f].size /\ UNCHANGED <<file, heap, mem>>
    BY <2>3, <2>4, <2>7, SameSizeInv
  <2>. QED BY <2>4, <2>5, <2>6, <2>7
<1>. QED BY <1>1, <1>2, <1>3, <1>4 DEF Resize

LEMMA NextInv ==
    ASSUME FSInv, [Next]_vars
    PROVE  FSInv'
<1>1. ASSUME NEW n \in Names, NEW create \in BOOLEAN, NEW mode \in Modes,
             OpenFile(n, create, mode)
      PROVE  FSInv'
  BY <1>1, OpenInv
<1>2. ASSUME NEW n \in Names, Delete(n) PROVE FSInv'
  BY <1>2, DeleteInv
<1>3. ASSUME NEW fd \in 0..MaxFds, Close(fd) PROVE FSInv'
  BY <1>3, CloseInv
<1>4. ASSUME NEW fd \in 0..MaxFds, NEW n \in ReadSizes, Read(fd, n) PROVE FSInv'
  BY <1>4, AnyReadInv
<1>5. ASSUME NEW fd \in 0..MaxFds, NEW buf \in Buffers, Write(fd, buf) PROVE FSInv'
  BY <1>5, AnyWriteInv
<1>6. ASSUME NEW fd \in 0..MaxFds, NEW n \in NewSizes, Resize(fd, n) PROVE FSInv'
  BY <1>6, ResizeInv
<1>7. ASSUME Destroy PROVE FSInv'
  BY <1>7, DestroyInv
<1>8. ASSUME UNCHANGED vars PROVE FSInv'
  <2>1. /\ errno' \in {"NO_ERR", "NO_FILE", "NO_PERMISSION", "NO_MEM"}
        /\ result' \in [ret : Int, data : Seq(Data)]
        /\ UNCHANGED <<listed, file, heap, mem, desc>>
    BY <1>8 DEF vars, FSInv, UserFSTypeOK
  <2>. QED BY <2>1, SameState
<1>. QED BY <1>1, <1>2, <1>3, <1>4, <1>5, <1>6, <1>7, <1>8 DEF Next

-----------------------------------------------------------------------------
(* What the invariant says of the caches and of the rest of a block.       *)
LEMMA InvCacheValid ==
    ASSUME FSInv
    PROVE  CacheValid
<1>. SUFFICES ASSUME NEW i \in OpenFds, NEW d, d = desc[i], d.cur # NULL,
                     NEW s, s = file[d.file].blocks
              PROVE  \/ d.idx \in 0..Len(s) - 1 /\ s[d.idx + 1] = d.cur /\ d.cur \in heap
                     \/ d.cur = Dangling /\ 0 \in ReadSizes /\ d.pos = d.idx * BlockSize
  BY DEF CacheValid
<1>1. PICK g : g = file[d.file] /\ s = g.blocks
  OBVIOUS
<1>2. /\ d.file \in Allocated /\ d.pos \in Nat /\ g.size \in Nat
      /\ Len(g.blocks) = BlocksFor(g.size) /\ Fits(d, g)
  BY <1>1, OpenDescriptor
<1>3. CASE d.cur = Dangling
  BY <1>2, <1>3 DEF Fits, CacheFits, Ahead
<1>4. CASE d.cur # Dangling
  <2>1. d.idx \in Nat /\ d.idx < Len(s) /\ s[d.idx + 1] = d.cur
    BY <1>1, <1>2, <1>4, CachedPlace
  <2>2. s \in Seq(Blocks) /\ Len(s) \in Nat /\ Range(s) \subseteq heap
    BY <1>1, <1>2, OwnBlocks
  <2>3. d.idx \in 0..Len(s) - 1 /\ s[d.idx + 1] \in Range(s)
    BY <2>1, <2>2 DEF Range
  <2>. QED BY <2>1, <2>2, <2>3
<1>. QED BY <1>3, <1>4

LEMMA InvZeroTail ==
    ASSUME FSInv
    PROVE  ZeroTail
<1>0. UserFSTypeOK /\ SizesFit /\ RestZero
  BY DEF FSInv, FilesSound
<1>1. SUFFICES ASSUME NEW f \in Allocated, NEW s, s = file[f].blocks,
                      NEW t, t = file[f].size % BlockSize, t # 0, NEW o \in t..BlockSize - 1
               PROVE  mem[s[Len(s)]][o] = Zero
  BY DEF ZeroTail
<1>2. BlockSize \in Nat \ {0}
  BY UserFSAssumption
<1>3. PICK n \in Nat : n = file[f].size /\ t = n % BlockSize
  BY <1>0, <1>1, FileFacts
<1>4. PICK q \in Nat : q = n \div BlockSize /\ Len(s) = q + 1 /\ t \in Nat
  <2>1. BlocksFor(n) = n \div BlockSize + 1
    BY <1>1, <1>3, BlocksForSize
  <2>2. n \div BlockSize \in Nat /\ t \in Nat
    BY <1>3, DivMod DEF Offsets
  <2>. QED BY <1>0, <1>1, <1>3, <2>1, <2>2 DEF SizesFit
<1>5. o \in Offsets /\ o \in Nat /\ o >= t
  BY <1>2, <1>4 DEF Offsets
<1>6. PICK p \in Nat : p = q * BlockSize + o /\ p \div BlockSize = q /\ p % BlockSize = o
  BY <1>5, DivUnique
<1>7. p >= n
  <2>1. PICK m \in Int : m = q * BlockSize
    BY <1>2
  <2>2. n = m + t
    <3>1. n = (n \div BlockSize) * BlockSize + (n % BlockSize)
      BY DivMod
    <3>. QED BY <1>3, <1>4, <2>1, <3>1
  <2>. QED BY <1>4, <1>5, <1>6, <2>1, <2>2
<1>8. ZeroFrom(mem, s, n)
  BY <1>0, <1>1, <1>3 DEF RestZero
<1>9. Spell(mem, s, p) = Zero
  <2>1. p \div BlockSize < Len(s)
    BY <1>4, <1>6
  <2>. QED BY <1>7, <1>8, <2>1 DEF ZeroFrom
<1>. QED BY <1>4, <1>6, <1>9 DEF Spell

(* The inductive invariant holds in every state.                           *)
THEOREM FSInvariant == Spec => []FSInv
<1>1. Init => FSInv
  BY InitInv
<1>2. FSInv /\ [Next]_vars => FSInv'
  BY NextInv
<1>. QED BY <1>1, <1>2, PTL DEF Spec

(* Whatever is deleted, truncated, closed or written through other         *)
(* descriptors, a cached block pointer leads to the live block of the file *)
(* at the index remembered with it - but for a descriptor that has read    *)
(* zero bytes at the start of a block, once a resize to exactly its        *)
(* position frees that block; and no other descriptor ever has such a      *)
(* pointer.                                                                *)
THEOREM CachesAreValid == Spec => []CacheValid
<1>1. FSInv => CacheValid
  BY InvCacheValid
<1>. QED BY <1>1, FSInvariant, PTL

(* Every block belongs to one file, every file can be reached and has the  *)
(* blocks its size needs, the rest of the last one being zero: no call     *)
(* leaks memory, frees it twice, or uncovers old bytes when a file grows.  *)
THEOREM BlocksAreSound == Spec => []BlocksSound
<1>1. FSInv => BlocksSound
  BY InvZeroTail
     DEF FSInv, FilesSound, DescriptorsSound, BlocksSound, NoLeak, TailClean
<1>. QED BY <1>1, FSInvariant, PTL

=============================================================================
