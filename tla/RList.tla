------------------------------- MODULE RList -------------------------------
(***************************************************************************)
(* The intrusive list of utils/rlist.h at the level of its pointers.  A    *)
(* list is a circle of nodes through its head; an item holds the links but *)
(* does not know which list it is in.  The operators named after the C     *)
(* functions map the links before a call to the links after it; an action  *)
(* is one call made by a user of the library, or one turn of a foreach     *)
(* loop.                                                                   *)
(*                                                                         *)
(* Users keep the header's rules: an item is added only when it is in no   *)
(* list, only initialised items are deleted or moved, shift needs a        *)
(* non-empty list, and the body of a loop changes the list only by taking  *)
(* the current item out of it, in a loop that is "safe against removal".   *)
(***************************************************************************)
EXTENDS Integers, Sequences, FiniteSets, SequencesExt

CONSTANTS Heads, Items, NULL

ASSUME RListAssumption ==
    Heads \cap Items = {} /\ NULL \notin Heads \cup Items

VARIABLES
    links,  \* struct rlist of every head and item
    loop,   \* the running foreach loop: its head, kind, item and tmp
    ret,    \* the entry the last call returned, the loop's item in a loop
    call    \* the last call: its name and arguments, as its user sees it

vars == <<links, loop, ret, call>>

Nodes == Heads \cup Items
Fields == [prev : Nodes \cup {NULL}, next : Nodes \cup {NULL}]
Kinds == {"plain", "reverse", "safe", "safe_reverse"}
Idle == [head |-> NULL, kind |-> "plain", tmp |-> NULL]

-----------------------------------------------------------------------------
(* The C functions.                                                        *)
Create(l, n) == [l EXCEPT ![n] = [prev |-> n, next |-> n]]

(* Make b follow a.                                                        *)
Link(l, a, b) == [l EXCEPT ![a].next = b, ![b].prev = a]

Unlinked(l, i) == Link(l, l[i].prev, l[i].next)

Add(l, h, i) == Link(Link(l, i, l[h].next), h, i)
AddTail(l, h, i) == Link(Link(l, l[h].prev, i), i, h)

Del(l, i) == Create(Unlinked(l, i), i)

Shift(l, h) ==
    LET i == l[h].next IN Create(Link(l, h, l[i].next), i)
ShiftTail(l, h) == Del(l, l[h].prev)

Empty(l, n) == l[n].next = l[n].prev /\ l[n].next = n

MoveTo(l, h, i) == Add(Del(l, i), h, i)
MoveTail(l, h, i) == AddTail(Unlinked(l, i), h, i)

(* Mutant: an empty list is not treated specially.                         *)
MutantRelink(l, n, other) == Link(Link(l, n, l[n].next), l[n].prev, n)

(* A head that took over the links of another one claims its neighbours.   *)
Relink(l, n, other) ==
    LET m == IF l[n].next = other THEN [l EXCEPT ![n].next = n] ELSE l
        k == [m EXCEPT ![m[n].next].prev = n]
    IN  [k EXCEPT ![k[n].prev].next = n]

SwapHeads(l, rhs, lhs) ==
    Relink(Relink([l EXCEPT ![rhs] = l[lhs], ![lhs] = l[rhs]], lhs, rhs), rhs, lhs)

Splice(l, g, h) ==
    IF Empty(l, h) THEN l
    ELSE Create(Link(Link(l, l[h].prev, l[g].next), g, l[h].next), h)

SpliceTail(l, g, h) ==
    IF Empty(l, h) THEN l
    ELSE Create(Link(Link(l, l[g].prev, l[h].next), l[h].prev, g), h)

CutBefore(l, g, h, item) ==
    IF l[g].next = item THEN Create(l, g)
    ELSE LET k == Link(l, g, l[h].next)
         IN  Link(Link(k, k[item].prev, g), h, item)

(* rlist_next_entry or rlist_prev_entry, by the kind of the loop.          *)
Following(l, kind, n) ==
    IF kind \in {"plain", "safe"} THEN l[n].next ELSE l[n].prev

-----------------------------------------------------------------------------
(* The nodes met from n until head h, in one direction.                    *)
Walk(l, kind, h, n) ==
    LET met[k \in 0..Cardinality(Items)] ==
            IF k = 0 THEN n
            ELSE IF met[k - 1] \in {h, NULL} THEN met[k - 1]
            ELSE Following(l, kind, met[k - 1])
    IN  SelectSeq([k \in 1..Cardinality(Items) |-> met[k - 1]], LAMBDA m : m \in Items)

Listed(h) == Walk(links, "plain", h, links[h].next)
InList(i) == \E h \in Heads : i \in Range(Listed(h))
SelfLinked(i) == links[i] = [prev |-> i, next |-> i]

(* The rules of the users.                                                 *)
MayAdd(i) == ~InList(i)
MayUnlink(i) == InList(i) \/ SelfLinked(i)
InBody(i) == loop.kind \in {"safe", "safe_reverse"} /\ ret = i
OutsideLoop == loop = Idle
MayMove(h, i) == MayUnlink(i) /\ (OutsideLoop \/ (InBody(i) /\ h # loop.head))

(* A call that returns nothing.                                            *)
Call(l) == links' = l /\ ret' = (IF OutsideLoop THEN NULL ELSE ret) /\ UNCHANGED loop

-----------------------------------------------------------------------------
AddEntry(h, i) == OutsideLoop /\ MayAdd(i) /\ Call(Add(links, h, i))
AddTailEntry(h, i) == OutsideLoop /\ MayAdd(i) /\ Call(AddTail(links, h, i))

DelEntry(i) == (OutsideLoop \/ InBody(i)) /\ MayUnlink(i) /\ Call(Del(links, i))

MoveEntry(h, i) == MayMove(h, i) /\ Call(MoveTo(links, h, i))
MoveTailEntry(h, i) == MayMove(h, i) /\ Call(MoveTail(links, h, i))

ShiftEntry(h) ==
    /\ OutsideLoop /\ ~Empty(links, h)
    /\ links' = Shift(links, h)
    /\ ret' = links[h].next
    /\ UNCHANGED loop

ShiftTailEntry(h) ==
    /\ OutsideLoop /\ ~Empty(links, h)
    /\ links' = ShiftTail(links, h)
    /\ ret' = links[h].prev
    /\ UNCHANGED loop

HeadCreate(h) == OutsideLoop /\ Call(Create(links, h))
ListSwap(g, h) == OutsideLoop /\ g # h /\ Call(SwapHeads(links, g, h))
ListSplice(g, h) == OutsideLoop /\ g # h /\ Call(Splice(links, g, h))
ListSpliceTail(g, h) == OutsideLoop /\ g # h /\ Call(SpliceTail(links, g, h))
ListCutBefore(g, h, n) ==
    OutsideLoop /\ g # h /\ n \in Range(Listed(h)) \cup {h} /\ Call(CutBefore(links, g, h, n))

(* The loop is at node n; the safe loops have read its successor already.  *)
At(h, kind, n) ==
    /\ links' = links
    /\ IF n = h
       THEN loop' = Idle /\ ret' = NULL
       ELSE /\ ret' = n
            /\ loop' = [head |-> h, kind |-> kind,
                        tmp |-> IF kind \in {"safe", "safe_reverse"}
                                THEN Following(links, kind, n) ELSE NULL]

(* Mutant: the safe loop reads the successor after the body.               *)
MutantUpcoming ==
    Following(links, loop.kind, ret)

(* The node the loop goes to next.                                         *)
Upcoming ==
    IF loop.kind \in {"safe", "safe_reverse"} THEN loop.tmp
    ELSE Following(links, loop.kind, ret)

Foreach(h, kind) == OutsideLoop /\ At(h, kind, Following(links, kind, h))
ForeachNext == ~OutsideLoop /\ At(loop.head, loop.kind, Upcoming)

Init ==
    /\ links = [n \in Nodes |-> IF n \in Heads THEN [prev |-> n, next |-> n]
                                ELSE [prev |-> NULL, next |-> NULL]]
    /\ loop = Idle
    /\ ret = NULL
    /\ call = <<>>

Next ==
    \/ \E h \in Heads, i \in Items :
         \/ call' = <<"add", h, i>> /\ AddEntry(h, i)
         \/ call' = <<"add_tail", h, i>> /\ AddTailEntry(h, i)
         \/ call' = <<"move", h, i>> /\ MoveEntry(h, i)
         \/ call' = <<"move_tail", h, i>> /\ MoveTailEntry(h, i)
    \/ \E i \in Items : call' = <<"del", i>> /\ DelEntry(i)
    \/ \E h \in Heads :
         \/ call' = <<"shift", h>> /\ ShiftEntry(h)
         \/ call' = <<"shift_tail", h>> /\ ShiftTailEntry(h)
         \/ call' = <<"create", h>> /\ HeadCreate(h)
    \/ \E g, h \in Heads :
         \/ call' = <<"swap", g, h>> /\ ListSwap(g, h)
         \/ call' = <<"splice", g, h>> /\ ListSplice(g, h)
         \/ call' = <<"splice_tail", g, h>> /\ ListSpliceTail(g, h)
         \/ \E n \in Nodes : call' = <<"cut_before", g, h, n>> /\ ListCutBefore(g, h, n)
    \/ \E h \in Heads, kind \in Kinds : call' = <<"foreach", h, kind>> /\ Foreach(h, kind)
    \/ call' = <<"next">> /\ ForeachNext

Spec == Init /\ [][Next]_vars

-----------------------------------------------------------------------------
RListTypeOK ==
    /\ links \in [Nodes -> Fields]
    /\ loop.head \in Heads \cup {NULL} /\ loop.kind \in Kinds
    /\ loop.tmp \in Nodes \cup {NULL}
    /\ ret \in Items \cup {NULL}

(* Every list can be walked both ways: following prev from the head gives  *)
(* the items that next gives, in reverse, and every item only once and in  *)
(* one list.  rlist_del relies on this, as it never sees the head.         *)
WellLinked ==
    /\ RListTypeOK
    /\ \A h \in Heads :
         /\ Walk(links, "reverse", h, links[h].prev) = Reverse(Listed(h))
         /\ IsInjective(Listed(h))
    /\ \A g, h \in Heads : g # h => Range(Listed(g)) \cap Range(Listed(h)) = {}

(* The pointer operations do to the lists what the header says of them,    *)
(* the empty list and the only item included, and a loop visits every item *)
(* the list had when it began exactly once, in order, even when its body   *)
(* unlinks the item it is at.  As both specifications record the call, each*)
(* one implements its namesake.                                            *)
Seqs == INSTANCE Lists WITH
    list <- [h \in Heads |-> Listed(h)],
    todo <- IF OutsideLoop THEN <<>> ELSE Walk(links, loop.kind, loop.head, Upcoming),
    out <- ret
ImplementsLists == Seqs!ListsSpec
=============================================================================
