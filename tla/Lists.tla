------------------------------- MODULE Lists -------------------------------
(***************************************************************************)
(* What utils/rlist.h offers its users: lists as sequences, an item in at  *)
(* most one of them, and loops that visit every item of a list once.       *)
(***************************************************************************)
EXTENDS Sequences, SequencesExt

CONSTANTS Heads, Items, Kinds, NULL

VARIABLES
    list,   \* the items of each list, in order
    todo,   \* the items a running loop has still to visit
    out,    \* the entry that the last call returned or the loop is at
    call    \* the last call: its name and arguments

absVars == <<list, todo, out, call>>

AbsInit == list = [h \in Heads |-> <<>>] /\ todo = <<>> /\ out = NULL /\ call = <<>>

Free(i) == \A h \in Heads : i \notin Range(list[h])
Without(i) == [h \in Heads |-> SelectSeq(list[h], LAMBDA j : j # i)]

(* A call that changes the lists and returns nothing.                      *)
Becomes(l) == list' = l /\ out' \in {out, NULL} /\ UNCHANGED todo

Insert(h, i) == Free(i) /\ Becomes([list EXCEPT ![h] = <<i>> \o @])
InsertLast(h, i) == Free(i) /\ Becomes([list EXCEPT ![h] = Append(@, i)])
TakeOut(i) == Becomes(Without(i))
Move(h, i) == Becomes([Without(i) EXCEPT ![h] = <<i>> \o @])
MoveLast(h, i) == Becomes([Without(i) EXCEPT ![h] = Append(@, i)])
Swap(g, h) == Becomes([list EXCEPT ![g] = list[h], ![h] = list[g]])
Prepend(g, h) == g # h /\ Becomes([list EXCEPT ![g] = list[h] \o @, ![h] = <<>>])
Concat(g, h) == g # h /\ Becomes([list EXCEPT ![g] = @ \o list[h], ![h] = <<>>])

(* The first k items of h become list g, whose own items are dropped.      *)
CutAt(g, h, k) ==
    /\ g # h
    /\ Becomes([list EXCEPT ![g] = SubSeq(list[h], 1, k),
                            ![h] = SubSeq(list[h], k + 1, Len(list[h]))])

TakeFirst(h) ==
    /\ list[h] # <<>>
    /\ out' = Head(list[h])
    /\ list' = [list EXCEPT ![h] = Tail(@)]
    /\ UNCHANGED todo

TakeLast(h) ==
    /\ list[h] # <<>>
    /\ out' = Last(list[h])
    /\ list' = [list EXCEPT ![h] = Front(@)]
    /\ UNCHANGED todo

(* A loop over h in one of the two directions, and its next item or end.   *)
Visit(s) ==
    /\ UNCHANGED list
    /\ IF s = <<>> THEN out' = NULL /\ todo' = <<>> ELSE out' = Head(s) /\ todo' = Tail(s)
Loop(h, kind) == Visit(IF kind \in {"plain", "safe"} THEN list[h] ELSE Reverse(list[h]))
LoopStep == Visit(todo)

(* rlist_create of a list that may have items drops them.                  *)
Clear(h) == Becomes([list EXCEPT ![h] = <<>>])

AbsNext ==
    \/ \E h \in Heads, i \in Items :
         \/ call' = <<"add", h, i>> /\ Insert(h, i)
         \/ call' = <<"add_tail", h, i>> /\ InsertLast(h, i)
         \/ call' = <<"move", h, i>> /\ Move(h, i)
         \/ call' = <<"move_tail", h, i>> /\ MoveLast(h, i)
    \/ \E i \in Items : call' = <<"del", i>> /\ TakeOut(i)
    \/ \E g, h \in Heads :
         \/ call' = <<"swap", g, h>> /\ Swap(g, h)
         \/ call' = <<"splice", g, h>> /\ Prepend(g, h)
         \/ call' = <<"splice_tail", g, h>> /\ Concat(g, h)
         \/ \E k \in 0..Len(list[h]) :
              /\ call' = <<"cut_before", g, h, IF k < Len(list[h]) THEN list[h][k + 1] ELSE h>>
              /\ CutAt(g, h, k)
    \/ \E h \in Heads :
         \/ call' = <<"shift", h>> /\ TakeFirst(h)
         \/ call' = <<"shift_tail", h>> /\ TakeLast(h)
         \/ call' = <<"create", h>> /\ Clear(h)
         \/ \E kind \in Kinds : call' = <<"foreach", h, kind>> /\ Loop(h, kind)
    \/ call' = <<"next">> /\ LoopStep

ListsSpec == AbsInit /\ [][AbsNext]_absVars
=============================================================================
