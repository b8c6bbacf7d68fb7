----------------------------- MODULE MCHeapHelp -----------------------------
(* Instances of the leak detector for TLC.                                 *)
EXTENDS HeapHelp, TLC

HeapSymmetry == Permutations(Threads) \cup Permutations(Addrs)
=============================================================================
