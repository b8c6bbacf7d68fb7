---------------------------- MODULE MCThreadPool ----------------------------
(* Instances of the thread pool for TLC.                                   *)
EXTENDS ThreadPool, TLC

PoolSymmetry ==
    Permutations(Pools) \cup Permutations(Tasks)
        \cup Permutations(Workers) \cup Permutations(Clients)
=============================================================================
