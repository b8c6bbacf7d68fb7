------------------------------ MODULE MCRList ------------------------------
(* Instances of the intrusive list for TLC.                                *)
EXTENDS RList, TLC

ListSymmetry == Permutations(Heads) \cup Permutations(Items)

(* call is an output: every step sets it and none reads it.                *)
WithoutCall == <<links, loop, ret>>
=============================================================================
