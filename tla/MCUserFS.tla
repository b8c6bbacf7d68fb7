------------------------------ MODULE MCUserFS ------------------------------
(* Instances of the file system for TLC.                                   *)
EXTENDS UserFS, TLC

FSSymmetry == Permutations(Files) \cup Permutations(Blocks)

(* errno, result and call are outputs: every call sets them and none reads *)
(* them, so states that differ only there have the same future.            *)
WithoutOutputs == <<listed, file, heap, mem, desc>>

SomeBuffers == {<<>>, <<"a">>, <<"0", "a", "a">>}
=============================================================================
