------------------------------- MODULE MCChat -------------------------------
(* Instances of the chat for TLC.                                          *)
EXTENDS Chat

Two == {"ann", "bob"}
OwnName == [c \in Two |-> <<c>>]

(* Lines that are cut between feeds, and one that is trimmed to nothing.   *)
Pieces == {<<"x", NewLine>>, <<NewLine, "y">>}
=============================================================================
