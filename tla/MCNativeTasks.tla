---------------------------- MODULE MCNativeTasks ----------------------------
(* Instances of NativeTasks for TLC: one of two conversations that edit the   *)
(* same file may continue the other afresh, and their turns claim reviews; a  *)
(* third one reads, in an independent stage.                                  *)
EXTENDS NativeTasks, TLC

CONSTANTS one, other, reader

Editing == {one, other}
Reading == {reader}
Conversations == Editing \union Reading
OneFile == [c \in Conversations |-> IF c \in Editing THEN {"file"} ELSE {}]
Alike == Permutations(Editing)
=============================================================================
