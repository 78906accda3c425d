------------------------------- MODULE MCFsx492 -------------------------------
(* Fsx492Shell for TLC: a local file of a block and a half, which takes a   *)
(* direct and an indirect block, and one that reaches the third level.      *)
EXTENDS Fsx492Shell

CONSTANTS short, long

TwoLocals   == {short, long}
TwoContents == [l \in TwoLocals |-> IF l = short THEN <<1, 2, 3>> ELSE <<4, 5, 6, 7, 8, 9, 10>>]
================================================================================
