----------------------------- MODULE MCFsx492Tree -----------------------------
(* Small instances of Fsx492 for TLC.                                       *)
EXTENDS Fsx492, TLC

CONSTANTS f, g          \* two names that nobody has at first

Alike == Permutations({f, g})
================================================================================
