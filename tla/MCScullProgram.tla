--------------------------- MODULE MCScullProgram ---------------------------
(* Values for the constants of ScullProgram: tests with two workers.       *)
EXTENDS ScullProgram

CONSTANTS w1, w2

TwoWorkers == <<w1, w2>>
AllTasks   == {Main, w1, w2}
=============================================================================
