----------------------------- MODULE MCScullApps -----------------------------
(* Small instances of ScullApps for TLC.                                   *)
EXTENDS ScullApps

(* What memory holds before anybody writes it: read as a length, it is     *)
(* negative.                                                               *)
WildWords == {-1}
=============================================================================
