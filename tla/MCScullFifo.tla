----------------------------- MODULE MCScullFifo -----------------------------
(* Small instances of ScullFifo for TLC.                                   *)
EXTENDS ScullFifo, TLC

(* Users whose writes can always be read: the behaviours of Spec when      *)
(* WriteMayFail is FALSE.  The write that fails is in the run apps.        *)
ReadableWrites ==
    Init /\ [][ \/ \E r \in Readers : RBegin(r) \/ ReadStep(r) \/ ReadFault(r)
                \/ \E w \in Writers : \/ WBegin(w) \/ WriteStep(w)
                                      \/ WDownSignal(w) \/ WLockSignal(w) ]_vars

(* The properties checked with it treat all readers alike, and all writers. *)
Symmetric == Permutations(Readers) \cup Permutations(Writers)
=============================================================================
