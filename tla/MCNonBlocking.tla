--------------------------- MODULE MCNonBlocking ---------------------------
(***************************************************************************)
(* Small instances of NonBlocking for TLC.                                 *)
(***************************************************************************)
EXTENDS NonBlocking, TLC

CONSTANTS t1, t2, t3

Symmetry == Permutations({t1, t2, t3})

=============================================================================
