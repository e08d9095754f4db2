----------------------------- MODULE MCKeyValue -----------------------------
(***************************************************************************)
(* Small instances of KeyValue for TLC.                                    *)
(***************************************************************************)
EXTENDS KeyValue, TLC

CONSTANTS t1, t2, t3

Symmetry == Permutations(Thread)
=============================================================================
