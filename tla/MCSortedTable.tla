--------------------------- MODULE MCSortedTable ---------------------------
(***************************************************************************)
(* Small instances of SortedTable for TLC.                                 *)
(***************************************************************************)
EXTENDS SortedTable, TLC

CONSTANTS t1, t2, t3

Symmetry == Permutations(Thread)
=============================================================================
