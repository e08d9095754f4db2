---------------------------- MODULE MCIndexArray ----------------------------
(***************************************************************************)
(* A small instance of IndexArray for TLC.                                 *)
(***************************************************************************)
EXTENDS IndexArray
=============================================================================
