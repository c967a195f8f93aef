---------------------------- MODULE MCLocalCond ----------------------------
(***************************************************************************)
(* Small instances of LocalCond for TLC.                                   *)
(***************************************************************************)
EXTENDS LocalCond
=============================================================================
