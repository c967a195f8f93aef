------------------------------- MODULE MCWsTree -------------------------------
(***************************************************************************)
(* Small instances of WsTree for TLC.                                      *)
(***************************************************************************)
EXTENDS WsTree

\* A variable whose two ranges are all there is, and others with a rest.
MCWeight == [v \in DBVars |-> CASE v = 1 -> <<<<1, 2>>, <<1, 2>>>>
                                [] v = 2 -> <<<<1, 3>>, <<1, 2>>>>
                                [] v = 3 -> <<<<2, 3>>>>]
=============================================================================
