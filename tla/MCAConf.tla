------------------------------- MODULE MCAConf -------------------------------
(***************************************************************************)
(* Small instances of AConf for TLC.                                       *)
(***************************************************************************)
EXTENDS AConf

\* A complete variable and two with missing ranges.
MCWeight == [v \in DBVars |-> CASE v = 1 -> <<<<1, 2>>, <<1, 2>>>>
                                [] v = 2 -> <<<<1, 3>>, <<1, 2>>>>
                                [] v = 3 -> <<<<2, 3>>>>]

One == <<1, 1>>
Two == <<2, 1>>
Quarter == <<1, 4>>
=============================================================================
