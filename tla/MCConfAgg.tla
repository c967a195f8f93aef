---------------------------- MODULE MCConfAgg ----------------------------
(***************************************************************************)
(* Small instances of ConfAgg for TLC: statements with one or two nodes.   *)
(***************************************************************************)
EXTENDS ConfAgg

\* One aggregate per node; the later ones with a single group.
PlainAggs == [nd \in Nodes |-> CASE nd = 1 -> <<"exact">>
                                 [] nd = 2 -> <<"manyscan">>
                                 [] nd = 3 -> <<"appro">>
                                 [] nd = 4 -> <<"aconf">>
                                 [] nd = 5 -> <<"onescan">>]
PlainGroups == [nd \in Nodes |-> IF nd <= 2 THEN 2 ELSE 1]

TwoGroups == [nd \in Nodes |-> 2]

\* Exact confidence only.
GeneralAggs == [nd \in Nodes |-> <<"exact">>]

\* select aconf(e, d), conf(): conf() is left without arguments.
MultipleAggs == [nd \in Nodes |-> <<"aconf", "conf0">>]

\* The operator for a hierarchical query with the 1scan property.
OneScanAggs == [nd \in Nodes |-> <<"onescan">>]
=============================================================================
