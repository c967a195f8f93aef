------------------------------- MODULE MCDTree -------------------------------
(***************************************************************************)
(* Small instances of DTree for TLC.                                       *)
(***************************************************************************)
EXTENDS DTree

\* Tuple-independent relations: one range per variable.
OneRange == [v \in DBVars |-> CASE v = 1 -> <<<<1, 2>>>>
                                [] v = 2 -> <<<<1, 4>>>>
                                [] v = 3 -> <<<<1, 2>>>>
                                [] v = 4 -> <<<<3, 4>>>>]

\* Variables with alternatives, the first without a rest.
TwoRanges == [v \in DBVars |-> CASE v = 1 -> <<<<1, 2>>, <<1, 2>>>>
                                 [] v = 2 -> <<<<1, 4>>, <<1, 2>>>>
                                 [] v = 3 -> <<<<1, 2>>>>]

\* Alternatives of different probability.
WideRanges == [v \in DBVars |-> IF v = 1 THEN <<<<1, 2>>, <<1, 2>>>> ELSE <<<<1, 4>>, <<3, 4>>>>]

\* The maps of a tuple come from relations in their order.
Ordered == {d \in Clauses : \A a, b \in 1..WSD_LEN : a < b => d[a][1] <= d[b][1]}

\* The same without self-joins: no variable twice.
Distinct == {d \in Clauses : \A a, b \in 1..WSD_LEN : a < b => d[a][1] < d[b][1]}

AllClauses == Clauses

HalfGap == <<1, 2>>
Thousandth == <<1, 1000>>

\* epsilon for which the stopping numbers are 1/4, 1/2, 1/8 and 0
Several == {<<"R", <<1, 9>>>>, <<"R", <<1, 5>>>>, <<"A", <<1, 16>>>>, <<"A", <<0, 1>>>>}
Small == {<<"R", <<1, 9>>>>, <<"A", <<1, 16>>>>}
Zero == {<<"A", <<0, 1>>>>}
=============================================================================
