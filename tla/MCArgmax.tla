------------------------------- MODULE MCArgmax -------------------------------
(***************************************************************************)
(* Small instances of Argmax for TLC.                                      *)
(***************************************************************************)
EXTENDS Argmax

Call(column, type) == [column |-> column, type |-> type]

\* Two columns of the row with the greatest a, and one by b
ThreeCalls == <<Call("a", "int4"), Call("a", "int4"), Call("b", "float8")>>

\* Two values of one type
SameType == <<Call("a", "int4"), Call("b", "int4")>>

Once == <<Call("a", "int4")>>
WithNegative == {-1, 0, 1}
=============================================================================
