----------------------------- MODULE MCURelations -----------------------------
(***************************************************************************)
(* Small instances of URelations for TLC.                                  *)
(***************************************************************************)
EXTENDS URelations, TLC

\* B is to be repaired: a key with two alternatives, one with a repeated row
\* and a row of weight 0.  C is to be picked from: a repeated row, a row that
\* is certain and one that is impossible.  N has a negative value,
\* and a row that may be read before it.
Contents == [B |-> (<<1, 1>> :> 1) @@ (<<1, 2>> :> 1) @@ (<<2, 1>> :> 2) @@ (<<2, 0>> :> 1),
             C |-> (<<1, 1>> :> 2) @@ (<<1, 2>> :> 1) @@ (<<2, 0>> :> 1),
             N |-> (<<1, -1>> :> 1) @@ (<<2, 1>> :> 1)]
Value(r) == r[2]
Third(r) == CASE r[2] = 2 -> <<1, 1>> [] OTHER -> Q(r[2], 3)

St(op, into, from, join, out) == [op |-> op, into |-> into, from |-> from, join |-> join, out |-> out]
Repair(into, t) == St("repair", into, <<t>>, FALSE, "row")
Pick(into, t) == St("pick", into, <<t>>, FALSE, "row")
Ask(op, from, out) == St(op, "", from, TRUE, out)

Creating == {
    Repair("U", "B"), Pick("I", "C"), Repair("U", "N"), Pick("I", "N"), Repair("V", "P"),
    St("select", "S", <<"U", "I">>, TRUE, "mixed"), St("select", "S", <<"I", "I">>, TRUE, "key"),
    St("select", "S", <<"U", "B", "U">>, TRUE, "mixed"),
    St("union", "W", <<"U", "I">>, FALSE, "row"), St("select", "W", <<"S", "U">>, TRUE, "row"),
    St("select", "P", <<"B">>, FALSE, "row"), St("possible", "P", <<"S">>, FALSE, "row")}
Asking == {
    Ask("conf", <<"S">>, "key"), Ask("conf", <<"I">>, "row"), Ask("conf", <<"W", "I">>, "key"),
    Ask("conf", <<"U", "V">>, "mixed"), Ask("ecount", <<"U", "U">>, "row"),
    Ask("ecount", <<"U", "I">>, "row"), Ask("ecount", <<"I", "C">>, "row"),
    Ask("esum", <<"S", "V">>, "mixed"), Ask("esum", <<"W">>, "row")}
Sound == Creating \cup Asking

\* A relation of independent tuples that is joined with itself or with its result
Counting == {Pick("I", "C"), St("select", "S", <<"I">>, FALSE, "row"),
             Ask("ecount", <<"S", "I">>, "row"), Ask("conf", <<"I">>, "row")}

\* A repair of an uncertain table
Repairing == {Repair("U", "B"), Repair("V", "U"), Ask("conf", <<"V">>, "row")}
=============================================================================
