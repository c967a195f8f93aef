------------------------------ MODULE MCSprout ------------------------------
(***************************************************************************)
(* Small instances of Sprout for TLC: a schema, queries over it, and the   *)
(* databases in which the relations of one query have rows.                *)
(***************************************************************************)
EXTENDS Sprout

\* K has the key a; L, M and N the key b; C both attributes.
Schema == [R |-> {"a"}, S |-> {"a"}, P |-> {"a"}, K |-> {"a"}, T |-> {"a", "b"},
           L |-> {"a", "b"}, M |-> {"a", "b"}, N |-> {"a", "b"}, C |-> {"a", "b"}]
PrimaryKeys == [b \in DOMAIN Schema |->
                  CASE b = "K" -> {"a"} [] b = "C" -> {"a", "b"}
                    [] b \in {"L", "M", "N"} -> {"b"} [] OTHER -> {}]

\* The variables of the rows.  Relations that are never filled together share
\* them.
RowVars == [R |-> <<1, 2, 3>>, K |-> <<1, 2>>, M |-> <<1, 2>>, C |-> <<1, 2>>,
            S |-> <<4, 5, 6>>, L |-> <<4, 5>>, P |-> <<7, 8>>, T |-> <<7, 8>>, N |-> <<3, 6>>]
RowVar(b, k) == RowVars[b][k]
RowWeight == [v \in DBVars |-> <<<<<<1, 2>>, <<1, 3>>, <<1, 4>>, <<2, 3>>>>[(v % 4) + 1]>>]

EQ(k, l, a) == <<<<k, a>>, <<l, a>>>>
Select(from, joins) == [from |-> from, joins |-> joins, group |-> None]
GroupedBy(q, c) == [q EXCEPT !.group = c]

One      == Select(<<"R">>, <<>>)
Cross    == Select(<<"R", "S">>, <<>>)
Join     == Select(<<"R", "S">>, <<EQ(1, 2, "a")>>)
Grouped  == GroupedBy(Join, <<1, "a">>)
KeyJoin  == Select(<<"K", "S">>, <<EQ(1, 2, "a")>>)
ThreeWay == Select(<<"R", "S", "P">>, <<EQ(1, 2, "a"), EQ(2, 3, "a")>>)
Beside   == Select(<<"P", "K", "S">>, <<EQ(2, 3, "a")>>)
Nested   == Select(<<"R", "L", "T">>, <<EQ(1, 2, "a"), EQ(2, 3, "a"), EQ(2, 3, "b")>>)
Complex  == Select(<<"L", "M", "N", "T">>,
                   <<EQ(3, 4, "b"), EQ(1, 2, "b"), EQ(1, 2, "a"), EQ(2, 3, "a"), EQ(3, 4, "a")>>)
NotHQ    == Select(<<"R", "T", "S">>, <<EQ(1, 2, "a"), <<<<2, "b">>, <<3, "a">>>>>>)
SelfJoin == Select(<<"R", "R", "S">>, <<EQ(1, 2, "a"), EQ(2, 3, "a")>>)

\* Queries on which it is not: the last relation occurs before, a part of a
\* composite key is joined, a starred relation stands beside a starred pair,
\* there are several groups and one scan, joins are not connected.
SelfJoin2    == Select(<<"R", "R">>, <<EQ(1, 2, "a")>>)
PartOfKey    == Select(<<"C", "S">>, <<EQ(1, 2, "a")>>)
StarBeside   == Select(<<"P", "R", "S">>, <<EQ(2, 3, "a")>>)
GroupedKey   == GroupedBy(KeyJoin, <<1, "a">>)
Disconnected == Select(<<"R", "S", "P", "N">>, <<EQ(1, 2, "a"), EQ(3, 4, "a")>>)

\* The contents of a relation with m rows: any values of the attributes, and
\* the number of the row where an attribute is the primary key.
RowsOf(b, m) ==
    {s \in [1..m -> [Schema[b] -> {1, 2}]] :
        \A i \in 1..m, a \in PrimaryKeys[b] : Cardinality(PrimaryKeys[b]) = 1 => s[i][a] = i}

Empty == [b \in DOMAIN Schema |-> <<>>]

\* size[b] is the number of rows of relation b.
Filled(size) ==
    LET Fill(ds, b) == {[d EXCEPT ![b] = s] : d \in ds, s \in RowsOf(b, size[b])}
    IN  FoldSet(LAMBDA b, ds : Fill(ds, b), {Empty}, DOMAIN size)

Sound == {One, Cross, Join, Grouped, KeyJoin, ThreeWay, Beside, Nested, Complex, NotHQ, SelfJoin}
SomeDatabases ==
    {Empty} \cup Filled([R |-> 3, S |-> 3])
            \cup Filled([K |-> 2, S |-> 2, P |-> 2])
            \cup Filled([R |-> 2, S |-> 2, P |-> 2])
            \cup Filled([R |-> 2, L |-> 2, T |-> 2])
            \cup Filled([L |-> 2, M |-> 2, N |-> 1, T |-> 1])
            \cup Filled([L |-> 1, M |-> 1, N |-> 2, T |-> 2])

\* Sessions of two statements, where R has at most two rows and T none
TwoOnSmall(d) == IF Len(d.R) <= 2 /\ d.T = <<>> THEN 2 ELSE 1
OneStatement(d) == 1
TwoInAll(d)     == 2

\* One query per configuration
TheSelfJoin     == {SelfJoin2}
ThePartOfKey    == {PartOfKey}
TheStarBeside   == {StarBeside}
TheGroupedKey   == {GroupedKey}
TheDisconnected == {Disconnected}
TwoStatements   == {Join, KeyJoin}

Pairs == Filled([R |-> 2, S |-> 2, P |-> 2])
KeyedPairs == Filled([K |-> 2, S |-> 2])
CompositePairs == Filled([C |-> 2, S |-> 2])
Quadruples == Filled([R |-> 1, S |-> 1, P |-> 2, N |-> 2])
RSK == Filled([R |-> 2, S |-> 2])
=============================================================================
