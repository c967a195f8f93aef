---------------------------- MODULE PossibleWorlds ----------------------------
(***************************************************************************)
(* What the query language promises: a database is a probability           *)
(* distribution over ordinary databases, a query is evaluated in each of   *)
(* them, and repair-key and pick-tuples are random choices.  URelations    *)
(* implements this with condition columns.                                 *)
(*                                                                         *)
(* Rows are pairs <<key, value>>, relations are bags of rows (functions    *)
(* to multiplicities).                                                     *)
(***************************************************************************)
EXTENDS Sequences, FiniteSets, FiniteSetsExt, SequencesExt, Rationals

CONSTANTS
    Tables,         \* names of tables
    Statements,     \* what clients may send (see the end of the module)
    BaseContents,   \* the rows of the tables that exist from the beginning
    WeightOf(_),    \* the weight of a row in repair-key, an integer
    ProbOf(_)       \* the probability of a row in pick-tuples

VARIABLES
    catalog,        \* the tables that exist
    dist,           \* database instance -> probability
    answer          \* the last query with a confidence function, and what it returned

vars == <<catalog, dist, answer>>

NoAnswer == <<>>
NoRows == [r \in {} |-> 0]

(* The sum of weight over a set *)
Total(S, weight(_)) ==
    MapThenFoldSet(QAdd, QZero, weight, LAMBDA T : CHOOSE x \in T : TRUE, S)

Product(S, factor(_)) ==
    MapThenFoldSet(QMul, QOne, factor, LAMBDA T : CHOOSE x \in T : TRUE, S)

(* The distribution of result(x) when x is drawn with the given weights *)
Distribution(S, result(_), weight(_)) ==
    LET prob == [x \in S |-> weight(x)]
        inst == [x \in {y \in S : prob[y] # QZero} |-> result(x)]
    IN  [J \in {inst[x] : x \in DOMAIN inst} |->
            Total({x \in DOMAIN inst : inst[x] = J}, LAMBDA x : prob[x])]

-----------------------------------------------------------------------------
(* Queries on one instance *)

(* The sequences with a row of each table, joined on the key if asked for *)
Combinations(st, I) ==
    LET rows == UNION {DOMAIN I[st.from[k]] : k \in DOMAIN st.from}
    IN  {c \in [DOMAIN st.from -> rows] :
            \A k \in DOMAIN st.from :
                c[k] \in DOMAIN I[st.from[k]] /\ (st.join => c[k][1] = c[1][1])}

Multiplicity(st, I, c) ==
    MapThenFoldSet(LAMBDA m, n : m * n, 1, LAMBDA k : I[st.from[k]][c[k]],
                   LAMBDA T : CHOOSE x \in T : TRUE, DOMAIN st.from)

(* The columns that are selected *)
Out(st, c) ==
    CASE st.out = "row"   -> c[1]
      [] st.out = "mixed" -> <<c[1][1], c[Len(st.from)][2]>>
      [] st.out = "key"   -> <<c[1][1], 0>>

Eval(st, I) ==
    LET combos == Combinations(st, I)
    IN  [r \in {Out(st, c) : c \in combos} |->
            MapThenSumSet(LAMBDA c : Multiplicity(st, I, c), {c \in combos : Out(st, c) = r})]

Count(bag, r) == IF r \in DOMAIN bag THEN bag[r] ELSE 0

EvalUnion(st, I) ==
    [r \in UNION {DOMAIN I[st.from[k]] : k \in DOMAIN st.from} |->
        MapThenSumSet(LAMBDA k : Count(I[st.from[k]], r), DOMAIN st.from)]

(* Every choice of one row per key, and its probability: alternatives are  *)
(* distinct rows of weight above 0.                                        *)
Alternatives(bag) == {r \in DOMAIN bag : WeightOf(r) # 0}
Repairs(bag) ==
    {c \in [{r[1] : r \in Alternatives(bag)} -> Alternatives(bag)] : \A k \in DOMAIN c : c[k][1] = k}
RepairProb(bag, c) ==
    Product(DOMAIN c, LAMBDA k :
        Q(WeightOf(c[k]), MapThenSumSet(WeightOf, {r \in Alternatives(bag) : r[1] = k})))
Repaired(bag, c) == [r \in {c[k] : k \in DOMAIN c} |-> bag[r]]

(* Every subset of the occurrences of rows, and its probability *)
Occurrences(bag) == UNION {{r} \X (1..bag[r]) : r \in DOMAIN bag}
PickProb(bag, picked) ==
    Product(Occurrences(bag), LAMBDA o :
        IF o \in picked THEN ProbOf(o[1]) ELSE QSub(QOne, ProbOf(o[1])))
Picked(picked) == [r \in {o[1] : o \in picked} |-> Cardinality({o \in picked : o[1] = r})]

-----------------------------------------------------------------------------
(* Statements.  The record of a statement names the operation (op), the    *)
(* tables it reads (from), whether they are joined on their keys (join),   *)
(* what is selected (out), and the table it creates (into).                *)

Init ==
    /\ catalog = DOMAIN BaseContents
    /\ dist = [I \in {[t \in Tables |-> IF t \in DOMAIN BaseContents THEN BaseContents[t]
                                        ELSE NoRows]} |-> QOne]
    /\ answer = NoAnswer

Possible(d, st) == UNION {DOMAIN Eval(st, I) : I \in DOMAIN d}

Create(st) ==
    /\ st.into \notin catalog
    /\ catalog' = catalog \cup {st.into}
    /\ answer' = NoAnswer

(* The bag that a table has in some instance, and whether in all *)
SomeRows(d, t) == LET J == CHOOSE I \in DOMAIN d : TRUE IN J[t]
IsCertain(d, t) == \A I \in DOMAIN d : I[t] = SomeRows(d, t)

InEachWorld(d, st, F(_)) ==
    Distribution(DOMAIN d, LAMBDA I : [I EXCEPT ![st.into] = F(I)], LAMBDA I : d[I])

Select(st) == Create(st) /\ LET d == dist IN dist' = InEachWorld(d, st, LAMBDA I : Eval(st, I))
Union(st) == Create(st) /\ LET d == dist IN dist' = InEachWorld(d, st, LAMBDA I : EvalUnion(st, I))
SelectPossible(st) ==
    /\ Create(st)
    /\ LET d == dist
           rows == [r \in Possible(d, st) |-> 1]
       IN  dist' = InEachWorld(d, st, LAMBDA I : rows)

RepairKey(st) ==
    LET d   == dist
        bag == SomeRows(d, st.from[1])
    IN  /\ Create(st) /\ IsCertain(d, st.from[1])
        /\ \A r \in DOMAIN bag : WeightOf(r) >= 0
        /\ dist' = Distribution((DOMAIN d) \X Repairs(bag),
                                LAMBDA x : [x[1] EXCEPT ![st.into] = Repaired(bag, x[2])],
                                LAMBDA x : QMul(d[x[1]], RepairProb(bag, x[2])))

PickTuples(st) ==
    LET d   == dist
        bag == SomeRows(d, st.from[1])
    IN  /\ Create(st) /\ IsCertain(d, st.from[1])
        /\ dist' = Distribution((DOMAIN d) \X (SUBSET Occurrences(bag)),
                                LAMBDA x : [x[1] EXCEPT ![st.into] = Picked(x[2])],
                                LAMBDA x : QMul(d[x[1]], PickProb(bag, x[2])))

Return(st, rows) ==
    /\ answer' # NoAnswer /\ answer'.stmt = st
    /\ answer' = [stmt |-> st, rows |-> rows]
    /\ UNCHANGED <<catalog, dist>>

(* The probability of each row that is possible *)
Conf(st) ==
    LET d == dist
    IN  Return(st, [r \in Possible(d, st) |->
                       Total({I \in DOMAIN d : r \in DOMAIN Eval(st, I)}, LAMBDA I : d[I])])

(* For each key that is possible, the expected sum of value over its rows  *)
(* (ecount: of 1; esum: of the value of the row)                           *)
Expectation(st, value(_)) ==
    LET d == dist
        SumIn(bag, k) == MapThenSumSet(LAMBDA r : bag[r] * value(r), {r \in DOMAIN bag : r[1] = k})
    IN  Return(st, [g \in {<<r[1], 0>> : r \in Possible(d, st)} |->
                       Total(DOMAIN d, LAMBDA I : QMul(d[I], <<SumIn(Eval(st, I), g[1]), 1>>))])

Execute(st) ==
    CASE st.op = "select"   -> Select(st)
      [] st.op = "union"    -> Union(st)
      [] st.op = "possible" -> SelectPossible(st)
      [] st.op = "repair"   -> RepairKey(st)
      [] st.op = "pick"     -> PickTuples(st)
      [] st.op = "conf"     -> Conf(st)
      [] st.op = "ecount"   -> Expectation(st, LAMBDA r : 1)
      [] st.op = "esum"     -> Expectation(st, LAMBDA r : r[2])

(* A statement that is refused, or the end of a query *)
Idle == answer' = NoAnswer /\ UNCHANGED <<catalog, dist>>

Next ==
    \/ \E st \in Statements : (\A k \in DOMAIN st.from : st.from[k] \in catalog) /\ Execute(st)
    \/ Idle

Spec == Init /\ [][Next]_vars
=============================================================================
