------------------------------ MODULE URelations ------------------------------
(***************************************************************************)
(* The rewriting of statements on probabilistic tables (rewrite.c,         *)
(* repair_key.c, pick_tuples.c, tupleconf.c), and the rewritten statements *)
(* evaluated on the representation.  PossibleWorlds is what they promise.  *)
(*                                                                         *)
(* A table is a bag of tuples [row, cond]: cond is the sequence of its     *)
(* triples <<variable, range, probability>>.                               *)
(*                                                                         *)
(* A statement here reads tables only.  A plain select in a from clause is *)
(* rewritten first and then treated like a table of its type, as if it had *)
(* been stored.  A union in a from clause is not, and is not modelled: its *)
(* own from clause is empty, so process_select takes it for certain        *)
(* (rewrite.c, 450-453) and the select around it passes its conditions by. *)
(* The unions here are those that create a table.                          *)
(***************************************************************************)
EXTENDS Sequences, FiniteSets, FiniteSetsExt, SequencesExt, Rationals

CONSTANTS
    Tables, Statements, BaseContents, WeightOf(_), ProbOf(_),   \* as in PossibleWorlds
    MaxTables,      \* bound on the number of tables
    MaxWasted       \* bound on varid and domid when a statement fails

(* Rows of the base tables' values, and 0 for a column that is projected   *)
(* away                                                                    *)
Values == {0} \cup UNION {{r[1], r[2]} : r \in UNION {DOMAIN BaseContents[t] : t \in DOMAIN BaseContents}}
Rows == Values \X Values

(* Base tables are finite bags of rows, weights and probabilities are      *)
(* numbers, whatever their sign and size; a statement reads at least one   *)
(* table.                                                                  *)
ASSUME URelationsAssumption ==
    /\ \A t \in DOMAIN BaseContents :
          /\ DOMAIN BaseContents[t] \subseteq Int \X Int /\ IsFiniteSet(DOMAIN BaseContents[t])
          /\ \A r \in DOMAIN BaseContents[t] : BaseContents[t][r] \in Nat
    /\ \A r \in Rows : WeightOf(r) \in Int /\ ProbOf(r) \in Rat
    /\ \A st \in Statements :
          /\ DOMAIN st = {"op", "into", "from", "join", "out"}
          /\ st.from \in Seq(Tables) /\ st.from # <<>>
          /\ st.out \in {"row", "mixed", "key"}

VARIABLES
    rel,        \* table -> [type, dimension, tuples], or NoTable
    varid,      \* the sequences behind nextval
    domid,
    answer      \* the last query with a confidence function, and its result

vars == <<rel, varid, domid, answer>>

NoTable == <<>>
NoAnswer == <<>>
NoTuples == [x \in {} |-> 0]

TABLETYPE_CERTAIN == "certain"
TABLETYPE_INDEPENDENT == "independent"
TABLETYPE_URELATION == "urelation"

Catalog == {t \in Tables : rel[t] # NoTable}
TypeOf(t) == rel[t].type
TuplesOf(t) == rel[t].tuples

(* getTripleCounts *)
TripleCount(t) == rel[t].dimension

all_relations_are_certain(st) == \A k \in DOMAIN st.from : TypeOf(st.from[k]) = TABLETYPE_CERTAIN
is_a_general_case(st) == \E k \in DOMAIN st.from : TypeOf(st.from[k]) # TABLETYPE_INDEPENDENT

-----------------------------------------------------------------------------
(* The join of the from clause.  A combination has a tuple of each table.  *)

Combinations(st) ==
    LET tuples == UNION {DOMAIN TuplesOf(st.from[k]) : k \in DOMAIN st.from}
    IN  {c \in [DOMAIN st.from -> tuples] :
            \A k \in DOMAIN st.from :
                /\ c[k] \in DOMAIN TuplesOf(st.from[k])
                /\ st.join => c[k].row[1] = c[1].row[1]}

Multiplicity(st, c) ==
    FoldFunction(LAMBDA m, n : m * n, 1, [k \in DOMAIN st.from |-> TuplesOf(st.from[k])[c[k]]])

Agree(cond1, cond2) ==
    \A k \in DOMAIN cond1, l \in DOMAIN cond2 : cond1[k][1] = cond2[l][1] => cond1[k][2] = cond2[l][2]

(* Mutant: neighbours in the from clause only. *)
remove_mutual_exclusiveness_Neighbours(st, c) ==
    \A i \in DOMAIN c :
        i + 1 \in DOMAIN c /\ TypeOf(st.from[i]) = TABLETYPE_URELATION
                           /\ TypeOf(st.from[i + 1]) = TABLETYPE_URELATION
            => Agree(c[i].cond, c[i + 1].cond)

(* The condition that is added for every two U-relations: one variable, one *)
(* range.                                                                  *)
remove_mutual_exclusiveness(st, c) ==
    \A i, j \in DOMAIN c :
        i < j /\ TypeOf(st.from[i]) = TABLETYPE_URELATION
              /\ TypeOf(st.from[j]) = TABLETYPE_URELATION
            => Agree(c[i].cond, c[j].cond)

Consistent(st) == {c \in Combinations(st) : remove_mutual_exclusiveness(st, c)}

add_condition_columns(c) == FlattenSeq([k \in DOMAIN c |-> c[k].cond])

(* transform_targetList: the columns that are selected, condition columns  *)
(* never among them                                                        *)
Target(st, c) ==
    CASE st.out = "row"   -> c[1].row
      [] st.out = "mixed" -> <<c[1].row[1], c[Len(st.from)].row[2]>>
      [] st.out = "key"   -> <<c[1].row[1], 0>>

(* The bag of the tuples of the combinations *)
Collect(st, tuple) ==
    [x \in Range(tuple) |->
        SumFunction([c \in {d \in DOMAIN tuple : tuple[d] = x} |-> Multiplicity(st, c)])]

-----------------------------------------------------------------------------
(* Statements that create a table *)

CreateTable(st, type, dimension, tuples) ==
    /\ rel' = [rel EXCEPT ![st.into] = [type |-> type, dimension |-> dimension, tuples |-> tuples]]
    /\ answer' = NoAnswer

Dimension(st) == SumFunction([k \in DOMAIN st.from |-> TripleCount(st.from[k])])

(* Mutant: a select on independent tables is one. *)
ResultType_Keep(st) ==
    IF \A k \in DOMAIN st.from : TypeOf(st.from[k]) = TABLETYPE_INDEPENDENT
    THEN TABLETYPE_INDEPENDENT
    ELSE IF all_relations_are_certain(st) THEN TABLETYPE_CERTAIN ELSE TABLETYPE_URELATION

(* Every uncertain result is a U-relation. *)
ResultType(st) == IF all_relations_are_certain(st) THEN TABLETYPE_CERTAIN ELSE TABLETYPE_URELATION

(* A plain select *)
process_select(st) ==
    /\ CreateTable(st, ResultType(st), Dimension(st),
                   Collect(st, [c \in Consistent(st) |->
                                   [row |-> Target(st, c), cond |-> add_condition_columns(c)]]))
    /\ UNCHANGED <<varid, domid>>

(* select * from each table, and union all.  The table gets the type of    *)
(* the leftmost select, which has the into clause; selects with different  *)
(* numbers of columns are an error.                                        *)
set_operation(st) ==
    LET Arm(k) == [st EXCEPT !.from = <<st.from[k]>>, !.out = "row"]
        all == UNION {DOMAIN TuplesOf(st.from[k]) : k \in DOMAIN st.from}
        Count(k, x) == IF x \in DOMAIN TuplesOf(st.from[k]) THEN TuplesOf(st.from[k])[x] ELSE 0
    IN  /\ \A k \in DOMAIN st.from : TripleCount(st.from[k]) = TripleCount(st.from[1])
        /\ CreateTable(st, ResultType(Arm(1)), TripleCount(st.from[1]),
                       [x \in all |-> SumFunction([k \in DOMAIN st.from |-> Count(k, x)])])
        /\ UNCHANGED <<varid, domid>>

rewrite_possible(st) ==
    /\ CreateTable(st, TABLETYPE_CERTAIN, 0,
                   [x \in {[row |-> Target(st, c), cond |-> <<>>] : c \in Consistent(st)} |-> 1])
    /\ UNCHANGED <<varid, domid>>

(* The input of repair-key and pick-tuples: the rows without the condition *)
(* columns.  That an uncertain input is not supported is only noted        *)
(* (the error in process is commented out).                                *)
Input(st) ==
    LET tuples == TuplesOf(st.from[1])
    IN  [r \in {x.row : x \in DOMAIN tuples} |->
            SumFunctionOnSet(tuples, {x \in DOMAIN tuples : x.row = r})]

(* Mutant: duplicates take part in the sum of the weights. *)
SumOfWeights_Bag(input, k) ==
    MapThenSumSet(LAMBDA r : input[r] * WeightOf(r), {r \in DOMAIN input : r[1] = k})

(* duplicate_removal, then assign_var_ID: _S *)
SumOfWeights(input, k) == MapThenSumSet(WeightOf, {r \in DOMAIN input : r[1] = k /\ WeightOf(r) # 0})

RowLess(r, s) == r[1] < s[1] \/ (r[1] = s[1] /\ r[2] < s[2])

(* Mutant: the numbers are given out again. *)
nextval_Again(seq, n) == seq

(* n calls of nextval *)
nextval(seq, n) == seq + n

(* test_negative *)
IsWeight(w) == w >= 0

(* A variable for every key, a range for every distinct row with a weight; *)
(* they are joined with the input, in which rows may be repeated.          *)
rewrite_repair_key(st) ==
    LET input == Input(st)
        rows  == {r \in DOMAIN input : WeightOf(r) # 0}
        keys  == {r[1] : r \in rows}
        Var(k) == varid + Cardinality({l \in keys : l < k})
        Dom(r) == domid + Cardinality({s \in rows : RowLess(s, r)})
        Triple(r) == <<Var(r[1]), Dom(r), Q(WeightOf(r), SumOfWeights(input, r[1]))>>
    IN  /\ \A r \in DOMAIN input : IsWeight(WeightOf(r))
        /\ CreateTable(st, TABLETYPE_URELATION, 1,
                       [x \in {[row |-> r, cond |-> <<Triple(r)>>] : r \in rows} |-> input[x.row]])
        /\ varid' = nextval(varid, Cardinality(keys))
        /\ domid' = nextval(domid, Cardinality(rows))

(* Mutant: nextval once for every key. *)
PickVar_PerKey(occ, o) == Cardinality({p \in occ : p[1][1] < o[1][1]})

(* nextval for every tuple *)
PickVar(occ, o) == Cardinality({p \in occ : RowLess(p[1], o[1]) \/ (p[1] = o[1] /\ p[2] < o[2])})

(* test_from_0_to_1 *)
IsProbability(p) == ~QLess(p, QZero) /\ ~QLess(QOne, p)

(* The rows that the WHERE clause lets through, a repeated one as often as *)
(* it occurs                                                               *)
Occurrences(input) == UNION {{r} \X (1..input[r]) : r \in {s \in DOMAIN input : ProbOf(s) # QZero}}

rewrite_pick_tuples(st) ==
    LET input == Input(st)
        occ == Occurrences(input)
        Tuple(o) == [row |-> o[1], cond |-> <<<<varid + PickVar(occ, o), 1, ProbOf(o[1])>>>>]
    IN  /\ \A r \in DOMAIN input : IsProbability(ProbOf(r))
        /\ CreateTable(st, TABLETYPE_INDEPENDENT, 1,
                       [x \in {Tuple(o) : o \in occ} |-> Cardinality({o \in occ : Tuple(o) = x})])
        /\ varid' = nextval(varid, Cardinality(occ))
        /\ UNCHANGED domid

(* An error leaves no table behind, but the numbers are used up that       *)
(* nextval returned before.  Here a weight below 0: both duplicate         *)
(* removals test the weights, in the WHERE clause, and the numbers are     *)
(* drawn above their grouping.  When the rows are hashed or sorted for it, *)
(* none is drawn; when they are read in the order of their columns, there  *)
(* may be one for each group that came before the wrong row.               *)
RepairFails(st) ==
    LET input == Input(st)
        rows  == {r \in DOMAIN input : WeightOf(r) > 0}
        keys  == {r[1] : r \in rows}
    IN  /\ \E r \in DOMAIN input : ~IsWeight(WeightOf(r))
        /\ varid <= MaxWasted /\ domid <= MaxWasted
        /\ \E n \in 0..Cardinality(keys) : varid' = nextval(varid, n)
        /\ \E n \in 0..Cardinality(rows) : domid' = nextval(domid, n)
        /\ answer' = NoAnswer
        /\ UNCHANGED rel

(* A probability out of range, found in the WHERE clause: the row itself   *)
(* draws no number, every occurrence that was read before it has drawn one.*)
PickFails(st) ==
    LET input == Input(st)
    IN  /\ \E r \in DOMAIN input : ~IsProbability(ProbOf(r))
        /\ varid <= MaxWasted /\ domid <= MaxWasted
        /\ \E n \in 0..Cardinality({o \in Occurrences(input) : IsProbability(ProbOf(o[1]))}) :
              varid' = nextval(varid, n)
        /\ answer' = NoAnswer
        /\ UNCHANGED <<rel, domid>>

-----------------------------------------------------------------------------
(* Confidence functions *)

(* What the algorithms compute from the clauses of a group (WsTree, DTree, *)
(* Sprout): the probability that one holds, with the probabilities that    *)
(* occur in the triples.                                                   *)
QTotal(S, weight(_)) == MapThenFoldSet(QAdd, QZero, weight, LAMBDA T : CHOOSE x \in T : TRUE, S)
QProduct(S, factor(_)) == MapThenFoldSet(QMul, QOne, factor, LAMBDA T : CHOOSE x \in T : TRUE, S)

TriplesIn(conds) == UNION {Range(cond) : cond \in conds}

(* For every variable, the ranges that occur and what is left (0) *)
WorldTableOf(conds) ==
    LET triples == TriplesIn(conds)
    IN  [v \in {x[1] : x \in triples} |->
            LET own  == {x \in triples : x[1] = v}
                rest == QSub(QOne, QTotal(own, LAMBDA x : x[3]))
            IN  [d \in {x[2] : x \in own} \cup (IF rest = QZero THEN {} ELSE {0}) |->
                    IF d = 0 THEN rest ELSE (CHOOSE x \in own : x[2] = d)[3]]]

(* The possible worlds of a world table, and which of them satisfy a       *)
(* clause: the meaning of condition columns, independent of the code.      *)
Valuations(wt) ==
    FoldSet(LAMBDA v, ws : {w @@ (v :> d) : w \in ws, d \in DOMAIN wt[v]}, {<<>>}, DOMAIN wt)
ValuationProb(wt, w) == QProduct(DOMAIN w, LAMBDA v : wt[v][w[v]])
Satisfies(w, cond) == \A k \in DOMAIN cond : w[cond[k][1]] = cond[k][2]

LineageProb(conds) ==
    LET wt == WorldTableOf(conds)
    IN  QTotal({w \in Valuations(wt) : \E cond \in conds : Satisfies(w, cond)},
               LAMBDA w : ValuationProb(wt, w))

Return(st, rows) == answer' = [stmt |-> st, rows |-> rows] /\ UNCHANGED <<rel, varid, domid>>

(* generalRewrite: a group for every distinct row, with the condition      *)
(* columns of its consistent combinations.  On independent tables only,    *)
(* there is no condition to add.                                           *)
conf(st) ==
    LET combos == IF is_a_general_case(st) THEN Consistent(st) ELSE Combinations(st)
    IN  Return(st, [r \in {Target(st, c) : c \in combos} |->
            LineageProb({add_condition_columns(c) : c \in {d \in combos : Target(st, d) = r}})])

(* product_ge: the product over the triples, a repeated one counted once,  *)
(* and 0 when two contradict each other.                                   *)
product_ge(cond) ==
    QProduct(DOMAIN cond, LAMBDA j :
        LET earlier == {i \in 1..(j-1) : cond[i][1] = cond[j][1]}
        IN  CASE earlier = {} -> cond[j][3]
              [] earlier # {} /\ \A i \in earlier : cond[i][2] = cond[j][2] -> QOne
              [] OTHER -> QZero)

(* put_args_to_tconf and put_args_to_tconf_independent: the triples of the *)
(* U-relations together, times the probability of every independent tuple. *)
tconf(st, c) ==
    LET OfType(type) == SelectSeq([k \in DOMAIN c |-> k], LAMBDA k : TypeOf(st.from[k]) = type)
        us   == OfType(TABLETYPE_URELATION)
        inds == OfType(TABLETYPE_INDEPENDENT)
    IN  QMul(product_ge(add_condition_columns([k \in DOMAIN us |-> c[us[k]]])),
             QProduct(DOMAIN inds, LAMBDA k : c[inds[k]].cond[1][3]))

(* rewrite_ecount and rewrite_esum: sum(tconf()) and sum(A * tconf()),     *)
(* grouped by the key                                                      *)
SumTconf(st, factor) ==
    LET combos == IF is_a_general_case(st) THEN Consistent(st) ELSE Combinations(st)
        Group(c) == <<Target(st, c)[1], 0>>
    IN  Return(st, [g \in {Group(c) : c \in combos} |->
            QTotal({c \in combos : Group(c) = g}, LAMBDA c :
                QMul(<<Multiplicity(st, c) * factor[c], 1>>, tconf(st, c)))])

rewrite_ecount(st) == SumTconf(st, [c \in Combinations(st) |-> 1])
rewrite_esum(st) == SumTconf(st, [c \in Combinations(st) |-> Target(st, c)[2]])

-----------------------------------------------------------------------------
Init ==
    /\ rel = [t \in Tables |->
                 IF t \notin DOMAIN BaseContents THEN NoTable
                 ELSE [type |-> TABLETYPE_CERTAIN, dimension |-> 0,
                       tuples |-> [x \in {[row |-> r, cond |-> <<>>] : r \in DOMAIN BaseContents[t]} |->
                                      BaseContents[t][x.row]]]]
    /\ varid = 1 /\ domid = 1
    /\ answer = NoAnswer

(* Confidence functions on certain tables are an error. *)
process(st) ==
    \/ /\ st.into \in Tables \ Catalog /\ Cardinality(Catalog) < MaxTables
       /\ \/ st.op = "select" /\ process_select(st)
          \/ st.op = "union" /\ set_operation(st)
          \/ st.op = "possible" /\ rewrite_possible(st)
          \/ st.op = "repair" /\ (rewrite_repair_key(st) \/ RepairFails(st))
          \/ st.op = "pick" /\ (rewrite_pick_tuples(st) \/ PickFails(st))
    \/ /\ ~all_relations_are_certain(st)
       /\ \/ st.op = "conf" /\ conf(st)
          \/ st.op = "ecount" /\ rewrite_ecount(st)
          \/ st.op = "esum" /\ rewrite_esum(st)

(* The client has read the result. *)
EndOfQuery == answer # NoAnswer /\ answer' = NoAnswer /\ UNCHANGED <<rel, varid, domid>>

Next ==
    \/ \E st \in Statements :
          answer = NoAnswer /\ (\A k \in DOMAIN st.from : st.from[k] \in Catalog) /\ process(st)
    \/ EndOfQuery

Spec == Init /\ [][Next]_vars

-----------------------------------------------------------------------------
(* Properties *)

AllConds == UNION {{x.cond : x \in DOMAIN TuplesOf(t)} : t \in Catalog}

(* The rows of a table in the world of a valuation *)
RowsIn(t, w) ==
    LET present == IF t \in Catalog THEN {x \in DOMAIN TuplesOf(t) : Satisfies(w, x.cond)} ELSE {}
    IN  [r \in {x.row : x \in present} |->
            MapThenSumSet(LAMBDA x : TuplesOf(t)[x], {x \in present : x.row = r})]

(* The distribution that the condition columns of all tables describe *)
WorldsOf ==
    LET wt   == WorldTableOf(AllConds)
        inst == [w \in Valuations(wt) |-> [t \in Tables |-> RowsIn(t, w)]]
    IN  [I \in {inst[w] : w \in DOMAIN inst} |->
            QTotal({w \in DOMAIN inst : inst[w] = I}, LAMBDA w : ValuationProb(wt, w))]

(* Every statement, rewritten and evaluated once on the representation,    *)
(* has the effect it has when it is evaluated in each possible world: the  *)
(* condition columns of joins, unions and projections describe the same    *)
(* distribution, repairs and picks are independent of everything before,   *)
(* and the confidences, expected counts and sums are those of the worlds.  *)
PW == INSTANCE PossibleWorlds WITH catalog <- Catalog, dist <- WorldsOf
ImplementsPossibleWorlds == PW!Spec

(* No stored clause gives a variable two ranges, whatever tables it was    *)
(* joined from: the algorithms of the confidence functions rely on it.     *)
ConsistentClauses ==
    \A cond \in AllConds : \A k, l \in DOMAIN cond : cond[k][1] = cond[l][1] => cond[k] = cond[l]

(* A table of type independent has one tuple per variable and one triple   *)
(* per tuple, as the choice of the operator in process_select and the      *)
(* product of tconf take for granted; and no tuple of a certain table has  *)
(* a condition.                                                            *)
TypesFaithful ==
    \A t \in Catalog :
        /\ TypeOf(t) = TABLETYPE_CERTAIN => \A x \in DOMAIN TuplesOf(t) : x.cond = <<>>
        /\ TypeOf(t) = TABLETYPE_INDEPENDENT =>
              \A x, y \in DOMAIN TuplesOf(t) :
                 /\ Len(x.cond) = 1 /\ TuplesOf(t)[x] = 1
                 /\ x # y => x.cond[1][1] # y.cond[1][1]

(* All tables agree on the probability of a range of a variable: the local *)
(* world table that a confidence function builds from its tuples is part   *)
(* of one world table, which is stored nowhere.                            *)
OneWorldTable ==
    \A x, y \in TriplesIn(AllConds) : x[1] = y[1] /\ x[2] = y[2] => x = y

(* In that world table the ranges of a variable are together not more      *)
(* probable than 1.                                                        *)
RangesWithinOne ==
    LET triples == TriplesIn(AllConds)
    IN  \A v \in {x[1] : x \in triples} :
            ~QLess(QOne, QTotal({x \in triples : x[1] = v}, LAMBDA x : x[3]))
=============================================================================
