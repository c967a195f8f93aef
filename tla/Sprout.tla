-------------------------------- MODULE Sprout --------------------------------
(***************************************************************************)
(* conf() on tuple-independent relations (SPROUT.c, and the choice of the  *)
(* operator in rewrite.c): the algorithms that the session of module       *)
(* SproutSession calls, and the whole.  The reference is the confidence by *)
(* possible worlds of Lineage.                                             *)
(*                                                                         *)
(* The algorithms are operators on records that carry what the C functions *)
(* keep in local arrays and in stateData.  A NULL pointer that is followed *)
(* or an array that is left (fault) ends the backend.                      *)
(***************************************************************************)
EXTENDS Lineage, Signature, SproutSession

CONSTANT VarOf(_, _) \* the variable of a row of a base relation

-----------------------------------------------------------------------------
(* Choice of the operator (process_select) *)

(* Mutant: the test for self-joins is gone. *)
is_self_join_Never(from) == FALSE

(* Some relation is there twice; the last one is not looked at. *)
is_self_join(from) ==
    \E i \in 1..(Len(from) - 2) : \E j \in (i + 1)..(Len(from) - 1) : from[i] = from[j]

Operator(q) ==
    CASE Len(q.from) = 1 -> "one_relation"
      [] Len(q.from) > 1 /\ isHQ(geneSGList(q)) /\ ~is_self_join(q.from) -> "HQ"
      [] OTHER -> "general"

(* HQ_rewriting: the columns of the lineage, which are also its sort order *)
VarOrder(q, op) == IF op = "HQ" THEN getVarOrder(BuildSignature(q)) ELSE [k \in DOMAIN q.from |-> k]

-----------------------------------------------------------------------------
(* The inner select: the joined rows, as tuples of condition columns *)

Matches(d, q, rows) ==
    \A e \in DOMAIN q.joins :
        LET Value(c) == d[q.from[c[1]]][rows[c[1]]][c[2]]
        IN  Value(q.joins[e][1]) = Value(q.joins[e][2])

RowChoices(d, q) ==
    {rows \in [DOMAIN q.from -> 1..Max({0} \cup {Len(d[b]) : b \in DOMAIN d})] :
        \A k \in DOMAIN q.from : rows[k] <= Len(d[q.from[k]])}

Answers(d, q) == {rows \in RowChoices(d, q) : Matches(d, q, rows)}

LexLess(t, u) == \E k \in DOMAIN t : t[k] < u[k] /\ \A m \in 1..(k-1) : t[m] = u[m]

(* The elements of a set in ascending order *)
Ascending(S, Less(_, _)) ==
    [k \in 1..Cardinality(S) |-> CHOOSE x \in S : Cardinality({y \in S : Less(y, x)}) = k - 1]

Sorted(d, q, order, answers) ==
    Ascending({[k \in DOMAIN order |-> VarOf(q.from[order[k]], rows[order[k]])] : rows \in answers},
              LexLess)

(* The groups, sorted by the attribute that is grouped by, or the only     *)
(* one.  An aggregate without group by is also computed over no tuple.     *)
GroupsOf(d, q, order) ==
    IF q.group = None THEN <<Sorted(d, q, order, Answers(d, q))>>
    ELSE LET Value(rows) == d[q.from[q.group[1]]][rows[q.group[1]]][q.group[2]]
             values == Ascending({Value(rows) : rows \in Answers(d, q)}, <)
         IN  [g \in DOMAIN values |->
                 Sorted(d, q, order, {rows \in Answers(d, q) : Value(rows) = values[g]})]

Prob(v) == Weight[v][1]

-----------------------------------------------------------------------------
(* Columns that have been aggregated: probability tables *)

isAValidVar(info, var) ==
    \/ info.type = NOTAGGREGATED
    \/ info.pt # <<>> /\ info.pt[1].repre = var

NoEntry(info) == info.type = AGGREGATED /\ info.pt = <<>>

indeEventConjunc(a, b) == QSub(QOne, QMul(QSub(QOne, a), QSub(QOne, b)))

(* lookup for the columns of cols: their probabilities go to sum, and the  *)
(* table of an aggregated column loses its head.                           *)
Lookup(s, t, cols) ==
    IF \E c \in cols : c \notin DOMAIN s.vars \/ NoEntry(s.vars[c])
    THEN [s EXCEPT !.fault = TRUE]
    ELSE LET Probability(c) == IF s.vars[c].type = NOTAGGREGATED
                               THEN Prob(t[c]) ELSE s.vars[c].pt[1].prob
             Rest(info) == IF info.type = NOTAGGREGATED THEN info
                           ELSE [info EXCEPT !.pt = Tail(@)]
         IN  [s EXCEPT !.sum = [c \in DOMAIN @ |-> IF c \in cols THEN Probability(c) ELSE @[c]],
                       !.vars = [c \in DOMAIN @ |-> IF c \in cols THEN Rest(@[c]) ELSE @[c]]]

(* The same for one column that is combined with what was seen before. *)
Combine(s, t, c) ==
    LET s1 == Lookup(s, t, {c})
    IN  [s1 EXCEPT !.sum[c] = indeEventConjunc(s.sum[c], @)]

(* getProduct: p times the probabilities of the siblings, which are taken  *)
(* from the list.                                                          *)
getProduct(info, p, ready) ==
    FoldLeft(QMul, p, SubSeq(ready, 1, info.varsToCombine))

AfterProduct(info, ready) == SubSeq(ready, info.varsToCombine + 1, Len(ready))

(* A column whose group of descendants is complete adds its product to its *)
(* tempSum.                                                                *)
AddProduct(s, c) ==
    IF s.vars[c].varsToCombine > Len(s.ready) THEN [s EXCEPT !.fault = TRUE]
    ELSE [s EXCEPT !.tempSum[c] =
                       indeEventConjunc(@, getProduct(s.vars[c], s.sum[c], s.ready)),
                   !.ready = AfterProduct(s.vars[c], @)]

(* Column c is complete: its probability goes to the list. *)
HandOver(s, c) == [s EXCEPT !.ready = <<s.tempSum[c]>> \o @, !.tempSum[c] = QZero]

CloseColumn(s, c) ==
    IF s.vars[c].domain = 0
    THEN [s EXCEPT !.ready = <<s.sum[c]>> \o @]
    ELSE HandOver(AddProduct(s, c), c)

(* the columns from the cursor down to the one after i *)
CloseColumns(s, i) ==
    FoldLeft(CloseColumn, s, [k \in 1..(s.cursor - i) |-> s.cursor + 1 - k])

(* The first column before the cursor that has a new, valid variable, or 0 *)
FirstChange(s, t) ==
    SelectInSeq([c \in 1..s.cursor |-> c],
                LAMBDA c : t[c] # s.pre[c] /\ isAValidVar(s.vars[c], t[c]))

-----------------------------------------------------------------------------
(* The operator for signatures with the 1scan property: stateData *)

NewState(nodes, n) ==
    [vars |-> nodes, n |-> n, counter |-> 0, sum |-> [c \in 1..n |-> QZero],
     tempSum |-> [c \in 1..n |-> QZero], pre |-> <<>>, cursor |-> n,
     calculating |-> FALSE, ready |-> <<>>, fault |-> FALSE]

(* newBlock: the first variable begins a partition. *)
StartBlock(s, t) ==
    [Lookup(s, t, 1..s.n) EXCEPT !.calculating = TRUE, !.cursor = s.n, !.pre = t]

(* Mutant: the columns below keep what they had summed up. *)
StartBelow_NoReset(s, t, i) == IF s.calculating THEN Lookup(s, t, {i}) ELSE s

(* The columns below a new variable of column i start again. *)
StartBelow(s, t, i) == IF s.calculating THEN Lookup(s, t, i..s.cursor) ELSE s

(* Column i has a new variable, and the columns after it are complete. *)
NewVariable(s, t, i) ==
    IF s.vars[i].domain > 0
    THEN StartBelow([AddProduct(s, i) EXCEPT !.cursor = i + s.vars[i].domain], t, i)
    ELSE [Combine(s, t, i) EXCEPT !.cursor = i]

(* finish: the first change is on column i before the cursor. *)
ChangeAt(s, t, i) == NewVariable(CloseColumns(s, i), t, i)

WithinBlock(s, t) ==
    LET i == FirstChange(s, t)
    IN  [CASE i = 0 -> s
           [] i > 0 /\ i = s.cursor -> Combine(s, t, i)
           [] OTHER -> ChangeAt(s, t, i)
         EXCEPT !.pre = t]

NextTuple(s, t, newBlock, valid) ==
    CASE s.fault -> s
      [] s.counter = 1 \/ (newBlock /\ valid /\ ~s.calculating) -> StartBlock(s, t)
      [] s.counter > 1 /\ newBlock /\ ~valid /\ s.calculating ->
            [ChangeAt([s EXCEPT !.calculating = FALSE], t, 1) EXCEPT !.pre = t]
      [] s.counter > 1 /\ (valid \/ ~newBlock) /\ s.calculating -> WithinBlock(s, t)
      [] OTHER -> s

processTuple(s, t) ==
    NextTuple([s EXCEPT !.counter = @ + 1], t,
              s.counter > 0 /\ t[1] # s.pre[1], isAValidVar(s.vars[1], t[1]))

(* The tuple NULL closes the last partition. *)
CloseLast(s) == IF s.calculating THEN AddProduct(CloseColumns(s, 1), 1) ELSE s

(* The tuples, restricted to the columns of the given nodes *)
Fits(nodes, tuples) == \A c \in DOMAIN nodes : \A k \in DOMAIN tuples : nodes[c].pos <= Len(tuples[k])
Columns(nodes, tuples) == [k \in DOMAIN tuples |-> [c \in DOMAIN nodes |-> tuples[k][nodes[c].pos]]]

oneScan(root, tuples) ==
    LET sig == fillLeafNode(root)
    IN  CloseLast(FoldLeft(processTuple, NewState(sig, Len(sig)), Columns(sig, tuples)))

-----------------------------------------------------------------------------
(* Aggregations that give a signature the 1scan property.  The partitions  *)
(* are the entries of pt; ht0 and ht1 lead from a variable of the first    *)
(* and of the last column to its partition (0: NULL).                      *)

NewAggregation(nodes) ==
    NewState(nodes, Len(nodes)) @@ [pt |-> <<>>, ht0 |-> <<>>, ht1 |-> <<>>]

getPTEFromHT(ht, v) == IF v \in DOMAIN ht THEN ht[v] ELSE 0

(* A second entry for a variable is never found. *)
newVarEntry(ht, v, e) == IF v \in DOMAIN ht THEN ht ELSE ht @@ (v :> e)

IsNew(a, t, c, ht) ==
    \/ a.counter = 0
    \/ /\ t[c] # a.pre[c]
       /\ isAValidVar(a.vars[c], t[c])
       /\ getPTEFromHT(ht, t[c]) = 0

(* The partition of a tuple, found through the column that is not new *)
Partition(a, t, newX, newY) ==
    LET x == t[1]
        y == t[a.n]
    IN  CASE newX /\ newY ->
                [a EXCEPT !.pt = Append(@, [repre |-> x, prob |-> QZero]),
                          !.ht0 = newVarEntry(@, x, Len(a.pt) + 1),
                          !.ht1 = newVarEntry(@, y, Len(a.pt) + 1)]
          [] newX /\ ~newY -> [a EXCEPT !.ht0 = newVarEntry(@, x, getPTEFromHT(a.ht1, y))]
          [] newY /\ ~newX -> [a EXCEPT !.ht1 = newVarEntry(@, y, getPTEFromHT(a.ht0, x))]
          [] OTHER -> a

(* The partition of variable x becomes more probable. *)
AddToPartition(a, x, p) ==
    LET e == getPTEFromHT(a.ht0, x)
    IN  IF e = 0 THEN [a EXCEPT !.fault = TRUE]
        ELSE [a EXCEPT !.pt[e].prob = indeEventConjunc(@, p)]

SimpleStep(a0, t) ==
    LET newX == IsNew(a0, t, 1, a0.ht0)
        newY == IsNew(a0, t, 2, a0.ht1)
        a    == Partition(a0, t, newX, newY)
        a1   == IF newX THEN Lookup(a, t, {1}) ELSE a
        a2   == IF newX THEN AddToPartition(a1, t[1], a1.sum[1]) ELSE a1
    IN  IF a0.fault THEN a0 ELSE [a2 EXCEPT !.counter = @ + 1, !.pre = t]

simpleAggregation(nodes, tuples) ==
    FoldLeft(SimpleStep, NewAggregation(nodes), Columns(nodes, tuples))

(* The block of a first variable ends. *)
AddBlock(a) ==
    IF a.vars[1].varsToCombine > Len(a.ready) THEN [a EXCEPT !.fault = TRUE]
    ELSE [AddToPartition(a, a.pre[1], getProduct(a.vars[1], a.sum[1], a.ready))
          EXCEPT !.ready = AfterProduct(a.vars[1], @)]

CloseBlock(a) == AddBlock(CloseColumns(a, 1))

(* The columns of the child are looked up again from the beginning. *)
Restart(a, t) ==
    [Lookup(a, t, 1..(a.n - 1)) EXCEPT !.tempSum = [c \in DOMAIN @ |-> QZero]]

(* The block of another first variable begins. *)
NextBlock(a, t) == Lookup(a, t, 1..a.cursor)

(* One turn of the loop.  calculating is set by the first tuple and never  *)
(* reset, so that a block of a variable that was met before is also added. *)
Turn(a, t) ==
    CASE a.counter = 0 -> Restart([a EXCEPT !.calculating = TRUE, !.cursor = a.n - 1], t)
      [] a.counter > 0 /\ t[1] # a.pre[1] ->
            NextBlock([CloseBlock(a) EXCEPT !.cursor = 1 + a.vars[1].domain], t)
      [] OTHER -> WithinBlock(a, t)

AfterTurn(a, t, newX) == [IF newX THEN Restart(a, t) ELSE a EXCEPT !.counter = @ + 1, !.pre = t]

ComplexStep(a, t) ==
    LET newX == IsNew(a, t, 1, a.ht0)
        newY == IsNew(a, t, a.n, a.ht1)
    IN  IF a.fault THEN a ELSE AfterTurn(Turn(Partition(a, t, newX, newY), t), t, newX)

complexAggregation(nodes, tuples) ==
    CloseBlock(FoldLeft(ComplexStep, NewAggregation(nodes), Columns(nodes, tuples)))

RECURSIVE get1stLeafChild(_)
get1stLeafChild(node) == IF node.isLeaf THEN node ELSE get1stLeafChild(node.child[1])

(* The aggregation of the first child, along the first leaf of the second *)
Aggregation(c, next, tuples) ==
    IF c.isLeaf THEN simpleAggregation(<<c, next>>, tuples)
    ELSE complexAggregation(fillLeafNode(c) \o <<next>>, tuples)

(* Its first leaf takes its place. *)
ReplaceChild(node, agg) ==
    [node |-> calSibDomain([node EXCEPT !.child[1] =
                  [get1stLeafChild(@) EXCEPT !.withStar = FALSE, !.type = AGGREGATED, !.pt = agg.pt]]),
     fault |-> agg.fault]

(* The children are done.  The numbers of leaves are computed again for    *)
(* the node and what is below it, not for the nodes above.                 *)
ScheduleNode(node, bad, tuples) ==
    IF bad \/ is1Scan(node) THEN [node |-> node, fault |-> bad]
    ELSE ReplaceChild(node, Aggregation(node.child[1], get1stLeafChild(node.child[2]), tuples))

(* First the children, then the first child, get the 1scan property. *)
RECURSIVE schedule(_, _)
schedule(node, tuples) ==
    LET Done(subs) == ScheduleNode([node EXCEPT !.child = [k \in DOMAIN @ |-> subs[k].node]],
                                   \E k \in DOMAIN subs : subs[k].fault, tuples)
    IN  IF is1Scan(node) THEN [node |-> node, fault |-> FALSE]
        ELSE Done([k \in DOMAIN node.child |-> schedule(node.child[k], tuples)])

-----------------------------------------------------------------------------
(* What conf_accum and conf_final call *)

NoState == NewState(<<>>, 0)

(* advance with the 1scan property.  The array of leaves is made for the   *)
(* first tuple; for a second group it is gone with the memory context.     *)
Advance1Scan(sig, s, t) ==
    IF s.n = 0
    THEN processTuple(NewState(fillLeafNode(sig), Len(t)), t)
    ELSE IF s.counter = 0 THEN [s EXCEPT !.fault = TRUE]
    ELSE processTuple(s, t)

(* A failure ends the backend before there is a value. *)
Scanned(node, failed, s, last) ==
    [node |-> node, value |-> IF failed THEN QZero ELSE last.tempSum[1],
     state |-> IF failed THEN [s EXCEPT !.fault = TRUE] ELSE last]

ScanWith(sch, sig, s, tuples) ==
    Scanned(sch.node, ~Fits(fillLeafNode(sig), tuples) \/ sch.fault, s, oneScan(sch.node, tuples))

ScheduleAndScan(sig, s, tuples) == ScanWith(schedule(sig, tuples), sig, s, tuples)

-----------------------------------------------------------------------------
(* Properties *)

(* The clause of a tuple, filled up to the length of the longest ones *)
ClauseOf(t) == [a \in 1..WSD_LEN |-> <<t[IF a \in DOMAIN t THEN a ELSE 1], 1>>]

(* The answer for every group is the probability that one of its tuples is *)
(* in the database, although the operator never looks at more than two     *)
(* neighbours of the sorted lineage: partitions are found, propagated and  *)
(* closed in the right order, whatever the order of the variables.         *)
ExactOnHierarchical ==
    done # None /\ ~done.fault =>
        done.value = Confidence({ClauseOf(done.tuples[k]) : k \in DOMAIN done.tuples})

(* No NULL pointer is followed and no array is left: the tables of         *)
(* representatives last as long as the scan, and the list of probabilities *)
(* of complete columns holds as many as are taken from it.                 *)
NoSproutFault == ~state.fault /\ (done # None => ~done.fault)

(* c and d are connected by the equalities, in any order they are written. *)
Connected(q, c, d) ==
    LET Step(S) == S \cup {x \in UNION {Range(e) : e \in Range(q.joins)} :
                              \E e \in Range(q.joins) : x \in Range(e) /\ Range(e) \cap S # {}}
    IN  d \in FoldLeft(LAMBDA S, e : Step(S), {c}, q.joins)

RelationsOf(q, c) == {k \in DOMAIN q.from : \E a \in Attrs[q.from[k]] : Connected(q, c, <<k, a>>)}

NestedOrDisjoint(A, B) == A \subseteq B \/ B \subseteq A \/ A \cap B = {}

(* Hierarchical queries without self-joins *)
SafeQueries ==
    {q \in Queries :
        /\ IsInjective(q.from)
        /\ \A c, d \in UNION {Range(e) : e \in Range(q.joins)} :
              NestedOrDisjoint(RelationsOf(q, c), RelationsOf(q, d))}

(* A query that is left to the operator has what the operator relies on:   *)
(* the relations of its join attributes are nested or disjoint (an         *)
(* attribute is what the equalities connect), and no relation occurs       *)
(* twice.  isHQ and is_self_join look at the text of the query instead.    *)
SafePlansOnly ==
    \A m \in DOMAIN parsed : parsed[m].op = "HQ" => parsed[m].query \in SafeQueries
=============================================================================
