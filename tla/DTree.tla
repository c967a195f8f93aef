-------------------------------- MODULE DTree --------------------------------
(***************************************************************************)
(* Confidence with a guaranteed error, conf(approach, epsilon)             *)
(* (backend/maybms/d-tree.c): a decomposition tree is refined, leaf by     *)
(* leaf, until the bounds of the whole tree are close enough.  With        *)
(* epsilon = 0 the tree is computed completely.                            *)
(*                                                                         *)
(* The tree is never stored: a call computes the bounds of a node, and     *)
(* carries the coefficients and constants by which they enter the bounds   *)
(* of the root.  The clauses in S are changed and restored on the way, so  *)
(* S is threaded through the recursion.  An approach other than "R" and    *)
(* "A" is an error, which is a case of ConfAgg.                            *)
(***************************************************************************)
EXTENDS ClauseSets, QuickSort

CONSTANTS
    Tuples,         \* the clauses of the tuples that may be in the group
    Requests,       \* <<approach, epsilon>> of the queries
    CloseFraction,  \* a leaf whose gap is this share of the stopping number
                    \*   is small enough to be closed (0.001)
    MaxWSDs         \* bound: clauses of the group

ASSUME DTreeAssumption ==
    /\ Tuples \subseteq Clauses
    /\ MaxWSDs \in Nat
    /\ \A r \in Requests : r[1] \in {"R", "A"} /\ QLess(r[2], QOne)

VARIABLES
    lineage,   \* the clauses of the group, as the tuples carry them
    S,         \* the clauses as advance() leaves them
    wt,        \* the local world table
    request,   \* the query's approach and epsilon
    result     \* the confidence returned, <<>> before that

vars == <<lineage, S, wt, request, result>>

-----------------------------------------------------------------------------
(* Bounds: bucketing *)

Or(p, q) == QSub(QAdd(p, q), QMul(p, q))

exists_in_bucket(d, bucket) ==
    \E k \in 1..WSD_LEN : d.data[k].rng # DROPPED /\ d.data[k].var \in bucket.vars

add_to_bucket(d, bucket) ==
    [vars |-> bucket.vars \cup {d.data[k].var : k \in {x \in 1..WSD_LEN : d.data[x].rng # DROPPED}},
     prob |-> Or(bucket.prob, d.prob)]

EmptyBucket == [vars |-> {}, prob |-> QZero]

(* A clause joins the first bucket that it shares no variable with, or a   *)
(* new one.                                                                *)
PutIn(buckets, d, k) ==
    IF k = 0 THEN Append(buckets, add_to_bucket(d, EmptyBucket))
             ELSE [buckets EXCEPT ![k] = add_to_bucket(d, buckets[k])]

(* Mutant: every clause goes to the first bucket. *)
FindBucket_First(buckets, d) == IF buckets = <<>> THEN 0 ELSE 1

FindBucket(buckets, d) == SelectInSeq(buckets, LAMBDA b : ~exists_in_bucket(d, b))

Buckets(s, set) ==
    FoldLeft(LAMBDA bs, i : IF i \in set THEN PutIn(bs, s[i], FindBucket(bs, s[i])) ELSE bs,
             <<>>, [i \in DOMAIN s |-> i])

QAtMostOne(q) == IF QLess(QOne, q) THEN QOne ELSE q

QLarger(p, q) == IF QLess(p, q) THEN q ELSE p

BucketProbs(bs) == [k \in DOMAIN bs |-> bs[k].prob]

BoundsOf(probs) ==
    [lower |-> FoldLeft(QLarger, QZero, probs), upper |-> QAtMostOne(QSum(probs))]

(* Clauses of a bucket are independent: its probability is exact.  The     *)
(* largest is a lower bound, the sum of all an upper bound.                *)
compute_upper_and_lower_bounds(s, set) ==
    BoundsOf(BucketProbs(Buckets(s, set)))

-----------------------------------------------------------------------------
(* Variable elimination *)

(* The maps of the set that are not dropped, in the order of the scan.     *)
Occurrences(s, set) ==
    SelectSeq([n \in 1..(Len(s) * WSD_LEN) |->
                  <<((n - 1) \div WSD_LEN) + 1, ((n - 1) % WSD_LEN) + 1>>],
              LAMBDA x : x[1] \in set /\ s[x[1]].data[x[2]].rng # DROPPED)

VarAt(s, x) == s[x[1]].data[x[2]].var

(* occur_count when the scan has reached the k-th occurrence. *)
OccurCount(s, occ, k) == Cardinality({q \in 1..k : VarAt(s, occ[q]) = VarAt(s, occ[k])})

(* The first of the candidates with the largest running count. *)
MostFrequent(s, occ, candidates) ==
    Min({k \in candidates :
            \A q \in candidates : OccurCount(s, occ, q) <= OccurCount(s, occ, k)})

Chosen(s, occ, k) == [var |-> VarAt(s, occ[k]), column |-> occ[k][2]]

ChooseAmong(s, occ, same) ==
    IF occ = <<>> THEN [var |-> -1, column |-> 0]
    ELSE Chosen(s, occ, MostFrequent(s, occ, IF same # {} THEN same ELSE DOMAIN occ))

SameColumn(s, occ, column) ==
    ChooseAmong(s, occ, {k \in DOMAIN occ : occ[k][2] = column})

(* A variable of the latest column with most occurrences, else of any.     *)
choose_var_max_occur_same_column(s, set, column) ==
    SameColumn(s, Occurrences(s, set), column)

EntryOf(t, v) == t[SelectInSeq(t, LAMBDA x : x.var = v)]

DropMaps(d, v, r) ==
    [data |-> [k \in 1..WSD_LEN |->
                  IF d.data[k].var = v /\ d.data[k].rng = r
                  THEN Map(v, DROPPED, d.data[k].prob) ELSE d.data[k]],
     prob |-> FoldLeft(LAMBDA p, m : IF m.var = v /\ m.rng = r THEN QDiv(p, m.prob) ELSE p,
                       d.prob, d.data)]

(* The clauses with v -> r, those maps dropped; the scan stops at the      *)
(* first clause nothing is left of, restores and empties the set.  (Unlike *)
(* in ws-tree.c all maps v -> r of a clause are dropped.)                  *)
find_wsds_with_var_rng(s, set, v, r) ==
    LET with  == {i \in set : \E k \in 1..WSD_LEN : s[i].data[k].var = v /\ s[i].data[k].rng = r}
        empty == {i \in with : DropMaps(s[i], v, r).prob = QOne}
        seen  == IF empty = {} THEN with ELSE {i \in with : i <= Min(empty)}
        less  == [i \in DOMAIN s |-> IF i \in seen THEN DropMaps(s[i], v, r) ELSE s[i]]
    IN  [null |-> with = {},
         set  |-> IF empty = {} THEN with ELSE {},
         S    |-> IF empty = {} THEN less ELSE reset_wsds_var_rng(less, seen, v, r)]

(* Clause i, as far as it is left, uses only variables of clause j.        *)
VarsFound(s, i, j) ==
    \A k \in 1..WSD_LEN :
        s[i].data[k].rng # DROPPED => \E h \in 1..WSD_LEN : s[i].data[k].var = s[j].data[h].var

(* The union without the clauses of set2 that are considered subsumed.     *)
bitset_union_removing_subsumption(s, set1, set2) ==
    set1 \cup {j \in set2 : \A i \in set1 : ~VarsFound(s, i, j)}

-----------------------------------------------------------------------------
(* The complete tree.  All operators return a probability and S. *)

RECURSIVE decomposition_tree_exact(_, _, _, _)

ExactAdd(acc, r, v, found, sub) ==
    IF ~found.null /\ found.set = {}
    THEN [p |-> QAdd(acc.p, r.p), S |-> found.S]
    ELSE [p |-> QAdd(acc.p, QMul(r.p, sub.p)),
          S |-> IF found.null THEN sub.S ELSE reset_wsds_var_rng(sub.S, found.set, v, r.rng)]

(* found.set is empty for a range that does not occur. *)
ExactRange(acc, r, v, without, found, t, column) ==
    ExactAdd(acc, r, v, found,
             decomposition_tree_exact(found.S,
                 bitset_union_removing_subsumption(found.S, found.set, without), t, column))

ExactEliminate(s, subset, t, choice, rngs) ==
    FoldLeft(LAMBDA acc, r : ExactRange(acc, r, choice.var,
                                        find_wsds_without_var(acc.S, subset, choice.var),
                                        find_wsds_with_var_rng(acc.S, subset, choice.var, r.rng),
                                        t, choice.column),
             [p |-> QZero, S |-> s], rngs)

ExactLeft(s, subset, t, choice) ==
    IF Cardinality(subset) = 1 THEN [p |-> s[Min(subset)].prob, S |-> s]
    ELSE IF choice.var = -1 THEN [p |-> QOne, S |-> s]
    ELSE ExactEliminate(s, subset, t, choice, EntryOf(t, choice.var).rngs)

ExactCombine(left, right) == [p |-> Or(left.p, right.p), S |-> right.S]

ExactRight(left, rest, t, column) ==
    IF left.p = QOne THEN left
    ELSE ExactCombine(left, decomposition_tree_exact(left.S, rest, t, column))

ExactSplit(s, set, subset, t, column) ==
    ExactRight(ExactLeft(s, subset, t, choose_var_max_occur_same_column(s, subset, column)),
               set \ subset, t, column)

decomposition_tree_exact(s, set, t, column) ==
    IF set = {} THEN [p |-> QZero, S |-> s]
    ELSE ExactSplit(s, set, find_independent_split(s, set), t, column)

-----------------------------------------------------------------------------
(* The tree refined as far as necessary.  A context has the world table    *)
(* (t), the query (q), the probability of the path (path), and the lines   *)
(* coef * x + const by which a bound x of this node enters those of the    *)
(* root: upper, lower, and the upper one for the case that all leaves to   *)
(* come are refined to their lower bound (cond).                           *)

Query(r) ==
    [relative |-> r[1] = "R",
     stop     |-> IF r[1] = "R" THEN QDiv(QMul(<<2, 1>>, r[2]), QSub(QOne, r[2]))
                                ELSE QMul(<<2, 1>>, r[2])]

Identity == [coef |-> QOne, const |-> QZero]

(* The stopping condition on bounds of the root.  In the relative case the *)
(* gap is divided by lower; a quotient by 0 is never small enough.         *)
Reached(q, upper, lower) ==
    IF q.relative
    THEN QLess(QZero, lower) /\ ~QLess(QMul(q.stop, lower), QSub(upper, lower))
    ELSE ~QLess(q.stop, QSub(upper, lower))

SmallGap(q, gap, lower) ==
    ~QLess(QMul(QMul(CloseFraction, q.stop), IF q.relative THEN lower ELSE QOne), gap)

(* Mutant: the rest of the tree is forgotten. *)
Whole_NodeOnly(line, left, right) == QMul(line.coef, Or(left, right))

Whole(line, left, right) == QAdd(QMul(line.coef, Or(left, right)), line.const)

(* The line of a range with probability p, beside the other ranges.        *)
RangeLine(line, right, others, p) ==
    [coef  |-> QMul(QMul(line.coef, QSub(QOne, right)), p),
     const |-> QAdd(line.const, QMul(line.coef, Or(right, others)))]

(* The line of the right part, beside the left one. *)
RightLine(line, left) ==
    [coef  |-> QMul(line.coef, QSub(QOne, left)),
     const |-> QAdd(line.const, QMul(line.coef, left))]

SumUpper(b) == QSum([k \in DOMAIN b |-> b[k].upper])
SumLower(b) == QSum([k \in DOMAIN b |-> b[k].lower])

(* Upper bounds of the ranges done, lower bounds of those to come. *)
CondSum(b, i) ==
    QSum([k \in DOMAIN b |-> IF k < i THEN b[k].upper ELSE IF k > i THEN b[k].lower ELSE QZero])

RangeContext(c, b, i, right, p) ==
    LET low == RangeLine(c.lower, right.lower, QSub(SumLower(b), b[i].lower), p)
    IN  [c EXCEPT !.path  = QMul(c.path, p),
                  !.upper = RangeLine(c.upper, right.upper, QSub(SumUpper(b), b[i].upper), p),
                  !.lower = low,
                  !.cond  = [coef  |-> low.coef,
                             const |-> QAdd(c.cond.const,
                                            QMul(c.cond.coef, Or(right.lower, CondSum(b, i))))]]

RightContext(c, left) ==
    [c EXCEPT !.upper = RightLine(c.upper, left.upper),
              !.lower = RightLine(c.lower, left.lower),
              !.cond  = RightLine(c.upper, left.upper)]

(* First round: the bounds of every range. *)
Scaled(p, bounds, closed) ==
    [lower |-> QMul(p, bounds.lower), upper |-> QMul(p, bounds.upper), closed |-> closed]

FirstRange(acc, r, v, without, found) ==
    IF ~found.null /\ found.set = {}
    THEN [S |-> found.S,
          b |-> Append(acc.b, Scaled(r.p, [lower |-> QOne, upper |-> QOne], TRUE))]
    ELSE [S |-> reset_wsds_var_rng(found.S, found.set, v, r.rng),
          b |-> Append(acc.b, Scaled(r.p, compute_upper_and_lower_bounds(found.S,
                                              found.set \cup without), FALSE))]

FirstRound(s, subset, v, without, rngs) ==
    FoldLeft(LAMBDA acc, r : FirstRange(acc, r, v, without,
                                        find_wsds_with_var_rng(acc.S, subset, v, r.rng)),
             [S |-> s, b |-> <<>>], rngs)

(* Second round: stop, close a leaf, or refine it.  All operators return   *)
(* bounds, S and whether the stopping condition is satisfied.              *)
RECURSIVE decomposition_tree_approximate(_, _, _)

Refined(acc, i, v, r, found, sub) ==
    [S    |-> reset_wsds_var_rng(sub.S, found.set, v, r.rng),
     b    |-> [acc.b EXCEPT ![i] = Scaled(r.p, sub, FALSE)],
     stop |-> sub.stop]

Refine(acc, i, c, right, v, r, without, found) ==
    Refined(acc, i, v, r, found,
            decomposition_tree_approximate(found.S,
                bitset_union_removing_subsumption(found.S, found.set, without),
                RangeContext(c, acc.b, i, right, r.p)))

Leaf(acc, i, c, right, subset, v, r, without, whole_upper, whole_lower, condition_whole_upper) ==
    IF Reached(c.q, whole_upper, whole_lower) THEN [acc EXCEPT !.stop = TRUE]
    ELSE IF \/ acc.b[i].closed
            \/ /\ Reached(c.q, condition_whole_upper, whole_lower)
               /\ SmallGap(c.q, QMul(QSub(acc.b[i].upper, acc.b[i].lower), c.path), whole_lower)
    THEN acc
    ELSE Refine(acc, i, c, right, v, r, without,
                find_wsds_with_var_rng(acc.S, subset, v, r.rng))

SecondRound(first, c, right, subset, v, without, rngs) ==
    FoldLeft(LAMBDA acc, i :
                 IF acc.stop THEN acc
                 ELSE Leaf(acc, i, c, right, subset, v, rngs[i], without,
                           Whole(c.upper, SumUpper(acc.b), right.upper),
                           Whole(c.lower, SumLower(acc.b), right.lower),
                           Whole(c.cond, CondSum(acc.b, i), right.lower)),
             [S |-> first.S, b |-> first.b, stop |-> FALSE], [i \in DOMAIN rngs |-> i])

Summed(x) == [lower |-> SumLower(x.b), upper |-> SumUpper(x.b), S |-> x.S, stop |-> x.stop]

Eliminate(s, c, right, subset, v, without, rngs) ==
    Summed(SecondRound(FirstRound(s, subset, v, without, rngs),
                       c, right, subset, v, without, rngs))

NodeBounds(left, right, s, stop) ==
    [lower |-> Or(left.lower, right.lower), upper |-> Or(left.upper, right.upper),
     S |-> s, stop |-> stop]

WithRight(left, right) == NodeBounds(left, right, right.S, right.stop)

(* The right part is refined last, unless the bounds are good by then. *)
ThenRight(left, right, rest, c, stop) ==
    IF stop \/ right.lower = QZero THEN NodeBounds(left, right, left.S, stop)
    ELSE WithRight(left, decomposition_tree_approximate(left.S, rest, RightContext(c, left)))

AfterLeft(left, right, rest, c) ==
    ThenRight(left, right, rest, c,
              left.stop \/ Reached(c.q, Whole(c.upper, left.upper, right.upper),
                                        Whole(c.lower, left.lower, right.lower)))

Exactly(p, s) == [lower |-> p, upper |-> p, S |-> s, stop |-> FALSE]

ApproximateNode(s, subset, rest, c, right, v) ==
    IF Cardinality(subset) = 1
    THEN AfterLeft(Exactly(s[Min(subset)].prob, s), right, rest, c)
    ELSE IF v = -1 THEN Exactly(QOne, s)
    ELSE AfterLeft(Eliminate(s, c, right, subset, v, find_wsds_without_var(s, subset, v),
                             EntryOf(c.t, v).rngs), right, rest, c)

(* Here the latest column is never passed down: it is none (-1). *)
ApproximateSplit(s, set, subset, c) ==
    ApproximateNode(s, subset, set \ subset, c,
                    compute_upper_and_lower_bounds(s, set \ subset),
                    choose_var_max_occur_same_column(s, subset, -1).var)

decomposition_tree_approximate(s, set, c) ==
    IF set = {} THEN Exactly(QZero, s)
    ELSE ApproximateSplit(s, set, find_independent_split(s, set), c)

-----------------------------------------------------------------------------
(* The aggregate *)

Init ==
    /\ lineage = <<>> /\ S = <<>> /\ wt = <<>> /\ result = <<>>
    /\ request \in Requests

(* A tuple of the group: advance(). *)
advance(d) ==
    /\ result = <<>>
    /\ Len(S) < MaxWSDs
    /\ lineage' = Append(lineage, d)
    /\ S' = Append(S, MakeClause(d))
    /\ wt' = FoldLeft(updateWorldTable, wt, MakeClause(d).data)
    /\ UNCHANGED <<request, result>>

(* epsilon > 0: sort, and build the tree if the first bounds do not do.    *)
UnlessReached(s, c, first) ==
    IF Reached(c.q, first.upper, first.lower)
    THEN [lower |-> first.lower, upper |-> first.upper, S |-> s]
    ELSE decomposition_tree_approximate(s, DOMAIN s, c)

Approximated(s, c) == UnlessReached(s, c, compute_upper_and_lower_bounds(s, DOMAIN s))

Answer(r, x) ==
    IF r[1] = "R"
    THEN QDiv(QAdd(QMul(x.upper, QSub(QOne, r[2])), QMul(x.lower, QAdd(QOne, r[2]))), <<2, 1>>)
    ELSE QDiv(QAdd(x.upper, x.lower), <<2, 1>>)

(* epsilon = 0: the complete tree, unless the first bounds are equal.      *)
Computed(s, t, first) ==
    IF QLess(first.lower, first.upper) THEN decomposition_tree_exact(s, DOMAIN s, t, -1)
    ELSE [p |-> first.upper, S |-> s]

RootContext(t, r) ==
    [t |-> t, q |-> Query(r), path |-> QOne,
     upper |-> Identity, lower |-> Identity, cond |-> Identity]

conf_appro_final_ge ==
    /\ result = <<>>
    /\ S # <<>>
    /\ wt' = getMissingRngs(wt)
    /\ \/ /\ QLess(QZero, request[2])
          /\ \E x \in {Approximated(quicksort(S, 1, Len(S)), RootContext(wt', request))} :
                result' = Answer(request, x) /\ S' = x.S
       \/ /\ ~QLess(QZero, request[2])
          /\ \E x \in {Computed(S, wt', compute_upper_and_lower_bounds(S, DOMAIN S))} :
                result' = x.p /\ S' = x.S
    /\ UNCHANGED <<lineage, request>>

Next == (\E d \in Tuples : advance(d)) \/ conf_appro_final_ge

Spec == Init /\ [][Next]_vars

-----------------------------------------------------------------------------
(* Properties *)

(* |p - p^| <= epsilon * p (relative), |p - p^| <= epsilon (absolute): the *)
(* answer of conf(approach, epsilon) against the possible worlds.  With    *)
(* epsilon = 0 it is the exact confidence.                                 *)
EpsilonApproximation ==
    result # <<>> =>
        LET p   == Confidence(Range(lineage))
            err == IF request[1] = "R" THEN QMul(request[2], p) ELSE request[2]
        IN  ~QLess(err, QSub(p, result)) /\ ~QLess(err, QSub(result, p))

(* The bounds by bucketing, which all decisions rest on, enclose the       *)
(* confidence of the clauses.                                              *)
BoundsEnclose ==
    LET b == compute_upper_and_lower_bounds(S, DOMAIN S)
        p == Confidence(Range(lineage))
    IN  ~QLess(p, b.lower) /\ ~QLess(b.upper, p)

(* "Quicksort the clauses according to their probabilities": with an error *)
(* allowed the clauses end up in the order of their probability, the       *)
(* largest first, whatever the search for medians has swapped.             *)
SortedByProbability ==
    result # <<>> /\ QLess(QZero, request[2]) =>
        \A k \in 1..(Len(S) - 1) : ~QLess(S[k].prob, S[k + 1].prob)

(* However the refinement ends (leaf closed, stopped half way, complete),  *)
(* every clause has its maps and its probability again.                    *)
ClausesRestored ==
    \E f \in Permutations(DOMAIN S) :
        S = [i \in DOMAIN lineage |-> MakeClause(lineage[f[i]])]
=============================================================================
