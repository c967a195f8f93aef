# A TLA+ model of MayBMS

MayBMS is a probabilistic database: PostgreSQL 8.3.3 with a query language for
incomplete and probabilistic relations. This directory specifies what MayBMS
adds to PostgreSQL in TLA+: the rewriting of queries, the creation of uncertain
tables, the algorithms for tuple confidences with their data structures and
session state, and `argmax`. TLC checks the modules on small instances; TLAPS
proves for all instances the invariants of the data structures, of the use of
session state, of the condition columns that statements leave in tables, of
`argmax` and of the sampling in `aconf`, and that the hash table implements a
plain table.

Paths below are relative to `src/postgresql-8.3.3/src/backend/maybms/` unless
they begin with `src/`.

## 1. The system

### Representation

An uncertain (t-uncertain) relation is an ordinary relation with triples of
*condition columns* (variable, range, probability). A triple says that the
tuple is present only in worlds that give the variable this range; all triples
of a tuple together are its *clause* (world-set descriptor, WSD), a
conjunction. Variables are independent. There is no stored world table: the
probability travels with each triple, and ranges that do not occur in the data
have the probability that is left. Two inconsistent triples in a clause (one
variable, two ranges) are filtered out when relations are joined.

The *confidence* of a tuple is the weight of the worlds in which at least one
of the clauses of its duplicates holds.

### Components, their state and operations

| component | files | state | operations |
|---|---|---|---|
| lineage and local world table | `localcond.c`, `include/maybms/localcond.h` | globals `S`, `NUM_WSDS`, `WSD_LEN`, `groupcxt`; in `generalState` an extendible hash table (`HT`, `mask`, buckets `mList`) and the arrays `wt_entries`, `rng_entries` | `advance`, `updateWorldTable`, `create_bucket`, `update_buckets`, `distribute_elements`, `getMissingRngs`, `computeEntryPointers` |
| exact confidence | `ws-tree.c` | maps temporarily dropped from the clauses in `S` | partitioning, variable elimination (`indve_compute_prob`) |
| confidence with a given error | `d-tree.c` | the same, and the flag that ends the refinement; `appro_approach`, `appro_epsilon` | bucketing, sorting, `decomposition_tree_exact`, `decomposition_tree_approximate` |
| Monte Carlo confidence | `aconf.c` | `tau` in every entry | `compute_estimator`, `AA_algorithm` |
| aggregates of a session | all of these, `SPROUT.c`, `tupleconf.c`, the executor's `nodeAgg.c` | the globals above over all statements of a backend; `genstate`, `state`, `lineage` of each `AggState` | transition and final functions, errors, cancels, crashes |
| hierarchical queries | `SPROUT.c`, `signature.c` | globals `sigTreeRoot`, `isOneScan`, `relList`; the list of tuples of a group | signatures of a query; `schedule`, `oneScan` |
| query rewriting | `rewrite.c`, `rewrite_updates.c`, `rewrite_utils.c`, `supported.c`, `utils.c` | parse trees | joins with consistency filter, `possible`, choice of the confidence algorithm, updates |
| creation of uncertainty | `repair_key.c`, `pick_tuples.c` | the sequence of variable numbers | `repair key`, `pick tuples` |
| other aggregates | `argmax.c`, `tupleconf.c` | `AggState` fields | `argmax`, `tconf`, `esum`, `ecount` |
| bitsets | `bitset.c` | words | set operations on positions of clauses |
| host database | PostgreSQL | | calls everything above |

A select with a confidence function is rewritten to an aggregate over the
condition columns. For every tuple of a duplicate group the executor calls the
transition function, which calls `advance`; at the end of the group it calls
the final function, which completes the world table, runs one of the
algorithms on `S` and deletes the memory context of the group. The components
communicate through the globals: there is one `groupcxt` and one `S` for the
backend process, whatever statement, plan node or aggregate uses them.

### What is hard

* *Shared session state.* Contexts without a parent, globals reset only on the
  path without errors, transition functions of different operators in an order
  the planner chooses, structures of an operator that outlive the context in
  which parts of them were allocated.
* *A hash table that grows while offsets into it are handed out*: directory
  doubling, buckets shared by several slots, splits that leave one half full.
* *In-place recursion*: the algorithms change the clauses on the way down and
  must restore them on every way up.
* *Early decisions*: the d-tree ends on bounds of the whole tree that are
  never stored, only carried along as coefficients.
* *Randomised loops* that end only because no estimate can be zero.
* *Boundaries*: reserved variables, ranges that are missing, sums that are 1.
* *Rewriting far from execution*: the signature of a query is left in globals
  when its text is parsed and read when it is executed, possibly after other
  statements were parsed.
* *Composition*: tables created from queries carry their conditions into later
  queries, where they meet themselves; numbers of variables must never be
  used twice, although statements fail after they have drawn some.
* *State beside the transition value*: the maximum that `argmax` compares with
  lives in the aggregation node, over groups, calls and scans.

### What makes each part correct

* local world table: one entry per variable, found again by every later
  lookup; offsets stay valid; arrays are not overrun; lookups end; together:
  it implements the plain table a linear search would build;
* aggregates: a confidence is computed from the lineage of its own group;
* exact confidence: equal to the weight of the worlds;
* given error: within the error of the weight of the worlds;
* Monte Carlo: unbiased estimator, loops that end;
* hierarchical queries: the operator gives the confidence of the lineage,
  the plan it is given is its own, and it never leaves its arrays;
* rewriting, repair-key, pick-tuples: the rewritten statements, world by world,
  are the statements; clauses stay consistent; a table is of the type it is
  recorded with; each variable has one distribution;
* argmax: a returned argument belongs to a row with the maximal value of its
  group, and several calls on one value return columns of one row.

## 2. Modules

| module | models | with |
|---|---|---|
| `WorldTable` | what the local world table promises: the abstract specification | |
| `LocalCond` | `localcond.c`: the hash table and the clauses | `LocalCond_proofs`, `WorldTable_proofs`, `MCLocalCond` |
| `ConfAgg` | the life of `groupcxt`, `S` and the aggregates' structures over a session | `ConfAgg_proofs`, `MCConfAgg` |
| `Rationals` | exact arithmetic on probabilities | |
| `Lineage` | clauses and world table as the algorithms find them, and `Confidence`, the reference: a sum over the possible worlds | |
| `ClauseSets` | partitioning and dropped maps, of which `ws-tree.c` and `d-tree.c` have a copy each | |
| `WsTree` | `ws-tree.c` | `MCWsTree` |
| `QuickSort` | the sort of `d-tree.c` | checked through `DTree` |
| `DTree` | `d-tree.c` | `MCDTree` |
| `AConf` | `aconf.c` | `AConf_proofs`, `MCAConf` |
| `Signature` | `signature.c`: subgoals, hierarchy test, signature, 1scan test | checked through `Sprout` |
| `SproutSession` | the globals, statements and groups around the operator: rewriting, start, transition and final function | `SproutSession_proofs` |
| `Sprout` | the algorithms of `SPROUT.c` that it calls, and the choice of the operator in `rewrite.c` | `MCSprout` |
| `PossibleWorlds` | what the query language promises, as a distribution over databases: an abstract specification | |
| `URelations` | `rewrite.c`, `repair_key.c`, `pick_tuples.c`, `tupleconf.c`: statements on condition columns | `URelations_proofs`, `MCURelations` |
| `Argmax` | `argmax.c` in the aggregation node (`nodeAgg.c`) | `Argmax_proofs`, `MCArgmax` |
| `ArithmeticLemmas` | lemmas on folds, sums and finite sets, and on `Rationals` | used by the proofs |

`WsTree`, `DTree`, `AConf` and `Sprout` extend `Lineage`; `LocalCond` is shown to
implement `WorldTable`, whose tables are what `Lineage` takes for granted, and
`URelations` to implement `PossibleWorlds`. `URelations` takes the confidence of a
set of clauses from its definition; that the algorithms compute it is the
subject of `WsTree`, `DTree` and `Sprout`.

### LocalCond

State: `S` and its capacity, the clause being advanced (`wsd`, `j`), the
directory `HT` with `width` = mask + 1, all buckets ever allocated in the group
(`heap`, with a flag for freed ones), the entries `wt` with their ranges, and
`oob`, set when a write of `update_buckets` falls outside the directory.
`advance` starts a clause; `updateWorldTable` is the lookup of one map, in
steps (`FindEntry`, `CreateBucket`, `AllocateEntry`, then the loop: `SplitBucket`
until `AppendKey`); `FinalGroup` is the end of the group. A step of the loop is
an action of its own because the properties speak about the states between
splits. Numbers of bits are represented by widths, a bucket's two parallel
arrays by the set of its entries.

### ConfAgg

A clause is reduced to the name of the tuple it came from, a confidence to the
set of tuples it was computed from. What is kept is which context everything
lives in, what is reset where, and in which order the executor calls. A NULL
pointer that is followed kills the backend; one into a deleted context kills it
or yields what the memory holds. The constant `Env` says what may happen beside
a plain run of the statements: cancels, errors, operators evaluated inside the
group of another.

### WsTree, DTree, AConf

`advance` collects clauses, the final function computes. The algorithms are
recursive operators that thread `S` through, because they change it. The
arithmetic is exact; rounding is not modelled. `AConf` replaces the random
draw by a choice among all clauses and worlds that can be drawn and keeps the
probability of each, so that the expectation is computed and not sampled; the
thresholds that AA derives from epsilon and delta with logarithms are
constants. In `DTree` the share of the stopping number below which a leaf is
closed (0.001) is a constant.

### Signature, SproutSession, Sprout

A query is its from clause and its equalities; rows of base relations have a
variable each (tuple-independent relations). `pg_parse_query` rewrites a
statement and leaves signature, 1scan flag and relation list in globals;
`ExecutorStart` starts one that waits; `conf_accum` and `conf_final` are called group by group on
the sorted lineage. The trees that the code edits in place are values;
`schedule`, `simpleAggregation`, `complexAggregation` and `oneScan` are operators on
records that hold their arrays. A NULL pointer that is followed and an array
that is left are a fault.

`SproutSession` has the state and the actions. What they call are constant
operators, to which the configurations give the definitions of `Sprout`; so
TLC checks the session with its algorithms, and the proofs about the
session hold for any algorithms and stay clear of the recursive operators that
walk the trees.

### PossibleWorlds, URelations

A table is a bag of tuples, each a row with the sequence of its triples.
The actions are statements: `create table ... as` a select, a repair or a pick,
and queries with `conf`, `tconf`, `esum`, `ecount` or `possible`; a repair or a pick may fail
on a weight or a probability after it has drawn numbers from the sequences.
Which numbers a failing repair has drawn depends on the plan: none when its
input is hashed or sorted, some when it is read in order; `RepairFails` allows
both. Type of the result,
condition columns kept and the consistency filter are those of the rewriting.
The refinement mapping makes a distribution over databases of the tables: for
every valuation of all variables, the tuples whose triples it satisfies.
`PossibleWorlds` evaluates the same statement in each database.

### Argmax

State of the node and of each hash entry: transition values (the row whose
argument was chosen) and the maximum for each type of value. Each call on a
row is a step. Sorted and hashed aggregation, the boundary of groups, the
return of groups and another scan (with other rows, or of the same hash table)
are the remaining actions.

## 3. Runs

Passing runs:

| run | question | result |
|---|---|---|
| `hash` | Do splits, doublings and shared buckets keep every variable findable, single and inside the arrays? | Yes, in every order of lookups, as long as no *late bucket* is created (below). |
| `clauses` | Are offsets right when the table has grown? Does every lookup end? Does the hash table implement `WorldTable`? | Yes. |
| `plain` | Statements whose operators are inside a group one at a time | Each confidence has its own lineage; no fault; nothing is left between statements. |
| `aborts` | The same with cancelled and failing statements | Later statements may crash the backend, and an `aconf()` over no tuple may return NaN; none returns a confidence of other lineage. |
| `exact` | Is variable elimination exact? Are clauses restored? | Yes, for clauses of two maps. |
| `aconf` | Is the Karp-Luby estimator unbiased, repeated variables and completed ranges included? Do the loops of AA end whatever is drawn, within the worst case? | Yes. The answer may exceed the bag sum by less than one estimate: step 3 makes ceil(N) estimates and divides by N. |
| `dtree` | Is the error asked for respected, do the bounds by bucketing enclose the confidence, and are clauses restored, when every variable has one range (tuple-independent relations)? | Yes. |
| `dtree_wide` | Does the quicksort with median of medians sort? Do the bounds enclose the confidence when variables have alternatives? | Yes, for clauses of one map. |
| `sprout` | Is `conf()` exact on hierarchical queries, for both operators? Does each statement run with its own signature? | Yes, for joins on keys and attributes as in the query set `Sound` (the exceptions are below). |
| `worlds` | Do rewritten statements, and tables created from earlier ones, mean what they mean in each possible world? Is each variable drawn once, with ranges that sum to at most 1? | Yes, for the statements of the query set `Sound`, failed statements in between. They read tables: neither this run nor the theorems on `URelations` say anything of a union used as a subquery (section 5). |
| `argmax` | Do sorted and hashed aggregation with several calls return a maximal argument? Is the invariant of the proofs inductive in reach? | An argument that is returned is maximal; a sorted aggregation may return none (below). |

One run expects a violation; its finding in `PROJECT.json` quotes the comment:

| run | what happens |
|---|---|
| `late_bucket` | The first variable of a residue class arrives when the directory has been doubled: `create_bucket` starts from a slot that is too high, so lower slots stay empty and slots beyond the directory are written. |

More configurations stand beside the runs. Each of them drops one of the
restrictions of a passing run, and TLC's counterexample shows that the
restriction is needed. `tlc -config X.cfg M` with the module of the run repeats
it; two of them are variants of another file with other constants.

| configuration | violated | what TLC finds |
|---|---|---|
| `ConfAgg_multiple.cfg` | `OwnLineage` | Two confidence functions in a select are let through, because the error is commented out (`rewrite.c:173`). |
| `ConfAgg_leftover.cfg` | `OwnLineage` | A many-scan `conf()` cancelled inside a group leaves `groupcxt` set and `S` NULL: the next `aconf()` over no tuple divides by zero clauses (`aconf.c:258`) and returns NaN, not the 0 of "If there is no tuple, return probability 0" (`aconf.c:525`). |
| `ConfAgg_nested.cfg` | `OwnLineage` | An inner `conf()` evaluated inside the group of an outer one shares its globals. |
| `ConfAgg_tconf.cfg` | `OwnLineage` | `tconf()` resets `groupcxt` inside a group. |
| `ConfAgg_onescan.cfg` | `OwnLineage` | The 1scan operator keeps, for its second group, an array of the deleted context. |
| `WsTree_selfjoin.cfg` | `ExactConfidence` | A reserved variable that occurs twice in a clause is eliminated twice, and a clause is lost. |
| `DTree_alternatives.cfg` | `EpsilonApproximation` | Subsumption compares variables and not ranges: clauses are lost and the confidence is too small. |
| `Sprout_selfjoin.cfg` | `ExactOnHierarchical` | `is_self_join` never compares the last relation, so a relation joined with itself is given to the operator for independent relations. |
| `Sprout_selfjoin.cfg` with `Queries <- ThePartOfKey`, `Databases <- CompositePairs` | `ExactOnHierarchical` | A join on a part of a composite primary key passes for a join on the key. |
| `Sprout_selfjoin.cfg` with `Queries <- TheStarBeside` | `ExactOnHierarchical` | With a signature P\*(R\*S\*)\* an aggregated column lies inside the block of another relation. |
| `Sprout_grouped.cfg` | `NoSproutFault` | Several groups with a signature that has the 1scan property. |
| `Sprout_disconnected.cfg` | `NoSproutFault` | A join in which no equality connects some relations. |
| `Sprout_string.cfg` | `OwnSignature` | Two statements in one query string: both are rewritten before the first is executed. |
| `URelations_tconf.cfg` | `ImplementsPossibleWorlds` | `ecount` of a join of an independent relation with a table derived from it multiplies a probability twice (`ecount` as described in `src/Documents/language.tex`). |
| `URelations_tconf.cfg` with `Statements <- Repairing` | `ImplementsPossibleWorlds` | repair-key on an uncertain table is let through; the manual restricts it to t-certain queries, and the error is commented out. |
| `Argmax_sorted.cfg` | `MaximalArgument` | A group after one with a greater value: the maximum of the node is not reset, and the group gets no argument. |
| `Argmax_sorted.cfg` with `Scores <- WithNegative` and `Strategies = {"AGG_HASHED"}` | `MaximalArgument` | The maximum starts at 0: values below 0 are never chosen. |
| `Argmax_shared.cfg` | `NeverSubmaximal` | Two calls with values of one type share the field that holds the maximum. |

### Bounds, and why they are enough

* `hash`: two initial slots and buckets of one entry instead of 2^10 and 30, so
  that the second variable of a class splits and the third doubles; eight
  variables are all residues modulo 8, five lookups reach three doublings and
  a split that leaves one half full twice in a row. The theorems remove the
  bounds. `clauses` has one slot, two maps per clause and two ranges, the least
  with which offsets of a clause are stored before a later map moves the arrays.
* `ConfAgg`: two tuples and two or three statements, with a node for each kind of
  aggregate; exact and many-scan nodes have two groups, the others one, as their
  transition functions are the same. A leftover needs one statement to arise and
  one to be met; a third meets what the second left.
* `exact`: three clauses of two maps over three variables, one of which has all
  its ranges and two do not: partitions, a variable with clauses for one range,
  for several and for none, emptied clauses, repeated variables. `WsTree_selfjoin.cfg`
  has three maps, so that the reserved variable occurs twice.
* `aconf`: three clauses of two maps over two variables, so that a world
  satisfies none, one or several clauses and a clause names a variable twice;
  thresholds of one and two estimates instead of thousands: the loops are the
  same.
* `dtree`: four clauses over four variables, the least with which both parts
  of a partition have to be refined. The share at which leaves are closed is
  1/2 so that closing with a gap happens on trees this small. The test
  for closing in the code (`condition_whole_upper`) leaves out the upper bound
  of the leaf itself and by itself does not protect the error: with a share of 1
  TLC finds an answer outside the error asked for. What protects it is that
  each closed leaf hides at most its share, so the error can be exceeded only
  by closing more leaves than the reciprocal of the share: two in this run,
  1000 in the code.
* `dtree_wide`: six clauses, more than one group of five of the median of
  medians.
* `sprout`: queries of one to four relations with up to three rows each: signatures with
  and without the 1scan property, nested stars, groups, and two queries that
  are not hierarchical and must be left to the general operator. Where R has at
  most two rows and T none, a session is two statements, any two of the queries
  one after the other, so that the second finds the globals and the tree that
  the first has left; elsewhere it is one statement.
* `worlds`: tables of two to four different rows with two keys; statements read up to three tables,
  also the same one twice and tables that were created by statements before.
  `MaxTables` bounds the tables that exist, `MaxWasted` the numbers that failed
  statements use up: one is enough to tell a sequence that rolls back.
* `argmax`: three rows in two groups (groups that interleave in a hash table, or
  a boundary with rows on both sides), values below, at and above the initial 0,
  three calls of which two share an attribute, and another scan with any two
  rows. The theorems remove the bounds.

### Fairness

`LookupTerminates` assumes weak fairness of `updateWorldTable`, `Terminates` of
`aconf_final` and `AA_algorithm`. Both are function calls that run to their end
in one process: a loop that has a next turn takes it. No fairness is assumed of
the arrival of tuples or statements. `Terminates` holds for every outcome of
the draws, so no fairness of the random generator is needed either.

### Deadlock

The runs on `LocalCond` check for deadlock: between groups the table is always
ready. The others stop when the computation is done, all rows are returned or the
session has had its statements.

## 4. Proofs

### LocalCond_proofs

For every set of variables and ranges and all sizes:

* `TypeCorrect`: `Spec => []TypeOK`.
* `HashTableSound`: `Spec /\ []NoLateBucket => []IInv`, and from it
  `NoDuplicateEntry`, `LookupsFindEntries`, `NoFreedBucket`, `BucketsShared`.
* `SoundFromOneSlot`: with `INITWIDTH = 1`, `Spec => []IInv`.

That a lookup finds an entry is not inductive: it must be known that slots that
share a bucket are exactly those that agree modulo its width, that widths
divide the width of the directory with a quotient that is a power of two (so
that doubling a width short of the directory stays within it), that the entries
of a bucket agree with its slots modulo its width, that slots of one initial
class are empty together, and that while room is made the new entry is the last
one. `IInv` is the conjunction of these; TLC checks it in run `hash`. Powers of
two are stated without exponentiation (`Doublings`: every divisor of the
quotient is 1 or even), which suffices to halve the gap and stays in the
reach of the provers. The hypothesis `[]NoLateBucket` is necessary: run
`late_bucket` is the counterexample without it. It is a condition on the
order of the input, so the theorem says exactly which inputs are safe, and
`SoundFromOneSlot` that the defect lies in where `create_bucket` starts.

### WorldTable_proofs

About the same module, what the rest of the system takes from it:

* `OffsetsStayFaithful`: `Spec => []OffsetsFaithful`, late buckets or not;
* `WritesWithinAllocation`: `Spec /\ []NoLateBucket => []WithinAllocation`;
* `RefinesWorldTable`: `Spec /\ []NoLateBucket => ImplementsWorldTable`;
* `RefinesFromOneSlot`: with `INITWIDTH = 1` both hold with no hypothesis.

Offsets are faithful by an invariant on the clause being advanced and on the
stored ones (`OffsetInv`) that never looks at the hash table: entries only grow
at their end. For the arrays the invariant (`AllocInv`) is that there is room
for one more element *before* every step, because the code doubles an array
right after it has filled it. For the refinement the abstract table is that of the
entries that a bucket already names; `RefInv` adds to the invariant of
`HashTableSound` that the entry for which room is being made has no range yet.
A lookup, the step that appends the key, and the end of a group map to steps
of `WorldTable`; splits and doublings map to stutters.

### ConfAgg_proofs

For any number of nodes, groups, tuples and statements, under `OneAtATime` (one
confidence function per select, a 1scan operator with a single group, no
operator evaluated inside the group of another):

* `SessionInvariant`: `Spec => []SessionInv`, also with cancels and errors.
* `LeftoversAreNotLineage`: `Spec => []NoForeignLineage`, so the only wrong answer
  after an abort is NaN, from an `aconf()` over no tuple.
* `FailStop`: `Spec => []OwnLineage` if no node is an `aconf()`, also with cancels
  and errors.
* with `Env \subseteq {"approach_error"}` also `CleanInvariant` (`[]CleanInv`), and from it
  `OwnLineageInSession` (`[]OwnLineage`, `aconf()` included), `NoFaultInSession` (no
  NULL or freed pointer is followed), `EmptyGroupsOnly` (a final function that finds
  `groupcxt` NULL has a group without tuples) and `CleanSession` (nothing is left
  between statements).

The invariant has to say who owns `S`: the one general operator that is inside a
group, or an aborted statement, and in the latter case all structures of the
running statement that could be combined with it are zeroed, so a final
function that meets it follows a NULL pointer before it computes anything. A
`groupcxt` left without an `S` is met by `aconf_final` only with an empty group:
that is the NaN. Each conjunct of `OneAtATime` is needed: the
configurations `ConfAgg_multiple.cfg`, `ConfAgg_nested.cfg`, `ConfAgg_tconf.cfg`
and `ConfAgg_onescan.cfg` violate `OwnLineage` without it.

### Argmax_proofs

For any rows, groups, strategy and number of calls and scans, under `TypesApart`
(calls that share a field of the state have the same value attribute):

* `ArgmaxInvariant`: `Spec => []ArgmaxInv`;
* `ArgmaxSound`, `ArgmaxOneRow`, `ArgmaxHashed`: `NeverSubmaximal`, `OneRow` and
  `MaximalInHashTable` always hold.

The properties speak of returned groups; the invariant says what holds in the
middle of a row, when some calls have seen it and others have not. There the
maximum may already be that of the current row while the argument of a later
call is still an earlier row (`Chosen`), and what an earlier call decided must
be readable from the maximum (`Decided`), so that a later call on the same
attribute decides alike (`Together`). That ties go to the later row is what makes
this work: with `>=` in place of `>` the second call would keep its old row. A
group whose rows have all been seen is then ready (`GroupDone`). In a sorted
input the rows before a boundary and those after it are of different groups, so
the maximum left by other groups can hide a row but never promote one.
`TypesApart` is needed: `Argmax_shared.cfg` violates `NeverSubmaximal` without it.

### URelations_proofs

For any statements, tables, rows, weights and probabilities that satisfy
`URelationsAssumption` (types of the constants):

* `CondColumnsInvariant`: `Spec => []CondColumnsInv`;
* `JoinsStayConsistent`, `TypesStayFaithful`, `TablesShareOneWorldTable`,
  `RangesStayWithinOne`: `ConsistentClauses`, `TypesFaithful`, `OneWorldTable` and
  `RangesWithinOne` always hold.

`URelationsAssumption` says that base rows are pairs of integers, that weights are
integers and probabilities fractions; their sign and size are free, since
`test_negative` and `test_from_0_to_1` are part of the actions. It is stated for
the rows that can occur, those of the base tables' values and 0, so that TLC
can evaluate it.

None of the four is inductive. The condition that the rewriting adds to a join
compares the U-relations only (`remove_mutual_exclusiveness`), so that a clause
stays consistent when a tuple-independent table takes part depends on where
else its variables occur. `CondColumnsInv` says: every variable in a table was
drawn before (so the next one is new, also after failed statements); a variable
and a range determine the triple, over all tables; a variable of an independent
table occurs with one range everywhere; a certain table has no condition
columns and a table without condition columns no triples (a union decides its
type by counting columns); and the ranges of each variable, collected over all
tables, are together at most 1 (`SharesInv`).

For the last part, the ranges of a variable are all created by one statement:
repair-key draws one variable per key and writes one triple per different row
of the key, pick-tuples one per row; every later table only repeats triples.
So a statement either leaves the set of ranges of a variable alone or creates it
whole. For pick-tuples it is one number that the test has let through. For
repair-key it is the set of fractions weight/sum, whose total has to be shown to be
sum/sum: `TotalOfShares` adds them up one row at a time, next to the sum of
the weights that the rewriting computes, which needs that the sum of a set can
be taken in any order (`SumAnyOrder`) and that different rows of a key have
different ranges (`IntegerRanks`), because a set of triples counts equal ones once.
TLC has checked `CondColumnsInv` on the instance of run `worlds`.

### SproutSession_proofs

For any queries, databases, number of statements and algorithms:

* `GlobalsOfOneQuery`: `Spec => []GlobalsAgree`, whatever is rewritten ahead: the
  signature, the query it is built from again and the 1scan flag belong together;
* under `OneStatementPerString` (`MaxAhead = 1`), `SessionInvariant`:
  `Spec => []SessionInv`, and `SignatureIsOwn`: `Spec => []OwnSignature`.

The signature is left by the rewriting and read by the execution, and
`conf_final` aggregates it in place and builds it again from the global list of
subgoals, so `OwnSignature` needs that this list is still that of the running
query, and before that of the one that waits (`OwnGlobals`). The condition is
needed: `Sprout_string.cfg` violates `OwnSignature` with two statements in a
query string. TLC has checked `SessionInv` for three statements out of four queries.

### AConf_proofs

For every database whose ranges have positive probabilities (repair-key and
pick-tuples drop rows of weight 0 and refuse negative ones), every lineage and
all positive thresholds:

* `EstimatorInvariant`: `Spec => []AAInv`;
* `StoppingRuleIsBounded`: `Spec => []StoppingRuleBounded`;
* `AnswerStaysInRange`: `Spec => []AnswerInRange`.

The core is `SampleSatisfied`: the clause that was drawn holds in the world
drawn with it. It needs that every variable of every clause has an entry in the
world table that `advance` built and `getMissingRngs` completed, and that maps
of one variable in a clause agree on the range, the reserved variable included.
So an estimate is never 0. `AAInv` carries that through the three steps: the
sum of a step is one of as many estimates as were counted, each between
1/`NUM_WSDS` and 1; N of step 1 is positive when the sum has reached the
threshold, `rho_hat` is at least `Epsilon * mu_hat`, so every division is by a
positive number; and step 3 makes less than N + 1 estimates. TLC has checked
`AAInv` on the instance of run `aconf`.

### ArithmeticLemmas

The models use the folds of the community modules (`SumFunctionOnSet`,
`MapThenSumSet`, `FoldLeft`, `FlattenSeq`). These are defined by choosing a function
that satisfies an equation, so a fold has a value only if such a function
exists; `FoldExists`, `LeftFoldExists` and `LeftFoldChain` show that it does and
list its values step by step. Induction is used as the absence of a least
counterexample in a set (`LeastNatural`, `NaturalsByInduction`, `NoMinimalSubset`),
which the provers can instantiate. The same is done for the recursion of
`GCD` (Euclid's algorithm ends, and the result divides both
numbers); further lemmas show that `QAdd`, `QSub`, `QMul`, `QDiv` and `QLess` are the
arithmetic and the order of fractions.

### Only model-checked

* Liveness: `LookupTerminates`, `Terminates`.
* The refinement of `PossibleWorlds` and `Unbiased`: they equate sums over all
  worlds, and the products of independent parts of a world have to be taken
  apart; `ArithmeticLemmas` rearranges a sum, but has no such lemma.
* The algorithms of `WsTree`, `DTree` and `Sprout` (`ExactConfidence`,
  `LineageRestored`, `EpsilonApproximation`, `BoundsEnclose`, `ClausesRestored`,
  `SortedByProbability`, `ExactOnHierarchical`, `NoSproutFault`, `SafePlansOnly`):
  recursive operators, which the prover cannot handle. `ExactOnHierarchical`,
  `NoSproutFault` and `SafePlansOnly` are also false outside the queries of run
  `sprout`, as the configurations in section 3 show.

## 5. Not modelled

* Rounding of float4 and float8 (for instance the tests `prob == 1.0`), NULL and
  NaN in keys, weights and values.
* The (1 - delta) guarantee of `aconf`, a statement about random variables.
* The branches of `advance` for hashed aggregation, which the rewriting avoids.
* The editing of parse trees in the rewriting (names, aliases, expansion of
  `*`), subqueries in where clauses, and the checks of `supported.c`, whose error
  is commented out.
* Unions in a from clause. A plain select there is rewritten first and then
  treated like a stored table of its type, which `URelations` has. A union has
  an empty from clause of its own, so `process_select` types it
  `TABLETYPE_CERTAIN` (`rewrite.c:450`) although its arms carry conditions, and the
  select around it ignores them. `TypesFaithful` and `ImplementsPossibleWorlds`
  are about stored tables, unions among them, and do not cover this.
* Inserts and updates: `pg_parse_query` passes only selects to the rewriting
  (`tcop/postgres.c:582`), so `rewrite_updates.c` is reached only through
  `explain`; the stored world table of `WORLD_TABLE_ENABLE` is never compiled.
* Bitsets: the models use sets. Every bitset is reset after `bitset_init` except
  the full one of `conf`, whose unused bits are harmless.
* PostgreSQL itself, except the aggregation node, the order in which a query
  string is rewritten and executed and what an error or a crash leaves. It is
  most of the repository's lines; storage, planning, transactions and the
  client programs are the unchanged host of the system.
* The PIP plugin in `src/pip_plugin`, a separate system with its own patched
  server; demos, documents and the website.

## 6. Plan

1. Done: all modules of section 2; proofs for `LocalCond` with its refinement of
   `WorldTable`, `ConfAgg`, `URelations`, `AConf`, `Argmax` and `SproutSession`.
2. Proofs: the steps of the refinement of `PossibleWorlds` that create no
   variable (selects and unions), where a valuation keeps its weight.
3. Float rounding in the tests for empty clauses, with intervals in the place
   of rationals.
