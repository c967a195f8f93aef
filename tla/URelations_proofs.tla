-------------------------- MODULE URelations_proofs --------------------------
(***************************************************************************)
(* Whatever statements are run in whatever order, on whatever base tables, *)
(* weights and probabilities, the condition columns stay well formed: no   *)
(* clause contradicts itself, a table's type says what its clauses are,    *)
(* and all tables together describe one world table.                       *)
(***************************************************************************)
EXTENDS URelations, ArithmeticLemmas

TableTypes == {TABLETYPE_CERTAIN, TABLETYPE_INDEPENDENT, TABLETYPE_URELATION}

(* The tables of a catalogue r, the triples of a table R, and those of all *)
TablesIn(r) == {t \in Tables : r[t] # NoTable}
TriplesOf(R) == TriplesIn({x.cond : x \in DOMAIN R.tuples})
TriplesAll(r) == UNION {TriplesOf(r[t]) : t \in TablesIn(r)}

(* A clause is consistent and made of variables that were given out, v     *)
(* being the next one.                                                     *)
ClauseInv(cond, v) ==
    /\ cond \in Seq(Range(cond))
    /\ \A k \in DOMAIN cond : cond[k][1] \in Nat /\ cond[k][1] < v
    /\ \A k, l \in DOMAIN cond : cond[k][1] = cond[l][1] => cond[k] = cond[l]

(* A finite bag of rows with clauses *)
BagInv(tuples, v) ==
    /\ IsFiniteSet(DOMAIN tuples)
    /\ \A x \in DOMAIN tuples : x.row \in Rows /\ tuples[x] \in Nat /\ ClauseInv(x.cond, v)

(* One tuple per variable and one triple per tuple *)
IndependentInv(tuples) ==
    \A x, y \in DOMAIN tuples :
        /\ Len(x.cond) = 1 /\ tuples[x] = 1
        /\ x # y => x.cond[1][1] # y.cond[1][1]

(* The number of condition columns of a certain table is 0, and without    *)
(* condition columns there are no triples: a union of a certain table and  *)
(* others is certain because of the number of its columns only.            *)
TableInv(R, v) ==
    /\ R.type \in TableTypes /\ R.dimension \in Nat
    /\ R.type = TABLETYPE_CERTAIN => R.dimension = 0
    /\ R.dimension = 0 => \A x \in DOMAIN R.tuples : x.cond = <<>>
    /\ R.type = TABLETYPE_INDEPENDENT => IndependentInv(R.tuples)
    /\ BagInv(R.tuples, v)

(* A variable and a range determine the triple, and a variable of an       *)
(* independent table does so alone: no other table has another range of    *)
(* it.  This is what makes the joins consistent that are not checked.      *)
WorldTableInv(r) ==
    /\ \A x, y \in TriplesAll(r) : x[1] = y[1] /\ x[2] = y[2] => x = y
    /\ \A t \in TablesIn(r) : r[t].type = TABLETYPE_INDEPENDENT =>
          \A x \in TriplesOf(r[t]), y \in TriplesAll(r) : x[1] = y[1] => x = y

(* The sum of the probabilities of ranges, and that it is not above 1 *)
TotalOf(S) == QTotal(S, LAMBDA x : x[3])
WithinOne(S) == ~QLess(QOne, TotalOf(S))

(* The ranges of a variable *)
RangesOf(T, v) == {x \in T : x[1] = v}
SharesInv(T) == \A v \in {x[1] : x \in T} : WithinOne(RangesOf(T, v))

CatalogInv(r, v, d) ==
    /\ r = [t \in Tables |-> r[t]]
    /\ v \in Nat /\ d \in Nat
    /\ \A t \in TablesIn(r) : TableInv(r[t], v)
    /\ WorldTableInv(r)
    /\ SharesInv(TriplesAll(r))

(* The inductive invariant *)
CondColumnsInv == CatalogInv(rel, varid, domid)

-----------------------------------------------------------------------------
(* Rows *)

LEMMA RowTypes ==
    /\ Values \subseteq Int /\ 0 \in Values
    /\ \A r \in Rows : /\ r[1] \in Values /\ r[2] \in Values /\ r = <<r[1], r[2]>>
                       /\ WeightOf(r) \in Int /\ ProbOf(r) \in Rat
    /\ \A t \in DOMAIN BaseContents : DOMAIN BaseContents[t] \subseteq Rows
  <1> DEFINE base == UNION {DOMAIN BaseContents[t] : t \in DOMAIN BaseContents}
  <1>1. \A r \in base : r \in Int \X Int
    BY URelationsAssumption
  <1>2. Values = {0} \cup UNION {{r[1], r[2]} : r \in base}
    BY DEF Values
  <1>3. \A t \in DOMAIN BaseContents : DOMAIN BaseContents[t] \subseteq base
    OBVIOUS
  <1> HIDE DEF base
  <1>4. ASSUME NEW v \in Values PROVE v \in Int
    <2>1. CASE v = 0
      BY <2>1
    <2>2. CASE v # 0
      <3>1. PICK r \in base : v \in {r[1], r[2]}
        BY <1>2, <2>2
      <3> QED
        BY <1>1, <3>1
    <2> QED
      BY <2>1, <2>2
  <1>5. ASSUME NEW r \in base PROVE r \in Rows
    <2>1. r[1] \in Values /\ r[2] \in Values
      BY <1>2
    <2>2. r = <<r[1], r[2]>>
      BY <1>1
    <2> QED
      BY <2>1, <2>2 DEF Rows
  <1>6. 0 \in Values
    BY <1>2
  <1>7. \A r \in Rows : r[1] \in Values /\ r[2] \in Values /\ r = <<r[1], r[2]>>
    BY DEF Rows
  <1>8. \A r \in Rows : WeightOf(r) \in Int /\ ProbOf(r) \in Rat
    BY URelationsAssumption
  <1> QED
    BY <1>3, <1>4, <1>5, <1>6, <1>7, <1>8

-----------------------------------------------------------------------------
(* Triples *)

(* The triples of a table are those of its clauses. *)
LEMMA TriplesOfClauses ==
    ASSUME NEW R
    PROVE  /\ \A x \in DOMAIN R.tuples : \A k \in DOMAIN x.cond : x.cond[k] \in TriplesOf(R)
           /\ \A z \in TriplesOf(R) : \E x \in DOMAIN R.tuples : \E k \in DOMAIN x.cond : z = x.cond[k]
  BY DEF TriplesOf, TriplesIn, Range

LEMMA TriplesOfTables ==
    ASSUME NEW r
    PROVE  /\ \A t \in TablesIn(r) : \A z \in TriplesOf(r[t]) : z \in TriplesAll(r)
           /\ \A z \in TriplesAll(r) : \E t \in TablesIn(r) : z \in TriplesOf(r[t])
  BY DEF TriplesAll

(* The invariant contains the properties. *)
LEMMA InvariantGivesProperties ==
    CondColumnsInv => ConsistentClauses /\ TypesFaithful /\ OneWorldTable /\ RangesWithinOne
  <1> SUFFICES ASSUME CondColumnsInv
               PROVE  ConsistentClauses /\ TypesFaithful /\ OneWorldTable /\ RangesWithinOne
    OBVIOUS
  <1>1. /\ \A t \in Catalog : TableInv(rel[t], varid)
        /\ WorldTableInv(rel) /\ SharesInv(TriplesAll(rel))
        /\ Catalog = TablesIn(rel)
    BY DEF CondColumnsInv, CatalogInv, Catalog, TablesIn
  <1>2. ConsistentClauses
    <2> SUFFICES ASSUME NEW cond \in AllConds
                 PROVE  \A k, l \in DOMAIN cond : cond[k][1] = cond[l][1] => cond[k] = cond[l]
      BY DEF ConsistentClauses
    <2>1. PICK t \in Catalog : \E x \in DOMAIN rel[t].tuples : cond = x.cond
      BY DEF AllConds, TuplesOf
    <2>2. ClauseInv(cond, varid)
      BY <1>1, <2>1 DEF TableInv, BagInv
    <2> QED
      BY <2>2 DEF ClauseInv
  <1>3. TypesFaithful
    <2> SUFFICES ASSUME NEW t \in Catalog
                 PROVE  /\ TypeOf(t) = TABLETYPE_CERTAIN => \A x \in DOMAIN TuplesOf(t) : x.cond = <<>>
                        /\ TypeOf(t) = TABLETYPE_INDEPENDENT => IndependentInv(TuplesOf(t))
      BY DEF TypesFaithful, IndependentInv
    <2> QED
      BY <1>1 DEF TableInv, TypeOf, TuplesOf
  <1>4. TriplesIn(AllConds) = TriplesAll(rel)
    BY <1>1 DEF AllConds, TriplesAll, TriplesOf, TriplesIn, TuplesOf
  <1>5. OneWorldTable
    BY <1>1, <1>4 DEF OneWorldTable, WorldTableInv
  <1>6. RangesWithinOne
    BY <1>1, <1>4 DEF RangesWithinOne, SharesInv, WithinOne, TotalOf, RangesOf
  <1> QED
    BY <1>2, <1>3, <1>5, <1>6

-----------------------------------------------------------------------------
(* Sums of probabilities *)

(* h is the total of the subsets of D. *)
TotalsTo(h, D) ==
    /\ TotalOf(D) = h[D] /\ h[{}] = QZero
    /\ \A s \in SUBSET D : s # {} => \E x \in s : h[s] = QAdd(x[3], h[s \ {x}])

LEMMA TotalFold ==
    ASSUME NEW D, IsFiniteSet(D), \A x \in D : x[3] \in Rat
    PROVE  \E h : TotalsTo(h, D)
  <1> DEFINE G == [p \in D \X Rat |-> QAdd(p[1][3], p[2])]
             Rule(h) == h = [s \in SUBSET D |->
                               IF s = {} THEN QZero
                               ELSE QAdd((CHOOSE x \in s : TRUE)[3], h[s \ {CHOOSE x \in s : TRUE}])]
  <1>1. QZero \in Rat
    BY DEF QZero, Rat
  <1>2. ASSUME NEW p \in Rat, NEW q \in Rat PROVE QAdd(p, q) \in Rat
    <2>1. Value(QAdd(p, q), p[1] * q[2] + q[1] * p[2], p[2] * q[2])
      BY RatParts, AddValue
    <2> QED
      BY <2>1 DEF Value
  <1>3. G \in [D \X Rat -> Rat]
    <2>1. ASSUME NEW p \in D \X Rat PROVE QAdd(p[1][3], p[2]) \in Rat
      BY <1>2
    <2> QED
      BY <2>1
  <1>4. PICK h \in [SUBSET D -> Rat] : ChosenFold(h, D, QZero, G)
    <2> HIDE DEF G
    <2> QED
      BY <1>1, <1>3, ChosenFoldExists
  <1>5. \A x \in D, q \in Rat : G[<<x, q>>] = QAdd(x[3], q)
    OBVIOUS
  <1>6. Rule(h)
    <2> HIDE DEF G
    <2>1. ASSUME NEW s \in SUBSET D, s # {}
          PROVE  h[s] = QAdd((CHOOSE x \in s : TRUE)[3], h[s \ {CHOOSE x \in s : TRUE}])
      <3>1. (CHOOSE x \in s : TRUE) \in s
        BY <2>1
      <3>2. PICK c \in D : c = CHOOSE x \in s : TRUE
        BY <3>1
      <3>3. h[s] = G[<<c, h[s \ {c}]>>]
        BY <1>4, <2>1, <3>2 DEF ChosenFold
      <3>4. s \ {c} \in SUBSET D /\ h[s \ {c}] \in Rat
        BY <1>4
      <3> QED
        BY <1>5, <3>2, <3>3, <3>4
    <2>2. h[{}] = QZero
      BY <1>4 DEF ChosenFold
    <2>3. h = [s \in SUBSET D |-> h[s]]
      BY <1>4
    <2> QED
      BY <2>1, <2>2, <2>3
  <1>7. PICK g : g = CHOOSE f : Rule(f)
    OBVIOUS
  <1>8. Rule(g) /\ TotalOf(D) = g[D]
    <2>1. \E f : Rule(f)
      BY <1>6, Zenon
    <2> QED
      BY <1>7, <2>1 DEF TotalOf, QTotal, MapThenFoldSet
  <1>9. g[{}] = QZero
    BY <1>8
  <1>10. ASSUME NEW s \in SUBSET D, s # {} PROVE \E x \in s : g[s] = QAdd(x[3], g[s \ {x}])
    <2>1. g[s] = QAdd((CHOOSE x \in s : TRUE)[3], g[s \ {CHOOSE x \in s : TRUE}])
      BY <1>8, <1>10
    <2>2. (CHOOSE x \in s : TRUE) \in s
      BY <1>10
    <2> QED
      BY <2>1, <2>2
  <1> QED
    BY <1>8, <1>9, <1>10 DEF TotalsTo

(* g is the sum of the weights of the subsets of R. *)
WeightOfAll(R) == MapThenSumSet(WeightOf, R)
WeighsTo(g, R) ==
    /\ WeightOfAll(R) = g[R] /\ g[{}] = 0 /\ g \in [SUBSET R -> Nat]
    /\ \A s \in SUBSET R : \A r \in s : g[s] = WeightOf(r) + g[s \ {r}]

LEMMA WeightFold ==
    ASSUME NEW R, IsFiniteSet(R), \A r \in R : WeightOf(r) \in Nat
    PROVE  \E g : WeighsTo(g, R)
  <1> DEFINE G == [p \in R \X Nat |-> WeightOf(p[1]) + p[2]]
             f == [r \in R |-> WeightOf(r)]
             Rule(h) == h = [s \in SUBSET R |->
                               IF s = {} THEN 0
                               ELSE WeightOf(CHOOSE x \in s : TRUE) + h[s \ {CHOOSE x \in s : TRUE}]]
             c == [s \in SUBSET R |-> CHOOSE x \in s : TRUE]
  <1>1. G \in [R \X Nat -> Nat] /\ 0 \in Nat
    OBVIOUS
  <1>2. PICK h \in [SUBSET R -> Nat] : ChosenFold(h, R, 0, G)
    <2> HIDE DEF G
    <2>1. PICK V : V = Nat
      OBVIOUS
    <2>2. \E h \in [SUBSET R -> V] : ChosenFold(h, R, 0, G)
      BY <1>1, <2>1, ChosenFoldExists, Zenon
    <2> QED
      BY <2>1, <2>2
  <1>3. \A x \in R, n \in Nat : G[<<x, n>>] = WeightOf(x) + n
    OBVIOUS
  <1>4. Rule(h)
    <2> HIDE DEF G
    <2>1. ASSUME NEW s \in SUBSET R, s # {}
          PROVE  h[s] = WeightOf(CHOOSE x \in s : TRUE) + h[s \ {CHOOSE x \in s : TRUE}]
      <3>1. (CHOOSE x \in s : TRUE) \in s
        BY <2>1
      <3>2. PICK d \in R : d = CHOOSE x \in s : TRUE
        BY <3>1
      <3>3. h[s] = G[<<d, h[s \ {d}]>>]
        BY <1>2, <2>1, <3>2 DEF ChosenFold
      <3>4. s \ {d} \in SUBSET R /\ h[s \ {d}] \in Nat
        BY <1>2
      <3> QED
        BY <1>3, <3>2, <3>3, <3>4
    <2>2. h[{}] = 0
      BY <1>2 DEF ChosenFold
    <2>3. h = [s \in SUBSET R |-> h[s]]
      BY <1>2
    <2> QED
      BY <2>1, <2>2, <2>3
  <1>5. PICK g : g = CHOOSE k : Rule(k)
    OBVIOUS
  <1>6. Rule(g) /\ WeightOfAll(R) = g[R]
    <2>1. \E k : Rule(k)
      BY <1>4, Zenon
    <2> QED
      BY <1>5, <2>1 DEF WeightOfAll, MapThenSumSet, MapThenFoldSet
  <1>7. \A s \in SUBSET R : s # {} => c[s] \in s /\ c[s] \in R /\ f[c[s]] \in Nat
    OBVIOUS
  <1>8. /\ g[{}] = 0 /\ g = [s \in SUBSET R |-> g[s]]
        /\ \A s \in SUBSET R : s # {} => g[s] = f[c[s]] + g[s \ {c[s]}]
    BY <1>6
  <1> HIDE DEF c, G, Rule, f
  <1>9. \A s \in SUBSET R : g[s] \in Nat
    <2>1. \A s \in SUBSET R : s # {} => c[s] \in s /\ (g[s \ {c[s]}] \in Nat => g[s] \in Nat)
      <3> SUFFICES ASSUME NEW s \in SUBSET R, s # {}, g[s \ {c[s]}] \in Nat PROVE g[s] \in Nat
        BY <1>7
      <3>1. g[s] = f[c[s]] + g[s \ {c[s]}] /\ f[c[s]] \in Nat
        BY <1>7, <1>8, Zenon
      <3> QED
        BY <3>1
    <2>2. g[{}] \in Nat
      BY <1>8
    <2>3. PICK V : V = Nat
      OBVIOUS
    <2>4. \A s \in SUBSET R : g[s] \in V
      BY <2>1, <2>2, <2>3, FoldTyped, Zenon
    <2> QED
      BY <2>3, <2>4, Zenon
  <1>10. g \in [SUBSET R -> Nat]
    BY <1>8, <1>9
  <1>11. \A r \in R : f[r] = WeightOf(r)
    BY DEF f
  <1>12. \A s \in SUBSET R : s # {} => \E r \in s : g[s] = f[r] + g[s \ {r}]
    BY <1>7, <1>8, Zenon
  <1>13. \A s \in SUBSET R : \A r \in s : g[s] = f[r] + g[s \ {r}]
    <2>1. \A r \in R : f[r] \in Nat
      BY <1>11
    <2>2. AddsUp(g, f, R)
      BY <1>10, <1>12, Zenon DEF AddsUp
    <2>3. AddsUpAnyhow(g, f, R)
      BY <2>1, <2>2, SumAnyOrder, Zenon
    <2> QED
      BY <2>3 DEF AddsUpAnyhow
  <1> QED
    <2>1. \A s \in SUBSET R : \A r \in s : g[s] = WeightOf(r) + g[s \ {r}]
      BY <1>11, <1>13
    <2> QED
      BY <1>6, <1>8, <1>10, <2>1, Zenon DEF WeighsTo

(* The ranges of a variable, one for every row of R, share 1 in proportion *)
(* to the weights: f is the row of a range.                                *)
LEMMA TotalOfShares ==
    ASSUME NEW R, IsFiniteSet(R), \A r \in R : WeightOf(r) \in Nat \ {0},
           NEW D, IsFiniteSet(D), NEW f \in [D -> R],
           \A x, y \in D : f[x] = f[y] => x = y,
           \A r \in R : \E x \in D : r = f[x],
           R # {}, NEW T, T = WeightOfAll(R),
           \A x \in D : x[3] = Q(WeightOf(f[x]), T)
    PROVE  T \in Nat \ {0} /\ Value(TotalOf(D), T, T)
  <1>0. PICK g : WeighsTo(g, R)
    <2>1. \A r \in R : WeightOf(r) \in Nat
      OBVIOUS
    <2> QED
      BY <2>1, WeightFold, Zenon
  <1>1. /\ T = g[R] /\ g[{}] = 0 /\ g \in [SUBSET R -> Nat]
        /\ \A s \in SUBSET R : \A r \in s : g[s] = WeightOf(r) + g[s \ {r}]
    BY <1>0 DEF WeighsTo
  <1>2. T \in Nat \ {0}
    <2>1. PICK r \in R : TRUE
      OBVIOUS
    <2>2. R \in SUBSET R /\ R \ {r} \in SUBSET R
      OBVIOUS
    <2>3. T = WeightOf(r) + g[R \ {r}] /\ g[R \ {r}] \in Nat /\ WeightOf(r) \in Nat \ {0}
      BY <1>1, <2>2
    <2> QED
      BY <2>3
  <1>3. ASSUME NEW x \in D PROVE WeightOf(f[x]) \in Nat /\ Value(x[3], WeightOf(f[x]), T)
    <2>1. f[x] \in R /\ WeightOf(f[x]) \in Nat /\ WeightOf(f[x]) \in Int
      OBVIOUS
    <2>2. Value(Q(WeightOf(f[x]), T), WeightOf(f[x]), T)
      BY <1>2, <2>1, QuotientValue
    <2> QED
      BY <2>1, <2>2
  <1>3a. PICK h : TotalsTo(h, D)
    <2>1. \A x \in D : x[3] \in Rat
      BY <1>3 DEF Value
    <2> QED
      BY <2>1, TotalFold, Zenon
  <1>4. /\ TotalOf(D) = h[D] /\ h[{}] = QZero
        /\ \A s \in SUBSET D : s # {} => \E x \in s : h[s] = QAdd(x[3], h[s \ {x}])
    BY <1>3a DEF TotalsTo
  <1> DEFINE Image(s) == {f[x] : x \in s}
             B == {s \in SUBSET D : ~Value(h[s], g[Image(s)], T)}
  <1>5. ASSUME NEW s \in B PROVE \E t \in B : t \subseteq s /\ t # s
    <2>1. s \in SUBSET D /\ ~Value(h[s], g[Image(s)], T)
      OBVIOUS
    <2>2. s # {}
      <3> SUFFICES ASSUME s = {} PROVE FALSE
        OBVIOUS
      <3>1. Image(s) = {}
        OBVIOUS
      <3>2. g[Image(s)] = 0
        BY <1>1, <3>1
      <3>3. Value(h[s], 0, T)
        BY <1>2, <1>4 DEF Value, QZero, Rat
      <3> HIDE DEF Image
      <3> QED
        BY <2>1, <3>2, <3>3
    <2>3. PICK x \in s : h[s] = QAdd(x[3], h[s \ {x}])
      BY <1>4, <2>1, <2>2
    <2> DEFINE t == s \ {x}
    <2>4. t \in SUBSET D /\ t \subseteq s /\ t # s /\ x \in D
      BY <2>1, <2>3
    <2>5. Image(t) = Image(s) \ {f[x]} /\ f[x] \in Image(s) /\ Image(s) \in SUBSET R /\ Image(t) \in SUBSET R
      BY <2>1, <2>3, <2>4
    <2> HIDE DEF Image, t
    <2>6. g[Image(s)] = WeightOf(f[x]) + g[Image(t)] /\ g[Image(t)] \in Nat
      BY <1>1, <2>5
    <2>7. ASSUME Value(h[t], g[Image(t)], T) PROVE FALSE
      <3>1. PICK a \in Int : a = WeightOf(f[x])
        BY <1>3, <2>4
      <3>2. PICK b \in Int : b = g[Image(t)]
        BY <2>6
      <3>3. Value(x[3], a, T) /\ Value(h[t], b, T)
        BY <1>3, <2>4, <2>7, <3>1, <3>2
      <3>4. Value(QAdd(x[3], h[t]), a * T + b * T, T * T)
        BY <1>2, <3>3, AddValue
      <3>5. /\ a * T + b * T \in Int /\ T * T \in Nat \ {0} /\ a + b \in Int
            /\ (a * T + b * T) * T = (a + b) * (T * T)
        BY <1>2
      <3>6. Value(QAdd(x[3], h[t]), a + b, T)
        BY <1>2, <3>4, <3>5, SameValue
      <3> QED
        BY <2>1, <2>3, <2>6, <3>1, <3>2, <3>6 DEF t
    <2> QED
      BY <2>4, <2>7
  <1>6. B = {}
    <2>1. B \subseteq SUBSET D
      OBVIOUS
    <2> HIDE DEF B
    <2> QED
      BY <1>5, <2>1, NoMinimalSubset
  <1>7. D \in SUBSET D /\ Image(D) = R
    OBVIOUS
  <1> HIDE DEF Image
  <1>8. Value(h[D], g[Image(D)], T)
    BY <1>6, <1>7
  <1> QED
    BY <1>1, <1>2, <1>4, <1>7, <1>8

LEMMA SharesWithinOne ==
    ASSUME NEW S, NEW a \in Nat, NEW b \in Nat \ {0}, a <= b, Value(TotalOf(S), a, b)
    PROVE  WithinOne(S)
  <1>1. Value(QOne, 1, 1)
    BY DEF Value, QOne, Rat
  <1>2. QLess(QOne, TotalOf(S)) <=> 1 * b < a * 1
    BY <1>1, LessValue
  <1> QED
    BY <1>2 DEF WithinOne

(* A single range *)
LEMMA OneRangeWithinOne ==
    ASSUME NEW z, z[3] \in Rat, IsProbability(z[3])
    PROVE  WithinOne({z})
  <1>1. IsFiniteSet({z})
    BY FS_Singleton, Zenon
  <1>2. PICK h : TotalsTo(h, {z})
    <2>1. \A x \in {z} : x[3] \in Rat
      OBVIOUS
    <2> QED
      BY <1>1, <2>1, TotalFold, Zenon
  <1>3. TotalOf({z}) = QAdd(z[3], QZero)
    <2>1. {z} \in SUBSET {z} /\ {z} # {} /\ {z} \ {z} = {}
      OBVIOUS
    <2>2. PICK x \in {z} : h[{z}] = QAdd(x[3], h[{z} \ {x}])
      BY <1>2, <2>1, Zenon DEF TotalsTo
    <2>3. x = z
      OBVIOUS
    <2> QED
      BY <1>2, <2>1, <2>2, <2>3 DEF TotalsTo
  <1>4. PICK a \in Int, b \in Nat \ {0} : Value(z[3], a, b)
    BY RatParts
  <1>5. Value(QZero, 0, 1) /\ Value(QOne, 1, 1)
    BY DEF Value, QZero, QOne, Rat
  <1>6. Value(TotalOf({z}), a * 1 + 0 * b, b * 1)
    BY <1>3, <1>4, <1>5, AddValue
  <1>7. a * 1 + 0 * b = a /\ b * 1 = b
    OBVIOUS
  <1>8. ~(a * 1 < 0 * b) /\ ~(1 * b < a * 1)
    <2>1. ~QLess(z[3], QZero) /\ ~QLess(QOne, z[3])
      BY DEF IsProbability
    <2>2. QLess(z[3], QZero) <=> a * 1 < 0 * b
      BY <1>4, <1>5, LessValue
    <2>3. QLess(QOne, z[3]) <=> 1 * b < a * 1
      BY <1>4, <1>5, LessValue
    <2> QED
      BY <2>1, <2>2, <2>3
  <1>9. a \in Nat /\ a <= b
    BY <1>7, <1>8
  <1> QED
    BY <1>6, <1>7, <1>9, SharesWithinOne

-----------------------------------------------------------------------------
(* A new table *)

(* What a table adds to the catalogue *)
LEMMA NewTable ==
    ASSUME NEW st, NEW type, NEW dimension, NEW tuples, NEW w \in Nat,
           CondColumnsInv, st.into \in Tables \ Catalog, varid <= w,
           CreateTable(st, type, dimension, tuples),
           TableInv([type |-> type, dimension |-> dimension, tuples |-> tuples], w)
    PROVE  LET R == [type |-> type, dimension |-> dimension, tuples |-> tuples]
           IN  /\ rel' = [t \in Tables |-> rel'[t]]
               /\ TablesIn(rel') = TablesIn(rel) \cup {st.into}
               /\ rel'[st.into] = R
               /\ \A t \in TablesIn(rel) : rel'[t] = rel[t] /\ TableInv(rel'[t], w)
               /\ \A t \in TablesIn(rel') : TableInv(rel'[t], w)
               /\ TriplesAll(rel') = TriplesAll(rel) \cup TriplesOf(R)
  <1> DEFINE R == [type |-> type, dimension |-> dimension, tuples |-> tuples]
  <1>1. rel = [t \in Tables |-> rel[t]] /\ Catalog = TablesIn(rel) /\ varid \in Nat
        /\ \A t \in TablesIn(rel) : TableInv(rel[t], varid)
    BY DEF CondColumnsInv, CatalogInv, Catalog, TablesIn
  <1>2. R # NoTable
    <2>1. "type" \in DOMAIN R
      OBVIOUS
    <2>2. "type" \notin DOMAIN NoTable
      BY DEF NoTable
    <2> QED
      BY <2>1, <2>2
  <1>3. rel' = [rel EXCEPT ![st.into] = R]
    BY DEF CreateTable
  <1> HIDE DEF R
  <1>4. /\ rel' = [t \in Tables |-> rel'[t]] /\ rel'[st.into] = R
        /\ \A t \in Tables : t # st.into => rel'[t] = rel[t]
    BY <1>1, <1>3
  <1>5. TablesIn(rel') = TablesIn(rel) \cup {st.into}
    BY <1>1, <1>2, <1>4 DEF TablesIn
  <1>6. \A t \in TablesIn(rel) : rel'[t] = rel[t]
    BY <1>1, <1>4 DEF TablesIn
  <1>7. ASSUME NEW S, TableInv(S, varid) PROVE TableInv(S, w)
    <2>1. ASSUME NEW cond, ClauseInv(cond, varid) PROVE ClauseInv(cond, w)
      BY <1>1, <2>1 DEF ClauseInv
    <2>2. BagInv(S.tuples, w)
      BY <1>7, <2>1 DEF TableInv, BagInv
    <2> QED
      BY <1>7, <2>2 DEF TableInv
  <1>8. TriplesAll(rel') = TriplesAll(rel) \cup TriplesOf(R)
    BY <1>4, <1>5, <1>6 DEF TriplesAll
  <1>9. TableInv(R, w)
    BY DEF R
  <1>10. \A t \in TablesIn(rel) : TableInv(rel'[t], w)
    BY <1>1, <1>6, <1>7
  <1>11. \A t \in TablesIn(rel') : TableInv(rel'[t], w)
    BY <1>4, <1>5, <1>9, <1>10
  <1> QED
    BY <1>4, <1>5, <1>6, <1>8, <1>10, <1>11 DEF R

(* A table whose triples come from other tables, and which is not one of   *)
(* independent tuples: the results of select, union and possible.          *)
LEMMA ReusedTriples ==
    ASSUME NEW st, NEW type, NEW dimension, NEW tuples,
           CondColumnsInv, st.into \in Tables \ Catalog,
           CreateTable(st, type, dimension, tuples),
           UNCHANGED <<varid, domid>>,
           TableInv([type |-> type, dimension |-> dimension, tuples |-> tuples], varid),
           type # TABLETYPE_INDEPENDENT,
           TriplesOf([type |-> type, dimension |-> dimension, tuples |-> tuples]) \subseteq TriplesAll(rel)
    PROVE  CondColumnsInv'
  <1> DEFINE R == [type |-> type, dimension |-> dimension, tuples |-> tuples]
  <1>0. R.type = type
    OBVIOUS
  <1>1. /\ varid \in Nat /\ domid \in Nat /\ varid <= varid
        /\ WorldTableInv(rel) /\ SharesInv(TriplesAll(rel))
    BY DEF CondColumnsInv, CatalogInv
  <1> HIDE DEF R
  <1>2. /\ rel' = [t \in Tables |-> rel'[t]]
        /\ TablesIn(rel') = TablesIn(rel) \cup {st.into}
        /\ rel'[st.into] = R
        /\ \A t \in TablesIn(rel) : rel'[t] = rel[t]
        /\ \A t \in TablesIn(rel') : TableInv(rel'[t], varid)
        /\ TriplesAll(rel') = TriplesAll(rel) \cup TriplesOf(R)
    BY <1>1, NewTable DEF R
  <1>3. TriplesAll(rel') = TriplesAll(rel)
    BY <1>2 DEF R
  <1>4. WorldTableInv(rel')
    BY <1>0, <1>1, <1>2, <1>3 DEF WorldTableInv
  <1> QED
    BY <1>1, <1>2, <1>3, <1>4 DEF CondColumnsInv, CatalogInv

(* A table of new variables, in which the triples agree: the results of    *)
(* repair-key and pick-tuples.                                             *)
LEMMA FreshTriples ==
    ASSUME NEW st, NEW type, NEW dimension, NEW tuples,
           CondColumnsInv, st.into \in Tables \ Catalog,
           CreateTable(st, type, dimension, tuples),
           varid' \in Nat, domid' \in Nat, varid <= varid',
           TableInv([type |-> type, dimension |-> dimension, tuples |-> tuples], varid'),
           \A z \in TriplesOf([type |-> type, dimension |-> dimension, tuples |-> tuples]) :
               z[1] \in Nat /\ varid <= z[1],
           \A y, z \in TriplesOf([type |-> type, dimension |-> dimension, tuples |-> tuples]) :
               y[1] = z[1] /\ (y[2] = z[2] \/ type = TABLETYPE_INDEPENDENT) => y = z,
           SharesInv(TriplesOf([type |-> type, dimension |-> dimension, tuples |-> tuples]))
    PROVE  CondColumnsInv'
  <1> DEFINE R == [type |-> type, dimension |-> dimension, tuples |-> tuples]
  <1>0. R.type = type
    OBVIOUS
  <1>1. /\ varid \in Nat /\ WorldTableInv(rel) /\ SharesInv(TriplesAll(rel))
        /\ \A t \in TablesIn(rel) : TableInv(rel[t], varid)
    BY DEF CondColumnsInv, CatalogInv
  <1> HIDE DEF R
  <1>2. /\ rel' = [t \in Tables |-> rel'[t]]
        /\ TablesIn(rel') = TablesIn(rel) \cup {st.into}
        /\ rel'[st.into] = R
        /\ \A t \in TablesIn(rel) : rel'[t] = rel[t]
        /\ \A t \in TablesIn(rel') : TableInv(rel'[t], varid')
        /\ TriplesAll(rel') = TriplesAll(rel) \cup TriplesOf(R)
    BY <1>1, NewTable DEF R
  <1>3. ASSUME NEW z \in TriplesAll(rel) PROVE z[1] \in Nat /\ z[1] < varid
    <2>1. PICK t \in TablesIn(rel) : z \in TriplesOf(rel[t])
      BY TriplesOfTables
    <2>2. PICK x \in DOMAIN rel[t].tuples : \E k \in DOMAIN x.cond : z = x.cond[k]
      BY <2>1, TriplesOfClauses
    <2>3. ClauseInv(x.cond, varid)
      BY <1>1, <2>2 DEF TableInv, BagInv
    <2> QED
      BY <2>2, <2>3 DEF ClauseInv
  <1>4. /\ \A z \in TriplesOf(R) : z[1] \in Nat /\ varid <= z[1]
        /\ \A y, z \in TriplesOf(R) :
              y[1] = z[1] /\ (y[2] = z[2] \/ type = TABLETYPE_INDEPENDENT) => y = z
    BY DEF R
  <1>5. \A y \in TriplesAll(rel), z \in TriplesOf(R) : y[1] # z[1]
    BY <1>1, <1>3, <1>4
  <1>6. \A x, y \in TriplesAll(rel') : x[1] = y[1] /\ x[2] = y[2] => x = y
    <2> SUFFICES ASSUME NEW x \in TriplesAll(rel'), NEW y \in TriplesAll(rel'), x[1] = y[1], x[2] = y[2]
                 PROVE  x = y
      OBVIOUS
    <2>1. CASE x \in TriplesAll(rel) /\ y \in TriplesAll(rel)
      BY <1>1, <2>1 DEF WorldTableInv
    <2>2. CASE x \in TriplesOf(R) /\ y \in TriplesOf(R)
      BY <1>4, <2>2
    <2> QED
      BY <1>2, <1>5, <2>1, <2>2
  <1>7. ASSUME NEW t \in TablesIn(rel'), rel'[t].type = TABLETYPE_INDEPENDENT,
               NEW x \in TriplesOf(rel'[t]), NEW y \in TriplesAll(rel'), x[1] = y[1]
        PROVE  x = y
    <2>1. CASE t \in TablesIn(rel)
      <3>1. rel[t].type = TABLETYPE_INDEPENDENT /\ x \in TriplesOf(rel[t]) /\ x \in TriplesAll(rel)
        BY <1>2, <1>7, <2>1, TriplesOfTables
      <3>2. y \in TriplesAll(rel)
        BY <1>2, <1>5, <1>7, <3>1
      <3> QED
        BY <1>1, <1>7, <2>1, <3>1, <3>2 DEF WorldTableInv
    <2>2. CASE t = st.into
      <3>1. type = TABLETYPE_INDEPENDENT /\ x \in TriplesOf(R)
        BY <1>0, <1>2, <1>7, <2>2
      <3>2. y \in TriplesOf(R)
        BY <1>2, <1>5, <1>7, <3>1
      <3> QED
        BY <1>4, <1>7, <3>1, <3>2
    <2> QED
      BY <1>2, <2>1, <2>2
  <1>8. WorldTableInv(rel')
    BY <1>6, <1>7 DEF WorldTableInv
  <1>9. SharesInv(TriplesAll(rel'))
    <2> SUFFICES ASSUME NEW x \in TriplesAll(rel') PROVE WithinOne(RangesOf(TriplesAll(rel'), x[1]))
      BY DEF SharesInv
    <2>1. CASE x \in TriplesAll(rel)
      <3>1. RangesOf(TriplesAll(rel'), x[1]) = RangesOf(TriplesAll(rel), x[1])
        BY <1>2, <1>5, <2>1 DEF RangesOf
      <3> QED
        BY <1>1, <2>1, <3>1 DEF SharesInv
    <2>2. CASE x \in TriplesOf(R)
      <3>1. RangesOf(TriplesAll(rel'), x[1]) = RangesOf(TriplesOf(R), x[1])
        BY <1>2, <1>5, <2>2 DEF RangesOf
      <3>2. SharesInv(TriplesOf(R))
        BY DEF R
      <3> QED
        BY <2>2, <3>1, <3>2 DEF SharesInv
    <2> QED
      BY <1>2, <2>1, <2>2
  <1> QED
    BY <1>2, <1>8, <1>9 DEF CondColumnsInv, CatalogInv

-----------------------------------------------------------------------------
(* Joins *)

(* A statement that can be processed: its tables exist. *)
Readable(st) == st \in Statements /\ \A k \in DOMAIN st.from : st.from[k] \in Catalog

LEMMA FromClause ==
    ASSUME NEW st, CondColumnsInv, Readable(st)
    PROVE  /\ Len(st.from) \in Nat /\ DOMAIN st.from = 1..Len(st.from)
           /\ 1 \in DOMAIN st.from /\ Len(st.from) \in DOMAIN st.from
           /\ IsFiniteSet(DOMAIN st.from)
           /\ \A k \in DOMAIN st.from :
                 /\ st.from[k] \in TablesIn(rel)
                 /\ TableInv(rel[st.from[k]], varid)
                 /\ IsFiniteSet(DOMAIN TuplesOf(st.from[k]))
  <1>1. st.from \in Seq(Tables) /\ st.from # <<>>
    BY URelationsAssumption DEF Readable
  <1>2. Len(st.from) \in Nat /\ DOMAIN st.from = 1..Len(st.from) /\ Len(st.from) # 0
    BY <1>1
  <1>3. IsFiniteSet(1..Len(st.from))
    BY <1>2, FS_Interval
  <1>4. \A k \in DOMAIN st.from : st.from[k] \in TablesIn(rel) /\ TableInv(rel[st.from[k]], varid)
    BY DEF Readable, CondColumnsInv, CatalogInv, Catalog, TablesIn
  <1>5. \A k \in DOMAIN st.from : IsFiniteSet(DOMAIN TuplesOf(st.from[k]))
    BY <1>4 DEF TableInv, BagInv, TuplesOf
  <1> QED
    BY <1>2, <1>3, <1>4, <1>5

(* The tuples of the tables that are read *)
TuplesRead(st) == UNION {DOMAIN TuplesOf(st.from[k]) : k \in DOMAIN st.from}

LEMMA FiniteTuplesRead ==
    ASSUME NEW st, CondColumnsInv, Readable(st)
    PROVE  IsFiniteSet(TuplesRead(st))
  <1> DEFINE f == [k \in DOMAIN st.from |-> DOMAIN TuplesOf(st.from[k])]
             F == {f[k] : k \in DOMAIN st.from}
  <1>1. IsFiniteSet(DOMAIN st.from) /\ \A k \in DOMAIN st.from : IsFiniteSet(DOMAIN TuplesOf(st.from[k]))
    BY FromClause
  <1>2. IsFiniteSet(F)
    BY <1>1, FiniteRange
  <1>3. \A T \in F : IsFiniteSet(T)
    BY <1>1
  <1>4. UNION F = TuplesRead(st)
    BY DEF TuplesRead
  <1> HIDE DEF F
  <1> QED
    BY <1>2, <1>3, <1>4, FS_UNION

LEMMA FiniteCombinations ==
    ASSUME NEW st, CondColumnsInv, Readable(st)
    PROVE  IsFiniteSet(Combinations(st))
  <1>1. IsFiniteSet(DOMAIN st.from) /\ IsFiniteSet(TuplesRead(st))
    BY FromClause, FiniteTuplesRead
  <1>2. IsFiniteSet([DOMAIN st.from -> TuplesRead(st)])
    BY <1>1, FiniteFunctions
  <1>3. Combinations(st) \in SUBSET [DOMAIN st.from -> TuplesRead(st)]
    BY DEF Combinations, TuplesRead
  <1> QED
    BY <1>2, <1>3, FS_Subset

(* A combination has a row and a consistent clause of every table. *)
LEMMA PartsOfCombination ==
    ASSUME NEW st, CondColumnsInv, Readable(st), NEW c \in Combinations(st)
    PROVE  /\ DOMAIN c = DOMAIN st.from
           /\ \A k \in DOMAIN c :
                 /\ c[k] \in DOMAIN rel[st.from[k]].tuples
                 /\ c[k].row \in Rows /\ ClauseInv(c[k].cond, varid)
                 /\ rel[st.from[k]].tuples[c[k]] \in Nat
                 /\ rel[st.from[k]].dimension = 0 => c[k].cond = <<>>
  <1>1. DOMAIN c = DOMAIN st.from /\ \A k \in DOMAIN c : c[k] \in DOMAIN rel[st.from[k]].tuples
    BY DEF Combinations, TuplesOf
  <1>2. \A k \in DOMAIN st.from : TableInv(rel[st.from[k]], varid)
    BY FromClause
  <1> QED
    BY <1>1, <1>2 DEF TableInv, BagInv

LEMMA MultiplicityType ==
    ASSUME NEW st, CondColumnsInv, Readable(st), NEW c \in Combinations(st)
    PROVE  Multiplicity(st, c) \in Nat
  <1> DEFINE f == [k \in DOMAIN st.from |-> TuplesOf(st.from[k])[c[k]]]
  <1>1. \A k \in DOMAIN st.from : f[k] \in Nat
    BY PartsOfCombination DEF TuplesOf
  <1>2. DOMAIN f = DOMAIN st.from /\ IsFiniteSet(DOMAIN st.from)
    BY FromClause
  <1>3. ProductOnSet(f, DOMAIN f) \in Nat
    <2> HIDE DEF f
    <2> QED
      BY <1>1, <1>2, ProductType
  <1> QED
    BY <1>3 DEF Multiplicity, ProductOnSet, FoldFunction

LEMMA TargetType ==
    ASSUME NEW st, CondColumnsInv, Readable(st), NEW c \in Combinations(st)
    PROVE  Target(st, c) \in Rows
  <1>1. 1 \in DOMAIN c /\ Len(st.from) \in DOMAIN c
    BY FromClause, PartsOfCombination
  <1>2. c[1].row \in Rows /\ c[Len(st.from)].row \in Rows /\ 0 \in Values
    BY <1>1, PartsOfCombination, RowTypes
  <1>3. st.out \in {"row", "mixed", "key"}
    BY URelationsAssumption DEF Readable
  <1> QED
    BY <1>2, <1>3 DEF Target, Rows

(* The bag of the results of some combinations *)
LEMMA CollectType ==
    ASSUME NEW st, CondColumnsInv, Readable(st), NEW tuple,
           tuple = [c \in DOMAIN tuple |-> tuple[c]], DOMAIN tuple \subseteq Combinations(st)
    PROVE  /\ DOMAIN Collect(st, tuple) = {tuple[c] : c \in DOMAIN tuple}
           /\ IsFiniteSet(DOMAIN Collect(st, tuple))
           /\ \A x \in DOMAIN Collect(st, tuple) : Collect(st, tuple)[x] \in Nat
  <1>1. IsFiniteSet(DOMAIN tuple)
    BY FiniteCombinations, FS_Subset
  <1>2. DOMAIN Collect(st, tuple) = {tuple[c] : c \in DOMAIN tuple}
    BY DEF Collect, Range
  <1>3. IsFiniteSet({tuple[c] : c \in DOMAIN tuple})
    BY <1>1, FiniteRange
  <1>4. ASSUME NEW x \in Range(tuple)
        PROVE  Collect(st, tuple)[x] \in Nat
    <2> DEFINE C == {d \in DOMAIN tuple : tuple[d] = x}
               f == [c \in C |-> Multiplicity(st, c)]
    <2>1. IsFiniteSet(C)
      BY <1>1, FS_Subset
    <2>2. \A c \in C : f[c] \in Nat
      BY MultiplicityType
    <2>3. DOMAIN f = C
      OBVIOUS
    <2>4. Collect(st, tuple)[x] = SumFunction(f)
      BY DEF Collect
    <2> HIDE DEF C, f
    <2> QED
      BY <2>1, <2>2, <2>3, <2>4, SumOfFunction
  <1> QED
    BY <1>2, <1>3, <1>4 DEF Range

(* The condition columns of a combination are a sequence of triples of its *)
(* parts.                                                                  *)
LEMMA ConditionColumns ==
    ASSUME NEW st, CondColumnsInv, Readable(st), NEW c \in Combinations(st)
    PROVE  LET cond == add_condition_columns(c)
           IN  /\ cond \in Seq(Range(cond))
               /\ \A k \in DOMAIN cond : \E i \in DOMAIN c : \E p \in DOMAIN c[i].cond : cond[k] = c[i].cond[p]
               /\ (\A i \in DOMAIN c : c[i].cond = <<>>) => cond = <<>>
  <1> DEFINE ss == [k \in DOMAIN c |-> c[k].cond]
             T == UNION {Range(c[k].cond) : k \in DOMAIN c}
             cond == add_condition_columns(c)
  <1>1. DOMAIN c = 1..Len(st.from) /\ Len(st.from) \in Nat
        /\ \A k \in DOMAIN c : c[k].cond \in Seq(Range(c[k].cond))
    BY FromClause, PartsOfCombination DEF ClauseInv
  <1>2. \A k \in DOMAIN c : c[k].cond \in Seq(T)
    <2> SUFFICES ASSUME NEW k \in DOMAIN c PROVE c[k].cond \in Seq(T)
      OBVIOUS
    <2>1. Range(c[k].cond) \subseteq T
      OBVIOUS
    <2>2. PICK S : S = Range(c[k].cond)
      OBVIOUS
    <2> HIDE DEF T
    <2> QED
      BY <1>1, <2>1, <2>2
  <1>3. ss \in Seq(Seq(T))
    <2> HIDE DEF T
    <2> QED
      BY <1>1, <1>2
  <1>4. FlattenSeq(ss) \in Seq(T) /\ cond = FlattenSeq(ss)
    <2>1. FlattenSeq(ss) \in Seq(T)
      <3> HIDE DEF ss, T
      <3> QED
        BY <1>3, FlattenType
    <2> QED
      BY <2>1 DEF add_condition_columns
  <1>5. cond \in Seq(Range(cond)) /\ \A k \in DOMAIN cond : cond[k] \in T
    <2> HIDE DEF T, ss, cond
    <2> QED
      BY <1>4 DEF Range
  <1>6. \A z \in T : \E i \in DOMAIN c : \E p \in DOMAIN c[i].cond : z = c[i].cond[p]
    BY DEF Range
  <1>7. ASSUME \A i \in DOMAIN c : c[i].cond = <<>> PROVE cond = <<>>
    <2>1. T = {}
      BY <1>7 DEF Range
    <2> HIDE DEF T, cond
    <2> QED
      BY <1>4, <2>1
  <1> HIDE DEF T, cond, ss
  <1> QED
    BY <1>5, <1>6, <1>7 DEF cond

(* The clause of a combination that passes remove_mutual_exclusiveness is  *)
(* consistent.  That condition compares U-relations only: a triple of an   *)
(* independent table meets no other range of its variable anywhere.        *)
LEMMA ConsistentJoin ==
    ASSUME NEW st, CondColumnsInv, Readable(st), NEW c \in Consistent(st)
    PROVE  /\ ClauseInv(add_condition_columns(c), varid)
           /\ \A k \in DOMAIN add_condition_columns(c) : add_condition_columns(c)[k] \in TriplesAll(rel)
  <1> DEFINE cond == add_condition_columns(c)
             T(i) == rel[st.from[i]]
  <1>1. c \in Combinations(st) /\ remove_mutual_exclusiveness(st, c)
    BY DEF Consistent
  <1>2. /\ cond \in Seq(Range(cond))
        /\ \A k \in DOMAIN cond : \E i \in DOMAIN c : \E p \in DOMAIN c[i].cond : cond[k] = c[i].cond[p]
    BY <1>1, ConditionColumns
  <1>3. /\ DOMAIN c = DOMAIN st.from
        /\ \A i \in DOMAIN c : c[i] \in DOMAIN T(i).tuples /\ ClauseInv(c[i].cond, varid)
                              /\ (T(i).dimension = 0 => c[i].cond = <<>>)
    BY <1>1, PartsOfCombination
  <1>4. /\ Len(st.from) \in Nat /\ DOMAIN st.from = 1..Len(st.from)
        /\ \A i \in DOMAIN st.from : st.from[i] \in TablesIn(rel) /\ TableInv(T(i), varid)
    BY FromClause
  <1>5. \A i \in DOMAIN c : \A p \in DOMAIN c[i].cond : c[i].cond[p] \in TriplesOf(T(i))
    BY <1>3, TriplesOfClauses
  <1>6. \A i \in DOMAIN c : \A p \in DOMAIN c[i].cond : c[i].cond[p] \in TriplesAll(rel)
    BY <1>3, <1>4, <1>5, TriplesOfTables
  <1>7. WorldTableInv(rel)
    BY DEF CondColumnsInv, CatalogInv
  <1>8. ASSUME NEW i \in DOMAIN c, NEW j \in DOMAIN c, NEW p \in DOMAIN c[i].cond, NEW q \in DOMAIN c[j].cond,
               c[i].cond[p][1] = c[j].cond[q][1]
        PROVE  c[i].cond[p] = c[j].cond[q]
    <2>1. CASE i = j
      BY <1>3, <1>8, <2>1 DEF ClauseInv
    <2>2. CASE T(i).type = TABLETYPE_INDEPENDENT
      BY <1>3, <1>4, <1>5, <1>6, <1>7, <1>8, <2>2 DEF WorldTableInv
    <2>3. CASE T(j).type = TABLETYPE_INDEPENDENT
      BY <1>3, <1>4, <1>5, <1>6, <1>7, <1>8, <2>3 DEF WorldTableInv
    <2>4. T(i).type # TABLETYPE_CERTAIN /\ T(j).type # TABLETYPE_CERTAIN
      BY <1>3, <1>4 DEF TableInv
    <2>5. CASE i # j /\ T(i).type = TABLETYPE_URELATION /\ T(j).type = TABLETYPE_URELATION
      <3>1. i < j \/ j < i
        BY <1>3, <1>4, <2>5
      <3>2. Agree(c[i].cond, c[j].cond) \/ Agree(c[j].cond, c[i].cond)
        BY <1>1, <2>5, <3>1 DEF remove_mutual_exclusiveness, TypeOf
      <3>3. c[i].cond[p][2] = c[j].cond[q][2]
        BY <1>8, <3>2 DEF Agree
      <3> QED
        BY <1>6, <1>7, <1>8, <3>3 DEF WorldTableInv
    <2>6. T(i).type \in TableTypes /\ T(j).type \in TableTypes
      BY <1>3, <1>4 DEF TableInv
    <2> QED
      BY <2>1, <2>2, <2>3, <2>4, <2>5, <2>6 DEF TableTypes
  <1> HIDE DEF cond
  <1>9. \A k, l \in DOMAIN cond : cond[k][1] = cond[l][1] => cond[k] = cond[l]
    BY <1>2, <1>8
  <1>10. \A k \in DOMAIN cond : cond[k][1] \in Nat /\ cond[k][1] < varid /\ cond[k] \in TriplesAll(rel)
    BY <1>2, <1>3, <1>6 DEF ClauseInv
  <1> QED
    BY <1>2, <1>9, <1>10 DEF ClauseInv, cond

-----------------------------------------------------------------------------
(* The statements *)

(* Without condition columns in the tables that are joined there are none  *)
(* in the result, and the other way round.                                 *)
LEMMA DimensionOfJoin ==
    ASSUME NEW st, CondColumnsInv, Readable(st)
    PROVE  /\ Dimension(st) \in Nat
           /\ all_relations_are_certain(st) => Dimension(st) = 0
           /\ Dimension(st) = 0 => \A k \in DOMAIN st.from : rel[st.from[k]].dimension = 0
  <1> DEFINE f == [k \in DOMAIN st.from |-> TripleCount(st.from[k])]
  <1>1. \A k \in DOMAIN st.from : TableInv(rel[st.from[k]], varid)
    BY FromClause
  <1>2. DOMAIN f = DOMAIN st.from /\ IsFiniteSet(DOMAIN f) /\ Dimension(st) = SumFunction(f)
        /\ \A k \in DOMAIN st.from : f[k] = rel[st.from[k]].dimension
    BY FromClause DEF TripleCount, Dimension
  <1> HIDE DEF f
  <1>3. \A k \in DOMAIN f : f[k] \in Nat
    BY <1>1, <1>2 DEF TableInv
  <1>4. SumFunction(f) \in Nat /\ \A k \in DOMAIN f : f[k] <= SumFunction(f)
    BY <1>2, <1>3, SumOfFunction
  <1>5. ASSUME all_relations_are_certain(st) PROVE Dimension(st) = 0
    <2>1. \A k \in DOMAIN f : f[k] = 0
      BY <1>1, <1>2, <1>5 DEF all_relations_are_certain, TableInv, TypeOf
    <2> QED
      BY <1>2, <2>1, SumOfZeros
  <1>6. ASSUME Dimension(st) = 0 PROVE \A k \in DOMAIN f : f[k] = 0
    BY <1>2, <1>3, <1>4, <1>6
  <1> QED
    BY <1>2, <1>4, <1>5, <1>6

LEMMA SelectStep ==
    ASSUME NEW st, CondColumnsInv, Readable(st), st.into \in Tables \ Catalog, process_select(st)
    PROVE  CondColumnsInv'
  <1> DEFINE tuple == [c \in Consistent(st) |-> [row |-> Target(st, c), cond |-> add_condition_columns(c)]]
             tuples == Collect(st, tuple)
             R == [type |-> ResultType(st), dimension |-> Dimension(st), tuples |-> tuples]
  <1>1. DOMAIN tuple = Consistent(st) /\ tuple = [c \in DOMAIN tuple |-> tuple[c]]
        /\ DOMAIN tuple \subseteq Combinations(st)
    BY DEF Consistent
  <1>2. /\ DOMAIN tuples = {tuple[c] : c \in DOMAIN tuple}
        /\ IsFiniteSet(DOMAIN tuples)
        /\ \A x \in DOMAIN tuples : tuples[x] \in Nat
    <2> HIDE DEF tuple
    <2> QED
      BY <1>1, CollectType
  <1> HIDE DEF tuples
  <1>3. ASSUME NEW x \in DOMAIN tuples
        PROVE  /\ x.row \in Rows /\ ClauseInv(x.cond, varid)
               /\ \A k \in DOMAIN x.cond : x.cond[k] \in TriplesAll(rel)
               /\ Dimension(st) = 0 => x.cond = <<>>
    <2>1. PICK c \in Consistent(st) : x = [row |-> Target(st, c), cond |-> add_condition_columns(c)]
      BY <1>2
    <2>2. c \in Combinations(st) /\ x.row = Target(st, c) /\ x.cond = add_condition_columns(c)
      BY <2>1 DEF Consistent
    <2>3. Dimension(st) = 0 => \A k \in DOMAIN c : c[k].cond = <<>>
      BY <2>2, DimensionOfJoin, PartsOfCombination
    <2>4. Dimension(st) = 0 => x.cond = <<>>
      BY <2>2, <2>3, ConditionColumns
    <2>5. x.row \in Rows
      BY <2>2, TargetType
    <2>6. ClauseInv(x.cond, varid) /\ \A k \in DOMAIN x.cond : x.cond[k] \in TriplesAll(rel)
      BY <2>2, ConsistentJoin
    <2> QED
      BY <2>4, <2>5, <2>6
  <1>4. R.type = ResultType(st) /\ R.dimension = Dimension(st) /\ R.tuples = tuples
    OBVIOUS
  <1>5. CreateTable(st, ResultType(st), Dimension(st), tuples) /\ UNCHANGED <<varid, domid>>
    BY DEF process_select, tuples
  <1> HIDE DEF R, tuple
  <1>6. BagInv(tuples, varid)
    BY <1>2, <1>3 DEF BagInv
  <1>7. /\ ResultType(st) \in TableTypes /\ ResultType(st) # TABLETYPE_INDEPENDENT
        /\ ResultType(st) = TABLETYPE_CERTAIN => Dimension(st) = 0
    BY DimensionOfJoin DEF ResultType, TableTypes, TABLETYPE_CERTAIN, TABLETYPE_INDEPENDENT, TABLETYPE_URELATION
  <1>8. TableInv(R, varid)
    BY <1>3, <1>4, <1>6, <1>7, DimensionOfJoin DEF TableInv
  <1>9. TriplesOf(R) \subseteq TriplesAll(rel)
    BY <1>3, <1>4, TriplesOfClauses
  <1> QED
    BY <1>5, <1>7, <1>8, <1>9, ReusedTriples DEF R

LEMMA UnionStep ==
    ASSUME NEW st, CondColumnsInv, Readable(st), st.into \in Tables \ Catalog, set_operation(st)
    PROVE  CondColumnsInv'
  <1> DEFINE arm == [st EXCEPT !.from = <<st.from[1]>>, !.out = "row"]
             Count(k, x) == IF x \in DOMAIN TuplesOf(st.from[k]) THEN TuplesOf(st.from[k])[x] ELSE 0
             tuples == [x \in TuplesRead(st) |-> SumFunction([k \in DOMAIN st.from |-> Count(k, x)])]
             type == ResultType(arm)
             dimension == TripleCount(st.from[1])
             R == [type |-> type, dimension |-> dimension, tuples |-> tuples]
  <1>1. /\ \A k \in DOMAIN st.from : TripleCount(st.from[k]) = dimension
        /\ CreateTable(st, type, dimension, tuples) /\ UNCHANGED <<varid, domid>>
    BY DEF set_operation, TuplesRead
  <1>2. /\ 1 \in DOMAIN st.from /\ IsFiniteSet(DOMAIN st.from)
        /\ \A k \in DOMAIN st.from : st.from[k] \in TablesIn(rel) /\ TableInv(rel[st.from[k]], varid)
    BY FromClause
  <1>3. R.type = type /\ R.dimension = dimension /\ R.tuples = tuples /\ DOMAIN tuples = TuplesRead(st)
    OBVIOUS
  <1>4. ASSUME NEW x \in TuplesRead(st)
        PROVE  /\ x.row \in Rows /\ ClauseInv(x.cond, varid)
               /\ \A k \in DOMAIN x.cond : x.cond[k] \in TriplesAll(rel)
               /\ dimension = 0 => x.cond = <<>>
    <2>1. PICK k \in DOMAIN st.from : x \in DOMAIN rel[st.from[k]].tuples
      BY DEF TuplesRead, TuplesOf
    <2>2. TableInv(rel[st.from[k]], varid) /\ rel[st.from[k]].dimension = dimension
      BY <1>1, <1>2 DEF TripleCount
    <2>3. \A l \in DOMAIN x.cond : x.cond[l] \in TriplesAll(rel)
      BY <1>2, <2>1, TriplesOfClauses, TriplesOfTables
    <2> HIDE DEF dimension
    <2> QED
      BY <2>1, <2>2, <2>3 DEF TableInv, BagInv
  <1>5. ASSUME NEW x \in TuplesRead(st) PROVE tuples[x] \in Nat
    <2> DEFINE f == [k \in DOMAIN st.from |-> Count(k, x)]
    <2>1. ASSUME NEW k \in DOMAIN st.from PROVE f[k] \in Nat
      BY <1>2 DEF TableInv, BagInv, TuplesOf
    <2>2. DOMAIN f = DOMAIN st.from /\ tuples[x] = SumFunction(f)
      OBVIOUS
    <2> HIDE DEF f
    <2> QED
      BY <1>2, <2>1, <2>2, SumOfFunction
  <1>6. /\ type \in TableTypes /\ type # TABLETYPE_INDEPENDENT
        /\ type = TABLETYPE_CERTAIN => TypeOf(st.from[1]) = TABLETYPE_CERTAIN
    <2>1. all_relations_are_certain(arm) => TypeOf(st.from[1]) = TABLETYPE_CERTAIN
      <3>1. arm.from = <<st.from[1]>>
        <4>1. "from" \in DOMAIN st
          BY URelationsAssumption DEF Readable
        <4>2. "out" \in DOMAIN st
          BY URelationsAssumption DEF Readable
        <4> QED
          BY <4>1, <4>2
      <3> HIDE DEF arm
      <3> QED
        BY <3>1 DEF all_relations_are_certain
    <2> HIDE DEF arm
    <2> QED
      BY <2>1 DEF ResultType, TableTypes, TABLETYPE_CERTAIN, TABLETYPE_INDEPENDENT, TABLETYPE_URELATION
  <1>7. dimension \in Nat /\ (type = TABLETYPE_CERTAIN => dimension = 0)
    BY <1>2, <1>6 DEF TableInv, TypeOf, TripleCount
  <1> HIDE DEF type, dimension, tuples, R
  <1>8. BagInv(tuples, varid)
    BY <1>3, <1>4, <1>5, FiniteTuplesRead DEF BagInv
  <1>9. TableInv(R, varid)
    BY <1>3, <1>4, <1>6, <1>7, <1>8 DEF TableInv
  <1>10. TriplesOf(R) \subseteq TriplesAll(rel)
    BY <1>3, <1>4, TriplesOfClauses
  <1> QED
    BY <1>1, <1>6, <1>9, <1>10, ReusedTriples DEF R

LEMMA PossibleStep ==
    ASSUME NEW st, CondColumnsInv, Readable(st), st.into \in Tables \ Catalog, rewrite_possible(st)
    PROVE  CondColumnsInv'
  <1> DEFINE tuple == [c \in Consistent(st) |-> [row |-> Target(st, c), cond |-> <<>>]]
             T == {tuple[c] : c \in Consistent(st)}
             tuples == [x \in T |-> 1]
             R == [type |-> TABLETYPE_CERTAIN, dimension |-> 0, tuples |-> tuples]
  <1>1. CreateTable(st, TABLETYPE_CERTAIN, 0, tuples) /\ UNCHANGED <<varid, domid>>
    <2>1. T = {[row |-> Target(st, c), cond |-> <<>>] : c \in Consistent(st)}
      OBVIOUS
    <2> QED
      BY <2>1 DEF rewrite_possible
  <1>2. IsFiniteSet(Consistent(st)) /\ Consistent(st) \subseteq Combinations(st)
    BY FiniteCombinations, FS_Subset DEF Consistent
  <1>3. IsFiniteSet(T)
    BY <1>2, FiniteRange
  <1>4. ASSUME NEW x \in T PROVE x.row \in Rows /\ x.cond = <<>>
    BY <1>2, TargetType
  <1>5. ClauseInv(<<>>, varid)
    BY DEF ClauseInv
  <1>6. R.type = TABLETYPE_CERTAIN /\ R.dimension = 0 /\ R.tuples = tuples /\ DOMAIN tuples = T
        /\ \A x \in T : tuples[x] = 1
    OBVIOUS
  <1> HIDE DEF T, tuples, R
  <1>7. BagInv(tuples, varid)
    BY <1>3, <1>4, <1>5, <1>6 DEF BagInv
  <1>8. TableInv(R, varid)
    BY <1>4, <1>6, <1>7 DEF TableInv, TableTypes, TABLETYPE_CERTAIN, TABLETYPE_INDEPENDENT
  <1>9. TriplesOf(R) \subseteq TriplesAll(rel)
    BY <1>4, <1>6, TriplesOfClauses
  <1>10. TABLETYPE_CERTAIN # TABLETYPE_INDEPENDENT
    BY DEF TABLETYPE_CERTAIN, TABLETYPE_INDEPENDENT
  <1> QED
    BY <1>1, <1>8, <1>9, <1>10, ReusedTriples DEF R

(* The input of repair-key and pick-tuples is a finite bag of rows. *)
LEMMA InputType ==
    ASSUME NEW st, CondColumnsInv, Readable(st)
    PROVE  /\ IsFiniteSet(DOMAIN Input(st)) /\ DOMAIN Input(st) \subseteq Rows
           /\ \A r \in DOMAIN Input(st) : Input(st)[r] \in Nat
  <1> DEFINE tuples == TuplesOf(st.from[1])
             f == [x \in DOMAIN tuples |-> x.row]
  <1>1. IsFiniteSet(DOMAIN tuples) /\ \A x \in DOMAIN tuples : x.row \in Rows /\ tuples[x] \in Nat
    BY FromClause DEF TableInv, BagInv, TuplesOf
  <1> HIDE DEF tuples
  <1>2. IsFiniteSet({f[x] : x \in DOMAIN tuples})
    BY <1>1, FiniteRange
  <1>3. DOMAIN Input(st) = {x.row : x \in DOMAIN tuples} /\ {f[x] : x \in DOMAIN tuples} = DOMAIN Input(st)
    BY DEF Input, tuples
  <1>4. ASSUME NEW r \in DOMAIN Input(st) PROVE Input(st)[r] \in Nat
    <2> DEFINE D == {x \in DOMAIN tuples : x.row = r}
    <2>1. IsFiniteSet(D) /\ \A x \in D : tuples[x] \in Nat
      BY <1>1, FS_Subset
    <2>2. Input(st)[r] = SumFunctionOnSet(tuples, D)
      BY <1>3 DEF Input, tuples
    <2> HIDE DEF D
    <2> QED
      BY <2>1, <2>2, SumOnSet
  <1> QED
    BY <1>1, <1>2, <1>3, <1>4

(* A clause of one triple *)
LEMMA OneTriple ==
    ASSUME NEW z, NEW v, z[1] \in Nat, z[1] < v
    PROVE  ClauseInv(<<z>>, v) /\ Len(<<z>>) = 1 /\ DOMAIN <<z>> = {1} /\ <<z>>[1] = z
  BY DEF ClauseInv, Range

(* RowLess numbers the rows of a finite set. *)
LEMMA RowRanks ==
    ASSUME NEW S, IsFiniteSet(S), S \subseteq Rows
    PROVE  \A r \in S :
              /\ Cardinality({q \in S : RowLess(q, r)}) \in Nat
              /\ Cardinality({q \in S : RowLess(q, r)}) < Cardinality(S)
              /\ \A s \in S : Cardinality({q \in S : RowLess(q, r)}) = Cardinality({q \in S : RowLess(q, s)})
                                 => r = s
  <1> DEFINE lt == {p \in S \X S : RowLess(p[1], p[2])}
  <1>1. \A p, q \in S : <<p, q>> \in lt <=> RowLess(p, q)
    OBVIOUS
  <1>2. \A r \in S : Below(S, lt, r) = {q \in S : RowLess(q, r)}
    BY <1>1 DEF Below
  <1>3. \A r \in S : r[1] \in Int /\ r[2] \in Int /\ r = <<r[1], r[2]>>
    BY RowTypes
  <1> HIDE DEF lt
  <1>4. \A p \in S : <<p, p>> \notin lt
    BY <1>1, <1>3 DEF RowLess
  <1>5. \A p, q, r \in S : <<p, q>> \in lt /\ <<q, r>> \in lt => <<p, r>> \in lt
    BY <1>1, <1>3 DEF RowLess
  <1>6. ASSUME NEW p \in S, NEW q \in S, p # q PROVE <<p, q>> \in lt \/ <<q, p>> \in lt
    <2>1. p[1] # q[1] \/ p[2] # q[2]
      BY <1>3, <1>6, Zenon
    <2> QED
      BY <1>1, <1>3, <2>1 DEF RowLess
  <1>7. \A r \in S :
           /\ Cardinality(Below(S, lt, r)) \in Nat
           /\ Cardinality(Below(S, lt, r)) < Cardinality(S)
           /\ \A s \in S : Cardinality(Below(S, lt, r)) = Cardinality(Below(S, lt, s)) => r = s
    BY <1>4, <1>5, <1>6, Ranks
  <1> QED
    BY <1>2, <1>7

(* The same for the integers of a finite set *)
LEMMA IntegerRanks ==
    ASSUME NEW S, IsFiniteSet(S), S \subseteq Int
    PROVE  \A k \in S : /\ Cardinality({l \in S : l < k}) \in Nat
                        /\ Cardinality({l \in S : l < k}) < Cardinality(S)
                        /\ \A m \in S : Cardinality({l \in S : l < k}) = Cardinality({l \in S : l < m})
                                           => k = m
  <1> DEFINE lt == {p \in S \X S : p[1] < p[2]}
  <1>1. \A p, q \in S : <<p, q>> \in lt <=> p < q
    OBVIOUS
  <1>2. \A r \in S : Below(S, lt, r) = {q \in S : q < r}
    BY <1>1 DEF Below
  <1> HIDE DEF lt
  <1>3. /\ \A p \in S : <<p, p>> \notin lt
        /\ \A p, q, r \in S : <<p, q>> \in lt /\ <<q, r>> \in lt => <<p, r>> \in lt
        /\ \A p, q \in S : p # q => <<p, q>> \in lt \/ <<q, p>> \in lt
    BY <1>1
  <1>4. \A r \in S :
           /\ Cardinality(Below(S, lt, r)) \in Nat
           /\ Cardinality(Below(S, lt, r)) < Cardinality(S)
           /\ \A s \in S : Cardinality(Below(S, lt, r)) = Cardinality(Below(S, lt, s)) => r = s
    BY <1>3, Ranks
  <1> QED
    BY <1>2, <1>4

LEMMA RepairStep ==
    ASSUME NEW st, CondColumnsInv, Readable(st), st.into \in Tables \ Catalog, rewrite_repair_key(st)
    PROVE  CondColumnsInv'
  <1> DEFINE input == Input(st)
             rows  == {r \in DOMAIN input : WeightOf(r) # 0}
             keys  == {r[1] : r \in rows}
             Var(k) == varid + Cardinality({l \in keys : l < k})
             Dom(r) == domid + Cardinality({s \in rows : RowLess(s, r)})
             Triple(r) == <<Var(r[1]), Dom(r), Q(WeightOf(r), SumOfWeights(input, r[1]))>>
             tuple == [r \in rows |-> [row |-> r, cond |-> <<Triple(r)>>]]
             T == {tuple[r] : r \in rows}
             tuples == [x \in T |-> input[x.row]]
             R == [type |-> TABLETYPE_URELATION, dimension |-> 1, tuples |-> tuples]
  <1>1. /\ CreateTable(st, TABLETYPE_URELATION, 1, tuples)
        /\ varid' = varid + Cardinality(keys) /\ domid' = domid + Cardinality(rows)
        /\ \A r \in DOMAIN input : IsWeight(WeightOf(r))
    <2>1. T = {[row |-> r, cond |-> <<Triple(r)>>] : r \in rows}
      OBVIOUS
    <2> QED
      BY <2>1, Zenon DEF rewrite_repair_key, nextval
  <1>2. varid \in Nat /\ domid \in Nat
    BY DEF CondColumnsInv, CatalogInv
  <1>3. /\ IsFiniteSet(DOMAIN input) /\ DOMAIN input \subseteq Rows
        /\ \A r \in DOMAIN input : input[r] \in Nat
    BY InputType
  <1> HIDE DEF input
  <1>4. rows \subseteq DOMAIN input /\ IsFiniteSet(rows) /\ rows \subseteq Rows
    BY <1>3, FS_Subset
  <1>5. IsFiniteSet(keys) /\ keys \subseteq Int /\ \A r \in rows : r[1] \in keys
    <2> DEFINE key == [r \in rows |-> r[1]]
    <2>1. IsFiniteSet({key[r] : r \in rows})
      BY <1>4, FiniteRange
    <2>2. {key[r] : r \in rows} = keys
      OBVIOUS
    <2>3. \A r \in rows : r[1] \in Int
      BY <1>4, RowTypes
    <2> HIDE DEF rows
    <2> QED
      BY <2>1, <2>2, <2>3
  <1>6. Cardinality(rows) \in Nat /\ Cardinality(keys) \in Nat
    BY <1>4, <1>5, FS_CardinalityType
  <1> HIDE DEF rows, keys
  <1>7. \A k \in keys : Var(k) \in Nat /\ varid <= Var(k) /\ Var(k) < varid'
    <2> SUFFICES ASSUME NEW k \in keys PROVE Var(k) \in Nat /\ varid <= Var(k) /\ Var(k) < varid'
      OBVIOUS
    <2> DEFINE m == Cardinality({l \in keys : l < k})
    <2>1. m \in Nat /\ m < Cardinality(keys)
      BY <1>5, IntegerRanks
    <2> HIDE DEF m
    <2>2. varid + m \in Nat /\ varid <= varid + m /\ varid + m < varid'
      BY <1>1, <1>2, <1>6, <2>1
    <2> QED
      BY <2>2 DEF m
  <1>8. ASSUME NEW r \in rows, NEW s \in rows, Dom(r) = Dom(s) PROVE r = s
    <2> DEFINE m == Cardinality({q \in rows : RowLess(q, r)})
               n == Cardinality({q \in rows : RowLess(q, s)})
    <2>1. m \in Nat /\ n \in Nat /\ (m = n => r = s)
      BY <1>4, RowRanks
    <2>2. domid + m = domid + n
      BY <1>8
    <2> HIDE DEF m, n
    <2> QED
      BY <1>2, <2>1, <2>2
  <1>8a. ASSUME NEW k \in keys, NEW l \in keys, Var(k) = Var(l) PROVE k = l
    <2> DEFINE m == Cardinality({i \in keys : i < k})
               n == Cardinality({i \in keys : i < l})
    <2>0. \A a \in keys : /\ Cardinality({i \in keys : i < a}) \in Nat
                          /\ \A b \in keys : Cardinality({i \in keys : i < a}) = Cardinality({i \in keys : i < b})
                                               => a = b
      BY <1>5, IntegerRanks, Zenon
    <2>1. m \in Nat /\ n \in Nat /\ (m = n => k = l)
      BY <2>0, Zenon
    <2>2. varid + m = varid + n
      BY <1>8a
    <2> HIDE DEF m, n
    <2> QED
      BY <1>2, <2>1, <2>2
  <1>8b. \A r \in rows : /\ WeightOf(r) \in Nat \ {0}
                         /\ Triple(r)[3] = Q(WeightOf(r), SumOfWeights(input, r[1]))
    <2>1. \A r \in rows : WeightOf(r) \in Int /\ WeightOf(r) > 0
      <3>1. \A r \in rows : WeightOf(r) \in Int /\ WeightOf(r) >= 0 /\ WeightOf(r) # 0
        BY <1>1, <1>4, RowTypes DEF IsWeight, rows
      <3> HIDE DEF Triple
      <3> QED
        BY <3>1
    <2> HIDE DEF Var, Dom
    <2> QED
      BY <2>1
  <1>9. \A r \in rows : Triple(r)[1] = Var(r[1]) /\ Triple(r)[2] = Dom(r)
    <2> HIDE DEF Var, Dom
    <2> QED
      OBVIOUS
  <1> HIDE DEF Var, Dom, Triple
  <1>10. \A r \in rows : /\ Triple(r)[1] \in Nat /\ varid <= Triple(r)[1] /\ Triple(r)[1] < varid'
                         /\ ClauseInv(<<Triple(r)>>, varid')
    BY <1>5, <1>7, <1>9, OneTriple
  <1>11. ASSUME NEW x \in T
         PROVE  \E r \in rows : x.row = r /\ x.cond = <<Triple(r)>>
    OBVIOUS
  <1>12. IsFiniteSet(T)
    BY <1>4, FiniteRange
  <1>13. /\ R.type = TABLETYPE_URELATION /\ R.dimension = 1 /\ R.tuples = tuples /\ DOMAIN tuples = T
         /\ \A x \in T : tuples[x] = input[x.row]
    OBVIOUS
  <1> HIDE DEF T, tuples, R
  <1>14. BagInv(tuples, varid')
    BY <1>3, <1>4, <1>10, <1>11, <1>12, <1>13 DEF BagInv
  <1>15. TableInv(R, varid')
    BY <1>13, <1>14 DEF TableInv, TableTypes, TABLETYPE_CERTAIN, TABLETYPE_INDEPENDENT, TABLETYPE_URELATION
  <1>16. \A z \in TriplesOf(R) : \E r \in rows : z = Triple(r)
    <2> SUFFICES ASSUME NEW z \in TriplesOf(R) PROVE \E r \in rows : z = Triple(r)
      OBVIOUS
    <2>1. PICK x \in T : \E k \in DOMAIN x.cond : z = x.cond[k]
      BY <1>13, TriplesOfClauses
    <2>2. PICK r \in rows : x.cond = <<Triple(r)>>
      BY <1>11
    <2> QED
      BY <2>1, <2>2
  <1>17. \A z \in TriplesOf(R) : z[1] \in Nat /\ varid <= z[1]
    BY <1>10, <1>16
  <1>18. TABLETYPE_URELATION # TABLETYPE_INDEPENDENT
    BY DEF TABLETYPE_URELATION, TABLETYPE_INDEPENDENT
  <1>19. \A y, z \in TriplesOf(R) :
            y[1] = z[1] /\ (y[2] = z[2] \/ TABLETYPE_URELATION = TABLETYPE_INDEPENDENT) => y = z
    BY <1>8, <1>9, <1>16, <1>18
  <1>20. varid' \in Nat /\ domid' \in Nat /\ varid <= varid'
    BY <1>1, <1>2, <1>6
  <1>21. \A r \in rows : Triple(r) \in TriplesOf(R)
    <2> SUFFICES ASSUME NEW r \in rows PROVE Triple(r) \in TriplesOf(R)
      OBVIOUS
    <2>1. tuple[r] \in DOMAIN R.tuples /\ tuple[r].cond = <<Triple(r)>>
      BY <1>13 DEF T
    <2>2. 1 \in DOMAIN <<Triple(r)>> /\ <<Triple(r)>>[1] = Triple(r)
      OBVIOUS
    <2> HIDE DEF tuple
    <2> QED
      BY <2>1, <2>2, TriplesOfClauses
  <1>22. SharesInv(TriplesOf(R))
    <2> SUFFICES ASSUME NEW z \in TriplesOf(R) PROVE WithinOne(RangesOf(TriplesOf(R), z[1]))
      BY DEF SharesInv
    <2>1. PICK q \in rows : z = Triple(q)
      BY <1>16
    <2> DEFINE k == q[1]
               Rk == {r \in rows : r[1] = k}
               D == RangesOf(TriplesOf(R), z[1])
               triple == [r \in Rk |-> Triple(r)]
               f == [x \in D |-> CHOOSE r \in Rk : x = Triple(r)]
    <2>2. IsFiniteSet(Rk) /\ Rk # {} /\ \A r \in Rk : r \in rows /\ WeightOf(r) \in Nat \ {0}
      BY <1>4, <1>8b, FS_Subset
    <2>3. SumOfWeights(input, k) = WeightOfAll(Rk)
      <3>1. Rk = {r \in DOMAIN input : r[1] = k /\ WeightOf(r) # 0}
        BY DEF rows
      <3> QED
        BY <3>1 DEF SumOfWeights, WeightOfAll
    <2>4. D = {triple[r] : r \in Rk}
      <3>1. \A r \in rows : Triple(r)[1] = z[1] <=> r[1] = k
        <4> SUFFICES ASSUME NEW r \in rows PROVE Triple(r)[1] = z[1] <=> r[1] = k
          OBVIOUS
        <4>1. Triple(r)[1] = Var(r[1]) /\ z[1] = Var(k) /\ r[1] \in keys /\ k \in keys
          BY <1>5, <1>9, <2>1
        <4> HIDE DEF k
        <4> QED
          BY <1>8a, <4>1
      <3> QED
        BY <1>16, <1>21, <3>1 DEF RangesOf
    <2>5. IsFiniteSet(D)
      <3>1. DOMAIN triple = Rk /\ triple = [r \in Rk |-> triple[r]]
        OBVIOUS
      <3>0. IsFiniteSet(Rk)
        BY <2>2
      <3> HIDE DEF triple, Rk
      <3>2. IsFiniteSet({triple[r] : r \in Rk})
        BY <3>0, <3>1, FiniteRange
      <3> QED
        BY <2>4, <3>2, Zenon
    <2>6. ASSUME NEW r \in Rk, NEW s \in Rk, Triple(r) = Triple(s) PROVE r = s
      BY <1>8, <1>9, <2>2, <2>6
    <2>7. ASSUME NEW x \in D PROVE f[x] \in Rk /\ x = Triple(f[x])
      <3>1. \E r \in Rk : x = Triple(r)
        BY <2>4
      <3> HIDE DEF D
      <3> QED
        BY <3>1
    <2>8. ASSUME NEW r \in Rk PROVE Triple(r) \in D /\ f[Triple(r)] = r
      <3>1. Triple(r) \in D
        BY <2>4
      <3> QED
        BY <2>6, <2>7, <3>1
    <2>9. f \in [D -> Rk]
      <3> HIDE DEF D, Rk
      <3>1. f = [x \in D |-> f[x]] /\ DOMAIN f = D
        OBVIOUS
      <3> HIDE DEF f
      <3> QED
        BY <2>7, <3>1
    <2> HIDE DEF D, f, triple
    <2>10. \A x, y \in D : f[x] = f[y] => x = y
      BY <2>7
    <2>11. \A r \in Rk : \E x \in D : r = f[x]
      BY <2>8
    <2>12. \A x \in D : x[3] = Q(WeightOf(f[x]), SumOfWeights(input, k))
      <3> SUFFICES ASSUME NEW x \in D PROVE x[3] = Q(WeightOf(f[x]), SumOfWeights(input, k))
        OBVIOUS
      <3>1. f[x] \in rows /\ f[x][1] = k /\ x = Triple(f[x])
        BY <2>7
      <3> QED
        BY <1>8b, <3>1
    <2> HIDE DEF Rk
    <2>13. PICK W : W = SumOfWeights(input, k)
      OBVIOUS
    <2>14. W \in Nat \ {0} /\ Value(TotalOf(D), W, W)
      <3>1. \A r \in Rk : WeightOf(r) \in Nat \ {0}
        BY <2>2
      <3>2. W = WeightOfAll(Rk) /\ \A x \in D : x[3] = Q(WeightOf(f[x]), W)
        BY <2>3, <2>12, <2>13
      <3>3. IsFiniteSet(Rk) /\ Rk # {}
        BY <2>2
      <3> QED
        BY <2>5, <2>9, <2>10, <2>11, <3>1, <3>2, <3>3, TotalOfShares
    <2>15. WithinOne(D)
      <3>1. W \in Nat /\ W <= W
        BY <2>14
      <3> QED
        BY <2>14, <3>1, SharesWithinOne
    <2> QED
      BY <2>15 DEF D
  <1> QED
    BY <1>1, <1>15, <1>17, <1>19, <1>20, <1>22, FreshTriples DEF R

(* PickVar numbers the occurrences of rows. *)
LEMMA PickRanks ==
    ASSUME NEW S, IsFiniteSet(S), S \subseteq Rows \X Nat
    PROVE  \A o \in S :
              /\ PickVar(S, o) \in Nat /\ PickVar(S, o) < Cardinality(S)
              /\ \A p \in S : PickVar(S, o) = PickVar(S, p) => o = p
  <1> DEFINE Less(p, o) == RowLess(p[1], o[1]) \/ (p[1] = o[1] /\ p[2] < o[2])
             lt == {p \in S \X S : Less(p[1], p[2])}
  <1>1. \A p, q \in S : <<p, q>> \in lt <=> Less(p, q)
    <2> HIDE DEF Less
    <2> QED
      OBVIOUS
  <1>2. \A o \in S : PickVar(S, o) = Cardinality(Below(S, lt, o))
    <2> SUFFICES ASSUME NEW o \in S PROVE PickVar(S, o) = Cardinality(Below(S, lt, o))
      OBVIOUS
    <2>1. Below(S, lt, o) = {p \in S : Less(p, o)}
      <3> HIDE DEF lt, Less
      <3> QED
        BY <1>1 DEF Below
    <2> QED
      BY <2>1 DEF PickVar
  <1>3. \A o \in S : /\ o[1][1] \in Int /\ o[1][2] \in Int /\ o[1] = <<o[1][1], o[1][2]>>
                     /\ o[2] \in Int /\ o = <<o[1], o[2]>>
    BY RowTypes
  <1> HIDE DEF lt
  <1>4. \A p \in S : <<p, p>> \notin lt
    BY <1>1, <1>3 DEF RowLess
  <1>5. ASSUME NEW p \in S, NEW q \in S, NEW r \in S, <<p, q>> \in lt, <<q, r>> \in lt
        PROVE  <<p, r>> \in lt
    <2>1. Less(p, q) /\ Less(q, r)
      BY <1>1, <1>5
    <2>2. Less(p, r)
      BY <1>3, <2>1 DEF RowLess
    <2> QED
      BY <1>1, <2>2
  <1>6. ASSUME NEW p \in S, NEW q \in S, p # q PROVE <<p, q>> \in lt \/ <<q, p>> \in lt
    <2>1. p[1] # q[1] \/ p[2] # q[2]
      BY <1>3, <1>6, Zenon
    <2>2. p[1] # q[1] => p[1][1] # q[1][1] \/ p[1][2] # q[1][2]
      <3>1. p[1] = <<p[1][1], p[1][2]>> /\ q[1] = <<q[1][1], q[1][2]>>
        BY <1>3
      <3> QED
        BY <3>1, Zenon
    <2>3. Less(p, q) \/ Less(q, p)
      BY <1>3, <2>1, <2>2 DEF RowLess
    <2> QED
      BY <1>1, <2>3
  <1>7. \A r \in S :
           /\ Cardinality(Below(S, lt, r)) \in Nat
           /\ Cardinality(Below(S, lt, r)) < Cardinality(S)
           /\ \A s \in S : Cardinality(Below(S, lt, r)) = Cardinality(Below(S, lt, s)) => r = s
    <2> HIDE DEF Less
    <2> QED
      BY <1>4, <1>5, <1>6, Ranks
  <1> QED
    BY <1>2, <1>7

LEMMA FiniteOccurrences ==
    ASSUME NEW input, IsFiniteSet(DOMAIN input), \A r \in DOMAIN input : input[r] \in Nat
    PROVE  IsFiniteSet(Occurrences(input))
  <1> DEFINE picked == {s \in DOMAIN input : ProbOf(s) # QZero}
             f == [r \in picked |-> {r} \X (1..input[r])]
             F == {f[r] : r \in picked}
  <1>1. IsFiniteSet(picked) /\ \A r \in picked : input[r] \in Nat
    BY FS_Subset
  <1>2. UNION F = Occurrences(input)
    BY DEF Occurrences
  <1> HIDE DEF picked
  <1>3. IsFiniteSet(F)
    <2>1. DOMAIN f = picked /\ f = [r \in picked |-> f[r]]
      BY Zenon
    <2> HIDE DEF f
    <2> QED
      BY <1>1, <2>1, FiniteRange
  <1>4. ASSUME NEW r \in picked PROVE IsFiniteSet({r} \X (1..input[r]))
    <2>1. IsFiniteSet({r})
      BY FS_Singleton, Zenon
    <2>2. input[r] \in Int /\ 1 \in Int
      BY <1>1
    <2>3. IsFiniteSet(1..input[r])
      BY <2>2, FS_Interval
    <2> QED
      BY <2>1, <2>3, FS_Product
  <1>5. \A S \in F : IsFiniteSet(S)
    BY <1>4
  <1> HIDE DEF F
  <1> QED
    BY <1>2, <1>3, <1>5, FS_UNION

LEMMA PickStep ==
    ASSUME NEW st, CondColumnsInv, Readable(st), st.into \in Tables \ Catalog, rewrite_pick_tuples(st)
    PROVE  CondColumnsInv'
  <1> DEFINE input == Input(st)
             picked == {s \in DOMAIN input : ProbOf(s) # QZero}
             occ == UNION {{r} \X (1..input[r]) : r \in picked}
             Triple(o) == <<varid + PickVar(occ, o), 1, ProbOf(o[1])>>
             Tuple(o) == [row |-> o[1], cond |-> <<Triple(o)>>]
             tuple == [o \in occ |-> Tuple(o)]
             T == {tuple[o] : o \in occ}
             tuples == [x \in T |-> Cardinality({o \in occ : Tuple(o) = x})]
             R == [type |-> TABLETYPE_INDEPENDENT, dimension |-> 1, tuples |-> tuples]
  <1>1. /\ CreateTable(st, TABLETYPE_INDEPENDENT, 1, tuples)
        /\ varid' = varid + Cardinality(occ) /\ domid' = domid
        /\ \A r \in DOMAIN input : IsProbability(ProbOf(r))
    <2>1. T = {Tuple(o) : o \in occ}
      OBVIOUS
    <2> QED
      BY <2>1, Zenon DEF rewrite_pick_tuples, Occurrences, nextval
  <1>2. varid \in Nat /\ domid \in Nat
    BY DEF CondColumnsInv, CatalogInv
  <1>3. /\ IsFiniteSet(DOMAIN input) /\ DOMAIN input \subseteq Rows
        /\ \A r \in DOMAIN input : input[r] \in Nat
    BY InputType
  <1> HIDE DEF input
  <1>4. IsFiniteSet(picked) /\ picked \subseteq Rows /\ \A r \in picked : input[r] \in Nat
    BY <1>3, FS_Subset
  <1> HIDE DEF picked
  <1>5. occ \subseteq Rows \X Nat
    BY <1>4
  <1>5a. \A o \in occ : ProbOf(o[1]) \in Rat /\ IsProbability(ProbOf(o[1]))
    <2>1. \A o \in occ : o[1] \in DOMAIN input /\ o[1] \in Rows
      BY <1>3 DEF picked
    <2> HIDE DEF occ
    <2> QED
      BY <1>1, <2>1, RowTypes
  <1>6. IsFiniteSet(occ)
    <2>1. occ = Occurrences(input)
      BY DEF Occurrences, picked
    <2> QED
      BY <1>3, <2>1, FiniteOccurrences
  <1>7. Cardinality(occ) \in Nat
    BY <1>6, FS_CardinalityType
  <1> HIDE DEF occ
  <1>8. \A o \in occ : /\ PickVar(occ, o) \in Nat /\ PickVar(occ, o) < Cardinality(occ)
                       /\ \A p \in occ : PickVar(occ, o) = PickVar(occ, p) => o = p
    BY <1>5, <1>6, PickRanks
  <1>9. \A o \in occ : Triple(o)[1] = varid + PickVar(occ, o) /\ Triple(o)[3] = ProbOf(o[1])
    OBVIOUS
  <1> HIDE DEF Triple
  <1>10. \A o \in occ : /\ Triple(o)[1] \in Nat /\ varid <= Triple(o)[1] /\ Triple(o)[1] < varid'
                        /\ ClauseInv(<<Triple(o)>>, varid')
    <2> SUFFICES ASSUME NEW o \in occ
                 PROVE  Triple(o)[1] \in Nat /\ varid <= Triple(o)[1] /\ Triple(o)[1] < varid'
      BY OneTriple
    <2> QED
      BY <1>1, <1>2, <1>7, <1>8, <1>9
  <1>11. ASSUME NEW o \in occ, NEW p \in occ, Triple(o)[1] = Triple(p)[1] PROVE o = p
    BY <1>2, <1>8, <1>9, <1>11
  <1>12. ASSUME NEW x \in T
         PROVE  \E o \in occ : x = Tuple(o) /\ x.row = o[1] /\ x.cond = <<Triple(o)>>
    OBVIOUS
  <1>13. ASSUME NEW o \in occ, NEW p \in occ, Tuple(o) = Tuple(p) PROVE o = p
    <2>1. Tuple(o).cond = <<Triple(o)>> /\ Tuple(p).cond = <<Triple(p)>>
      OBVIOUS
    <2>2. Triple(o) = Triple(p)
      <3> HIDE DEF Tuple
      <3> QED
        BY <1>13, <2>1
    <2> QED
      BY <1>11, <2>2
  <1>14. IsFiniteSet(T)
    BY <1>6, FiniteRange
  <1>15. /\ R.type = TABLETYPE_INDEPENDENT /\ R.dimension = 1 /\ R.tuples = tuples /\ DOMAIN tuples = T
         /\ \A x \in T : tuples[x] = Cardinality({o \in occ : Tuple(o) = x})
    <2> HIDE DEF T, Tuple
    <2> QED
      OBVIOUS
  <1> HIDE DEF T, tuples, R, Tuple
  <1>16. ASSUME NEW x \in T PROVE tuples[x] = 1
    <2>1. PICK o \in occ : x = Tuple(o)
      BY <1>12
    <2>2. {p \in occ : Tuple(p) = x} = {o}
      BY <1>13, <2>1
    <2> QED
      BY <1>15, <2>2, FS_Singleton
  <1>17. BagInv(tuples, varid')
    <2>1. \A o \in occ : o[1] \in Rows
      BY <1>5
    <2> QED
      <3>1. ASSUME NEW x \in T
            PROVE  x.row \in Rows /\ tuples[x] \in Nat /\ ClauseInv(x.cond, varid')
        <4>1. PICK o \in occ : x.row = o[1] /\ x.cond = <<Triple(o)>>
          BY <1>12
        <4> QED
          BY <1>10, <1>16, <2>1, <4>1
      <3> QED
        BY <1>14, <1>15, <3>1 DEF BagInv
  <1>18. IndependentInv(tuples)
    <2> SUFFICES ASSUME NEW x \in T, NEW y \in T
                 PROVE  Len(x.cond) = 1 /\ (x # y => x.cond[1][1] # y.cond[1][1])
      BY <1>15, <1>16 DEF IndependentInv
    <2>1. PICK o \in occ : x = Tuple(o) /\ x.cond = <<Triple(o)>>
      BY <1>12
    <2>2. PICK p \in occ : y = Tuple(p) /\ y.cond = <<Triple(p)>>
      BY <1>12
    <2>3. x.cond[1] = Triple(o) /\ y.cond[1] = Triple(p) /\ Len(x.cond) = 1
      BY <2>1, <2>2
    <2> QED
      BY <1>11, <2>1, <2>2, <2>3
  <1>19. TableInv(R, varid')
    BY <1>15, <1>17, <1>18 DEF TableInv, TableTypes, TABLETYPE_CERTAIN, TABLETYPE_INDEPENDENT, TABLETYPE_URELATION
  <1>20. \A z \in TriplesOf(R) : \E o \in occ : z = Triple(o)
    <2> SUFFICES ASSUME NEW z \in TriplesOf(R) PROVE \E o \in occ : z = Triple(o)
      OBVIOUS
    <2>1. PICK x \in T : \E k \in DOMAIN x.cond : z = x.cond[k]
      BY <1>15, TriplesOfClauses
    <2>2. PICK o \in occ : x.cond = <<Triple(o)>>
      BY <1>12
    <2> QED
      BY <2>1, <2>2
  <1>21. \A z \in TriplesOf(R) : z[1] \in Nat /\ varid <= z[1]
    BY <1>10, <1>20
  <1>22. \A y, z \in TriplesOf(R) :
            y[1] = z[1] /\ (y[2] = z[2] \/ TABLETYPE_INDEPENDENT = TABLETYPE_INDEPENDENT) => y = z
    BY <1>11, <1>20
  <1>23. varid' \in Nat /\ domid' \in Nat /\ varid <= varid'
    BY <1>1, <1>2, <1>7
  <1>24. SharesInv(TriplesOf(R))
    <2> SUFFICES ASSUME NEW z \in TriplesOf(R) PROVE WithinOne(RangesOf(TriplesOf(R), z[1]))
      BY DEF SharesInv
    <2>1. RangesOf(TriplesOf(R), z[1]) = {z}
      BY <1>22 DEF RangesOf
    <2>2. z[3] \in Rat /\ IsProbability(z[3])
      BY <1>5a, <1>9, <1>20
    <2> QED
      BY <2>1, <2>2, OneRangeWithinOne
  <1> QED
    BY <1>1, <1>19, <1>21, <1>22, <1>23, <1>24, FreshTriples DEF R

-----------------------------------------------------------------------------
(* Numbers that are used up, and queries *)

LEMMA LargerCounters ==
    ASSUME CondColumnsInv, UNCHANGED rel, varid' \in Nat, domid' \in Nat, varid <= varid'
    PROVE  CondColumnsInv'
  <1>1. varid \in Nat /\ CatalogInv(rel, varid, domid)
    BY DEF CondColumnsInv, CatalogInv
  <1>2. ASSUME NEW cond, ClauseInv(cond, varid) PROVE ClauseInv(cond, varid')
    BY <1>1, <1>2 DEF ClauseInv
  <1>3. ASSUME NEW S, TableInv(S, varid) PROVE TableInv(S, varid')
    <2>1. BagInv(S.tuples, varid')
      BY <1>2, <1>3 DEF TableInv, BagInv
    <2> QED
      BY <1>3, <2>1 DEF TableInv
  <1>4. CatalogInv(rel, varid', domid')
    BY <1>1, <1>3 DEF CatalogInv
  <1> QED
    BY <1>4 DEF CondColumnsInv

LEMMA RepairFailsStep ==
    ASSUME NEW st, CondColumnsInv, Readable(st), RepairFails(st)
    PROVE  CondColumnsInv'
  <1> DEFINE rows == {r \in DOMAIN Input(st) : WeightOf(r) > 0}
             key == [r \in rows |-> r[1]]
             keys == {r[1] : r \in rows}
  <1>1. PICK m \in 0..Cardinality(keys), n \in 0..Cardinality(rows) :
           varid' = nextval(varid, m) /\ domid' = nextval(domid, n)
    BY DEF RepairFails
  <1>2. IsFiniteSet(rows) /\ IsFiniteSet(keys)
    <2>1. IsFiniteSet(rows)
      BY InputType, FS_Subset
    <2> HIDE DEF rows
    <2>2. IsFiniteSet({key[r] : r \in rows})
      BY <2>1, FiniteRange
    <2>3. {key[r] : r \in rows} = keys
      OBVIOUS
    <2> QED
      BY <2>1, <2>2, <2>3
  <1> HIDE DEF rows, keys
  <1>3. m \in Nat /\ n \in Nat
    BY <1>2, FS_CardinalityType
  <1>4. varid \in Nat /\ domid \in Nat /\ UNCHANGED rel
    BY DEF CondColumnsInv, CatalogInv, RepairFails
  <1>5. varid' \in Nat /\ domid' \in Nat /\ varid <= varid'
    BY <1>1, <1>3, <1>4 DEF nextval
  <1> QED
    BY <1>4, <1>5, LargerCounters

LEMMA PickFailsStep ==
    ASSUME NEW st, CondColumnsInv, Readable(st), PickFails(st)
    PROVE  CondColumnsInv'
  <1> DEFINE good == {o \in Occurrences(Input(st)) : IsProbability(ProbOf(o[1]))}
  <1>1. PICK n \in 0..Cardinality(good) : varid' = nextval(varid, n)
    BY DEF PickFails
  <1>2. IsFiniteSet(good)
    <2>1. IsFiniteSet(Occurrences(Input(st)))
      BY InputType, FiniteOccurrences
    <2> QED
      BY <2>1, FS_Subset
  <1> HIDE DEF good
  <1>3. n \in Nat
    BY <1>2, FS_CardinalityType
  <1>4. varid \in Nat /\ domid \in Nat /\ UNCHANGED <<rel, domid>>
    BY DEF CondColumnsInv, CatalogInv, PickFails
  <1>5. varid' \in Nat /\ domid' \in Nat /\ varid <= varid'
    BY <1>1, <1>3, <1>4 DEF nextval
  <1> QED
    BY <1>4, <1>5, LargerCounters

LEMMA UnchangedCatalog ==
    ASSUME CondColumnsInv, UNCHANGED <<rel, varid, domid>>
    PROVE  CondColumnsInv'
  BY DEF CondColumnsInv

LEMMA InitInv == Init => CondColumnsInv
  <1> SUFFICES ASSUME Init PROVE CondColumnsInv
    OBVIOUS
  <1> DEFINE T(t) == {[row |-> r, cond |-> <<>>] : r \in DOMAIN BaseContents[t]}
  <1>1. rel = [t \in Tables |-> rel[t]] /\ varid = 1 /\ domid = 1
    BY DEF Init
  <1>2. ASSUME NEW t \in TablesIn(rel)
        PROVE  /\ rel[t].type = TABLETYPE_CERTAIN /\ rel[t].dimension = 0
               /\ DOMAIN rel[t].tuples = T(t) /\ t \in DOMAIN BaseContents
               /\ \A x \in T(t) : rel[t].tuples[x] = BaseContents[t][x.row]
    BY DEF Init, TablesIn
  <1>3. ASSUME NEW t \in TablesIn(rel), NEW x \in DOMAIN rel[t].tuples
        PROVE  x.row \in Rows /\ rel[t].tuples[x] \in Nat /\ x.cond = <<>>
    <2>1. PICK r \in DOMAIN BaseContents[t] : x = [row |-> r, cond |-> <<>>]
      BY <1>2
    <2>2. BaseContents[t][r] \in Nat
      BY <1>2, URelationsAssumption
    <2> QED
      BY <1>2, <2>1, <2>2, RowTypes
  <1>4. ASSUME NEW t \in TablesIn(rel) PROVE IsFiniteSet(DOMAIN rel[t].tuples)
    <2> DEFINE f == [r \in DOMAIN BaseContents[t] |-> [row |-> r, cond |-> <<>>]]
    <2>1. IsFiniteSet(DOMAIN BaseContents[t])
      BY <1>2, URelationsAssumption
    <2>2. IsFiniteSet({f[r] : r \in DOMAIN BaseContents[t]})
      BY <2>1, FiniteRange
    <2>3. {f[r] : r \in DOMAIN BaseContents[t]} = T(t)
      OBVIOUS
    <2> QED
      BY <1>2, <2>2, <2>3
  <1>5. ClauseInv(<<>>, varid)
    BY DEF ClauseInv
  <1>6. \A t \in TablesIn(rel) : BagInv(rel[t].tuples, varid)
    BY <1>3, <1>4, <1>5 DEF BagInv
  <1>7. \A t \in TablesIn(rel) : TableInv(rel[t], varid)
    BY <1>2, <1>3, <1>6 DEF TableInv, TableTypes, TABLETYPE_CERTAIN, TABLETYPE_INDEPENDENT
  <1>8. TriplesAll(rel) = {}
    BY <1>3, TriplesOfTables, TriplesOfClauses
  <1>9. WorldTableInv(rel) /\ SharesInv(TriplesAll(rel))
    BY <1>8 DEF WorldTableInv, SharesInv
  <1> QED
    BY <1>1, <1>7, <1>9 DEF CondColumnsInv, CatalogInv

LEMMA NextInv == CondColumnsInv /\ [Next]_vars => CondColumnsInv'
  <1> SUFFICES ASSUME CondColumnsInv, [Next]_vars PROVE CondColumnsInv'
    OBVIOUS
  <1>1. CASE UNCHANGED vars
    BY <1>1, UnchangedCatalog DEF vars
  <1>2. CASE EndOfQuery
    BY <1>2, UnchangedCatalog DEF EndOfQuery
  <1>3. ASSUME NEW st \in Statements, \A k \in DOMAIN st.from : st.from[k] \in Catalog, process(st)
        PROVE  CondColumnsInv'
    <2>1. Readable(st)
      BY <1>3 DEF Readable
    <2>2. CASE st.into \in Tables \ Catalog /\ process_select(st)
      BY <2>1, <2>2, SelectStep
    <2>3. CASE st.into \in Tables \ Catalog /\ set_operation(st)
      BY <2>1, <2>3, UnionStep
    <2>4. CASE st.into \in Tables \ Catalog /\ rewrite_possible(st)
      BY <2>1, <2>4, PossibleStep
    <2>5. CASE st.into \in Tables \ Catalog /\ rewrite_repair_key(st)
      BY <2>1, <2>5, RepairStep
    <2>6. CASE st.into \in Tables \ Catalog /\ rewrite_pick_tuples(st)
      BY <2>1, <2>6, PickStep
    <2>7. CASE RepairFails(st) \/ PickFails(st)
      BY <2>1, <2>7, RepairFailsStep, PickFailsStep
    <2>8. CASE conf(st)
      BY <2>8, UnchangedCatalog DEF conf, Return
    <2>9. CASE rewrite_ecount(st) \/ rewrite_esum(st)
      BY <2>9, UnchangedCatalog DEF rewrite_ecount, rewrite_esum, SumTconf, Return
    <2> QED
      BY <1>3, <2>2, <2>3, <2>4, <2>5, <2>6, <2>7, <2>8, <2>9 DEF process
  <1> QED
    BY <1>1, <1>2, <1>3 DEF Next

-----------------------------------------------------------------------------
(* Theorems *)

(* Whatever statements are processed in whatever order, the condition      *)
(* columns of all tables satisfy the invariant.                            *)
THEOREM CondColumnsInvariant == Spec => []CondColumnsInv
  BY InitInv, NextInv, PTL DEF Spec

(* No clause that a join, a union, repair-key or pick-tuples stores gives  *)
(* a variable two ranges, although process_select compares the triples of  *)
(* U-relations only.                                                       *)
THEOREM JoinsStayConsistent == Spec => []ConsistentClauses
  BY CondColumnsInvariant, InvariantGivesProperties, PTL

(* The type in the catalogue, by which the operator is chosen, says what   *)
(* the clauses of the table are: no condition in a certain table, and one  *)
(* variable per tuple in an independent one.                               *)
THEOREM TypesStayFaithful == Spec => []TypesFaithful
  BY CondColumnsInvariant, InvariantGivesProperties, PTL

(* The triples of all tables are of one world table: the probability of a  *)
(* range of a variable is the same wherever it is stored, failed           *)
(* statements and repairs of uncertain tables included.                    *)
THEOREM TablesShareOneWorldTable == Spec => []OneWorldTable
  BY CondColumnsInvariant, InvariantGivesProperties, PTL

(* The ranges of a variable are together at most as probable as 1, however *)
(* its triples are spread over tables by joins and unions: repair-key      *)
(* divides every weight by the sum over the rows of the same key, without  *)
(* duplicates and rows of weight 0, and gives every such row one range;    *)
(* pick-tuples refuses a probability outside of [0, 1].                    *)
THEOREM RangesStayWithinOne == Spec => []RangesWithinOne
  BY CondColumnsInvariant, InvariantGivesProperties, PTL
=============================================================================
