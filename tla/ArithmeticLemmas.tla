--------------------------- MODULE ArithmeticLemmas ---------------------------
(***************************************************************************)
(* Facts about the sums and products of the community modules over finite  *)
(* sets (the fold that computes them exists, its value is a natural number *)
(* and at least every summand), about finite sets of functions and ranks   *)
(* in an order, about folds over sequences and concatenations; and about   *)
(* the arithmetic of Rationals: the recursion of GCD has a value that      *)
(* divides both numbers, sums and products are fractions with the right    *)
(* value, and QLess is the order of the fractions.                         *)
(***************************************************************************)
EXTENDS Integers, Sequences, FiniteSets, FiniteSetsExt, SequencesExt, Rationals,
        FiniteSetTheorems, WellFoundedInduction, TLAPS

-----------------------------------------------------------------------------
(* Induction, as the absence of a least counterexample *)

LEMMA LeastNatural ==
    ASSUME NEW T, T \subseteq Nat, T # {}
    PROVE  \E x \in T : \A y \in T : ~(y < x)
  <1> DEFINE R == OpToRel(<, Nat)
  <1>1. IsWellFoundedOn(R, Nat)
    BY NatLessThanWellFounded
  <1>2. \A x, y \in Nat : y < x => <<y, x>> \in R
    BY DEF OpToRel
  <1> HIDE DEF R
  <1>3. \E x \in T : \A y \in T : ~(<<y, x>> \in R)
    BY <1>1, WFMin
  <1> QED
    BY <1>2, <1>3

(* A set of naturals with 0 that is closed under successors is everything. *)
LEMMA NaturalsByInduction ==
    ASSUME NEW P, 0 \in P, \A n \in Nat : n \in P => n + 1 \in P
    PROVE  Nat \subseteq P
  <1> SUFFICES ASSUME Nat \ P # {} PROVE FALSE
    OBVIOUS
  <1>1. PICK x \in Nat \ P : \A y \in Nat \ P : ~(y < x)
    BY LeastNatural
  <1>2. x # 0 /\ x - 1 \in Nat /\ x - 1 < x /\ (x - 1) + 1 = x
    BY <1>1
  <1>3. x - 1 \in P
    BY <1>1, <1>2
  <1> QED
    BY <1>1, <1>2, <1>3

(* Subsets of a finite set, of which none is a minimal counterexample. *)
LEMMA NoMinimalSubset ==
    ASSUME NEW D, IsFiniteSet(D), NEW B, B \subseteq SUBSET D,
           \A s \in B : \E t \in B : t \subseteq s /\ t # s
    PROVE  B = {}
  <1> SUFFICES ASSUME B # {} PROVE FALSE
    OBVIOUS
  <1> DEFINE R == StrictSubsetOrdering(D)
  <1>1. IsWellFoundedOn(R, SUBSET D)
    <2>1. FiniteSubsetsOf(D) = SUBSET D
      BY FS_FiniteSubsetsOfFinite, Zenon
    <2>2. IsWellFoundedOn(R, FiniteSubsetsOf(D))
      BY FS_StrictSubsetOrderingWellFounded, Zenon
    <2> QED
      BY <2>1, <2>2, Zenon
  <1>2. \A s, t \in SUBSET D : t \subseteq s /\ t # s => <<t, s>> \in R
    BY DEF StrictSubsetOrdering
  <1> HIDE DEF R
  <1>3. PICK s \in B : \A t \in B : ~(<<t, s>> \in R)
    BY <1>1, WFMin
  <1> QED
    BY <1>2, <1>3

-----------------------------------------------------------------------------
(* Folds over finite sets *)

(* g is computed from the smaller subset without the chosen element. *)
FoldsTo(g, D, base, G, c) ==
    \A s \in SUBSET D : g[s] = IF s = {} THEN base ELSE G[<<s, g[s \ {c[s]}]>>]

LEMMA FoldExists ==
    ASSUME NEW D, IsFiniteSet(D), NEW V, NEW base \in V, NEW G \in [(SUBSET D) \X V -> V],
           NEW c, \A s \in SUBSET D : s # {} => c[s] \in s
    PROVE  \E g \in [SUBSET D -> V] : FoldsTo(g, D, base, G, c)
  <1> DEFINE Upto(g, n) == \A s \in SUBSET D :
                 Cardinality(s) <= n => g[s] = IF s = {} THEN base ELSE G[<<s, g[s \ {c[s]}]>>]
             P == {n \in Nat : \E g \in [SUBSET D -> V] : Upto(g, n)}
  <1>1. \A s \in SUBSET D : IsFiniteSet(s) /\ Cardinality(s) \in Nat
    BY FS_Subset, FS_CardinalityType
  <1>2. 0 \in P
    <2> DEFINE g == [s \in SUBSET D |-> base]
    <2>1. \A s \in SUBSET D : Cardinality(s) <= 0 => s = {}
      BY <1>1, FS_EmptySet
    <2>2. Upto(g, 0)
      BY <2>1
    <2>3. g \in [SUBSET D -> V]
      OBVIOUS
    <2> QED
      BY <2>2, <2>3
  <1>3. ASSUME NEW n \in Nat, n \in P PROVE n + 1 \in P
    <2>1. PICK g \in [SUBSET D -> V] : Upto(g, n)
      BY <1>3
    <2> DEFINE h == [s \in SUBSET D |-> IF s = {} THEN base ELSE G[<<s, g[s \ {c[s]}]>>]]
    <2>2. h \in [SUBSET D -> V]
      OBVIOUS
    <2>3. ASSUME NEW s \in SUBSET D, Cardinality(s) <= n + 1
          PROVE  h[s] = IF s = {} THEN base ELSE G[<<s, h[s \ {c[s]}]>>]
      <3>1. CASE s = {}
        BY <3>1
      <3>2. CASE s # {}
        <4> DEFINE t == s \ {c[s]}
        <4>1. t \in SUBSET D /\ c[s] \in s
          BY <3>2
        <4>2. Cardinality(t) = Cardinality(s) - 1
          BY <1>1, <4>1, FS_RemoveElement
        <4>3. Cardinality(t) <= n
          BY <1>1, <2>3, <4>1, <4>2
        <4>4. h[t] = g[t]
          BY <2>1, <4>1, <4>3
        <4>5. h[s] = G[<<s, g[t]>>]
          BY <3>2
        <4> QED
          BY <3>2, <4>4, <4>5
      <3> QED
        BY <3>1, <3>2
    <2> HIDE DEF h
    <2>4. Upto(h, n + 1)
      BY <2>3
    <2> HIDE DEF Upto
    <2>5. n + 1 \in Nat
      OBVIOUS
    <2>6. \E f \in [SUBSET D -> V] : Upto(f, n + 1)
      BY <2>2, <2>4, Zenon
    <2> QED
      BY <2>5, <2>6
  <1>4. Cardinality(D) \in P
    <2> HIDE DEF P
    <2>1. Nat \subseteq P
      BY <1>2, <1>3, NaturalsByInduction
    <2> QED
      BY <1>1, <2>1
  <1>5. PICK g \in [SUBSET D -> V] : Upto(g, Cardinality(D))
    BY <1>4
  <1>6. \A s \in SUBSET D : Cardinality(s) <= Cardinality(D)
    BY FS_Subset
  <1> QED
    BY <1>5, <1>6 DEF FoldsTo

(* A property that the chosen element never spoils holds of all subsets.   *)
LEMMA FoldTyped ==
    ASSUME NEW D, IsFiniteSet(D), NEW V, NEW c, NEW h, h[{}] \in V,
           \A s \in SUBSET D : s # {} => c[s] \in s /\ (h[s \ {c[s]}] \in V => h[s] \in V)
    PROVE  \A s \in SUBSET D : h[s] \in V
  <1> DEFINE B == {s \in SUBSET D : h[s] \notin V}
  <1>1. ASSUME NEW s \in B PROVE \E t \in B : t \subseteq s /\ t # s
    <2>1. s # {} /\ c[s] \in s
      OBVIOUS
    <2>2. h[s \ {c[s]}] \notin V
      BY <2>1
    <2>3. s \ {c[s]} \in B /\ s \ {c[s]} # s
      BY <2>1, <2>2
    <2> QED
      BY <2>3
  <1>2. B = {}
    <2>1. B \subseteq SUBSET D
      OBVIOUS
    <2> HIDE DEF B
    <2> QED
      BY <1>1, <2>1, NoMinimalSubset
  <1> QED
    BY <1>2

(* g sums f over the subsets of D. *)
SumsTo(g, f, D) ==
    /\ g \in [SUBSET D -> Nat]
    /\ SumFunctionOnSet(f, D) = g[D]
    /\ g[{}] = 0
    /\ \A s \in SUBSET D : s # {} => \E x \in s : g[s] = f[x] + g[s \ {x}]

(* The sum of a function over a finite set, as a fold over its subsets.    *)
LEMMA SumFold ==
    ASSUME NEW f, NEW D, IsFiniteSet(D), \A x \in D : f[x] \in Nat
    PROVE  \E g : SumsTo(g, f, D)
  <1> DEFINE c == [s \in SUBSET D |-> CHOOSE x \in s : TRUE]
             G == [p \in (SUBSET D) \X Nat |-> IF p[1] = {} THEN 0 ELSE f[c[p[1]]] + p[2]]
             Rule(h) == h = [s \in SUBSET D |->
                               IF s = {} THEN 0
                               ELSE f[CHOOSE x \in s : TRUE] + h[s \ {CHOOSE x \in s : TRUE}]]
  <1>1. \A s \in SUBSET D : s # {} => c[s] \in s /\ c[s] = CHOOSE x \in s : TRUE
    OBVIOUS
  <1>2. G \in [(SUBSET D) \X Nat -> Nat]
    <2>1. ASSUME NEW p \in (SUBSET D) \X Nat
          PROVE  (IF p[1] = {} THEN 0 ELSE f[c[p[1]]] + p[2]) \in Nat
      <3>1. p[1] \in SUBSET D /\ p[2] \in Nat
        OBVIOUS
      <3>2. p[1] # {} => f[c[p[1]]] \in Nat
        BY <1>1, <3>1
      <3> HIDE DEF c
      <3> QED
        BY <3>1, <3>2
    <2> HIDE DEF c
    <2> QED
      BY <2>1
  <1>3. \A s \in SUBSET D, n \in Nat : s # {} => G[<<s, n>>] = f[c[s]] + n
    <2> HIDE DEF c
    <2> QED
      OBVIOUS
  <1>4. 0 \in Nat
    OBVIOUS
  <1>5. \E h : Rule(h)
    <2> HIDE DEF G, c
    <2>1. PICK g \in [SUBSET D -> Nat] : FoldsTo(g, D, 0, G, c)
      BY <1>1, <1>2, <1>4, FoldExists
    <2>2. \A s \in SUBSET D : g[s] = IF s = {} THEN 0
                                 ELSE f[CHOOSE x \in s : TRUE] + g[s \ {CHOOSE x \in s : TRUE}]
      <3> SUFFICES ASSUME NEW s \in SUBSET D, s # {}
                   PROVE  g[s] = f[CHOOSE x \in s : TRUE] + g[s \ {CHOOSE x \in s : TRUE}]
        BY <2>1 DEF FoldsTo
      <3>1. g[s] = G[<<s, g[s \ {c[s]}]>>] /\ g[s \ {c[s]}] \in Nat
        BY <2>1 DEF FoldsTo
      <3> QED
        BY <1>1, <1>3, <3>1
    <2> QED
      BY <2>2
  <1>6. PICK g : g = CHOOSE h : Rule(h)
    OBVIOUS
  <1>7. Rule(g) /\ SumFunctionOnSet(f, D) = g[D]
    BY <1>5, <1>6 DEF SumFunctionOnSet, FoldFunctionOnSet, MapThenFoldSet
  <1>8. /\ g[{}] = 0
        /\ \A s \in SUBSET D : s # {} => g[s] = f[c[s]] + g[s \ {c[s]}]
        /\ DOMAIN g = SUBSET D /\ g = [s \in SUBSET D |-> g[s]]
    BY <1>7
  <1>9. \A s \in SUBSET D : g[s] \in Nat
    <2> HIDE DEF G, c
    <2>1. \A s \in SUBSET D : s # {} => f[c[s]] \in Nat
      BY <1>1
    <2>2. \A s \in SUBSET D : s # {} => c[s] \in s /\ (g[s \ {c[s]}] \in Nat => g[s] \in Nat)
      <3> SUFFICES ASSUME NEW s \in SUBSET D, s # {}, g[s \ {c[s]}] \in Nat PROVE g[s] \in Nat
        BY <1>1
      <3>1. g[s] = f[c[s]] + g[s \ {c[s]}] /\ f[c[s]] \in Nat
        BY <1>8, <2>1, Zenon
      <3> QED
        BY <3>1
    <2>3. g[{}] \in Nat
      BY <1>4, <1>8
    <2>4. PICK V : V = Nat
      OBVIOUS
    <2>5. \A s \in SUBSET D : g[s] \in V
      BY <2>2, <2>3, <2>4, FoldTyped, Zenon
    <2> QED
      BY <2>4, <2>5, Zenon
  <1> QED
    <2>1. g \in [SUBSET D -> Nat]
      BY <1>8, <1>9
    <2> HIDE DEF c, G, Rule
    <2>2. \A s \in SUBSET D : s # {} => \E x \in s : g[s] = f[x] + g[s \ {x}]
      BY <1>1, <1>8, Zenon
    <2> QED
      BY <1>7, <1>8, <2>1, <2>2, Zenon DEF SumsTo

(* The product over a finite set. *)
ProductOnSet(f, D) == FoldFunctionOnSet(LAMBDA m, n : m * n, 1, f, D)

(* A product of naturals is a natural. *)
LEMMA ProductType ==
    ASSUME NEW f, NEW D, IsFiniteSet(D), \A x \in D : f[x] \in Nat
    PROVE  ProductOnSet(f, D) \in Nat
  <1> DEFINE c == [s \in SUBSET D |-> CHOOSE x \in s : TRUE]
             G == [p \in (SUBSET D) \X Nat |-> IF p[1] = {} THEN 1 ELSE f[c[p[1]]] * p[2]]
             Rule(h) == h = [s \in SUBSET D |->
                               IF s = {} THEN 1
                               ELSE f[CHOOSE x \in s : TRUE] * h[s \ {CHOOSE x \in s : TRUE}]]
  <1>1. \A s \in SUBSET D : s # {} => c[s] \in s /\ c[s] = CHOOSE x \in s : TRUE
    OBVIOUS
  <1>2. G \in [(SUBSET D) \X Nat -> Nat]
    <2>1. ASSUME NEW p \in (SUBSET D) \X Nat
          PROVE  (IF p[1] = {} THEN 1 ELSE f[c[p[1]]] * p[2]) \in Nat
      <3>1. p[1] \in SUBSET D /\ p[2] \in Nat
        OBVIOUS
      <3>2. p[1] # {} => f[c[p[1]]] \in Nat
        BY <1>1, <3>1
      <3> HIDE DEF c
      <3> QED
        BY <3>1, <3>2
    <2> HIDE DEF c
    <2> QED
      BY <2>1
  <1>3. \A s \in SUBSET D, n \in Nat : s # {} => G[<<s, n>>] = f[c[s]] * n
    <2> HIDE DEF c
    <2> QED
      OBVIOUS
  <1>4. 1 \in Nat
    OBVIOUS
  <1>5. \E h : Rule(h)
    <2> HIDE DEF G, c
    <2>1. PICK g \in [SUBSET D -> Nat] : FoldsTo(g, D, 1, G, c)
      BY <1>1, <1>2, <1>4, FoldExists
    <2>2. \A s \in SUBSET D : g[s] = IF s = {} THEN 1
                                 ELSE f[CHOOSE x \in s : TRUE] * g[s \ {CHOOSE x \in s : TRUE}]
      <3> SUFFICES ASSUME NEW s \in SUBSET D, s # {}
                   PROVE  g[s] = f[CHOOSE x \in s : TRUE] * g[s \ {CHOOSE x \in s : TRUE}]
        BY <2>1 DEF FoldsTo
      <3>1. g[s] = G[<<s, g[s \ {c[s]}]>>] /\ g[s \ {c[s]}] \in Nat
        BY <2>1 DEF FoldsTo
      <3> QED
        BY <1>1, <1>3, <3>1
    <2> QED
      BY <2>2
  <1>6. PICK g : g = CHOOSE h : Rule(h)
    OBVIOUS
  <1>7. Rule(g) /\ ProductOnSet(f, D) = g[D]
    BY <1>5, <1>6 DEF ProductOnSet, FoldFunctionOnSet, MapThenFoldSet
  <1>8. /\ g[{}] = 1
        /\ \A s \in SUBSET D : s # {} => g[s] = f[c[s]] * g[s \ {c[s]}]
        /\ DOMAIN g = SUBSET D /\ g = [s \in SUBSET D |-> g[s]]
    BY <1>7
  <1>9. \A s \in SUBSET D : g[s] \in Nat
    <2> HIDE DEF G, c
    <2>1. \A s \in SUBSET D : s # {} => f[c[s]] \in Nat
      BY <1>1
    <2>2. \A s \in SUBSET D : s # {} => c[s] \in s /\ (g[s \ {c[s]}] \in Nat => g[s] \in Nat)
      <3> SUFFICES ASSUME NEW s \in SUBSET D, s # {}, g[s \ {c[s]}] \in Nat PROVE g[s] \in Nat
        BY <1>1
      <3>1. g[s] = f[c[s]] * g[s \ {c[s]}] /\ f[c[s]] \in Nat
        BY <1>8, <2>1, Zenon
      <3> QED
        BY <3>1
    <2>3. g[{}] \in Nat
      BY <1>4, <1>8
    <2>4. PICK V : V = Nat
      OBVIOUS
    <2>5. \A s \in SUBSET D : g[s] \in V
      BY <2>2, <2>3, <2>4, FoldTyped, Zenon
    <2> QED
      BY <2>4, <2>5, Zenon
  <1>10. D \in SUBSET D
    OBVIOUS
  <1> QED
    BY <1>7, <1>9, <1>10, Zenon

(* A sum of naturals is a natural and not below any of them. *)
LEMMA SumOnSet ==
    ASSUME NEW f, NEW D, IsFiniteSet(D), \A x \in D : f[x] \in Nat
    PROVE  /\ SumFunctionOnSet(f, D) \in Nat
           /\ \A x \in D : f[x] <= SumFunctionOnSet(f, D)
  <1>0. PICK g : SumsTo(g, f, D)
    BY SumFold
  <1>1. /\ g \in [SUBSET D -> Nat]
        /\ SumFunctionOnSet(f, D) = g[D]
        /\ \A s \in SUBSET D : s # {} => \E x \in s : g[s] = f[x] + g[s \ {x}]
    BY <1>0 DEF SumsTo
  <1> DEFINE B == {s \in SUBSET D : \E x \in s : ~(f[x] <= g[s])}
  <1>2. ASSUME NEW s \in B PROVE \E t \in B : t \subseteq s /\ t # s
    <2>1. PICK x \in s : ~(f[x] <= g[s])
      OBVIOUS
    <2>2. s \in SUBSET D /\ s # {} /\ x \in D
      BY <2>1
    <2>3. PICK y \in s : g[s] = f[y] + g[s \ {y}]
      BY <1>1, <2>2
    <2> DEFINE t == s \ {y}
    <2>4. t \in SUBSET D /\ t # s /\ t \subseteq s /\ y \in D
      BY <2>2, <2>3
    <2>5. g[t] \in Nat /\ f[x] \in Nat /\ f[y] \in Nat /\ g[s] = f[y] + g[t]
      BY <1>1, <2>2, <2>3, <2>4
    <2>6. x # y /\ ~(f[x] <= g[t])
      BY <2>1, <2>5
    <2> QED
      BY <2>2, <2>4, <2>6
  <1>3. B = {}
    <2>1. B \subseteq SUBSET D
      OBVIOUS
    <2> HIDE DEF B
    <2> QED
      BY <1>2, <2>1, NoMinimalSubset
  <1>4. D \in SUBSET D
    OBVIOUS
  <1> QED
    BY <1>1, <1>3, <1>4

(* The same for a function and its whole domain *)
LEMMA SumOfFunction ==
    ASSUME NEW f, IsFiniteSet(DOMAIN f), \A x \in DOMAIN f : f[x] \in Nat
    PROVE  /\ SumFunction(f) \in Nat
           /\ \A x \in DOMAIN f : f[x] <= SumFunction(f)
  BY SumOnSet DEF SumFunction

(* A sum of zeros is zero. *)
LEMMA SumOfZeros ==
    ASSUME NEW f, IsFiniteSet(DOMAIN f), \A x \in DOMAIN f : f[x] = 0
    PROVE  SumFunction(f) = 0
  <1> DEFINE D == DOMAIN f
  <1>0. PICK g : SumsTo(g, f, D)
    BY SumFold
  <1>1. /\ g \in [SUBSET D -> Nat]
        /\ SumFunction(f) = g[D] /\ g[{}] = 0
        /\ \A s \in SUBSET D : s # {} => \E x \in s : g[s] = f[x] + g[s \ {x}]
    BY <1>0 DEF SumsTo, SumFunction
  <1> DEFINE B == {s \in SUBSET D : g[s] # 0}
  <1>2. ASSUME NEW s \in B PROVE \E t \in B : t \subseteq s /\ t # s
    <2>1. s \in SUBSET D /\ s # {}
      BY <1>1
    <2>2. PICK x \in s : g[s] = f[x] + g[s \ {x}]
      BY <1>1, <2>1
    <2>3. s \ {x} \in SUBSET D /\ f[x] = 0 /\ g[s \ {x}] \in Nat
      BY <1>1, <2>1, <2>2
    <2>4. s \ {x} \in B
      BY <2>2, <2>3
    <2> QED
      BY <2>2, <2>4
  <1>3. B = {}
    <2>1. B \subseteq SUBSET D
      OBVIOUS
    <2> HIDE DEF B
    <2> QED
      BY <1>2, <2>1, NoMinimalSubset
  <1>4. D \in SUBSET D
    OBVIOUS
  <1> QED
    BY <1>1, <1>3, <1>4

(* h folds G over the subsets of D, element by element as CHOOSE takes     *)
(* them.                                                                   *)
ChosenFold(h, D, base, G) ==
    h = [s \in SUBSET D |->
            IF s = {} THEN base
            ELSE G[<<CHOOSE x \in s : TRUE, h[s \ {CHOOSE x \in s : TRUE}]>>]]

LEMMA ChosenFoldExists ==
    ASSUME NEW D, IsFiniteSet(D), NEW V, NEW base \in V, NEW G \in [D \X V -> V]
    PROVE  \E h \in [SUBSET D -> V] : ChosenFold(h, D, base, G)
  <1> DEFINE c == [s \in SUBSET D |-> CHOOSE x \in s : TRUE]
             H == [p \in (SUBSET D) \X V |-> IF p[1] = {} THEN base ELSE G[<<c[p[1]], p[2]>>]]
  <1>1. \A s \in SUBSET D : s # {} => c[s] \in s /\ c[s] = CHOOSE x \in s : TRUE
    OBVIOUS
  <1> HIDE DEF c
  <1>2. H \in [(SUBSET D) \X V -> V]
    <2>1. ASSUME NEW p \in (SUBSET D) \X V
          PROVE  (IF p[1] = {} THEN base ELSE G[<<c[p[1]], p[2]>>]) \in V
      <3>1. p[1] \in SUBSET D /\ p[2] \in V
        OBVIOUS
      <3>2. p[1] # {} => <<c[p[1]], p[2]>> \in D \X V
        BY <1>1, <3>1
      <3> QED
        BY <3>2
    <2> QED
      BY <2>1
  <1>3. \A s \in SUBSET D, n \in V : s # {} => H[<<s, n>>] = G[<<c[s], n>>]
    OBVIOUS
  <1> HIDE DEF H
  <1>4. PICK g \in [SUBSET D -> V] : FoldsTo(g, D, base, H, c)
    BY <1>1, <1>2, FoldExists
  <1>5. ASSUME NEW s \in SUBSET D
        PROVE  g[s] = IF s = {} THEN base
                      ELSE G[<<CHOOSE x \in s : TRUE, g[s \ {CHOOSE x \in s : TRUE}]>>]
    <2> SUFFICES ASSUME s # {} PROVE g[s] = G[<<CHOOSE x \in s : TRUE, g[s \ {CHOOSE x \in s : TRUE}]>>]
      BY <1>4 DEF FoldsTo
    <2>1. g[s] = H[<<s, g[s \ {c[s]}]>>] /\ g[s \ {c[s]}] \in V
      BY <1>4 DEF FoldsTo
    <2> QED
      BY <1>1, <1>3, <2>1
  <1> QED
    BY <1>5 DEF ChosenFold

(* g adds up f, taking the elements in some order, or in any order. *)
AddsUp(g, f, D) ==
    /\ g \in [SUBSET D -> Nat]
    /\ \A s \in SUBSET D : s # {} => \E x \in s : g[s] = f[x] + g[s \ {x}]
AddsUpAnyhow(g, f, D) ==
    \A s \in SUBSET D : \A x \in s : g[s] = f[x] + g[s \ {x}]

(* In a sum any element can be taken first. *)
LEMMA SumAnyOrder ==
    ASSUME NEW D, IsFiniteSet(D), NEW f, \A x \in D : f[x] \in Nat, NEW g, AddsUp(g, f, D)
    PROVE  AddsUpAnyhow(g, f, D)
  <1>0. /\ g \in [SUBSET D -> Nat]
        /\ \A s \in SUBSET D : s # {} => \E x \in s : g[s] = f[x] + g[s \ {x}]
    BY DEF AddsUp
  <1> DEFINE B == {s \in SUBSET D : \E x \in s : g[s] # f[x] + g[s \ {x}]}
  <1>1. ASSUME NEW s \in B PROVE \E t \in B : t \subseteq s /\ t # s
    <2>1. PICK x \in s : g[s] # f[x] + g[s \ {x}]
      OBVIOUS
    <2>2. PICK y \in s : g[s] = f[y] + g[s \ {y}]
      BY <1>0, <2>1
    <2>3. x # y /\ s \in SUBSET D
      BY <2>1, <2>2
    <2> DEFINE t == s \ {y}
               u == s \ {x}
    <2>4. /\ t \in SUBSET D /\ u \in SUBSET D /\ t \subseteq s /\ u \subseteq s /\ t # s /\ u # s
          /\ t \ {x} = u \ {y} /\ x \in t /\ y \in u /\ t \ {x} \in SUBSET D
      BY <2>1, <2>2, <2>3
    <2>5. g[s] \in Nat /\ g[t] \in Nat /\ g[u] \in Nat /\ g[t \ {x}] \in Nat /\ f[x] \in Nat /\ f[y] \in Nat
      BY <1>0, <2>1, <2>2, <2>3, <2>4
    <2>6. g[s] # f[x] + g[u] /\ g[s] = f[y] + g[t]
      BY <2>1, <2>2
    <2>7. g[t] = f[x] + g[t \ {x}] => t \in B \/ u \in B
      <3> SUFFICES ASSUME g[t] = f[x] + g[t \ {x}] PROVE g[u] # f[y] + g[u \ {y}]
        BY <2>4
      <3>1. g[u \ {y}] = g[t \ {x}]
        BY <2>4
      <3> HIDE DEF t, u
      <3> QED
        BY <2>5, <2>6, <3>1
    <2>8. t \in B \/ u \in B
      BY <2>4, <2>7
    <2> QED
      BY <2>4, <2>8
  <1>2. B = {}
    <2>1. B \subseteq SUBSET D
      OBVIOUS
    <2> HIDE DEF B
    <2> QED
      BY <1>1, <2>1, NoMinimalSubset
  <1> QED
    BY <1>2 DEF AddsUpAnyhow

-----------------------------------------------------------------------------
(* Finite sets *)

(* A function with a finite domain has finitely many values. *)
LEMMA FiniteRange ==
    ASSUME NEW S, IsFiniteSet(S), NEW f, DOMAIN f = S, f = [x \in S |-> f[x]]
    PROVE  IsFiniteSet({f[x] : x \in S})
  <1> DEFINE T == {f[x] : x \in S}
  <1>1. f \in Surjection(S, T)
    BY DEF Surjection
  <1> QED
    BY <1>1, FS_Surjection

(* There are finitely many functions from a finite set to a finite set. *)
LEMMA FiniteFunctions ==
    ASSUME NEW S, IsFiniteSet(S), NEW T, IsFiniteSet(T)
    PROVE  IsFiniteSet([S -> T])
  <1> DEFINE graph == [f \in [S -> T] |-> {<<x, f[x]>> : x \in S}]
             G == SUBSET (S \X T)
  <1>1. IsFiniteSet(S \X T)
    BY FS_Product
  <1>2. IsFiniteSet(G)
    BY <1>1, FS_SUBSET
  <1>3. graph \in [[S -> T] -> G]
    OBVIOUS
  <1>4. ASSUME NEW f \in [S -> T], NEW g \in [S -> T], graph[f] = graph[g]
        PROVE  f = g
    <2>1. ASSUME NEW x \in S PROVE f[x] = g[x]
      <3>1. <<x, f[x]>> \in graph[f]
        OBVIOUS
      <3>2. <<x, f[x]>> \in graph[g]
        BY <1>4, <3>1
      <3>3. PICK y \in S : <<x, f[x]>> = <<y, g[y]>>
        BY <3>2
      <3> QED
        BY <3>3
    <2> QED
      BY <2>1
  <1>5. graph \in Injection([S -> T], G)
    <2> HIDE DEF graph, G
    <2>1. DOMAIN graph = [S -> T]
      BY <1>3
    <2> QED
      BY <1>3, <1>4, <2>1, Zenon DEF Injection, IsInjective
  <1> HIDE DEF graph, G
  <1> QED
    BY <1>2, <1>5, FS_Injection

(* The number of elements below s, in the order lt *)
Below(S, lt, s) == {q \in S : <<q, s>> \in lt}

(* In a strict total order of a finite set, the number of elements below   *)
(* an element is less than the number of all, and tells the elements       *)
(* apart.                                                                  *)
LEMMA Ranks ==
    ASSUME NEW S, IsFiniteSet(S), NEW lt,
           \A p \in S : <<p, p>> \notin lt,
           \A p, q, r \in S : <<p, q>> \in lt /\ <<q, r>> \in lt => <<p, r>> \in lt,
           \A p, q \in S : p # q => <<p, q>> \in lt \/ <<q, p>> \in lt
    PROVE  \A p \in S :
              /\ Cardinality(Below(S, lt, p)) \in Nat
              /\ Cardinality(Below(S, lt, p)) < Cardinality(S)
              /\ \A q \in S : Cardinality(Below(S, lt, p)) = Cardinality(Below(S, lt, q)) => p = q
  <1>0. Cardinality(S) \in Nat
    BY FS_CardinalityType
  <1>1. ASSUME NEW T \in SUBSET S, NEW U \in SUBSET T, U # T
        PROVE  Cardinality(U) \in Nat /\ Cardinality(T) \in Nat /\ Cardinality(U) < Cardinality(T)
    <2>1. IsFiniteSet(T) /\ IsFiniteSet(U) /\ Cardinality(U) <= Cardinality(T)
          /\ Cardinality(U) # Cardinality(T)
      BY <1>1, FS_Subset
    <2>2. Cardinality(U) \in Nat /\ Cardinality(T) \in Nat
      BY <2>1, FS_CardinalityType
    <2> QED
      BY <2>1, <2>2
  <1>2. ASSUME NEW p \in S, NEW q \in S, <<p, q>> \in lt
        PROVE  Cardinality(Below(S, lt, p)) # Cardinality(Below(S, lt, q))
    <2>1. /\ Below(S, lt, q) \in SUBSET S /\ Below(S, lt, p) \in SUBSET Below(S, lt, q)
          /\ p \in Below(S, lt, q) /\ p \notin Below(S, lt, p)
      BY <1>2 DEF Below
    <2> QED
      BY <1>1, <2>1
  <1>3. ASSUME NEW p \in S
        PROVE  Cardinality(Below(S, lt, p)) \in Nat /\ Cardinality(Below(S, lt, p)) < Cardinality(S)
    <2>1. Below(S, lt, p) \in SUBSET S /\ p \notin Below(S, lt, p)
      BY DEF Below
    <2> QED
      BY <1>1, <2>1
  <1> QED
    BY <1>2, <1>3

-----------------------------------------------------------------------------
(* Folds over sequences *)

(* A nonempty set of positions has a greatest element. *)
LEMMA MaxPosition ==
    ASSUME NEW n \in Nat, NEW s \in SUBSET (1..n), s # {}
    PROVE  Max(s) \in s /\ \A y \in s : y <= Max(s)
  <1> DEFINE T == {n - x : x \in s}
  <1>1. T \subseteq Nat /\ T # {}
    <2>1. \A x \in s : x \in 1..n
      OBVIOUS
    <2>2. \A x \in 1..n : n - x \in Nat
      OBVIOUS
    <2> QED
      BY <2>1, <2>2
  <1>2. PICK t \in T : \A u \in T : ~(u < t)
    BY <1>1, LeastNatural
  <1>3. PICK x \in s : t = n - x
    BY <1>2
  <1>4. \A y \in s : x >= y
    <2> SUFFICES ASSUME NEW y \in s PROVE x >= y
      OBVIOUS
    <2>1. n - y \in T /\ ~(n - y < n - x)
      BY <1>2, <1>3
    <2>2. x \in Nat /\ y \in Nat
      OBVIOUS
    <2> QED
      BY <2>1, <2>2
  <1>5. \E z \in s : \A y \in s : z >= y
    BY <1>4
  <1>6. Max(s) \in s /\ \A y \in s : Max(s) >= y
    BY <1>5 DEF Max
  <1>7. \A y \in s : y \in Nat
    OBVIOUS
  <1> QED
    BY <1>6, <1>7

(* g is the fold, over sets of positions, the greatest position last; f    *)
(* lists its values after each position.                                   *)
IsLeftFold(g, n, base, G) ==
    \A s \in SUBSET (1..n) :
        g[s] = IF s = {} THEN base ELSE G[<<Max(s), g[s \ {Max(s)}]>>]

IsChain(f, n, base, G) ==
    f[0] = base /\ \A k \in 1..n : f[k] = G[<<k, f[k - 1]>>]

(* h follows the fold wherever its value on the smaller set is in V. *)
FollowsLeftFold(h, n, V, base, G) ==
    /\ h[{}] = base
    /\ \A s \in SUBSET (1..n) :
          s # {} /\ h[s \ {Max(s)}] \in V => h[s] = G[<<Max(s), h[s \ {Max(s)}]>>]

(* A fold from left to right over n positions has a value, *)
LEMMA LeftFoldExists ==
    ASSUME NEW n \in Nat, NEW V, NEW base \in V, NEW G \in [(1..n) \X V -> V]
    PROVE  \E g \in [SUBSET (1..n) -> V] : IsLeftFold(g, n, base, G)
  <1> DEFINE D == 1..n
             c == [s \in SUBSET D |-> Max(s)]
             H == [p \in (SUBSET D) \X V |-> IF p[1] = {} THEN base ELSE G[<<Max(p[1]), p[2]>>]]
  <1>1. \A s \in SUBSET D : s # {} => c[s] \in s /\ c[s] = Max(s)
    BY MaxPosition
  <1>2. H \in [(SUBSET D) \X V -> V]
    <2>1. ASSUME NEW p \in (SUBSET D) \X V, p[1] # {}
          PROVE  G[<<Max(p[1]), p[2]>>] \in V
      <3>1. p[1] \in SUBSET D /\ p[2] \in V
        OBVIOUS
      <3>2. Max(p[1]) \in 1..n
        BY <1>1, <2>1, <3>1
      <3> QED
        BY <3>1, <3>2
    <2> QED
      BY <2>1
  <1>3. IsFiniteSet(D)
    BY FS_Interval
  <1>4. \A s \in SUBSET D, v \in V : s # {} => H[<<s, v>>] = G[<<Max(s), v>>]
    OBVIOUS
  <1>5. PICK g \in [SUBSET D -> V] : FoldsTo(g, D, base, H, c)
    <2> HIDE DEF D, c, H
    <2> QED
      BY <1>1, <1>2, <1>3, FoldExists
  <1>6. ASSUME NEW s \in SUBSET D
        PROVE  g[s] = IF s = {} THEN base ELSE G[<<Max(s), g[s \ {Max(s)}]>>]
    <2>1. CASE s = {}
      <3> HIDE DEF D, c, H
      <3> QED
        BY <2>1, <1>5 DEF FoldsTo
    <2>2. CASE s # {}
      <3> HIDE DEF D, c, H
      <3>1. g[s] = H[<<s, g[s \ {c[s]}]>>] /\ c[s] = Max(s)
        BY <2>2, <1>1, <1>5 DEF FoldsTo
      <3>2. s \ {Max(s)} \in SUBSET D
        OBVIOUS
      <3>3. g[s \ {Max(s)}] \in V
        BY <3>2, <1>5
      <3> QED
        BY <2>2, <3>1, <3>3, <1>4
    <2> QED
      BY <2>1, <2>2
  <1> HIDE DEF c, H
  <1> QED
    BY <1>5, <1>6 DEF IsLeftFold

(* and that value is the last of the values after each position. *)
LEMMA LeftFoldChain ==
    ASSUME NEW n \in Nat, NEW V, NEW base \in V, NEW G \in [(1..n) \X V -> V],
           NEW h, FollowsLeftFold(h, n, V, base, G)
    PROVE  \E f \in [0..n -> V] : f[n] = h[1..n] /\ IsChain(f, n, base, G)
  <1> DEFINE f == [k \in 0..n |-> h[1..k]]
             P == {k \in Nat : k <= n => h[1..k] \in V}
  <1>1. ASSUME NEW k \in 1..n, h[1..(k - 1)] \in V
        PROVE  h[1..k] = G[<<k, h[1..(k - 1)]>>] /\ h[1..k] \in V
    <2>1. (1..k) \in SUBSET (1..n) /\ 1..k # {} /\ k \in 1..k
      OBVIOUS
    <2>2. Max(1..k) \in 1..k /\ \A y \in 1..k : y <= Max(1..k)
      BY <2>1, MaxPosition
    <2>3. Max(1..k) = k
      BY <2>1, <2>2
    <2>4. (1..k) \ {k} = 1..(k - 1)
      OBVIOUS
    <2>5. h[1..k] = G[<<k, h[1..(k - 1)]>>]
      BY <1>1, <2>1, <2>3, <2>4 DEF FollowsLeftFold
    <2> QED
      BY <1>1, <2>5
  <1>2. 0 \in P
    <2>1. 1..0 = {}
      OBVIOUS
    <2> QED
      BY <2>1 DEF FollowsLeftFold
  <1>3. \A k \in Nat : k \in P => k + 1 \in P
    <2> SUFFICES ASSUME NEW k \in Nat, k \in P, k + 1 <= n PROVE h[1..(k + 1)] \in V
      OBVIOUS
    <2>1. k + 1 \in 1..n /\ (k + 1) - 1 = k /\ k <= n
      OBVIOUS
    <2>2. h[1..k] \in V
      BY <2>1
    <2> QED
      BY <1>1, <2>1, <2>2
  <1>4. Nat \subseteq P
    <2> HIDE DEF P
    <2> QED
      BY <1>2, <1>3, NaturalsByInduction
  <1>5. \A k \in 0..n : h[1..k] \in V
    BY <1>4
  <1>6. f \in [0..n -> V] /\ f[n] = h[1..n]
    BY <1>5
  <1>7. f[0] = base
    <2>1. 1..0 = {} /\ 0 \in 0..n
      OBVIOUS
    <2> QED
      BY <2>1 DEF FollowsLeftFold
  <1>8. \A k \in 1..n : f[k] = G[<<k, f[k - 1]>>]
    <2> SUFFICES ASSUME NEW k \in 1..n PROVE f[k] = G[<<k, f[k - 1]>>]
      OBVIOUS
    <2>1. k \in 0..n /\ k - 1 \in 0..n
      OBVIOUS
    <2> QED
      BY <1>1, <1>5, <2>1
  <1> HIDE DEF f
  <1> QED
    BY <1>6, <1>7, <1>8 DEF IsChain

-----------------------------------------------------------------------------
(* Concatenation *)

(* What FlattenSeq concatenates comes from its parts: whatever set holds   *)
(* the elements of the parts holds those of the result.                    *)
LEMMA FlattenType ==
    ASSUME NEW T, NEW ss \in Seq(Seq(T))
    PROVE  FlattenSeq(ss) \in Seq(T)
  <1> DEFINE n == Len(ss)
             Step(f, i) == IF i = 1 THEN ss[i] ELSE f[i - 1] \o ss[i]
             Rule(f) == f = [i \in 1..n |-> IF i = 1 THEN ss[i] ELSE f[i - 1] \o ss[i]]
             Upto(f, m) == \A i \in 1..n : i <= m => f[i] = Step(f, i)
             P == {m \in Nat : \E f \in [1..n -> Seq(T)] : Upto(f, m)}
  <1>1. n \in Nat /\ \A i \in 1..n : ss[i] \in Seq(T)
    OBVIOUS
  <1>2. ASSUME NEW a \in Seq(T), NEW b \in Seq(T) PROVE a \o b \in Seq(T)
    OBVIOUS
  <1>3. CASE n = 0
    BY <1>3 DEF FlattenSeq
  <1>4. CASE n # 0
    <2>1. 0 \in P
      <3>1. [i \in 1..n |-> <<>>] \in [1..n -> Seq(T)]
        OBVIOUS
      <3>2. Upto([i \in 1..n |-> <<>>], 0)
        BY <1>1
      <3> HIDE DEF Upto
      <3> QED
        BY <3>1, <3>2
    <2>2. ASSUME NEW m \in Nat, m \in P PROVE m + 1 \in P
      <3>1. PICK f \in [1..n -> Seq(T)] : Upto(f, m)
        BY <2>2
      <3> DEFINE h == [i \in 1..n |-> Step(f, i)]
      <3>2. h \in [1..n -> Seq(T)]
        <4>1. ASSUME NEW i \in 1..n PROVE Step(f, i) \in Seq(T)
          <5>1. CASE i = 1
            BY <1>1, <5>1
          <5>2. CASE i # 1
            <6>1. i - 1 \in 1..n
              BY <1>1, <5>2
            <6>2. f[i - 1] \in Seq(T) /\ ss[i] \in Seq(T)
              BY <1>1, <6>1
            <6> QED
              BY <1>2, <5>2, <6>2
          <5> QED
            BY <5>1, <5>2
        <4> HIDE DEF Step
        <4> QED
          BY <4>1
      <3>3. Upto(h, m + 1)
        <4> SUFFICES ASSUME NEW i \in 1..n, i <= m + 1 PROVE h[i] = Step(h, i)
          BY DEF Upto
        <4>1. CASE i = 1
          BY <4>1
        <4>2. CASE i # 1
          <5>1. i - 1 \in 1..n /\ i - 1 <= m
            BY <1>1, <4>2
          <5>2. h[i - 1] = f[i - 1]
            BY <3>1, <5>1
          <5> QED
            BY <4>2, <5>2
        <4> QED
          BY <4>1, <4>2
      <3> HIDE DEF h, Upto
      <3>4. \E g \in [1..n -> Seq(T)] : Upto(g, m + 1)
        BY <3>2, <3>3, Zenon
      <3>5. m + 1 \in Nat
        OBVIOUS
      <3> QED
        BY <3>4, <3>5
    <2>3. n \in P
      <3> HIDE DEF P
      <3> QED
        BY <1>1, <2>1, <2>2, NaturalsByInduction
    <2>4. PICK f \in [1..n -> Seq(T)] : Upto(f, n)
      BY <2>3
    <2>5. Rule(f)
      <3>1. \A i \in 1..n : f[i] = Step(f, i)
        <4>1. \A i \in 1..n : i <= n
          BY <1>1
        <4> HIDE DEF Step
        <4> QED
          BY <2>4, <4>1
      <3>2. f = [i \in 1..n |-> f[i]]
        OBVIOUS
      <3>3. [i \in 1..n |-> f[i]] = [i \in 1..n |-> Step(f, i)]
        <4> HIDE DEF Step
        <4> QED
          BY <3>1
      <3> QED
        BY <3>2, <3>3, Zenon
    <2>6. PICK g : g = CHOOSE h : Rule(h)
      OBVIOUS
    <2>7. Rule(g) /\ FlattenSeq(ss) = g[n]
      BY <1>1, <1>4, <2>5, <2>6 DEF FlattenSeq
    <2>8. \A i \in 1..n : g[i] = Step(g, i)
      BY <2>7
    <2> DEFINE R == {i \in Nat : i + 1 \in 1..n => g[i + 1] \in Seq(T)}
    <2>9. 0 \in R
      BY <1>1, <2>8
    <2>10. ASSUME NEW i \in Nat, i \in R PROVE i + 1 \in R
      <3> SUFFICES ASSUME (i + 1) + 1 \in 1..n PROVE g[(i + 1) + 1] \in Seq(T)
        OBVIOUS
      <3>1. i + 1 \in 1..n /\ (i + 1) + 1 # 1 /\ ((i + 1) + 1) - 1 = i + 1
        BY <1>1
      <3>2. g[i + 1] \in Seq(T)
        BY <2>10, <3>1
      <3>3. g[(i + 1) + 1] = g[i + 1] \o ss[(i + 1) + 1]
        BY <2>8, <3>1
      <3> QED
        BY <1>1, <1>2, <3>2, <3>3
    <2>11. n - 1 \in R
      <3> HIDE DEF R
      <3>1. Nat \subseteq R
        BY <2>9, <2>10, NaturalsByInduction
      <3> QED
        BY <1>1, <1>4, <3>1
    <2>12. n - 1 \in Nat /\ (n - 1) + 1 = n /\ n \in 1..n
      BY <1>1, <1>4
    <2> QED
      BY <2>7, <2>11, <2>12
  <1> QED
    BY <1>3, <1>4

-----------------------------------------------------------------------------
(* Integers *)

(* Multiplying both sides of an inequality. *)
LEMMA MultiplyLeq ==
    ASSUME NEW a \in Int, NEW b \in Int, NEW c \in Nat
    PROVE  (a <= b => a * c <= b * c) /\ (a < b /\ c # 0 => a * c < b * c)
  OBVIOUS

(* Cancelling a positive factor. *)
LEMMA CancelLeq ==
    ASSUME NEW a \in Int, NEW b \in Int, NEW c \in Nat \ {0}
    PROVE  (a * c <= b * c => a <= b) /\ (a * c < b * c => a < b) /\ (a * c = b * c => a = b)
  OBVIOUS

(* Division of a multiple. *)
LEMMA ExactDivision ==
    ASSUME NEW g \in Nat \ {0}, NEW k \in Int
    PROVE  (g * k) \div g = k
  OBVIOUS

(* Quotient and remainder. *)
LEMMA Remainder ==
    ASSUME NEW a \in Nat, NEW b \in Nat \ {0}
    PROVE  a % b \in Nat /\ a % b < b /\ a \div b \in Nat /\ a = b * (a \div b) + (a % b)
  OBVIOUS

-----------------------------------------------------------------------------
(* The greatest common divisor *)

GCDPairs == Nat \X Nat
GCDStep(f, x) == IF x[2] = 0 THEN x[1] ELSE f[<<x[2], x[1] % x[2]>>]

(* f follows the recursion for second numbers up to n. *)
GCDUpto(f, n) == \A x \in GCDPairs : x[2] <= n => f[x] = GCDStep(f, x)

(* The argument of the recursive call is smaller. *)
LEMMA GCDArgument ==
    ASSUME NEW x \in GCDPairs, x[2] # 0
    PROVE  <<x[2], x[1] % x[2]>> \in GCDPairs /\ <<x[2], x[1] % x[2]>>[2] < x[2]
           /\ <<x[2], x[1] % x[2]>>[2] \in Nat /\ x[1] \in Nat /\ x[2] \in Nat
  <1>1. PICK a \in Nat, b \in Nat : x = <<a, b>>
    BY DEF GCDPairs
  <1>2. a % b \in Nat /\ a % b < b
    BY <1>1, Remainder
  <1> QED
    BY <1>1, <1>2 DEF GCDPairs

(* Up to any n there is such a function, *)
LEMMA GCDExistsUpto ==
    \A n \in Nat : \E f \in [GCDPairs -> Nat] : GCDUpto(f, n)
  <1> DEFINE P == {n \in Nat : \E f \in [GCDPairs -> Nat] : GCDUpto(f, n)}
  <1>1. 0 \in P
    <2> DEFINE f == [x \in GCDPairs |-> x[1]]
    <2>1. f \in [GCDPairs -> Nat]
      BY DEF GCDPairs
    <2>2. GCDUpto(f, 0)
      BY DEF GCDUpto, GCDStep, GCDPairs
    <2> HIDE DEF f
    <2> QED
      BY <2>1, <2>2
  <1>2. ASSUME NEW n \in Nat, n \in P PROVE n + 1 \in P
    <2>1. PICK f \in [GCDPairs -> Nat] : GCDUpto(f, n)
      BY <1>2
    <2> DEFINE g == [x \in GCDPairs |-> IF x[2] = n + 1 THEN GCDStep(f, x) ELSE f[x]]
    <2>2. ASSUME NEW x \in GCDPairs PROVE GCDStep(f, x) \in Nat
      BY GCDArgument DEF GCDStep, GCDPairs
    <2>3. g \in [GCDPairs -> Nat]
      BY <2>2
    <2>4. ASSUME NEW x \in GCDPairs, x[2] <= n + 1 PROVE g[x] = GCDStep(g, x)
      <3>0. x[2] \in Nat
        BY DEF GCDPairs
      <3>1. g[x] = GCDStep(f, x)
        BY <2>1, <2>4, <3>0 DEF GCDUpto
      <3>2. CASE x[2] = 0
        BY <3>1, <3>2 DEF GCDStep
      <3>3. CASE x[2] # 0
        <4> DEFINE y == <<x[2], x[1] % x[2]>>
        <4>1. y \in GCDPairs /\ y[2] < x[2] /\ y[2] \in Nat
          BY <3>3, GCDArgument
        <4> HIDE DEF y
        <4>2. g[y] = f[y]
          BY <2>4, <3>0, <4>1
        <4>3. g[x] = f[y] /\ GCDStep(g, x) = g[y]
          BY <3>1, <3>3 DEF GCDStep, y
        <4> QED
          BY <4>2, <4>3
      <3> QED
        BY <3>2, <3>3
    <2> HIDE DEF g
    <2>5. GCDUpto(g, n + 1)
      BY <2>4 DEF GCDUpto
    <2> QED
      BY <2>3, <2>5
  <1> HIDE DEF P
  <1>3. Nat \subseteq P
    BY <1>1, <1>2, NaturalsByInduction
  <1> QED
    BY <1>3 DEF P

(* any two of them agree, *)
LEMMA GCDUniqueUpto ==
    ASSUME NEW n \in Nat, NEW f, GCDUpto(f, n), NEW g, GCDUpto(g, n)
    PROVE  \A x \in GCDPairs : x[2] <= n => f[x] = g[x]
  <1> DEFINE T == {m \in Nat : \E x \in GCDPairs : x[2] = m /\ m <= n /\ f[x] # g[x]}
  <1> SUFFICES ASSUME T # {} PROVE FALSE
    <2> SUFFICES ASSUME NEW x \in GCDPairs, x[2] <= n, f[x] # g[x] PROVE T # {}
      OBVIOUS
    <2> QED
      BY DEF GCDPairs
  <1>1. PICK m \in T : \A k \in T : ~(k < m)
    <2>1. T \subseteq Nat
      OBVIOUS
    <2> HIDE DEF T
    <2> QED
      BY <2>1, LeastNatural
  <1>2. PICK x \in GCDPairs : x[2] = m /\ m <= n /\ f[x] # g[x]
    OBVIOUS
  <1>3. f[x] = GCDStep(f, x) /\ g[x] = GCDStep(g, x)
    BY <1>2 DEF GCDUpto
  <1>4. x[2] # 0
    BY <1>2, <1>3 DEF GCDStep
  <1> DEFINE y == <<x[2], x[1] % x[2]>>
  <1>5. y \in GCDPairs /\ y[2] < x[2] /\ y[2] \in Nat
    BY <1>4, GCDArgument
  <1>6. f[y] # g[y]
    BY <1>2, <1>3, <1>4 DEF GCDStep
  <1> HIDE DEF y
  <1>7. y[2] <= n /\ y[2] < m
    BY <1>2, <1>5
  <1>8. y[2] \in T
    BY <1>5, <1>6, <1>7
  <1> QED
    BY <1>1, <1>7, <1>8

(* and together they are the function that GCD stands for. *)
LEMMA GCDRecursion ==
    GCD \in [GCDPairs -> Nat] /\ \A x \in GCDPairs : GCD[x] = GCDStep(GCD, x)
  <1> DEFINE F == [n \in Nat |-> CHOOSE f \in [GCDPairs -> Nat] : GCDUpto(f, n)]
             h == [x \in GCDPairs |-> F[x[2]][x]]
  <1>1. \A n \in Nat : F[n] \in [GCDPairs -> Nat] /\ GCDUpto(F[n], n)
    BY GCDExistsUpto
  <1> HIDE DEF F
  <1>2. h \in [GCDPairs -> Nat]
    BY <1>1 DEF GCDPairs
  <1>3. ASSUME NEW x \in GCDPairs PROVE h[x] = GCDStep(h, x)
    <2>0. x[2] \in Nat
      BY DEF GCDPairs
    <2>1. h[x] = GCDStep(F[x[2]], x)
      BY <1>1, <2>0 DEF GCDUpto
    <2>2. CASE x[2] = 0
      BY <2>1, <2>2 DEF GCDStep
    <2>3. CASE x[2] # 0
      <3> DEFINE y == <<x[2], x[1] % x[2]>>
      <3>1. y \in GCDPairs /\ y[2] < x[2] /\ y[2] \in Nat
        BY <2>3, GCDArgument
      <3>2. h[x] = F[x[2]][y] /\ GCDStep(h, x) = h[y]
        BY <2>1, <2>3 DEF GCDStep
      <3> HIDE DEF y
      <3>3. h[y] = F[y[2]][y]
        BY <3>1
      <3>4. GCDUpto(F[x[2]], y[2])
        <4>1. GCDUpto(F[x[2]], x[2])
          BY <1>1, <2>0
        <4>2. \A z \in GCDPairs : z[2] \in Nat
          BY DEF GCDPairs
        <4> QED
          BY <2>0, <3>1, <4>1, <4>2 DEF GCDUpto
      <3>5. GCDUpto(F[y[2]], y[2])
        BY <1>1, <3>1
      <3>6. F[x[2]][y] = F[y[2]][y]
        BY <3>1, <3>4, <3>5, GCDUniqueUpto
      <3> QED
        BY <3>2, <3>3, <3>6
    <2> QED
      BY <2>2, <2>3
  <1> HIDE DEF h
  <1> DEFINE Rule(f) == f = [x \in Nat \X Nat |-> IF x[2] = 0 THEN x[1] ELSE f[<<x[2], x[1] % x[2]>>]]
  <1>4. Rule(h)
    BY <1>2, <1>3 DEF GCDStep, GCDPairs
  <1>5. GCD = CHOOSE f : Rule(f)
    BY DEF GCD
  <1>6. Rule(GCD)
    <2> HIDE DEF Rule
    <2> QED
      BY <1>4, <1>5
  <1>7. \A x \in GCDPairs : GCD[x] = GCDStep(GCD, x)
    BY <1>6 DEF GCDStep, GCDPairs
  <1>8. \A x \in GCDPairs : GCD[x] = h[x]
    <2> SUFFICES ASSUME NEW x \in GCDPairs PROVE GCD[x] = h[x]
      OBVIOUS
    <2>0. x[2] \in Nat
      BY DEF GCDPairs
    <2>1. GCDUpto(GCD, x[2]) /\ GCDUpto(h, x[2])
      BY <1>3, <1>7 DEF GCDUpto
    <2> QED
      BY <2>0, <2>1, GCDUniqueUpto
  <1>9. GCD = [x \in GCDPairs |-> GCD[x]]
    BY <1>6 DEF GCDPairs
  <1> QED
    BY <1>2, <1>7, <1>8, <1>9

(* d divides a. *)
Divides(d, a) == \E k \in Nat : a = d * k

(* The value of GCD is positive and divides both numbers. *)
LEMMA GCDDivides ==
    ASSUME NEW a \in Nat, NEW b \in Nat \ {0}
    PROVE  /\ GCD[<<a, b>>] \in Nat \ {0}
           /\ Divides(GCD[<<a, b>>], a) /\ Divides(GCD[<<a, b>>], b)
  <1> DEFINE Good(x) == GCD[x] \in Nat \ {0} /\ Divides(GCD[x], x[1]) /\ Divides(GCD[x], x[2])
             T == {m \in Nat : \E x \in GCDPairs : x[2] = m /\ m # 0 /\ ~Good(x)}
  <1>1. T = {}
    <2> SUFFICES ASSUME T # {} PROVE FALSE
      OBVIOUS
    <2>1. PICK m \in T : \A k \in T : ~(k < m)
      <3>1. T \subseteq Nat
        OBVIOUS
      <3> HIDE DEF T
      <3> QED
        BY <3>1, LeastNatural
    <2>2. PICK x \in GCDPairs : x[2] = m /\ m # 0 /\ ~Good(x)
      OBVIOUS
    <2>3. PICK p \in Nat, q \in Nat \ {0} : x = <<p, q>>
      BY <2>2 DEF GCDPairs
    <2> DEFINE r == p % q
               d == p \div q
    <2>4. r \in Nat /\ r < q /\ d \in Nat /\ p = q * d + r
      BY Remainder
    <2>5. GCD[x] = GCD[<<q, r>>] /\ <<q, r>> \in GCDPairs
      <3>1. GCD[x] = GCDStep(GCD, x)
        BY GCDRecursion
      <3>2. <<q, r>> \in GCDPairs
        BY <2>4 DEF GCDPairs
      <3> QED
        BY <2>3, <3>1, <3>2 DEF GCDStep
    <2> HIDE DEF r, d
    <2>6. CASE r = 0
      <3>1. GCD[<<q, r>>] = q
        BY <2>5, <2>6, GCDRecursion DEF GCDStep
      <3>2. p = q * d /\ q = q * 1
        BY <2>4, <2>6
      <3>3. Divides(q, p) /\ Divides(q, q)
        BY <2>4, <3>2 DEF Divides
      <3> QED
        BY <2>2, <2>3, <2>5, <3>1, <3>3
    <2>7. CASE r # 0
      <3>1. r \notin T
        BY <2>1, <2>2, <2>3, <2>4
      <3>2. Good(<<q, r>>)
        <4>1. <<q, r>>[2] = r
          OBVIOUS
        <4> HIDE DEF Good
        <4> QED
          BY <2>4, <2>5, <2>7, <3>1, <4>1
      <3> DEFINE g == GCD[<<q, r>>]
      <3>3. g \in Nat \ {0} /\ Divides(g, q) /\ Divides(g, r)
        BY <3>2
      <3> HIDE DEF g
      <3>4. PICK k \in Nat : q = g * k
        BY <3>3 DEF Divides
      <3>5. PICK l \in Nat : r = g * l
        BY <3>3 DEF Divides
      <3>6. p = g * (k * d + l) /\ k * d + l \in Nat
        BY <2>4, <3>3, <3>4, <3>5
      <3>7. Divides(g, p)
        BY <3>6 DEF Divides
      <3> QED
        BY <2>2, <2>3, <2>5, <3>3, <3>7 DEF g
    <2> QED
      BY <2>6, <2>7
  <1>2. <<a, b>> \in GCDPairs /\ <<a, b>>[2] = b /\ <<a, b>>[1] = a
    BY DEF GCDPairs
  <1>3. Good(<<a, b>>)
    <2> HIDE DEF Good
    <2> QED
      BY <1>1, <1>2
  <1> QED
    BY <1>2, <1>3

-----------------------------------------------------------------------------
(* Fractions *)

(* Reducing a fraction keeps its value. *)
LEMMA ReducedValue ==
    ASSUME NEW a \in Int, NEW b \in Nat \ {0}
    PROVE  \E c \in Int, d \in Nat \ {0}, g \in Nat \ {0} :
              Reduced[<<a, b>>] = <<c, d>> /\ a = g * c /\ b = g * d
  <1> DEFINE n == IF a < 0 THEN -a ELSE a
             g == GCD[<<n, b>>]
  <1>1. n \in Nat
    OBVIOUS
  <1> HIDE DEF n
  <1>2. g \in Nat \ {0} /\ Divides(g, n) /\ Divides(g, b)
    BY <1>1, GCDDivides
  <1>3. Reduced[<<a, b>>] = <<a \div g, b \div g>>
    BY DEF Reduced, Rat, n
  <1> HIDE DEF g
  <1>4. PICK k \in Nat : n = g * k
    BY <1>2 DEF Divides
  <1>5. PICK d \in Nat : b = g * d
    BY <1>2 DEF Divides
  <1>6. PICK c \in Int : a = g * c
    <2>1. CASE a < 0
      <3>1. a = g * (-k) /\ -k \in Int
        BY <1>2, <1>4, <2>1 DEF n
      <3> QED
        BY <3>1
    <2>2. CASE ~(a < 0)
      BY <1>4, <2>2 DEF n
    <2> QED
      BY <2>1, <2>2
  <1>7. a \div g = c /\ b \div g = d
    BY <1>2, <1>5, <1>6, ExactDivision
  <1>8. d # 0
    BY <1>2, <1>5
  <1> QED
    BY <1>2, <1>3, <1>5, <1>6, <1>7, <1>8

(* p has the value a / b. *)
Value(p, a, b) == p \in Rat /\ p[1] * b = a * p[2]

(* A reduced fraction has the value of the fraction. *)
LEMMA ReducedType ==
    ASSUME NEW a \in Int, NEW b \in Nat \ {0}
    PROVE  Value(Reduced[<<a, b>>], a, b)
  <1>1. PICK c \in Int, d \in Nat \ {0}, g \in Nat \ {0} :
           Reduced[<<a, b>>] = <<c, d>> /\ a = g * c /\ b = g * d
    BY ReducedValue
  <1>2. c * (g * d) = (g * c) * d
    OBVIOUS
  <1> QED
    BY <1>1, <1>2 DEF Value, Rat

(* A common factor does not matter. *)
LEMMA ValueScaled ==
    ASSUME NEW p, NEW a \in Int, NEW b \in Nat \ {0}, NEW g \in Nat \ {0}
    PROVE  Value(p, g * a, g * b) <=> Value(p, a, b)
  <1> SUFFICES ASSUME p \in Rat PROVE p[1] * (g * b) = (g * a) * p[2] <=> p[1] * b = a * p[2]
    BY DEF Value
  <1>1. PICK c \in Int, d \in Nat \ {0} : p = <<c, d>>
    BY DEF Rat
  <1>2. c * (g * b) = (c * b) * g /\ (g * a) * d = (a * d) * g
    OBVIOUS
  <1>3. c * b \in Int /\ a * d \in Int
    OBVIOUS
  <1>4. c * (g * b) = (g * a) * d <=> c * b = a * d
    BY <1>2, <1>3, CancelLeq
  <1> QED
    BY <1>1, <1>4

(* QMul on two fractions. *)
LEMMA ProductValue ==
    ASSUME NEW a \in Int, NEW b \in Nat \ {0}, NEW c \in Int, NEW d \in Nat \ {0}
    PROVE  Value(QMul(<<a, b>>, <<c, d>>), a * c, b * d)
  <1>1. QMul(<<a, b>>, <<c, d>>) = Reduced[<<a * c, b * d>>]
    BY DEF QMul, Times, Rat
  <1>2. a * c \in Int /\ b * d \in Nat \ {0}
    OBVIOUS
  <1> QED
    BY <1>1, <1>2, ReducedType

(* QAdd on two fractions. *)
LEMMA SumValue ==
    ASSUME NEW a \in Int, NEW b \in Nat \ {0}, NEW c \in Int, NEW d \in Nat \ {0}
    PROVE  Value(QAdd(<<a, b>>, <<c, d>>), a * d + c * b, b * d)
  <1> DEFINE g == GCD[<<b, d>>]
  <1>1. g \in Nat \ {0} /\ Divides(g, b) /\ Divides(g, d)
    BY GCDDivides
  <1>2. QAdd(<<a, b>>, <<c, d>>) = Reduced[<<a * (d \div g) + c * (b \div g), b * (d \div g)>>]
    BY DEF QAdd, Plus, Rat
  <1> HIDE DEF g
  <1>3. PICK k \in Nat : b = g * k
    BY <1>1 DEF Divides
  <1>4. PICK l \in Nat : d = g * l
    BY <1>1 DEF Divides
  <1>5. b \div g = k /\ d \div g = l /\ k # 0 /\ l # 0
    BY <1>1, <1>3, <1>4, ExactDivision
  <1>6. a * l + c * k \in Int /\ b * l \in Nat \ {0}
    BY <1>5
  <1>7. Value(QAdd(<<a, b>>, <<c, d>>), a * l + c * k, b * l)
    BY <1>2, <1>5, <1>6, ReducedType
  <1>8. g * (a * l + c * k) = a * d + c * b /\ g * (b * l) = b * d
    <2>1. g * (a * l + c * k) = a * (g * l) + c * (g * k)
      BY <1>1
    <2>2. g * (b * l) = b * (g * l)
      BY <1>1
    <2> QED
      BY <1>3, <1>4, <2>1, <2>2
  <1>9. Value(QAdd(<<a, b>>, <<c, d>>), g * (a * l + c * k), g * (b * l))
    BY <1>1, <1>6, <1>7, ValueScaled
  <1> QED
    BY <1>8, <1>9

-----------------------------------------------------------------------------
(* The operations on values.  With them a statement about rationals becomes *)
(* one about the integers of their fractions.                              *)

(* A rational is the pair of its parts. *)
LEMMA RatParts ==
    ASSUME NEW p \in Rat
    PROVE  p[1] \in Int /\ p[2] \in Nat \ {0} /\ p = <<p[1], p[2]>> /\ Value(p, p[1], p[2])
  BY DEF Rat, Value

(* Equal fractions are interchangeable. *)
LEMMA SameValue ==
    ASSUME NEW p, NEW a \in Int, NEW b \in Nat \ {0}, NEW c \in Int, NEW d \in Nat \ {0},
           Value(p, a, b), a * d = c * b
    PROVE  Value(p, c, d)
  <1>1. PICK x \in Int, y \in Nat \ {0} : p = <<x, y>>
    BY DEF Rat, Value
  <1>2. x * b = a * y
    BY <1>1 DEF Value
  <1>3. (x * d) * b = (x * b) * d /\ (a * y) * d = (a * d) * y /\ (c * b) * y = (c * y) * b
    OBVIOUS
  <1>4. (x * d) * b = (c * y) * b
    BY <1>2, <1>3
  <1>5. x * d \in Int /\ c * y \in Int
    OBVIOUS
  <1>6. x * d = c * y
    BY <1>4, <1>5, CancelLeq
  <1> QED
    BY <1>1, <1>6 DEF Value

(* QMul, QAdd, QSub and QDiv on what two rationals stand for. *)
LEMMA MulValue ==
    ASSUME NEW p, NEW q, NEW a \in Int, NEW b \in Nat \ {0}, NEW c \in Int, NEW d \in Nat \ {0},
           Value(p, a, b), Value(q, c, d)
    PROVE  Value(QMul(p, q), a * c, b * d)
  <1>1. PICK x \in Int, y \in Nat \ {0} : p = <<x, y>>
    BY DEF Rat, Value
  <1>2. PICK z \in Int, w \in Nat \ {0} : q = <<z, w>>
    BY DEF Rat, Value
  <1>3. x * b = a * y /\ z * d = c * w
    BY <1>1, <1>2 DEF Value
  <1>4. Value(QMul(p, q), x * z, y * w)
    BY <1>1, <1>2, ProductValue
  <1>5. (x * z) * (b * d) = (x * b) * (z * d) /\ (a * c) * (y * w) = (a * y) * (c * w)
    OBVIOUS
  <1>6. (x * z) * (b * d) = (a * c) * (y * w)
    BY <1>3, <1>5
  <1>7. x * z \in Int /\ y * w \in Nat \ {0} /\ a * c \in Int /\ b * d \in Nat \ {0}
    OBVIOUS
  <1> QED
    BY <1>4, <1>6, <1>7, SameValue

(* See MulValue. *)
LEMMA AddValue ==
    ASSUME NEW p, NEW q, NEW a \in Int, NEW b \in Nat \ {0}, NEW c \in Int, NEW d \in Nat \ {0},
           Value(p, a, b), Value(q, c, d)
    PROVE  Value(QAdd(p, q), a * d + c * b, b * d)
  <1>1. PICK x \in Int, y \in Nat \ {0} : p = <<x, y>>
    BY DEF Rat, Value
  <1>2. PICK z \in Int, w \in Nat \ {0} : q = <<z, w>>
    BY DEF Rat, Value
  <1>3. x * b = a * y /\ z * d = c * w
    BY <1>1, <1>2 DEF Value
  <1>4. Value(QAdd(p, q), x * w + z * y, y * w)
    BY <1>1, <1>2, SumValue
  <1>5. (x * w + z * y) * (b * d) = (x * b) * (w * d) + (z * d) * (y * b)
    OBVIOUS
  <1>6. (a * d + c * b) * (y * w) = (a * y) * (w * d) + (c * w) * (y * b)
    OBVIOUS
  <1>7. (x * w + z * y) * (b * d) = (a * d + c * b) * (y * w)
    BY <1>3, <1>5, <1>6
  <1>8. x * w + z * y \in Int /\ y * w \in Nat \ {0} /\ a * d + c * b \in Int /\ b * d \in Nat \ {0}
    OBVIOUS
  <1> QED
    BY <1>4, <1>7, <1>8, SameValue

(* See MulValue. *)
LEMMA SubValue ==
    ASSUME NEW p, NEW q, NEW a \in Int, NEW b \in Nat \ {0}, NEW c \in Int, NEW d \in Nat \ {0},
           Value(p, a, b), Value(q, c, d)
    PROVE  Value(QSub(p, q), a * d - c * b, b * d)
  <1>1. Value(<<-1, 1>>, -1, 1)
    BY DEF Value, Rat
  <1>2. Value(QMul(<<-1, 1>>, q), (-1) * c, 1 * d)
    BY <1>1, MulValue
  <1>3. (-1) * c = -c /\ 1 * d = d /\ -c \in Int
    OBVIOUS
  <1>4. Value(QAdd(p, QMul(<<-1, 1>>, q)), a * d + (-c) * b, b * d)
    BY <1>2, <1>3, AddValue
  <1>5. a * d + (-c) * b = a * d - c * b
    OBVIOUS
  <1> QED
    BY <1>4, <1>5 DEF QSub

(* See MulValue. *)
LEMMA DivValue ==
    ASSUME NEW p, NEW q, NEW a \in Int, NEW b \in Nat \ {0}, NEW c \in Nat \ {0}, NEW d \in Nat \ {0},
           Value(p, a, b), Value(q, c, d)
    PROVE  Value(QDiv(p, q), a * d, b * c)
  <1>1. PICK z \in Int, w \in Nat \ {0} : q = <<z, w>>
    BY DEF Rat, Value
  <1>2. z * d = c * w
    BY <1>1 DEF Value
  <1>3. z \in Nat \ {0}
    <2>1. c * w > 0
      OBVIOUS
    <2> QED
      BY <1>2, <2>1
  <1>4. Inverted[q] = <<w, z>>
    BY <1>1 DEF Inverted, Rat
  <1>5. Value(<<w, z>>, d, c)
    <2>1. w * c = d * z
      BY <1>2
    <2> QED
      BY <1>3, <2>1 DEF Value, Rat
  <1>6. d \in Int
    OBVIOUS
  <1> QED
    BY <1>4, <1>5, <1>6, MulValue DEF QDiv

(* The sign of a fraction is that of its numerator. *)
LEMMA SignValue ==
    ASSUME NEW p, NEW a \in Int, NEW b \in Nat \ {0}, Value(p, a, b)
    PROVE  (p[1] < 0 <=> a < 0) /\ (p[1] > 0 <=> a > 0)
  <1>1. PICK x \in Int, y \in Nat \ {0} : p = <<x, y>>
    BY DEF Rat, Value
  <1>2. x * b = a * y
    BY <1>1 DEF Value
  <1>3. (x < 0 <=> x * b < 0) /\ (a < 0 <=> a * y < 0) /\ (x > 0 <=> x * b > 0) /\ (a > 0 <=> a * y > 0)
    OBVIOUS
  <1> QED
    BY <1>1, <1>2, <1>3

(* QLess is the order of the values. *)
LEMMA LessValue ==
    ASSUME NEW p, NEW q, NEW a \in Int, NEW b \in Nat \ {0}, NEW c \in Int, NEW d \in Nat \ {0},
           Value(p, a, b), Value(q, c, d)
    PROVE  QLess(p, q) <=> a * d < c * b
  <1>1. Value(QSub(p, q), a * d - c * b, b * d)
    BY SubValue
  <1>2. a * d - c * b \in Int /\ b * d \in Nat \ {0}
    OBVIOUS
  <1>3. QSub(p, q)[1] < 0 <=> a * d - c * b < 0
    BY <1>1, <1>2, SignValue
  <1>4. a * d - c * b < 0 <=> a * d < c * b
    OBVIOUS
  <1> QED
    BY <1>3, <1>4 DEF QLess

(* Q(a, b) stands for a / b. *)
LEMMA QuotientValue ==
    ASSUME NEW a \in Int, NEW b \in Nat \ {0}
    PROVE  Value(Q(a, b), a, b)
  BY ReducedType DEF Q

-----------------------------------------------------------------------------
(* Positive numbers *)

(* are closed under products and quotients. *)
LEMMA PositiveMul ==
    ASSUME NEW p \in PosRat, NEW q \in PosRat
    PROVE  QMul(p, q) \in PosRat
  <1>1. PICK a \in Nat \ {0}, b \in Nat \ {0} : p = <<a, b>> /\ Value(p, a, b)
    BY RatParts DEF PosRat
  <1>2. PICK c \in Nat \ {0}, d \in Nat \ {0} : q = <<c, d>> /\ Value(q, c, d)
    BY RatParts DEF PosRat
  <1>3. Value(QMul(p, q), a * c, b * d)
    BY <1>1, <1>2, MulValue
  <1>4. a * c \in Int /\ b * d \in Nat \ {0} /\ a * c > 0
    OBVIOUS
  <1>5. QMul(p, q)[1] > 0
    BY <1>3, <1>4, SignValue
  <1> QED
    BY <1>3, <1>5 DEF PosRat, Value

(* See PositiveMul. *)
LEMMA PositiveDiv ==
    ASSUME NEW p \in PosRat, NEW q \in PosRat
    PROVE  QDiv(p, q) \in PosRat
  <1>1. PICK a \in Nat \ {0}, b \in Nat \ {0} : p = <<a, b>> /\ Value(p, a, b)
    BY RatParts DEF PosRat
  <1>2. PICK c \in Nat \ {0}, d \in Nat \ {0} : q = <<c, d>> /\ Value(q, c, d)
    BY RatParts DEF PosRat
  <1>3. Value(QDiv(p, q), a * d, b * c)
    BY <1>1, <1>2, DivValue
  <1>4. a * d \in Int /\ b * c \in Nat \ {0} /\ a * d > 0
    OBVIOUS
  <1>5. QDiv(p, q)[1] > 0
    BY <1>3, <1>4, SignValue
  <1> QED
    BY <1>3, <1>5 DEF PosRat, Value

(* A quotient of a number that is not negative. *)
LEMMA NonNegativeDiv ==
    ASSUME NEW p \in Rat, p[1] >= 0, NEW q \in PosRat
    PROVE  QDiv(p, q) \in Rat /\ QDiv(p, q)[1] >= 0
  <1>1. PICK a \in Nat, b \in Nat \ {0} : p = <<a, b>> /\ Value(p, a, b)
    BY RatParts
  <1>2. PICK c \in Nat \ {0}, d \in Nat \ {0} : q = <<c, d>> /\ Value(q, c, d)
    BY RatParts DEF PosRat
  <1>3. Value(QDiv(p, q), a * d, b * c)
    BY <1>1, <1>2, DivValue
  <1>4. a * d \in Int /\ b * c \in Nat \ {0} /\ ~(a * d < 0)
    OBVIOUS
  <1>5. QDiv(p, q) \in Rat /\ ~(QDiv(p, q)[1] < 0)
    BY <1>3, <1>4, SignValue DEF Value
  <1> QED
    BY <1>5, RatParts
=============================================================================
