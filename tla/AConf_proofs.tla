----------------------------- MODULE AConf_proofs -----------------------------
(***************************************************************************)
(* What the sampling of AConf cannot leave, however the samples turn out   *)
(* and for every database: the number of samples of the stopping rule and  *)
(* the range of the answer.                                                *)
(*                                                                         *)
(* The argument: the clause that was drawn holds in the world drawn with   *)
(* it (SampleSatisfied), so an estimate is 1/m with m between 1 and the    *)
(* number of clauses; the sums of the three steps follow from that.        *)
(***************************************************************************)
EXTENDS AConf, ArithmeticLemmas

-----------------------------------------------------------------------------
(* Folds of rationals *)

(* The sum of a nonempty sequence of positive numbers is positive. *)
LEMMA PositiveSum ==
    ASSUME NEW n \in Nat \ {0}, NEW q \in [1..n -> PosRat]
    PROVE  QSum(q) \in PosRat
  <1> DEFINE V == {p \in Rat : p[1] >= 0}
             G == [x \in (1..n) \X V |-> QAdd(x[2], q[x[1]])]
             Rule(h) == h = [s \in SUBSET (1..n) |->
                               IF s = {} THEN QZero ELSE QAdd(h[s \ {Max(s)}], q[Max(s)])]
  <1>0. n \in Nat
    OBVIOUS
  <1>1. ASSUME NEW v \in V, NEW p \in PosRat PROVE QAdd(v, p) \in PosRat
    <2>1. PICK a \in Nat, b \in Nat \ {0} : v = <<a, b>> /\ Value(v, a, b)
      BY RatParts
    <2>2. PICK c \in Nat \ {0}, d \in Nat \ {0} : p = <<c, d>> /\ Value(p, c, d)
      BY RatParts DEF PosRat
    <2>3. Value(QAdd(v, p), a * d + c * b, b * d)
      BY <2>1, <2>2, AddValue
    <2>4. a * d + c * b \in Int /\ b * d \in Nat \ {0} /\ a * d + c * b > 0
      OBVIOUS
    <2>5. QAdd(v, p)[1] > 0
      BY <2>3, <2>4, SignValue
    <2> QED
      BY <2>3, <2>5 DEF PosRat, Value
  <1>2. \A p \in PosRat : p \in V
    BY RatParts DEF PosRat
  <1>3. QZero \in V
    BY DEF QZero, Rat
  <1>4. \A k \in 1..n, v \in V : G[<<k, v>>] = QAdd(v, q[k]) /\ QAdd(v, q[k]) \in PosRat
    BY <1>1
  <1>5. G \in [(1..n) \X V -> V]
    <2>1. ASSUME NEW x \in (1..n) \X V PROVE QAdd(x[2], q[x[1]]) \in V
      <3>1. x[1] \in 1..n /\ x[2] \in V
        OBVIOUS
      <3> HIDE DEF V
      <3> QED
        BY <1>1, <1>2, <3>1
    <2> HIDE DEF V
    <2> QED
      BY <2>1
  <1> HIDE DEF V, G
  <1>6. \E h : Rule(h)
    <2>1. PICK g \in [SUBSET (1..n) -> V] : IsLeftFold(g, n, QZero, G)
      BY <1>0, <1>3, <1>5, LeftFoldExists, Zenon
    <2>2. ASSUME NEW s \in SUBSET (1..n), s # {}
          PROVE  g[s] = QAdd(g[s \ {Max(s)}], q[Max(s)])
      <3>1. Max(s) \in 1..n /\ s \ {Max(s)} \in SUBSET (1..n)
        BY <2>2, MaxPosition
      <3>2. g[s \ {Max(s)}] \in V
        BY <2>1, <3>1
      <3> QED
        BY <1>4, <2>1, <2>2, <3>1, <3>2 DEF IsLeftFold
    <2>3. Rule(g)
      BY <2>1, <2>2 DEF IsLeftFold
    <2> QED
      BY <2>3
  <1>7. PICK h : h = CHOOSE g : Rule(g)
    OBVIOUS
  <1>8. Rule(h) /\ QSum(q) = h[1..n]
    BY <1>6, <1>7 DEF QSum, FoldLeft, MapThenFoldSet
  <1>9. h[{}] = QZero
    BY <1>8
  <1>10. \A s \in SUBSET (1..n) :
            s # {} /\ h[s \ {Max(s)}] \in V => h[s] = G[<<Max(s), h[s \ {Max(s)}]>>]
    <2> SUFFICES ASSUME NEW s \in SUBSET (1..n), s # {}, h[s \ {Max(s)}] \in V
                 PROVE  h[s] = G[<<Max(s), h[s \ {Max(s)}]>>]
      OBVIOUS
    <2>1. Max(s) \in 1..n
      BY MaxPosition
    <2>2. h[s] = QAdd(h[s \ {Max(s)}], q[Max(s)])
      BY <1>8
    <2> QED
      BY <1>4, <2>1, <2>2
  <1> HIDE DEF Rule
  <1>11. PICK f \in [0..n -> V] : f[n] = h[1..n] /\ IsChain(f, n, QZero, G)
    <2>1. FollowsLeftFold(h, n, V, QZero, G)
      BY <1>9, <1>10 DEF FollowsLeftFold
    <2> QED
      BY <1>0, <1>3, <1>5, <2>1, LeftFoldChain, Zenon
  <1>12. n \in 1..n /\ n - 1 \in 0..n
    OBVIOUS
  <1>13. f[n] = G[<<n, f[n - 1]>>] /\ f[n - 1] \in V
    BY <1>11, <1>12 DEF IsChain
  <1> QED
    BY <1>4, <1>8, <1>11, <1>12, <1>13

(* The probability of a clause is positive. *)
DataProb(d) == FoldLeft(LAMBDA p, m : QMul(p, m.prob), QOne, d)

(* The product of positive probabilities is positive. *)
LEMMA PositiveProduct ==
    ASSUME NEW n \in Nat, NEW d, DOMAIN d = 1..n, \A a \in 1..n : d[a].prob \in PosRat
    PROVE  DataProb(d) \in PosRat
  <1> DEFINE V == PosRat
             G == [x \in (1..n) \X V |-> QMul(x[2], d[x[1]].prob)]
             Rule(h) == h = [s \in SUBSET (1..n) |->
                               IF s = {} THEN QOne ELSE QMul(h[s \ {Max(s)}], d[Max(s)].prob)]
  <1>1. \A v \in PosRat, p \in PosRat : QMul(v, p) \in PosRat
    BY PositiveMul
  <1>3. QOne \in V
    BY DEF QOne, Rat, PosRat
  <1>4. \A k \in 1..n, v \in V : G[<<k, v>>] = QMul(v, d[k].prob)
    OBVIOUS
  <1>5. G \in [(1..n) \X V -> V]
    <2>1. ASSUME NEW x \in (1..n) \X V PROVE QMul(x[2], d[x[1]].prob) \in V
      <3>1. x[1] \in 1..n /\ x[2] \in V /\ d[x[1]].prob \in V
        OBVIOUS
      <3> QED
        BY <1>1, <3>1
    <2> HIDE DEF V
    <2> QED
      BY <2>1
  <1> HIDE DEF V, G
  <1>6. \E h : Rule(h)
    <2>1. PICK g \in [SUBSET (1..n) -> V] : IsLeftFold(g, n, QOne, G)
      BY <1>3, <1>5, LeftFoldExists, Zenon
    <2>2. ASSUME NEW s \in SUBSET (1..n), s # {}
          PROVE  g[s] = QMul(g[s \ {Max(s)}], d[Max(s)].prob)
      <3>1. Max(s) \in 1..n /\ s \ {Max(s)} \in SUBSET (1..n)
        BY <2>2, MaxPosition
      <3>2. g[s \ {Max(s)}] \in V
        BY <2>1, <3>1
      <3> QED
        BY <1>4, <2>1, <2>2, <3>1, <3>2 DEF IsLeftFold
    <2>3. Rule(g)
      BY <2>1, <2>2 DEF IsLeftFold
    <2> QED
      BY <2>3
  <1>7. PICK h : h = CHOOSE g : Rule(g)
    OBVIOUS
  <1>8. Rule(h) /\ DataProb(d) = h[1..n]
    BY <1>6, <1>7 DEF DataProb, FoldLeft, MapThenFoldSet
  <1>9. FollowsLeftFold(h, n, V, QOne, G)
    <2> SUFFICES ASSUME NEW s \in SUBSET (1..n), s # {}, h[s \ {Max(s)}] \in V
                 PROVE  h[s] = G[<<Max(s), h[s \ {Max(s)}]>>]
      BY <1>8 DEF FollowsLeftFold
    <2>1. Max(s) \in 1..n
      BY MaxPosition
    <2>2. h[s] = QMul(h[s \ {Max(s)}], d[Max(s)].prob)
      BY <1>8
    <2> QED
      BY <1>4, <2>1, <2>2
  <1> HIDE DEF Rule
  <1>10. PICK f \in [0..n -> V] : f[n] = h[1..n] /\ IsChain(f, n, QOne, G)
    BY <1>3, <1>5, <1>9, LeftFoldChain, Zenon
  <1>11. f[n] \in V
    BY <1>10
  <1> QED
    BY <1>8, <1>10, <1>11 DEF V

-----------------------------------------------------------------------------
(* The local world table *)

Maps == [var : Nat, rng : Nat, prob : Rat]
WorldTables == Seq([var : Nat, rngs : Seq([rng : Nat, p : Rat])])

HasVar(t, v) == \E e \in DOMAIN t : t[e].var = v

(* SelectInSeq finds an entry of the variable if there is one. *)
EntryOf(t, v) == SelectInSeq(t, LAMBDA x : x.var = v)

(* EntryOf is 0 for a variable without an entry. *)
LEMMA SelectEntry ==
    ASSUME NEW t, DOMAIN t = 1..Len(t), Len(t) \in Nat, NEW v
    PROVE  IF HasVar(t, v) THEN EntryOf(t, v) \in DOMAIN t /\ t[EntryOf(t, v)].var = v
                           ELSE EntryOf(t, v) = 0
  <1> DEFINE I == {k \in 1..Len(t) : t[k].var = v}
  <1>1. DOMAIN t = 1..Len(t) /\ Len(t) \in Nat
    OBVIOUS
  <1>2. I # {} <=> HasVar(t, v)
    BY <1>1 DEF HasVar
  <1>3. I # {} => Min(I) \in I
    <2> SUFFICES ASSUME I # {} PROVE \E x \in I : \A y \in I : x =< y
      BY DEF Min
    <2>1. I \subseteq Nat
      BY <1>1
    <2>2. PICK x \in I : \A y \in I : ~(y < x)
      BY <2>1, LeastNatural
    <2> QED
      BY <2>1, <2>2
  <1>4. EntryOf(t, v) = IF I # {} THEN Min(I) ELSE 0
    BY DEF EntryOf, SelectInSeq
  <1> QED
    BY <1>1, <1>2, <1>3, <1>4

(* updateWorldTable loses no variable and adds that of the map. *)
LEMMA UpdateEffect ==
    ASSUME NEW t \in WorldTables, NEW m \in Maps
    PROVE  LET u == updateWorldTable(t, m)
           IN  u \in WorldTables /\ HasVar(u, m.var) /\ \A v : HasVar(t, v) => HasVar(u, v)
  <1> DEFINE e == SelectInSeq(t, LAMBDA x : x.var = m.var)
             re == [rng |-> m.rng, p |-> m.prob]
             Entry == [var : Nat, rngs : Seq([rng : Nat, p : Rat])]
             u == updateWorldTable(t, m)
  <1>1. re \in [rng : Nat, p : Rat] /\ m.var \in Nat
    BY DEF Maps
  <1>2. IF HasVar(t, m.var) THEN e \in DOMAIN t /\ t[e].var = m.var ELSE e = 0
    <2>1. e = EntryOf(t, m.var)
      BY DEF EntryOf, SelectInSeq
    <2>2. DOMAIN t = 1..Len(t) /\ Len(t) \in Nat
      BY DEF WorldTables
    <2> HIDE DEF e
    <2> QED
      BY <2>1, <2>2, SelectEntry
  <1>3. t \in Seq(Entry) /\ DOMAIN t = 1..Len(t) /\ Len(t) \in Nat /\ t \in [1..Len(t) -> Entry]
    <2>1. t \in Seq(Entry)
      BY DEF WorldTables
    <2> HIDE DEF Entry
    <2> QED
      BY <2>1
  <1> HIDE DEF e, re
  <1>4. CASE e = 0
    <2>1. u = Append(t, [var |-> m.var, rngs |-> <<re>>])
      BY <1>4 DEF updateWorldTable, e, re
    <2>2. [var |-> m.var, rngs |-> <<re>>] \in Entry
      BY <1>1
    <2> HIDE DEF u, Entry
    <2>3. u \in Seq(Entry)
      BY <1>3, <2>1, <2>2
    <2>4. /\ Len(t) + 1 \in DOMAIN u /\ u[Len(t) + 1] = [var |-> m.var, rngs |-> <<re>>]
          /\ \A k \in DOMAIN t : k \in DOMAIN u /\ u[k] = t[k]
      BY <1>3, <2>1, <2>2
    <2> QED
      BY <2>3, <2>4 DEF HasVar, WorldTables, Entry, u
  <1>5. CASE e # 0 /\ u = t
    BY <1>2, <1>5 DEF HasVar
  <1>6. CASE e # 0 /\ u # t
    <2>1. u = [t EXCEPT ![e].rngs = Append(t[e].rngs, re)]
      BY <1>6 DEF updateWorldTable, e, re
    <2>2. e \in DOMAIN t /\ t[e].var = m.var /\ t[e] \in Entry
      <3> HIDE DEF Entry, u
      <3> QED
        BY <1>2, <1>3, <1>6
    <2>3. Append(t[e].rngs, re) \in Seq([rng : Nat, p : Rat])
      BY <1>1, <2>2
    <2>4. PICK r \in Seq([rng : Nat, p : Rat]) : r = Append(t[e].rngs, re)
      BY <2>3
    <2>5. [t[e] EXCEPT !.rngs = r] \in Entry /\ [t[e] EXCEPT !.rngs = r].var = t[e].var
      BY <2>2
    <2>6. u = [t EXCEPT ![e] = [t[e] EXCEPT !.rngs = r]]
      BY <2>1, <2>4
    <2> HIDE DEF u, Entry
    <2>7. u \in [1..Len(t) -> Entry] /\ \A k \in DOMAIN t : u[k].var = t[k].var
      BY <1>3, <2>2, <2>5, <2>6
    <2>8. u \in Seq(Entry) /\ DOMAIN u = DOMAIN t
      <3>1. PICK n \in Nat : n = Len(t)
        BY <1>3
      <3>2. u \in [1..n -> Entry]
        BY <2>7, <3>1
      <3>3. u \in Seq(Entry)
        BY <3>2
      <3> QED
        BY <1>3, <2>7, <3>3
    <2> QED
      BY <2>2, <2>7, <2>8 DEF HasVar, WorldTables, u, Entry
  <1> QED
    BY <1>4, <1>5, <1>6

(* The maps of a clause, one after the other. *)
AddMaps(t, d) == FoldLeft(updateWorldTable, t, d)

(* After them every variable of the clause has an entry. *)
LEMMA AddMapsEffect ==
    ASSUME NEW n \in Nat, NEW d \in [1..n -> Maps], NEW t \in WorldTables
    PROVE  LET u == AddMaps(t, d)
           IN  /\ u \in WorldTables
               /\ \A k \in 1..n : HasVar(u, d[k].var)
               /\ \A v : HasVar(t, v) => HasVar(u, v)
  <1> DEFINE V == WorldTables
             G == [x \in (1..n) \X V |-> updateWorldTable(x[2], d[x[1]])]
             Rule(h) == h = [s \in SUBSET (1..n) |->
                               IF s = {} THEN t ELSE updateWorldTable(h[s \ {Max(s)}], d[Max(s)])]
             Has(u, k) == HasVar(u, d[k].var)
             Grows(u, w) == \A v : HasVar(u, v) => HasVar(w, v)
  <1>1. ASSUME NEW w \in V, NEW k \in 1..n
        PROVE  LET u == updateWorldTable(w, d[k]) IN u \in V /\ Has(u, k) /\ Grows(w, u)
    BY UpdateEffect
  <1>3. t \in V
    OBVIOUS
  <1>4. \A k \in 1..n, w \in V : G[<<k, w>>] = updateWorldTable(w, d[k])
    OBVIOUS
  <1>5. G \in [(1..n) \X V -> V]
    <2>1. ASSUME NEW x \in (1..n) \X V PROVE updateWorldTable(x[2], d[x[1]]) \in V
      <3>1. x[1] \in 1..n /\ x[2] \in V
        OBVIOUS
      <3> HIDE DEF V
      <3> QED
        BY <1>1, <3>1
    <2> HIDE DEF V
    <2> QED
      BY <2>1
  <1> HIDE DEF V, G, Has, Grows
  <1>6. \E h : Rule(h)
    <2>1. PICK g \in [SUBSET (1..n) -> V] : IsLeftFold(g, n, t, G)
      BY <1>3, <1>5, LeftFoldExists, Zenon
    <2>2. ASSUME NEW s \in SUBSET (1..n), s # {}
          PROVE  g[s] = updateWorldTable(g[s \ {Max(s)}], d[Max(s)])
      <3>1. Max(s) \in 1..n /\ s \ {Max(s)} \in SUBSET (1..n)
        BY <2>2, MaxPosition
      <3>2. g[s \ {Max(s)}] \in V
        BY <2>1, <3>1
      <3> QED
        BY <1>4, <2>1, <2>2, <3>1, <3>2 DEF IsLeftFold
    <2>3. Rule(g)
      BY <2>1, <2>2 DEF IsLeftFold
    <2> QED
      BY <2>3
  <1>7. PICK h : h = CHOOSE g : Rule(g)
    OBVIOUS
  <1>8. Rule(h) /\ AddMaps(t, d) = h[1..n]
    BY <1>6, <1>7 DEF AddMaps, FoldLeft, MapThenFoldSet
  <1>9. FollowsLeftFold(h, n, V, t, G)
    <2> SUFFICES ASSUME NEW s \in SUBSET (1..n), s # {}, h[s \ {Max(s)}] \in V
                 PROVE  h[s] = G[<<Max(s), h[s \ {Max(s)}]>>]
      BY <1>8 DEF FollowsLeftFold
    <2>1. Max(s) \in 1..n
      BY MaxPosition
    <2>2. h[s] = updateWorldTable(h[s \ {Max(s)}], d[Max(s)])
      BY <1>8
    <2> QED
      BY <1>4, <2>1, <2>2
  <1> HIDE DEF Rule
  <1>10. PICK f \in [0..n -> V] : f[n] = h[1..n] /\ IsChain(f, n, t, G)
    BY <1>3, <1>5, <1>9, LeftFoldChain, Zenon
  <1> DEFINE P == {j \in Nat : j <= n => (\A k \in 1..j : Has(f[j], k)) /\ Grows(t, f[j])}
  <1>11. 0 \in P
    <2>1. f[0] = t /\ 1..0 = {}
      BY <1>10 DEF IsChain
    <2>2. Grows(t, f[0])
      BY <2>1 DEF Grows
    <2> QED
      BY <2>1, <2>2
  <1>12. \A j \in Nat : j \in P => j + 1 \in P
    <2> SUFFICES ASSUME NEW j \in Nat, j \in P, j + 1 <= n
                 PROVE  (\A k \in 1..(j + 1) : Has(f[j + 1], k)) /\ Grows(t, f[j + 1])
      OBVIOUS
    <2>1. j \in 0..n /\ j + 1 \in 1..n /\ (j + 1) - 1 = j /\ j <= n
      OBVIOUS
    <2>2. f[j] \in V /\ f[j + 1] = G[<<j + 1, f[j]>>]
      BY <1>10, <2>1 DEF IsChain
    <2>3. f[j + 1] = updateWorldTable(f[j], d[j + 1])
      BY <1>4, <2>1, <2>2
    <2>4. Has(f[j + 1], j + 1) /\ Grows(f[j], f[j + 1])
      BY <1>1, <2>1, <2>2, <2>3
    <2>5. (\A k \in 1..j : Has(f[j], k)) /\ Grows(t, f[j])
      BY <2>1
    <2>6. \A k \in 1..j : Has(f[j + 1], k)
      BY <2>4, <2>5 DEF Has, Grows
    <2>7. Grows(t, f[j + 1])
      BY <2>4, <2>5 DEF Grows
    <2>8. \A k \in 1..(j + 1) : k \in 1..j \/ k = j + 1
      OBVIOUS
    <2> QED
      BY <2>4, <2>6, <2>7, <2>8
  <1>13. n \in P
    <2> HIDE DEF P
    <2> QED
      BY <1>11, <1>12, NaturalsByInduction
  <1>14. f[n] \in V /\ (\A k \in 1..n : Has(f[n], k)) /\ Grows(t, f[n])
    BY <1>10, <1>13
  <1> HIDE DEF P
  <1> QED
    BY <1>8, <1>10, <1>14 DEF Has, Grows, V

(* All the clauses of the group. *)
AddClauses(cs) == FoldLeft(LAMBDA t, c : AddMaps(t, c.data), <<>>, cs)

(* After them every variable of every clause has an entry. *)
LEMMA AddClausesEffect ==
    ASSUME NEW n \in Nat, NEW cs, DOMAIN cs = 1..n,
           NEW len \in Nat, \A k \in 1..n : cs[k].data \in [1..len -> Maps]
    PROVE  LET u == AddClauses(cs)
           IN  /\ u \in WorldTables
               /\ \A k \in 1..n : \A a \in 1..len : HasVar(u, cs[k].data[a].var)
               /\ \A v : HasVar(<<>>, v) => HasVar(u, v)
  <1> DEFINE V == WorldTables
             G == [x \in (1..n) \X V |-> AddMaps(x[2], cs[x[1]].data)]
             Rule(h) == h = [s \in SUBSET (1..n) |->
                               IF s = {} THEN <<>> ELSE AddMaps(h[s \ {Max(s)}], cs[Max(s)].data)]
             Has(u, k) == \A a \in 1..len : HasVar(u, cs[k].data[a].var)
             Grows(u, w) == \A v : HasVar(u, v) => HasVar(w, v)
  <1>1. ASSUME NEW w \in V, NEW k \in 1..n
        PROVE  LET u == AddMaps(w, cs[k].data) IN u \in V /\ Has(u, k) /\ Grows(w, u)
    BY AddMapsEffect
  <1>3. <<>> \in V
    BY DEF WorldTables
  <1>4. \A k \in 1..n, w \in V : G[<<k, w>>] = AddMaps(w, cs[k].data)
    OBVIOUS
  <1>5. G \in [(1..n) \X V -> V]
    <2>1. ASSUME NEW x \in (1..n) \X V PROVE AddMaps(x[2], cs[x[1]].data) \in V
      <3>1. x[1] \in 1..n /\ x[2] \in V
        OBVIOUS
      <3> HIDE DEF V
      <3> QED
        BY <1>1, <3>1
    <2> HIDE DEF V
    <2> QED
      BY <2>1
  <1> HIDE DEF V, G, Has, Grows
  <1>6. \E h : Rule(h)
    <2>1. PICK g \in [SUBSET (1..n) -> V] : IsLeftFold(g, n, <<>>, G)
      BY <1>3, <1>5, LeftFoldExists, Zenon
    <2>2. ASSUME NEW s \in SUBSET (1..n), s # {}
          PROVE  g[s] = AddMaps(g[s \ {Max(s)}], cs[Max(s)].data)
      <3>1. Max(s) \in 1..n /\ s \ {Max(s)} \in SUBSET (1..n)
        BY <2>2, MaxPosition
      <3>2. g[s \ {Max(s)}] \in V
        BY <2>1, <3>1
      <3> QED
        BY <1>4, <2>1, <2>2, <3>1, <3>2 DEF IsLeftFold
    <2>3. Rule(g)
      BY <2>1, <2>2 DEF IsLeftFold
    <2> QED
      BY <2>3
  <1>7. PICK h : h = CHOOSE g : Rule(g)
    OBVIOUS
  <1>8. Rule(h) /\ AddClauses(cs) = h[1..n]
    BY <1>6, <1>7 DEF AddClauses, FoldLeft, MapThenFoldSet
  <1>9. FollowsLeftFold(h, n, V, <<>>, G)
    <2> SUFFICES ASSUME NEW s \in SUBSET (1..n), s # {}, h[s \ {Max(s)}] \in V
                 PROVE  h[s] = G[<<Max(s), h[s \ {Max(s)}]>>]
      BY <1>8 DEF FollowsLeftFold
    <2>1. Max(s) \in 1..n
      BY MaxPosition
    <2>2. h[s] = AddMaps(h[s \ {Max(s)}], cs[Max(s)].data)
      BY <1>8
    <2> QED
      BY <1>4, <2>1, <2>2
  <1> HIDE DEF Rule
  <1>10. PICK f \in [0..n -> V] : f[n] = h[1..n] /\ IsChain(f, n, <<>>, G)
    BY <1>3, <1>5, <1>9, LeftFoldChain, Zenon
  <1> DEFINE P == {j \in Nat : j <= n => (\A k \in 1..j : Has(f[j], k)) /\ Grows(<<>>, f[j])}
  <1>11. 0 \in P
    <2>1. f[0] = <<>> /\ 1..0 = {}
      BY <1>10 DEF IsChain
    <2>2. Grows(<<>>, f[0])
      BY <2>1 DEF Grows
    <2> QED
      BY <2>1, <2>2
  <1>12. \A j \in Nat : j \in P => j + 1 \in P
    <2> SUFFICES ASSUME NEW j \in Nat, j \in P, j + 1 <= n
                 PROVE  (\A k \in 1..(j + 1) : Has(f[j + 1], k)) /\ Grows(<<>>, f[j + 1])
      OBVIOUS
    <2>1. j \in 0..n /\ j + 1 \in 1..n /\ (j + 1) - 1 = j /\ j <= n
      OBVIOUS
    <2>2. f[j] \in V /\ f[j + 1] = G[<<j + 1, f[j]>>]
      BY <1>10, <2>1 DEF IsChain
    <2>3. f[j + 1] = AddMaps(f[j], cs[j + 1].data)
      BY <1>4, <2>1, <2>2
    <2>4. Has(f[j + 1], j + 1) /\ Grows(f[j], f[j + 1])
      BY <1>1, <2>1, <2>2, <2>3
    <2>5. (\A k \in 1..j : Has(f[j], k)) /\ Grows(<<>>, f[j])
      BY <2>1
    <2>6. \A k \in 1..j : Has(f[j + 1], k)
      BY <2>4, <2>5 DEF Has, Grows
    <2>7. Grows(<<>>, f[j + 1])
      BY <2>4, <2>5 DEF Grows
    <2>8. \A k \in 1..(j + 1) : k \in 1..j \/ k = j + 1
      OBVIOUS
    <2> QED
      BY <2>4, <2>6, <2>7, <2>8
  <1>13. n \in P
    <2> HIDE DEF P
    <2> QED
      BY <1>11, <1>12, NaturalsByInduction
  <1>14. f[n] \in V /\ (\A k \in 1..n : Has(f[n], k)) /\ Grows(<<>>, f[n])
    BY <1>10, <1>13
  <1> HIDE DEF P
  <1> QED
    BY <1>8, <1>10, <1>14 DEF Has, Grows, V

-----------------------------------------------------------------------------
(* The clauses of the group *)

(* A literal of the database as a map: a positive variable with a positive *)
(* probability.                                                            *)
LEMMA LiteralFacts ==
    ASSUME NEW l \in Literals
    PROVE  /\ l[1] \in Nat \ {0} /\ l[2] \in Nat
           /\ Weight[l[1]][l[2]] \in PosRat /\ l = <<l[1], l[2]>>
  <1>1. PICK v \in DBVars : l \in {v} \X DOMAIN Weight[v]
    BY DEF Literals
  <1>2. Weight[v] \in Seq(PosRat) /\ v \in Nat \ {0}
    BY LineageAssumption
  <1>3. l[1] = v /\ l[2] \in DOMAIN Weight[v] /\ l = <<l[1], l[2]>>
    BY <1>1
  <1>4. l[2] \in 1..Len(Weight[v]) /\ Len(Weight[v]) \in Nat /\ Weight[v][l[2]] \in PosRat
    BY <1>2, <1>3
  <1> QED
    BY <1>2, <1>3, <1>4

(* A clause has WSD_LEN maps, of which two of one variable agree on the    *)
(* range, and a positive probability.                                      *)
LEMMA ClauseFacts ==
    ASSUME NEW c \in Clauses
    PROVE  /\ MakeClause(c).data \in [1..WSD_LEN -> Maps]
           /\ \A a, b \in 1..WSD_LEN :
                 MakeClause(c).data[a].var = MakeClause(c).data[b].var
                   => MakeClause(c).data[a].rng = MakeClause(c).data[b].rng
           /\ MakeClause(c).prob \in PosRat
  <1> DEFINE Repeated(a) == \E b \in 1..(a-1) : c[b][1] = c[a][1]
             data == [a \in 1..WSD_LEN |->
                         IF Repeated(a) THEN Map(RESERVED_VAR, RNG_FOR_RESERVED_VAR, QOne)
                         ELSE Map(c[a][1], c[a][2], Weight[c[a][1]][c[a][2]])]
  <1>1. c \in [1..WSD_LEN -> Literals] /\ \A a, b \in 1..WSD_LEN : c[a][1] = c[b][1] => c[a] = c[b]
    BY DEF Clauses
  <1>2. MakeClause(c) = [data |-> data, prob |-> DataProb(data)]
    BY DEF MakeClause, DataProb
  <1>3. WSD_LEN \in Nat
    BY LineageAssumption
  <1>4. ASSUME NEW a \in 1..WSD_LEN
        PROVE  /\ data[a] \in Maps /\ data[a].prob \in PosRat
               /\ IF Repeated(a) THEN data[a].var = 0 /\ data[a].rng = 1
                                 ELSE data[a].var = c[a][1] /\ data[a].rng = c[a][2]
               /\ c[a][1] # 0
    <2> HIDE DEF Repeated
    <2>1. c[a][1] \in Nat \ {0} /\ c[a][2] \in Nat /\ Weight[c[a][1]][c[a][2]] \in PosRat
      BY <1>1, LiteralFacts
    <2>2. QOne \in PosRat /\ \A p \in PosRat : p \in Rat
      BY DEF QOne, PosRat, Rat
    <2>3. CASE Repeated(a)
      <3>1. data[a] = Map(RESERVED_VAR, RNG_FOR_RESERVED_VAR, QOne)
        BY <2>3
      <3> HIDE DEF data
      <3> QED
        BY <2>1, <2>2, <2>3, <3>1 DEF Map, Maps, RESERVED_VAR, RNG_FOR_RESERVED_VAR
    <2>4. CASE ~Repeated(a)
      <3>1. data[a] = Map(c[a][1], c[a][2], Weight[c[a][1]][c[a][2]])
        BY <2>4
      <3> HIDE DEF data
      <3> QED
        BY <2>1, <2>2, <2>4, <3>1 DEF Map, Maps
    <2> QED
      BY <2>3, <2>4
  <1>5. DOMAIN data = 1..WSD_LEN /\ data = [a \in 1..WSD_LEN |-> data[a]]
    OBVIOUS
  <1> HIDE DEF data, Repeated
  <1>6. data \in [1..WSD_LEN -> Maps]
    BY <1>4, <1>5
  <1>7. \A a, b \in 1..WSD_LEN : data[a].var = data[b].var => data[a].rng = data[b].rng
    <2> SUFFICES ASSUME NEW a \in 1..WSD_LEN, NEW b \in 1..WSD_LEN, data[a].var = data[b].var
                 PROVE  data[a].rng = data[b].rng
      OBVIOUS
    <2>1. CASE Repeated(a) /\ Repeated(b)
      BY <1>4, <2>1
    <2>2. CASE ~Repeated(a) /\ ~Repeated(b)
      BY <1>1, <1>4, <2>2
    <2>3. CASE Repeated(a) /\ ~Repeated(b)
      BY <1>4, <2>3
    <2>4. CASE ~Repeated(a) /\ Repeated(b)
      BY <1>4, <2>4
    <2> QED
      BY <2>1, <2>2, <2>3, <2>4
  <1>8. DataProb(data) \in PosRat
    BY <1>3, <1>4, <1>5, PositiveProduct
  <1> QED
    BY <1>2, <1>6, <1>7, <1>8

(* What S and the world table of a group satisfy. *)
ClausesInv ==
    /\ Len(S) \in Nat \ {0} /\ DOMAIN S = 1..Len(S)
    /\ \A k \in 1..Len(S) :
          /\ S[k].data \in [1..WSD_LEN -> Maps]
          /\ \A a, b \in 1..WSD_LEN : S[k].data[a].var = S[k].data[b].var
                                         => S[k].data[a].rng = S[k].data[b].rng
          /\ S[k].prob \in PosRat

TableInv ==
    /\ DOMAIN wt = 1..Len(wt) /\ Len(wt) \in Nat
    /\ \A k \in 1..Len(S) : \A a \in 1..WSD_LEN : HasVar(wt, S[k].data[a].var)

GroupInv == ClausesInv /\ TableInv

(* The bag sum of the clauses is positive. *)
LEMMA BagSum == ClausesInv => nM \in PosRat
  <1> SUFFICES ASSUME ClausesInv PROVE nM \in PosRat
    OBVIOUS
  <1>1. [k \in DOMAIN S |-> S[k].prob] \in [1..Len(S) -> PosRat] /\ Len(S) \in Nat \ {0}
    BY DEF ClausesInv
  <1>2. QSum([k \in DOMAIN S |-> S[k].prob]) \in PosRat
    BY <1>1, PositiveSum
  <1> QED
    BY <1>2 DEF nM

(* The clause that was drawn holds in the world drawn with it. *)
LEMMA SampleSatisfied ==
    ASSUME GroupInv, NEW k \in DOMAIN S, NEW tau \in Taus(k)
    PROVE  Satisfied(k, tau)
  <1> SUFFICES ASSUME NEW a \in 1..WSD_LEN
               PROVE  tau[EntryOf(wt, S[k].data[a].var)] = S[k].data[a].rng
    BY DEF Satisfied, EntryOf
  <1> DEFINE e == EntryOf(wt, S[k].data[a].var)
  <1>1. k \in 1..Len(S) /\ WSD_LEN \in Nat
    BY LineageAssumption DEF GroupInv, ClausesInv
  <1>2. HasVar(wt, S[k].data[a].var)
    BY <1>1 DEF GroupInv, TableInv
  <1>3. e \in DOMAIN wt /\ wt[e].var = S[k].data[a].var
    BY <1>2, SelectEntry DEF GroupInv, TableInv
  <1> HIDE DEF e
  <1>4. a \in Cij(k, e) /\ Cij(k, e) \in SUBSET (1..WSD_LEN)
    BY <1>3 DEF Cij
  <1>5. Max(Cij(k, e)) \in Cij(k, e)
    BY <1>1, <1>4, MaxPosition
  <1>6. S[k].data[Max(Cij(k, e))].var = S[k].data[a].var /\ Max(Cij(k, e)) \in 1..WSD_LEN
    BY <1>3, <1>4, <1>5 DEF Cij
  <1>7. S[k].data[Max(Cij(k, e))].rng = S[k].data[a].rng
    BY <1>1, <1>6 DEF GroupInv, ClausesInv
  <1>8. tau[e] = S[k].data[Max(Cij(k, e))].rng
    BY <1>3, <1>4 DEF Taus
  <1> QED
    BY <1>7, <1>8 DEF e

(* An estimate is 1/m, m at most the number of clauses. *)
IsEstimate(x, len) == \E m \in 1..len : Value(x, 1, m)

EstimatesInRange == \A x \in Estimates : IsEstimate(x, Len(S))

(* Every estimate is one, because the clause drawn is counted. *)
LEMMA EstimateRange == GroupInv => EstimatesInRange
  <1> SUFFICES ASSUME GroupInv, NEW x \in Samples PROVE IsEstimate(compute_estimator(x), Len(S))
    BY DEF EstimatesInRange, Estimates
  <1> DEFINE T == {k \in DOMAIN S : Satisfied(k, x[2])}
  <1>1. PICK j \in DOMAIN S : x \in {j} \X Taus(j)
    BY DEF Samples
  <1>2. x[1] = j /\ x[2] \in Taus(j)
    BY <1>1
  <1>3. j \in T
    BY <1>2, SampleSatisfied
  <1>4. DOMAIN S = 1..Len(S) /\ Len(S) \in Nat
    BY DEF GroupInv, ClausesInv
  <1>5. IsFiniteSet(1..Len(S)) /\ Cardinality(1..Len(S)) = Len(S)
    <2>1. PICK n \in Nat : n = Len(S)
      BY <1>4
    <2>2. 1 \in Int /\ n \in Int
      OBVIOUS
    <2>3. IsFiniteSet(1..n) /\ Cardinality(1..n) = IF 1 > n THEN 0 ELSE n - 1 + 1
      BY <2>2, FS_Interval, Zenon
    <2>4. Cardinality(1..n) = n
      BY <2>3
    <2> QED
      BY <2>1, <2>3, <2>4
  <1>6. IsFiniteSet(T) /\ Cardinality(T) <= Len(S)
    BY <1>4, <1>5, FS_Subset
  <1>7. Cardinality(T) \in Nat /\ Cardinality(T) # 0
    BY <1>3, <1>6, FS_CardinalityType, FS_EmptySet
  <1>8. Value(Q(1, Cardinality(T)), 1, Cardinality(T))
    BY <1>7, QuotientValue
  <1>9. compute_estimator(x) = Q(1, Cardinality(T))
    BY DEF compute_estimator
  <1> HIDE DEF T
  <1>10. Cardinality(T) \in 1..Len(S)
    BY <1>4, <1>6, <1>7
  <1> QED
    BY <1>8, <1>9, <1>10 DEF IsEstimate

-----------------------------------------------------------------------------
(* The sums of estimates *)

(* q is a possible sum of c estimates for a group of len clauses. *)
SumOf(q, c, len) == ~QLess(QMul(q, Q(len, 1)), c) /\ ~QLess(c, q)

(* SumOf in terms of the fractions. *)
LEMMA SumOfValue ==
    ASSUME NEW q, NEW s \in Int, NEW t \in Nat \ {0}, Value(q, s, t),
           NEW c, NEW n \in Int, NEW d \in Nat \ {0}, Value(c, n, d), NEW len \in Nat \ {0}
    PROVE  SumOf(q, c, len) <=> n * t <= (s * len) * d /\ s * d <= n * t
  <1>1. Value(Q(len, 1), len, 1)
    BY QuotientValue
  <1>2. Value(QMul(q, Q(len, 1)), s * len, t * 1)
    BY <1>1, MulValue
  <1>3. s * len \in Int /\ t * 1 = t
    OBVIOUS
  <1>4. QLess(QMul(q, Q(len, 1)), c) <=> (s * len) * d < n * t
    BY <1>2, <1>3, LessValue
  <1>5. QLess(c, q) <=> n * t < s * d
    BY LessValue
  <1>6. n * t \in Int /\ (s * len) * d \in Int /\ s * d \in Int
    OBVIOUS
  <1> QED
    BY <1>4, <1>5, <1>6 DEF SumOf

(* One more estimate. *)
LEMMA SumOfStep ==
    ASSUME NEW q \in Rat, NEW c, NEW n \in Int, NEW d \in Nat \ {0}, Value(c, n, d),
           NEW len \in Nat \ {0}, SumOf(q, c, len), NEW x, IsEstimate(x, len),
           NEW e, Value(e, n + d, d)
    PROVE  SumOf(QAdd(q, x), e, len) /\ QAdd(q, x) \in Rat
  <1>1. PICK s \in Int, t \in Nat \ {0} : q = <<s, t>> /\ Value(q, s, t)
    BY RatParts
  <1>2. PICK m \in 1..len : Value(x, 1, m)
    BY DEF IsEstimate
  <1>3. m \in Nat \ {0} /\ m <= len
    OBVIOUS
  <1>4. n * t <= (s * len) * d /\ s * d <= n * t
    BY <1>1, SumOfValue
  <1>5. Value(QAdd(q, x), s * m + 1 * t, t * m)
    BY <1>1, <1>2, <1>3, AddValue
  <1>6. s * m + 1 * t \in Int /\ t * m \in Nat \ {0} /\ n + d \in Int
    BY <1>3
  <1>7. (n + d) * (t * m) <= ((s * m + 1 * t) * len) * d
    <2>1. (n * t) * m <= ((s * len) * d) * m
      BY <1>3, <1>4, MultiplyLeq
    <2>2. m * (t * d) <= len * (t * d)
      BY <1>3, MultiplyLeq
    <2>3. (n + d) * (t * m) = (n * t) * m + m * (t * d)
      BY <1>3
    <2>4. ((s * m + 1 * t) * len) * d = ((s * len) * d) * m + len * (t * d)
      BY <1>3
    <2>5. /\ (n * t) * m \in Int /\ ((s * len) * d) * m \in Int
          /\ m * (t * d) \in Int /\ len * (t * d) \in Int
      BY <1>3
    <2> QED
      BY <2>1, <2>2, <2>3, <2>4, <2>5
  <1>8. (s * m + 1 * t) * d <= (n + d) * (t * m)
    <2>1. (s * d) * m <= (n * t) * m
      BY <1>3, <1>4, MultiplyLeq
    <2>2. 1 * (t * d) <= m * (t * d)
      BY <1>3, MultiplyLeq
    <2>3. (n + d) * (t * m) = (n * t) * m + m * (t * d)
      BY <1>3
    <2>4. (s * m + 1 * t) * d = (s * d) * m + 1 * (t * d)
      BY <1>3
    <2>5. /\ (n * t) * m \in Int /\ (s * d) * m \in Int
          /\ m * (t * d) \in Int /\ 1 * (t * d) \in Int
      BY <1>3
    <2> QED
      BY <2>1, <2>2, <2>3, <2>4, <2>5
  <1> QED
    <2>1. SumOf(QAdd(q, x), e, len)
      BY <1>5, <1>6, <1>7, <1>8, SumOfValue
    <2> QED
      BY <1>5, <2>1 DEF Value

(* Fewer than Upsilon1 * len + 1 estimates are made while the sum is below *)
(* Upsilon1.                                                               *)
LEMMA StoppingStep ==
    ASSUME NEW q \in Rat, NEW c \in Rat, NEW len \in Nat \ {0}, SumOf(q, c, len),
           QLess(q, Upsilon1)
    PROVE  QLess(QAdd(c, QOne), QAdd(QMul(Upsilon1, Q(len, 1)), QOne))
  <1>1. PICK s \in Int, t \in Nat \ {0} : q = <<s, t>> /\ Value(q, s, t)
    BY RatParts
  <1>2. PICK n \in Int, d \in Nat \ {0} : c = <<n, d>> /\ Value(c, n, d)
    BY RatParts
  <1>3. PICK u \in Int, w \in Nat \ {0} : Upsilon1 = <<u, w>> /\ Value(Upsilon1, u, w)
    BY AConfAssumption, RatParts DEF PosRat
  <1>4. Value(QOne, 1, 1) /\ Value(Q(len, 1), len, 1)
    <2>1. Value(QOne, 1, 1)
      BY DEF Value, QOne, Rat
    <2> QED
      BY <2>1, QuotientValue
  <1>5. Value(QAdd(c, QOne), n * 1 + 1 * d, d * 1)
    BY <1>2, <1>4, AddValue
  <1>6. Value(QMul(Upsilon1, Q(len, 1)), u * len, w * 1)
    BY <1>3, <1>4, MulValue
  <1>7. u * len \in Int /\ w * 1 \in Nat \ {0} /\ n * 1 + 1 * d \in Int /\ d * 1 \in Nat \ {0}
    OBVIOUS
  <1>8. Value(QAdd(QMul(Upsilon1, Q(len, 1)), QOne), (u * len) * 1 + 1 * (w * 1), (w * 1) * 1)
    BY <1>4, <1>6, <1>7, AddValue
  <1>9. n * t <= (s * len) * d
    BY <1>1, <1>2, SumOfValue
  <1>10. s * w < u * t
    BY <1>1, <1>3, LessValue
  <1>11. n * w < (u * len) * d
    <2>1. (n * t) * w <= ((s * len) * d) * w
      BY <1>9, MultiplyLeq
    <2>2. len * d \in Nat \ {0} /\ s * w \in Int /\ u * t \in Int
      OBVIOUS
    <2>3. (s * w) * (len * d) < (u * t) * (len * d)
      BY <1>10, <2>2, MultiplyLeq
    <2>4. ((s * len) * d) * w = (s * w) * (len * d)
      OBVIOUS
    <2>5. (n * t) * w = (n * w) * t /\ (u * t) * (len * d) = ((u * len) * d) * t
      OBVIOUS
    <2>6. /\ (n * w) * t \in Int /\ (s * w) * (len * d) \in Int /\ ((u * len) * d) * t \in Int
          /\ n * w \in Int /\ (u * len) * d \in Int
      OBVIOUS
    <2>7. (n * w) * t < ((u * len) * d) * t
      BY <2>1, <2>3, <2>4, <2>5, <2>6
    <2> QED
      BY <2>6, <2>7, CancelLeq
  <1>12. (n * 1 + 1 * d) * ((w * 1) * 1) = n * w + w * d
    OBVIOUS
  <1>13. ((u * len) * 1 + 1 * (w * 1)) * (d * 1) = (u * len) * d + w * d
    OBVIOUS
  <1>14. n * w \in Int /\ (u * len) * d \in Int /\ w * d \in Int
    OBVIOUS
  <1>15. (n * 1 + 1 * d) * ((w * 1) * 1) < ((u * len) * 1 + 1 * (w * 1)) * (d * 1)
    BY <1>11, <1>12, <1>13, <1>14
  <1>16. (u * len) * 1 + 1 * (w * 1) \in Int /\ (w * 1) * 1 \in Nat \ {0}
    OBVIOUS
  <1> QED
    BY <1>5, <1>7, <1>8, <1>15, <1>16, LessValue

(* The answer from a sum of k estimates, where k is N rounded up. *)
LEMMA AnswerStep ==
    ASSUME NEW q \in Rat, NEW k \in Nat, NEW c \in PosRat, NEW len \in Nat \ {0}, NEW b \in PosRat,
           SumOf(q, Q(k, 1), len), ~QLess(Q(k, 1), c), QLess(Q(k, 1), QAdd(c, QOne))
    PROVE  /\ ~QLess(QMul(QDiv(q, c), b), QDiv(b, Q(len, 1)))
           /\ QLess(QMul(QDiv(q, c), b), QMul(b, QDiv(QAdd(c, QOne), c)))
  <1>1. PICK s \in Int, t \in Nat \ {0} : q = <<s, t>> /\ Value(q, s, t)
    BY RatParts
  <1>2. PICK n \in Nat \ {0}, d \in Nat \ {0} : c = <<n, d>> /\ Value(c, n, d)
    BY RatParts DEF PosRat
  <1>3. PICK u \in Nat \ {0}, w \in Nat \ {0} : b = <<u, w>> /\ Value(b, u, w)
    BY RatParts DEF PosRat
  <1>4. Value(QOne, 1, 1)
    BY DEF Value, QOne, Rat
  <1>5. Value(Q(len, 1), len, 1) /\ Value(Q(k, 1), k, 1)
    BY QuotientValue
  <1>6. Value(QAdd(c, QOne), n * 1 + 1 * d, d * 1)
    BY <1>2, <1>4, AddValue
  <1>7. n * 1 + 1 * d = n + d /\ d * 1 = d /\ n + d \in Int /\ n + d \in Nat \ {0}
    OBVIOUS
  <1>8. k * t <= (s * len) * 1 /\ s * 1 <= k * t
    BY <1>1, <1>5, SumOfValue
  <1>9. ~(k * d < n * 1) /\ k * d < (n + d) * 1
    BY <1>2, <1>5, <1>6, <1>7, LessValue
  <1>10. /\ k * t \in Int /\ s * len \in Int /\ k * d \in Int
         /\ k * t <= s * len /\ s <= k * t /\ n <= k * d /\ k * d < n + d
    BY <1>8, <1>9
  <1>11. Value(QDiv(q, c), s * d, t * n)
    BY <1>1, <1>2, DivValue
  <1>12. s * d \in Int /\ t * n \in Nat \ {0}
    OBVIOUS
  <1>13. Value(QMul(QDiv(q, c), b), (s * d) * u, (t * n) * w)
    BY <1>3, <1>11, <1>12, MulValue
  <1>14. Value(QDiv(b, Q(len, 1)), u * 1, w * len)
    BY <1>3, <1>5, DivValue
  <1>15. Value(QDiv(QAdd(c, QOne), c), (n + d) * d, d * n)
    BY <1>2, <1>6, <1>7, DivValue
  <1>16. (n + d) * d \in Int /\ d * n \in Nat \ {0}
    OBVIOUS
  <1>17. Value(QMul(b, QDiv(QAdd(c, QOne), c)), u * ((n + d) * d), w * (d * n))
    BY <1>3, <1>15, <1>16, MulValue
  <1>18. /\ (s * d) * u \in Int /\ (t * n) * w \in Nat \ {0} /\ u * 1 \in Int /\ w * len \in Nat \ {0}
         /\ u * ((n + d) * d) \in Int /\ w * (d * n) \in Nat \ {0}
    OBVIOUS
  <1>19. (u * 1) * ((t * n) * w) <= ((s * d) * u) * (w * len)
    <2>1. n * t <= (k * d) * t
      BY <1>10, MultiplyLeq
    <2>2. (k * t) * d <= (s * len) * d
      BY <1>10, MultiplyLeq
    <2>3. (k * d) * t = (k * t) * d
      OBVIOUS
    <2>4. n * t \in Int /\ (k * t) * d \in Int /\ (s * len) * d \in Int /\ u * w \in Nat
      OBVIOUS
    <2>5. n * t <= (s * len) * d
      BY <2>1, <2>2, <2>3, <2>4
    <2>6. (n * t) * (u * w) <= ((s * len) * d) * (u * w)
      BY <2>4, <2>5, MultiplyLeq
    <2>7. (u * 1) * ((t * n) * w) = (n * t) * (u * w)
      OBVIOUS
    <2>8. ((s * d) * u) * (w * len) = ((s * len) * d) * (u * w)
      OBVIOUS
    <2> QED
      BY <2>6, <2>7, <2>8
  <1>20. ((s * d) * u) * (w * (d * n)) < (u * ((n + d) * d)) * ((t * n) * w)
    <2>1. s * d <= (k * t) * d
      BY <1>10, MultiplyLeq
    <2>2. (k * d) * t < (n + d) * t
      BY <1>10, MultiplyLeq
    <2>3. (k * d) * t = (k * t) * d
      OBVIOUS
    <2>4. /\ s * d \in Int /\ (k * t) * d \in Int /\ (n + d) * t \in Int
          /\ ((u * w) * d) * n \in Nat \ {0}
      OBVIOUS
    <2>5. s * d < (n + d) * t
      BY <2>1, <2>2, <2>3, <2>4
    <2>6. (s * d) * (((u * w) * d) * n) < ((n + d) * t) * (((u * w) * d) * n)
      BY <2>4, <2>5, MultiplyLeq
    <2>7. ((s * d) * u) * (w * (d * n)) = (s * d) * (((u * w) * d) * n)
      OBVIOUS
    <2>8. (u * ((n + d) * d)) * ((t * n) * w) = ((n + d) * t) * (((u * w) * d) * n)
      OBVIOUS
    <2> QED
      BY <2>6, <2>7, <2>8
  <1>21. ~QLess(QMul(QDiv(q, c), b), QDiv(b, Q(len, 1)))
    <2>1. QLess(QMul(QDiv(q, c), b), QDiv(b, Q(len, 1)))
             <=> ((s * d) * u) * (w * len) < (u * 1) * ((t * n) * w)
      BY <1>13, <1>14, <1>18, LessValue
    <2>2. ((s * d) * u) * (w * len) \in Int /\ (u * 1) * ((t * n) * w) \in Int
      OBVIOUS
    <2> QED
      BY <1>19, <2>1, <2>2
  <1>22. QLess(QMul(QDiv(q, c), b), QMul(b, QDiv(QAdd(c, QOne), c)))
    BY <1>13, <1>17, <1>18, <1>20, LessValue
  <1> QED
    BY <1>21, <1>22

(* The variance term of a pair of estimates is not negative. *)
LEMMA PairTerm ==
    ASSUME NEW q \in Rat, q[1] >= 0, NEW x \in Rat, NEW y \in Rat
    PROVE  LET kl2 == QSub(x, y)
               r   == QAdd(q, QDiv(QMul(kl2, kl2), Q(2, 1)))
           IN  r \in Rat /\ r[1] >= 0
  <1> DEFINE kl2 == QSub(x, y)
             sq == QMul(kl2, kl2)
             half == QDiv(sq, Q(2, 1))
  <1>1. kl2 \in Rat
    <2>1. Value(kl2, x[1] * y[2] - y[1] * x[2], x[2] * y[2])
      BY RatParts, SubValue
    <2> QED
      BY <2>1 DEF Value
  <1> HIDE DEF kl2
  <1>2. PICK a \in Int, b \in Nat \ {0} : kl2 = <<a, b>> /\ Value(kl2, a, b)
    BY <1>1, RatParts
  <1>3. Value(sq, a * a, b * b)
    BY <1>2, MulValue
  <1>4. a * a \in Int /\ b * b \in Nat \ {0} /\ ~(a * a < 0)
    OBVIOUS
  <1>5. sq \in Rat /\ ~(sq[1] < 0)
    BY <1>3, <1>4, SignValue DEF Value
  <1>6. sq \in Rat /\ sq[1] >= 0
    BY <1>5, RatParts
  <1>7. Value(Q(2, 1), 2, 1)
    BY QuotientValue
  <1>8. Q(2, 1)[1] > 0
    BY <1>7, SignValue
  <1>9. Q(2, 1) \in PosRat
    BY <1>7, <1>8 DEF PosRat, Value
  <1> HIDE DEF sq
  <1>10. half \in Rat /\ half[1] >= 0
    BY <1>6, <1>9, NonNegativeDiv
  <1> HIDE DEF half
  <1>11. PICK c \in Nat, d \in Nat \ {0} : half = <<c, d>> /\ Value(half, c, d)
    BY <1>10, RatParts
  <1>12. PICK e \in Nat, f \in Nat \ {0} : q = <<e, f>> /\ Value(q, e, f)
    BY RatParts
  <1>13. Value(QAdd(q, half), e * d + c * f, f * d)
    BY <1>11, <1>12, AddValue
  <1>14. e * d + c * f \in Int /\ f * d \in Nat \ {0} /\ ~(e * d + c * f < 0)
    OBVIOUS
  <1>15. QAdd(q, half) \in Rat /\ ~(QAdd(q, half)[1] < 0)
    BY <1>13, <1>14, SignValue DEF Value
  <1> QED
    BY <1>15, RatParts DEF half, sq, kl2

(* Rounding up a positive number leaves a positive number. *)
LEMMA CeilPositive ==
    ASSUME NEW q \in PosRat
    PROVE  Q(Ceil(q), 1) \in PosRat
  <1>1. PICK a \in Nat \ {0}, b \in Nat \ {0} : q = <<a, b>>
    BY RatParts DEF PosRat
  <1> DEFINE r == (-a) \div b
  <1>2. r \in Int /\ b * r <= -a
    OBVIOUS
  <1> HIDE DEF r
  <1>3. r < 0
    BY <1>2
  <1>4. Ceil(q) = -r
    BY <1>1 DEF Ceil, r
  <1>5. -r \in Int /\ -r > 0
    BY <1>2, <1>3
  <1>6. Value(Q(-r, 1), -r, 1)
    BY <1>5, QuotientValue
  <1>7. Q(-r, 1)[1] > 0
    BY <1>5, <1>6, SignValue
  <1> QED
    BY <1>4, <1>6, <1>7 DEF PosRat, Value

(* A sum that has reached a positive bound is one of a positive number of  *)
(* estimates.                                                              *)
LEMMA CountPositive ==
    ASSUME NEW q \in Rat, NEW c \in Rat, NEW len \in Nat \ {0}, SumOf(q, c, len),
           ~QLess(q, Upsilon1)
    PROVE  c \in PosRat
  <1>1. PICK s \in Int, t \in Nat \ {0} : q = <<s, t>> /\ Value(q, s, t)
    BY RatParts
  <1>2. PICK n \in Int, d \in Nat \ {0} : c = <<n, d>> /\ Value(c, n, d)
    BY RatParts
  <1>3. PICK u \in Nat \ {0}, w \in Nat \ {0} : Upsilon1 = <<u, w>> /\ Value(Upsilon1, u, w)
    BY AConfAssumption, RatParts DEF PosRat
  <1>4. ~(s * w < u * t)
    BY <1>1, <1>3, LessValue
  <1>5. s * d <= n * t
    BY <1>1, <1>2, SumOfValue
  <1>6. s > 0
    BY <1>4
  <1>7. n > 0
    BY <1>5, <1>6
  <1> QED
    BY <1>2, <1>7 DEF PosRat

-----------------------------------------------------------------------------
(* The inductive invariant *)

(* Step by step: the sum is one of N estimates (step 1) or of i of them   *)
(* (step 3), what the next step divides by is positive, and step 3 makes   *)
(* at most one estimate more than N.                                       *)
AAInv ==
    /\ GroupInv
    /\ step # 0 => \A x \in estimates : IsEstimate(x, Len(S))
    /\ step = 0 => wt \in WorldTables /\ i = 0 /\ N = QZero /\ sum = QZero
    /\ step = 1 => N \in Rat /\ sum \in Rat /\ SumOf(sum, N, Len(S)) /\ StoppingRuleBounded
    /\ step = 2 => i \in Nat /\ N \in PosRat /\ sum \in Rat /\ sum[1] >= 0 /\ mu_hat \in PosRat
    /\ step = 3 => /\ i \in Nat /\ N \in PosRat /\ sum \in Rat /\ SumOf(sum, Q(i, 1), Len(S))
                   /\ QLess(Q(i, 1), QAdd(N, QOne))
    /\ step = 4 => AnswerInRange

(* Intervals from 1 are equal when their ends are. *)
LEMMA SameInterval ==
    ASSUME NEW m \in Nat, NEW n \in Nat, 1..m = 1..n
    PROVE  m = n
  <1>1. m # 0 => m \in 1..n
    OBVIOUS
  <1>2. n # 0 => n \in 1..m
    OBVIOUS
  <1> QED
    BY <1>1, <1>2

(* A group before aconf_final. *)
LEMMA InitAAInv == Init => AAInv
  <1> SUFFICES ASSUME Init PROVE AAInv
    OBVIOUS
  <1>1. PICK len \in 1..MaxWSDs : lineage \in [1..len -> Clauses]
    BY DEF Init
  <1>2. len \in Nat \ {0} /\ WSD_LEN \in Nat
    BY AConfAssumption, LineageAssumption
  <1>3. S = [k \in 1..len |-> MakeClause(lineage[k])]
    BY <1>1 DEF Init
  <1>4. DOMAIN S = 1..len /\ Len(S) = len
    <2>1. S \in Seq({MakeClause(lineage[k]) : k \in 1..len})
      BY <1>2, <1>3
    <2>2. Len(S) \in Nat /\ DOMAIN S = 1..Len(S) /\ DOMAIN S = 1..len
      BY <1>3, <2>1
    <2>3. PICK n \in Nat : n = Len(S)
      BY <2>2
    <2>4. 1..n = 1..len
      BY <2>2, <2>3
    <2>5. n = len
      BY <1>2, <2>4, SameInterval
    <2> QED
      BY <2>2, <2>3, <2>5
  <1>5. \A k \in 1..len : lineage[k] \in Clauses /\ S[k] = MakeClause(lineage[k])
    BY <1>1, <1>3
  <1>6. ClausesInv
    BY <1>2, <1>4, <1>5, ClauseFacts DEF ClausesInv
  <1>7. wt = AddClauses(S)
    BY DEF Init, AddClauses, AddMaps
  <1>8. \A k \in 1..len : S[k].data \in [1..WSD_LEN -> Maps]
    BY <1>4, <1>6 DEF ClausesInv
  <1>9. wt \in WorldTables /\ \A k \in 1..len : \A a \in 1..WSD_LEN : HasVar(wt, S[k].data[a].var)
    BY <1>2, <1>4, <1>7, <1>8, AddClausesEffect
  <1>10. TableInv
    BY <1>4, <1>9 DEF TableInv, WorldTables
  <1>11. step = 0 /\ i = 0 /\ N = QZero /\ sum = QZero
    BY DEF Init
  <1> QED
    BY <1>6, <1>9, <1>10, <1>11 DEF AAInv, GroupInv

(* The prime of EstimateRange, for aconf_final. *)
LEMMA EstimateRangePrime == GroupInv' => EstimatesInRange'
  BY EstimateRange, PTL

(* aconf_final completes the world table and finds the estimates. *)
LEMMA FinalAAInv == AAInv /\ aconf_final => AAInv'
  <1> SUFFICES ASSUME AAInv, aconf_final PROVE AAInv'
    OBVIOUS
  <1> DEFINE t == getMissingRngs(wt)
  <1>1. /\ step = 0 /\ step' = 1 /\ S' = S /\ wt' = t /\ N' = QZero /\ sum' = QZero
        /\ estimates' = Estimates' /\ wt \in WorldTables
    BY DEF aconf_final, AAInv
  <1>2. ClausesInv' /\ Len(S) \in Nat \ {0}
    BY <1>1 DEF AAInv, GroupInv, ClausesInv
  <1> DEFINE Entry == [var : Nat, rngs : Seq([rng : Nat, p : Rat])]
  <1>3. DOMAIN wt = 1..Len(wt) /\ Len(wt) \in Nat /\ wt \in [1..Len(wt) -> Entry]
    <2>1. wt \in Seq(Entry)
      BY <1>1 DEF WorldTables
    <2> HIDE DEF Entry
    <2> QED
      BY <2>1
  <1>4. DOMAIN t = 1..Len(wt) /\ \A e \in 1..Len(wt) : t[e].var = wt[e].var
    BY <1>3 DEF getMissingRngs
  <1>5. t = [e \in 1..Len(wt) |-> t[e]]
    BY <1>3 DEF getMissingRngs
  <1> HIDE DEF t
  <1>6. Len(t) = Len(wt)
    <2>1. t \in Seq({t[e] : e \in 1..Len(wt)})
      BY <1>3, <1>5
    <2>2. Len(t) \in Nat /\ DOMAIN t = 1..Len(t)
      BY <2>1
    <2> QED
      BY <1>3, <1>4, <2>2
  <1>7. TableInv'
    BY <1>1, <1>3, <1>4, <1>6 DEF AAInv, GroupInv, TableInv, HasVar
  <1>8. GroupInv' /\ EstimatesInRange'
    BY <1>2, <1>7, EstimateRangePrime DEF GroupInv
  <1>9. \A x \in estimates' : IsEstimate(x, Len(S'))
    BY <1>1, <1>8 DEF EstimatesInRange
  <1>10. Value(QZero, 0, 1) /\ QZero \in Rat
    BY DEF Value, QZero, Rat
  <1>11. SumOf(QZero, QZero, Len(S))
    BY <1>2, <1>10, SumOfValue
  <1>12. QLess(QZero, QAdd(QMul(Upsilon1, Q(Len(S), 1)), QOne))
    <2>1. PICK u \in Nat \ {0}, w \in Nat \ {0} : Upsilon1 = <<u, w>> /\ Value(Upsilon1, u, w)
      BY AConfAssumption, RatParts DEF PosRat
    <2>2. PICK len \in Nat \ {0} : len = Len(S)
      BY <1>2
    <2>3. Value(QOne, 1, 1)
      BY DEF Value, QOne, Rat
    <2>4. Value(Q(len, 1), len, 1)
      BY QuotientValue
    <2>5. Value(QMul(Upsilon1, Q(len, 1)), u * len, w * 1)
      BY <2>1, <2>4, MulValue
    <2>6. u * len \in Int /\ w * 1 \in Nat \ {0}
      OBVIOUS
    <2>7. Value(QAdd(QMul(Upsilon1, Q(len, 1)), QOne), (u * len) * 1 + 1 * (w * 1), (w * 1) * 1)
      BY <2>3, <2>5, <2>6, AddValue
    <2>8. /\ (u * len) * 1 + 1 * (w * 1) \in Int /\ (w * 1) * 1 \in Nat \ {0}
          /\ 0 * ((w * 1) * 1) < ((u * len) * 1 + 1 * (w * 1)) * 1
      OBVIOUS
    <2>9. QLess(QZero, QAdd(QMul(Upsilon1, Q(len, 1)), QOne))
      BY <1>10, <2>7, <2>8, LessValue
    <2> QED
      BY <2>2, <2>9
  <1> QED
    BY <1>1, <1>8, <1>9, <1>10, <1>11, <1>12 DEF AAInv, StoppingRuleBounded

(* GroupInv and the estimates do not change inside AA. *)
LEMMA GroupUnchanged ==
    ASSUME AAInv, UNCHANGED group, step # 0
    PROVE  /\ GroupInv' /\ Len(S') = Len(S) /\ Len(S) \in Nat \ {0}
           /\ \A x \in estimates : IsEstimate(x, Len(S))
           /\ \A x \in estimates' : IsEstimate(x, Len(S'))
  BY DEF AAInv, GroupInv, ClausesInv, TableInv, group

(* An estimate is a rational. *)
LEMMA EstimateType ==
    ASSUME NEW x, NEW len, IsEstimate(x, len)
    PROVE  x \in Rat
  BY DEF IsEstimate, Value

(* Each step of AA keeps the invariant. *)
LEMMA Sample1AAInv == AAInv /\ Sample1 => AAInv'
  <1> SUFFICES ASSUME AAInv, Sample1 PROVE AAInv'
    OBVIOUS
  <1>1. /\ step = 1 /\ step' = 1 /\ QLess(sum, Upsilon1) /\ N' = QAdd(N, QOne) /\ UNCHANGED group
        /\ N \in Rat /\ sum \in Rat /\ SumOf(sum, N, Len(S))
    BY DEF Sample1, AAInv
  <1>2. PICK x \in estimates : sum' = QAdd(sum, x)
    BY DEF Sample1
  <1>3. /\ GroupInv' /\ Len(S') = Len(S) /\ Len(S) \in Nat \ {0} /\ IsEstimate(x, Len(S))
        /\ \A y \in estimates' : IsEstimate(y, Len(S'))
    BY <1>1, GroupUnchanged
  <1>4. PICK n \in Int, d \in Nat \ {0} : N = <<n, d>> /\ Value(N, n, d)
    BY <1>1, RatParts
  <1>5. Value(QOne, 1, 1)
    BY DEF Value, QOne, Rat
  <1>6. Value(N', n * 1 + 1 * d, d * 1)
    BY <1>1, <1>4, <1>5, AddValue
  <1>7. n * 1 + 1 * d = n + d /\ d * 1 = d
    OBVIOUS
  <1>8. Value(N', n + d, d)
    BY <1>6, <1>7
  <1>9. N' \in Rat
    BY <1>8 DEF Value
  <1>10. SumOf(QAdd(sum, x), N', Len(S)) /\ QAdd(sum, x) \in Rat
    BY <1>1, <1>3, <1>4, <1>8, SumOfStep
  <1>11. QLess(QAdd(N, QOne), QAdd(QMul(Upsilon1, Q(Len(S), 1)), QOne))
    BY <1>1, <1>3, StoppingStep
  <1> QED
    BY <1>1, <1>2, <1>3, <1>9, <1>10, <1>11 DEF AAInv, StoppingRuleBounded

(* See Sample1AAInv: N is positive when the sum has reached Upsilon1. *)
LEMMA EndStep1AAInv == AAInv /\ EndStep1 => AAInv'
  <1> SUFFICES ASSUME AAInv, EndStep1 PROVE AAInv'
    OBVIOUS
  <1>1. /\ step = 1 /\ step' = 2 /\ ~QLess(sum, Upsilon1) /\ mu_hat' = QDiv(Upsilon1, N)
        /\ N' = Q(Ceil(QDiv(QMul(Upsilon2, Epsilon), mu_hat')), 1)
        /\ i' = 0 /\ sum' = QZero /\ UNCHANGED group
        /\ N \in Rat /\ sum \in Rat /\ SumOf(sum, N, Len(S))
    BY DEF EndStep1, AAInv
  <1>2. /\ GroupInv' /\ Len(S) \in Nat \ {0}
        /\ \A y \in estimates' : IsEstimate(y, Len(S'))
    BY <1>1, GroupUnchanged
  <1>3. N \in PosRat
    BY <1>1, <1>2, CountPositive
  <1>4. mu_hat' \in PosRat
    BY <1>1, <1>3, AConfAssumption, PositiveDiv
  <1>5. QDiv(QMul(Upsilon2, Epsilon), mu_hat') \in PosRat
    BY <1>4, AConfAssumption, PositiveMul, PositiveDiv
  <1>6. N' \in PosRat
    BY <1>1, <1>5, CeilPositive
  <1>7. sum' \in Rat /\ sum'[1] >= 0
    BY <1>1 DEF QZero, Rat
  <1> QED
    BY <1>1, <1>2, <1>4, <1>6, <1>7 DEF AAInv

(* See Sample1AAInv. *)
LEMMA Sample2AAInv == AAInv /\ Sample2 => AAInv'
  <1> SUFFICES ASSUME AAInv, Sample2 PROVE AAInv'
    OBVIOUS
  <1>1. /\ step = 2 /\ step' = 2 /\ i' = i + 1 /\ N' = N /\ mu_hat' = mu_hat /\ UNCHANGED group
        /\ i \in Nat /\ N \in PosRat /\ sum \in Rat /\ sum[1] >= 0 /\ mu_hat \in PosRat
    BY DEF Sample2, AAInv
  <1>2. PICK x \in estimates, y \in estimates :
           sum' = QAdd(sum, QDiv(QMul(QSub(x, y), QSub(x, y)), Q(2, 1)))
    BY DEF Sample2
  <1>3. /\ GroupInv' /\ x \in Rat /\ y \in Rat
        /\ \A z \in estimates' : IsEstimate(z, Len(S'))
    BY <1>1, GroupUnchanged, EstimateType
  <1>4. sum' \in Rat /\ sum'[1] >= 0
    BY <1>1, <1>2, <1>3, PairTerm
  <1> QED
    BY <1>1, <1>3, <1>4 DEF AAInv

(* See Sample1AAInv: rho_hat is at least Epsilon * mu_hat. *)
LEMMA EndStep2AAInv == AAInv /\ EndStep2 => AAInv'
  <1> SUFFICES ASSUME AAInv, EndStep2 PROVE AAInv'
    OBVIOUS
  <1>1. /\ step = 2 /\ step' = 3 /\ rho_hat' = QMax(QDiv(sum, N), QMul(Epsilon, mu_hat))
        /\ N' = QDiv(QMul(Upsilon2, rho_hat'), QMul(mu_hat, mu_hat))
        /\ i' = 0 /\ sum' = QZero /\ UNCHANGED group
        /\ N \in PosRat /\ sum \in Rat /\ sum[1] >= 0 /\ mu_hat \in PosRat
    BY DEF EndStep2, AAInv
  <1>2. /\ GroupInv' /\ Len(S') = Len(S) /\ Len(S) \in Nat \ {0}
        /\ \A y \in estimates' : IsEstimate(y, Len(S'))
    BY <1>1, GroupUnchanged
  <1>3. rho_hat' \in PosRat
    <2> DEFINE p == QDiv(sum, N)
               q == QMul(Epsilon, mu_hat)
    <2>1. p \in Rat /\ p[1] >= 0 /\ q \in PosRat
      BY <1>1, NonNegativeDiv, PositiveMul, AConfAssumption
    <2> HIDE DEF p, q
    <2>2. CASE QLess(q, p)
      <3>1. PICK a \in Nat, b \in Nat \ {0} : p = <<a, b>> /\ Value(p, a, b)
        BY <2>1, RatParts
      <3>2. PICK c \in Nat \ {0}, d \in Nat \ {0} : q = <<c, d>> /\ Value(q, c, d)
        BY <2>1, RatParts DEF PosRat
      <3>3. c * b < a * d
        BY <2>2, <3>1, <3>2, LessValue
      <3>4. a # 0
        BY <3>3
      <3> QED
        BY <1>1, <2>1, <2>2, <3>1, <3>4 DEF QMax, PosRat, p, q
    <2>3. CASE ~QLess(q, p)
      BY <1>1, <2>1, <2>3 DEF QMax, p, q
    <2> QED
      BY <2>2, <2>3
  <1>4. N' \in PosRat
    BY <1>1, <1>3, AConfAssumption, PositiveMul, PositiveDiv
  <1>5. Value(QZero, 0, 1) /\ QZero \in Rat
    BY DEF Value, QZero, Rat
  <1>6. Value(Q(0, 1), 0, 1)
    BY QuotientValue
  <1>7. SumOf(QZero, Q(0, 1), Len(S))
    BY <1>2, <1>5, <1>6, SumOfValue
  <1>8. QLess(Q(0, 1), QAdd(N', QOne))
    <2>1. PICK n \in Nat \ {0}, d \in Nat \ {0} : N' = <<n, d>> /\ Value(N', n, d)
      BY <1>4, RatParts DEF PosRat
    <2>2. Value(QOne, 1, 1)
      BY DEF Value, QOne, Rat
    <2>3. Value(QAdd(N', QOne), n * 1 + 1 * d, d * 1)
      BY <2>1, <2>2, AddValue
    <2>4. n * 1 + 1 * d \in Int /\ d * 1 \in Nat \ {0} /\ 0 * (d * 1) < (n * 1 + 1 * d) * 1
      OBVIOUS
    <2> QED
      BY <1>6, <2>3, <2>4, LessValue
  <1> QED
    BY <1>1, <1>2, <1>4, <1>5, <1>7, <1>8 DEF AAInv

(* See Sample1AAInv. *)
LEMMA Sample3AAInv == AAInv /\ Sample3 => AAInv'
  <1> SUFFICES ASSUME AAInv, Sample3 PROVE AAInv'
    OBVIOUS
  <1>1. /\ step = 3 /\ step' = 3 /\ QLess(Q(i, 1), N) /\ i' = i + 1 /\ N' = N /\ UNCHANGED group
        /\ i \in Nat /\ N \in PosRat /\ sum \in Rat /\ SumOf(sum, Q(i, 1), Len(S))
    BY DEF Sample3, AAInv
  <1>2. PICK x \in estimates : sum' = QAdd(sum, x)
    BY DEF Sample3
  <1>3. /\ GroupInv' /\ Len(S') = Len(S) /\ Len(S) \in Nat \ {0} /\ IsEstimate(x, Len(S))
        /\ \A y \in estimates' : IsEstimate(y, Len(S'))
    BY <1>1, GroupUnchanged
  <1>4. i \in Int /\ i + 1 \in Int /\ i + 1 \in Nat
    BY <1>1
  <1>5. Value(Q(i, 1), i, 1) /\ Value(Q(i + 1, 1), i + 1, 1)
    BY <1>4, QuotientValue
  <1>6. SumOf(QAdd(sum, x), Q(i + 1, 1), Len(S)) /\ QAdd(sum, x) \in Rat
    BY <1>1, <1>3, <1>4, <1>5, SumOfStep
  <1>7. QLess(Q(i + 1, 1), QAdd(N, QOne))
    <2>1. PICK n \in Nat \ {0}, d \in Nat \ {0} : N = <<n, d>> /\ Value(N, n, d)
      BY <1>1, RatParts DEF PosRat
    <2>2. Value(QOne, 1, 1)
      BY DEF Value, QOne, Rat
    <2>3. Value(QAdd(N, QOne), n * 1 + 1 * d, d * 1)
      BY <2>1, <2>2, AddValue
    <2>4. i * d < n * 1
      BY <1>1, <1>4, <1>5, <2>1, LessValue
    <2>5. n * 1 + 1 * d \in Int /\ d * 1 \in Nat \ {0} /\ (i + 1) * (d * 1) < (n * 1 + 1 * d) * 1
      BY <1>4, <2>4
    <2> QED
      BY <1>4, <1>5, <2>3, <2>5, LessValue
  <1> QED
    BY <1>1, <1>2, <1>3, <1>4, <1>6, <1>7 DEF AAInv

(* See Sample1AAInv: the answer from the sum of step 3. *)
LEMMA EndStep3AAInv == AAInv /\ EndStep3 => AAInv'
  <1> SUFFICES ASSUME AAInv, EndStep3 PROVE AAInv'
    OBVIOUS
  <1>1. /\ step = 3 /\ step' = 4 /\ ~QLess(Q(i, 1), N) /\ result' = QMul(QDiv(sum, N), nM)
        /\ N' = N /\ UNCHANGED group
        /\ i \in Nat /\ N \in PosRat /\ sum \in Rat /\ SumOf(sum, Q(i, 1), Len(S))
        /\ QLess(Q(i, 1), QAdd(N, QOne))
    BY DEF EndStep3, AAInv
  <1>2. /\ GroupInv' /\ Len(S') = Len(S) /\ Len(S) \in Nat \ {0}
        /\ \A y \in estimates' : IsEstimate(y, Len(S'))
    BY <1>1, GroupUnchanged
  <1>3. nM \in PosRat /\ nM' = nM
    <2>1. S' = S
      BY <1>1 DEF group
    <2>2. nM' = nM
      BY <2>1 DEF nM
    <2> QED
      BY <2>2, BagSum DEF AAInv, GroupInv
  <1>4. /\ ~QLess(QMul(QDiv(sum, N), nM), QDiv(nM, Q(Len(S), 1)))
        /\ QLess(QMul(QDiv(sum, N), nM), QMul(nM, QDiv(QAdd(N, QOne), N)))
    BY <1>1, <1>2, <1>3, AnswerStep
  <1>5. AnswerInRange'
    BY <1>1, <1>2, <1>3, <1>4 DEF AnswerInRange
  <1> QED
    BY <1>1, <1>2, <1>5 DEF AAInv

(* What aconf_final has established holds in every step of AA. *)
THEOREM EstimatorInvariant == Spec => []AAInv
  <1>1. Init => AAInv
    BY InitAAInv
  <1>2. AAInv /\ [Next]_vars => AAInv'
    <2> SUFFICES ASSUME AAInv, [Next]_vars PROVE AAInv'
      OBVIOUS
    <2>1. CASE aconf_final
      BY <2>1, FinalAAInv
    <2>2. CASE Sample1
      BY <2>2, Sample1AAInv
    <2>3. CASE EndStep1
      BY <2>3, EndStep1AAInv
    <2>4. CASE Sample2
      BY <2>4, Sample2AAInv
    <2>5. CASE EndStep2
      BY <2>5, EndStep2AAInv
    <2>6. CASE Sample3
      BY <2>6, Sample3AAInv
    <2>7. CASE EndStep3
      BY <2>7, EndStep3AAInv
    <2>8. CASE UNCHANGED vars
      <3>1. /\ UNCHANGED <<S, wt, estimates, step, i, N, sum, mu_hat, result>>
        BY <2>8 DEF vars
      <3>2. GroupInv' /\ (StoppingRuleBounded => StoppingRuleBounded')
        BY <3>1 DEF AAInv, GroupInv, ClausesInv, TableInv, StoppingRuleBounded
      <3>3. AnswerInRange => AnswerInRange'
        BY <3>1 DEF AnswerInRange, nM
      <3> QED
        BY <3>1, <3>2, <3>3 DEF AAInv
    <2> QED
      BY <2>1, <2>2, <2>3, <2>4, <2>5, <2>6, <2>7, <2>8 DEF Next, AA_algorithm
  <1> QED
    BY <1>1, <1>2, PTL DEF Spec

(* Step 1 makes less than Upsilon1 * NUM_WSDS + 1 estimates, whatever the  *)
(* database, the lineage and the samples.                                  *)
THEOREM StoppingRuleIsBounded == Spec => []StoppingRuleBounded
  <1>1. AAInv => StoppingRuleBounded
    BY DEF AAInv, StoppingRuleBounded
  <1> QED
    BY <1>1, EstimatorInvariant, PTL

(* The answer is at least the bag sum divided by the number of clauses,    *)
(* and exceeds the bag sum by less than one estimate's share.              *)
THEOREM AnswerStaysInRange == Spec => []AnswerInRange
  <1>1. AAInv => AnswerInRange
    BY DEF AAInv, AnswerInRange
  <1> QED
    BY <1>1, EstimatorInvariant, PTL
=============================================================================
