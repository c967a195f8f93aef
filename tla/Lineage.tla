------------------------------- MODULE Lineage -------------------------------
(***************************************************************************)
(* The lineage of a duplicate group as the confidence algorithms find it   *)
(* (localcond.c): the clauses in S after advance(), the local world table  *)
(* after getMissingRngs(), and, independently of both, the probability     *)
(* that the lineage holds, by summing over the possible worlds.            *)
(*                                                                         *)
(* The hash table behind the world table is the subject of LocalCond; only *)
(* the order of its entries (first occurrence) matters here.               *)
(***************************************************************************)
EXTENDS Sequences, FiniteSets, SequencesExt, Rationals

CONSTANTS
    DBVars,    \* the variables of the database (positive numbers)
    Weight,    \* the probabilities of each variable's ranges 1, 2, ...
    WSD_LEN    \* maps per clause

ASSUME LineageAssumption ==
    /\ DBVars \subseteq Nat \ {0}
    /\ \A v \in DBVars : Weight[v] \in Seq(PosRat)
    /\ WSD_LEN \in Nat \ {0}

RESERVED_VAR == 0
RNG_FOR_RESERVED_VAR == 1

(* rng of a map that is temporarily dropped *)
DROPPED == -1

-----------------------------------------------------------------------------
(* The database: the tuples handed to the transition functions *)

Literals == UNION {{v} \X DOMAIN Weight[v] : v \in DBVars}

(* The consistency check of the rewriting lets no clause through that gives *)
(* one variable two ranges.                                                *)
Clauses ==
    {c \in [1..WSD_LEN -> Literals] :
        \A a, b \in 1..WSD_LEN : c[a][1] = c[b][1] => c[a] = c[b]}

QSum(seq) == FoldLeft(QAdd, QZero, seq)

(* A possible world gives every variable one of its ranges, or none of     *)
(* them (the next number) with the probability that is left.               *)
Worlds ==
    {w \in [DBVars -> 1..(Max({Len(Weight[v]) : v \in DBVars}) + 1)] :
        \A v \in DBVars : w[v] <= Len(Weight[v]) + 1}

RangeWeight(v, r) ==
    IF r \in DOMAIN Weight[v] THEN Weight[v][r] ELSE QSub(QOne, QSum(Weight[v]))

WorldWeight ==
    [w \in Worlds |-> MapThenFoldSet(QMul, QOne, LAMBDA v : RangeWeight(v, w[v]),
                                     LAMBDA T : CHOOSE v \in T : TRUE, DBVars)]

Holds(c, w) == \A a \in 1..WSD_LEN : w[c[a][1]] = c[a][2]

(* The confidence of a set of clauses: the weight of the worlds where one  *)
(* of them holds.                                                          *)
Confidence(clauses) ==
    FoldFunctionOnSet(QAdd, QZero, WorldWeight,
                      {w \in Worlds : \E c \in clauses : Holds(c, w)})

-----------------------------------------------------------------------------
(* Clauses and the local world table *)

Map(v, r, p) == [var |-> v, rng |-> r, prob |-> p]

(* create_map for every map, then the loops of advance(): a repeated       *)
(* variable becomes the reserved one, and the clause's probability is the  *)
(* product over its maps.                                                  *)
MakeClause(c) ==
    LET data == [a \in 1..WSD_LEN |->
                    IF \E b \in 1..(a-1) : c[b][1] = c[a][1]
                    THEN Map(RESERVED_VAR, RNG_FOR_RESERVED_VAR, QOne)
                    ELSE Map(c[a][1], c[a][2], Weight[c[a][1]][c[a][2]])]
    IN  [data |-> data,
         prob |-> FoldLeft(LAMBDA p, m : QMul(p, m.prob), QOne, data)]

(* updateWorldTable on map m: an entry per variable and per range, in the  *)
(* order they are met.                                                     *)
updateWorldTable(wt, m) ==
    LET e  == SelectInSeq(wt, LAMBDA x : x.var = m.var)
        re == [rng |-> m.rng, p |-> m.prob]
    IN  IF e = 0
        THEN Append(wt, [var |-> m.var, rngs |-> <<re>>])
        ELSE IF \E k \in DOMAIN wt[e].rngs : wt[e].rngs[k].rng = m.rng
             THEN wt
             ELSE [wt EXCEPT ![e].rngs = Append(wt[e].rngs, re)]

(* The ranges that did not occur are completed by one with the rest of the *)
(* probability.  (A sum above 1 is an error, which no database here has.)  *)
getMissingRngs(wt) ==
    [e \in DOMAIN wt |->
        LET rngs == wt[e].rngs
            sum  == QSum([k \in DOMAIN rngs |-> rngs[k].p])
            last == Max({rngs[k].rng : k \in DOMAIN rngs})
        IN  IF QLess(sum, QOne)
            THEN [wt[e] EXCEPT !.rngs =
                     Append(rngs, [rng |-> last + 1, p |-> QSub(QOne, sum)])]
            ELSE wt[e]]
=============================================================================
