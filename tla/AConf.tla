-------------------------------- MODULE AConf --------------------------------
(***************************************************************************)
(* Approximate confidence by Monte Carlo simulation                        *)
(* (backend/maybms/aconf.c): the Karp-Luby estimator in Vazirani's version *)
(* and the algorithm AA of Dagum, Karp, Luby and Ross that decides how     *)
(* often to call it.                                                       *)
(*                                                                         *)
(* A call of the estimator draws a clause and a world in which it holds.   *)
(* Here it may draw any of them: the probability of each is kept beside    *)
(* it, for the expectation.  rand() is taken to be uniform.                *)
(***************************************************************************)
EXTENDS Lineage

CONSTANTS
    MaxWSDs,    \* bound: clauses of the group
    Upsilon1,   \* upsilon1_sra of step 1, computed from epsilon and delta
    Upsilon2,   \* upsilon2 of steps 2 and 3, likewise
    Epsilon     \* the relative error asked for

ASSUME AConfAssumption ==
    /\ MaxWSDs \in Nat
    /\ Upsilon1 \in PosRat /\ Upsilon2 \in PosRat /\ Epsilon \in PosRat

VARIABLES
    lineage,    \* the clauses of the group, as the tuples carry them
    S, wt,      \* clauses and local world table
    estimates,  \* what a call of the estimator may return for this group
    step,       \* 0 before aconf_final, 1..3 the steps of AA, 4 at the end
    i,          \* estimates made in the step
    N,          \* estimates the step will make (step 1: has made)
    sum,        \* the local S of the step
    mu_hat, rho_hat,
    result

vars == <<lineage, S, wt, estimates, step, i, N, sum, mu_hat, rho_hat, result>>

group == <<lineage, S, wt, estimates>>

-----------------------------------------------------------------------------
(* The estimator *)

(* The bag sum of the clauses' probabilities, and the share of each. *)
nM == QSum([k \in DOMAIN S |-> S[k].prob])

(* Mutant: every clause is drawn as often as the others. *)
clause_bag_prob_Uniform(k) == Q(1, Len(S))

clause_bag_prob(k) == QDiv(S[k].prob, nM)

(* Positions in clause k of the variable of entry e; the last one counts.  *)
Cij(k, e) == {a \in 1..WSD_LEN : S[k].data[a].var = wt[e].var}

RangesOf(e) == {wt[e].rngs[r].rng : r \in DOMAIN wt[e].rngs}

(* The assignments tau that may be drawn with clause k: its own ranges,    *)
(* and any range for the variables it does not determine.                  *)
Taus(k) ==
    {tau \in [DOMAIN wt -> UNION {RangesOf(e) : e \in DOMAIN wt}] :
        \A e \in DOMAIN wt :
            IF Cij(k, e) = {} THEN tau[e] \in RangesOf(e)
                              ELSE tau[e] = S[k].data[Max(Cij(k, e))].rng}

Samples == UNION {{k} \X Taus(k) : k \in DOMAIN S}

(* choose_with_distribution for the clause, choose_with_distribution_2 for *)
(* each variable that it leaves open.                                      *)
choose_with_distribution_2(e, r) ==
    wt[e].rngs[SelectInSeq(wt[e].rngs, LAMBDA x : x.rng = r)].p

SampleProb(x) ==
    FoldLeft(LAMBDA p, e : IF Cij(x[1], e) = {}
                           THEN QMul(p, choose_with_distribution_2(e, x[2][e])) ELSE p,
             clause_bag_prob(x[1]), [e \in DOMAIN wt |-> e])

Satisfied(k, tau) ==
    \A a \in 1..WSD_LEN :
        tau[SelectInSeq(wt, LAMBDA x : x.var = S[k].data[a].var)] = S[k].data[a].rng

(* Mutant: the classical estimator, 1 if the clause is the first one that  *)
(* holds in the world and 0 otherwise.                                     *)
compute_estimator_ZeroOne(x) ==
    IF \E k \in 1..(x[1] - 1) : Satisfied(k, x[2]) THEN QZero ELSE QOne

(* 1 / c_tau for sample x. *)
compute_estimator(x) ==
    Q(1, Cardinality({k \in DOMAIN S : Satisfied(k, x[2])}))

Estimates == {compute_estimator(x) : x \in Samples}

-----------------------------------------------------------------------------
(* AA_algorithm *)

Ceil(q) == -((-q[1]) \div q[2])

QMax(p, q) == IF QLess(q, p) THEN p ELSE q

Init ==
    /\ lineage \in UNION {[1..len -> Clauses] : len \in 1..MaxWSDs}
    /\ S = [k \in DOMAIN lineage |-> MakeClause(lineage[k])]
    /\ wt = FoldLeft(LAMBDA t, c : FoldLeft(updateWorldTable, t, c.data), <<>>, S)
    /\ estimates = {}
    /\ step = 0 /\ i = 0 /\ N = QZero /\ sum = QZero
    /\ mu_hat = QZero /\ rho_hat = QZero /\ result = QZero

(* aconf_final: complete the world table and enter AA. *)
aconf_final ==
    /\ step = 0
    /\ wt' = getMissingRngs(wt)
    /\ step' = 1
    /\ UNCHANGED <<lineage, S, i, N, sum, mu_hat, rho_hat, result>>
    /\ estimates' = Estimates'

(* Step 1, the stopping rule: sample until the sum reaches Upsilon1. *)
Sample1 ==
    /\ step = 1
    /\ QLess(sum, Upsilon1)
    /\ \E x \in estimates : sum' = QAdd(sum, x)
    /\ N' = QAdd(N, QOne)
    /\ UNCHANGED <<group, step, i, mu_hat, rho_hat, result>>

EndStep1 ==
    /\ step = 1
    /\ ~QLess(sum, Upsilon1)
    /\ mu_hat' = QDiv(Upsilon1, N)
    /\ N' = Q(Ceil(QDiv(QMul(Upsilon2, Epsilon), mu_hat')), 1)
    /\ step' = 2 /\ i' = 0 /\ sum' = QZero
    /\ UNCHANGED <<group, rho_hat, result>>

(* Mutant: the loop does not count. *)
Sample2_SameIndex ==
    /\ step = 2
    /\ QLess(Q(i, 1), N)
    /\ UNCHANGED vars

(* Step 2, the variance from pairs of estimates. *)
Sample2 ==
    /\ step = 2
    /\ QLess(Q(i, 1), N)
    /\ \E x, y \in estimates :
        LET kl2 == QSub(x, y) IN sum' = QAdd(sum, QDiv(QMul(kl2, kl2), Q(2, 1)))
    /\ i' = i + 1
    /\ UNCHANGED <<group, step, N, mu_hat, rho_hat, result>>

EndStep2 ==
    /\ step = 2
    /\ ~QLess(Q(i, 1), N)
    /\ rho_hat' = QMax(QDiv(sum, N), QMul(Epsilon, mu_hat))
    /\ N' = QDiv(QMul(Upsilon2, rho_hat'), QMul(mu_hat, mu_hat))
    /\ step' = 3 /\ i' = 0 /\ sum' = QZero
    /\ UNCHANGED <<group, mu_hat, result>>

(* Step 3, the mean of N estimates.  N is not rounded. *)
Sample3 ==
    /\ step = 3
    /\ QLess(Q(i, 1), N)
    /\ \E x \in estimates : sum' = QAdd(sum, x)
    /\ i' = i + 1
    /\ UNCHANGED <<group, step, N, mu_hat, rho_hat, result>>

(* Mutant: the bag sum is forgotten. *)
EndStep3_NoBagSum ==
    /\ step = 3
    /\ ~QLess(Q(i, 1), N)
    /\ result' = QDiv(sum, N)
    /\ step' = 4
    /\ UNCHANGED <<group, i, N, sum, mu_hat, rho_hat>>

EndStep3 ==
    /\ step = 3
    /\ ~QLess(Q(i, 1), N)
    /\ result' = QMul(QDiv(sum, N), nM)
    /\ step' = 4
    /\ UNCHANGED <<group, i, N, sum, mu_hat, rho_hat>>

AA_algorithm ==
    \/ Sample1 \/ EndStep1 \/ Sample2 \/ EndStep2 \/ Sample3 \/ EndStep3

Next == aconf_final \/ AA_algorithm

Spec == Init /\ [][Next]_vars

(* aconf_final is a call: it runs to its end. *)
FairSpec == Spec /\ WF_vars(aconf_final) /\ WF_vars(AA_algorithm)

-----------------------------------------------------------------------------
(* Properties *)

(* "Returns an unbiased estimator for p/nM, where p is the probability of  *)
(* the DNF and nM is the bag sum of the clause weights": the expectation   *)
(* over all samples, against the possible worlds.                          *)
Unbiased ==
    step = 1 /\ i = 0 =>
        QMul(nM, MapThenFoldSet(QAdd, QZero,
                     LAMBDA x : QMul(SampleProb(x), compute_estimator(x)),
                     LAMBDA T : CHOOSE x \in T : TRUE, Samples))
          = Confidence(Range(lineage))

(* The answer stays where the mean of the estimates can be: between the    *)
(* bag sum divided by the number of clauses and the bag sum, the latter    *)
(* exceeded by less than one estimate, because step 3 makes N rounded up   *)
(* estimates and divides by N.                                             *)
AnswerInRange ==
    step = 4 =>
        /\ ~QLess(result, QDiv(nM, Q(Len(S), 1)))
        /\ QLess(result, QMul(nM, QDiv(QAdd(N, QOne), N)))

(* The stopping rule is quick in the worst case too: an estimate is never  *)
(* below 1 / NUM_WSDS, so step 1 makes less than Upsilon1 * NUM_WSDS + 1   *)
(* of them.                                                                *)
StoppingRuleBounded ==
    step = 1 => QLess(N, QAdd(QMul(Upsilon1, Q(Len(S), 1)), QOne))

(* However the samples turn out, aconf_final ends.                         *)
Terminates == <>(step = 4)
=============================================================================
