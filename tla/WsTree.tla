-------------------------------- MODULE WsTree --------------------------------
(***************************************************************************)
(* Exact confidence of a general lineage (backend/maybms/ws-tree.c):       *)
(* independent partitioning and variable elimination.                      *)
(*                                                                         *)
(* The algorithm drops maps from the clauses in the global S on the way    *)
(* down (rng = -1, the clause's probability divided) and is to restore     *)
(* them on the way up, so S is threaded through the recursion.             *)
(***************************************************************************)
EXTENDS ClauseSets

CONSTANT MaxWSDs     \* bound: clauses of the group

ASSUME WsTreeAssumption == MaxWSDs \in Nat

VARIABLES
    lineage,   \* the clauses of the group, as the tuples carry them
    S,         \* the clauses as advance() leaves them
    wt,        \* the local world table
    result     \* the confidence returned, <<>> before that

vars == <<lineage, S, wt, result>>

-----------------------------------------------------------------------------
(* Variable elimination *)

(* Occurrences of an entry's variable among the clauses of the set. *)
how_many_assignments(s, set, e) ==
    Cardinality({x \in set \X (1..WSD_LEN) :
        LET m == s[x[1]].data[x[2]]
        IN  m.var = e.var /\ m.rng # DROPPED})

minlog(s, set, e) ==
    LET a == how_many_assignments(s, set, e)
    IN  Len(e.rngs) * (Cardinality(set) - a) + a

(* The first entry of the table with the least estimate; 0 if none occurs. *)
choose_var_minlog(s, set, t) ==
    LET used == {i \in DOMAIN t : how_many_assignments(s, set, t[i]) > 0}
        best == {i \in used : \A k \in used : minlog(s, set, t[i]) <= minlog(s, set, t[k])}
    IN  IF used = {} THEN 0 ELSE Min(best)

(* Drop the first map v -> r of a clause. *)
Position(d, v, r) == SelectInSeq(d.data, LAMBDA m : m.var = v /\ m.rng = r)

DropMap(d, v, r) ==
    LET k == Position(d, v, r)
    IN  [data |-> [d.data EXCEPT ![k] = Map(v, DROPPED, d.data[k].prob)],
         prob |-> QDiv(d.prob, d.data[k].prob)]

(* The clauses with v -> r, that map dropped.  At the first clause nothing *)
(* is left of (its probability is 1) the scan stops, the clauses are       *)
(* restored and the set is emptied: empty is told from not found (NULL).   *)
find_wsds_with_var_rng(s, set, v, r) ==
    LET with  == {i \in set : Position(s[i], v, r) # 0}
        empty == {i \in with : DropMap(s[i], v, r).prob = QOne}
        kept  == [i \in DOMAIN s |-> IF i \in with THEN DropMap(s[i], v, r) ELSE s[i]]
        seen  == {i \in with : i <= Min(empty)}
        half  == [i \in DOMAIN s |-> IF i \in seen THEN DropMap(s[i], v, r) ELSE s[i]]
    IN  IF with = {} THEN [null |-> TRUE, set |-> {}, S |-> s]
        ELSE IF empty = {} THEN [null |-> FALSE, set |-> with, S |-> kept]
        ELSE [null |-> FALSE, set |-> {}, S |-> reset_wsds_var_rng(half, seen, v, r)]

(* All that follow return a probability and S. *)
RECURSIVE indve_compute_prob(_, _, _)

(* Range r of variable v joins the sum: sub is the probability of the      *)
(* clauses found with v -> r and of those without v, which are computed    *)
(* once in the code and kept (p_without_var).                              *)
AddRange(acc, r, v, without, found, sub) ==
    IF ~found.null /\ found.set = {}
    THEN [p |-> QAdd(acc.p, r.p), S |-> found.S]
    ELSE [p |-> QAdd(acc.p, QMul(r.p, sub.p)),
          S |-> IF found.null THEN sub.S
                ELSE reset_wsds_var_rng(sub.S, found.set \cup without, v, r.rng)]

TryRange(acc, r, v, without, found, t) ==
    AddRange(acc, r, v, without, found,
             indve_compute_prob(found.S, found.set \cup without, t))

(* The ranges of the chosen variable, one after the other. *)
EliminateVar(s, subset, t, v, rngs) ==
    FoldLeft(LAMBDA acc, r : TryRange(acc, r, v, find_wsds_without_var(acc.S, subset, v),
                                      find_wsds_with_var_rng(acc.S, subset, v, r.rng), t),
             [p |-> QZero, S |-> s], rngs)

(* The dependent clauses: one, none with a variable left, or more. *)
LeftPart(s, subset, t, e) ==
    IF Cardinality(subset) = 1 THEN [p |-> s[Min(subset)].prob, S |-> s]
    ELSE IF e = 0 THEN [p |-> QOne, S |-> s]
    ELSE EliminateVar(s, subset, t, t[e].var, t[e].rngs)

Combine(left, right) ==
    [p |-> QSub(QAdd(left.p, right.p), QMul(left.p, right.p)), S |-> right.S]

(* A left part of probability 1 (every "return 1.0" of the code, the case  *)
(* of no variable left included) makes the right part irrelevant.          *)
RightPart(left, rest, t) ==
    IF left.p = QOne THEN left ELSE Combine(left, indve_compute_prob(left.S, rest, t))

Partition(s, set, subset, t) ==
    RightPart(LeftPart(s, subset, t, choose_var_minlog(s, subset, t)), set \ subset, t)

indve_compute_prob(s, set, t) ==
    IF set = {} THEN [p |-> QZero, S |-> s]
    ELSE Partition(s, set, find_independent_split(s, set), t)

-----------------------------------------------------------------------------
(* The aggregate *)

Init == lineage = <<>> /\ S = <<>> /\ wt = <<>> /\ result = <<>>

(* A tuple of the group: advance(). *)
advance(c) ==
    /\ result = <<>>
    /\ Len(S) < MaxWSDs
    /\ lineage' = Append(lineage, c)
    /\ S' = Append(S, MakeClause(c))
    /\ wt' = FoldLeft(updateWorldTable, wt, MakeClause(c).data)
    /\ UNCHANGED result

(* conf_final_ge up to the end of the computation. *)
conf_final_ge ==
    /\ result = <<>>
    /\ S # <<>>
    /\ wt' = getMissingRngs(wt)
    /\ LET computed == indve_compute_prob(S, DOMAIN S, wt')
       IN  result' = computed.p /\ S' = computed.S
    /\ UNCHANGED lineage

Next == (\E c \in Clauses : advance(c)) \/ conf_final_ge

Spec == Init /\ [][Next]_vars

-----------------------------------------------------------------------------
(* Properties *)

(* "Returns the exact confidence of distinct tuples": variable elimination *)
(* computes the probability of the worlds where some clause holds.         *)
ExactConfidence == result # <<>> => result = Confidence(Range(lineage))

(* "The temporarily dropped mappings are restored": after the computation  *)
(* every clause has its maps and its probability again.                    *)
LineageRestored == S = [i \in DOMAIN lineage |-> MakeClause(lineage[i])]
=============================================================================
