------------------------------ MODULE ClauseSets ------------------------------
(***************************************************************************)
(* Sets of clauses as ws-tree.c and d-tree.c, which have a copy each,      *)
(* handle them: independent partitioning, and the maps that variable       *)
(* elimination drops from the clauses (rng = -1, the clause's probability  *)
(* divided) and restores.  A set (bitset) is a set of positions in S,      *)
(* which is the parameter s here.                                          *)
(***************************************************************************)
EXTENDS Lineage

-----------------------------------------------------------------------------
(* Partitioning *)

(* compare_map # 0: the maps constrain the same variable. *)
compare_map(m1, m2) == m1.rng # DROPPED /\ m2.rng # DROPPED /\ m1.var = m2.var

wsd_ind(d1, d2) ==
    \A i, k \in 1..WSD_LEN : ~compare_map(d1.data[i], d2.data[k])

RECURSIVE dfs(_, _, _)
dfs(s, set, found) ==
    LET next == found \cup {k \in set : \E i \in found : ~wsd_ind(s[i], s[k])}
    IN  IF next = found THEN found ELSE dfs(s, set, next)

(* Mutant: only the direct neighbours of the first clause. *)
find_independent_split_Near(s, set) ==
    {Min(set)} \cup {k \in set : ~wsd_ind(s[Min(set)], s[k])}

(* The clauses connected with the first one of the set. *)
find_independent_split(s, set) == dfs(s, set, {Min(set)})

-----------------------------------------------------------------------------
(* Dropped maps *)

(* The clauses without a map of the variable, dropped ones included. *)
find_wsds_without_var(s, set, v) ==
    {i \in set : \A k \in 1..WSD_LEN : s[i].data[k].var # v}

(* Restore the dropped map v -> r in the clauses of the set. *)
RestoreClause(d, v, r) ==
    LET mine == {k \in 1..WSD_LEN : d.data[k].var = v}
    IN  [data |-> [k \in 1..WSD_LEN |->
                      IF k \in mine THEN Map(v, r, d.data[k].prob) ELSE d.data[k]],
         prob |-> FoldLeft(LAMBDA p, k : IF k \in mine THEN QMul(p, d.data[k].prob) ELSE p,
                           d.prob, [k \in 1..WSD_LEN |-> k])]

(* Mutant: the ranges come back, the clause's probability does not. *)
reset_wsds_var_rng_RngOnly(s, set, v, r) ==
    [i \in DOMAIN s |->
        IF i \in set THEN [RestoreClause(s[i], v, r) EXCEPT !.prob = s[i].prob] ELSE s[i]]

reset_wsds_var_rng(s, set, v, r) ==
    [i \in DOMAIN s |-> IF i \in set THEN RestoreClause(s[i], v, r) ELSE s[i]]
=============================================================================
