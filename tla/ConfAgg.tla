------------------------------- MODULE ConfAgg -------------------------------
(***************************************************************************)
(* The process-wide state behind the confidence aggregates.                *)
(*                                                                         *)
(* conf(), conf(approach, epsilon) and aconf() are PostgreSQL aggregates:  *)
(* a transition function per tuple of a duplicate group, a final function  *)
(* per group.  Their lineage does not live in the aggregate's state but in *)
(* globals of the backend (groupcxt, S and NUM_WSDS), and in structures of *)
(* the AggState (genstate; state and lineage of the operator for           *)
(* hierarchical queries) whose contents are allocated in groupcxt.  The    *)
(* context has no parent, so an aborted statement does not free it.        *)
(*                                                                         *)
(* A clause is abstracted to a tag naming the statement, node, group and   *)
(* tuple it comes from; S is the set of the tags (NULL is {}), and a       *)
(* confidence is the set of tags it was computed from.  Following a NULL   *)
(* or freed pointer is a fault.  A NULL one kills the backend; a freed one *)
(* kills it or goes on with what the memory holds now.  aconf() divides by *)
(* the number of its clauses, so without a clause it returns NaN.          *)
(***************************************************************************)
EXTENDS Integers, Sequences, FiniteSets

CONSTANTS
    Nodes,      \* the AggStates of a statement; a larger one feeds a smaller one
    Aggs,       \* their confidence aggregates, in the order they are finalised
    MaxGroups,  \* bound: duplicate groups of each node
    MaxTuples,  \* bound: tuples of a group
    MaxStmts,   \* bound: statements of the session
    Env         \* what may happen beside a plain run of the statements

(* The aggregates over S: conf(), conf(approach, epsilon) and aconf(). *)
GeneralKinds == {"exact", "appro", "aconf"}

(* "onescan" and "manyscan" are the operator on hierarchical queries with  *)
(* and without the 1scan property, "conf0" a conf() left without arguments. *)
AggKinds == GeneralKinds \cup {"onescan", "manyscan", "conf0"}

Events ==
    {"interrupt",       \* a cancel, a timeout or an error of another operator
     "sum_error",       \* getMissingRngs reports probabilities above 1
     "approach_error",  \* conf() called with an unknown approach
     "nested",          \* a node is evaluated while another is inside a group
     "lazy_tconf"}      \* tconf() is evaluated while a node is inside a group

ASSUME ConfAggAssumption ==
    /\ Nodes \subseteq Nat
    /\ Aggs \in [Nodes -> Seq(AggKinds) \ {<<>>}]
    /\ MaxGroups \in [Nodes -> Nat]
    /\ MaxTuples \in Nat
    /\ MaxStmts \in Nat
    /\ Env \subseteq Events

NULL == 0

VARIABLES
    groupcxt,  \* the context of the current group, or NULL
    live,      \* contexts that exist
    ncxt,      \* contexts created so far
    S,         \* clauses in S; {} is S = NULL
    Scxt,      \* the contexts S and its clauses are allocated in
    lin,       \* tuples in the state or lineage of each AggState
    mem,       \* contexts each AggState points into; {} is a zeroed structure
    grp, n,    \* each node's current group and the tuples fetched for it
    fin,       \* final functions already called for the group
    stmt,      \* statements begun
    phase,     \* "idle", "running" or "dead"
    result     \* the last confidence returned: from what, and from what it should be

globals == <<groupcxt, live, ncxt, S, Scxt>>
vars == <<groupcxt, live, ncxt, S, Scxt, lin, mem, grp, n, fin, stmt, phase, result>>

-----------------------------------------------------------------------------
Tag(nd, t) == <<stmt, nd, grp[nd], t>>

(* The lineage of the node's current group. *)
Group(nd) == {Tag(nd, t) : t \in 1..n[nd]}

Uses(nd, kind) == \E a \in DOMAIN Aggs[nd] : Aggs[nd][a] = kind

(* The node collects its lineage in S. *)
IsGeneral(nd) == \E kind \in GeneralKinds : Uses(nd, kind)

InGroup(nd) == n[nd] > 0 \/ fin[nd] > 0

(* A node runs when no other is inside a group, or, for a node that feeds  *)
(* one that is, when the executor pulls tuples one at a time.  No other    *)
(* code runs between the final functions of a group.                       *)
CanRun(nd) ==
    /\ phase = "running"
    /\ \A m \in Nodes \ {nd} :
        InGroup(m) => "nested" \in Env /\ m < nd /\ fin[m] = 0

Zeroed(nd) == mem[nd] = {}
Dangling(nd) == ~(mem[nd] \subseteq live)
DanglingS == ~(Scxt \subseteq live)

(* What freed memory holds is no lineage at all. *)
Garbage == <<0, 0, 0, 0>>
Read(cxts, tags) == IF cxts \subseteq live THEN tags ELSE tags \cup {Garbage}

(* The estimate of aconf over no clause is 1/0, times the sum 0. *)
NaN == <<0, 0, 0, 1>>

Die ==
    /\ phase' = "dead"
    /\ UNCHANGED <<globals, lin, mem, grp, n, fin, stmt, result>>

(* Error recovery aborts the statement; it knows nothing of the globals.   *)
Abort == phase' = "idle" /\ UNCHANGED <<lin, mem, grp, n, fin, stmt, result>>

-----------------------------------------------------------------------------
(* Statements *)

Init ==
    /\ groupcxt = NULL /\ live = {} /\ ncxt = 0
    /\ S = {} /\ Scxt = {}
    /\ lin = [nd \in Nodes |-> {}] /\ mem = [nd \in Nodes |-> {}]
    /\ grp = [nd \in Nodes |-> 1] /\ n = [nd \in Nodes |-> 0]
    /\ fin = [nd \in Nodes |-> 0]
    /\ stmt = 0 /\ phase = "idle"
    /\ result = [got |-> {}, want |-> {}]

(* Mutant: the structures of the previous statement are used again. *)
ExecInitAgg_NotZeroed ==
    /\ phase = "idle"
    /\ stmt < MaxStmts
    /\ stmt' = stmt + 1
    /\ phase' = "running"
    /\ grp' = [nd \in Nodes |-> 1]
    /\ n' = [nd \in Nodes |-> 0]
    /\ fin' = [nd \in Nodes |-> 0]
    /\ UNCHANGED <<globals, lin, mem, result>>

(* ExecInitAgg of every node: palloc0 of state, lineage and genstate. *)
ExecInitAgg ==
    /\ phase = "idle"
    /\ stmt < MaxStmts
    /\ stmt' = stmt + 1
    /\ phase' = "running"
    /\ lin' = [nd \in Nodes |-> {}]
    /\ mem' = [nd \in Nodes |-> {}]
    /\ grp' = [nd \in Nodes |-> 1]
    /\ n' = [nd \in Nodes |-> 0]
    /\ fin' = [nd \in Nodes |-> 0]
    /\ UNCHANGED <<globals, result>>

(* The statement is over, or stops early between two groups (a LIMIT). *)
EndStatement ==
    /\ phase = "running"
    /\ \A nd \in Nodes : ~InGroup(nd)
    /\ phase' = "idle"
    /\ UNCHANGED <<globals, lin, mem, grp, n, fin, stmt, result>>

(* An error between two calls of the aggregates. *)
Interrupt ==
    /\ "interrupt" \in Env
    /\ phase = "running"
    /\ \A nd \in Nodes : fin[nd] = 0
    /\ Abort
    /\ UNCHANGED globals

(* A new backend after a crash. *)
Restart ==
    /\ phase = "dead"
    /\ phase' = "idle"
    /\ groupcxt' = NULL /\ live' = {}
    /\ S' = {} /\ Scxt' = {}
    /\ UNCHANGED <<ncxt, lin, mem, grp, n, fin, stmt, result>>

-----------------------------------------------------------------------------
(* Transition functions *)

(* The context a transition function allocates in. *)
GroupContext == IF groupcxt = NULL THEN ncxt + 1 ELSE groupcxt

EnterGroupContext ==
    /\ groupcxt' = GroupContext
    /\ live' = live \cup {GroupContext}
    /\ ncxt' = IF groupcxt = NULL THEN ncxt + 1 ELSE ncxt

(* accum, aconf_accum and conf_appro_accum, with the call of advance():    *)
(* genStateInit only when S is NULL; otherwise S and the hash table of the *)
(* node's genstate are used as they are.                                   *)
accum(nd) ==
    \/ /\ S # {}
       /\ Zeroed(nd) \/ Dangling(nd) \/ DanglingS
       /\ Die
    \/ /\ S = {} \/ ~Zeroed(nd)
       /\ EnterGroupContext
       /\ S' = S \cup {Tag(nd, n[nd] + 1)}
       /\ Scxt' = Scxt \cup {GroupContext}
       /\ mem' = [mem EXCEPT ![nd] = IF S = {} THEN {GroupContext} ELSE mem[nd]]
       /\ n' = [n EXCEPT ![nd] = n[nd] + 1]
       /\ UNCHANGED <<lin, grp, fin, stmt, phase, result>>

(* accumulate of the operator for hierarchical queries, with the call of   *)
(* its advance(): state->vars is set on the first tuple the AggState ever  *)
(* sees, the head of the lineage on the first of the group.                *)
accumulate(nd) ==
    \/ Dangling(nd) /\ Die
    \/ /\ EnterGroupContext
       /\ lin' = [lin EXCEPT ![nd] = lin[nd] \cup {Tag(nd, n[nd] + 1)}]
       /\ mem' = [mem EXCEPT ![nd] = mem[nd] \cup {GroupContext}]
       /\ n' = [n EXCEPT ![nd] = n[nd] + 1]
       /\ UNCHANGED <<S, Scxt, grp, fin, stmt, phase, result>>

(* advance_aggregates on the next tuple of the group.  conf_accum0 does    *)
(* nothing, so a node's other aggregate decides.                           *)
advance_aggregates(nd) ==
    /\ CanRun(nd)
    /\ fin[nd] = 0
    /\ grp[nd] <= MaxGroups[nd]
    /\ n[nd] < MaxTuples
    /\ IF IsGeneral(nd) THEN accum(nd) ELSE accumulate(nd)

-----------------------------------------------------------------------------
(* Final functions *)

(* Mutant: the context is deleted and groupcxt keeps pointing to it. *)
DeleteGroup_Keep ==
    /\ live' = live \ {groupcxt}
    /\ UNCHANGED <<groupcxt, ncxt>>

(* MemoryContextDelete of the group's context. *)
DeleteGroup ==
    /\ live' = live \ {groupcxt}
    /\ groupcxt' = NULL
    /\ UNCHANGED ncxt

(* Mutant: the final functions delete the context and leave S. *)
ForgetLineage_Not == UNCHANGED <<S, Scxt>>

(* "Set the world-set-descriptor-related global variables to NULL". *)
ForgetLineage == S' = {} /\ Scxt' = {}

(* A confidence is returned; after the last one the node goes on to its    *)
(* next group.  An aggregate over no tuple is done.                        *)
Return(nd, got) ==
    /\ result' = [got |-> got, want |-> Group(nd)]
    /\ IF fin[nd] + 1 < Len(Aggs[nd])
       THEN fin' = [fin EXCEPT ![nd] = fin[nd] + 1] /\ UNCHANGED <<grp, n>>
       ELSE /\ fin' = [fin EXCEPT ![nd] = 0]
            /\ n' = [n EXCEPT ![nd] = 0]
            /\ grp' = [grp EXCEPT ![nd] =
                          IF n[nd] = 0 THEN MaxGroups[nd] + 1 ELSE grp[nd] + 1]
    /\ UNCHANGED <<stmt, phase>>

(* What the final functions over S have in common: "Return 0 if there is   *)
(* no tuple", told by groupcxt;                                            *)
NoTuple(nd) ==
    /\ groupcxt = NULL
    /\ Return(nd, {})
    /\ UNCHANGED <<globals, lin, mem>>

(* otherwise getMissingRngs, which may report an error, and                *)
(* computeEntryPointers, which looks the clauses up in the hash table of   *)
(* genstate; the confidence got; and the end of the group.                 *)
Compute(nd, got) ==
    \/ /\ groupcxt # NULL
       /\ "sum_error" \in Env /\ ~Zeroed(nd)
       /\ Abort /\ UNCHANGED globals
    \/ /\ groupcxt # NULL
       /\ S # {}
       /\ Zeroed(nd) \/ Dangling(nd) \/ DanglingS
       /\ Die
    \/ /\ groupcxt # NULL
       /\ S = {} \/ ~Zeroed(nd)
       /\ Return(nd, got)
       /\ DeleteGroup /\ ForgetLineage
       /\ UNCHANGED <<lin, mem>>

(* The clauses in S, as the node reads them. *)
Lineage(nd) == Read(mem[nd] \cup Scxt, S)

(* conf(): no clause has confidence 0. *)
conf_final_ge(nd) == NoTuple(nd) \/ Compute(nd, Lineage(nd))

(* aconf(): the samples of AA_algorithm are divided by the clauses they    *)
(* satisfy.                                                                *)
aconf_final(nd) ==
    NoTuple(nd) \/ Compute(nd, IF S = {} THEN {NaN} ELSE Lineage(nd))

(* conf(approach, epsilon): appro_approach is looked at first.  It points  *)
(* to the argument of the last call of conf_appro_accum.  When the group   *)
(* has no tuple that was another statement's, or there was none.           *)
conf_appro_final_ge(nd) ==
    \/ NoTuple(nd)
    \/ /\ groupcxt # NULL
       /\ "approach_error" \in Env \/ n[nd] = 0
       /\ DeleteGroup /\ ForgetLineage /\ Abort
    \/ /\ groupcxt # NULL
       /\ n[nd] = 0
       /\ Die
    \/ Compute(nd, Lineage(nd))

(* conf_final of the operator for hierarchical queries.  With the 1scan    *)
(* property state->vars is kept for the next group; otherwise lineage and  *)
(* state are set up again.  Without a tuple state->tempSum is NULL.        *)
conf_final(nd) ==
    \/ /\ groupcxt = NULL
       /\ Return(nd, {})
       /\ UNCHANGED <<globals, lin, mem>>
    \/ /\ groupcxt # NULL
       /\ lin[nd] = {} \/ Dangling(nd)
       /\ Die
    \/ /\ groupcxt # NULL
       /\ lin[nd] # {}
       /\ Return(nd, Read(mem[nd], lin[nd]))
       /\ DeleteGroup
       /\ lin' = [lin EXCEPT ![nd] = {}]
       /\ mem' = IF Uses(nd, "onescan") THEN mem ELSE [mem EXCEPT ![nd] = {}]
       /\ UNCHANGED <<S, Scxt>>

(* finalize_aggregates: the group has no further tuple.  A plain aggregate *)
(* is finalised even when it has none at all.                              *)
finalize_aggregates(nd) ==
    /\ CanRun(nd)
    /\ n[nd] > 0 \/ grp[nd] = 1
    /\ grp[nd] <= MaxGroups[nd]
    /\ LET kind == Aggs[nd][fin[nd] + 1]
       IN  CASE kind = "exact" -> conf_final_ge(nd)
             [] kind = "aconf" -> aconf_final(nd)
             [] kind = "appro" -> conf_appro_final_ge(nd)
             [] OTHER -> conf_final(nd)

-----------------------------------------------------------------------------
(* product_ge, the tconf() of a tuple with several triples: it takes       *)
(* groupcxt for a context of its own, deletes that and leaves NULL.        *)
product_ge ==
    /\ phase = "running"
    /\ \A nd \in Nodes : fin[nd] = 0
    /\ "lazy_tconf" \in Env \/ \A nd \in Nodes : ~InGroup(nd)
    /\ groupcxt' = NULL
    /\ UNCHANGED <<live, ncxt, S, Scxt, lin, mem, grp, n, fin, stmt, phase, result>>

Next ==
    \/ ExecInitAgg \/ EndStatement \/ Interrupt \/ Restart \/ product_ge
    \/ \E nd \in Nodes : advance_aggregates(nd) \/ finalize_aggregates(nd)

Spec == Init /\ [][Next]_vars

-----------------------------------------------------------------------------
(* Properties *)

Tags == (0..MaxStmts) \X Nodes \X Nat \X Nat

TypeOK ==
    /\ groupcxt \in Nat /\ live \subseteq Nat \ {NULL} /\ ncxt \in Nat
    /\ S \subseteq Tags /\ Scxt \subseteq Nat
    /\ lin \in [Nodes -> SUBSET Tags]
    /\ mem \in [Nodes -> SUBSET Nat]
    /\ grp \in [Nodes -> Nat] /\ n \in [Nodes -> Nat] /\ fin \in [Nodes -> Nat]
    /\ stmt \in 0..MaxStmts
    /\ phase \in {"idle", "running", "dead"}
    /\ result \in [got : SUBSET (Tags \cup {Garbage, NaN}), want : SUBSET Tags]

(* "Returns the exact confidence of distinct tuples": a confidence is      *)
(* computed from the lineage of its own group, all of it and nothing else, *)
(* whatever ran in the backend before or in between.                       *)
OwnLineage == result.got = result.want

(* What aborted statements leave behind is never taken for lineage: a      *)
(* confidence comes from its own group, or it is the NaN that aconf_final  *)
(* computes over no clause when groupcxt was left behind and the group has *)
(* no tuple.                                                               *)
NoForeignLineage ==
    OwnLineage \/ result = [got |-> {NaN}, want |-> {}]

(* "Return 0 if there is no tuple": the final functions take a NULL        *)
(* groupcxt for an empty group, and only for that.                         *)
NullMeansNoTuple ==
    \A nd \in Nodes : CanRun(nd) /\ fin[nd] = 0 => (groupcxt = NULL <=> n[nd] = 0)

(* No pointer that is NULL or into a deleted context is followed. *)
NoFault == phase # "dead"

(* Nothing of a statement is left in the globals after it. *)
CleanWhenIdle == phase = "idle" => groupcxt = NULL /\ S = {} /\ live = {}

-----------------------------------------------------------------------------
(* The inductive invariants behind these properties *)

(* What the statements must be like: one confidence function per select, a *)
(* 1scan operator with a single group, and no operator evaluated while     *)
(* another is inside a group.                                              *)
OneAtATime ==
    /\ \A nd \in Nodes :
        \/ Aggs[nd] \in {<<kind>> : kind \in GeneralKinds \cup {"manyscan"}}
        \/ Aggs[nd] = <<"onescan">> /\ MaxGroups[nd] <= 1
    /\ "nested" \notin Env
    /\ "lazy_tconf" \notin Env

(* At most one node is inside a group, and then there is a context. *)
OneInGroup ==
    /\ \A nd \in Nodes : fin[nd] = 0 /\ grp[nd] >= 1
    /\ \A nd, m \in Nodes : n[nd] > 0 /\ n[m] > 0 => nd = m
    /\ \A nd \in Nodes : n[nd] > 0 => groupcxt # NULL

(* The operator on hierarchical queries holds its own group, in memory     *)
(* that exists.                                                            *)
OperatorHoldsGroup ==
    \A nd \in Nodes :
        /\ ~IsGeneral(nd) => lin[nd] = Group(nd)
        /\ n[nd] > 0 => mem[nd] # {} /\ mem[nd] \subseteq live
        /\ n[nd] = 0 /\ grp[nd] = 1 => mem[nd] = {}
        /\ n[nd] = 0 /\ Uses(nd, "manyscan") => mem[nd] = {}

(* S holds the group of the general node that is inside one; an S left by  *)
(* an aborted statement meets zeroed structures only.                      *)
LineageOwned ==
    /\ \A nd \in Nodes :
        IsGeneral(nd) /\ n[nd] > 0 => S = Group(nd) /\ Scxt \subseteq live
    /\ \/ S = {}
       \/ \E nd \in Nodes : IsGeneral(nd) /\ n[nd] > 0
       \/ \A nd \in Nodes : IsGeneral(nd) => Zeroed(nd)

SessionInv ==
    /\ TypeOK
    /\ S = {} => Scxt = {}
    /\ phase = "running" => OneInGroup /\ OperatorHoldsGroup /\ LineageOwned
    /\ NoForeignLineage

(* Without aborts nothing is left between two groups. *)
CleanInv ==
    /\ SessionInv
    /\ OwnLineage
    /\ NoFault
    /\ groupcxt = NULL => S = {} /\ live = {}
    /\ groupcxt # NULL => live = {groupcxt}
    /\ groupcxt # NULL => phase = "running" /\ \E nd \in Nodes : n[nd] > 0
    /\ S # {} => \E nd \in Nodes : IsGeneral(nd) /\ n[nd] > 0
=============================================================================
