----------------------------- MODULE SproutSession -----------------------------
(***************************************************************************)
(* The session around the SPROUT operator (SPROUT.c in the executor): a    *)
(* statement is rewritten when its text is parsed, which leaves the        *)
(* signature of the query in global variables; when it is executed, the    *)
(* sorted tuples of lineage of each group are handed to conf_accum, and    *)
(* conf_final computes.                                                    *)
(*                                                                         *)
(* What the session calls is left open here, so that what holds of the     *)
(* global variables does not depend on it; module Sprout defines it.       *)
(***************************************************************************)
EXTENDS Sequences, SequencesExt, Rationals

CONSTANTS
    Queries,     \* the statements that clients may send
    Databases,   \* the contents: for each base relation, its rows
    MaxAhead,    \* statements parsed before the first of them is executed
    MaxStmts(_)  \* bound: statements parsed in all, for the given contents

CONSTANTS
    OperatorFor(_),         \* the operator that process_select chooses for a query
    ColumnOrder(_, _),      \* the order of the columns of the query's lineage
    LineageGroups(_, _, _), \* the groups of tuples that the plan yields on a database
    ProbOf(_),              \* the probability of a variable
    SignatureOf(_),         \* the signature of a query
    HasOneScan(_),          \* whether a signature has the 1scan property
    EmptyState,             \* stateData, zeroed
    ScanTuple(_, _, _),     \* stateData after a tuple, for a signature
    EndScan(_),             \* stateData after the tuple NULL
    ScanAll(_, _, _)        \* the aggregations of a signature and the scan after them

VARIABLES
    db,          \* base relation -> sequence of rows (attribute -> value)
    parsed,      \* statements that are rewritten and wait for execution
    nparsed,     \* how many have been parsed
    sigQuery,    \* sgTreeRoot and relList: the query they were built from
    sigTreeRoot, \* the signature
    isOneScan,
    exec,        \* the running statement and the groups it still has
    state,       \* AggState.state
    lineage,     \* AggState.lineage
    done         \* the last group that was answered, or None

vars == <<db, parsed, nparsed, sigQuery, sigTreeRoot, isOneScan, exec, state, lineage, done>>

None == <<>>

-----------------------------------------------------------------------------
(* The session *)

Init ==
    /\ db \in Databases
    /\ parsed = <<>> /\ nparsed = 0
    /\ sigQuery = None /\ sigTreeRoot = None /\ isOneScan = FALSE
    /\ exec = None /\ state = EmptyState /\ lineage = <<>> /\ done = None

(* Mutant: the signature is built once and not for every statement. *)
pg_parse_query_Once(q) ==
    LET op == OperatorFor(q)
    IN  /\ exec = None /\ ~state.fault
        /\ nparsed < MaxStmts(db) /\ Len(parsed) < MaxAhead
        /\ nparsed' = nparsed + 1
        /\ parsed' = IF op = "general" THEN parsed
                     ELSE Append(parsed, [query |-> q, op |-> op, order |-> ColumnOrder(q, op)])
        /\ IF op = "HQ" /\ sigTreeRoot = None
           THEN /\ sigQuery' = q
                /\ sigTreeRoot' = SignatureOf(q)
                /\ isOneScan' = HasOneScan(sigTreeRoot')
           ELSE UNCHANGED <<sigQuery, sigTreeRoot, isOneScan>>
        /\ UNCHANGED <<db, exec, state, lineage, done>>

(* Rewriting: a query for the operator leaves its signature in the globals *)
(* (ProcessSignature); a general query is not executed here.               *)
pg_parse_query(q) ==
    LET op == OperatorFor(q)
    IN  /\ exec = None /\ ~state.fault
        /\ nparsed < MaxStmts(db) /\ Len(parsed) < MaxAhead
        /\ nparsed' = nparsed + 1
        /\ parsed' = IF op = "general" THEN parsed
                     ELSE Append(parsed, [query |-> q, op |-> op, order |-> ColumnOrder(q, op)])
        /\ IF op = "HQ"
           THEN /\ sigQuery' = q
                /\ sigTreeRoot' = SignatureOf(q)
                /\ isOneScan' = HasOneScan(sigTreeRoot')
           ELSE UNCHANGED <<sigQuery, sigTreeRoot, isOneScan>>
        /\ UNCHANGED <<db, exec, state, lineage, done>>

(* The plan is started: the executor's state is zeroed. *)
ExecutorStart(k) ==
    LET st == parsed[k]
        groups == LineageGroups(db, st.query, st.order)
    IN  /\ exec = None /\ ~state.fault
        /\ parsed' = RemoveAt(parsed, k)
        /\ exec' = IF groups = <<>> THEN None
                   ELSE [op |-> st.op, query |-> st.query, groups |-> groups, todo |-> groups[1],
                         transValue |-> QZero]
        /\ state' = EmptyState /\ lineage' = <<>> /\ done' = None
        /\ UNCHANGED <<db, nparsed, sigQuery, sigTreeRoot, isOneScan>>

(* conf_accum1, and conf_accum2 to conf_accum10 *)
conf_accum ==
    /\ exec # None /\ ~state.fault /\ exec.todo # <<>>
    /\ LET t == exec.todo[1]
           a == exec.transValue
           b == ProbOf(t[1])
       IN  /\ exec' = [exec EXCEPT !.todo = Tail(@),
                                   !.transValue = IF exec.op = "one_relation"
                                                  THEN QSub(QAdd(a, b), QMul(a, b)) ELSE @]
           /\ state' = IF exec.op = "HQ" /\ isOneScan THEN ScanTuple(sigTreeRoot, state, t) ELSE state
           /\ lineage' = IF exec.op = "HQ" /\ ~isOneScan THEN Append(lineage, t) ELSE lineage
    /\ UNCHANGED <<db, parsed, nparsed, sigQuery, sigTreeRoot, isOneScan, done>>

(* The answer for a group, and whether computing it failed *)
Answer(value, failed) == [query |-> exec.query, tuples |-> exec.groups[1],
                          value |-> value, fault |-> failed]

(* The executor goes on to the next group. *)
NextGroup ==
    exec' = IF Len(exec.groups) = 1 THEN None
            ELSE [exec EXCEPT !.groups = Tail(@), !.todo = exec.groups[2],
                              !.transValue = QZero]

(* The tree is built again for the next group. *)
SignatureAfter(node) == SignatureOf(sigQuery)

(* conf_final without the 1scan property: the tree is aggregated for this  *)
(* group and used for one scan, which leaves its state.                    *)
MultiScan ==
    LET scan == ScanAll(sigTreeRoot, state, lineage)
    IN  /\ done' = Answer(scan.value, scan.state.fault)
        /\ state' = scan.state
        /\ sigTreeRoot' = SignatureAfter(scan.node)
        /\ lineage' = <<>>

(* Without a tuple in the group there is no memory context, and the answer *)
(* is 0.                                                                   *)
conf_final ==
    /\ exec # None /\ ~state.fault /\ exec.todo = <<>>
    /\ NextGroup
    /\ CASE exec.op = "one_relation" ->
               /\ done' = Answer(exec.transValue, FALSE)
               /\ UNCHANGED <<state, lineage, sigTreeRoot>>
         [] exec.op = "HQ" /\ exec.groups[1] = <<>> ->
               /\ done' = Answer(QZero, FALSE)
               /\ UNCHANGED <<state, lineage, sigTreeRoot>>
         [] exec.op = "HQ" /\ exec.groups[1] # <<>> /\ isOneScan ->
               LET s == EndScan(state)
               IN  /\ done' = Answer(s.tempSum[1], s.fault)
                   /\ state' = [s EXCEPT !.counter = 0]
                   /\ UNCHANGED <<lineage, sigTreeRoot>>
         [] OTHER -> MultiScan
    /\ UNCHANGED <<db, parsed, nparsed, sigQuery, isOneScan>>

Next ==
    \/ \E q \in Queries : pg_parse_query(q)
    \/ \E k \in DOMAIN parsed : ExecutorStart(k)
    \/ conf_accum
    \/ conf_final

Spec == Init /\ [][Next]_vars

-----------------------------------------------------------------------------
(* Properties *)

(* A group finds the signature that its own query was rewritten with: the  *)
(* one of an earlier statement has been replaced, and what the             *)
(* aggregations of an earlier group made of the tree is gone.              *)
OwnSignature ==
    exec # None /\ exec.op = "HQ" => sigTreeRoot = SignatureOf(exec.query)
==============================================================================
