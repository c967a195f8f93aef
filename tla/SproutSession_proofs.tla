------------------------ MODULE SproutSession_proofs ------------------------
(***************************************************************************)
(* When every statement is executed before the next one is rewritten, a    *)
(* hierarchical query finds its own signature in the global variables, for *)
(* every group, whatever the algorithms are that the session calls.        *)
(***************************************************************************)
EXTENDS SproutSession, TLAPS

(* No statement is rewritten while another one waits: a query string has   *)
(* one statement.                                                          *)
OneStatementPerString == MaxAhead = 1

-----------------------------------------------------------------------------
(* The inductive invariant *)

(* The globals are those of statement st, if it is for the operator: the   *)
(* signature, what it is built from again, and whether one scan will do.   *)
OwnGlobals(st) ==
    st.op = "HQ" => /\ sigQuery = st.query
                    /\ sigTreeRoot = SignatureOf(st.query)
                    /\ isOneScan = HasOneScan(SignatureOf(st.query))

(* The running statement has the fields that the executor keeps. *)
IsRunning(e) ==
    e = [op |-> e.op, query |-> e.query, groups |-> e.groups, todo |-> e.todo,
         transValue |-> e.transValue]

WaitingInv ==
    \/ parsed = <<>>
    \/ \E st : parsed = <<st>> /\ OwnGlobals(st)

RunningInv == exec # None => IsRunning(exec) /\ OwnGlobals(exec)

(* The globals belong to the statement that waits and to the one that      *)
(* runs.                                                                   *)
SessionInv == WaitingInv /\ RunningInv

-----------------------------------------------------------------------------
(* Steps *)

(* A step that leaves sigQuery and isOneScan alone, and leaves the tree or *)
(* builds it again, keeps the globals of a statement.                      *)
Rebuilt ==
    /\ UNCHANGED <<sigQuery, isOneScan>>
    /\ sigTreeRoot' = sigTreeRoot \/ sigTreeRoot' = SignatureOf(sigQuery)

LEMMA WaitingKept ==
    ASSUME WaitingInv, Rebuilt, parsed' = parsed
    PROVE  WaitingInv'
  <1>1. CASE parsed = <<>>
    BY <1>1 DEF WaitingInv
  <1>2. CASE parsed # <<>>
    <2>1. PICK st : parsed = <<st>> /\ OwnGlobals(st)
      BY <1>2 DEF WaitingInv
    <2>2. st.op = "HQ" => /\ sigQuery' = st.query
                          /\ sigTreeRoot' = SignatureOf(st.query)
                          /\ isOneScan' = HasOneScan(SignatureOf(st.query))
      BY <2>1 DEF OwnGlobals, Rebuilt
    <2> QED
      BY <2>1, <2>2 DEF WaitingInv, OwnGlobals
  <1> QED
    BY <1>1, <1>2

(* The rewriting of a statement, with nothing waiting *)
LEMMA ParseStep ==
    ASSUME SessionInv, OneStatementPerString, NEW q \in Queries, pg_parse_query(q)
    PROVE  SessionInv'
  <1> DEFINE st == [query |-> q, op |-> OperatorFor(q), order |-> ColumnOrder(q, OperatorFor(q))]
  <1>1. parsed = <<>>
    BY DEF pg_parse_query, SessionInv, WaitingInv, OneStatementPerString
  <1>2. exec' = None
    BY DEF pg_parse_query
  <1>3. CASE OperatorFor(q) = "general"
    BY <1>1, <1>2, <1>3 DEF pg_parse_query, SessionInv, WaitingInv, RunningInv
  <1>4. CASE OperatorFor(q) # "general"
    <2>1. parsed' = <<st>>
      BY <1>1, <1>4 DEF pg_parse_query
    <2>2. st.op = "HQ" => /\ sigQuery' = st.query
                          /\ sigTreeRoot' = SignatureOf(st.query)
                          /\ isOneScan' = HasOneScan(SignatureOf(st.query))
      BY DEF pg_parse_query
    <2> HIDE DEF st
    <2>3. WaitingInv'
      BY <2>1, <2>2 DEF WaitingInv, OwnGlobals
    <2> QED
      BY <1>2, <2>3 DEF SessionInv, RunningInv
  <1> QED
    BY <1>3, <1>4

(* The statement that waits becomes the one that runs. *)
LEMMA StartStep ==
    ASSUME SessionInv, NEW k \in DOMAIN parsed, ExecutorStart(k)
    PROVE  SessionInv'
  <1>1. PICK st : parsed = <<st>> /\ OwnGlobals(st)
    BY DEF SessionInv, WaitingInv
  <1>2. k = 1 /\ parsed[k] = st
    BY <1>1
  <1>3. parsed' = <<>>
    BY <1>1, <1>2 DEF ExecutorStart, RemoveAt
  <1>4. st.op = "HQ" => /\ sigQuery' = st.query
                        /\ sigTreeRoot' = SignatureOf(st.query)
                        /\ isOneScan' = HasOneScan(SignatureOf(st.query))
    BY <1>1 DEF ExecutorStart, OwnGlobals
  <1>5. ASSUME exec' # None
        PROVE  IsRunning(exec') /\ exec'.op = st.op /\ exec'.query = st.query
    <2> DEFINE groups == LineageGroups(db, st.query, st.order)
    <2>1. exec' = [op |-> st.op, query |-> st.query, groups |-> groups, todo |-> groups[1],
                   transValue |-> QZero]
      BY <1>2, <1>5 DEF ExecutorStart
    <2> QED
      BY <2>1 DEF IsRunning
  <1> QED
    BY <1>3, <1>4, <1>5 DEF SessionInv, WaitingInv, RunningInv, OwnGlobals

(* A tuple of a group: the globals are only read. *)
LEMMA AccumStep ==
    ASSUME SessionInv, conf_accum
    PROVE  SessionInv'
  <1>1. Rebuilt /\ parsed' = parsed /\ exec # None
    BY DEF conf_accum, Rebuilt
  <1>2. IsRunning(exec) /\ OwnGlobals(exec)
    BY <1>1 DEF SessionInv, RunningInv
  <1>3. PICK v : exec' = [exec EXCEPT !.todo = Tail(@), !.transValue = v]
    BY DEF conf_accum
  <1>4. IsRunning(exec') /\ exec'.op = exec.op /\ exec'.query = exec.query
    BY <1>2, <1>3 DEF IsRunning
  <1>5. WaitingInv'
    BY <1>1, WaitingKept DEF SessionInv
  <1> QED
    BY <1>1, <1>2, <1>4, <1>5 DEF SessionInv, RunningInv, OwnGlobals, Rebuilt

(* The end of a group: the tree is left alone or built again. *)
LEMMA FinalStep ==
    ASSUME SessionInv, conf_final
    PROVE  SessionInv'
  <1>1. Rebuilt
    <2>1. sigTreeRoot' = sigTreeRoot \/ sigTreeRoot' = SignatureOf(sigQuery)
      BY DEF conf_final, MultiScan, SignatureAfter
    <2> QED
      BY <2>1 DEF conf_final, Rebuilt
  <1>2. parsed' = parsed /\ exec # None
    BY DEF conf_final
  <1>3. IsRunning(exec) /\ OwnGlobals(exec)
    BY <1>2 DEF SessionInv, RunningInv
  <1>4. ASSUME exec' # None
        PROVE  IsRunning(exec') /\ exec'.op = exec.op /\ exec'.query = exec.query
    <2>1. exec' = [exec EXCEPT !.groups = Tail(@), !.todo = exec.groups[2], !.transValue = QZero]
      BY <1>4 DEF conf_final, NextGroup
    <2> QED
      BY <1>3, <2>1 DEF IsRunning
  <1>5. WaitingInv'
    BY <1>1, <1>2, WaitingKept DEF SessionInv
  <1> QED
    BY <1>1, <1>3, <1>4, <1>5 DEF SessionInv, RunningInv, OwnGlobals, Rebuilt

-----------------------------------------------------------------------------
(* Theorems *)

(* The globals belong to one query. *)
GlobalsAgree ==
    sigQuery # None => /\ sigTreeRoot = SignatureOf(sigQuery)
                       /\ isOneScan = HasOneScan(sigTreeRoot)

(* However many statements are rewritten before one is executed, the tree, *)
(* what it is built from again and the choice of the scan that             *)
(* ProcessSignature and conf_final leave are those of one query: a group   *)
(* may find the globals of another statement, never a mixture of two.      *)
THEOREM GlobalsOfOneQuery == Spec => []GlobalsAgree
  <1>1. Init => GlobalsAgree
    BY DEF Init, GlobalsAgree
  <1>2. GlobalsAgree /\ [Next]_vars => GlobalsAgree'
    <2> SUFFICES ASSUME GlobalsAgree, [Next]_vars PROVE GlobalsAgree'
      OBVIOUS
    <2>1. ASSUME NEW q \in Queries, pg_parse_query(q) PROVE GlobalsAgree'
      BY <2>1 DEF pg_parse_query, GlobalsAgree
    <2>2. ASSUME NEW k \in DOMAIN parsed, ExecutorStart(k) PROVE GlobalsAgree'
      BY <2>2 DEF ExecutorStart, GlobalsAgree
    <2>3. CASE conf_accum
      BY <2>3 DEF conf_accum, GlobalsAgree
    <2>4. CASE conf_final
      <3>1. sigTreeRoot' = sigTreeRoot \/ sigTreeRoot' = SignatureOf(sigQuery)
        BY <2>4 DEF conf_final, MultiScan, SignatureAfter
      <3>2. UNCHANGED <<sigQuery, isOneScan>>
        BY <2>4 DEF conf_final
      <3> QED
        BY <3>1, <3>2 DEF GlobalsAgree
    <2>5. CASE UNCHANGED vars
      BY <2>5 DEF GlobalsAgree, vars
    <2> QED
      BY <2>1, <2>2, <2>3, <2>4, <2>5 DEF Next
  <1> QED
    BY <1>1, <1>2, PTL DEF Spec

(* In a session whose query strings have one statement each, the globals   *)
(* that the rewriting leaves behind (ProcessSignature) are always those of *)
(* the statement that waits and of the one that runs.                      *)
THEOREM SessionInvariant ==
    ASSUME OneStatementPerString
    PROVE  Spec => []SessionInv
  <1>1. Init => SessionInv
    BY DEF Init, SessionInv, WaitingInv, RunningInv
  <1>2. SessionInv /\ [Next]_vars => SessionInv'
    <2> SUFFICES ASSUME SessionInv, [Next]_vars PROVE SessionInv'
      OBVIOUS
    <2>1. ASSUME NEW q \in Queries, pg_parse_query(q) PROVE SessionInv'
      BY <2>1, ParseStep
    <2>2. ASSUME NEW k \in DOMAIN parsed, ExecutorStart(k) PROVE SessionInv'
      BY <2>2, StartStep
    <2>3. CASE conf_accum
      BY <2>3, AccumStep
    <2>4. CASE conf_final
      BY <2>4, FinalStep
    <2>5. CASE UNCHANGED vars
      BY <2>5 DEF SessionInv, WaitingInv, RunningInv, OwnGlobals, vars
    <2> QED
      BY <2>1, <2>2, <2>3, <2>4, <2>5 DEF Next
  <1> QED
    BY <1>1, <1>2, PTL DEF Spec

(* A group of a hierarchical query always finds the signature of its own   *)
(* query, although conf_final aggregates the tree in place and builds it   *)
(* again from globals, and other statements ran before.                    *)
THEOREM SignatureIsOwn ==
    ASSUME OneStatementPerString
    PROVE  Spec => []OwnSignature
  <1>1. SessionInv => OwnSignature
    BY DEF SessionInv, RunningInv, OwnGlobals, OwnSignature
  <1> QED
    BY <1>1, SessionInvariant, PTL
=============================================================================
