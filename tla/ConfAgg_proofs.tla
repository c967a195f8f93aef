---------------------------- MODULE ConfAgg_proofs ----------------------------
(***************************************************************************)
(* Proofs about ConfAgg: for statements that keep to OneAtATime, no        *)
(* confidence is computed from the lineage of another group, even when     *)
(* earlier statements were aborted; what is left then is NaN for an        *)
(* aconf() over no tuple, and faults.  Without aborts nothing is ever left *)
(* in the globals, and neither happens.                                    *)
(***************************************************************************)
EXTENDS ConfAgg, TLAPS

(* Initially the globals are empty and no node has run. *)
LEMMA InitSession == Init => SessionInv
BY ConfAggAssumption DEF Init, SessionInv, TypeOK, NoForeignLineage, OwnLineage, Tags, NULL

LEMMA InitClean == Init => CleanInv
<1>1. Init => SessionInv
  BY InitSession
<1> QED
  BY <1>1 DEF Init, CleanInv, NoFault, OwnLineage, NULL

(* The group after one more tuple. *)
LEMMA GroupGrows ==
    ASSUME TypeOK, NEW nd \in Nodes, UNCHANGED <<stmt, grp>>,
           n' = [n EXCEPT ![nd] = n[nd] + 1]
    PROVE  /\ Group(nd)' = Group(nd) \cup {Tag(nd, n[nd] + 1)}
           /\ \A m \in Nodes \ {nd} : Group(m)' = Group(m)
           /\ Tag(nd, n[nd] + 1) \in Tags
BY DEF TypeOK, Group, Tag, Tags

(* With one aggregate per node its kind decides which functions run. *)
LEMMA Kinds ==
    ASSUME OneAtATime, NEW nd \in Nodes
    PROVE  /\ Len(Aggs[nd]) = 1
           /\ \A kind : Uses(nd, kind) <=> Aggs[nd][1] = kind
           /\ IsGeneral(nd) <=> Aggs[nd][1] \in GeneralKinds
           /\ ~IsGeneral(nd) /\ ~Uses(nd, "manyscan") => MaxGroups[nd] <= 1
<1>1. \/ \E kind \in GeneralKinds \cup {"manyscan"} : Aggs[nd] = <<kind>>
      \/ Aggs[nd] = <<"onescan">> /\ MaxGroups[nd] <= 1
  BY DEF OneAtATime
<1>2. PICK k : Aggs[nd] = <<k>>
  BY <1>1
<1>3. Len(Aggs[nd]) = 1 /\ DOMAIN Aggs[nd] = {1} /\ Aggs[nd][1] = k
  BY <1>2
<1>4. \A kind : Uses(nd, kind) <=> Aggs[nd][1] = kind
  BY <1>3 DEF Uses
<1>5. IsGeneral(nd) <=> Aggs[nd][1] \in GeneralKinds
  BY <1>4 DEF IsGeneral
<1>6. Aggs[nd][1] \in GeneralKinds \cup {"manyscan"} \/ MaxGroups[nd] <= 1
  BY <1>1
<1> QED
  BY <1>3, <1>4, <1>5, <1>6

(* When a node runs, every other one is between groups. *)
LEMMA Alone ==
    ASSUME OneAtATime, TypeOK, NEW nd \in Nodes, CanRun(nd)
    PROVE  phase = "running" /\ \A m \in Nodes \ {nd} : n[m] = 0 /\ fin[m] = 0
BY DEF OneAtATime, CanRun, InGroup, TypeOK

(* A dead backend, or one that has aborted a statement with the globals as *)
(* they were, keeps the invariant.                                         *)
LEMMA StopSession ==
    ASSUME SessionInv, phase' \in {"idle", "dead"},
           UNCHANGED <<globals, lin, mem, grp, n, fin, stmt, result>>
    PROVE  SessionInv'
<1>1. TypeOK'
  BY DEF SessionInv, TypeOK, globals
<1>2. (S = {} => Scxt = {})' /\ NoForeignLineage'
  BY DEF SessionInv, NoForeignLineage, OwnLineage, globals
<1> QED
  BY <1>1, <1>2 DEF SessionInv

(* A statement begins: every structure is zeroed. *)
LEMMA BeginSession ==
    ASSUME SessionInv, ExecInitAgg
    PROVE  SessionInv'
<1>1. TypeOK'
  BY ConfAggAssumption DEF SessionInv, TypeOK, ExecInitAgg, globals, Tags
<1>2. (S = {} => Scxt = {})' /\ NoForeignLineage'
  BY DEF SessionInv, NoForeignLineage, OwnLineage, ExecInitAgg, globals
<1>3. OneInGroup'
  BY DEF ExecInitAgg, OneInGroup
<1>4. OperatorHoldsGroup'
  BY DEF ExecInitAgg, OperatorHoldsGroup, Group
<1>5. LineageOwned'
  BY DEF ExecInitAgg, LineageOwned, Zeroed
<1> QED
  BY <1>1, <1>2, <1>3, <1>4, <1>5 DEF SessionInv

(* The context of the group exists once a transition function has run. *)
LEMMA EnterContext ==
    ASSUME TypeOK, EnterGroupContext
    PROVE  /\ groupcxt' \in Nat /\ groupcxt' # NULL /\ groupcxt' = GroupContext
           /\ live' = live \cup {GroupContext} /\ live' \subseteq Nat \ {NULL}
           /\ ncxt' \in Nat
BY DEF TypeOK, EnterGroupContext, GroupContext, NULL

(* A tuple for S: on an S of its own the node goes on; on one left behind  *)
(* its structures are zeroed, and the call is a fault.                     *)
LEMMA AccumSession ==
    ASSUME OneAtATime, SessionInv, NEW nd \in Nodes, CanRun(nd),
           IsGeneral(nd), accum(nd)
    PROVE  SessionInv'
<1>1. CASE Die
  BY <1>1, StopSession DEF Die
<1>2. CASE ~Die
  <2>1. /\ S = {} \/ ~Zeroed(nd)
        /\ EnterGroupContext
        /\ S' = S \cup {Tag(nd, n[nd] + 1)}
        /\ Scxt' = Scxt \cup {GroupContext}
        /\ mem' = [mem EXCEPT ![nd] = IF S = {} THEN {GroupContext} ELSE mem[nd]]
        /\ n' = [n EXCEPT ![nd] = n[nd] + 1]
        /\ UNCHANGED <<lin, grp, fin, stmt, phase, result>>
    BY <1>2 DEF accum
  <2>2. TypeOK /\ phase = "running" /\ OneInGroup /\ OperatorHoldsGroup /\ LineageOwned
    BY Alone DEF SessionInv
  <2>3. \A m \in Nodes \ {nd} : n[m] = 0
    BY <2>2, Alone
  <2>4. /\ groupcxt' \in Nat /\ groupcxt' # NULL
        /\ live' = live \cup {GroupContext} /\ live' \subseteq Nat \ {NULL}
        /\ ncxt' \in Nat /\ GroupContext \in Nat
    BY <2>1, <2>2, EnterContext
  <2>5. /\ Group(nd)' = Group(nd) \cup {Tag(nd, n[nd] + 1)}
        /\ \A m \in Nodes \ {nd} : Group(m)' = Group(m)
        /\ Tag(nd, n[nd] + 1) \in Tags
    BY <2>1, <2>2, GroupGrows
  <2>6. S = Group(nd) /\ (S = {} <=> n[nd] = 0)
    <3>1. CASE n[nd] > 0
      <4>1. Tag(nd, 1) \in Group(nd)
        BY <3>1, <2>2 DEF Group, TypeOK
      <4> QED
        BY <3>1, <4>1, <2>2 DEF LineageOwned
    <3>2. CASE n[nd] = 0
      <4>1. S = {}
        BY <3>2, <2>1, <2>2, <2>3 DEF LineageOwned
      <4> QED
        BY <4>1, <3>2 DEF Group
    <3> QED
      BY <3>1, <3>2, <2>2 DEF TypeOK
  <2>7. TypeOK'
    BY <2>1, <2>2, <2>4, <2>5 DEF TypeOK
  <2>8. OneInGroup'
    BY <2>1, <2>2, <2>3, <2>4 DEF OneInGroup, TypeOK
  <2>9. OperatorHoldsGroup'
    <3> SUFFICES ASSUME NEW m \in Nodes
                 PROVE  /\ ~IsGeneral(m) => lin'[m] = Group(m)'
                        /\ n'[m] > 0 => mem'[m] # {} /\ mem'[m] \subseteq live'
                        /\ n'[m] = 0 /\ grp'[m] = 1 => mem'[m] = {}
                        /\ n'[m] = 0 /\ Uses(m, "manyscan") => mem'[m] = {}
      BY DEF OperatorHoldsGroup, IsGeneral, Uses
    <3>1. CASE m = nd
      BY <3>1, <2>1, <2>2, <2>4, <2>6 DEF OperatorHoldsGroup, TypeOK
    <3>2. CASE m # nd
      BY <3>2, <2>1, <2>2, <2>3, <2>4, <2>5 DEF OperatorHoldsGroup, TypeOK
    <3> QED
      BY <3>1, <3>2
  <2>10. LineageOwned'
    <3>1. S' = Group(nd)' /\ n'[nd] > 0
      BY <2>1, <2>2, <2>5, <2>6 DEF TypeOK
    <3>2. Scxt' \subseteq live'
      BY <2>1, <2>2, <2>4, <2>6 DEF LineageOwned, SessionInv, TypeOK
    <3>3. \A m \in Nodes : n'[m] > 0 => m = nd
      BY <2>1, <2>2, <2>3 DEF TypeOK
    <3> QED
      BY <3>1, <3>2, <3>3 DEF LineageOwned, IsGeneral, Uses
  <2>11. S' # {} /\ NoForeignLineage'
    BY <2>1 DEF SessionInv, NoForeignLineage, OwnLineage
  <2> QED
    BY <2>7, <2>8, <2>9, <2>10, <2>11 DEF SessionInv
<1> QED
  BY <1>1, <1>2

(* The operator never meets a freed structure: with the 1scan property it  *)
(* has but one group, without it every group starts from zeroed ones.      *)
LEMMA OperatorMemory ==
    ASSUME OneAtATime, TypeOK, OneInGroup, OperatorHoldsGroup,
           NEW nd \in Nodes, ~IsGeneral(nd), grp[nd] <= MaxGroups[nd]
    PROVE  mem[nd] \subseteq live
<1>1. CASE n[nd] > 0
  BY <1>1 DEF OperatorHoldsGroup
<1>2. CASE n[nd] = 0 /\ Uses(nd, "manyscan")
  BY <1>2 DEF OperatorHoldsGroup
<1>3. CASE n[nd] = 0 /\ ~Uses(nd, "manyscan")
  <2>1. MaxGroups[nd] <= 1
    BY <1>3, Kinds
  <2>2. grp[nd] = 1
    BY <2>1, ConfAggAssumption DEF OneInGroup, TypeOK
  <2> QED
    BY <2>2, <1>3 DEF OperatorHoldsGroup
<1> QED
  BY <1>1, <1>2, <1>3 DEF TypeOK

(* A tuple for the operator on hierarchical queries. *)
LEMMA AccumulateSession ==
    ASSUME OneAtATime, SessionInv, NEW nd \in Nodes, CanRun(nd),
           ~IsGeneral(nd), grp[nd] <= MaxGroups[nd], accumulate(nd)
    PROVE  SessionInv'
<1>1. CASE Die
  BY <1>1, StopSession DEF Die
<1>2. CASE ~Die
  <2>1. /\ EnterGroupContext
        /\ lin' = [lin EXCEPT ![nd] = lin[nd] \cup {Tag(nd, n[nd] + 1)}]
        /\ mem' = [mem EXCEPT ![nd] = mem[nd] \cup {GroupContext}]
        /\ n' = [n EXCEPT ![nd] = n[nd] + 1]
        /\ UNCHANGED <<S, Scxt, grp, fin, stmt, phase, result>>
    BY <1>2 DEF accumulate
  <2>2. TypeOK /\ phase = "running" /\ OneInGroup /\ OperatorHoldsGroup /\ LineageOwned
    BY Alone DEF SessionInv
  <2>3. \A m \in Nodes \ {nd} : n[m] = 0
    BY <2>2, Alone
  <2>4. /\ groupcxt' \in Nat /\ groupcxt' # NULL
        /\ live' = live \cup {GroupContext} /\ live' \subseteq Nat \ {NULL}
        /\ ncxt' \in Nat /\ GroupContext \in Nat
    BY <2>1, <2>2, EnterContext
  <2>5. /\ Group(nd)' = Group(nd) \cup {Tag(nd, n[nd] + 1)}
        /\ \A m \in Nodes \ {nd} : Group(m)' = Group(m)
        /\ Tag(nd, n[nd] + 1) \in Tags
    BY <2>1, <2>2, GroupGrows
  <2>6. mem[nd] \subseteq live
    BY <2>2, OperatorMemory
  <2>7. TypeOK'
    BY <2>1, <2>2, <2>4, <2>5 DEF TypeOK
  <2>8. OneInGroup'
    BY <2>1, <2>2, <2>3, <2>4 DEF OneInGroup, TypeOK
  <2>9. OperatorHoldsGroup'
    <3> SUFFICES ASSUME NEW m \in Nodes
                 PROVE  /\ ~IsGeneral(m) => lin'[m] = Group(m)'
                        /\ n'[m] > 0 => mem'[m] # {} /\ mem'[m] \subseteq live'
                        /\ n'[m] = 0 /\ grp'[m] = 1 => mem'[m] = {}
                        /\ n'[m] = 0 /\ Uses(m, "manyscan") => mem'[m] = {}
      BY DEF OperatorHoldsGroup, IsGeneral, Uses
    <3>1. CASE m = nd
      BY <3>1, <2>1, <2>2, <2>4, <2>5, <2>6 DEF OperatorHoldsGroup, TypeOK
    <3>2. CASE m # nd
      BY <3>2, <2>1, <2>2, <2>3, <2>4, <2>5 DEF OperatorHoldsGroup, TypeOK
    <3> QED
      BY <3>1, <3>2
  <2>10. LineageOwned'
    <3>1. \A m \in Nodes : IsGeneral(m) => m # nd /\ n[m] = 0 /\ n'[m] = 0
      BY <2>1, <2>2, <2>3 DEF TypeOK
    <3>2. \A m \in Nodes : IsGeneral(m) => mem'[m] = mem[m]
      BY <2>1, <2>2, <3>1 DEF TypeOK
    <3> QED
      BY <2>1, <2>2, <3>1, <3>2 DEF LineageOwned, IsGeneral, Uses, Zeroed
  <2>11. (S = {} => Scxt = {})' /\ NoForeignLineage'
    BY <2>1 DEF SessionInv, NoForeignLineage, OwnLineage
  <2> QED
    BY <2>7, <2>8, <2>9, <2>10, <2>11 DEF SessionInv
<1> QED
  BY <1>1, <1>2

(* An answer without lineage of another group. *)
Sound(nd, got) == got = Group(nd) \/ (got = {NaN} /\ Group(nd) = {})

(* A node that returns the confidence of its group is between groups, and  *)
(* past its first one.                                                     *)
LEMMA ReturnOwn ==
    ASSUME OneAtATime, TypeOK, OneInGroup, NEW nd \in Nodes,
           grp[nd] <= MaxGroups[nd], NEW got, Return(nd, got)
    PROVE  /\ fin' \in [Nodes -> Nat] /\ n' \in [Nodes -> Nat] /\ grp' \in [Nodes -> Nat]
           /\ result' = [got |-> got, want |-> Group(nd)]
           /\ Group(nd) \in SUBSET Tags
           /\ UNCHANGED <<stmt, phase>>
           /\ fin'[nd] = 0 /\ n'[nd] = 0 /\ grp'[nd] >= 2
           /\ \A m \in Nodes \ {nd} : fin'[m] = fin[m] /\ n'[m] = n[m] /\ grp'[m] = grp[m]
           /\ Group(nd)' = {}
           /\ \A m \in Nodes \ {nd} : Group(m)' = Group(m)
<1>1. Len(Aggs[nd]) = 1 /\ fin[nd] = 0 /\ grp[nd] \in Nat /\ grp[nd] >= 1
      /\ n[nd] \in Nat /\ MaxGroups[nd] \in Nat
  BY Kinds, ConfAggAssumption DEF OneInGroup, TypeOK
<1>2. ~(fin[nd] + 1 < Len(Aggs[nd]))
  BY <1>1
<1>3. /\ fin' = [fin EXCEPT ![nd] = 0]
      /\ n' = [n EXCEPT ![nd] = 0]
      /\ grp' = [grp EXCEPT ![nd] = IF n[nd] = 0 THEN MaxGroups[nd] + 1 ELSE grp[nd] + 1]
      /\ result' = [got |-> got, want |-> Group(nd)]
      /\ UNCHANGED <<stmt, phase>>
  BY <1>2 DEF Return
<1>4. Group(nd) \in SUBSET Tags
  BY DEF Group, Tag, Tags, TypeOK
<1>5. /\ fin' \in [Nodes -> Nat] /\ n' \in [Nodes -> Nat] /\ grp' \in [Nodes -> Nat]
      /\ fin'[nd] = 0 /\ n'[nd] = 0 /\ grp'[nd] >= 2
      /\ \A m \in Nodes \ {nd} : fin'[m] = fin[m] /\ n'[m] = n[m] /\ grp'[m] = grp[m]
  BY <1>1, <1>3 DEF TypeOK
<1>6. Group(nd)' = {} /\ \A m \in Nodes \ {nd} : Group(m)' = Group(m)
  BY <1>3, <1>5 DEF Group, Tag
<1> QED
  BY <1>3, <1>4, <1>5, <1>6

(* The group's context is deleted. *)
LEMMA DeleteContext ==
    ASSUME TypeOK, DeleteGroup
    PROVE  groupcxt' \in Nat /\ live' \subseteq Nat \ {NULL} /\ ncxt' \in Nat
BY DEF TypeOK, DeleteGroup, NULL

(* Once its only busy node has returned, a session satisfies the invariant *)
(* however much of the memory is gone.                                     *)
LEMMA AfterReturn ==
    ASSUME OneAtATime, SessionInv, NEW nd \in Nodes, CanRun(nd),
           grp[nd] <= MaxGroups[nd], NEW got, Sound(nd, got), Return(nd, got),
           groupcxt' \in Nat, live' \subseteq Nat \ {NULL}, ncxt' \in Nat,
           (S' = {} /\ Scxt' = {}) \/ UNCHANGED <<S, Scxt>>,
           lin' \in [Nodes -> SUBSET Tags], mem' \in [Nodes -> SUBSET Nat],
           \A m \in Nodes \ {nd} : lin'[m] = lin[m] /\ mem'[m] = mem[m],
           ~IsGeneral(nd) => lin'[nd] = {},
           Uses(nd, "manyscan") => mem'[nd] = {},
           IsGeneral(nd) => mem'[nd] = mem[nd] /\ (S' = {} \/ n[nd] = 0)
    PROVE  SessionInv' /\ (got = Group(nd) => OwnLineage')
<1>1. TypeOK /\ phase = "running" /\ OneInGroup /\ OperatorHoldsGroup /\ LineageOwned
  BY Alone DEF SessionInv
<1>2. \A m \in Nodes \ {nd} : n[m] = 0 /\ fin[m] = 0
  BY <1>1, Alone
<1>3. /\ fin' \in [Nodes -> Nat] /\ n' \in [Nodes -> Nat] /\ grp' \in [Nodes -> Nat]
      /\ result' = [got |-> got, want |-> Group(nd)]
      /\ Group(nd) \in SUBSET Tags
      /\ UNCHANGED <<stmt, phase>>
      /\ fin'[nd] = 0 /\ n'[nd] = 0 /\ grp'[nd] >= 2
      /\ \A m \in Nodes \ {nd} : fin'[m] = fin[m] /\ n'[m] = n[m] /\ grp'[m] = grp[m]
      /\ Group(nd)' = {}
      /\ \A m \in Nodes \ {nd} : Group(m)' = Group(m)
  BY <1>1, ReturnOwn
<1>4. TypeOK'
  <2>1. result' \in [got : SUBSET (Tags \cup {Garbage, NaN}), want : SUBSET Tags]
    BY <1>3 DEF Sound
  <2> QED
    BY <1>1, <1>3, <2>1 DEF TypeOK
<1>5. OneInGroup'
  BY <1>1, <1>2, <1>3 DEF OneInGroup
<1>6. OperatorHoldsGroup'
  <2> SUFFICES ASSUME NEW m \in Nodes
               PROVE  /\ ~IsGeneral(m) => lin'[m] = Group(m)'
                      /\ n'[m] > 0 => mem'[m] # {} /\ mem'[m] \subseteq live'
                      /\ n'[m] = 0 /\ grp'[m] = 1 => mem'[m] = {}
                      /\ n'[m] = 0 /\ Uses(m, "manyscan") => mem'[m] = {}
    BY DEF OperatorHoldsGroup, IsGeneral, Uses
  <2>1. CASE m = nd
    BY <2>1, <1>3
  <2>2. CASE m # nd
    BY <2>2, <1>1, <1>2, <1>3 DEF OperatorHoldsGroup
  <2> QED
    BY <2>1, <2>2
<1>7. LineageOwned'
  <2>1. \A m \in Nodes : n'[m] = 0
    BY <1>2, <1>3
  <2>2. S' = {} \/ \A m \in Nodes : IsGeneral(m) => mem'[m] = {}
    <3>1. CASE S' = {}
      BY <3>1
    <3>2. CASE S' # {}
      <4>1. S' = S /\ (IsGeneral(nd) => n[nd] = 0)
        BY <3>2
      <4>2. \A m \in Nodes : IsGeneral(m) => n[m] = 0
        BY <4>1, <1>2
      <4>3. \A m \in Nodes : IsGeneral(m) => Zeroed(m)
        BY <4>1, <4>2, <3>2, <1>1 DEF LineageOwned
      <4> QED
        BY <4>3 DEF Zeroed
    <3> QED
      BY <3>1, <3>2
  <2> QED
    BY <2>1, <2>2 DEF LineageOwned, IsGeneral, Uses, Zeroed
<1>8. (S = {} => Scxt = {})'
  BY DEF SessionInv
<1>9. NoForeignLineage' /\ (got = Group(nd) => OwnLineage')
  BY <1>3 DEF Sound, NoForeignLineage, OwnLineage
<1> QED
  BY <1>4, <1>5, <1>6, <1>7, <1>8, <1>9 DEF SessionInv

(* What a general node finds in S when it has a group, and when not. *)
LEMMA LineageFound ==
    ASSUME SessionInv, phase = "running", NEW nd \in Nodes, IsGeneral(nd),
           n[nd] > 0 \/ grp[nd] = 1,
           \A m \in Nodes \ {nd} : n[m] = 0,
           S = {} \/ ~Zeroed(nd)
    PROVE  Lineage(nd) = Group(nd) /\ (n[nd] > 0 => S # {})
<1>1. TypeOK /\ OneInGroup /\ OperatorHoldsGroup /\ LineageOwned
  BY DEF SessionInv
<1>2. CASE n[nd] > 0
  <2>1. mem[nd] \subseteq live /\ Scxt \subseteq live /\ S = Group(nd)
    BY <1>1, <1>2 DEF OperatorHoldsGroup, LineageOwned
  <2>2. Tag(nd, 1) \in Group(nd)
    BY <1>1, <1>2 DEF Group, TypeOK
  <2> QED
    BY <2>1, <2>2 DEF Lineage, Read
<1>3. CASE ~(n[nd] > 0)
  <2>1. n[nd] = 0 /\ mem[nd] = {}
    BY <1>1, <1>3 DEF OperatorHoldsGroup, TypeOK
  <2>2. S = {} /\ Scxt = {}
    BY <2>1 DEF SessionInv, Zeroed
  <2>3. Group(nd) = {}
    BY <2>1 DEF Group
  <2> QED
    BY <2>1, <2>2, <2>3 DEF Lineage, Read
<1> QED
  BY <1>2, <1>3

(* Without a context the final functions return 0, over no tuple. *)
LEMMA NoTupleSession ==
    ASSUME OneAtATime, SessionInv, NEW nd \in Nodes, CanRun(nd),
           grp[nd] <= MaxGroups[nd], NoTuple(nd)
    PROVE  SessionInv' /\ OwnLineage'
<1>1. TypeOK /\ phase = "running" /\ OneInGroup /\ OperatorHoldsGroup
  BY Alone DEF SessionInv
<1>2. n[nd] = 0
  BY <1>1 DEF NoTuple, OneInGroup, TypeOK
<1>3. Group(nd) = {}
  BY <1>2 DEF Group
<1>4. Return(nd, {}) /\ Sound(nd, {})
  BY <1>3 DEF NoTuple, Sound
<1>5. Uses(nd, "manyscan") => mem[nd] = {}
  BY <1>1, <1>2 DEF OperatorHoldsGroup
<1>6. ~IsGeneral(nd) => lin[nd] = {}
  BY <1>1, <1>3 DEF OperatorHoldsGroup
<1>7. UNCHANGED <<groupcxt, live, ncxt, S, Scxt, lin, mem>>
  BY DEF NoTuple, globals
<1> QED
  BY <1>1, <1>2, <1>3, <1>4, <1>5, <1>6, <1>7, AfterReturn DEF TypeOK

(* An error in the final function after it has cleared the globals. *)
LEMMA ClearedSession ==
    ASSUME SessionInv, DeleteGroup, ForgetLineage, Abort
    PROVE  SessionInv' /\ UNCHANGED result
<1>1. TypeOK'
  BY DeleteContext DEF SessionInv, TypeOK, ForgetLineage, Abort
<1>2. phase' = "idle" /\ (S = {} => Scxt = {})' /\ NoForeignLineage'
  BY DEF ForgetLineage, Abort, SessionInv, NoForeignLineage, OwnLineage
<1> QED
  BY <1>1, <1>2 DEF SessionInv, Abort

(* The common part of the final functions over S. *)
LEMMA ComputeSession ==
    ASSUME OneAtATime, SessionInv, NEW nd \in Nodes, CanRun(nd),
           grp[nd] <= MaxGroups[nd], IsGeneral(nd),
           NEW got, Compute(nd, got),
           S = {} \/ ~Zeroed(nd) => Sound(nd, got)
    PROVE  /\ SessionInv'
           /\ UNCHANGED result \/ ((S = {} \/ ~Zeroed(nd)) /\ (got = Group(nd) => OwnLineage'))
<1>1. TypeOK /\ phase = "running"
  BY Alone DEF SessionInv
<1>2. ~Uses(nd, "manyscan")
  BY Kinds DEF GeneralKinds
<1>3. CASE Abort /\ UNCHANGED globals
  BY <1>3, StopSession DEF Abort
<1>4. CASE Die
  BY <1>4, StopSession DEF Die
<1>5. CASE /\ S = {} \/ ~Zeroed(nd)
           /\ Return(nd, got)
           /\ DeleteGroup /\ ForgetLineage
           /\ UNCHANGED <<lin, mem>>
  <2>1. Sound(nd, got)
    BY <1>5
  <2>2. groupcxt' \in Nat /\ live' \subseteq Nat \ {NULL} /\ ncxt' \in Nat
    BY <1>1, <1>5, DeleteContext
  <2>3. SessionInv' /\ (got = Group(nd) => OwnLineage')
    BY <1>1, <1>2, <1>5, <2>1, <2>2, AfterReturn DEF ForgetLineage, TypeOK
  <2> QED
    BY <1>5, <2>3
<1> QED
  BY <1>3, <1>4, <1>5 DEF Compute

(* The final functions over S.  Only aconf_final can return anything but   *)
(* the confidence of its own group, and only when it has no tuple.         *)
LEMMA FinalGeSession ==
    ASSUME OneAtATime, SessionInv, NEW nd \in Nodes, CanRun(nd),
           n[nd] > 0 \/ grp[nd] = 1, grp[nd] <= MaxGroups[nd], IsGeneral(nd),
           \/ conf_final_ge(nd)
           \/ conf_appro_final_ge(nd)
           \/ aconf_final(nd) /\ Uses(nd, "aconf")
    PROVE  /\ SessionInv'
           /\ OwnLineage /\ (Uses(nd, "aconf") => groupcxt = NULL \/ n[nd] > 0)
                => OwnLineage'
<1> DEFINE Safe == Uses(nd, "aconf") => groupcxt = NULL \/ n[nd] > 0
<1>1. TypeOK /\ phase = "running" /\ \A m \in Nodes \ {nd} : n[m] = 0
  BY Alone DEF SessionInv
<1>2. S = {} \/ ~Zeroed(nd) => Lineage(nd) = Group(nd) /\ (n[nd] > 0 => S # {})
  BY <1>1, LineageFound
<1>3. UNCHANGED result => (OwnLineage => OwnLineage')
  BY DEF OwnLineage
<1>4. CASE NoTuple(nd)
  BY <1>4, NoTupleSession
<1>5. CASE DeleteGroup /\ ForgetLineage /\ Abort
  BY <1>5, <1>3, ClearedSession
<1>6. CASE Die
  BY <1>6, <1>3, StopSession DEF Die
<1>7. CASE Compute(nd, Lineage(nd))
  <2>1. S = {} \/ ~Zeroed(nd) => Sound(nd, Lineage(nd))
    BY <1>2 DEF Sound
  <2>2. SessionInv' /\ (UNCHANGED result \/ OwnLineage')
    <3>1. /\ SessionInv'
          /\ UNCHANGED result
             \/ ((S = {} \/ ~Zeroed(nd)) /\ (Lineage(nd) = Group(nd) => OwnLineage'))
      BY <1>7, <2>1, ComputeSession
    <3> QED
      BY <3>1, <1>2
  <2> QED
    BY <2>2, <1>3
<1>8. CASE /\ Uses(nd, "aconf") /\ groupcxt # NULL
           /\ Compute(nd, IF S = {} THEN {NaN} ELSE Lineage(nd))
  <2> DEFINE got == IF S = {} THEN {NaN} ELSE Lineage(nd)
  <2>1. S = {} \/ ~Zeroed(nd) => Sound(nd, got) /\ (n[nd] > 0 => got = Group(nd))
    <3>1. n[nd] = 0 => Group(nd) = {}
      BY DEF Group
    <3>2. n[nd] > 0 \/ n[nd] = 0
      BY <1>1 DEF TypeOK
    <3> QED
      BY <1>2, <3>1, <3>2 DEF Sound
  <2>2. Compute(nd, got)
    BY <1>8
  <2> HIDE DEF got
  <2>3. /\ SessionInv'
        /\ UNCHANGED result \/ ((S = {} \/ ~Zeroed(nd)) /\ (got = Group(nd) => OwnLineage'))
    BY <2>1, <2>2, ComputeSession
  <2>4. SessionInv' /\ (UNCHANGED result \/ (n[nd] > 0 => OwnLineage'))
    BY <2>1, <2>3
  <2> QED
    BY <2>4, <1>3, <1>8
<1> QED
  <2>1. CASE conf_final_ge(nd)
    BY <2>1, <1>4, <1>7 DEF conf_final_ge
  <2>2. CASE conf_appro_final_ge(nd)
    BY <2>2, <1>4, <1>5, <1>6, <1>7 DEF conf_appro_final_ge
  <2>3. CASE aconf_final(nd) /\ Uses(nd, "aconf")
    <3>1. NoTuple(nd) \/ (groupcxt # NULL /\ Compute(nd, IF S = {} THEN {NaN} ELSE Lineage(nd)))
      BY <2>3 DEF aconf_final, Compute
    <3> QED
      BY <2>3, <3>1, <1>4, <1>8
  <2> QED
    BY <2>1, <2>2, <2>3

(* The final function of the operator on hierarchical queries. *)
LEMMA FinalSession ==
    ASSUME OneAtATime, SessionInv, NEW nd \in Nodes, CanRun(nd),
           n[nd] > 0 \/ grp[nd] = 1, grp[nd] <= MaxGroups[nd],
           ~IsGeneral(nd), conf_final(nd)
    PROVE  SessionInv' /\ (OwnLineage => OwnLineage')
<1>1. TypeOK /\ phase = "running" /\ OneInGroup /\ OperatorHoldsGroup /\ LineageOwned
  BY Alone DEF SessionInv
<1>2. lin[nd] = Group(nd)
  BY <1>1 DEF OperatorHoldsGroup
<1>3. CASE groupcxt = NULL /\ Return(nd, {}) /\ UNCHANGED <<globals, lin, mem>>
  <2>1. NoTuple(nd)
    BY <1>3 DEF NoTuple
  <2> QED
    BY <2>1, NoTupleSession
<1>4. CASE Die
  BY <1>4, StopSession DEF Die, OwnLineage
<1>5. CASE /\ lin[nd] # {}
           /\ Return(nd, Read(mem[nd], lin[nd]))
           /\ DeleteGroup
           /\ lin' = [lin EXCEPT ![nd] = {}]
           /\ mem' = IF Uses(nd, "onescan") THEN mem ELSE [mem EXCEPT ![nd] = {}]
           /\ UNCHANGED <<S, Scxt>>
  <2>1. n[nd] > 0
    BY <1>1, <1>2, <1>5 DEF Group, TypeOK
  <2>2. Return(nd, Group(nd)) /\ Sound(nd, Group(nd))
    <3>1. mem[nd] \subseteq live
      BY <1>1, <2>1 DEF OperatorHoldsGroup
    <3> QED
      BY <3>1, <1>2, <1>5 DEF Read, Sound
  <2>3. groupcxt' \in Nat /\ live' \subseteq Nat \ {NULL} /\ ncxt' \in Nat
    BY <1>1, <1>5, DeleteContext
  <2>4. Uses(nd, "manyscan") => ~Uses(nd, "onescan")
    BY Kinds
  <2>5. /\ lin' \in [Nodes -> SUBSET Tags] /\ mem' \in [Nodes -> SUBSET Nat]
        /\ \A m \in Nodes \ {nd} : lin'[m] = lin[m] /\ mem'[m] = mem[m]
        /\ lin'[nd] = {}
        /\ Uses(nd, "manyscan") => mem'[nd] = {}
    BY <1>1, <1>5, <2>4 DEF TypeOK
  <2> QED
    BY <1>5, <2>2, <2>3, <2>5, AfterReturn
<1> QED
  BY <1>3, <1>4, <1>5 DEF conf_final

-----------------------------------------------------------------------------
(* The final functions, told apart by the kind of the aggregate. *)
LEMMA FinalStep ==
    ASSUME OneAtATime, SessionInv, NEW nd \in Nodes, finalize_aggregates(nd)
    PROVE  /\ SessionInv'
           /\ OwnLineage /\ (Uses(nd, "aconf") => groupcxt = NULL \/ n[nd] > 0)
                => OwnLineage'
<1>1. fin[nd] = 0
  BY Alone DEF finalize_aggregates, SessionInv, OneInGroup, CanRun
<1>2. CanRun(nd) /\ (n[nd] > 0 \/ grp[nd] = 1) /\ grp[nd] <= MaxGroups[nd]
  BY DEF finalize_aggregates
<1>3. CASE IsGeneral(nd)
  <2>1. \/ conf_final_ge(nd)
        \/ conf_appro_final_ge(nd)
        \/ aconf_final(nd) /\ Uses(nd, "aconf")
    BY <1>1, <1>3, Kinds DEF finalize_aggregates, GeneralKinds
  <2> QED
    BY <1>2, <1>3, <2>1, FinalGeSession
<1>4. CASE ~IsGeneral(nd)
  <2>1. conf_final(nd)
    BY <1>1, <1>4, Kinds DEF finalize_aggregates, GeneralKinds
  <2> QED
    BY <1>2, <1>4, <2>1, FinalSession
<1> QED
  BY <1>3, <1>4

(* Only the final functions return a confidence. *)
LEMMA OtherSteps ==
    ASSUME [Next]_vars, \A nd \in Nodes : ~finalize_aggregates(nd)
    PROVE  OwnLineage => OwnLineage'
<1>1. UNCHANGED result
  BY DEF Next, vars, ExecInitAgg, EndStatement, Interrupt, Abort, Restart, product_ge,
         advance_aggregates, accum, accumulate, Die
<1> QED
  BY <1>1 DEF OwnLineage

(* Every step of a session keeps the invariant. *)
LEMMA SessionStep ==
    ASSUME OneAtATime, SessionInv, [Next]_vars
    PROVE  SessionInv'
<1>1. CASE ExecInitAgg
  BY <1>1, BeginSession
<1>2. CASE EndStatement
  BY <1>2, StopSession DEF EndStatement
<1>3. CASE Interrupt
  BY <1>3, StopSession DEF Interrupt, Abort
<1>4. CASE Restart
  <2>1. TypeOK'
    BY <1>4 DEF Restart, SessionInv, TypeOK, NULL
  <2> QED
    BY <1>4, <2>1 DEF Restart, SessionInv, NoForeignLineage, OwnLineage
<1>5. CASE product_ge
  <2>1. /\ TypeOK /\ phase = "running" /\ OneInGroup /\ OperatorHoldsGroup /\ LineageOwned
        /\ \A nd \in Nodes : n[nd] = 0
    BY <1>5 DEF product_ge, SessionInv, OneAtATime, InGroup, TypeOK
  <2>2. TypeOK'
    BY <1>5, <2>1 DEF product_ge, TypeOK, NULL
  <2>3. OneInGroup' /\ OperatorHoldsGroup' /\ LineageOwned'
    BY <1>5, <2>1 DEF product_ge, OneInGroup, OperatorHoldsGroup, LineageOwned,
                      Zeroed, Group, Tag, IsGeneral, Uses
  <2> QED
    BY <1>5, <2>2, <2>3 DEF product_ge, SessionInv, NoForeignLineage, OwnLineage
<1>6. ASSUME NEW nd \in Nodes, advance_aggregates(nd)
      PROVE  SessionInv'
  BY <1>6, AccumSession, AccumulateSession DEF advance_aggregates
<1>7. ASSUME NEW nd \in Nodes, finalize_aggregates(nd)
      PROVE  SessionInv'
  BY <1>7, FinalStep
<1>8. CASE UNCHANGED vars
  BY <1>8 DEF vars, SessionInv, TypeOK, OneInGroup, OperatorHoldsGroup, LineageOwned,
              NoForeignLineage, OwnLineage, Zeroed, Group, Tag, IsGeneral, Uses
<1> QED
  BY <1>1, <1>2, <1>3, <1>4, <1>5, <1>6, <1>7, <1>8 DEF Next

(* In a session whose statements have one confidence function per select,  *)
(* evaluated one at a time, SessionInv holds: what an aborted statement    *)
(* left in S and groupcxt is never taken for the lineage of another group. *)
THEOREM SessionInvariant ==
    ASSUME OneAtATime PROVE Spec => []SessionInv
<1>1. Init => SessionInv
  BY InitSession
<1>2. SessionInv /\ [Next]_vars => SessionInv'
  BY SessionStep
<1> QED
  BY <1>1, <1>2, PTL DEF Spec

(* Whatever cancelled statements leave in S and groupcxt, no confidence is *)
(* computed from the lineage of another group (conf_final_ge, aconf_final, *)
(* conf_appro_final_ge, conf_final): the one wrong answer is NaN, for an   *)
(* aconf over no tuple.                                                    *)
THEOREM LeftoversAreNotLineage ==
    ASSUME OneAtATime PROVE Spec => []NoForeignLineage
<1>1. SessionInv => NoForeignLineage
  BY DEF SessionInv
<1> QED
  BY <1>1, SessionInvariant, PTL

(* Fail-stop without aconf: every confidence that conf() and               *)
(* conf(approach, epsilon) return is that of the group, although cancelled *)
(* statements leave S and groupcxt behind.                                 *)
THEOREM FailStop ==
    ASSUME OneAtATime, \A nd \in Nodes : ~Uses(nd, "aconf")
    PROVE  Spec => []OwnLineage
<1>1. Init => SessionInv /\ OwnLineage
  BY InitSession DEF Init, OwnLineage
<1>2. SessionInv /\ OwnLineage /\ [Next]_vars => (SessionInv /\ OwnLineage)'
  <2> SUFFICES ASSUME SessionInv, OwnLineage, [Next]_vars
               PROVE  SessionInv' /\ OwnLineage'
    OBVIOUS
  <2>1. CASE \E nd \in Nodes : finalize_aggregates(nd)
    BY <2>1, FinalStep
  <2>2. CASE \A nd \in Nodes : ~finalize_aggregates(nd)
    BY <2>2, SessionStep, OtherSteps
  <2> QED
    BY <2>1, <2>2
<1> QED
  BY <1>1, <1>2, PTL DEF Spec

-----------------------------------------------------------------------------
(* A node that is inside a group is the one that runs. *)
LEMMA BusyNode ==
    ASSUME OneAtATime, CleanInv, NEW nd \in Nodes, CanRun(nd)
    PROVE  /\ groupcxt = NULL <=> n[nd] = 0
           /\ S # {} => IsGeneral(nd) /\ n[nd] > 0
           /\ TypeOK /\ phase = "running"
           /\ OneInGroup /\ OperatorHoldsGroup /\ LineageOwned
<1>1. /\ TypeOK /\ phase = "running" /\ OneInGroup /\ OperatorHoldsGroup /\ LineageOwned
      /\ \A m \in Nodes \ {nd} : n[m] = 0
  BY Alone DEF CleanInv, SessionInv
<1>2. groupcxt # NULL => n[nd] > 0
  BY <1>1 DEF CleanInv
<1>3. n[nd] > 0 => groupcxt # NULL
  BY <1>1 DEF OneInGroup
<1>4. S # {} => IsGeneral(nd) /\ n[nd] > 0
  BY <1>1 DEF CleanInv
<1> QED
  BY <1>1, <1>2, <1>3, <1>4 DEF TypeOK

(* A node that returns leaves clean globals. *)
LEMMA CleanGlobals ==
    ASSUME SessionInv', OwnLineage', groupcxt' = NULL, S' = {}, live' = {}, phase' # "dead"
    PROVE  CleanInv'
BY DEF CleanInv, NoFault

(* Every step of a session without aborts leaves the globals clean. *)
LEMMA CleanStep ==
    ASSUME OneAtATime, Env \subseteq {"approach_error"}, CleanInv, [Next]_vars
    PROVE  CleanInv'
<1> SessionInv /\ SessionInv'
  BY SessionStep DEF CleanInv
<1> OwnLineage'
  <2>1. CASE \A nd \in Nodes : ~finalize_aggregates(nd)
    BY <2>1, OtherSteps DEF CleanInv
  <2>2. ASSUME NEW nd \in Nodes, finalize_aggregates(nd)
        PROVE  OwnLineage'
    <3>1. groupcxt = NULL \/ n[nd] > 0
      BY <2>2, BusyNode DEF finalize_aggregates, TypeOK
    <3> QED
      BY <2>2, <3>1, FinalStep DEF CleanInv
  <2> QED
    BY <2>1, <2>2
<1>1. CASE ExecInitAgg
  <2>1. groupcxt = NULL /\ S = {} /\ live = {}
    BY <1>1 DEF CleanInv, ExecInitAgg
  <2> QED
    BY <1>1, <2>1, CleanGlobals DEF ExecInitAgg, globals
<1>2. CASE EndStatement
  <2>1. \A nd \in Nodes : ~(n[nd] > 0)
    BY <1>2 DEF EndStatement, InGroup
  <2>2. groupcxt = NULL /\ S = {} /\ live = {}
    BY <2>1 DEF CleanInv
  <2> QED
    BY <1>2, <2>2, CleanGlobals DEF EndStatement, globals
<1>3. ~Interrupt /\ ~Restart
  BY DEF Interrupt, Restart, CleanInv, NoFault
<1>4. CASE product_ge
  <2>1. \A nd \in Nodes : ~(n[nd] > 0)
    BY <1>4 DEF product_ge, InGroup, OneAtATime
  <2>2. groupcxt = NULL /\ S = {} /\ live = {} /\ phase # "dead"
    BY <2>1 DEF CleanInv, NoFault
  <2> QED
    BY <1>4, <2>2, CleanGlobals DEF product_ge
<1>5. ASSUME NEW nd \in Nodes, advance_aggregates(nd)
      PROVE  CleanInv'
  <2>1. /\ groupcxt = NULL <=> n[nd] = 0
        /\ S # {} => IsGeneral(nd) /\ n[nd] > 0
        /\ TypeOK /\ phase = "running"
        /\ OneInGroup /\ OperatorHoldsGroup /\ LineageOwned
    BY <1>5, BusyNode DEF advance_aggregates
  <2>2. /\ EnterGroupContext /\ UNCHANGED phase
        /\ n' = [n EXCEPT ![nd] = n[nd] + 1]
        /\ IsGeneral(nd) \/ UNCHANGED S
    <3>1. CASE IsGeneral(nd)
      <4>1. ~(S # {} /\ (Zeroed(nd) \/ Dangling(nd) \/ DanglingS))
        BY <2>1, <3>1 DEF OperatorHoldsGroup, LineageOwned, Zeroed, Dangling, DanglingS
      <4> QED
        BY <4>1, <1>5, <3>1 DEF advance_aggregates, accum
    <3>2. CASE ~IsGeneral(nd)
      <4>1. ~Dangling(nd)
        BY <1>5, <2>1, <3>2, OperatorMemory DEF advance_aggregates, Dangling
      <4> QED
        BY <4>1, <1>5, <3>2 DEF advance_aggregates, accumulate
    <3> QED
      BY <3>1, <3>2
  <2>3. n'[nd] > 0
    BY <2>1, <2>2 DEF TypeOK
  <2>4. groupcxt' # NULL /\ live' = {groupcxt'}
    <3>1. groupcxt' = GroupContext /\ groupcxt' # NULL /\ live' = live \cup {GroupContext}
      BY <2>1, <2>2, EnterContext
    <3>2. live = {} \/ live = {GroupContext}
      BY DEF GroupContext, CleanInv
    <3> QED
      BY <3>1, <3>2
  <2>5. S' # {} => IsGeneral(nd)
    BY <2>1, <2>2
  <2>6. NoFault' /\ phase' = "running"
    BY <2>1, <2>2 DEF NoFault
  <2> QED
    BY <2>3, <2>4, <2>5, <2>6 DEF CleanInv, IsGeneral, Uses
<1>6. ASSUME NEW nd \in Nodes, finalize_aggregates(nd)
      PROVE  CleanInv'
  <2>1. /\ groupcxt = NULL <=> n[nd] = 0
        /\ S # {} => IsGeneral(nd) /\ n[nd] > 0
        /\ TypeOK /\ phase = "running"
        /\ OneInGroup /\ OperatorHoldsGroup /\ LineageOwned
    BY <1>6, BusyNode DEF finalize_aggregates
  <2>2. fin[nd] = 0
    BY <2>1 DEF OneInGroup
  <2>3. CASE IsGeneral(nd)
    <3>1. \/ NoTuple(nd)
          \/ groupcxt # NULL /\ DeleteGroup /\ ForgetLineage /\ Abort
          \/ groupcxt # NULL /\ n[nd] = 0
          \/ \E got : groupcxt # NULL /\ Compute(nd, got)
      <4>1. conf_final_ge(nd) \/ aconf_final(nd) \/ conf_appro_final_ge(nd)
        BY <1>6, <2>2, <2>3, Kinds DEF finalize_aggregates, GeneralKinds
      <4> QED
        BY <4>1 DEF conf_final_ge, aconf_final, conf_appro_final_ge, Compute
    <3>2. CASE groupcxt = NULL
      <4>1. Return(nd, {}) /\ UNCHANGED globals
        BY <3>1, <3>2 DEF NoTuple
      <4> QED
        BY <3>2, <4>1, <2>1, CleanGlobals DEF Return, globals, CleanInv
    <3>3. CASE groupcxt # NULL
      <4>1. ~(S # {} /\ (Zeroed(nd) \/ Dangling(nd) \/ DanglingS))
        BY <2>1, <2>3 DEF OperatorHoldsGroup, LineageOwned, Zeroed, Dangling, DanglingS
      <4>2. n[nd] # 0
        BY <2>1, <3>3
      <4>3. DeleteGroup /\ ForgetLineage /\ phase' # "dead"
        BY <3>1, <3>3, <4>1, <4>2, <2>1 DEF NoTuple, Compute, Abort, Return
      <4>4. live' = {} /\ groupcxt' = NULL /\ S' = {}
        BY <3>3, <4>3 DEF DeleteGroup, ForgetLineage, CleanInv
      <4> QED
        BY <4>3, <4>4, CleanGlobals
    <3> QED
      BY <3>2, <3>3
  <2>4. CASE ~IsGeneral(nd)
    <3>1. conf_final(nd) /\ S = {}
      BY <1>6, <2>1, <2>2, <2>4, Kinds DEF finalize_aggregates, GeneralKinds
    <3>2. CASE groupcxt = NULL
      BY <3>1, <3>2, <2>1, CleanGlobals DEF conf_final, Return, globals, CleanInv
    <3>3. CASE groupcxt # NULL
      <4>1. n[nd] > 0
        BY <2>1, <3>3 DEF TypeOK
      <4>2. Tag(nd, 1) \in Group(nd)
        BY <4>1, <2>1 DEF Group, TypeOK
      <4>3. lin[nd] # {} /\ ~Dangling(nd)
        BY <4>1, <4>2, <2>1, <2>4 DEF OperatorHoldsGroup, Dangling
      <4>4. DeleteGroup /\ S' = {} /\ phase' # "dead"
        BY <3>1, <3>3, <4>3, <2>1 DEF conf_final, Return
      <4>5. live' = {} /\ groupcxt' = NULL
        BY <3>3, <4>4 DEF DeleteGroup, CleanInv
      <4> QED
        BY <4>4, <4>5, CleanGlobals
    <3> QED
      BY <3>2, <3>3
  <2> QED
    BY <2>3, <2>4
<1>7. CASE UNCHANGED vars
  BY <1>7 DEF vars, CleanInv, NoFault, IsGeneral, Uses
<1> QED
  BY <1>1, <1>2, <1>3, <1>4, <1>5, <1>6, <1>7 DEF Next

(* Without cancelled statements and errors in getMissingRngs, CleanInv     *)
(* holds: between two groups groupcxt and S are NULL and no context exists. *)
THEOREM CleanInvariant ==
    ASSUME OneAtATime, Env \subseteq {"approach_error"}
    PROVE  Spec => []CleanInv
<1>1. Init => CleanInv
  BY InitClean
<1>2. CleanInv /\ [Next]_vars => CleanInv'
  BY CleanStep
<1> QED
  BY <1>1, <1>2, PTL DEF Spec

(* Then every confidence, aconf included, is that of its own group: the    *)
(* final functions find in S and in the operator's lineage the tuples of   *)
(* the group, all of them and no others.                                   *)
THEOREM OwnLineageInSession ==
    ASSUME OneAtATime, Env \subseteq {"approach_error"}
    PROVE  Spec => []OwnLineage
<1>1. CleanInv => OwnLineage
  BY DEF CleanInv
<1> QED
  BY <1>1, CleanInvariant, PTL

(* Then no transition or final function follows a pointer that is NULL or  *)
(* into a context that MemoryContextDelete has freed.                      *)
THEOREM NoFaultInSession ==
    ASSUME OneAtATime, Env \subseteq {"approach_error"}
    PROVE  Spec => []NoFault
<1>1. CleanInv => NoFault
  BY DEF CleanInv
<1> QED
  BY <1>1, CleanInvariant, PTL

(* Then the final functions are right to return 0 when groupcxt is NULL:   *)
(* it is NULL exactly when the group of the node has no tuple.             *)
THEOREM EmptyGroupsOnly ==
    ASSUME OneAtATime, Env \subseteq {"approach_error"}
    PROVE  Spec => []NullMeansNoTuple
<1>1. CleanInv => NullMeansNoTuple
  BY BusyNode DEF NullMeansNoTuple
<1> QED
  BY <1>1, CleanInvariant, PTL

(* Then nothing is left in the globals when a statement is over, the error *)
(* of an unknown approach included.                                        *)
THEOREM CleanSession ==
    ASSUME OneAtATime, Env \subseteq {"approach_error"}
    PROVE  Spec => []CleanWhenIdle
<1>1. CleanInv => CleanWhenIdle
  BY DEF CleanInv, CleanWhenIdle
<1> QED
  BY <1>1, CleanInvariant, PTL
==============================================================================
