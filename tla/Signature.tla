------------------------------ MODULE Signature ------------------------------
(***************************************************************************)
(* Signatures of hierarchical queries (signature.c): the subgoal lists of  *)
(* the equality joins of a where clause, the subgoal tree over them, and   *)
(* the signature tree that the SPROUT operator works along.                *)
(*                                                                         *)
(* A query is a record: from is the sequence of its (base) relations, and  *)
(* joins the sequence of its equalities, each a pair of columns <<k, a>>,  *)
(* attribute a of the k-th relation of the from clause.  Trees are values; *)
(* where the code changes nodes in place, an operator returns a new tree.  *)
(***************************************************************************)
EXTENDS Naturals, Sequences, FiniteSets, SequencesExt

CONSTANTS
    Attrs,     \* the attributes of each base relation
    Keys       \* the attributes of its primary key ({} when there is none)

ASSUME SignatureAssumption == \A b \in DOMAIN Attrs : Keys[b] \subseteq Attrs[b]

NOTAGGREGATED == 0
AGGREGATED == 1

(* the condition columns that a tuple-independent relation has besides its *)
(* attributes                                                              *)
ConditionColumns == 3

-----------------------------------------------------------------------------
(* Subgoal lists *)

(* One equality: its columns join the first list that has one of them, or  *)
(* become a list of their own in front of the others.  (Two lists that an  *)
(* equality connects are not merged.)                                      *)
AddEquality(list, eq) ==
    LET k == SelectInSeq(list, LAMBDA sgs : Contains(sgs, eq[1]) \/ Contains(sgs, eq[2]))
    IN  IF k = 0 THEN <<eq>> \o list
        ELSE [list EXCEPT ![k] =
                 @ \o SelectSeq(eq, LAMBDA c : ~Contains(list[k], c))]

geneSGList(q) == FoldLeft(AddEquality, <<>>, q.joins)

(* Two subgoals are the same when their relations are. *)
sgInsgList(sg, sgs) == \E k \in DOMAIN sgs : sgs[k][1] = sg[1]

(* How the relations of two lists compare.  A list may have several        *)
(* columns of a relation; then all of l1 may be in a shorter l2, which is  *)
(* none of the five relations.                                             *)
sgListcmp(l1, l2) ==
    LET joint == Cardinality({k \in DOMAIN l1 : sgInsgList(l1[k], l2)})
    IN  CASE joint = Len(l1) /\ joint = Len(l2) -> "EQUAL"
          [] joint = Len(l1) /\ joint < Len(l2) -> "LESS"
          [] joint = Len(l2) /\ joint < Len(l1) -> "GREAT"
          [] joint = 0 -> "DISJOINT"
          [] joint # 0 /\ joint # Len(l1) /\ joint # Len(l2) -> "INTERSECT"
          [] OTHER -> "UNKNOWCMP"

isHQ(list) == \A i, j \in DOMAIN list : i < j => sgListcmp(list[i], list[j]) # "INTERSECT"

sameLists(list) == \A i, j \in DOMAIN list : i < j => sgListcmp(list[i], list[j]) = "EQUAL"

-----------------------------------------------------------------------------
(* The subgoal tree *)

IsMaximal(list, l) == \A j \in DOMAIN list : sgListcmp(l, list[j]) # "LESS"

(* The maximal lists, in the reverse of their order. *)
findMax(list) == Reverse(SelectSeq(list, LAMBDA l : IsMaximal(list, l)))
NotMaximal(list) == SelectSeq(list, LAMBDA l : ~IsMaximal(list, l))

(* The lists are taken apart into sets that share relations with their     *)
(* first list.                                                             *)
RECURSIVE findDisjoint(_)
findDisjoint(list) ==
    IF list = <<>> THEN <<>>
    ELSE <<Reverse(SelectSeq(list, LAMBDA l : sgListcmp(list[1], l) # "DISJOINT"))>>
         \o findDisjoint(SelectSeq(list, LAMBDA l : sgListcmp(list[1], l) = "DISJOINT"))

RECURSIVE buildSGTree(_, _)
buildSGTree(list, parentSGListCount) ==
    IF sameLists(list)
    THEN [sglist |-> list, attrCount |-> Len(list) + parentSGListCount, child |-> <<>>]
    ELSE LET max   == findMax(list)
             count == Len(max) + parentSGListCount
             parts == findDisjoint(NotMaximal(list))
         IN  [sglist |-> max, attrCount |-> count,
              child |-> [k \in DOMAIN parts |-> buildSGTree(parts[k], count)]]

-----------------------------------------------------------------------------
(* The signature tree *)

InnerNode(children) ==
    [isLeaf |-> FALSE, withStar |-> FALSE, rel |-> 0, pos |-> 0, domain |-> 0,
     varsToCombine |-> 0, type |-> NOTAGGREGATED, pt |-> <<>>, child |-> children]

LeafNode(rel, star) ==
    [InnerNode(<<>>) EXCEPT !.isLeaf = TRUE, !.withStar = star, !.rel = rel]

(* The attribute is one of those of the primary key. *)
IsPK(q, sg) == sg[2] \in Keys[q.from[sg[1]]]

nattr(q, sg) == Cardinality(Attrs[q.from[sg[1]]]) + ConditionColumns

sgInChildSGLists(sg, sgNode) ==
    \E k \in DOMAIN sgNode.child : sgInsgList(sg, sgNode.child[k].sglist[1])

(* A leaf for every subgoal of the first list that is in no child, then    *)
(* the children.                                                           *)
RECURSIVE buildSigTree(_, _)
buildSigTree(q, sgNode) ==
    IF sgNode.sglist = <<>> THEN InnerNode(<<>>)
    ELSE LET own == SelectSeq(sgNode.sglist[1], LAMBDA sg : ~sgInChildSGLists(sg, sgNode))
             star(sg) == ~(sgNode.attrCount = nattr(q, sg) \/ IsPK(q, sg))
         IN  InnerNode([k \in DOMAIN own |-> LeafNode(own[k][1], star(own[k]))]
                       \o [k \in DOMAIN sgNode.child |-> buildSigTree(q, sgNode.child[k])])

relIsJoined(rel, sgRoot) ==
    sgRoot.sglist # <<>> /\ \E k \in DOMAIN sgRoot.sglist[1] : sgRoot.sglist[1][k][1] = rel

(* The relations that are not joined come first, beside the joined ones. *)
addNonJoinedRelation(q, sgRoot, sigRoot) ==
    LET rest   == SelectSeq([k \in DOMAIN q.from |-> k], LAMBDA k : ~relIsJoined(k, sgRoot))
        leaves == [k \in DOMAIN rest |-> LeafNode(rest[k], TRUE)]
    IN  IF rest = <<>> THEN sigRoot
        ELSE IF sgRoot.attrCount # 0 THEN InnerNode(leaves \o <<sigRoot>>)
        ELSE InnerNode(leaves \o sigRoot.child)

(* fillLeafNode: the leaves, from left to right *)
RECURSIVE fillLeafNode(_)
fillLeafNode(node) ==
    IF node.isLeaf THEN <<node>>
    ELSE FoldLeft(LAMBDA acc, c : acc \o fillLeafNode(c), <<>>, node.child)

leafDescendentCount(node) == Len(fillLeafNode(node))

LeavesOf(nodes) == FoldLeft(LAMBDA n, c : n + leafDescendentCount(c), 0, nodes)

(* The column of a leaf among the condition columns of a tuple *)
RECURSIVE derivePos(_, _)
derivePos(node, n) ==
    IF node.isLeaf THEN [node EXCEPT !.pos = n]
    ELSE [node EXCEPT !.child =
             [k \in DOMAIN @ |-> derivePos(@[k], n + LeavesOf(SubSeq(node.child, 1, k - 1)))]]

(* Mutant: the first child counts itself among its siblings. *)
RECURSIVE calSibDomain_CountsItself(_)
calSibDomain_CountsItself(node) ==
    [node EXCEPT !.child =
        [k \in DOMAIN @ |->
            LET c == calSibDomain_CountsItself(@[k])
            IN  IF k = 1 /\ c.isLeaf
                THEN [c EXCEPT !.varsToCombine = Len(node.child),
                               !.domain = LeavesOf(Tail(node.child))]
                ELSE c]]

(* calSib and calDomain: a first child that is a leaf is told how many     *)
(* siblings it has, and how many leaves are below them.                    *)
RECURSIVE calSibDomain(_)
calSibDomain(node) ==
    [node EXCEPT !.child =
        [k \in DOMAIN @ |->
            LET c == calSibDomain(@[k])
            IN  IF k = 1 /\ c.isLeaf
                THEN [c EXCEPT !.varsToCombine = Len(node.child) - 1,
                               !.domain = LeavesOf(Tail(node.child))]
                ELSE c]]

(* Every node has a first child that is a leaf without a star. *)
RECURSIVE is1Scan(_)
is1Scan(node) ==
    node.isLeaf \/ /\ \A k \in DOMAIN node.child : is1Scan(node.child[k])
                   /\ node.child[1].isLeaf /\ ~node.child[1].withStar

BuildSignature(q) ==
    LET sgRoot == buildSGTree(geneSGList(q), 0)
        sig    == addNonJoinedRelation(q, sgRoot, buildSigTree(q, sgRoot))
    IN  calSibDomain(derivePos(sig, 1))

(* the relations in the order of their columns *)
getVarOrder(sig) == LET l == fillLeafNode(sig) IN [k \in DOMAIN l |-> l[k].rel]
=============================================================================
