-------------------------------- MODULE Argmax --------------------------------
(***************************************************************************)
(* argmax(argument, value) as an aggregate function (argmax.c) in the      *)
(* aggregation node of PostgreSQL (nodeAgg.c).                             *)
(*                                                                         *)
(* The transition value of a call is the argument chosen so far; the       *)
(* greatest value seen so far is kept aside, in an argmaxState with a      *)
(* field for each type of value.  All calls of a query with values of the  *)
(* same type share the field.                                              *)
(***************************************************************************)
EXTENDS Integers, Sequences

CONSTANTS
    Groups,         \* group-by values, integers from 1 on
    Scores,         \* values of the value attributes
    Columns,        \* the value attributes
    Calls,          \* a sequence of [column, type]: the calls in a query
    Strategies,     \* AGG_SORTED, AGG_HASHED (AGG_PLAIN: sorted, one group)
    MaxRows,        \* bound on the rows of the input
    MaxRescanned,   \* the same, for all scans but the first
    MaxScans        \* bound on how often the node is scanned

ASSUME ConstantsAssumption ==
    /\ Groups \subseteq Nat \ {0}
    /\ Scores \subseteq Int
    /\ MaxRows \in Nat /\ MaxRescanned \in 0..MaxRows /\ MaxScans \in Nat
    /\ Calls # <<>> /\ Calls \in Seq([column : Columns, type : STRING])
    /\ Strategies \subseteq {"AGG_SORTED", "AGG_HASHED"}

VARIABLES
    strategy,
    input,          \* the rows in the order in which the subplan returns them
    pos,            \* how many are processed
    call,           \* the next call on row pos + 1, or 0 before the first
    entries,        \* the groups in the hash table
    argmax,         \* the argmaxStates: of the node, and of every hash entry
    pergroup,       \* the transition values: of the node, and of every hash entry
    returned,       \* the groups that are returned
    result,         \* and their arguments
    scans

vars == <<strategy, input, pos, call, entries, argmax, pergroup, returned, result, scans>>

Types == {Calls[k].type : k \in DOMAIN Calls}

(* A row is identified by its position and stands for its argument; Zero   *)
(* is the datum 0, which is what a transition value of NULL is read as.    *)
Zero == 0
TheNode == 0
Places == Groups \cup {TheNode}

Rows == [grp : Groups, score : [Columns -> Scores]]
Inputs(max) == UNION {[1..n -> Rows] : n \in 1..max}
IsSorted(rows) == \A i, j \in DOMAIN rows : i < j => rows[i].grp <= rows[j].grp

palloc0 == [t \in Types |-> 0]

(* initialize_aggregates *)
NoTrans == [k \in DOMAIN Calls |-> Zero]

Init ==
    /\ strategy \in Strategies
    /\ input \in Inputs(MaxRows)
    /\ strategy = "AGG_SORTED" => IsSorted(input)
    /\ pos = 0 /\ call = 0
    /\ entries = {}
    /\ argmax = [s \in Places |-> palloc0]
    /\ pergroup = [s \in Places |-> NoTrans]
    /\ returned = {}
    /\ result = [g \in Groups |-> NoTrans]
    /\ scans = 1

(* Mutant: hash entries use the state of the node. *)
get_argmax_state_Node(g) == TheNode

get_argmax_state(g) == IF strategy = "AGG_HASHED" THEN g ELSE TheNode

Place(g) == IF strategy = "AGG_HASHED" THEN g ELSE TheNode

(* Mutant: the first of equal values is kept. *)
Keeps_First(max, arg2) == max >= arg2

Keeps(max, arg2) == max > arg2

(* Mutant: the maximum is not stored. *)
NewMax_Unchanged(max, arg2) == max

NewMax(max, arg2) == IF Keeps(max, arg2) THEN max ELSE arg2

(* finalize_aggregates and the projection of the group *)
Return(g) ==
    /\ returned' = returned \cup {g}
    /\ result' = [result EXCEPT ![g] = pergroup[Place(g)]]

-----------------------------------------------------------------------------
(* The next row of a hashed aggregation.  A new entry gets transition      *)
(* values and an argmaxState of its own.                                   *)
lookup_hash_entry ==
    /\ strategy = "AGG_HASHED" /\ call = 0 /\ pos < Len(input)
    /\ LET g == input[pos + 1].grp
       IN  /\ entries' = entries \cup {g}
           /\ IF g \in entries THEN UNCHANGED <<argmax, pergroup>>
              ELSE /\ argmax' = [argmax EXCEPT ![g] = palloc0]
                   /\ pergroup' = [pergroup EXCEPT ![g] = NoTrans]
    /\ call' = 1
    /\ UNCHANGED <<strategy, input, pos, returned, result, scans>>

(* The next row of a sorted one.  The first row of another group ends the  *)
(* group before it; the transition values are initialized for the new      *)
(* group, the argmaxState is not.                                          *)
Boundary == pos > 0 /\ input[pos + 1].grp # input[pos].grp

agg_retrieve_direct ==
    /\ strategy = "AGG_SORTED" /\ call = 0 /\ pos < Len(input)
    /\ IF Boundary THEN Return(input[pos].grp) ELSE UNCHANGED <<returned, result>>
    /\ IF pos = 0 \/ Boundary THEN pergroup' = [pergroup EXCEPT ![TheNode] = NoTrans]
       ELSE UNCHANGED pergroup
    /\ call' = 1
    /\ UNCHANGED <<strategy, input, pos, entries, argmax, scans>>

(* One call on the row: argmax_int or argmax_float.  advance_aggregates    *)
(* makes the calls one after the other.                                    *)
accum ==
    LET i    == pos + 1
        g    == input[i].grp
        type == Calls[call].type
        arg2 == input[i].score[Calls[call].column]
        max  == argmax[get_argmax_state(g)][type]
    IN  /\ call # 0
        /\ pergroup' = IF Keeps(max, arg2) THEN pergroup
                       ELSE [pergroup EXCEPT ![Place(g)][call] = i]
        /\ argmax' = [argmax EXCEPT ![get_argmax_state(g)][type] = NewMax(max, arg2)]
        /\ IF call = Len(Calls) THEN call' = 0 /\ pos' = i ELSE call' = call + 1 /\ pos' = pos
        /\ UNCHANGED <<strategy, input, entries, returned, result, scans>>

(* The last group *)
agg_done ==
    /\ strategy = "AGG_SORTED" /\ pos = Len(input)
    /\ input[pos].grp \notin returned
    /\ Return(input[pos].grp)
    /\ UNCHANGED <<strategy, input, pos, call, entries, argmax, pergroup, scans>>

(* The entries are returned one by one, in any order. *)
agg_retrieve_hash_table ==
    /\ strategy = "AGG_HASHED" /\ pos = Len(input)
    /\ \E g \in entries \ returned : Return(g)
    /\ UNCHANGED <<strategy, input, pos, call, entries, argmax, pergroup, scans>>

(* Another scan of the node, after all groups or after some.  If no        *)
(* parameter of the subplan has changed, a hash table is read again;       *)
(* otherwise there are other rows, and the hash table is rebuilt.  The     *)
(* argmaxState of the node is not touched.                                 *)
ExecReScanAgg ==
    /\ scans < MaxScans /\ call = 0
    /\ pos = Len(input) \/ (strategy = "AGG_SORTED" /\ pos < Len(input) /\ Boundary)
    /\ scans' = scans + 1
    /\ returned' = {}
    /\ result' = [g \in Groups |-> NoTrans]
    /\ \/ /\ strategy = "AGG_HASHED"
          /\ UNCHANGED <<input, pos, entries, argmax, pergroup>>
       \/ /\ input' \in Inputs(MaxRescanned)
          /\ strategy = "AGG_SORTED" => IsSorted(input')
          /\ pos' = 0
          /\ entries' = {}
          /\ argmax' = [s \in Places |-> IF s = TheNode THEN argmax[s] ELSE palloc0]
          /\ pergroup' = [s \in Places |-> NoTrans]
    /\ UNCHANGED <<strategy, call>>

Next ==
    \/ lookup_hash_entry
    \/ agg_retrieve_direct
    \/ accum
    \/ agg_done
    \/ agg_retrieve_hash_table
    \/ ExecReScanAgg

Spec == Init /\ [][Next]_vars

-----------------------------------------------------------------------------
(* Properties *)

ScoreOf(i, k) == input[i].score[Calls[k].column]
RowsOf(g) == {i \in DOMAIN input : input[i].grp = g}
IsMaximal(g, k) ==
    /\ result[g][k] \in RowsOf(g)
    /\ \A i \in RowsOf(g) : ScoreOf(i, k) <= ScoreOf(result[g][k], k)

(* "If more returned columns are required, the input should be spread to   *)
(* several argmax": calls with the same value attribute return columns of  *)
(* one row, although each of them overwrites the maximum that the next one *)
(* compares with.                                                          *)
OneRow ==
    \A g \in returned : \A k, l \in DOMAIN Calls :
        Calls[k] = Calls[l] => result[g][k] = result[g][l]

(* An argument that is returned belongs to a row of its own group with the *)
(* maximal value, in every strategy and in every scan: what is left in the *)
(* state of the node may at worst hide a row.                              *)
NeverSubmaximal ==
    \A g \in returned : \A k \in DOMAIN Calls : result[g][k] # Zero => IsMaximal(g, k)

(* In a hash table every group with a value from 0 on has its argument.    *)
MaximalInHashTable ==
    strategy = "AGG_HASHED" =>
        \A g \in returned : \A k \in DOMAIN Calls :
            (\E i \in RowsOf(g) : ScoreOf(i, k) >= 0) => IsMaximal(g, k)

(* The result is an argument whose tuple has the maximum value within the  *)
(* group (language.tex).                                                   *)
MaximalArgument == \A g \in returned : \A k \in DOMAIN Calls : IsMaximal(g, k)

-----------------------------------------------------------------------------
(* The inductive invariant *)

(* Calls that share a field of the state have the same value attribute.    *)
TypesApart ==
    \A k, l \in DOMAIN Calls : Calls[k].type = Calls[l].type => Calls[k].column = Calls[l].column

TypeOK ==
    /\ strategy \in {"AGG_SORTED", "AGG_HASHED"}
    /\ input \in Inputs(MaxRows)
    /\ strategy = "AGG_SORTED" => IsSorted(input)
    /\ pos \in 0..Len(input)
    /\ call \in 0..Len(Calls)
    /\ call # 0 => pos < Len(input)
    /\ entries \subseteq Groups /\ returned \subseteq Groups
    /\ argmax \in [Places -> [Types -> Int]]
    /\ pergroup \in [Places -> [DOMAIN Calls -> Nat]]
    /\ result \in [Groups -> [DOMAIN Calls -> Nat]]

(* The groups whose state is in use: all entries of a hash table, and the  *)
(* group of the last row that was started                                  *)
Last == IF call # 0 THEN pos + 1 ELSE pos
Live(g) ==
    IF strategy = "AGG_HASHED" THEN g \in entries ELSE Last # 0 /\ g = input[Last].grp

(* Whether call k has seen row i, and whether it has yet to see the row    *)
(* that other calls may have seen                                          *)
Seen(i, k) == i <= pos \/ (i = pos + 1 /\ k < call)
Pending(g, k) == call # 0 /\ call <= k /\ input[pos + 1].grp = g

MaxOf(g, k) == argmax[Place(g)][Calls[k].type]
ValueOf(g, k) == pergroup[Place(g)][k]

(* What call k has seen of a group is not above the maximum; its argument  *)
(* has the maximum, unless another call has put the current row there.     *)
Chosen(g, k) ==
    /\ \A i \in RowsOf(g) : Seen(i, k) => ScoreOf(i, k) <= MaxOf(g, k)
    /\ ValueOf(g, k) # Zero =>
          /\ ValueOf(g, k) \in RowsOf(g) /\ Seen(ValueOf(g, k), k)
          /\ \A i \in RowsOf(g) : Seen(i, k) => ScoreOf(i, k) <= ScoreOf(ValueOf(g, k), k)
          /\ \/ MaxOf(g, k) = ScoreOf(ValueOf(g, k), k)
             \/ Pending(g, k) /\ MaxOf(g, k) = ScoreOf(pos + 1, k)

(* A group without an argument in a hash table has only values below 0.    *)
Hidden(g, k) ==
    strategy = "AGG_HASHED" /\ ValueOf(g, k) = Zero =>
        /\ \A i \in RowsOf(g) : Seen(i, k) => ScoreOf(i, k) < 0
        /\ MaxOf(g, k) = 0 \/ (Pending(g, k) /\ MaxOf(g, k) = ScoreOf(pos + 1, k))

(* Equal calls have the same argument, except that one may have taken the  *)
(* current row and the other not yet seen it.                              *)
Together(g) ==
    \A k, l \in DOMAIN Calls : Calls[k] = Calls[l] =>
        \/ ValueOf(g, k) = ValueOf(g, l)
        \/ k < call /\ Pending(g, l) /\ ValueOf(g, k) = pos + 1
        \/ l < call /\ Pending(g, k) /\ ValueOf(g, l) = pos + 1

(* What a call decided on the current row, the maximum still tells.        *)
Decided(g) ==
    \A k \in DOMAIN Calls : k < call /\ g = input[pos + 1].grp =>
        IF ValueOf(g, k) = pos + 1 THEN MaxOf(g, k) = ScoreOf(pos + 1, k)
        ELSE MaxOf(g, k) > ScoreOf(pos + 1, k)

GroupInv(g) == (\A k \in DOMAIN Calls : Chosen(g, k) /\ Hidden(g, k)) /\ Together(g) /\ Decided(g)
LiveInv == \A g \in Groups : Live(g) => GroupInv(g)

(* A returned group has been seen completely. *)
Complete(g) == \A i \in RowsOf(g) : i <= pos
ReturnedInv == (\A g \in returned : Complete(g)) /\ OneRow /\ NeverSubmaximal /\ MaximalInHashTable

(* In a hash table the groups of the rows so far have entries. *)
EntriesInv == strategy = "AGG_HASHED" => entries = {input[i].grp : i \in 1..Last}

ArgmaxInv == TypeOK /\ EntriesInv /\ LiveInv /\ ReturnedInv
=============================================================================
