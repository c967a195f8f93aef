----------------------------- MODULE WorldTable -----------------------------
(***************************************************************************)
(* What the lineage of a duplicate group promises to the confidence        *)
(* operators, with no word about hashing.  The group has a table with one  *)
(* entry per variable, numbered in order of first appearance, each with    *)
(* the ranges seen for it in order of first appearance; and a list of      *)
(* clauses whose maps carry the offsets of their entry and range.  The     *)
(* table may be emptied only when no clause refers to it.  LocalCond is    *)
(* the code's implementation.                                              *)
(***************************************************************************)
EXTENDS Naturals, Sequences, FiniteSets

CONSTANTS VarIds,  \* variable identifiers that occur in condition columns
          RngIds,  \* range (domain value) identifiers
          WSD_LEN  \* maps per clause

VARIABLES table,   \* sequence of [var, rngs]
          lineage, \* the complete clauses: sequences of maps with offsets
          clause   \* the maps of the clause under construction

absvars == <<table, lineage, clause>>

EntryOf(v) == {e \in DOMAIN table : table[e].var = v}

RangeOf(e, r) == {k \in DOMAIN table[e].rngs : table[e].rngs[k] = r}

(* The map v -> r, found at entry e and range k, joins the clause; the     *)
(* last of WSD_LEN maps completes it.                                      *)
AddMap(v, r, e, k) ==
    LET m == [var |-> v, rng |-> r, wt_offset |-> e, rng_offset |-> k]
    IN  IF Len(clause) + 1 < WSD_LEN
        THEN clause' = Append(clause, m) /\ UNCHANGED lineage
        ELSE clause' = <<>> /\ lineage' = Append(lineage, Append(clause, m))

WTInit == table = <<>> /\ lineage = <<>> /\ clause = <<>>

(* The confidence of the group has been returned. *)
DropLineage == clause = <<>> /\ lineage' = <<>> /\ UNCHANGED <<table, clause>>

(* A new duplicate group begins with an empty table. *)
ClearTable ==
    /\ lineage = <<>> /\ clause = <<>>
    /\ table' = <<>>
    /\ UNCHANGED <<lineage, clause>>

(* The map is known. *)
Known(v, r) ==
    \E e \in EntryOf(v) : \E k \in RangeOf(e, r) :
        UNCHANGED table /\ AddMap(v, r, e, k)

(* The variable is known, the range is not: the range is added at the end. *)
NewRange(v, r) ==
    \E e \in EntryOf(v) :
        /\ RangeOf(e, r) = {}
        /\ table' = [table EXCEPT ![e].rngs = Append(@, r)]
        /\ AddMap(v, r, e, Len(table[e].rngs) + 1)

(* The variable is not known: one entry is added, at the end. *)
NewVar(v, r) ==
    /\ EntryOf(v) = {}
    /\ table' = Append(table, [var |-> v, rngs |-> <<r>>])
    /\ AddMap(v, r, Len(table) + 1, 1)

WTNext ==
    \/ DropLineage
    \/ ClearTable
    \/ \E v \in VarIds, r \in RngIds : Known(v, r) \/ NewRange(v, r) \/ NewVar(v, r)

WTSpec == WTInit /\ [][WTNext]_absvars
=============================================================================
