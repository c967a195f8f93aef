---------------------------- MODULE Argmax_proofs ----------------------------
(***************************************************************************)
(* Proofs about Argmax: for any rows, groups and number of calls, as long  *)
(* as calls that share a field of the state have the same value attribute. *)
(***************************************************************************)
EXTENDS Argmax, TLAPS, SequenceTheorems

-----------------------------------------------------------------------------
(* Facts about the constants and the input *)

(* The calls are numbered from 1 on, and there is one. *)
LEMMA CallFacts ==
    /\ Len(Calls) \in Nat /\ Len(Calls) > 0
    /\ DOMAIN Calls = 1..Len(Calls)
    /\ \A k \in DOMAIN Calls : Calls[k].column \in Columns /\ Calls[k].type \in Types
<1>1. Calls \in Seq([column : Columns, type : STRING]) /\ Calls # <<>>
  BY ConstantsAssumption
<1>2. Len(Calls) \in Nat /\ DOMAIN Calls = 1..Len(Calls) /\ Len(Calls) > 0
  BY <1>1
<1>3. \A k \in DOMAIN Calls : Calls[k].column \in Columns
  <2>1. \A k \in 1..Len(Calls) : Calls[k] \in [column : Columns, type : STRING]
    BY <1>1, ElementOfSeq
  <2> QED  BY <1>2, <2>1
<1>4. \A k \in DOMAIN Calls : Calls[k].type \in Types
  BY DEF Types
<1> QED  BY <1>2, <1>3, <1>4

(* The input is a sequence of at least one row. *)
LEMMA InputFacts ==
    ASSUME NEW max \in 0..MaxRows, NEW rows \in Inputs(max)
    PROVE  /\ rows \in Inputs(MaxRows)
           /\ Len(rows) \in Nat /\ Len(rows) > 0
           /\ DOMAIN rows = 1..Len(rows)
           /\ \A i \in DOMAIN rows : rows[i].grp \in Groups
           /\ \A i \in DOMAIN rows, c \in Columns : rows[i].score[c] \in Int
<1>1. PICK n \in 1..max : rows \in [1..n -> Rows]
  BY DEF Inputs
<1>2. n \in Nat /\ n > 0 /\ n \in 1..MaxRows
  BY <1>1, ConstantsAssumption
<1>3. rows \in Seq(Rows)
  BY <1>1, <1>2, SeqDef
<1>4. Len(rows) = n
  BY <1>1, <1>2, <1>3, LenProperties
<1>5. \A i \in DOMAIN rows : rows[i] \in Rows
  BY <1>1
<1>6. rows \in Inputs(MaxRows)
  BY <1>1, <1>2 DEF Inputs
<1> QED  BY <1>1, <1>2, <1>4, <1>5, <1>6, ConstantsAssumption DEF Rows

(* Groups are not the node. *)
LEMMA PlaceFacts == TheNode \notin Groups /\ Groups \subseteq Places /\ TheNode \in Places
BY ConstantsAssumption DEF TheNode, Places

(* Groups are numbers. *)
LEMMA GroupFacts == \A g \in Groups : g \in Nat
BY ConstantsAssumption

(* What the type invariant says of the rows and the state of a group *)
LEMMA StateFacts ==
    ASSUME TypeOK
    PROVE  /\ Len(input) \in Nat /\ Len(input) > 0 /\ DOMAIN input = 1..Len(input)
           /\ pos \in Nat /\ pos <= Len(input)
           /\ call \in Nat /\ call <= Len(Calls)
           /\ \A i \in DOMAIN input : input[i].grp \in Groups
           /\ \A i \in DOMAIN input, k \in DOMAIN Calls : ScoreOf(i, k) \in Int
           /\ \A g \in Groups : Place(g) \in Places /\ RowsOf(g) \subseteq DOMAIN input
           /\ \A g \in Groups, k \in DOMAIN Calls : MaxOf(g, k) \in Int /\ ValueOf(g, k) \in Nat
<1>1. MaxRows \in 0..MaxRows
  BY ConstantsAssumption
<1>2. input \in Inputs(MaxRows)
  BY DEF TypeOK
<1>3. /\ Len(input) \in Nat /\ Len(input) > 0 /\ DOMAIN input = 1..Len(input)
      /\ \A i \in DOMAIN input : input[i].grp \in Groups
      /\ \A i \in DOMAIN input, c \in Columns : input[i].score[c] \in Int
  BY <1>1, <1>2, InputFacts
<1>4. \A i \in DOMAIN input, k \in DOMAIN Calls : ScoreOf(i, k) \in Int
  BY <1>3, CallFacts DEF ScoreOf
<1>5. \A g \in Groups : Place(g) \in Places /\ RowsOf(g) \subseteq DOMAIN input
  BY PlaceFacts DEF Place, RowsOf
<1>6. \A g \in Groups, k \in DOMAIN Calls : MaxOf(g, k) \in Int /\ ValueOf(g, k) \in Nat
  BY <1>5, CallFacts DEF MaxOf, ValueOf, TypeOK
<1> QED  BY <1>3, <1>4, <1>5, <1>6, CallFacts DEF TypeOK

-----------------------------------------------------------------------------
(* Types *)

(* Every step keeps the types. *)
LEMMA TypeStep == TypeOK /\ [Next]_vars => TypeOK'
<1> SUFFICES ASSUME TypeOK, [Next]_vars PROVE TypeOK'
  OBVIOUS
<1> USE CallFacts, StateFacts, PlaceFacts
<1>0. palloc0 \in [Types -> Int] /\ NoTrans \in [DOMAIN Calls -> Nat]
  BY DEF palloc0, NoTrans, Zero
<1>1. \A g \in Groups : Return(g) => returned' \subseteq Groups /\ result' \in [Groups -> [DOMAIN Calls -> Nat]]
  BY DEF Return, TypeOK
<1>2. CASE lookup_hash_entry
  <2>1. input[pos + 1].grp \in Groups
    BY <1>2 DEF lookup_hash_entry
  <2>2. argmax' \in [Places -> [Types -> Int]] /\ pergroup' \in [Places -> [DOMAIN Calls -> Nat]]
    <3>1. argmax \in [Places -> [Types -> Int]] /\ pergroup \in [Places -> [DOMAIN Calls -> Nat]]
      BY DEF TypeOK
    <3>2. CASE UNCHANGED <<argmax, pergroup>>
      BY <3>1, <3>2
    <3>3. CASE /\ argmax' = [argmax EXCEPT ![input[pos + 1].grp] = palloc0]
               /\ pergroup' = [pergroup EXCEPT ![input[pos + 1].grp] = NoTrans]
      BY <1>0, <3>1, <3>3
    <3> QED  BY <1>2, <3>2, <3>3 DEF lookup_hash_entry
  <2>3. entries' \subseteq Groups
    BY <1>2, <2>1 DEF lookup_hash_entry, TypeOK
  <2>4. call' \in 0..Len(Calls) /\ pos' < Len(input')
    BY <1>2 DEF lookup_hash_entry
  <2> QED  BY <1>2, <2>2, <2>3, <2>4 DEF lookup_hash_entry, TypeOK, IsSorted
<1>3. CASE agg_retrieve_direct
  <2>1. returned' \subseteq Groups /\ result' \in [Groups -> [DOMAIN Calls -> Nat]]
    BY <1>1, <1>3 DEF agg_retrieve_direct, Boundary, TypeOK
  <2>2. pergroup' \in [Places -> [DOMAIN Calls -> Nat]]
    BY <1>0, <1>3 DEF agg_retrieve_direct, TypeOK
  <2>3. call' \in 0..Len(Calls) /\ pos' < Len(input')
    BY <1>3 DEF agg_retrieve_direct
  <2> QED  BY <1>3, <2>1, <2>2, <2>3 DEF agg_retrieve_direct, TypeOK, IsSorted
<1>4. CASE accum
  <2> DEFINE i == pos + 1
             g == input[i].grp
             type == Calls[call].type
             arg2 == input[i].score[Calls[call].column]
             max == argmax[get_argmax_state(g)][type]
  <2>0. call # 0 /\ pos < Len(input)
    BY <1>4 DEF accum, TypeOK
  <2>1. call \in DOMAIN Calls /\ i \in DOMAIN input /\ g \in Groups /\ type \in Types
    <3>1. call \in DOMAIN Calls /\ i \in DOMAIN input
      BY <2>0
    <3> QED  BY <3>1
  <2>2. arg2 \in Int
    BY <2>1 DEF ScoreOf
  <2>3. get_argmax_state(g) \in Places /\ Place(g) \in Places
    BY <2>1 DEF get_argmax_state, Place
  <2>4. max \in Int
    BY <2>1, <2>3 DEF TypeOK
  <2>5. NewMax(max, arg2) \in Int
    BY <2>2, <2>4 DEF NewMax
  <2>6. argmax' = [argmax EXCEPT ![get_argmax_state(g)][type] = NewMax(max, arg2)]
    BY <1>4 DEF accum
  <2>7. argmax' \in [Places -> [Types -> Int]]
    BY <2>1, <2>3, <2>5, <2>6 DEF TypeOK
  <2>8. pergroup' \in [Places -> [DOMAIN Calls -> Nat]]
    <3>1. pergroup \in [Places -> [DOMAIN Calls -> Nat]] /\ i \in Nat
      BY DEF TypeOK
    <3>2. pergroup' = pergroup \/ pergroup' = [pergroup EXCEPT ![Place(g)][call] = i]
      BY <1>4 DEF accum
    <3>3. ASSUME NEW s \in Places, NEW c \in DOMAIN Calls, NEW v \in Nat
          PROVE  [pergroup EXCEPT ![s][c] = v] \in [Places -> [DOMAIN Calls -> Nat]]
      BY <3>1
    <3> HIDE DEF i, g
    <3>4. [pergroup EXCEPT ![Place(g)][call] = i] \in [Places -> [DOMAIN Calls -> Nat]]
      BY <2>1, <2>3, <3>1, <3>3
    <3> QED  BY <3>1, <3>2, <3>4
  <2>9. pos' \in 0..Len(input) /\ call' \in 0..Len(Calls) /\ (call' # 0 => pos' < Len(input))
    BY <1>4, <2>1 DEF accum, TypeOK
  <2> QED  BY <1>4, <2>7, <2>8, <2>9 DEF accum, TypeOK, IsSorted
<1>5. CASE agg_done
  BY <1>1, <1>5 DEF agg_done, TypeOK, IsSorted
<1>6. CASE agg_retrieve_hash_table
  BY <1>1, <1>6 DEF agg_retrieve_hash_table, TypeOK, IsSorted
<1>7. CASE ExecReScanAgg
  <2>1. result' \in [Groups -> [DOMAIN Calls -> Nat]] /\ returned' = {} /\ call' = 0 /\ strategy' = strategy
    BY <1>0, <1>7 DEF ExecReScanAgg
  <2>2. CASE UNCHANGED <<input, pos, entries, argmax, pergroup>>
    BY <2>1, <2>2 DEF TypeOK, IsSorted
  <2>3. CASE /\ input' \in Inputs(MaxRescanned)
             /\ strategy = "AGG_SORTED" => IsSorted(input')
             /\ pos' = 0 /\ entries' = {}
             /\ argmax' = [s \in Places |-> IF s = TheNode THEN argmax[s] ELSE palloc0]
             /\ pergroup' = [s \in Places |-> NoTrans]
    <3>1. MaxRescanned \in 0..MaxRows
      BY ConstantsAssumption
    <3>2. input' \in Inputs(MaxRows) /\ Len(input') \in Nat
      BY <2>3, <3>1, InputFacts
    <3>3. argmax' \in [Places -> [Types -> Int]]
      BY <1>0, <2>3 DEF TypeOK
    <3>4. pergroup' \in [Places -> [DOMAIN Calls -> Nat]]
      BY <1>0, <2>3
    <3> QED  BY <2>1, <2>3, <3>2, <3>3, <3>4 DEF TypeOK, IsSorted
  <2> QED  BY <1>7, <2>2, <2>3 DEF ExecReScanAgg
<1>8. CASE UNCHANGED vars
  BY <1>8 DEF vars, TypeOK, IsSorted
<1> QED  BY <1>2, <1>3, <1>4, <1>5, <1>6, <1>7, <1>8 DEF Next

-----------------------------------------------------------------------------
(* The groups *)

(* A group whose rows have all been seen by all calls is ready: equal      *)
(* calls have chosen the same row, and a chosen row is maximal.            *)
LEMMA GroupDone ==
    ASSUME TypeOK, LiveInv, call = 0, NEW g \in Groups, Live(g), Complete(g)
    PROVE  /\ \A k, l \in DOMAIN Calls : Calls[k] = Calls[l] => ValueOf(g, k) = ValueOf(g, l)
           /\ \A k \in DOMAIN Calls : ValueOf(g, k) # Zero =>
                 /\ ValueOf(g, k) \in RowsOf(g)
                 /\ \A i \in RowsOf(g) : ScoreOf(i, k) <= ScoreOf(ValueOf(g, k), k)
           /\ strategy = "AGG_HASHED" =>
                 \A k \in DOMAIN Calls :
                    (\E i \in RowsOf(g) : ScoreOf(i, k) >= 0) => ValueOf(g, k) # Zero
<1>1. /\ \A k \in DOMAIN Calls : Chosen(g, k) /\ Hidden(g, k)
      /\ Together(g)
  BY DEF LiveInv, GroupInv
<1>2. \A k : ~Pending(g, k)
  BY DEF Pending
<1>3. \A i \in RowsOf(g) : \A k : Seen(i, k)
  BY DEF Complete, Seen
<1>4. \A k, l \in DOMAIN Calls : Calls[k] = Calls[l] => ValueOf(g, k) = ValueOf(g, l)
  BY <1>1, <1>2 DEF Together
<1>5. \A k \in DOMAIN Calls : ValueOf(g, k) # Zero =>
          /\ ValueOf(g, k) \in RowsOf(g)
          /\ \A i \in RowsOf(g) : ScoreOf(i, k) <= ScoreOf(ValueOf(g, k), k)
  BY <1>1, <1>3 DEF Chosen
<1>6. ASSUME strategy = "AGG_HASHED", NEW k \in DOMAIN Calls, ValueOf(g, k) = Zero,
             NEW i \in RowsOf(g)
      PROVE  ~(ScoreOf(i, k) >= 0)
  <2>1. ScoreOf(i, k) < 0
    BY <1>1, <1>3, <1>6 DEF Hidden
  <2>2. ScoreOf(i, k) \in Int
    BY StateFacts
  <2> QED  BY <2>1, <2>2
<1> QED  BY <1>4, <1>5, <1>6

(* So its result may be returned. *)
LEMMA ReturnStep ==
    ASSUME TypeOK, LiveInv, ReturnedInv, call = 0,
           NEW g \in Groups, Live(g), Complete(g), Return(g),
           UNCHANGED <<strategy, input, pos>>
    PROVE  ReturnedInv'
<1>1. \A h \in returned' : Complete(h)
  BY DEF ReturnedInv, Return
<1>2. \A h \in returned' : Complete(h)'
  BY <1>1 DEF Complete, RowsOf
<1>3. result'[g] = pergroup[Place(g)] /\ \A h \in Groups : h # g => result'[h] = result[h]
  BY DEF Return, TypeOK
<1>4. \A k \in DOMAIN Calls : result'[g][k] = ValueOf(g, k)
  BY <1>3 DEF ValueOf
<1>5. returned \subseteq Groups /\ \A h \in returned' : h # g => h \in returned
  BY DEF Return, TypeOK
<1>6. OneRow'
  <2> SUFFICES ASSUME NEW h \in returned', NEW k \in DOMAIN Calls, NEW l \in DOMAIN Calls,
                      Calls[k] = Calls[l]
               PROVE  result'[h][k] = result'[h][l]
    BY DEF OneRow
  <2>1. CASE h = g
    BY <1>4, <2>1, GroupDone
  <2>2. CASE h # g
    BY <1>3, <1>5, <2>2 DEF ReturnedInv, OneRow
  <2> QED  BY <2>1, <2>2
<1>7. \A h \in returned, k \in DOMAIN Calls : h # g => (IsMaximal(h, k)' <=> IsMaximal(h, k))
  BY <1>3, <1>5 DEF IsMaximal, RowsOf, ScoreOf
<1>8. \A k \in DOMAIN Calls : ValueOf(g, k) # Zero => IsMaximal(g, k)'
  BY <1>4, GroupDone DEF IsMaximal, RowsOf, ScoreOf
<1>9. NeverSubmaximal'
  <2> SUFFICES ASSUME NEW h \in returned', NEW k \in DOMAIN Calls, result'[h][k] # Zero
               PROVE  IsMaximal(h, k)'
    BY DEF NeverSubmaximal
  <2>1. CASE h = g
    BY <1>4, <1>8, <2>1
  <2>2. CASE h # g
    BY <1>3, <1>5, <1>7, <2>2 DEF ReturnedInv, NeverSubmaximal
  <2> QED  BY <2>1, <2>2
<1>10. MaximalInHashTable'
  <2> SUFFICES ASSUME strategy = "AGG_HASHED", NEW h \in returned', NEW k \in DOMAIN Calls,
                      NEW i \in RowsOf(h), ScoreOf(i, k) >= 0
               PROVE  IsMaximal(h, k)'
    BY DEF MaximalInHashTable, RowsOf, ScoreOf
  <2>1. CASE h = g
    BY <1>8, <2>1, GroupDone
  <2>2. CASE h # g
    BY <1>5, <1>7, <2>2 DEF ReturnedInv, MaximalInHashTable
  <2> QED  BY <2>1, <2>2
<1> QED  BY <1>2, <1>6, <1>9, <1>10 DEF ReturnedInv

(* What has been returned does not change while the input is the same. *)
LEMMA ReturnedStays ==
    ASSUME TypeOK, ReturnedInv, UNCHANGED <<strategy, input, returned, result>>,
           pos' \in Nat, pos' >= pos
    PROVE  ReturnedInv'
<1>1. \A g \in returned : Complete(g)'
  BY StateFacts DEF ReturnedInv, Complete, RowsOf, TypeOK
<1>2. OneRow' /\ NeverSubmaximal' /\ MaximalInHashTable'
  BY DEF ReturnedInv, OneRow, NeverSubmaximal, MaximalInHashTable, IsMaximal, RowsOf, ScoreOf
<1> QED  BY <1>1, <1>2 DEF ReturnedInv

(* In a sorted input the groups do not decrease. *)
LEMMA Sorted ==
    ASSUME TypeOK, strategy = "AGG_SORTED", NEW i \in DOMAIN input, NEW j \in DOMAIN input, i <= j
    PROVE  input[i].grp <= input[j].grp
<1>1. i \in Nat /\ j \in Nat /\ input[i].grp \in Nat /\ input[j].grp \in Nat
  BY StateFacts, GroupFacts
<1>2. CASE i < j
  BY <1>2 DEF TypeOK, IsSorted
<1>3. CASE i = j
  BY <1>1, <1>3
<1> QED  BY <1>1, <1>2, <1>3

(* The rows before a boundary and those after it are of different groups. *)
LEMMA BoundaryApart ==
    ASSUME TypeOK, strategy = "AGG_SORTED", pos < Len(input), Boundary
    PROVE  /\ \A i \in RowsOf(input[pos + 1].grp) : ~(i <= pos)
           /\ \A i \in RowsOf(input[pos].grp) : i <= pos
<1>1. pos \in DOMAIN input /\ pos + 1 \in DOMAIN input
  BY StateFacts DEF Boundary
<1>2. \A i \in DOMAIN input : input[i].grp \in Nat /\ i \in Nat
  BY StateFacts, GroupFacts
<1>3. input[pos].grp <= input[pos + 1].grp /\ input[pos].grp # input[pos + 1].grp
  BY <1>1, Sorted, StateFacts DEF Boundary
<1>4. ASSUME NEW i \in DOMAIN input, i <= pos
      PROVE  input[i].grp <= input[pos].grp
  BY <1>1, <1>4, Sorted
<1>5. ASSUME NEW i \in DOMAIN input, pos + 1 <= i
      PROVE  input[pos + 1].grp <= input[i].grp
  BY <1>1, <1>5, Sorted
<1>6. \A i \in RowsOf(input[pos + 1].grp) : ~(i <= pos)
  BY <1>1, <1>2, <1>3, <1>4 DEF RowsOf
<1>7. \A i \in RowsOf(input[pos].grp) : i <= pos
  BY <1>1, <1>2, <1>3, <1>5 DEF RowsOf
<1> QED  BY <1>6, <1>7

(* The parts of Chosen after a step, for an argument v *)
LEMMA ChosenFrom ==
    ASSUME NEW g, NEW k, NEW v, v = ValueOf(g, k)',
           \A i \in RowsOf(g)' : Seen(i, k)' => ScoreOf(i, k)' <= MaxOf(g, k)',
           v # Zero =>
              /\ v \in RowsOf(g)' /\ Seen(v, k)'
              /\ \A i \in RowsOf(g)' : Seen(i, k)' => ScoreOf(i, k)' <= ScoreOf(v, k)'
              /\ \/ MaxOf(g, k)' = ScoreOf(v, k)'
                 \/ Pending(g, k)' /\ MaxOf(g, k)' = ScoreOf(pos + 1, k)'
    PROVE  Chosen(g, k)'
BY DEF Chosen, Seen, ScoreOf

(* The first call on a row finds its group as the last call on the row     *)
(* before it left it.                                                      *)
LEMMA StartedGroup ==
    ASSUME TypeOK, call = 0, call' = 1, UNCHANGED <<strategy, input, pos>>,
           NEW g \in Groups, GroupInv(g),
           \A k \in DOMAIN Calls : MaxOf(g, k)' = MaxOf(g, k) /\ ValueOf(g, k)' = ValueOf(g, k)
    PROVE  GroupInv(g)'
<1> USE CallFacts
<1>1. \A k : ~Pending(g, k)
  BY DEF Pending
<1>2. \A i \in DOMAIN input, k \in DOMAIN Calls : Seen(i, k)' <=> Seen(i, k)
  BY StateFacts DEF Seen
<1>3. \A i, k : ScoreOf(i, k)' = ScoreOf(i, k)
  BY DEF ScoreOf
<1>4. RowsOf(g)' = RowsOf(g) /\ RowsOf(g) \subseteq DOMAIN input
  BY DEF RowsOf
<1>5. ASSUME NEW k \in DOMAIN Calls
      PROVE  Chosen(g, k)'
  <2>1. Chosen(g, k)
    BY DEF GroupInv
  <2>2. \A i \in RowsOf(g)' : Seen(i, k)' => ScoreOf(i, k)' <= MaxOf(g, k)'
    BY <1>2, <1>3, <1>4, <2>1 DEF Chosen
  <2>3. ASSUME ValueOf(g, k) # Zero
        PROVE  /\ ValueOf(g, k) \in RowsOf(g) /\ Seen(ValueOf(g, k), k)'
               /\ \A i \in RowsOf(g) : Seen(i, k)' => ScoreOf(i, k) <= ScoreOf(ValueOf(g, k), k)
               /\ MaxOf(g, k) = ScoreOf(ValueOf(g, k), k)
    BY <1>1, <1>2, <1>4, <2>1, <2>3 DEF Chosen
  <2> QED  BY <1>3, <1>4, <2>2, <2>3 DEF Chosen, Seen, ScoreOf
<1>6. ASSUME NEW k \in DOMAIN Calls
      PROVE  Hidden(g, k)'
  BY <1>1, <1>2, <1>3, <1>4 DEF GroupInv, Hidden
<1>7. Together(g)'
  BY <1>1 DEF GroupInv, Together
<1>8. Decided(g)'
  BY DEF Decided
<1> QED  BY <1>5, <1>6, <1>7, <1>8 DEF GroupInv

(* It finds a new group empty. *)
LEMMA NewGroup ==
    ASSUME TypeOK', call' = 1, NEW g \in Groups,
           \A i \in RowsOf(g)' : ~(i <= pos'),
           \A k \in DOMAIN Calls : ValueOf(g, k)' = Zero,
           strategy' = "AGG_HASHED" => \A k \in DOMAIN Calls : MaxOf(g, k)' = 0
    PROVE  GroupInv(g)'
<1> USE CallFacts
<1>1. \A i \in RowsOf(g)', k \in DOMAIN Calls : ~Seen(i, k)'
  BY DEF Seen
<1>2. \A k \in DOMAIN Calls : Chosen(g, k)' /\ Hidden(g, k)'
  BY <1>1 DEF Chosen, Hidden
<1>3. Together(g)' /\ Decided(g)'
  BY DEF Together, Decided
<1> QED  BY <1>2, <1>3 DEF GroupInv

(* The next row of a hashed aggregation *)
LEMMA LookupStep ==
    ASSUME TypeOK, TypeOK', EntriesInv, LiveInv, lookup_hash_entry
    PROVE  EntriesInv' /\ LiveInv'
<1> DEFINE h == input[pos + 1].grp
<1> USE StateFacts DEF lookup_hash_entry
<1>1. Last = pos /\ Last' = pos + 1
  BY DEF Last
<1>2. EntriesInv'
  BY <1>1 DEF EntriesInv
<1>3. \A g \in Groups : Place(g) = g /\ Place(g)' = g
  BY DEF Place
<1>4. h \in Groups
  OBVIOUS
<1>5. ASSUME NEW g \in Groups, g \in entries
      PROVE  GroupInv(g)'
  <2>1. GroupInv(g)
    BY <1>5 DEF LiveInv, Live
  <2>2. argmax'[g] = argmax[g] /\ pergroup'[g] = pergroup[g]
    BY <1>5, PlaceFacts DEF TypeOK
  <2>3. \A k \in DOMAIN Calls : MaxOf(g, k)' = MaxOf(g, k) /\ ValueOf(g, k)' = ValueOf(g, k)
    BY <1>3, <2>2 DEF MaxOf, ValueOf
  <2> QED  BY <2>1, <2>3, StartedGroup
<1>6. ASSUME h \notin entries
      PROVE  GroupInv(h)'
  <2>1. \A i \in 1..pos : input[i].grp # h
    BY <1>1, <1>6 DEF EntriesInv
  <2>2. \A i \in RowsOf(h)' : ~(i <= pos')
    BY <2>1 DEF RowsOf
  <2>3. argmax'[h] = palloc0 /\ pergroup'[h] = NoTrans
    BY <1>4, <1>6, PlaceFacts DEF TypeOK
  <2>4. \A k \in DOMAIN Calls : MaxOf(h, k)' = 0 /\ ValueOf(h, k)' = Zero
    BY <1>3, <1>4, <2>3, CallFacts DEF MaxOf, ValueOf, palloc0, NoTrans
  <2> QED  BY <1>4, <2>2, <2>4, NewGroup
<1>7. \A g \in Groups : Live(g)' => g \in entries \/ (g = h /\ h \notin entries)
  BY DEF Live
<1> QED  BY <1>2, <1>5, <1>6, <1>7 DEF LiveInv

(* The next row of a sorted aggregation *)
LEMMA DirectStep ==
    ASSUME TypeOK, TypeOK', LiveInv, ReturnedInv, agg_retrieve_direct
    PROVE  EntriesInv' /\ LiveInv' /\ ReturnedInv'
<1> USE StateFacts DEF agg_retrieve_direct
<1>1. PICK h \in Groups : h = input[pos + 1].grp
  OBVIOUS
<1>2. \A g \in Groups : Live(g)' => g = h
  BY <1>1 DEF Live, Last
<1>3. \A g \in Groups : Place(g) = TheNode /\ Place(g)' = TheNode
  BY DEF Place
<1>4. \A k \in DOMAIN Calls : MaxOf(h, k)' = MaxOf(h, k)
  BY <1>1, <1>3 DEF MaxOf
<1>5. ASSUME pos = 0 \/ Boundary PROVE GroupInv(h)'
  <2>1. \A i \in RowsOf(h)' : ~(i <= pos')
    <3>1. RowsOf(h)' = RowsOf(h) /\ pos' = pos
      BY DEF RowsOf
    <3>2. CASE pos = 0
      BY <3>1, <3>2 DEF RowsOf
    <3>3. CASE Boundary
      BY <1>1, <3>1, <3>3, BoundaryApart
    <3> QED  BY <1>5, <3>2, <3>3
  <2>2. pergroup'[TheNode] = NoTrans
    BY <1>5, PlaceFacts DEF TypeOK
  <2>3. \A k \in DOMAIN Calls : ValueOf(h, k)' = Zero
    BY <1>1, <1>3, <2>2 DEF ValueOf, NoTrans
  <2> QED  BY <1>1, <2>1, <2>3, NewGroup
<1>6. ASSUME ~(pos = 0 \/ Boundary) PROVE GroupInv(h)'
  <2>1. Live(h)
    BY <1>1, <1>6 DEF Live, Last, Boundary
  <2>2. \A k \in DOMAIN Calls : ValueOf(h, k)' = ValueOf(h, k)
    BY <1>1, <1>3, <1>6 DEF ValueOf
  <2> QED  BY <1>1, <1>4, <2>1, <2>2, StartedGroup DEF LiveInv
<1>7. GroupInv(h)'
  BY <1>5, <1>6
<1>8. ReturnedInv'
  <2>1. CASE Boundary
    <3>1. input[pos].grp \in Groups /\ Live(input[pos].grp)
      BY <2>1 DEF Boundary, Live, Last
    <3>2. Complete(input[pos].grp)
      BY <2>1, BoundaryApart DEF Complete
    <3> QED  BY <2>1, <3>1, <3>2, ReturnStep
  <2>2. CASE ~Boundary
    BY <2>2, ReturnedStays
  <2> QED  BY <2>1, <2>2
<1> QED  BY <1>2, <1>7, <1>8 DEF LiveInv, EntriesInv

-----------------------------------------------------------------------------
(* A call on a row *)

(* What one call changes: its own argument, and the maximum of the calls   *)
(* with values of its type.                                                *)
LEMMA AccumEffect ==
    ASSUME TypeOK, EntriesInv, TypesApart, accum,
           NEW r, r = pos + 1, NEW c, c = call, NEW g, g = input[r].grp,
           NEW max, max = MaxOf(g, c), NEW arg2, arg2 = ScoreOf(r, c)
    PROVE  /\ c \in DOMAIN Calls /\ r \in DOMAIN input /\ g \in Groups
           /\ Live(g) /\ max \in Int /\ arg2 \in Int
           /\ \A k \in DOMAIN Calls :
                 ValueOf(g, k)' = IF k = c /\ ~(max > arg2) THEN r ELSE ValueOf(g, k)
           /\ \A k \in DOMAIN Calls :
                 IF Calls[k].type = Calls[c].type
                 THEN /\ MaxOf(g, k) = max /\ ScoreOf(r, k) = arg2
                      /\ MaxOf(g, k)' = IF max > arg2 THEN max ELSE arg2
                 ELSE MaxOf(g, k)' = MaxOf(g, k)
           /\ \A h \in Groups, k \in DOMAIN Calls :
                 strategy = "AGG_HASHED" /\ h # g =>
                    MaxOf(h, k)' = MaxOf(h, k) /\ ValueOf(h, k)' = ValueOf(h, k)
<1>1. c \in DOMAIN Calls /\ r \in DOMAIN input
  <2>1. call # 0 /\ pos < Len(input)
    BY DEF accum, TypeOK
  <2>2. c \in 1..Len(Calls) /\ r \in 1..Len(input)
    BY <2>1, CallFacts, StateFacts
  <2> QED  BY <2>2, CallFacts, StateFacts
<1>2. g \in Groups /\ max \in Int /\ arg2 \in Int
  BY <1>1, StateFacts
<1>3. Live(g)
  <2>1. Last = r /\ r \in Nat /\ r # 0
    BY <1>1, StateFacts DEF accum, Last
  <2>2. CASE strategy = "AGG_HASHED"
    BY <2>1, <2>2 DEF Live, EntriesInv
  <2>3. CASE strategy # "AGG_HASHED"
    BY <2>1, <2>3 DEF Live
  <2> QED  BY <2>2, <2>3
<1>4. PICK P \in Places : P = Place(g)
  BY <1>2, StateFacts
<1>5. PICK type \in Types : type = Calls[c].type
  BY <1>1, CallFacts
<1>6. PICK new : new = IF max > arg2 THEN max ELSE arg2
  OBVIOUS
<1>7. max = argmax[get_argmax_state(input[pos + 1].grp)][Calls[call].type]
  BY DEF MaxOf, Place, get_argmax_state
<1>8. arg2 = input[pos + 1].score[Calls[call].column]
  BY DEF ScoreOf
<1>9. get_argmax_state(input[pos + 1].grp) = P /\ Place(input[pos + 1].grp) = P
  BY <1>4 DEF get_argmax_state, Place
<1>10. /\ pergroup' = IF max > arg2 THEN pergroup ELSE [pergroup EXCEPT ![P][c] = r]
       /\ argmax' = [argmax EXCEPT ![P][type] = new]
       /\ strategy' = strategy /\ input' = input
  BY <1>5, <1>6, <1>7, <1>8, <1>9 DEF accum, Keeps, NewMax
<1>11. argmax \in [Places -> [Types -> Int]] /\ pergroup \in [Places -> [DOMAIN Calls -> Nat]]
  BY DEF TypeOK
<1>12. \A h \in Groups : Place(h)' = Place(h) /\ Place(h) \in Places
  BY <1>10, StateFacts DEF Place
<1>13. \A k \in DOMAIN Calls :
          ValueOf(g, k)' = IF k = c /\ ~(max > arg2) THEN r ELSE ValueOf(g, k)
  <2>1. \A k \in DOMAIN Calls :
           pergroup'[P][k] = IF k = c /\ ~(max > arg2) THEN r ELSE pergroup[P][k]
    BY <1>1, <1>10, <1>11
  <2> QED  BY <1>2, <1>4, <1>12, <2>1 DEF ValueOf
<1>14. ASSUME NEW k \in DOMAIN Calls
       PROVE  IF Calls[k].type = Calls[c].type
              THEN /\ MaxOf(g, k) = max /\ ScoreOf(r, k) = arg2
                   /\ MaxOf(g, k)' = IF max > arg2 THEN max ELSE arg2
              ELSE MaxOf(g, k)' = MaxOf(g, k)
  <2>1. \A t \in Types : argmax'[P][t] = IF t = type THEN new ELSE argmax[P][t]
    BY <1>10, <1>11
  <2>2. MaxOf(g, k) = argmax[P][Calls[k].type] /\ MaxOf(g, k)' = argmax'[P][Calls[k].type]
    BY <1>2, <1>4, <1>12 DEF MaxOf
  <2>3. Calls[k].type \in Types
    BY CallFacts
  <2>4. Calls[k].type = Calls[c].type => MaxOf(g, k) = max /\ ScoreOf(r, k) = arg2
    BY <1>1 DEF TypesApart, MaxOf, ScoreOf
  <2> QED  BY <1>5, <1>6, <2>1, <2>2, <2>3, <2>4
<1>15. ASSUME NEW h \in Groups, NEW k \in DOMAIN Calls, strategy = "AGG_HASHED", h # g
       PROVE  MaxOf(h, k)' = MaxOf(h, k) /\ ValueOf(h, k)' = ValueOf(h, k)
  <2>1. Place(h) # P
    BY <1>4, <1>15 DEF Place
  <2>2. argmax'[Place(h)] = argmax[Place(h)] /\ pergroup'[Place(h)] = pergroup[Place(h)]
    BY <1>10, <1>11, <1>12, <2>1
  <2> QED  BY <1>12, <2>2 DEF MaxOf, ValueOf
<1> QED  BY <1>1, <1>2, <1>3, <1>13, <1>14, <1>15

(* How far the calls are afterwards *)
LEMMA AccumProgress ==
    ASSUME TypeOK, accum, NEW r, r = pos + 1, NEW c, c = call
    PROVE  /\ UNCHANGED <<strategy, input, entries, returned, result>>
           /\ pos' \in Nat /\ pos' >= pos /\ Last' = r /\ Last = r /\ r \in Nat /\ r # 0
           /\ \A i \in DOMAIN input, k \in DOMAIN Calls :
                 Seen(i, k)' <=> (Seen(i, k) \/ (i = r /\ k = c))
           /\ \A h \in Groups, k \in DOMAIN Calls :
                 Pending(h, k)' <=> (c < k /\ input[r].grp = h)
           /\ \A h, k : Pending(h, k) <=> (c <= k /\ input[r].grp = h)
           /\ \A k \in DOMAIN Calls : k < call' => pos' + 1 = r /\ k <= c
           /\ \A k \in DOMAIN Calls : c < k => pos' + 1 = r /\ call' = c + 1
<1>1. c \in 1..Len(Calls) /\ Len(Calls) \in Nat /\ pos \in Nat /\ DOMAIN Calls = 1..Len(Calls)
  <2>1. call # 0
    BY DEF accum
  <2> QED  BY <2>1, CallFacts, StateFacts
<1>2. DOMAIN input = 1..Len(input) /\ Len(input) \in Nat
  BY StateFacts
<1>3. UNCHANGED <<strategy, input, entries, returned, result>>
  BY DEF accum
<1>4. CASE c = Len(Calls)
  <2>1. pos' = r /\ call' = 0
    BY <1>4 DEF accum
  <2> QED  BY <1>1, <1>2, <1>3, <2>1, <1>4 DEF Last, Seen, Pending
<1>5. CASE c # Len(Calls)
  <2>1. pos' = pos /\ call' = c + 1
    BY <1>5 DEF accum
  <2>2. \A i \in DOMAIN input, k \in DOMAIN Calls :
           Seen(i, k)' <=> (Seen(i, k) \/ (i = r /\ k = c))
    BY <1>1, <1>2, <2>1 DEF Seen
  <2>3. \A h \in Groups, k \in DOMAIN Calls :
           Pending(h, k)' <=> (c < k /\ input[r].grp = h)
    BY <1>1, <1>3, <2>1 DEF Pending
  <2>4. \A h, k : Pending(h, k) <=> (c <= k /\ input[r].grp = h)
    BY <1>1 DEF Pending
  <2>5. Last' = r /\ Last = r /\ r \in Nat /\ r # 0
    BY <1>1, <2>1 DEF Last
  <2> QED  BY <1>1, <1>3, <2>1, <2>2, <2>3, <2>4, <2>5
<1> QED  BY <1>4, <1>5

(* The groups of other rows are not touched. *)
LEMMA AccumOthers ==
    ASSUME TypeOK, EntriesInv, TypesApart, accum, strategy = "AGG_HASHED",
           NEW h \in Groups, GroupInv(h), h # input[pos + 1].grp
    PROVE  GroupInv(h)'
<1>1. PICK r : r = pos + 1
  OBVIOUS
<1>2. PICK c : c = call
  OBVIOUS
<1>3. PICK g : g = input[r].grp
  OBVIOUS
<1>4. \A k \in DOMAIN Calls : MaxOf(h, k)' = MaxOf(h, k) /\ ValueOf(h, k)' = ValueOf(h, k)
  BY <1>1, <1>2, <1>3, AccumEffect
<1>5. input' = input /\ \A i, k : ScoreOf(i, k)' = ScoreOf(i, k)
  BY DEF accum, ScoreOf
<1>6. RowsOf(h)' = RowsOf(h) /\ RowsOf(h) \subseteq DOMAIN input /\ r \notin RowsOf(h)
  BY <1>1, <1>5 DEF RowsOf
<1>7. \A i \in RowsOf(h), k \in DOMAIN Calls : Seen(i, k)' <=> Seen(i, k)
  BY <1>1, <1>2, <1>6, AccumProgress
<1>8. \A k \in DOMAIN Calls : ~Pending(h, k) /\ ~Pending(h, k)'
  BY <1>1, <1>2, <1>3, AccumProgress
<1>9. ASSUME NEW k \in DOMAIN Calls
      PROVE  Chosen(h, k)' /\ Hidden(h, k)'
  <2>1. Chosen(h, k) /\ Hidden(h, k)
    BY DEF GroupInv
  <2>2. PICK v : v = ValueOf(h, k)
    OBVIOUS
  <2>3. Chosen(h, k)'
    <3>1. \A i \in RowsOf(h) : Seen(i, k)' => ScoreOf(i, k) <= MaxOf(h, k)
      BY <1>7, <2>1 DEF Chosen
    <3>2. v # Zero => /\ v \in RowsOf(h) /\ Seen(v, k)'
                      /\ \A i \in RowsOf(h) : Seen(i, k)' => ScoreOf(i, k) <= ScoreOf(v, k)
                      /\ MaxOf(h, k) = ScoreOf(v, k)
      BY <1>7, <1>8, <2>1, <2>2 DEF Chosen
    <3> QED  BY <1>4, <1>5, <1>6, <2>2, <3>1, <3>2, ChosenFrom
  <2>4. Hidden(h, k)'
    BY <1>4, <1>5, <1>6, <1>7, <1>8, <2>1 DEF Hidden, accum
  <2> QED  BY <2>3, <2>4
<1>10. Together(h)'
  BY <1>4, <1>8 DEF Together, GroupInv
<1>11. Decided(h)'
  <2>1. \A k \in DOMAIN Calls : k < call' => pos' + 1 = r
    BY <1>1, <1>2, AccumProgress
  <2> QED  BY <1>1, <1>5, <2>1 DEF Decided
<1> QED  BY <1>9, <1>10, <1>11 DEF GroupInv

(* The group of the row: what a call k keeps of the rows it has seen *)
LEMMA AccumChosen ==
    ASSUME TypeOK, EntriesInv, TypesApart, accum,
           NEW g, g = input[pos + 1].grp, GroupInv(g), NEW k \in DOMAIN Calls
    PROVE  Chosen(g, k)' /\ Hidden(g, k)'
<1>1. PICK r : r = pos + 1
  OBVIOUS
<1>2. PICK c : c = call
  OBVIOUS
<1>3. PICK max : max = MaxOf(g, c)
  OBVIOUS
<1>4. PICK arg2 : arg2 = ScoreOf(r, c)
  OBVIOUS
<1>5. /\ c \in DOMAIN Calls /\ r \in DOMAIN input /\ g \in Groups
      /\ max \in Int /\ arg2 \in Int
      /\ ValueOf(g, k)' = IF k = c /\ ~(max > arg2) THEN r ELSE ValueOf(g, k)
      /\ IF Calls[k].type = Calls[c].type
         THEN /\ MaxOf(g, k) = max /\ ScoreOf(r, k) = arg2
              /\ MaxOf(g, k)' = IF max > arg2 THEN max ELSE arg2
         ELSE MaxOf(g, k)' = MaxOf(g, k)
  BY <1>1, <1>2, <1>3, <1>4, AccumEffect
<1>6. PICK v : v = ValueOf(g, k)
  OBVIOUS
<1>7. PICK M : M = MaxOf(g, k)
  OBVIOUS
<1>8. PICK N : N = MaxOf(g, k)'
  OBVIOUS
<1>9. PICK w : w = ValueOf(g, k)'
  OBVIOUS
<1>10. /\ \A i : ScoreOf(i, k)' = ScoreOf(i, k)
       /\ RowsOf(g)' = RowsOf(g) /\ RowsOf(g) \subseteq DOMAIN input /\ r \in RowsOf(g)
  BY <1>1, <1>5 DEF accum, ScoreOf, RowsOf
<1>11. /\ v \in Nat /\ M \in Int /\ N \in Int /\ k \in Nat /\ c \in Nat /\ r \in Nat /\ r # Zero
       /\ \A i \in RowsOf(g) : ScoreOf(i, k) \in Int
  <2>1. v \in Nat /\ M \in Int /\ \A i \in RowsOf(g) : ScoreOf(i, k) \in Int
    BY <1>5, <1>6, <1>7, <1>10, StateFacts
  <2>2. N \in Int
    BY <1>5, <1>7, <1>8, <2>1
  <2>3. k \in Nat /\ c \in Nat
    BY <1>5, CallFacts
  <2>4. r \in Nat /\ r # Zero
    BY <1>1, StateFacts DEF Zero
  <2> QED  BY <2>1, <2>2, <2>3, <2>4
<1>12. /\ \A i \in RowsOf(g) : Seen(i, k)' <=> (Seen(i, k) \/ (i = r /\ k = c))
       /\ Pending(g, k)' <=> c < k
       /\ Pending(g, k) <=> c <= k
       /\ c < k => pos' + 1 = r
  BY <1>1, <1>2, <1>5, <1>10, AccumProgress
<1>13. /\ \A i \in RowsOf(g) : Seen(i, k) => ScoreOf(i, k) <= M
       /\ v # Zero => /\ v \in RowsOf(g) /\ Seen(v, k)
                      /\ \A i \in RowsOf(g) : Seen(i, k) => ScoreOf(i, k) <= ScoreOf(v, k)
                      /\ M = ScoreOf(v, k) \/ (Pending(g, k) /\ M = ScoreOf(r, k))
  BY <1>1, <1>6, <1>7 DEF GroupInv, Chosen
<1>14. strategy = "AGG_HASHED" /\ v = Zero =>
          /\ \A i \in RowsOf(g) : Seen(i, k) => ScoreOf(i, k) < 0
          /\ M = 0 \/ (Pending(g, k) /\ M = ScoreOf(r, k))
  BY <1>1, <1>6, <1>7 DEF GroupInv, Hidden
<1>15. k < c => IF v = r THEN M = ScoreOf(r, k) ELSE M > ScoreOf(r, k)
  BY <1>1, <1>2, <1>6, <1>7 DEF GroupInv, Decided
<1>16. M <= N /\ (N = M \/ N = ScoreOf(r, k))
  BY <1>5, <1>7, <1>8, <1>11
<1>17. CASE k = c /\ ~(max > arg2)
  <2>1. w = r /\ N = ScoreOf(r, k) /\ M <= ScoreOf(r, k)
    BY <1>5, <1>7, <1>8, <1>9, <1>17
  <2>2. \A i \in RowsOf(g) : Seen(i, k)' => ScoreOf(i, k) <= ScoreOf(r, k)
    BY <1>10, <1>11, <1>12, <1>13, <2>1
  <2>3. Seen(r, k)'
    BY <1>10, <1>12, <1>17
  <2>4. Chosen(g, k)'
    BY <1>8, <1>9, <1>10, <2>1, <2>2, <2>3, ChosenFrom
  <2>5. Hidden(g, k)'
    BY <1>9, <1>11, <2>1 DEF Hidden
  <2> QED  BY <2>4, <2>5
<1>18. CASE k = c /\ max > arg2
  <2>1. w = v /\ N = M /\ M > ScoreOf(r, k)
    BY <1>5, <1>6, <1>7, <1>8, <1>9, <1>18
  <2>2. \A i \in RowsOf(g) : Seen(i, k)' => ScoreOf(i, k) <= N
    BY <1>10, <1>11, <1>12, <1>13, <2>1
  <2>3. ASSUME v # Zero
        PROVE  /\ v \in RowsOf(g) /\ Seen(v, k)' /\ N = ScoreOf(v, k)
               /\ \A i \in RowsOf(g) : Seen(i, k)' => ScoreOf(i, k) <= ScoreOf(v, k)
    BY <1>10, <1>11, <1>12, <1>13, <2>1, <2>3
  <2>4. Chosen(g, k)'
    BY <1>8, <1>9, <1>10, <2>1, <2>2, <2>3, ChosenFrom
  <2>5. Hidden(g, k)'
    <3> SUFFICES ASSUME strategy = "AGG_HASHED", v = Zero
                 PROVE  N = 0 /\ \A i \in RowsOf(g) : Seen(i, k)' => ScoreOf(i, k) < 0
      BY <1>8, <1>9, <1>10, <2>1 DEF Hidden, accum
    <3>1. M = 0
      BY <1>11, <1>14, <2>1
    <3> QED  BY <1>10, <1>11, <1>12, <1>14, <2>1, <3>1
  <2> QED  BY <2>4, <2>5
<1>19. CASE k # c
  <2>1. w = v /\ \A i \in RowsOf(g) : Seen(i, k)' <=> Seen(i, k)
    BY <1>5, <1>6, <1>9, <1>12, <1>19
  <2>2. \A i \in RowsOf(g) : Seen(i, k)' => ScoreOf(i, k) <= N
    BY <1>11, <1>13, <1>16, <2>1
  <2>3. (c < k /\ N = ScoreOf(r, k)) \/ (N = M /\ ~(Pending(g, k) /\ M = ScoreOf(r, k)))
    <3>1. CASE k < c
      BY <1>5, <1>7, <1>8, <1>11, <1>12, <1>15, <3>1
    <3>2. CASE c < k
      BY <1>7, <1>11, <1>12, <1>16, <3>2
    <3> QED  BY <1>11, <1>19, <3>1, <3>2
  <2>4. ASSUME v # Zero
        PROVE  /\ v \in RowsOf(g) /\ Seen(v, k)'
               /\ \A i \in RowsOf(g) : Seen(i, k)' => ScoreOf(i, k) <= ScoreOf(v, k)
               /\ N = ScoreOf(v, k) \/ (c < k /\ N = ScoreOf(r, k))
    BY <1>13, <2>1, <2>3, <2>4
  <2>5. c < k => Pending(g, k)' /\ ScoreOf(pos + 1, k)' = ScoreOf(r, k)
    BY <1>12 DEF ScoreOf, accum
  <2>6. Chosen(g, k)'
    BY <1>8, <1>9, <1>10, <2>1, <2>2, <2>4, <2>5, ChosenFrom
  <2>7. Hidden(g, k)'
    <3> SUFFICES ASSUME strategy = "AGG_HASHED", v = Zero
                 PROVE  /\ N = 0 \/ (Pending(g, k)' /\ N = ScoreOf(pos + 1, k)')
                        /\ \A i \in RowsOf(g) : Seen(i, k)' => ScoreOf(i, k) < 0
      BY <1>8, <1>9, <1>10, <2>1 DEF Hidden, accum
    <3> QED  BY <1>14, <2>1, <2>3, <2>5
  <2> QED  BY <2>6, <2>7
<1> QED  BY <1>17, <1>18, <1>19

(* The group of the row: equal calls, and what the maximum tells *)
LEMMA AccumTogether ==
    ASSUME TypeOK, EntriesInv, TypesApart, accum,
           NEW g, g = input[pos + 1].grp, GroupInv(g)
    PROVE  Together(g)' /\ Decided(g)'
<1>1. PICK r : r = pos + 1
  OBVIOUS
<1>2. PICK c : c = call
  OBVIOUS
<1>3. PICK max : max = MaxOf(g, c)
  OBVIOUS
<1>4. PICK arg2 : arg2 = ScoreOf(r, c)
  OBVIOUS
<1>5. /\ c \in DOMAIN Calls /\ r \in DOMAIN input /\ g \in Groups
      /\ max \in Int /\ arg2 \in Int
      /\ \A k \in DOMAIN Calls :
            ValueOf(g, k)' = IF k = c /\ ~(max > arg2) THEN r ELSE ValueOf(g, k)
      /\ \A k \in DOMAIN Calls :
            IF Calls[k].type = Calls[c].type
            THEN /\ MaxOf(g, k) = max /\ ScoreOf(r, k) = arg2
                 /\ MaxOf(g, k)' = IF max > arg2 THEN max ELSE arg2
            ELSE MaxOf(g, k)' = MaxOf(g, k)
  BY <1>1, <1>2, <1>3, <1>4, AccumEffect
<1>6. /\ \A k \in DOMAIN Calls : Pending(g, k)' <=> c < k
      /\ \A k \in DOMAIN Calls : Pending(g, k) <=> c <= k
      /\ \A k \in DOMAIN Calls : k < call' => pos' + 1 = r /\ k <= c
      /\ \A k \in DOMAIN Calls : c < k => pos' + 1 = r /\ call' = c + 1
  BY <1>1, <1>2, <1>5, AccumProgress
<1>7. \A k \in DOMAIN Calls : k \in Nat
  BY CallFacts
<1>8. \A k \in DOMAIN Calls : k < c =>
         IF ValueOf(g, k) = r THEN MaxOf(g, k) = ScoreOf(r, k) ELSE MaxOf(g, k) > ScoreOf(r, k)
  BY <1>1, <1>2 DEF GroupInv, Decided
<1>9. \A k \in DOMAIN Calls : k < c /\ Calls[k].type = Calls[c].type =>
         (ValueOf(g, k) = r <=> ~(max > arg2))
  BY <1>5, <1>8
<1>10. Together(g)'
  <2> SUFFICES ASSUME NEW k \in DOMAIN Calls, NEW l \in DOMAIN Calls, Calls[k] = Calls[l]
               PROVE  \/ ValueOf(g, k)' = ValueOf(g, l)'
                      \/ k < call' /\ Pending(g, l)' /\ ValueOf(g, k)' = pos' + 1
                      \/ l < call' /\ Pending(g, k)' /\ ValueOf(g, l)' = pos' + 1
    BY DEF Together
  <2>1. \/ ValueOf(g, k) = ValueOf(g, l)
        \/ k < c /\ c <= l /\ ValueOf(g, k) = r
        \/ l < c /\ c <= k /\ ValueOf(g, l) = r
    BY <1>1, <1>2, <1>6 DEF GroupInv, Together
  <2>2. CASE k # c /\ l # c
    BY <1>5, <1>6, <1>7, <2>1, <2>2
  <2>3. CASE k = c /\ l = c
    BY <2>3
  <2>4. CASE k = c /\ l # c
    BY <1>5, <1>6, <1>7, <1>9, <2>1, <2>4
  <2>5. CASE k # c /\ l = c
    BY <1>5, <1>6, <1>7, <1>9, <2>1, <2>5
  <2> QED  BY <2>2, <2>3, <2>4, <2>5
<1>11. Decided(g)'
  <2> SUFFICES ASSUME NEW k \in DOMAIN Calls, k < call'
               PROVE  IF ValueOf(g, k)' = r THEN MaxOf(g, k)' = ScoreOf(r, k)
                      ELSE MaxOf(g, k)' > ScoreOf(r, k)
    <3>1. \A k \in DOMAIN Calls : ScoreOf(r, k)' = ScoreOf(r, k)
      BY DEF ScoreOf, accum
    <3>2. \A k \in DOMAIN Calls : k < call' => pos' + 1 = r
      BY <1>6
    <3> QED  BY <3>1, <3>2 DEF Decided, ScoreOf
  <2>1. k <= c
    BY <1>6
  <2>2. CASE k < c
    BY <1>5, <1>7, <1>8, <1>9, <2>2
  <2>3. CASE k = c
    <3>1. ValueOf(g, c) # r
      <4>1. r # Zero /\ ~Seen(r, c)
        BY <1>1, <1>2, <1>5, <1>7, StateFacts DEF Seen, Zero
      <4> QED  BY <1>5, <4>1 DEF GroupInv, Chosen
    <3> QED  BY <1>5, <2>3, <3>1
  <2> QED  BY <1>5, <1>7, <2>1, <2>2, <2>3
<1> QED  BY <1>10, <1>11

(* Together: a call on a row *)
LEMMA AccumStep ==
    ASSUME TypeOK, EntriesInv, TypesApart, LiveInv, ReturnedInv, accum
    PROVE  EntriesInv' /\ LiveInv' /\ ReturnedInv'
<1>1. PICK r : r = pos + 1
  OBVIOUS
<1>2. PICK c : c = call
  OBVIOUS
<1>3. /\ UNCHANGED <<strategy, input, entries, returned, result>>
      /\ pos' \in Nat /\ pos' >= pos /\ Last' = r /\ Last = r /\ r \in Nat /\ r # 0
  BY <1>1, <1>2, AccumProgress
<1>4. EntriesInv'
  BY <1>3 DEF EntriesInv
<1>5. ReturnedInv'
  BY <1>3, ReturnedStays
<1>6. \A g \in Groups : Live(g)' => Live(g)
  BY <1>3 DEF Live
<1>7. ASSUME NEW g \in Groups, Live(g)
      PROVE  GroupInv(g)'
  <2>1. GroupInv(g)
    BY <1>7 DEF LiveInv
  <2>2. CASE g = input[pos + 1].grp
    <3>1. \A k \in DOMAIN Calls : Chosen(g, k)' /\ Hidden(g, k)'
      BY <2>1, <2>2, AccumChosen
    <3> QED  BY <2>1, <2>2, <3>1, AccumTogether DEF GroupInv
  <2>3. CASE g # input[pos + 1].grp
    <3>1. strategy = "AGG_HASHED"
      BY <1>1, <1>3, <1>7, <2>3 DEF Live
    <3> QED  BY <2>1, <2>3, <3>1, AccumOthers
  <2> QED  BY <2>2, <2>3
<1> QED  BY <1>4, <1>5, <1>6, <1>7 DEF LiveInv

-----------------------------------------------------------------------------
(* The other steps *)

(* If nothing but the results changes, the groups stay as they are. *)
LEMMA LiveStays ==
    ASSUME EntriesInv, LiveInv,
           UNCHANGED <<strategy, input, pos, call, entries, argmax, pergroup>>
    PROVE  EntriesInv' /\ LiveInv'
<1>1. EntriesInv'
  BY DEF EntriesInv, Last
<1>2. LiveInv'
  BY DEF LiveInv, Live, Last, GroupInv, Chosen, Hidden, Together, Decided, RowsOf, Seen,
         ScoreOf, MaxOf, ValueOf, Pending, Place
<1> QED  BY <1>1, <1>2

(* Groups are returned after the last row. *)
LEMMA LastGroupsStep ==
    ASSUME TypeOK, EntriesInv, LiveInv, ReturnedInv, agg_done \/ agg_retrieve_hash_table
    PROVE  EntriesInv' /\ LiveInv' /\ ReturnedInv'
<1>1. /\ UNCHANGED <<strategy, input, pos, call, entries, argmax, pergroup>>
      /\ pos = Len(input)
  BY DEF agg_done, agg_retrieve_hash_table
<1>2. call = 0
  BY <1>1, StateFacts DEF TypeOK
<1>3. PICK g \in Groups : Live(g) /\ Return(g)
  <2>1. CASE agg_done
    <3>1. input[pos].grp \in Groups /\ Live(input[pos].grp)
      BY <1>1, <1>2, <2>1, StateFacts DEF agg_done, Live, Last
    <3> QED  BY <2>1, <3>1 DEF agg_done
  <2>2. CASE agg_retrieve_hash_table
    <3>1. PICK h \in entries \ returned : Return(h)
      BY <2>2 DEF agg_retrieve_hash_table
    <3>2. h \in Groups /\ Live(h)
      BY <2>2 DEF agg_retrieve_hash_table, Live, TypeOK
    <3> QED  BY <3>1, <3>2
  <2> QED  BY <2>1, <2>2
<1>4. Complete(g)
  BY <1>1, StateFacts DEF Complete, RowsOf
<1> QED  BY <1>1, <1>2, <1>3, <1>4, ReturnStep, LiveStays

(* Another scan *)
LEMMA ReScanStep ==
    ASSUME TypeOK, TypeOK', EntriesInv, LiveInv, ExecReScanAgg
    PROVE  EntriesInv' /\ LiveInv' /\ ReturnedInv'
<1>1. ReturnedInv'
  BY DEF ExecReScanAgg, ReturnedInv, OneRow, NeverSubmaximal, MaximalInHashTable
<1>2. strategy' = strategy /\ call' = call /\ call = 0
  BY DEF ExecReScanAgg
<1>3. CASE UNCHANGED <<input, pos, entries, argmax, pergroup>>
  BY <1>1, <1>2, <1>3, LiveStays
<1>4. CASE pos' = 0 /\ entries' = {}
  <2>1. Last' = 0
    BY <1>2, <1>4 DEF Last
  <2>2. EntriesInv'
    BY <1>4, <2>1 DEF EntriesInv
  <2>3. \A g \in Groups : ~Live(g)'
    BY <1>4, <2>1 DEF Live
  <2> QED  BY <1>1, <2>2, <2>3 DEF LiveInv
<1> QED  BY <1>3, <1>4 DEF ExecReScanAgg

-----------------------------------------------------------------------------
(* Theorems *)

(* The invariant holds at the start. *)
LEMMA InitInv == Init => ArgmaxInv
<1> SUFFICES ASSUME Init PROVE ArgmaxInv
  OBVIOUS
<1>1. TypeOK
  <2>1. MaxRows \in 0..MaxRows
    BY ConstantsAssumption
  <2>2. Len(input) \in Nat /\ Len(input) > 0
    BY <2>1, InputFacts DEF Init
  <2>3. strategy \in {"AGG_SORTED", "AGG_HASHED"}
    BY ConstantsAssumption DEF Init
  <2>4. /\ argmax \in [Places -> [Types -> Int]]
        /\ pergroup \in [Places -> [DOMAIN Calls -> Nat]]
        /\ result \in [Groups -> [DOMAIN Calls -> Nat]]
    BY DEF Init, palloc0, NoTrans, Zero
  <2> QED  BY <2>2, <2>3, <2>4, CallFacts DEF Init, TypeOK
<1>2. Last = 0
  BY DEF Init, Last
<1>3. EntriesInv
  BY <1>2 DEF Init, EntriesInv
<1>4. LiveInv
  BY <1>2 DEF Init, LiveInv, Live
<1>5. ReturnedInv
  BY DEF Init, ReturnedInv, OneRow, NeverSubmaximal, MaximalInHashTable
<1> QED  BY <1>1, <1>3, <1>4, <1>5 DEF ArgmaxInv

(* Every step keeps it. *)
LEMMA NextInv ==
    ASSUME TypesApart
    PROVE  ArgmaxInv /\ [Next]_vars => ArgmaxInv'
<1> SUFFICES ASSUME ArgmaxInv, [Next]_vars PROVE ArgmaxInv'
  OBVIOUS
<1>1. TypeOK /\ EntriesInv /\ LiveInv /\ ReturnedInv
  BY DEF ArgmaxInv
<1>2. TypeOK'
  BY <1>1, TypeStep
<1>3. EntriesInv' /\ LiveInv' /\ ReturnedInv'
  <2>1. CASE lookup_hash_entry
    <3>1. UNCHANGED <<strategy, input, pos, returned, result>> /\ pos \in Nat
      BY <1>1, <2>1, StateFacts DEF lookup_hash_entry
    <3>2. ReturnedInv'
      BY <1>1, <3>1, ReturnedStays
    <3> QED  BY <1>1, <1>2, <2>1, <3>2, LookupStep
  <2>2. CASE agg_retrieve_direct
    BY <1>1, <1>2, <2>2, DirectStep
  <2>3. CASE accum
    BY <1>1, <2>3, AccumStep
  <2>4. CASE agg_done \/ agg_retrieve_hash_table
    BY <1>1, <2>4, LastGroupsStep
  <2>5. CASE ExecReScanAgg
    BY <1>1, <1>2, <2>5, ReScanStep
  <2>6. CASE UNCHANGED vars
    <3>1. /\ UNCHANGED <<strategy, input, pos, call, entries, argmax, pergroup>>
          /\ UNCHANGED <<strategy, input, returned, result>> /\ pos \in Nat
      BY <1>1, <2>6, StateFacts DEF vars
    <3> QED  BY <1>1, <3>1, LiveStays, ReturnedStays
  <2> QED  BY <2>1, <2>2, <2>3, <2>4, <2>5, <2>6 DEF Next
<1> QED  BY <1>2, <1>3 DEF ArgmaxInv

(* The invariant holds in every state, for any rows, groups, strategy and  *)
(* number of calls and scans, if calls that share a field of argmaxState   *)
(* have the same value attribute.                                          *)
THEOREM ArgmaxInvariant ==
    ASSUME TypesApart
    PROVE  Spec => []ArgmaxInv
<1>1. Init => ArgmaxInv
  BY InitInv
<1>2. ArgmaxInv /\ [Next]_vars => ArgmaxInv'
  BY NextInv
<1> QED  BY <1>1, <1>2, PTL DEF Spec

(* Then an argument that is returned is never the one of a row that is not *)
(* maximal in its group, whatever other groups and earlier scans have left *)
(* in the state of the node.                                               *)
THEOREM ArgmaxSound ==
    ASSUME TypesApart
    PROVE  Spec => []NeverSubmaximal
<1>1. ArgmaxInv => NeverSubmaximal
  BY DEF ArgmaxInv, ReturnedInv
<1> QED  BY <1>1, ArgmaxInvariant, PTL

(* Columns returned by several calls with one value attribute are columns  *)
(* of one row.                                                             *)
THEOREM ArgmaxOneRow ==
    ASSUME TypesApart
    PROVE  Spec => []OneRow
<1>1. ArgmaxInv => OneRow
  BY DEF ArgmaxInv, ReturnedInv
<1> QED  BY <1>1, ArgmaxInvariant, PTL

(* Hashed groups with a value from 0 on get the argument of a row with the *)
(* maximal value.                                                          *)
THEOREM ArgmaxHashed ==
    ASSUME TypesApart
    PROVE  Spec => []MaximalInHashTable
<1>1. ArgmaxInv => MaximalInHashTable
  BY DEF ArgmaxInv, ReturnedInv
<1> QED  BY <1>1, ArgmaxInvariant, PTL
=============================================================================
