--------------------------- MODULE WorldTable_proofs ---------------------------
(***************************************************************************)
(* What LocalCond hands to the confidence operators: faithful offsets,     *)
(* arrays with room, and, all of it together, the plain table of module    *)
(* WorldTable, which the hash table implements step by step.               *)
(***************************************************************************)
EXTENDS LocalCond_proofs, FiniteSetTheorems

-----------------------------------------------------------------------------
(* Offsets *)

(* Map m names its variable and its range by offsets into table t. *)
Faithful(m, t) ==
    /\ m.wt_offset \in DOMAIN t
    /\ t[m.wt_offset].var = m.var
    /\ m.rng_offset \in DOMAIN t[m.wt_offset].rngs
    /\ t[m.wt_offset].rngs[m.rng_offset] = m.rng

(* Table u has the entries of t in their places, each with its ranges in   *)
(* their places.                                                           *)
Extends(u, t) ==
    /\ DOMAIN t \subseteq DOMAIN u
    /\ \A e \in DOMAIN t :
        /\ u[e].var = t[e].var
        /\ DOMAIN t[e].rngs \subseteq DOMAIN u[e].rngs
        /\ \A k \in DOMAIN t[e].rngs : u[e].rngs[k] = t[e].rngs[k]

LEMMA FaithfulExtends ==
    ASSUME NEW t, NEW u, Extends(u, t), NEW m, Faithful(m, t)
    PROVE  Faithful(m, u)
  BY DEF Extends, Faithful

LEMMA ExtendsRefl ==
    ASSUME NEW t PROVE Extends(t, t)
  BY DEF Extends

LEMMA ExtendsTrans ==
    ASSUME NEW t, NEW u, NEW v, Extends(u, t), Extends(v, u)
    PROVE  Extends(v, t)
  <1>1. DOMAIN t \subseteq DOMAIN v
    BY DEF Extends
  <1>2. ASSUME NEW e \in DOMAIN t
        PROVE  /\ v[e].var = t[e].var
               /\ DOMAIN t[e].rngs \subseteq DOMAIN v[e].rngs
               /\ \A k \in DOMAIN t[e].rngs : v[e].rngs[k] = t[e].rngs[k]
    BY DEF Extends
  <1> QED
    BY <1>1, <1>2 DEF Extends

(* wtEntryInit adds an entry without ranges at the end. *)
LEMMA EntryInitEffect ==
    ASSUME TypeOK
    PROVE  /\ wtEntryInit(key) \in Seq(Entries)
           /\ Len(wtEntryInit(key)) = Len(wt) + 1
           /\ \A d \in 1..Len(wt) : wtEntryInit(key)[d] = wt[d]
           /\ wtEntryInit(key)[Len(wt) + 1] = NewEntry(key)
           /\ Extends(wtEntryInit(key), wt)
  <1>1. wt \in Seq(Entries) /\ NewEntry(key) \in Entries
    BY SlotType, LocalCondAssumption DEF TypeOK, NewEntry, Entries
  <1>2. /\ wtEntryInit(key) \in Seq(Entries)
        /\ Len(wtEntryInit(key)) = Len(wt) + 1
        /\ \A d \in 1..Len(wt) : wtEntryInit(key)[d] = wt[d]
        /\ wtEntryInit(key)[Len(wt) + 1] = NewEntry(key)
    BY <1>1 DEF wtEntryInit
  <1>3. DOMAIN wt = 1..Len(wt) /\ DOMAIN wtEntryInit(key) = 1..(Len(wt) + 1) /\ Len(wt) \in Nat
    BY <1>1, <1>2
  <1> QED
    BY <1>2, <1>3 DEF Extends

(* Step 2 of updateWorldTable: the map that is bound names its variable    *)
(* and range in the table that results, which extends the one before.  The *)
(* table changes only in the entry of the map, if the range is new.        *)
LEMMA BindRangeMap ==
    ASSUME TypeOK, NEW t \in Seq(Entries), NEW e \in 1..Len(t), t[e].var = key, BindRange(t, e)
    PROVE  \E k \in Nat :
               /\ NextMap(Bound(e, k))
               /\ Faithful(Map(key, wsd[j].rng, e, k), wt')
               /\ Extends(wt', t)
               /\ \/ wt' = t /\ k \in DOMAIN t[e].rngs
                  \/ /\ \A i \in DOMAIN t[e].rngs : t[e].rngs[i] # wsd[j].rng
                     /\ k = Len(t[e].rngs) + 1
                     /\ wt' = rngEntryInit(t, e, wsd[j].rng)
  <1> DEFINE r == wsd[j].rng
             known == KnownRanges(t, e, r)
  <1>1. /\ t[e] \in Entries /\ t[e].rngs \in Seq(RngIds)
        /\ DOMAIN t = 1..Len(t) /\ DOMAIN t[e].rngs = 1..Len(t[e].rngs)
        /\ Len(t[e].rngs) \in Nat
    <2>1. t[e] \in Entries
      OBVIOUS
    <2>2. t[e].rngs \in Seq(RngIds)
      BY <2>1 DEF Entries
    <2> QED
      BY <2>1, <2>2
  <1>2. CASE known # {} /\ wt' = t /\ NextMap(Bound(e, CHOOSE k \in known : TRUE))
    <2>1. PICK k : k = (CHOOSE i \in known : TRUE)
      OBVIOUS
    <2>2. k \in known
      BY <1>2, <2>1
    <2>3. k \in DOMAIN t[e].rngs /\ t[e].rngs[k] = r /\ k \in Nat
      BY <1>1, <2>2 DEF KnownRanges
    <2>4. Faithful(Map(key, r, e, k), wt')
      BY <1>1, <1>2, <2>3 DEF Faithful, Map
    <2> QED
      BY <1>2, <2>1, <2>3, <2>4, ExtendsRefl
  <1>3. CASE known = {} /\ wt' = rngEntryInit(t, e, r) /\ NextMap(Bound(e, Len(t[e].rngs) + 1))
    <2> DEFINE k == Len(t[e].rngs) + 1
    <2>1. \A i \in DOMAIN t[e].rngs : t[e].rngs[i] # r
      BY <1>3 DEF KnownRanges
    <2>2. /\ DOMAIN wt' = 1..Len(t)
          /\ wt'[e].var = t[e].var /\ wt'[e].rngs = Append(t[e].rngs, r)
          /\ \A d \in 1..Len(t) : d # e => wt'[d] = t[d]
      BY <1>1, <1>3 DEF rngEntryInit
    <2>3. /\ DOMAIN wt'[e].rngs = 1..k /\ wt'[e].rngs[k] = r
          /\ \A i \in 1..Len(t[e].rngs) : wt'[e].rngs[i] = t[e].rngs[i]
      BY <1>1, <2>2
    <2>4. Faithful(Map(key, r, e, k), wt')
      BY <1>1, <2>2, <2>3 DEF Faithful, Map
    <2>5. Extends(wt', t)
      <3> SUFFICES ASSUME NEW d \in 1..Len(t)
                   PROVE  /\ wt'[d].var = t[d].var
                          /\ DOMAIN t[d].rngs \subseteq DOMAIN wt'[d].rngs
                          /\ \A i \in DOMAIN t[d].rngs : wt'[d].rngs[i] = t[d].rngs[i]
        BY <1>1, <2>2 DEF Extends
      <3>1. CASE d = e
        BY <1>1, <2>2, <2>3, <3>1
      <3>2. CASE d # e
        BY <2>2, <3>2
      <3> QED
        BY <3>1, <3>2
    <2>6. k \in Nat /\ k = Len(t[e].rngs) + 1
      BY <1>1
    <2> HIDE DEF k
    <2>7. /\ NextMap(Bound(e, k))
          /\ wt' = rngEntryInit(t, e, wsd[j].rng)
      BY <1>3, <2>6
    <2> QED
      BY <2>1, <2>4, <2>5, <2>6, <2>7
  <1> QED
    BY <1>2, <1>3 DEF BindRange

(* The offsets of the clauses in S and of the maps bound so far. *)
BoundFaithful == pc # "idle" => \A a \in 1..(j - 1) : Faithful(wsd[a], wt)

StoredFaithful == \A i \in DOMAIN S : \A a \in 1..WSD_LEN : Faithful(S[i][a], wt)

OffsetInv == TypeInv /\ BoundFaithful /\ StoredFaithful

(* A step that binds a map with faithful offsets keeps all of them. *)
LEMMA NextMapFaithful ==
    ASSUME OffsetInv, pc # "idle", TypeInv', NEW e, NEW k, NextMap(Bound(e, k)),
           Faithful(Map(key, wsd[j].rng, e, k), wt'), Extends(wt', wt)
    PROVE  OffsetInv'
  <1> DEFINE w == Bound(e, k)
  <1>1. /\ TypeOK /\ BoundFaithful /\ StoredFaithful
        /\ WSD_LEN \in Nat \ {0} /\ j \in 1..WSD_LEN
        /\ wsd \in [1..WSD_LEN -> Maps] /\ S \in Seq([1..WSD_LEN -> Maps])
    BY LocalCondAssumption DEF OffsetInv, TypeInv, TypeOK
  <1>2. /\ \A a \in 1..WSD_LEN : a # j => w[a] = wsd[a]
        /\ w[j] = Map(key, wsd[j].rng, e, k)
    BY <1>1 DEF Bound, key
  <1>3. \A a \in 1..j : Faithful(w[a], wt')
    <2> SUFFICES ASSUME NEW a \in 1..j PROVE Faithful(w[a], wt')
      OBVIOUS
    <2>1. CASE a = j
      BY <1>2, <2>1
    <2>2. CASE a # j
      <3>1. a \in 1..(j - 1) /\ a \in 1..WSD_LEN
        BY <1>1, <2>2
      <3>2. Faithful(wsd[a], wt)
        BY <1>1, <3>1 DEF BoundFaithful
      <3> QED
        BY <1>2, <2>2, <3>1, <3>2, FaithfulExtends
    <2> QED
      BY <2>1, <2>2
  <1>4. \A i \in DOMAIN S : \A a \in 1..WSD_LEN : Faithful(S[i][a], wt')
    BY <1>1, FaithfulExtends DEF StoredFaithful
  <1>5. CASE j < WSD_LEN
    <2>1. wsd' = w /\ j' = j + 1 /\ S' = S
      BY <1>5 DEF NextMap
    <2>2. BoundFaithful'
      BY <1>1, <1>3, <2>1 DEF BoundFaithful
    <2>3. StoredFaithful'
      BY <1>4, <2>1 DEF StoredFaithful
    <2> QED
      BY <2>2, <2>3 DEF OffsetInv
  <1>6. CASE ~(j < WSD_LEN)
    <2>1. pc' = "idle" /\ S' = Append(S, w) /\ j = WSD_LEN
      BY <1>1, <1>6 DEF NextMap
    <2>2. StoredFaithful'
      <3> SUFFICES ASSUME NEW i \in DOMAIN S', NEW a \in 1..WSD_LEN
                   PROVE  Faithful(S'[i][a], wt')
        BY DEF StoredFaithful
      <3>1. CASE i \in DOMAIN S
        <4>1. S'[i] = S[i]
          BY <1>1, <2>1, <3>1
        <4> QED
          BY <1>4, <3>1, <4>1
      <3>2. CASE i \notin DOMAIN S
        <4>1. S'[i] = w
          BY <1>1, <2>1, <3>2
        <4> QED
          BY <1>3, <2>1, <4>1
      <3> QED
        BY <3>1, <3>2
    <2> QED
      BY <2>1, <2>2 DEF OffsetInv, BoundFaithful
  <1> QED
    BY <1>5, <1>6

(* The entry that a step binds to has the variable that is looked up. *)
LEMMA FoundEntry ==
    ASSUME TypeInv, FindEntry
    PROVE  search(HT[slot], key) \in 1..Len(wt) /\ wt[search(HT[slot], key)].var = key
  <1> DEFINE l == HT[slot]
  <1>1. Matches(l, key) # {} /\ search(l, key) \in Matches(l, key)
    BY DEF FindEntry, search
  <1>2. l \in 1..Len(heap)
    <2>1. HT \in [Slots(width) -> 0..Len(heap)] /\ slot \in Slots(width) /\ heap \in Seq(Lists)
      BY SlotType DEF TypeInv, TypeOK
    <2> QED
      BY <2>1 DEF FindEntry, NULL
  <1> QED
    BY <1>1, <1>2 DEF Matches, TypeInv

LEMMA OffsetStep == OffsetInv /\ [Next]_vars => OffsetInv'
  <1> SUFFICES ASSUME OffsetInv, [Next]_vars PROVE OffsetInv'
    OBVIOUS
  <1>1. TypeInv /\ TypeOK /\ TypeInv'
    BY NextTypeInv DEF OffsetInv, TypeInv
  <1>2. wt \in Seq(Entries) /\ Len(wt) \in Nat /\ WSD_LEN \in Nat \ {0}
    BY <1>1, LocalCondAssumption DEF TypeOK
  <1>3. ASSUME NEW c \in Clauses, advance(c) PROVE OffsetInv'
    <2>1. j' = 1 /\ S' = S /\ (S = <<>> \/ wt' = wt)
      BY <1>3 DEF advance
    <2>2. BoundFaithful'
      BY <2>1 DEF BoundFaithful
    <2>3. StoredFaithful'
      BY <2>1 DEF OffsetInv, StoredFaithful
    <2> QED
      BY <1>1, <2>2, <2>3 DEF OffsetInv
  <1>4. ASSUME NEW t \in Seq(Entries), NEW e \in 1..Len(t), t[e].var = key, BindRange(t, e),
               Extends(t, wt), pc # "idle"
        PROVE  OffsetInv'
    <2>1. PICK k \in Nat : /\ NextMap(Bound(e, k))
                           /\ Faithful(Map(key, wsd[j].rng, e, k), wt')
                           /\ Extends(wt', t)
      BY <1>1, <1>4, BindRangeMap
    <2>2. Extends(wt', wt)
      BY <1>4, <2>1, ExtendsTrans
    <2> QED
      BY <1>1, <1>4, <2>1, <2>2, NextMapFaithful
  <1>5. CASE CreateBucket
    <2>1. wtEntryInit(key)[Len(wt) + 1].var = key
      BY <1>1, EntryInitEffect DEF NewEntry
    <2> QED
      BY <1>1, <1>2, <1>4, <1>5, <2>1, EntryInitEffect DEF CreateBucket
  <1>6. CASE FindEntry
    BY <1>1, <1>2, <1>4, <1>6, FoundEntry, ExtendsRefl DEF FindEntry
  <1>7. CASE AppendKey
    <2>1. Len(wt) \in 1..Len(wt) /\ wt[Len(wt)].var = key
      BY <1>1, <1>2, <1>7 DEF AppendKey, TypeInv, GrowingEntry
    <2> QED
      BY <1>2, <1>4, <1>7, <2>1, ExtendsRefl DEF AppendKey
  <1>8. CASE AllocateEntry
    <2>1. Extends(wt', wt) /\ pc # "idle" /\ wsd' = wsd /\ j' = j /\ S' = S
      BY <1>1, <1>8, EntryInitEffect DEF AllocateEntry
    <2>2. BoundFaithful'
      BY <2>1, FaithfulExtends DEF OffsetInv, BoundFaithful
    <2>3. StoredFaithful'
      BY <2>1, FaithfulExtends DEF OffsetInv, StoredFaithful
    <2> QED
      BY <1>1, <2>2, <2>3 DEF OffsetInv
  <1>9. CASE SplitBucket \/ UNCHANGED vars
    <2>1. UNCHANGED <<S, wsd, j, pc, wt>>
      BY <1>9 DEF SplitBucket, vars
    <2> QED
      BY <1>1, <2>1 DEF OffsetInv, BoundFaithful, StoredFaithful
  <1>10. CASE FinalGroup
    <2>1. S' = <<>> /\ UNCHANGED <<wsd, j, pc, wt>>
      BY <1>10 DEF FinalGroup
    <2> QED
      BY <1>1, <2>1 DEF OffsetInv, BoundFaithful, StoredFaithful
  <1> QED
    BY <1>3, <1>5, <1>6, <1>7, <1>8, <1>9, <1>10 DEF Next, updateWorldTable

(* The offsets that advance() stores in a clause name its variables and    *)
(* ranges until the final function turns them into pointers, whatever is   *)
(* inserted, split and reallocated in between; a late bucket, which may    *)
(* give a variable a second entry, does not disturb them.                  *)
THEOREM OffsetsStayFaithful == Spec => []OffsetsFaithful
  <1>1. Init => OffsetInv
    <2> SUFFICES ASSUME Init PROVE OffsetInv
      OBVIOUS
    <2>1. S = <<>> /\ pc = "idle"
      BY DEF Init
    <2> QED
      BY <2>1, InitTypeInv DEF OffsetInv, BoundFaithful, StoredFaithful
  <1>2. OffsetInv => OffsetsFaithful
    BY DEF OffsetInv, StoredFaithful, Faithful, OffsetsFaithful
  <1> QED
    BY <1>1, <1>2, OffsetStep, PTL DEF Spec

-----------------------------------------------------------------------------
(* Allocation *)

BucketsRoom(hp) ==
    \A l \in DOMAIN hp : Cardinality(hp[l].elems) <= LIST_INIT_SIZE

RangesRoom(t) ==
    \A e \in DOMAIN t : Len(t[e].rngs) < t[e].rng_entry_max

(* advance() enlarges S before the clause is built, one element early. *)
LineageRoom ==
    /\ Len(S) < current_size
    /\ pc # "idle" => Len(S) < current_size - 1

AllocInv ==
    /\ TypeInv
    /\ BucketsRoom(heap)
    /\ Len(wt) < wt_entry_max
    /\ RangesRoom(wt)
    /\ LineageRoom

(* Doubling a full array leaves room for the next element. *)
LEMMA GrownRoom ==
    ASSUME NEW n \in Nat, NEW max \in Nat, n < max
    PROVE  n + 1 < Grown(n + 1, max)
  BY DEF Grown

LEMMA WtEntryRoom ==
    ASSUME AllocInv
    PROVE  /\ Len(wtEntryInit(key)) < Grown(Len(wt) + 1, wt_entry_max)
           /\ RangesRoom(wtEntryInit(key))
  <1>1. /\ TypeOK /\ wt \in Seq(Entries) /\ Len(wt) \in Nat /\ wt_entry_max \in Nat
        /\ Len(wt) < wt_entry_max /\ RangesRoom(wt)
    BY DEF AllocInv, TypeInv, TypeOK
  <1>2. Len(wtEntryInit(key)) < Grown(Len(wt) + 1, wt_entry_max)
    BY <1>1, EntryInitEffect, GrownRoom
  <1>3. Len(NewEntry(key).rngs) < NewEntry(key).rng_entry_max
    BY LocalCondAssumption DEF NewEntry
  <1>4. DOMAIN wtEntryInit(key) = 1..(Len(wt) + 1) /\ DOMAIN wt = 1..Len(wt)
    BY <1>1, EntryInitEffect
  <1> QED
    BY <1>1, <1>2, <1>3, <1>4, EntryInitEffect DEF RangesRoom

(* Step 2 of updateWorldTable leaves room in the ranges and in S. *)
LEMMA BindRangeRoom ==
    ASSUME TypeOK, LineageRoom, pc # "idle", current_size' = current_size,
           NEW t \in Seq(Entries), NEW e \in 1..Len(t), t[e].var = key,
           RangesRoom(t), BindRange(t, e)
    PROVE  Len(wt') = Len(t) /\ RangesRoom(wt)' /\ LineageRoom'
  <1>1. PICK k \in Nat :
          /\ NextMap(Bound(e, k))
          /\ \/ wt' = t /\ k \in DOMAIN t[e].rngs
             \/ wt' = rngEntryInit(t, e, wsd[j].rng)
    BY BindRangeMap
  <1>2. LineageRoom'
    <2>1. S \in Seq([1..WSD_LEN -> Maps]) /\ Len(S) \in Nat /\ current_size \in Nat
      BY DEF TypeOK
    <2>2. S' = S \/ (pc' = "idle" /\ Len(S') = Len(S) + 1)
      BY <1>1, <2>1 DEF NextMap
    <2> QED
      BY <2>1, <2>2 DEF LineageRoom
  <1>3. t[e] \in Entries /\ DOMAIN t = 1..Len(t)
    OBVIOUS
  <1>4. t[e].rngs \in Seq(RngIds) /\ t[e].rng_entry_max \in Nat /\ Len(t[e].rngs) \in Nat
    BY <1>3 DEF Entries
  <1>5. CASE wt' = rngEntryInit(t, e, wsd[j].rng)
    <2>1. /\ DOMAIN wt' = 1..Len(t)
          /\ Len(wt'[e].rngs) = Len(t[e].rngs) + 1
          /\ wt'[e].rng_entry_max = Grown(Len(t[e].rngs) + 1, t[e].rng_entry_max)
          /\ \A d \in 1..Len(t) : d # e => wt'[d] = t[d]
      BY <1>3, <1>4, <1>5 DEF rngEntryInit
    <2>2. Len(wt'[e].rngs) < wt'[e].rng_entry_max
      BY <1>3, <1>4, <2>1, GrownRoom DEF RangesRoom
    <2>3. RangesRoom(wt')
      BY <1>3, <2>1, <2>2 DEF RangesRoom
    <2> QED
      BY <1>2, <1>5, <2>3, BindRangeEffect
  <1> QED
    BY <1>1, <1>2, <1>5

(* A bucket that is not full takes one entry more. *)
LEMMA BucketTakesEntry ==
    ASSUME NEW E, IsFiniteSet(E), NEW n \in Nat, Cardinality(E) <= n, Cardinality(E) # n, NEW x
    PROVE  Cardinality(E \cup {x}) <= n
  <1>1. Cardinality(E) \in Nat
    BY FS_CardinalityType
  <1>2. Cardinality(E \cup {x}) = IF x \in E THEN Cardinality(E) ELSE Cardinality(E) + 1
    BY FS_AddElement
  <1> QED
    BY <1>1, <1>2

(* Buckets hold finitely many entries. *)
LEMMA BucketFinite ==
    ASSUME TypeInv, NEW l \in 1..Len(heap)
    PROVE  IsFiniteSet(heap[l].elems)
  <1>1. Len(wt) \in Nat /\ heap[l].elems \in SUBSET (1..Len(wt))
    BY DEF TypeInv, TypeOK
  <1>2. IsFiniteSet(1..Len(wt))
    BY <1>1, FS_Interval
  <1> QED
    BY <1>1, <1>2, FS_Subset

LEMMA InitAllocInv == Init => AllocInv
  <1> SUFFICES ASSUME Init PROVE AllocInv
    OBVIOUS
  <1>1. /\ S = <<>> /\ heap = <<>> /\ wt = <<>> /\ wt_entry_max = WTINITSIZE
        /\ current_size = SINITSIZE /\ pc = "idle"
    BY DEF Init
  <1> QED
    BY <1>1, InitTypeInv, LocalCondAssumption
    DEF AllocInv, BucketsRoom, RangesRoom, LineageRoom

LEMMA AllocStep == AllocInv /\ [Next]_vars => AllocInv'
  <1> SUFFICES ASSUME AllocInv, [Next]_vars PROVE AllocInv'
    OBVIOUS
  <1>1. /\ TypeInv /\ TypeOK /\ TypeInv' /\ LineageRoom /\ RangesRoom(wt) /\ BucketsRoom(heap)
        /\ Len(wt) < wt_entry_max
    BY NextTypeInv DEF AllocInv, TypeInv
  <1>2. /\ wt \in Seq(Entries) /\ Len(wt) \in Nat /\ heap \in Seq(Lists) /\ Len(heap) \in Nat
        /\ S \in Seq([1..WSD_LEN -> Maps]) /\ Len(S) \in Nat /\ current_size \in Nat
        /\ DOMAIN heap = 1..Len(heap) /\ DOMAIN wt = 1..Len(wt)
        /\ LIST_INIT_SIZE \in Nat \ {0}
    BY <1>1, LocalCondAssumption DEF TypeOK
  <1>3. ASSUME NEW c \in Clauses, advance(c) PROVE AllocInv'
    <2>1. S' = S /\ pc = "idle"
      BY <1>3 DEF advance
    <2>2. CASE S = <<>>
      <3>1. /\ current_size' = SINITSIZE /\ heap' = <<>> /\ wt' = <<>>
            /\ wt_entry_max' = WTINITSIZE
        BY <1>3, <2>2 DEF advance, genStateInit
      <3>2. BucketsRoom(heap)' /\ RangesRoom(wt)' /\ Len(wt') < wt_entry_max'
        BY <3>1, LocalCondAssumption DEF BucketsRoom, RangesRoom
      <3>3. LineageRoom'
        BY <2>1, <2>2, <3>1, LocalCondAssumption DEF LineageRoom
      <3> QED
        BY <1>1, <3>2, <3>3 DEF AllocInv
    <2>3. CASE S # <<>>
      <3>1. /\ current_size' = IF Len(S) >= current_size - 1
                               THEN 2 * current_size ELSE current_size
            /\ UNCHANGED <<heap, wt, wt_entry_max>>
        BY <1>3, <2>3 DEF advance
      <3>2. LineageRoom'
        BY <1>1, <1>2, <2>1, <3>1 DEF LineageRoom
      <3> QED
        BY <1>1, <3>1, <3>2 DEF AllocInv
    <2> QED
      BY <2>2, <2>3
  <1>4. CASE CreateBucket
    <2> DEFINE t == wtEntryInit(key)
               m == Len(wt) + 1
               b == mlist_make(INITWIDTH, {m})
    <2>1. /\ t \in Seq(Entries) /\ Len(t) = m /\ m \in 1..Len(t) /\ t[m].var = key
      BY <1>1, <1>2, EntryInitEffect DEF NewEntry
    <2>2. Len(wt') = Len(t) /\ RangesRoom(wt)' /\ LineageRoom'
      BY <1>1, <1>4, <2>1, WtEntryRoom, BindRangeRoom DEF CreateBucket
    <2>3. Len(wt') < wt_entry_max'
      BY <1>4, <2>2, WtEntryRoom DEF CreateBucket
    <2>4. BucketsRoom(heap)'
      <3>1. heap' = Append(heap, b) /\ b.elems = {m}
        BY <1>4 DEF CreateBucket, mlist_make
      <3>2. Cardinality({m}) <= LIST_INIT_SIZE
        <4>1. Cardinality({m}) = 1
          BY FS_Singleton, Zenon
        <4> QED
          BY <1>2, <4>1
      <3>3. /\ DOMAIN heap' = 1..(Len(heap) + 1) /\ heap'[Len(heap) + 1] = b
            /\ \A l \in 1..Len(heap) : heap'[l] = heap[l]
        BY <1>2, <3>1
      <3>4. \A l \in 1..(Len(heap) + 1) : l \in 1..Len(heap) \/ l = Len(heap) + 1
        BY <1>2
      <3>5. ASSUME NEW l \in DOMAIN heap' PROVE Cardinality(heap'[l].elems) <= LIST_INIT_SIZE
        <4>1. CASE l \in 1..Len(heap)
          BY <1>1, <1>2, <3>3, <4>1, Zenon DEF BucketsRoom
        <4>2. CASE l = Len(heap) + 1
          BY <3>1, <3>2, <3>3, <4>2, Zenon
        <4> QED
          BY <3>3, <3>4, <4>1, <4>2
      <3> QED
        BY <3>5 DEF BucketsRoom
    <2> QED
      BY <1>1, <2>2, <2>3, <2>4 DEF AllocInv
  <1>5. CASE FindEntry
    <2>1. Len(wt') = Len(wt) /\ RangesRoom(wt)' /\ LineageRoom'
      BY <1>1, <1>2, <1>5, FoundEntry, BindRangeRoom DEF FindEntry
    <2>2. heap' = heap /\ wt_entry_max' = wt_entry_max
      BY <1>5 DEF FindEntry
    <2> QED
      BY <1>1, <2>1, <2>2 DEF AllocInv
  <1>6. CASE AllocateEntry
    <2>1. /\ wt' = wtEntryInit(key) /\ wt_entry_max' = Grown(Len(wt) + 1, wt_entry_max)
          /\ UNCHANGED <<heap, S, current_size>> /\ pc # "idle"
      BY <1>6 DEF AllocateEntry
    <2> QED
      BY <1>1, <2>1, WtEntryRoom DEF AllocInv, LineageRoom
  <1>7. CASE AppendKey
    <2> DEFINE l == HT[slot]
    <2>1. Len(wt) \in 1..Len(wt) /\ wt[Len(wt)].var = key /\ l # NULL
      BY <1>1, <1>2, <1>7 DEF AppendKey, TypeInv, GrowingEntry
    <2>2. Len(wt') = Len(wt) /\ RangesRoom(wt)' /\ LineageRoom'
      BY <1>1, <1>2, <1>7, <2>1, BindRangeRoom DEF AppendKey
    <2>3. l \in 1..Len(heap)
      BY <1>1, <2>1, SlotType DEF TypeOK, NULL
    <2>4. Cardinality(heap[l].elems \cup {Len(wt)}) <= LIST_INIT_SIZE
      BY <1>1, <1>2, <1>7, <2>3, BucketFinite, BucketTakesEntry
      DEF AppendKey, BUCKETISFULL, BucketsRoom
    <2>5. /\ DOMAIN heap' = 1..Len(heap) /\ heap'[l].elems = heap[l].elems \cup {Len(wt)}
          /\ \A k \in 1..Len(heap) : k # l => heap'[k] = heap[k]
      BY <1>2, <1>7, <2>3 DEF AppendKey, mlappend, mlist_make
    <2>6. BucketsRoom(heap)'
      BY <1>1, <1>2, <2>4, <2>5 DEF BucketsRoom
    <2>7. wt_entry_max' = wt_entry_max
      BY <1>7 DEF AppendKey
    <2> QED
      BY <1>1, <2>2, <2>6, <2>7 DEF AllocInv
  <1>8. CASE SplitBucket
    <2>1. PICK old, lw, w, ht0, ht1 : SplitFacts(old, lw, w, ht0, ht1)
      BY <1>1, <1>8, SplitBucketEffect
    <2>2. /\ UNCHANGED <<S, current_size, pc, wt, wt_entry_max>>
          /\ heap' \in Seq(Lists) /\ Len(heap') = Len(heap) + 2 /\ old \in 1..Len(heap)
          /\ \A l \in 1..Len(heap) : l # old => heap'[l] = heap[l]
          /\ heap'[old].elems = {}
      BY <2>1 DEF SplitFacts
    <2>3. \A l \in 1..Len(heap) : Cardinality(heap[l].elems) <= LIST_INIT_SIZE
      BY <1>1, <1>2 DEF BucketsRoom
    <2>4. ASSUME NEW l \in {Len(heap) + 1, Len(heap) + 2}
          PROVE  Cardinality(heap'[l].elems) <= LIST_INIT_SIZE
      <3>1. heap'[l].elems \in SUBSET heap[old].elems
        <4>1. heap'[l] = mlist_make(2 * lw, Redistributed(HT', 2 * lw, heap[old].elems, l))
          BY <2>1, <2>4, Zenon DEF SplitFacts
        <4> QED
          BY <4>1 DEF mlist_make, Redistributed
      <3>2. IsFiniteSet(heap[old].elems)
        BY <1>1, <2>2, BucketFinite
      <3>3. /\ Cardinality(heap'[l].elems) <= Cardinality(heap[old].elems)
            /\ IsFiniteSet(heap'[l].elems)
        BY <3>1, <3>2, FS_Subset
      <3>4. Cardinality(heap'[l].elems) \in Nat /\ Cardinality(heap[old].elems) \in Nat
        BY <3>2, <3>3, FS_CardinalityType
      <3> QED
        BY <1>2, <2>2, <2>3, <3>3, <3>4
    <2>5. ASSUME NEW l \in 1..Len(heap)
          PROVE  Cardinality(heap'[l].elems) <= LIST_INIT_SIZE
      <3>1. CASE l = old
        <4>1. Cardinality(heap'[l].elems) = 0
          BY <2>2, <3>1, FS_EmptySet, Zenon
        <4> QED
          BY <1>2, <4>1
      <3>2. CASE l # old
        BY <2>2, <2>3, <3>2
      <3> QED
        BY <3>1, <3>2
    <2>6. BucketsRoom(heap)'
      <3>1. DOMAIN heap' = 1..(Len(heap) + 2)
        BY <1>2, <2>2
      <3>2. \A l \in 1..(Len(heap) + 2) :
              l \in 1..Len(heap) \/ l \in {Len(heap) + 1, Len(heap) + 2}
        <4>1. ASSUME NEW n \in Nat, NEW l \in 1..(n + 2), l \notin 1..n
              PROVE  l = n + 1 \/ l = n + 2
          BY <4>1
        <4> QED
          BY <1>2, <4>1, Zenon
      <3> QED
        BY <2>4, <2>5, <3>1, <3>2, Zenon DEF BucketsRoom
    <2> QED
      BY <1>1, <2>2, <2>6 DEF AllocInv, LineageRoom
  <1>9. CASE FinalGroup
    <2>1. S' = <<>> /\ UNCHANGED <<current_size, pc, heap, wt, wt_entry_max>> /\ pc = "idle"
      BY <1>9 DEF FinalGroup
    <2> QED
      BY <1>1, <1>2, <2>1 DEF AllocInv, LineageRoom
  <1>10. CASE UNCHANGED vars
    BY <1>1, <1>10 DEF AllocInv, LineageRoom, vars
  <1> QED
    BY <1>3, <1>4, <1>5, <1>6, <1>7, <1>8, <1>9, <1>10 DEF Next, updateWorldTable

(* As long as no bucket is created late, every write of localcond.c falls  *)
(* into its array: the slots of update_buckets, the elements of mlappend   *)
(* and distribute_elements, the next entry, the next range, the next       *)
(* clause.                                                                 *)
THEOREM WritesWithinAllocation == Spec /\ []NoLateBucket => []WithinAllocation
  <1>1. Spec => []AllocInv
    BY InitAllocInv, AllocStep, PTL DEF Spec
  <1>2. AllocInv /\ IInv => WithinAllocation
    BY DEF AllocInv, IInv, BucketsRoom, RangesRoom, LineageRoom, WithinAllocation
  <1> QED
    BY <1>1, <1>2, HashTableSound, PTL

-----------------------------------------------------------------------------
(* The plain table *)

(* The clause under construction, as ImplementsWorldTable maps it. *)
AbsClause == IF pc = "idle" THEN <<>> ELSE SubSeq(wsd, 1, j - 1)

AbsEntries == [var : VarIds, rngs : Seq(RngIds)]

(* The plain entry of an entry. *)
Plain(w) == [var |-> w.var, rngs |-> w.rngs]

(* While room is made, the last entry has no range. *)
FreshEntry == pc = "grow" => wt[Len(wt)].rngs = <<>>

RefInv == FullInv /\ FreshEntry

LEMMA PlainExcept ==
    ASSUME NEW a, NEW b, NEW c, NEW x, x = [var |-> a, rngs |-> b]
    PROVE  [x EXCEPT !.rngs = c] = [var |-> a, rngs |-> c]
  OBVIOUS

(* The plain table is the table of the entered entries. *)
AbsFacts ==
    /\ AbsTable \in Seq(AbsEntries)
    /\ Len(AbsTable) = IF pc = "grow" THEN Len(wt) - 1 ELSE Len(wt)
    /\ DOMAIN AbsTable = Entered /\ Entered = 1..Len(AbsTable)
    /\ \A e \in Entered : AbsTable[e] = Plain(wt[e])

LEMMA AbsTableType == TypeInv => AbsFacts
  <1> SUFFICES ASSUME TypeInv PROVE AbsFacts
    OBVIOUS
  <1>1. wt \in Seq(Entries) /\ Len(wt) \in Nat
    BY DEF TypeInv, TypeOK
  <1>2. \A e \in 1..Len(wt) : wt[e] \in Entries
    BY <1>1
  <1>3. \A e \in 1..Len(wt) : Plain(wt[e]) \in AbsEntries
    BY <1>2 DEF Plain, AbsEntries, Entries
  <1>4. PICK n \in Nat : /\ n = IF pc = "grow" THEN Len(wt) - 1 ELSE Len(wt)
                         /\ n <= Len(wt) /\ Entered = 1..n
    BY <1>1 DEF TypeInv, GrowingEntry, Entered
  <1>5. AbsTable = [e \in 1..n |-> Plain(wt[e])]
    BY <1>4 DEF AbsTable, Plain
  <1>6. \A e \in 1..n : Plain(wt[e]) \in AbsEntries
    BY <1>1, <1>3, <1>4
  <1>7. /\ [e \in 1..n |-> Plain(wt[e])] \in Seq(AbsEntries)
        /\ Len([e \in 1..n |-> Plain(wt[e])]) = n
    BY <1>6
  <1> QED
    BY <1>4, <1>5, <1>7 DEF AbsFacts

(* A clause of which the maps before position i are bound. *)
LEMMA BoundPrefix ==
    ASSUME NEW V, NEW n \in Nat, NEW f \in [1..n -> V], NEW i \in 1..n, NEW m \in V
    PROVE  /\ SubSeq(f, 1, i - 1) \in Seq(V)
           /\ Len(SubSeq(f, 1, i - 1)) = i - 1
           /\ SubSeq([f EXCEPT ![i] = m], 1, i) = Append(SubSeq(f, 1, i - 1), m)
           /\ i = n => [f EXCEPT ![i] = m] = Append(SubSeq(f, 1, i - 1), m)
  <1> DEFINE g == [f EXCEPT ![i] = m]
             p == SubSeq(f, 1, i - 1)
             q == SubSeq(g, 1, i)
  <1>1. f \in Seq(V) /\ Len(f) = n /\ g \in [1..n -> V] /\ g \in Seq(V) /\ Len(g) = n
    OBVIOUS
  <1>2. p \in Seq(V) /\ Len(p) = i - 1 /\ \A a \in 1..(i - 1) : p[a] = f[a]
    BY <1>1
  <1>3. q \in Seq(V) /\ Len(q) = i /\ \A a \in 1..i : q[a] = g[a]
    BY <1>1
  <1>4. Append(p, m) \in Seq(V) /\ Len(Append(p, m)) = i
    BY <1>2
  <1>5. \A a \in 1..i : Append(p, m)[a] = g[a]
    BY <1>2
  <1>6. q = Append(p, m)
    BY <1>3, <1>4, <1>5
  <1>7. i = n => g = Append(p, m)
    BY <1>1, <1>4, <1>5
  <1> QED
    BY <1>2, <1>6, <1>7

(* Leaving updateWorldTable adds the map to the clause of the plain table, *)
(* and the clause to the lineage when it is complete.                      *)
LEMMA NextMapAdds ==
    ASSUME TypeOK, pc # "idle", NEW e \in Nat, NEW k \in Nat, NextMap(Bound(e, k))
    PROVE  Abs!AddMap(key, wsd[j].rng, e, k)
  <1> DEFINE m == Map(key, wsd[j].rng, e, k)
  <1>1. /\ WSD_LEN \in Nat \ {0} /\ j \in 1..WSD_LEN /\ wsd \in [1..WSD_LEN -> Maps]
        /\ wsd[j] \in Maps
    BY LocalCondAssumption DEF TypeOK
  <1>2. m \in Maps /\ Bound(e, k) = [wsd EXCEPT ![j] = m]
    BY <1>1 DEF Map, Maps, Bound, key
  <1>3. /\ Len(AbsClause) = j - 1
        /\ SubSeq(Bound(e, k), 1, j) = Append(AbsClause, m)
        /\ j = WSD_LEN => Bound(e, k) = Append(AbsClause, m)
    BY <1>1, <1>2, BoundPrefix DEF AbsClause
  <1>4. CASE j < WSD_LEN
    <2>1. wsd' = Bound(e, k) /\ j' = j + 1 /\ pc' = "update" /\ S' = S
      BY <1>4 DEF NextMap
    <2>2. AbsClause' = Append(AbsClause, m)
      BY <1>1, <1>3, <2>1 DEF AbsClause
    <2> QED
      BY <1>1, <1>3, <1>4, <2>1, <2>2 DEF Abs!AddMap, AbsClause, Map
  <1>5. CASE ~(j < WSD_LEN)
    <2>1. pc' = "idle" /\ S' = Append(S, Bound(e, k)) /\ j = WSD_LEN
      BY <1>1, <1>5 DEF NextMap
    <2>2. AbsClause' = <<>>
      BY <2>1 DEF AbsClause
    <2> QED
      BY <1>1, <1>3, <2>1, <2>2 DEF Abs!AddMap, AbsClause, Map
  <1> QED
    BY <1>4, <1>5

(* Entry e of table t, the last one, is the first of its variable and has  *)
(* no range yet: binding it adds a variable to the plain table.            *)
LEMMA BindNewVar ==
    ASSUME TypeInv, TypeInv', pc # "idle", NEW t \in Seq(Entries), NEW e \in 1..Len(t),
           e = Len(t), e = Len(AbsTable) + 1, Plain(t[e]) = [var |-> key, rngs |-> <<>>],
           \A d \in 1..Len(AbsTable) : Plain(t[d]) = AbsTable[d] /\ AbsTable[d].var # key,
           BindRange(t, e)
    PROVE  Abs!NewVar(key, wsd[j].rng)
  <1> DEFINE r == wsd[j].rng
             n == Len(AbsTable)
             x == [var |-> key, rngs |-> <<r>>]
  <1>1. /\ TypeOK /\ AbsTable \in Seq(AbsEntries) /\ n \in Nat /\ DOMAIN AbsTable = 1..n
        /\ t[e].var = key /\ t[e].rngs = <<>>
        /\ wsd[j] \in Maps
    BY AbsTableType, SlotType DEF TypeInv, Plain, AbsFacts
  <1>2. r \in RngIds /\ x \in AbsEntries
    <2>1. r \in RngIds /\ key \in VarIds
      BY <1>1, SlotType DEF Maps
    <2>2. <<r>> \in Seq(RngIds)
      BY <2>1
    <2> QED
      BY <2>1, <2>2 DEF AbsEntries
  <1>3. NextMap(Bound(e, 1)) /\ wt' = rngEntryInit(t, e, r)
    <2>1. PICK k \in Nat :
            /\ NextMap(Bound(e, k))
            /\ \/ wt' = t /\ k \in DOMAIN t[e].rngs
               \/ k = Len(t[e].rngs) + 1 /\ wt' = rngEntryInit(t, e, wsd[j].rng)
      BY <1>1, BindRangeMap
    <2>2. DOMAIN t[e].rngs = {} /\ Len(t[e].rngs) + 1 = 1
      BY <1>1
    <2> QED
      BY <2>1, <2>2
  <1>4. Abs!AddMap(key, r, e, 1)
    BY <1>1, <1>3, NextMapAdds
  <1>5. /\ Len(wt') = e
        /\ Plain(wt'[e]) = x
        /\ \A d \in 1..n : Plain(wt'[d]) = AbsTable[d]
    <2>1. wt'[e].var = key /\ wt'[e].rngs = Append(<<>>, r)
      <3>1. wt'[e] = [var           |-> t[e].var,
                      rngs          |-> Append(t[e].rngs, r),
                      rng_entry_max |-> Grown(Len(t[e].rngs) + 1, t[e].rng_entry_max)]
        <4>1. e \in DOMAIN t
          <5>1. ASSUME NEW T, NEW u \in Seq(T) PROVE DOMAIN u = 1..Len(u)
            OBVIOUS
          <5>2. DOMAIN t = 1..Len(t)
            BY <5>1, Zenon
          <5> QED
            BY <5>2, Zenon
        <4> QED
          BY <1>3, <4>1, Zenon DEF rngEntryInit
      <3> QED
        BY <1>1, <3>1
    <2>2. \A d \in 1..n : wt'[d] = t[d]
      BY <1>1, <1>3 DEF rngEntryInit
    <2>3. Append(<<>>, r) = <<r>>
      OBVIOUS
    <2>4. Len(wt') = e
      BY <1>1, BindRangeEffect
    <2> QED
      BY <2>1, <2>2, <2>3, <2>4 DEF Plain
  <1>6. pc' # "grow"
    BY <1>3 DEF NextMap
  <1>7. AbsTable' = Append(AbsTable, x)
    <2>1. /\ AbsTable' \in Seq(AbsEntries) /\ Len(AbsTable') = e
          /\ \A d \in 1..e : AbsTable'[d] = Plain(wt'[d])
      <3>1. AbsFacts'
        BY AbsTableType, PTL
      <3> QED
        BY <1>5, <1>6, <3>1 DEF Plain, AbsFacts
    <2>2. /\ Append(AbsTable, x) \in Seq(AbsEntries) /\ Len(Append(AbsTable, x)) = e
          /\ \A d \in 1..n : Append(AbsTable, x)[d] = AbsTable[d]
          /\ Append(AbsTable, x)[e] = x
      BY <1>1, <1>2
    <2>3. \A d \in 1..e : d \in 1..n \/ d = e
      BY <1>1
    <2>4. \A d \in 1..e : AbsTable'[d] = Append(AbsTable, x)[d]
      BY <1>1, <1>5, <2>1, <2>2, <2>3
    <2> QED
      BY <2>1, <2>2, <2>4
  <1>8. Abs!EntryOf(key) = {}
    BY <1>1 DEF Abs!EntryOf
  <1> QED
    BY <1>4, <1>7, <1>8 DEF Abs!NewVar

(* Binding an entry the plain table has: the range is known or added. *)
LEMMA BindOldVar ==
    ASSUME TypeInv, TypeInv', pc = "update", NEW e \in 1..Len(wt), wt[e].var = key,
           BindRange(wt, e)
    PROVE  Abs!Known(key, wsd[j].rng) \/ Abs!NewRange(key, wsd[j].rng)
  <1> DEFINE r == wsd[j].rng
             n == Len(wt)
  <1>1. /\ TypeOK /\ AbsTable \in Seq(AbsEntries) /\ n \in Nat /\ DOMAIN AbsTable = 1..n
        /\ Len(AbsTable) = n
        /\ \A d \in 1..n : AbsTable[d] = Plain(wt[d])
        /\ wsd[j] \in Maps /\ wt \in Seq(Entries)
    <2>1. TypeOK /\ wt \in Seq(Entries) /\ n \in Nat
      BY DEF TypeInv, TypeOK
    <2>2. AbsFacts /\ wsd[j] \in Maps
      BY <2>1, AbsTableType, SlotType
    <2> QED
      BY <2>1, <2>2 DEF AbsFacts
  <1>2. /\ AbsTable[e].var = key /\ AbsTable[e].rngs = wt[e].rngs
        /\ wt[e].rngs \in Seq(RngIds) /\ Len(wt[e].rngs) \in Nat
    <2>1. wt[e] \in Entries
      BY <1>1
    <2>2. wt[e].rngs \in Seq(RngIds)
      BY <2>1 DEF Entries
    <2> QED
      BY <1>1, <2>2 DEF Plain
  <1>3. e \in Abs!EntryOf(key)
    BY <1>1, <1>2 DEF Abs!EntryOf
  <1>4. PICK k \in Nat :
          /\ NextMap(Bound(e, k))
          /\ Faithful(Map(key, r, e, k), wt')
          /\ \/ wt' = wt /\ k \in DOMAIN wt[e].rngs
             \/ /\ \A i \in DOMAIN wt[e].rngs : wt[e].rngs[i] # r
                /\ k = Len(wt[e].rngs) + 1
                /\ wt' = rngEntryInit(wt, e, r)
    BY <1>1, BindRangeMap
  <1>5. Abs!AddMap(key, r, e, k)
    BY <1>1, <1>4, NextMapAdds
  <1>6. pc' # "grow"
    BY <1>4 DEF NextMap
  <1>7. /\ AbsTable' \in Seq(AbsEntries) /\ Len(AbsTable') = Len(wt')
        /\ \A d \in 1..Len(wt') : AbsTable'[d] = Plain(wt'[d])
    <2>1. AbsFacts'
      BY AbsTableType, PTL
    <2> QED
      BY <1>6, <2>1 DEF Plain, AbsFacts
  <1>8. CASE wt' = wt /\ k \in DOMAIN wt[e].rngs
    <2>1. AbsTable' = AbsTable
      BY <1>1, <1>7, <1>8
    <2>2. wt[e].rngs[k] = r
      BY <1>4, <1>8 DEF Faithful, Map
    <2>3. k \in Abs!RangeOf(e, r)
      BY <1>2, <1>8, <2>2 DEF Abs!RangeOf
    <2> QED
      BY <1>3, <1>5, <2>1, <2>3 DEF Abs!Known
  <1>9. CASE /\ \A i \in DOMAIN wt[e].rngs : wt[e].rngs[i] # r
             /\ k = Len(wt[e].rngs) + 1
             /\ wt' = rngEntryInit(wt, e, r)
    <2> DEFINE T == [AbsTable EXCEPT ![e].rngs = Append(@, r)]
    <2>1. Abs!RangeOf(e, r) = {}
      BY <1>2, <1>9 DEF Abs!RangeOf
    <2>2. /\ Len(wt') = n
          /\ wt'[e].var = key /\ wt'[e].rngs = Append(wt[e].rngs, r)
          /\ \A d \in 1..n : d # e => wt'[d] = wt[d]
      BY <1>1, <1>9 DEF rngEntryInit
    <2>3. /\ DOMAIN T = 1..n
          /\ T[e] = [var |-> key, rngs |-> Append(wt[e].rngs, r)]
          /\ \A d \in 1..n : d # e => T[d] = AbsTable[d]
      <3>1. AbsTable[e] = [var |-> key, rngs |-> wt[e].rngs]
        BY <1>1, <1>2 DEF Plain
      <3>2. T = [AbsTable EXCEPT ![e] = [var |-> key, rngs |-> Append(wt[e].rngs, r)]]
        <4>1. [AbsTable[e] EXCEPT !.rngs = Append(AbsTable[e].rngs, r)]
                 = [var |-> key, rngs |-> Append(wt[e].rngs, r)]
          <5>1. PICK x : x = AbsTable[e]
            OBVIOUS
          <5>2. PICK c : c = Append(wt[e].rngs, r) /\ c = Append(AbsTable[e].rngs, r)
            BY <1>2
          <5>3. [x EXCEPT !.rngs = c] = [var |-> key, rngs |-> c]
            BY <3>1, <5>1, PlainExcept
          <5> QED
            BY <5>1, <5>2, <5>3
        <4>2. T = [AbsTable EXCEPT ![e] = [AbsTable[e] EXCEPT !.rngs = Append(AbsTable[e].rngs, r)]]
          OBVIOUS
        <4> QED
          BY <4>1, <4>2, Zenon
      <3> QED
        BY <1>1, <3>2
    <2>4. AbsTable'[e] = T[e]
      BY <1>7, <2>2, <2>3 DEF Plain
    <2>5. \A d \in 1..n : d # e => AbsTable'[d] = T[d]
      BY <1>1, <1>7, <2>2, <2>3
    <2>6. \A d \in 1..n : AbsTable'[d] = T[d]
      BY <2>4, <2>5
    <2>7. AbsTable' = T
      <3>1. AbsTable' = [d \in 1..n |-> AbsTable'[d]]
        BY <1>7, <2>2
      <3>2. T = [d \in 1..n |-> T[d]]
        BY <2>3
      <3> HIDE DEF T
      <3> QED
        BY <2>6, <3>1, <3>2
    <2>8. Abs!AddMap(key, r, e, Len(AbsTable[e].rngs) + 1)
      BY <1>2, <1>5, <1>9
    <2> QED
      BY <1>3, <2>1, <2>7, <2>8 DEF Abs!NewRange
  <1> QED
    BY <1>4, <1>8, <1>9

LEMMA RefInvStep == RefInv /\ NoLateBucket /\ [Next]_vars => RefInv'
  <1> SUFFICES ASSUME RefInv, NoLateBucket, [Next]_vars PROVE RefInv'
    OBVIOUS
  <1>1. FullInv' /\ FullInv /\ FreshEntry
    BY NextFullInv DEF RefInv
  <1>2. FreshEntry'
    <2>1. CASE AllocateEntry
      <3>1. wt' = wtEntryInit(key) /\ TypeOK
        BY <1>1, <2>1, FullInvFacts DEF AllocateEntry
      <3>2. wt'[Len(wt')] = NewEntry(key)
        BY <3>1, EntryInitEffect
      <3> QED
        BY <3>2 DEF FreshEntry, NewEntry
    <2>2. CASE SplitBucket \/ UNCHANGED vars \/ FinalGroup
      BY <1>1, <2>2 DEF FreshEntry, SplitBucket, vars, FinalGroup
    <2>3. CASE pc' # "grow"
      BY <2>3 DEF FreshEntry
    <2>4. ASSUME NEW t, NEW e, BindRange(t, e) PROVE pc' # "grow"
      BY <2>4 DEF BindRange, NextMap
    <2> QED
      BY <2>1, <2>2, <2>3, <2>4
      DEF Next, updateWorldTable, advance, CreateBucket, FindEntry, AppendKey
  <1> QED
    BY <1>1, <1>2 DEF RefInv

(* Every step of localcond.c is a step of the plain table or none. *)
LEMMA StepRefines ==
    ASSUME RefInv, NoLateBucket, [Next]_vars
    PROVE  [Abs!WTNext]_(Abs!absvars)
  <1>1. FullInv /\ TypeInv /\ TypeOK /\ FullInv' /\ TypeInv' /\ AbsFacts /\ AbsFacts'
    <2>1. FullInv /\ FullInv'
      BY NextFullInv DEF RefInv
    <2>2. TypeInv /\ TypeOK /\ TypeInv'
      BY <2>1 DEF FullInv, TypeInv
    <2>3. AbsFacts /\ AbsFacts'
      BY <2>2, AbsTableType, PTL
    <2> QED
      BY <2>1, <2>2, <2>3
  <1>2. /\ wt \in Seq(Entries) /\ Len(wt) \in Nat /\ key \in VarIds /\ wsd[j].rng \in RngIds
    BY <1>1, SlotType, FullInvFacts DEF Maps
  <1>3. ASSUME AbsTable' = AbsTable, S' = S, AbsClause' = AbsClause
        PROVE  [Abs!WTNext]_(Abs!absvars)
    BY <1>3 DEF Abs!absvars, AbsClause
  <1>4. ASSUME \/ Abs!Known(key, wsd[j].rng) \/ Abs!NewRange(key, wsd[j].rng)
               \/ Abs!NewVar(key, wsd[j].rng)
        PROVE  [Abs!WTNext]_(Abs!absvars)
    BY <1>2, <1>4 DEF Abs!WTNext
  <1>5. ASSUME NEW c \in Clauses, advance(c) PROVE [Abs!WTNext]_(Abs!absvars)
    <2>1. S' = S /\ pc = "idle" /\ pc' = "update" /\ j' = 1
      BY <1>5 DEF advance
    <2>2. AbsClause = <<>> /\ AbsClause' = <<>>
      <3>1. wsd' \in Seq(Maps)
        <4>1. wsd' \in [1..WSD_LEN -> Maps] /\ WSD_LEN \in Nat
          BY <1>1, LocalCondAssumption DEF TypeInv, TypeOK
        <4> QED
          BY <4>1
      <3>2. SubSeq(wsd', 1, 0) = <<>>
        BY <3>1
      <3> QED
        BY <2>1, <3>2 DEF AbsClause
    <2>3. CASE S = <<>>
      <3>1. wt' = <<>>
        BY <1>5, <2>3 DEF advance, genStateInit
      <3>2. AbsTable' \in Seq(AbsEntries) /\ Len(AbsTable') = 0
        BY <1>1, <2>1, <3>1 DEF AbsFacts
      <3>3. AbsTable' = <<>>
        BY <3>2
      <3>4. Abs!ClearTable
        BY <2>1, <2>2, <2>3, <3>3 DEF Abs!ClearTable, AbsClause
      <3> QED
        BY <3>4 DEF Abs!WTNext
    <2>4. CASE S # <<>>
      <3>1. wt' = wt
        BY <1>5, <2>4 DEF advance
      <3>2. AbsTable' = AbsTable
        BY <2>1, <3>1 DEF AbsTable, Entered
      <3> QED
        BY <1>3, <2>1, <2>2, <3>2
    <2> QED
      BY <2>3, <2>4
  <1>6. CASE CreateBucket
    <2> DEFINE t == wtEntryInit(key)
               e == Len(wt) + 1
    <2>1. /\ t \in Seq(Entries) /\ Len(t) = e /\ e \in 1..Len(t) /\ t[e] = NewEntry(key)
          /\ \A d \in 1..Len(wt) : t[d] = wt[d]
      BY <1>1, <1>2, EntryInitEffect
    <2>2. /\ pc = "update" /\ BindRange(t, e) /\ HT[slot] = NULL
      BY <1>6 DEF CreateBucket
    <2>3. \A d \in 1..Len(wt) : wt[d].var # key
      BY <1>1, <2>2, LookupFails
    <2>4. Len(AbsTable) = Len(wt) /\ \A d \in 1..Len(wt) : AbsTable[d] = Plain(wt[d])
      BY <1>1, <2>2 DEF AbsFacts
    <2>5. Plain(t[e]) = [var |-> key, rngs |-> <<>>]
      BY <2>1 DEF NewEntry, Plain
    <2>6. \A d \in 1..Len(AbsTable) : Plain(t[d]) = AbsTable[d] /\ AbsTable[d].var # key
      BY <2>1, <2>3, <2>4 DEF Plain
    <2> HIDE DEF t
    <2>7. Abs!NewVar(key, wsd[j].rng)
      BY <1>1, <2>1, <2>2, <2>4, <2>5, <2>6, BindNewVar
    <2> QED
      BY <1>4, <2>7
  <1>7. CASE FindEntry
    <2>1. PICK e \in 1..Len(wt) : wt[e].var = key /\ BindRange(wt, e)
      BY <1>1, <1>7, FoundEntry DEF FindEntry
    <2>2. Abs!Known(key, wsd[j].rng) \/ Abs!NewRange(key, wsd[j].rng)
      BY <1>1, <1>7, <2>1, BindOldVar DEF FindEntry
    <2> QED
      BY <1>4, <2>2
  <1>8. CASE AllocateEntry
    <2>1. /\ pc = "update" /\ pc' = "grow" /\ S' = S /\ wsd' = wsd /\ j' = j
          /\ wt' = wtEntryInit(key)
      BY <1>8 DEF AllocateEntry
    <2>2. Entered' = 1..Len(wt) /\ Entered = 1..Len(wt)
      BY <1>1, <1>2, <2>1, EntryInitEffect DEF Entered
    <2>3. \A d \in 1..Len(wt) : wt'[d] = wt[d]
      BY <1>1, <2>1, EntryInitEffect
    <2>4. AbsTable' = AbsTable
      BY <2>2, <2>3 DEF AbsTable
    <2>5. AbsClause' = AbsClause
      BY <2>1 DEF AbsClause
    <2> QED
      BY <1>3, <2>1, <2>4, <2>5
  <1>9. CASE AppendKey
    <2> DEFINE e == Len(wt)
    <2>1. pc = "grow" /\ BindRange(wt, e) /\ wt[e].var = key /\ e \in 1..Len(wt)
      BY <1>1, <1>2, <1>9 DEF AppendKey, TypeInv, GrowingEntry
    <2>2. wt[e].rngs = <<>>
      BY <2>1 DEF RefInv, FreshEntry
    <2>3. /\ Len(AbsTable) = e - 1 /\ \A d \in 1..(e - 1) : AbsTable[d] = Plain(wt[d])
          /\ e = Len(AbsTable) + 1
      BY <1>1, <1>2, <2>1 DEF AbsFacts
    <2>4. \A d \in 1..(e - 1) : wt[d].var # key
      BY <1>1, <1>2, <2>1, FullInvFacts DEF Contents, OneEntryPerVariable
    <2>5. Plain(wt[e]) = [var |-> key, rngs |-> <<>>]
      BY <2>1, <2>2 DEF Plain
    <2>6. \A d \in 1..Len(AbsTable) : Plain(wt[d]) = AbsTable[d] /\ AbsTable[d].var # key
      BY <2>3, <2>4 DEF Plain
    <2>7. Abs!NewVar(key, wsd[j].rng)
      BY <1>1, <1>2, <2>1, <2>3, <2>5, <2>6, BindNewVar
    <2> QED
      BY <1>4, <2>7
  <1>10. CASE SplitBucket \/ UNCHANGED vars
    <2>1. UNCHANGED <<pc, S, wsd, j, wt>>
      BY <1>10 DEF SplitBucket, vars
    <2>2. AbsTable' = AbsTable /\ AbsClause' = AbsClause
      BY <2>1 DEF AbsTable, AbsClause, Entered
    <2> QED
      BY <1>3, <2>1, <2>2
  <1>11. CASE FinalGroup
    <2>1. UNCHANGED <<pc, wt>> /\ S' = <<>> /\ pc = "idle"
      BY <1>11 DEF FinalGroup
    <2>2. AbsTable' = AbsTable /\ AbsClause' = <<>> /\ AbsClause = <<>>
      BY <2>1 DEF AbsTable, AbsClause, Entered
    <2>3. Abs!DropLineage
      BY <2>1, <2>2 DEF Abs!DropLineage, AbsClause
    <2> QED
      BY <2>3 DEF Abs!WTNext
  <1> QED
    BY <1>5, <1>6, <1>7, <1>8, <1>9, <1>10, <1>11 DEF Next, updateWorldTable

(* As long as no bucket is created late, the extendible hash table of      *)
(* localcond.c implements the plain table: every lookup hands out the      *)
(* offsets a linear search over the entries would, splits and doublings    *)
(* are invisible, and the table is emptied only between groups.            *)
THEOREM RefinesWorldTable == Spec /\ []NoLateBucket => ImplementsWorldTable
  <1>1. Init => Abs!WTInit
    <2> SUFFICES ASSUME Init PROVE Abs!WTInit
      OBVIOUS
    <2>1. S = <<>> /\ pc = "idle" /\ wt = <<>>
      BY DEF Init
    <2>2. AbsTable \in Seq(AbsEntries) /\ Len(AbsTable) = 0
      BY <2>1, InitTypeInv, AbsTableType DEF AbsFacts
    <2>3. AbsTable = <<>>
      BY <2>2
    <2> QED
      BY <2>1, <2>3 DEF Abs!WTInit
  <1>2. Init => RefInv
    BY InitFullInv DEF RefInv, FreshEntry, Init
  <1>3. RefInv /\ NoLateBucket /\ [Next]_vars => [Abs!WTNext]_(Abs!absvars)
    BY StepRefines
  <1> QED
    BY <1>1, <1>2, <1>3, RefInvStep, PTL DEF Spec, ImplementsWorldTable, Abs!WTSpec

(* With a directory of one slot (INIT_NBITS = 0) no bucket is created      *)
(* late, and the hash table implements the plain table, within its arrays, *)
(* for every sequence of clauses.                                          *)
THEOREM RefinesFromOneSlot ==
    ASSUME INITWIDTH = 1
    PROVE  Spec => ImplementsWorldTable /\ []WithinAllocation
  <1>1. Spec => [](IInv /\ NoLateBucket)
    BY SoundFromOneSlot
  <1> QED
    BY <1>1, RefinesWorldTable, WritesWithinAllocation, PTL
================================================================================
