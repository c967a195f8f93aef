-------------------------- MODULE LocalCond_proofs --------------------------
(***************************************************************************)
(* Proofs about LocalCond: type correctness and, as long as no bucket is   *)
(* created late, the structure of the extendible hash table.               *)
(***************************************************************************)
EXTENDS LocalCond, TLAPS

-----------------------------------------------------------------------------
(* Arithmetic of hashing: residues modulo a width and modulo its doublings *)

(* Division with remainder, for a natural and a positive divisor. *)
LEMMA DivMod ==
    ASSUME NEW k \in Nat, NEW b \in Nat \ {0}
    PROVE  /\ k % b \in 0..(b - 1)
           /\ k \div b \in Nat
           /\ k = b * (k \div b) + (k % b)
  OBVIOUS

(* The remainder is the only one in range. *)
LEMMA ModUnique ==
    ASSUME NEW b \in Nat \ {0}, NEW q \in Nat, NEW r \in 0..(b - 1)
    PROVE  (b * q + r) % b = r
  OBVIOUS

(* HASHFUNC with a narrow mask after HASHFUNC with a wide one. *)
LEMMA ModMod ==
    ASSUME NEW b \in Nat \ {0}, NEW c \in Nat \ {0}, NEW k \in Nat
    PROVE  (k % (b * c)) % b = k % b
  <1>1. PICK w \in Nat \ {0} : w = b * c
    OBVIOUS
  <1>2. PICK r \in Nat, q \in Nat : r = k % w /\ k = w * q + r
    <2>1. k % w \in Nat /\ k \div w \in Nat /\ k = w * (k \div w) + (k % w)
      BY DivMod
    <2> QED
      BY <2>1, Zenon
  <1>3. PICK s \in 0..(b - 1), p \in Nat : s = r % b /\ r = b * p + s
    BY DivMod
  <1>4. k = b * (c * q + p) + s
    <2>1. w * q = b * (c * q)
      BY <1>1
    <2>2. b * (c * q + p) = b * (c * q) + b * p
      OBVIOUS
    <2>3. k = b * (c * q) + (b * p + s)
      BY <1>2, <1>3, <2>1, Zenon
    <2>4. b * (c * q) \in Nat /\ b * p \in Nat
      OBVIOUS
    <2>5. b * (c * q) + (b * p + s) = (b * (c * q) + b * p) + s
      BY <2>4
    <2>6. k = (b * (c * q) + b * p) + s
      BY <2>3, <2>5, Zenon
    <2> QED
      BY <2>2, <2>6, Zenon
  <1>5. c * q + p \in Nat
    OBVIOUS
  <1>6. (b * (c * q + p) + s) % b = s
    BY <1>5, ModUnique
  <1> QED
    BY <1>1, <1>2, <1>3, <1>4, <1>6

(* A residue modulo 2b is the residue modulo b, or that plus b. *)
LEMMA ModDouble ==
    ASSUME NEW b \in Nat \ {0}, NEW k \in Nat
    PROVE  k % (2 * b) = k % b \/ k % (2 * b) = (k % b) + b
  <1> DEFINE r == k % (2 * b)
  <1>1. r \in 0..(2 * b - 1) /\ r \in Nat
    BY DivMod
  <1>2. r % b = k % b
    <2>1. 2 \in Nat \ {0} /\ b * 2 = 2 * b
      OBVIOUS
    <2>2. (k % (b * 2)) % b = k % b
      BY <2>1, ModMod, Zenon
    <2> QED
      BY <2>1, <2>2, Zenon
  <1>3. CASE r < b
    <2>1. r = b * 0 + r /\ r \in 0..(b - 1)
      BY <1>1, <1>3
    <2>2. (b * 0 + r) % b = r
      BY <2>1, ModUnique
    <2> QED
      BY <1>2, <2>1, <2>2
  <1>4. CASE r >= b
    <2>1. r = b * 1 + (r - b) /\ r - b \in 0..(b - 1)
      BY <1>1, <1>4
    <2>2. (b * 1 + (r - b)) % b = r - b
      BY <2>1, ModUnique
    <2> QED
      BY <1>1, <1>2, <2>1, <2>2
  <1> QED
    BY <1>1, <1>3, <1>4

(* A residue below the width is itself. *)
LEMMA ModSmall ==
    ASSUME NEW b \in Nat \ {0}, NEW k \in 0..(b - 1)
    PROVE  k % b = k
  <1>1. k = b * 0 + k
    OBVIOUS
  <1>2. (b * 0 + k) % b = k
    BY ModUnique
  <1> QED
    BY <1>1, <1>2

(* The slots update_buckets writes are the slots of the directory that     *)
(* agree with the index modulo the width of the bucket.                    *)
LEMMA BucketSlotsMod ==
    ASSUME NEW b \in Nat \ {0}, NEW c \in Nat \ {0}, NEW index \in 0..(b - 1)
    PROVE  /\ BucketSlots(b * c, index, b) \subseteq Slots(b * c)
           /\ \A i \in Slots(b * c) : i \in BucketSlots(b * c, index, b) <=> i % b = index
  <1>1. (b * c) \div b = c
    <2>1. PICK w \in Nat : w = b * c
      OBVIOUS
    <2>2. PICK q \in Nat, r \in 0..(b - 1) : q = w \div b /\ w = b * q + r
      BY DivMod
    <2>3. q = c
      <3>1. q >= c + 1 => b * q >= b * c + b
        OBVIOUS
      <3>2. q <= c - 1 => b * q <= b * c - b
        OBVIOUS
      <3> QED
        BY <2>1, <2>2, <3>1, <3>2
    <2> QED
      BY <2>1, <2>2, <2>3
  <1>2. BucketSlots(b * c, index, b) = {index + i * b : i \in 0..(c - 1)}
    BY <1>1 DEF BucketSlots
  <1>3. ASSUME NEW i \in 0..(c - 1)
        PROVE  index + i * b \in 0..(b * c - 1)
    <2>1. i * b <= (c - 1) * b
      BY <1>3
    <2>2. (c - 1) * b = b * c - b
      OBVIOUS
    <2>3. i * b \in Nat
      BY <1>3
    <2> QED
      BY <2>1, <2>2, <2>3
  <1>4. ASSUME NEW i \in 0..(c - 1)
        PROVE  (index + i * b) % b = index
    <2>1. index + i * b = b * i + index
      BY <1>4
    <2> QED
      BY <2>1, <1>4, ModUnique
  <1>5. ASSUME NEW i \in 0..(b * c - 1), i % b = index
        PROVE  \E m \in 0..(c - 1) : i = index + m * b
    <2>1. i \div b \in Nat /\ i = b * (i \div b) + index
      BY <1>5, DivMod
    <2>2. i \div b < c
      <3>1. SUFFICES ASSUME i \div b >= c PROVE FALSE
        BY <2>1
      <3>2. b * (i \div b) >= b * c
        BY <2>1, <3>1
      <3> QED
        BY <2>1, <3>2, <1>5
    <2>3. (i \div b) * b = b * (i \div b)
      BY <2>1
    <2> QED
      BY <2>1, <2>2, <2>3
  <1> QED
    BY <1>2, <1>3, <1>4, <1>5 DEF Slots

(* Doublings: every width divides the directory's; zero doublings;         *)
(* doubling the directory; doubling a bucket narrower than the directory.  *)
LEMMA DoublingsDivide ==
    ASSUME NEW b \in Nat \ {0}, NEW w \in Nat \ {0}, Doublings(b, w)
    PROVE  \E c \in Nat \ {0} : w = b * c
  BY DEF Doublings

LEMMA DoublingsRefl ==
    ASSUME NEW b \in Nat \ {0}
    PROVE  Doublings(b, b)
  <1>1. b = b * 1 /\ 1 \in 1..b
    OBVIOUS
  <1>2. \A d, e \in 1..1 : 1 = d * e => d = 1 \/ d % 2 = 0
    OBVIOUS
  <1> QED
    BY <1>1, <1>2 DEF Doublings

LEMMA DoublingsExpand ==
    ASSUME NEW b \in Nat \ {0}, NEW w \in Nat \ {0}, Doublings(b, w)
    PROVE  Doublings(b, 2 * w)
  <1>1. PICK c \in 1..w : /\ w = b * c
                          /\ \A d, e \in 1..c : c = d * e => d = 1 \/ d % 2 = 0
    BY DEF Doublings
  <1>2. 2 * w = b * (2 * c) /\ 2 * c \in 1..(2 * w)
    BY <1>1
  <1>3. ASSUME NEW d \in 1..(2 * c), NEW e \in 1..(2 * c), 2 * c = d * e
        PROVE  d = 1 \/ d % 2 = 0
    <2>1. SUFFICES ASSUME d % 2 = 1 PROVE d = 1
      BY <1>3, DivMod
    <2>2. e % 2 = 0
      <3>1. SUFFICES ASSUME e % 2 = 1 PROVE FALSE
        BY <1>3
      <3>2. d = 2 * (d \div 2) + 1 /\ e = 2 * (e \div 2) + 1
            /\ d \div 2 \in Nat /\ e \div 2 \in Nat
        BY <2>1, <3>1, <1>3
      <3>3. d * e = 2 * (2 * (d \div 2) * (e \div 2) + (d \div 2) + (e \div 2)) + 1
        BY <3>2
      <3>4. (d \div 2) * (e \div 2) \in Nat
        BY <3>2
      <3> QED
        BY <3>2, <3>3, <3>4, <1>3, <1>1
    <2>3. PICK h \in Nat : e = 2 * h
      BY <2>2, <1>3
    <2>4. c = d * h
      <3>1. 2 * c = 2 * (d * h)
        BY <1>3, <2>3
      <3>2. d * h \in Nat
        BY <1>3
      <3> QED
        BY <3>1, <3>2, <1>1
    <2>5. h \in 1..c /\ d \in 1..c
      <3>1. h # 0 /\ d # 0
        BY <2>4, <1>1, <1>3
      <3>2. d * h >= h /\ d * h >= d
        BY <3>1, <1>3, <2>3
      <3> QED
        BY <3>1, <3>2, <2>4, <1>3, <2>3, <1>1
    <2>6. d = 1 \/ d % 2 = 0
      BY <1>1, <2>4, <2>5
    <2> QED
      BY <2>1, <2>6, <1>3
  <1> QED
    BY <1>2, <1>3 DEF Doublings

LEMMA DoublingsSplit ==
    ASSUME NEW b \in Nat \ {0}, NEW w \in Nat \ {0}, Doublings(b, w), b # w
    PROVE  Doublings(2 * b, w)
  <1>1. PICK c \in 1..w : /\ w = b * c
                          /\ \A d, e \in 1..c : c = d * e => d = 1 \/ d % 2 = 0
    BY DEF Doublings
  <1>2. c # 1
    BY <1>1
  <1>3. c % 2 = 0
    <2>1. c = c * 1 /\ c \in 1..c /\ 1 \in 1..c
      BY <1>1
    <2> QED
      BY <2>1, <1>1, <1>2
  <1>4. PICK h \in Nat \ {0} : c = 2 * h
    <2>1. c = 2 * (c \div 2) /\ c \div 2 \in Nat
      BY <1>3, <1>1
    <2> QED
      BY <2>1, <1>1
  <1>5. w = (2 * b) * h /\ h \in 1..w
    BY <1>1, <1>4
  <1>6. ASSUME NEW d \in 1..h, NEW e \in 1..h, h = d * e
        PROVE  d = 1 \/ d % 2 = 0
    <2>1. c = d * (2 * e) /\ d \in 1..c
      BY <1>4, <1>6
    <2>2. 2 * e \in 1..c
      BY <1>4, <1>6
    <2> QED
      BY <2>1, <2>2, <1>1
  <1> QED
    BY <1>5, <1>6 DEF Doublings

-----------------------------------------------------------------------------
(* Type correctness *)

LEMMA MakeClauseType ==
    ASSUME NEW c \in Clauses
    PROVE  MakeClause(c) \in [1..WSD_LEN -> Maps]
  BY LocalCondAssumption, ReservedAssumption
     DEF MakeClause, Clauses, Maps, Map, RESERVED_VAR, RNG_FOR_RESERVED_VAR

(* Step 2 of updateWorldTable on a table t and one of its entries e.       *)
(* Entries keep their places and variables.                                *)
LEMMA BindRangeEffect ==
    ASSUME TypeOK, NEW t \in Seq(Entries), NEW e \in 1..Len(t), BindRange(t, e)
    PROVE  /\ wt' \in Seq(Entries)
           /\ Len(wt') = Len(t)
           /\ \A d \in 1..Len(t) : wt'[d].var = t[d].var
           /\ wsd' \in [1..WSD_LEN -> Maps]
           /\ j' \in 1..WSD_LEN
           /\ pc' \in {"idle", "update"}
           /\ S' \in Seq([1..WSD_LEN -> Maps])
  <1> USE LocalCondAssumption
  <1>1. t[e] \in Entries /\ wsd[j] \in Maps /\ t[e].rngs \in Seq(RngIds)
    <2>1. t[e] \in Entries
      OBVIOUS
    <2>2. wsd[j] \in Maps
      BY DEF TypeOK
    <2> QED
      BY <2>1, <2>2 DEF Entries
  <1>2. ASSUME NEW k \in Nat PROVE Bound(e, k) \in [1..WSD_LEN -> Maps]
    BY <1>1, <1>2 DEF Bound, Map, TypeOK, Maps
  <1>3. ASSUME NEW w \in [1..WSD_LEN -> Maps], NextMap(w)
        PROVE  /\ wsd' \in [1..WSD_LEN -> Maps]
               /\ j' \in 1..WSD_LEN
               /\ pc' \in {"idle", "update"}
               /\ S' \in Seq([1..WSD_LEN -> Maps])
    <2> DEFINE C == [1..WSD_LEN -> Maps]
    <2>1. S \in Seq(C) /\ j \in 1..WSD_LEN
      BY DEF TypeOK
    <2>2. CASE j < WSD_LEN
      BY <1>3, <2>1, <2>2 DEF NextMap
    <2>3. CASE ~(j < WSD_LEN)
      <3>1. Append(S, w) \in Seq(C)
        BY <2>1
      <3> QED
        BY <1>3, <2>1, <2>3, <3>1 DEF NextMap
    <2> QED
      BY <2>2, <2>3
  <1> DEFINE r == wsd[j].rng
             known == KnownRanges(t, e, r)
  <1>4. r \in RngIds
    BY <1>1 DEF Maps
  <1>5. CASE known # {} /\ wt' = t /\ NextMap(Bound(e, CHOOSE k \in known : TRUE))
    <2>1. (CHOOSE k \in known : TRUE) \in known
      BY <1>5
    <2>2. known \subseteq Nat
      BY <1>1 DEF KnownRanges
    <2> QED
      BY <1>2, <1>3, <1>5, <2>1, <2>2
  <1>6. CASE known = {} /\ wt' = rngEntryInit(t, e, r) /\ NextMap(Bound(e, Len(t[e].rngs) + 1))
    <2>1. Len(t[e].rngs) + 1 \in Nat /\ Append(t[e].rngs, r) \in Seq(RngIds)
      BY <1>1, <1>4
    <2>2. Grown(Len(t[e].rngs) + 1, t[e].rng_entry_max) \in Nat
      BY <1>1 DEF Grown, Entries
    <2>3. [var           |-> t[e].var,
           rngs          |-> Append(t[e].rngs, r),
           rng_entry_max |-> Grown(Len(t[e].rngs) + 1, t[e].rng_entry_max)] \in Entries
      BY <1>1, <2>1, <2>2 DEF Entries
    <2>5. /\ wt' \in Seq(Entries)
          /\ Len(wt') = Len(t)
          /\ \A d \in 1..Len(t) : wt'[d].var = t[d].var
      BY <1>1, <1>6, <2>3 DEF rngEntryInit
    <2> QED
      BY <1>2, <1>3, <1>6, <2>1, <2>5
  <1> QED
    BY <1>5, <1>6 DEF BindRange

(* What type correctness rests on: buckets name existing entries, and while *)
(* room is made there is a bucket to make it in.                           *)
TypeInv ==
    /\ TypeOK
    /\ \A l \in 1..Len(heap) : heap[l].elems \subseteq 1..Len(wt)
    /\ GrowingEntry

LEMMA SlotType ==
    ASSUME TypeOK
    PROVE  /\ wsd[j] \in Maps /\ key \in Nat /\ key \in VarIds
           /\ slot \in Slots(width) /\ slot = key % width
  <1>1. wsd[j] \in Maps
    BY DEF TypeOK
  <1>2. key \in Nat /\ key \in VarIds
    BY <1>1, LocalCondAssumption DEF key, Maps
  <1>3. width \in Nat \ {0}
    BY DEF TypeOK
  <1>4. key % width \in 0..(width - 1)
    BY <1>2, <1>3, DivMod
  <1> QED
    BY <1>1, <1>2, <1>4 DEF slot, HASHFUNC, Slots

LEMMA NewEntryType ==
    ASSUME TypeOK
    PROVE  /\ wtEntryInit(key) \in Seq(Entries)
           /\ Len(wtEntryInit(key)) = Len(wt) + 1
           /\ \A e \in 1..Len(wt) : wtEntryInit(key)[e] = wt[e]
           /\ wtEntryInit(key)[Len(wt) + 1].var = key
           /\ Len(wt) \in Nat
  <1>1. NewEntry(key) \in Entries /\ NewEntry(key).var = key
    BY SlotType, LocalCondAssumption DEF NewEntry, Entries
  <1>2. wt \in Seq(Entries)
    BY DEF TypeOK
  <1> QED
    BY <1>1, <1>2 DEF wtEntryInit

LEMMA FreshDirectoryType ==
    [i \in Slots(INITWIDTH) |-> NULL] \in [Slots(INITWIDTH) -> 0..Len(<<>>)]
  BY DEF NULL

LEMMA InitTypeInv == Init => TypeInv
  <1> SUFFICES ASSUME Init PROVE TypeInv
    OBVIOUS
  <1>1. wsd \in [1..WSD_LEN -> Maps]
    BY ReservedAssumption DEF Init, Map, Maps
  <1>2. HT \in [Slots(width) -> 0..Len(heap)]
    BY FreshDirectoryType DEF Init
  <1> QED
    <2>1. S = <<>> /\ heap = <<>> /\ wt = <<>> /\ pc = "idle"
      BY DEF Init
    <2>2. S \in Seq([1..WSD_LEN -> Maps]) /\ heap \in Seq(Lists) /\ wt \in Seq(Entries)
      BY <2>1
    <2>3. /\ current_size \in Nat /\ j \in 1..WSD_LEN /\ width \in Nat \ {0}
          /\ wt_entry_max \in Nat
      BY LocalCondAssumption DEF Init
    <2>4. oob \in BOOLEAN
      BY Zenon DEF Init
    <2>5. TypeOK
      BY <1>1, <1>2, <2>1, <2>2, <2>3, <2>4 DEF TypeOK
    <2> QED
      BY <2>1, <2>5 DEF TypeInv, GrowingEntry

LEMMA AdvanceTypeInv ==
    ASSUME TypeInv, NEW c \in Clauses, advance(c)
    PROVE  TypeInv'
  <1>1. wsd' \in [1..WSD_LEN -> Maps] /\ j' \in 1..WSD_LEN /\ pc' = "update"
    BY MakeClauseType, LocalCondAssumption DEF advance
  <1>2. CASE S = <<>>
    <2>1. /\ width' = INITWIDTH /\ heap' = <<>> /\ wt' = <<>>
          /\ HT' = [i \in Slots(INITWIDTH) |-> NULL]
          /\ current_size' = SINITSIZE /\ wt_entry_max' = WTINITSIZE
          /\ S' = S /\ oob' = oob
      BY <1>2 DEF advance, genStateInit
    <2>2. HT' \in [Slots(width') -> 0..Len(heap')]
      BY <2>1, FreshDirectoryType
    <2> QED
      BY <1>1, <2>1, <2>2, LocalCondAssumption DEF TypeInv, TypeOK, GrowingEntry
  <1>3. CASE S # <<>>
    <2>1. /\ UNCHANGED <<width, HT, heap, wt, wt_entry_max, S, oob>>
          /\ current_size' \in Nat
      BY <1>3 DEF advance, TypeInv, TypeOK
    <2> QED
      BY <1>1, <2>1 DEF TypeInv, TypeOK, GrowingEntry
  <1> QED
    BY <1>2, <1>3

LEMMA CreateBucketTypeInv ==
    ASSUME TypeInv, CreateBucket
    PROVE  TypeInv'
  <1> DEFINE n == Len(heap) + 1
             m == Len(wt) + 1
             b == mlist_make(INITWIDTH, {m})
  <1>1. TypeOK /\ wtEntryInit(key) \in Seq(Entries) /\ m \in 1..Len(wtEntryInit(key))
        /\ Len(wtEntryInit(key)) = m
    BY NewEntryType DEF TypeInv
  <1>2. BindRange(wtEntryInit(key), m)
    BY DEF CreateBucket
  <1>3. /\ wt' \in Seq(Entries) /\ Len(wt') = m
        /\ wsd' \in [1..WSD_LEN -> Maps] /\ j' \in 1..WSD_LEN
        /\ pc' \in {"idle", "update"} /\ S' \in Seq([1..WSD_LEN -> Maps])
    BY <1>1, <1>2, BindRangeEffect
  <1>4. heap \in Seq(Lists) /\ b \in Lists /\ heap' = Append(heap, b)
    BY <1>1, LocalCondAssumption DEF CreateBucket, mlist_make, Lists, TypeOK
  <1>5. heap' \in Seq(Lists) /\ Len(heap') = n /\ heap'[n] = b
        /\ \A l \in 1..Len(heap) : heap'[l] = heap[l]
    BY <1>4
  <1>6. HT' \in [Slots(width') -> 0..Len(heap')]
    BY <1>1, <1>5 DEF CreateBucket, update_buckets, TypeOK
  <1>7. \A l \in 1..Len(heap') : heap'[l].elems \subseteq 1..Len(wt')
    BY <1>3, <1>5 DEF TypeInv, mlist_make
  <1>8. wt_entry_max' \in Nat /\ oob' \in BOOLEAN
    BY <1>1 DEF CreateBucket, Grown, TypeOK, WritesOutside
  <1> QED
    BY <1>1, <1>3, <1>5, <1>6, <1>7, <1>8 DEF CreateBucket, TypeInv, TypeOK, GrowingEntry

LEMMA FindEntryTypeInv ==
    ASSUME TypeInv, FindEntry
    PROVE  TypeInv'
  <1> DEFINE e == search(HT[slot], key)
  <1>1. TypeOK /\ wt \in Seq(Entries) /\ heap \in Seq(Lists)
        /\ HT[slot] \in 1..Len(heap)
    BY SlotType DEF TypeInv, TypeOK, FindEntry, NULL
  <1>2. e \in Matches(HT[slot], key)
    BY DEF FindEntry, search
  <1>3. e \in 1..Len(wt)
    BY <1>1, <1>2 DEF Matches, TypeInv
  <1>4. /\ wt' \in Seq(Entries) /\ Len(wt') = Len(wt)
        /\ wsd' \in [1..WSD_LEN -> Maps] /\ j' \in 1..WSD_LEN
        /\ pc' \in {"idle", "update"} /\ S' \in Seq([1..WSD_LEN -> Maps])
    BY <1>1, <1>3, BindRangeEffect DEF FindEntry
  <1> QED
    BY <1>4 DEF FindEntry, TypeInv, TypeOK, GrowingEntry

LEMMA AllocateEntryTypeInv ==
    ASSUME TypeInv, AllocateEntry
    PROVE  TypeInv'
  <1>1. TypeOK /\ wt' \in Seq(Entries) /\ Len(wt') = Len(wt) + 1 /\ Len(wt) \in Nat
        /\ wt'[Len(wt')].var = key
    BY NewEntryType DEF TypeInv, AllocateEntry
  <1>2. key' = key /\ slot' = slot
    BY DEF AllocateEntry, key, slot
  <1>3. GrowingEntry'
    BY <1>1, <1>2 DEF AllocateEntry, GrowingEntry
  <1>4. wt_entry_max' \in Nat
    BY <1>1 DEF AllocateEntry, Grown, TypeOK
  <1> QED
    BY <1>1, <1>3, <1>4 DEF AllocateEntry, TypeInv, TypeOK

LEMMA AppendKeyTypeInv ==
    ASSUME TypeInv, AppendKey
    PROVE  TypeInv'
  <1>1. TypeOK /\ wt \in Seq(Entries) /\ heap \in Seq(Lists)
        /\ Len(wt) \in 1..Len(wt) /\ HT[slot] \in 1..Len(heap)
    BY SlotType DEF TypeInv, TypeOK, AppendKey, GrowingEntry, NULL
  <1>2. /\ wt' \in Seq(Entries) /\ Len(wt') = Len(wt)
        /\ wsd' \in [1..WSD_LEN -> Maps] /\ j' \in 1..WSD_LEN
        /\ pc' \in {"idle", "update"} /\ S' \in Seq([1..WSD_LEN -> Maps])
    BY <1>1, BindRangeEffect DEF AppendKey
  <1> DEFINE b == mlist_make(heap[HT[slot]].width, heap[HT[slot]].elems \cup {Len(wt)})
  <1>3. heap[HT[slot]] \in Lists
    BY <1>1
  <1>4. b \in Lists
    BY <1>1, <1>3 DEF mlist_make, Lists
  <1>5. heap' = [heap EXCEPT ![HT[slot]] = b]
    BY DEF AppendKey, mlappend
  <1>6. heap' \in Seq(Lists) /\ Len(heap') = Len(heap)
    BY <1>1, <1>4, <1>5
  <1>7. \A l \in 1..Len(heap') : heap'[l].elems \subseteq 1..Len(wt')
    BY <1>1, <1>2, <1>5, <1>6 DEF TypeInv, mlist_make
  <1> QED
    BY <1>2, <1>6, <1>7 DEF AppendKey, TypeInv, TypeOK, GrowingEntry

(* Replacing one element of a sequence, and appending two. *)
LEMMA SeqReplace ==
    ASSUME NEW T, NEW s \in Seq(T), NEW i \in 1..Len(s), NEW x \in T
    PROVE  /\ [s EXCEPT ![i] = x] \in Seq(T)
           /\ Len([s EXCEPT ![i] = x]) = Len(s)
           /\ [s EXCEPT ![i] = x][i] = x
           /\ \A k \in 1..Len(s) : k # i => [s EXCEPT ![i] = x][k] = s[k]
  OBVIOUS

LEMMA SeqAppendTwo ==
    ASSUME NEW T, NEW s \in Seq(T), NEW x \in T, NEW y \in T
    PROVE  /\ Append(Append(s, x), y) \in Seq(T)
           /\ Len(Append(Append(s, x), y)) = Len(s) + 2
           /\ \A k \in 1..Len(s) : Append(Append(s, x), y)[k] = s[k]
           /\ Append(Append(s, x), y)[Len(s) + 1] = x
           /\ Append(Append(s, x), y)[Len(s) + 2] = y
  <1>1. /\ Append(s, x) \in Seq(T) /\ Len(Append(s, x)) = Len(s) + 1
        /\ \A k \in 1..Len(s) : Append(s, x)[k] = s[k]
        /\ Append(s, x)[Len(s) + 1] = x /\ Len(s) \in Nat
    OBVIOUS
  <1>2. /\ Append(Append(s, x), y) \in Seq(T)
        /\ Len(Append(Append(s, x), y)) = Len(Append(s, x)) + 1
        /\ \A k \in 1..Len(Append(s, x)) : Append(Append(s, x), y)[k] = Append(s, x)[k]
        /\ Append(Append(s, x), y)[Len(Append(s, x)) + 1] = y
    BY <1>1
  <1> QED
    BY <1>1, <1>2

(* Doubling the directory: every key finds the bucket it found before. *)
LEMMA ExpandKeepsBuckets ==
    ASSUME NEW w \in Nat \ {0}, NEW A, NEW ht \in [Slots(w) -> A]
    PROVE  /\ expand_hashtable(ht, w) \in [Slots(2 * w) -> A]
           /\ \A k \in Nat : expand_hashtable(ht, w)[k % (2 * w)] = ht[k % w]
           /\ \A i \in Slots(2 * w) : i % w \in Slots(w) /\ expand_hashtable(ht, w)[i] = ht[i % w]
  <1> DEFINE x == expand_hashtable(ht, w)
  <1>1. ASSUME NEW i \in Slots(2 * w)
        PROVE  /\ i \in Nat /\ i % w \in Slots(w)
               /\ i % w = IF i < w THEN i ELSE i - w
    <2>1. i \in Nat /\ i \in 0..(2 * w - 1)
      BY DEF Slots
    <2>2. i % (2 * w) = i
      BY <2>1, ModSmall
    <2>3. i % w \in 0..(w - 1)
      BY <2>1, DivMod
    <2>4. i = i % w \/ i = (i % w) + w
      BY <2>1, <2>2, ModDouble
    <2> QED
      BY <2>1, <2>3, <2>4 DEF Slots
  <1>2. \A i \in Slots(2 * w) : x[i] = ht[i % w]
    BY <1>1 DEF expand_hashtable
  <1>3. x \in [Slots(2 * w) -> A]
    <2>1. \A i \in Slots(2 * w) : (IF i < w THEN ht[i] ELSE ht[i - w]) \in A
      BY <1>1
    <2> QED
      BY <2>1 DEF expand_hashtable
  <1>4. ASSUME NEW k \in Nat PROVE x[k % (2 * w)] = ht[k % w]
    <2>1. k % (2 * w) \in Slots(2 * w)
      BY DivMod DEF Slots
    <2>2. (k % (2 * w)) % w = k % w
      <3>1. 2 \in Nat \ {0} /\ w * 2 = 2 * w
        OBVIOUS
      <3>2. (k % (w * 2)) % w = k % w
        BY <3>1, ModMod, Zenon
      <3> QED
        BY <3>1, <3>2, Zenon
    <2> QED
      BY <1>2, <2>1, <2>2
  <1> QED
    BY <1>1, <1>2, <1>3, <1>4

(* One turn of the loop of updateWorldTable, in terms of the old bucket,   *)
(* its width lw, the directory ht0 after a possible doubling to w, and the *)
(* two new buckets.                                                        *)
SplitFacts(old, lw, w, ht0, ht1) ==
    /\ old \in 1..Len(heap) /\ old = HT[slot] /\ heap[old] \in Lists
    /\ lw = heap[old].width /\ lw \in Nat \ {0} /\ w \in Nat \ {0}
    /\ (lw = width /\ w = 2 * width) \/ (lw # width /\ w = width)
    /\ ht0 \in [Slots(w) -> 0..Len(heap)]
    /\ \A k \in Nat : k % w \in Slots(w) /\ ht0[k % w] = HT[k % width]
    /\ ht0 = IF lw = width THEN expand_hashtable(HT, width) ELSE HT
    /\ ht1 = update_buckets(ht0, w, key % lw, 2 * lw, Len(heap) + 1)
    /\ HT' = update_buckets(ht1, w, (key % lw) + lw, 2 * lw, Len(heap) + 2)
    /\ HT' \in [Slots(w) -> 0..(Len(heap) + 2)]
    /\ \A i \in Slots(w) :
          HT'[i] = IF i \in BucketSlots(w, (key % lw) + lw, 2 * lw) THEN Len(heap) + 2
                   ELSE IF i \in BucketSlots(w, key % lw, 2 * lw) THEN Len(heap) + 1
                   ELSE ht0[i]
    /\ width' = w
    /\ heap' \in Seq(Lists) /\ Len(heap') = Len(heap) + 2
    /\ \A l \in 1..Len(heap) : l # old => heap'[l] = heap[l]
    /\ heap'[old].elems = {} /\ heap'[old].freed
    /\ \A l \in {Len(heap) + 1, Len(heap) + 2} :
          heap'[l] = mlist_make(2 * lw, Redistributed(HT', 2 * lw, heap[old].elems, l))
    /\ oob' = (oob \/ WritesOutside(w, key % lw, 2 * lw)
                   \/ WritesOutside(w, (key % lw) + lw, 2 * lw))
    /\ UNCHANGED <<S, current_size, wsd, j, pc, wt, wt_entry_max>>
    /\ key' = key /\ slot' = key % w

LEMMA SplitBucketEffect ==
    ASSUME TypeInv, SplitBucket
    PROVE  \E old, lw, w, ht0, ht1 : SplitFacts(old, lw, w, ht0, ht1)
  <1> DEFINE old == HT[slot]
             lw  == heap[old].width
             w   == IF lw = width THEN 2 * width ELSE width
             ht0 == IF lw = width THEN expand_hashtable(HT, width) ELSE HT
             l1  == Len(heap) + 1
             l2  == Len(heap) + 2
             ht1 == update_buckets(ht0, w, key % lw, 2 * lw, l1)
             ht2 == update_buckets(ht1, w, (key % lw) + lw, 2 * lw, l2)
             b(l) == mlist_make(2 * lw, Redistributed(ht2, 2 * lw, heap[old].elems, l))
  <1>1. /\ TypeOK /\ heap \in Seq(Lists) /\ old \in 1..Len(heap) /\ slot \in Slots(width)
        /\ width \in Nat \ {0} /\ HT \in [Slots(width) -> 0..Len(heap)]
        /\ key \in Nat /\ slot = key % width
    BY SlotType DEF TypeInv, TypeOK, SplitBucket, GrowingEntry, NULL
  <1>2. heap[old] \in Lists /\ lw \in Nat \ {0} /\ w \in Nat \ {0} /\ heap[old].elems \subseteq Nat
    <2>1. heap[old] \in Lists
      BY <1>1
    <2> QED
      BY <1>1, <2>1 DEF Lists
  <1>3. /\ ht0 \in [Slots(w) -> 0..Len(heap)]
        /\ \A k \in Nat : k % w \in Slots(w) /\ ht0[k % w] = HT[k % width]
    <2>1. \A k \in Nat : k % w \in Slots(w)
      BY <1>2, DivMod DEF Slots
    <2>2. CASE lw = width
      <3>1. ht0 = expand_hashtable(HT, width) /\ w = 2 * width
        BY <2>2
      <3> DEFINE x == expand_hashtable(HT, width)
      <3>2. /\ x \in [Slots(2 * width) -> 0..Len(heap)]
            /\ \A k \in Nat : x[k % (2 * width)] = HT[k % width]
        BY <1>1, ExpandKeepsBuckets
      <3> QED
        BY <2>1, <3>1, <3>2
    <2>3. CASE lw # width
      BY <1>1, <2>1, <2>3
    <2> QED
      BY <2>2, <2>3
  <1>4. /\ width' = w /\ HT' = ht2
        /\ heap' = Append(Append(pfree(old), b(l1)), b(l2))
        /\ oob' = (oob \/ WritesOutside(w, key % lw, 2 * lw)
                       \/ WritesOutside(w, (key % lw) + lw, 2 * lw))
        /\ UNCHANGED <<S, current_size, wsd, j, pc, wt, wt_entry_max>>
    BY DEF SplitBucket, HASHFUNC
  <1>5. key' = key /\ slot' = key % w
    BY <1>4 DEF key, slot, HASHFUNC
  <1> HIDE DEF old, lw, w, ht0
  <1>6. /\ ht1 \in [Slots(w) -> 0..(Len(heap) + 1)]
        /\ \A i \in Slots(w) : ht1[i] = IF i \in BucketSlots(w, key % lw, 2 * lw)
                                        THEN l1 ELSE ht0[i]
    <2>1. PICK n \in Nat : n = Len(heap)
      BY <1>1
    <2>2. ht0 \in [Slots(w) -> 0..n] /\ ht1 = update_buckets(ht0, w, key % lw, 2 * lw, n + 1)
      BY <1>3, <2>1
    <2> HIDE DEF ht1
    <2>3. /\ ht1 \in [Slots(w) -> 0..(n + 1)]
          /\ \A i \in Slots(w) : ht1[i] = IF i \in BucketSlots(w, key % lw, 2 * lw)
                                          THEN n + 1 ELSE ht0[i]
      BY <2>2 DEF update_buckets
    <2> QED
      BY <2>1, <2>3
  <1>7. /\ ht2 \in [Slots(w) -> 0..(Len(heap) + 2)]
        /\ \A i \in Slots(w) : ht2[i] = IF i \in BucketSlots(w, (key % lw) + lw, 2 * lw)
                                        THEN l2 ELSE ht1[i]
    <2> HIDE DEF ht1
    <2>1. PICK n \in Nat : n = Len(heap) + 1 /\ n + 1 = Len(heap) + 2
      BY <1>1
    <2>2. ht1 \in [Slots(w) -> 0..n]
          /\ ht2 = update_buckets(ht1, w, (key % lw) + lw, 2 * lw, n + 1)
      BY <1>6, <2>1
    <2> HIDE DEF ht2
    <2>3. /\ ht2 \in [Slots(w) -> 0..(n + 1)]
          /\ \A i \in Slots(w) : ht2[i] = IF i \in BucketSlots(w, (key % lw) + lw, 2 * lw)
                                          THEN n + 1 ELSE ht1[i]
      BY <2>2 DEF update_buckets
    <2> QED
      BY <2>1, <2>3
  <1>8. b(l1) \in Lists /\ b(l2) \in Lists
    BY <1>2 DEF Lists, mlist_make, Redistributed
  <1> DEFINE f == [width |-> heap[old].width, elems |-> {}, freed |-> TRUE]
  <1>9. f \in Lists /\ pfree(old) = [heap EXCEPT ![old] = f]
    BY <1>2 DEF Lists, pfree
  <1>10. /\ pfree(old) \in Seq(Lists) /\ Len(pfree(old)) = Len(heap)
         /\ pfree(old)[old] = f
         /\ \A l \in 1..Len(heap) : l # old => pfree(old)[l] = heap[l]
    <2> HIDE DEF f
    <2> QED
      BY <1>1, <1>9, SeqReplace
  <1> HIDE DEF f, b
  <1>11. /\ heap' \in Seq(Lists) /\ Len(heap') = Len(heap) + 2
         /\ \A l \in 1..Len(heap) : heap'[l] = pfree(old)[l]
         /\ heap'[l1] = b(l1) /\ heap'[l2] = b(l2)
    <2>1. PICK p : p = pfree(old)
      OBVIOUS
    <2>2. p \in Seq(Lists) /\ Len(p) = Len(heap) /\ heap' = Append(Append(p, b(l1)), b(l2))
      BY <1>4, <1>10, <2>1
    <2> QED
      BY <1>8, <2>1, <2>2, SeqAppendTwo
  <1>12. SplitFacts(old, lw, w, ht0, ht1)
    <2>1. (lw = width /\ w = 2 * width) \/ (lw # width /\ w = width)
      BY DEF w
    <2>2. heap'[old].elems = {} /\ heap'[old].freed
      BY <1>1, <1>10, <1>11 DEF f
    <2>3. \A i \in Slots(w) :
          HT'[i] = IF i \in BucketSlots(w, (key % lw) + lw, 2 * lw) THEN Len(heap) + 2
                   ELSE IF i \in BucketSlots(w, key % lw, 2 * lw) THEN Len(heap) + 1
                   ELSE ht0[i]
      BY <1>4, <1>6, <1>7
    <2>4. \A l \in {Len(heap) + 1, Len(heap) + 2} :
          heap'[l] = mlist_make(2 * lw, Redistributed(HT', 2 * lw, heap[old].elems, l))
      BY <1>4, <1>11 DEF b
    <2>5. old = HT[slot] /\ lw = heap[old].width
          /\ ht0 = IF lw = width THEN expand_hashtable(HT, width) ELSE HT
      BY DEF old, lw, ht0
    <2>6. \A l \in 1..Len(heap) : l # old => heap'[l] = heap[l]
      BY <1>10, <1>11
    <2>7. ht1 = update_buckets(ht0, w, key % lw, 2 * lw, Len(heap) + 1)
          /\ HT' = update_buckets(ht1, w, (key % lw) + lw, 2 * lw, Len(heap) + 2)
          /\ HT' \in [Slots(w) -> 0..(Len(heap) + 2)]
      BY <1>4, <1>7
    <2> HIDE DEF ht1
    <2> QED
      BY <1>1, <1>2, <1>3, <1>4, <1>5, <1>11, <2>1, <2>2, <2>3, <2>4, <2>5, <2>6, <2>7, Zenon
      DEF SplitFacts
  <1> QED
    BY <1>12

LEMMA SplitBucketTypeInv ==
    ASSUME TypeInv, SplitBucket
    PROVE  TypeInv'
  <1>1. PICK old, lw, w, ht0, ht1 : SplitFacts(old, lw, w, ht0, ht1)
    BY SplitBucketEffect
  <1>2. TypeOK /\ key \in Nat /\ slot = key % width /\ Len(heap) \in Nat /\ pc = "grow"
    BY SlotType DEF TypeInv, TypeOK, SplitBucket
  <1>3. HT' \in [Slots(width') -> 0..Len(heap')]
    BY <1>1 DEF SplitFacts
  <1>4. \A l \in 1..Len(heap') : heap'[l].elems \subseteq 1..Len(wt')
    <2>1. wt' = wt /\ Len(heap') = Len(heap) + 2
      BY <1>1 DEF SplitFacts
    <2>2. ASSUME NEW l \in 1..Len(heap) PROVE heap'[l].elems \subseteq 1..Len(wt)
      BY <1>1, <2>2 DEF SplitFacts, TypeInv
    <2>3. ASSUME NEW l \in {Len(heap) + 1, Len(heap) + 2}
          PROVE heap'[l].elems \subseteq 1..Len(wt)
      <3>0. heap'[l] = mlist_make(2 * lw, Redistributed(HT', 2 * lw, heap[old].elems, l))
        BY <1>1, <2>3, Zenon DEF SplitFacts
      <3>1. heap'[l].elems = Redistributed(HT', 2 * lw, heap[old].elems, l)
        BY <3>0 DEF mlist_make
      <3>2. heap[old].elems \subseteq 1..Len(wt)
        BY <1>1 DEF SplitFacts, TypeInv
      <3> QED
        BY <3>1, <3>2 DEF Redistributed
    <2> QED
      BY <1>2, <2>1, <2>2, <2>3
  <1>5. HT'[key % w] # NULL
    <2>1. \A k \in Nat : k % w \in Slots(w) /\ ht0[k % w] = HT[k % width]
      BY <1>1, Zenon DEF SplitFacts
    <2>2. old = HT[slot] /\ old \in 1..Len(heap)
      BY <1>1, Zenon DEF SplitFacts
    <2>3. key % w \in Slots(w) /\ ht0[key % w] = old /\ old # NULL
      BY <1>2, <2>1, <2>2 DEF NULL
    <2>4. \A i \in Slots(w) :
            HT'[i] = IF i \in BucketSlots(w, (key % lw) + lw, 2 * lw) THEN Len(heap) + 2
                     ELSE IF i \in BucketSlots(w, key % lw, 2 * lw) THEN Len(heap) + 1
                     ELSE ht0[i]
      BY <1>1, Zenon DEF SplitFacts
    <2> QED
      BY <1>2, <2>3, <2>4 DEF NULL
  <1>6. GrowingEntry'
    <2>1. wt' = wt /\ pc' = pc /\ key' = key /\ slot' = key % w
      BY <1>1 DEF SplitFacts
    <2> QED
      BY <1>2, <1>5, <2>1 DEF GrowingEntry, TypeInv
  <1>7. /\ heap' \in Seq(Lists) /\ width' \in Nat \ {0}
        /\ UNCHANGED <<S, current_size, wsd, j, pc, wt, wt_entry_max>>
    BY <1>1 DEF SplitFacts
  <1>8. oob' \in BOOLEAN
    BY <1>1, <1>2, Zenon DEF SplitFacts, TypeOK, WritesOutside
  <1> QED
    BY <1>2, <1>3, <1>4, <1>6, <1>7, <1>8 DEF TypeInv, TypeOK

LEMMA NextTypeInv == TypeInv /\ [Next]_vars => TypeInv'
  <1> SUFFICES ASSUME TypeInv, [Next]_vars PROVE TypeInv'
    OBVIOUS
  <1>1. ASSUME NEW c \in Clauses, advance(c) PROVE TypeInv'
    BY <1>1, AdvanceTypeInv
  <1>2. CASE CreateBucket
    BY <1>2, CreateBucketTypeInv
  <1>3. CASE FindEntry
    BY <1>3, FindEntryTypeInv
  <1>4. CASE AllocateEntry
    BY <1>4, AllocateEntryTypeInv
  <1>5. CASE SplitBucket
    BY <1>5, SplitBucketTypeInv
  <1>6. CASE AppendKey
    BY <1>6, AppendKeyTypeInv
  <1>7. CASE FinalGroup
    BY <1>7 DEF FinalGroup, TypeInv, TypeOK, GrowingEntry, key, slot
  <1>8. CASE UNCHANGED vars
    BY <1>8 DEF vars, TypeInv, TypeOK, GrowingEntry, key, slot
  <1> QED
    BY <1>1, <1>2, <1>3, <1>4, <1>5, <1>6, <1>7, <1>8 DEF Next, updateWorldTable

(* Type correctness of localcond.c's state, with no assumption on the      *)
(* variables that arrive: offsets stay in range, the directory keeps one   *)
(* slot per residue and every slot names an allocated bucket.              *)
THEOREM TypeCorrect == Spec => []TypeOK
  <1>1. Spec => []TypeInv
    BY InitTypeInv, NextTypeInv, PTL DEF Spec
  <1>2. TypeInv => TypeOK
    BY DEF TypeInv
  <1> QED
    BY <1>1, <1>2, PTL

-----------------------------------------------------------------------------
(* The structure of the directory *)

(* The parts of IInv that are about the directory ht of w slots and the    *)
(* widths of the buckets hp, whatever the buckets hold.                    *)
Dir(w, ht, hp) ==
    /\ w \in Nat \ {0}
    /\ Doublings(INITWIDTH, w)
    /\ \A i \in Slots(w) : ht[i] # NULL =>
         /\ hp[ht[i]].width \in Nat \ {0}
         /\ Doublings(hp[ht[i]].width, w)
         /\ ~hp[ht[i]].freed
    /\ \A i, k \in Slots(w) : ht[i] # NULL =>
         (ht[k] = ht[i] <=> k % hp[ht[i]].width = i % hp[ht[i]].width)
    /\ \A i, k \in Slots(w) :
         i % INITWIDTH = k % INITWIDTH /\ ht[i] = NULL => ht[k] = NULL

LEMMA DirOfState ==
    ASSUME TypeOK
    PROVE  Dir(width, HT, heap) <=>
             WidthsDouble /\ EmptyTogether /\ RelevantBucketsShareList /\ NoDanglingBucket
  <1>1. ASSUME NEW i \in Slots(width), HT[i] # NULL
        PROVE  heap[HT[i]].width \in Nat \ {0}
    <2>1. heap \in Seq(Lists) /\ HT[i] \in 1..Len(heap)
      BY <1>1 DEF TypeOK, NULL
    <2>2. heap[HT[i]] \in Lists
      BY <2>1
    <2> QED
      BY <2>2 DEF Lists
  <1>2. width \in Nat \ {0}
    BY DEF TypeOK
  <1> QED
    BY <1>1, <1>2, Zenon
    DEF Dir, WidthsDouble, EmptyTogether, RelevantBucketsShareList, NoDanglingBucket

(* A slot of the doubled directory agrees with the slot it was copied from, *)
(* modulo every width that divides the old one.                            *)
LEMMA ModThroughWidth ==
    ASSUME NEW b \in Nat \ {0}, NEW w \in Nat \ {0}, Doublings(b, w), NEW k \in Nat
    PROVE  (k % w) % b = k % b
  <1>1. PICK c \in Nat \ {0} : w = b * c
    BY DoublingsDivide
  <1> QED
    BY <1>1, ModMod

(* expand_hashtable preserves the structure. *)
LEMMA ExpandDir ==
    ASSUME NEW w, NEW A, NEW ht \in [Slots(w) -> A], NEW hp, Dir(w, ht, hp)
    PROVE  Dir(2 * w, expand_hashtable(ht, w), hp)
  <1> DEFINE x == expand_hashtable(ht, w)
  <1>0. w \in Nat \ {0} /\ 2 * w \in Nat \ {0} /\ INITWIDTH \in Nat \ {0}
    BY LocalCondAssumption DEF Dir
  <1>1. \A i \in Slots(2 * w) : i \in Nat /\ i % w \in Slots(w) /\ x[i] = ht[i % w]
    <2>1. \A i \in Slots(2 * w) : i \in Nat
      BY <1>0 DEF Slots
    <2>2. \A i \in Slots(2 * w) : i % w \in Slots(w) /\ x[i] = ht[i % w]
      BY <1>0, ExpandKeepsBuckets, Zenon
    <2> QED
      BY <2>1, <2>2
  <1>2. Doublings(INITWIDTH, w)
    BY DEF Dir
  <1>3. Doublings(INITWIDTH, 2 * w)
    BY <1>0, <1>2, DoublingsExpand
  <1>4. ASSUME NEW i \in Slots(2 * w), x[i] # NULL
        PROVE  /\ hp[x[i]].width \in Nat \ {0}
               /\ Doublings(hp[x[i]].width, w)
               /\ Doublings(hp[x[i]].width, 2 * w)
               /\ ~hp[x[i]].freed
    <2>1. /\ hp[x[i]].width \in Nat \ {0} /\ Doublings(hp[x[i]].width, w)
          /\ ~hp[x[i]].freed
      BY <1>1, <1>4, Zenon DEF Dir
    <2> QED
      BY <1>0, <2>1, DoublingsExpand
  <1>5. ASSUME NEW i \in Slots(2 * w), NEW k \in Slots(2 * w), x[i] # NULL
        PROVE  x[k] = x[i] <=> k % hp[x[i]].width = i % hp[x[i]].width
    <2>1. PICK b \in Nat \ {0} : b = hp[x[i]].width /\ Doublings(b, w)
      BY <1>4, <1>5
    <2>2. (i % w) % b = i % b /\ (k % w) % b = k % b
      BY <1>0, <1>1, <2>1, ModThroughWidth
    <2>3. ht[k % w] = ht[i % w] <=> (k % w) % hp[ht[i % w]].width = (i % w) % hp[ht[i % w]].width
      BY <1>1, <1>5, Zenon DEF Dir
    <2>4. x[i] = ht[i % w] /\ x[k] = ht[k % w]
      BY <1>1
    <2> QED
      BY <2>1, <2>2, <2>3, <2>4, Zenon
  <1>6. ASSUME NEW i \in Slots(2 * w), NEW k \in Slots(2 * w),
               i % INITWIDTH = k % INITWIDTH, x[i] = NULL
        PROVE  x[k] = NULL
    <2>1. (i % w) % INITWIDTH = i % INITWIDTH /\ (k % w) % INITWIDTH = k % INITWIDTH
      BY <1>0, <1>1, <1>2, ModThroughWidth
    <2>2. i % w \in Slots(w) /\ k % w \in Slots(w) /\ x[i] = ht[i % w] /\ x[k] = ht[k % w]
      BY <1>1
    <2>3. (i % w) % INITWIDTH = (k % w) % INITWIDTH /\ ht[i % w] = NULL => ht[k % w] = NULL
      BY <2>2, Zenon DEF Dir
    <2> QED
      BY <1>6, <2>1, <2>2, <2>3, Zenon
  <1> QED
    BY <1>0, <1>3, <1>4, <1>5, <1>6, Zenon DEF Dir

(* distribute_elements on a directory ht: the slots of the old bucket,     *)
(* which agree with low modulo its width lw, go to l1 and l2 by the next   *)
(* bit; no other slot changes.                                             *)
Distributed(w, ht, old, lw, low, l1, l2, ht2) ==
    /\ \A i \in Slots(w) :
         ht2[i] = IF i % (2 * lw) = low + lw THEN l2
                  ELSE IF i % (2 * lw) = low THEN l1 ELSE ht[i]
    /\ \A i \in Slots(w) : ht[i] = old <=> i % lw = low
    /\ \A i \in Slots(w) :
         ht[i] = old <=> i % (2 * lw) = low \/ i % (2 * lw) = low + lw

(* The two calls of update_buckets in distribute_elements. *)
Rewritten(w, ht, lw, low, l1, l2, ht2) ==
    \A i \in Slots(w) :
        ht2[i] = IF i \in BucketSlots(w, low + lw, 2 * lw) THEN l2
                 ELSE IF i \in BucketSlots(w, low, 2 * lw) THEN l1
                 ELSE ht[i]

LEMMA DistributeSlots ==
    ASSUME NEW w, NEW ht, NEW hp, Dir(w, ht, hp),
           NEW old, old # NULL, NEW lw, lw = hp[old].width, lw # w,
           NEW k \in Nat, k % w \in Slots(w), ht[k % w] = old,
           NEW l1, NEW l2, NEW ht2, Rewritten(w, ht, lw, k % lw, l1, l2, ht2)
    PROVE  /\ lw \in Nat \ {0} /\ Doublings(lw, w) /\ Doublings(2 * lw, w)
           /\ k % lw \in 0..(lw - 1)
           /\ Distributed(w, ht, old, lw, k % lw, l1, l2, ht2)
           /\ ~WritesOutside(w, k % lw, 2 * lw)
           /\ ~WritesOutside(w, (k % lw) + lw, 2 * lw)
  <1>0. w \in Nat \ {0}
    BY DEF Dir
  <1>1. lw \in Nat \ {0} /\ Doublings(lw, w)
    BY Zenon DEF Dir
  <1>2. Doublings(2 * lw, w)
    BY <1>0, <1>1, DoublingsSplit
  <1>3. PICK low \in 0..(lw - 1) : low = k % lw
    BY <1>1, DivMod
  <1>4. \A i \in Slots(w) : i \in Nat
    BY <1>0 DEF Slots
  <1>5. \A i \in Slots(w) : ht[i] = old <=> i % lw = low
    <2>1. (k % w) % lw = k % lw
      BY <1>0, <1>1, ModThroughWidth
    <2>2. \A i \in Slots(w) : ht[i] = ht[k % w] <=> i % lw = (k % w) % lw
      BY Zenon DEF Dir
    <2> QED
      BY <1>3, <2>1, <2>2
  <1>6. \A i \in Slots(w) : i % lw = low <=> i % (2 * lw) = low \/ i % (2 * lw) = low + lw
    <2> TAKE i \in Slots(w)
    <2>1. i \in Nat /\ i % lw \in 0..(lw - 1)
      BY <1>1, <1>4, DivMod
    <2>2. i % (2 * lw) = i % lw \/ i % (2 * lw) = (i % lw) + lw
      BY <1>1, <2>1, ModDouble
    <2> QED
      BY <1>1, <1>3, <2>1, <2>2
  <1>60. PICK b \in Nat \ {0} : b = 2 * lw
    BY <1>1
  <1>61. PICK c \in Nat \ {0} : w = b * c
    BY <1>0, <1>2, <1>60, DoublingsDivide
  <1>7. b = 2 * lw /\ w = b * c
    BY <1>60, <1>61
  <1>8. low \in 0..(b - 1) /\ low + lw \in 0..(b - 1)
    BY <1>1, <1>3, <1>7
  <1>9. /\ BucketSlots(w, low, b) \subseteq Slots(w)
        /\ \A i \in Slots(w) : i \in BucketSlots(w, low, b) <=> i % b = low
    BY <1>7, <1>8, BucketSlotsMod
  <1>10. /\ BucketSlots(w, low + lw, b) \subseteq Slots(w)
         /\ \A i \in Slots(w) : i \in BucketSlots(w, low + lw, b) <=> i % b = low + lw
    BY <1>7, <1>8, BucketSlotsMod
  <1>11. ~WritesOutside(w, k % lw, 2 * lw) /\ ~WritesOutside(w, (k % lw) + lw, 2 * lw)
    BY <1>3, <1>7, <1>9, <1>10 DEF WritesOutside
  <1>12. \A i \in Slots(w) :
           ht2[i] = IF i % (2 * lw) = low + lw THEN l2
                    ELSE IF i % (2 * lw) = low THEN l1 ELSE ht[i]
    BY <1>3, <1>7, <1>9, <1>10 DEF Rewritten
  <1>13. Distributed(w, ht, old, lw, low, l1, l2, ht2)
    BY <1>5, <1>6, <1>12 DEF Distributed
  <1> QED
    BY <1>1, <1>2, <1>3, <1>11, <1>13

(* The buckets before and after: old is gone, n + 1 and n + 2 are new. *)
BucketsReplaced(n, ht, w, old, lw, hp, hp2) ==
    /\ n \in Nat /\ old \in 1..n
    /\ \A i \in Slots(w) : ht[i] \in 0..n
    /\ \A l \in 1..n : l # old => hp2[l] = hp[l]
    /\ \A l \in {n + 1, n + 2} : hp2[l].width = 2 * lw /\ ~hp2[l].freed

(* distribute_elements preserves the structure. *)
LEMMA DistributeDir ==
    ASSUME NEW w, NEW ht, NEW hp, Dir(w, ht, hp), NEW n, NEW old,
           NEW lw \in Nat \ {0}, NEW low \in 0..(lw - 1), NEW ht2,
           Doublings(2 * lw, w),
           Distributed(w, ht, old, lw, low, n + 1, n + 2, ht2),
           NEW hp2, BucketsReplaced(n, ht, w, old, lw, hp, hp2)
    PROVE  Dir(w, ht2, hp2)
  <1> USE DEF BucketsReplaced
  <1>0. w \in Nat \ {0} /\ Doublings(INITWIDTH, w)
    BY DEF Dir
  <1>1. ASSUME NEW i \in Slots(w)
        PROVE  \/ ht2[i] = n + 2 /\ i % (2 * lw) = low + lw /\ ht[i] = old
               \/ ht2[i] = n + 1 /\ i % (2 * lw) = low /\ ht[i] = old
               \/ /\ ht2[i] = ht[i] /\ ht[i] # old
                  /\ i % (2 * lw) # low /\ i % (2 * lw) # low + lw
    BY <1>1 DEF Distributed
  <1>2. low + lw # low /\ n + 1 # n + 2 /\ n + 1 # NULL /\ n + 2 # NULL /\ old # NULL
        /\ n + 1 \notin 0..n /\ n + 2 \notin 0..n
    BY DEF NULL
  <1>3. ASSUME NEW i \in Slots(w), ht2[i] # NULL
        PROVE  /\ hp2[ht2[i]].width \in Nat \ {0}
               /\ Doublings(hp2[ht2[i]].width, w)
               /\ ~hp2[ht2[i]].freed
    <2>1. CASE ht2[i] \in {n + 1, n + 2}
      <3>1. hp2[ht2[i]].width = 2 * lw /\ ~hp2[ht2[i]].freed
        BY <2>1
      <3>2. 2 * lw \in Nat \ {0}
        OBVIOUS
      <3> QED
        BY <3>1, <3>2
    <2>2. CASE ht2[i] = ht[i] /\ ht[i] # old
      <3>1. hp2[ht[i]] = hp[ht[i]]
        BY <1>3, <2>2 DEF NULL
      <3>2. hp[ht[i]].width \in Nat \ {0} /\ Doublings(hp[ht[i]].width, w) /\ ~hp[ht[i]].freed
        BY <1>3, <2>2, Zenon DEF Dir
      <3> QED
        BY <2>2, <3>1, <3>2
    <2> QED
      BY <1>1, <2>1, <2>2
  <1>4. ASSUME NEW i \in Slots(w), NEW k \in Slots(w), ht2[i] # NULL
        PROVE  ht2[k] = ht2[i] <=> k % hp2[ht2[i]].width = i % hp2[ht2[i]].width
    <2>0. ht[i] \in 0..n /\ ht[k] \in 0..n
      OBVIOUS
    <2>1. CASE ht2[i] = n + 2 /\ i % (2 * lw) = low + lw
      <3>1. hp2[ht2[i]].width = 2 * lw
        BY <2>1
      <3>2. ht2[k] = n + 2 <=> k % (2 * lw) = low + lw
        BY <1>1, <1>2, <2>0
      <3> QED
        BY <2>1, <3>1, <3>2
    <2>2. CASE ht2[i] = n + 1 /\ i % (2 * lw) = low
      <3>1. hp2[ht2[i]].width = 2 * lw
        BY <2>2
      <3>2. ht2[k] = n + 1 <=> k % (2 * lw) = low
        BY <1>1, <1>2, <2>0
      <3> QED
        BY <2>2, <3>1, <3>2
    <2>3. CASE ht2[i] = ht[i] /\ ht[i] # old
      <3>1. hp2[ht[i]] = hp[ht[i]]
        BY <1>4, <2>0, <2>3 DEF NULL
      <3>2. ht[k] = ht[i] <=> k % hp[ht[i]].width = i % hp[ht[i]].width
        BY <1>4, <2>3, Zenon DEF Dir
      <3>3. ht2[k] = ht[i] <=> ht[k] = ht[i]
        BY <1>1, <1>2, <2>0, <2>3
      <3> QED
        BY <2>3, <3>1, <3>2, <3>3
    <2> QED
      BY <1>1, <2>1, <2>2, <2>3
  <1>5. ASSUME NEW i \in Slots(w), NEW k \in Slots(w),
               i % INITWIDTH = k % INITWIDTH, ht2[i] = NULL
        PROVE  ht2[k] = NULL
    <2>1. ht[i] = NULL
      BY <1>1, <1>2, <1>5
    <2>2. ht[k] = NULL
      BY <1>5, <2>1, Zenon DEF Dir
    <2> QED
      BY <1>1, <1>2, <2>2
  <1> QED
    BY <1>0, <1>3, <1>4, <1>5, Zenon DEF Dir

-----------------------------------------------------------------------------
(* The inductive invariant *)

FullInv == TypeInv /\ IInv

(* The parts of IInv about the contents of the table and its buckets. *)
Contents ==
    BucketsSorted /\ EntriesReachable /\ OneEntryPerVariable

LEMMA FullInvParts ==
    FullInv <=> TypeInv /\ Dir(width, HT, heap) /\ Contents /\ ~oob
  BY DirOfState, Zenon DEF FullInv, TypeInv, IInv, Contents

(* Facts every step starts from. *)
LEMMA FullInvFacts ==
    ASSUME FullInv
    PROVE  /\ TypeInv /\ TypeOK /\ Dir(width, HT, heap) /\ Contents /\ ~oob
           /\ wt \in Seq(Entries) /\ Len(wt) \in Nat /\ heap \in Seq(Lists) /\ Len(heap) \in Nat
           /\ width \in Nat \ {0} /\ INITWIDTH \in Nat \ {0}
           /\ key \in Nat /\ slot \in Slots(width) /\ slot = key % width
           /\ \A e \in 1..Len(wt) : wt[e].var \in Nat
  <1>1. TypeInv /\ TypeOK /\ Dir(width, HT, heap) /\ Contents /\ ~oob
    BY FullInvParts DEF TypeInv
  <1>2. wt \in Seq(Entries) /\ heap \in Seq(Lists) /\ width \in Nat \ {0}
    BY <1>1 DEF TypeOK
  <1>3. \A e \in 1..Len(wt) : wt[e] \in Entries
    BY <1>2
  <1>4. \A e \in 1..Len(wt) : wt[e].var \in Nat
    BY <1>3, LocalCondAssumption DEF Entries
  <1> QED
    BY <1>1, <1>2, <1>4, SlotType, LocalCondAssumption

LEMMA InitFullInv == Init => FullInv
  <1> SUFFICES ASSUME Init PROVE FullInv
    OBVIOUS
  <1>1. width = INITWIDTH /\ INITWIDTH \in Nat \ {0} /\ HT = [i \in Slots(INITWIDTH) |-> NULL]
        /\ wt = <<>> /\ pc = "idle"
    BY LocalCondAssumption DEF Init
  <1>2. Doublings(INITWIDTH, INITWIDTH)
    BY <1>1, DoublingsRefl
  <1>3. \A i \in Slots(width) : HT[i] = NULL
    BY <1>1
  <1>4. Dir(width, HT, heap)
    BY <1>1, <1>2, <1>3 DEF Dir
  <1>5. Entered = {} /\ DOMAIN wt = {}
    BY <1>1 DEF Entered
  <1>6. Contents
    BY <1>3, <1>5 DEF Contents, BucketsSorted, EntriesReachable, OneEntryPerVariable
  <1>7. ~oob
    BY Zenon DEF Init
  <1> QED
    BY <1>4, <1>6, <1>7, InitTypeInv, FullInvParts

LEMMA AdvanceFullInv ==
    ASSUME FullInv, NEW c \in Clauses, advance(c)
    PROVE  FullInv'
  <1>0. TypeInv' /\ ~oob'
    <2>1. oob' = oob
      BY DEF advance
    <2> QED
      BY <2>1, FullInvFacts, AdvanceTypeInv
  <1>1. pc = "idle" /\ pc' = "update"
    BY DEF advance
  <1>2. CASE S = <<>>
    <2>1. width' = INITWIDTH /\ INITWIDTH \in Nat \ {0}
          /\ HT' = [i \in Slots(INITWIDTH) |-> NULL] /\ wt' = <<>>
      BY <1>2, LocalCondAssumption DEF advance, genStateInit
    <2>2. Doublings(INITWIDTH, INITWIDTH)
      BY <2>1, DoublingsRefl
    <2>3. \A i \in Slots(width') : HT'[i] = NULL
      BY <2>1
    <2>4. Dir(width, HT, heap)'
      BY <2>1, <2>2, <2>3 DEF Dir
    <2>5. Entered' = {} /\ DOMAIN wt' = {}
      BY <1>1, <2>1 DEF Entered
    <2>6. Contents'
      BY <2>3, <2>5 DEF Contents, BucketsSorted, EntriesReachable, OneEntryPerVariable
    <2> QED
      BY <1>0, <2>4, <2>6, FullInvParts, PTL
  <1>3. CASE S # <<>>
    <2>1. UNCHANGED <<width, HT, heap, wt>>
      BY <1>3 DEF advance
    <2>2. Entered' = Entered
      BY <1>1, <2>1 DEF Entered
    <2>3. Dir(width, HT, heap)' /\ Contents'
      BY <2>1, <2>2, FullInvFacts
      DEF Dir, Contents, BucketsSorted, EntriesReachable, OneEntryPerVariable
    <2> QED
      BY <1>0, <2>3, FullInvParts, PTL
  <1> QED
    BY <1>2, <1>3

LEMMA FindEntryFullInv ==
    ASSUME FullInv, FindEntry
    PROVE  FullInv'
  <1> DEFINE e == search(HT[slot], key)
  <1>0. TypeInv' /\ ~oob' /\ UNCHANGED <<width, HT, heap>> /\ pc = "update"
    BY FullInvFacts, FindEntryTypeInv DEF FindEntry
  <1>1. HT[slot] \in 1..Len(heap)
    BY FullInvFacts DEF TypeOK, FindEntry, NULL
  <1>2. e \in Matches(HT[slot], key)
    BY DEF FindEntry, search
  <1>3. e \in 1..Len(wt)
    BY <1>1, <1>2, FullInvFacts DEF Matches, TypeInv
  <1>4. Len(wt') = Len(wt) /\ pc' \in {"idle", "update"} /\ wt' \in Seq(Entries)
        /\ \A d \in 1..Len(wt) : wt'[d].var = wt[d].var
    BY <1>3, FullInvFacts, BindRangeEffect DEF FindEntry
  <1>5. Entered' = Entered /\ Entered = 1..Len(wt) /\ DOMAIN wt = 1..Len(wt)
        /\ DOMAIN wt' = 1..Len(wt)
    BY <1>0, <1>4, FullInvFacts DEF Entered
  <1>6. Dir(width, HT, heap)'
    BY <1>0, FullInvFacts DEF Dir
  <1>7. Contents
    BY FullInvFacts
  <1>8. BucketsSorted'
    BY <1>0, <1>4, <1>5, <1>7 DEF Contents, BucketsSorted
  <1>9. EntriesReachable'
    BY <1>0, <1>4, <1>5, <1>7 DEF Contents, EntriesReachable, HASHFUNC
  <1>10. OneEntryPerVariable'
    BY <1>4, <1>5, <1>7 DEF Contents, OneEntryPerVariable
  <1> QED
    BY <1>0, <1>6, <1>8, <1>9, <1>10, FullInvParts, PTL DEF Contents

(* A variable whose lookup fails has no entry yet. *)
LEMMA LookupFails ==
    ASSUME FullInv, pc = "update",
           HT[slot] = NULL \/ search(HT[slot], key) = KEY_NOT_FOUND
    PROVE  \A e \in 1..Len(wt) : wt[e].var # key
  <1> SUFFICES ASSUME NEW e \in 1..Len(wt), wt[e].var = key PROVE FALSE
    OBVIOUS
  <1>1. e \in Entered
    BY FullInvFacts DEF Entered
  <1>2. HT[slot] # NULL /\ e \in heap[HT[slot]].elems
    BY <1>1, FullInvFacts DEF Contents, EntriesReachable, HASHFUNC
  <1>3. e \in Matches(HT[slot], key)
    BY <1>2 DEF Matches
  <1>4. search(HT[slot], key) \in Matches(HT[slot], key)
    BY <1>3 DEF search
  <1>5. HT[slot] \in 1..Len(heap)
    BY <1>2, FullInvFacts DEF TypeOK, NULL
  <1>6. search(HT[slot], key) \in 1..Len(wt)
    BY <1>4, <1>5, FullInvFacts DEF Matches, TypeInv
  <1> QED
    BY <1>2, <1>6 DEF KEY_NOT_FOUND

LEMMA AllocateEntryFullInv ==
    ASSUME FullInv, AllocateEntry
    PROVE  FullInv'
  <1>0. TypeInv' /\ ~oob' /\ UNCHANGED <<width, HT, heap>> /\ pc = "update" /\ pc' = "grow"
    BY FullInvFacts, AllocateEntryTypeInv DEF AllocateEntry
  <1>1. /\ Len(wt') = Len(wt) + 1 /\ wt' \in Seq(Entries)
        /\ \A e \in 1..Len(wt) : wt'[e] = wt[e]
        /\ wt'[Len(wt) + 1].var = key
    BY FullInvFacts, NewEntryType DEF AllocateEntry
  <1>2. Entered' = Entered /\ Entered = 1..Len(wt) /\ DOMAIN wt' = 1..(Len(wt) + 1)
    BY <1>0, <1>1, FullInvFacts DEF Entered
  <1>3. Dir(width, HT, heap)'
    BY <1>0, FullInvFacts DEF Dir
  <1>4. BucketsSorted' /\ EntriesReachable'
    BY <1>0, <1>1, <1>2, FullInvFacts
    DEF Contents, BucketsSorted, EntriesReachable, HASHFUNC
  <1>5. OneEntryPerVariable'
    <2>1. \A e \in 1..Len(wt) : wt[e].var # key
      BY <1>0, LookupFails DEF AllocateEntry
    <2>2. \A d, e \in 1..Len(wt) : wt[d].var = wt[e].var => d = e
      BY FullInvFacts DEF Contents, OneEntryPerVariable
    <2>3. SUFFICES ASSUME NEW d \in 1..(Len(wt) + 1), NEW e \in 1..(Len(wt) + 1),
                          wt'[d].var = wt'[e].var
                   PROVE  d = e
      BY <1>2 DEF OneEntryPerVariable
    <2>4. Len(wt) \in Nat
      BY FullInvFacts
    <2>5. CASE d \in 1..Len(wt) /\ e \in 1..Len(wt)
      <3>1. wt'[d] = wt[d] /\ wt'[e] = wt[e]
        BY <1>1, <2>5
      <3> QED
        BY <2>2, <2>3, <2>5, <3>1
    <2>6. CASE d \in 1..Len(wt) /\ e = Len(wt) + 1
      BY <1>1, <2>1, <2>3, <2>6
    <2>7. CASE e \in 1..Len(wt) /\ d = Len(wt) + 1
      BY <1>1, <2>1, <2>3, <2>7
    <2>8. CASE d = Len(wt) + 1 /\ e = Len(wt) + 1
      BY <2>8
    <2> QED
      BY <2>3, <2>4, <2>5, <2>6, <2>7, <2>8
  <1> QED
    BY <1>0, <1>3, <1>4, <1>5, FullInvParts, PTL DEF Contents

LEMMA AppendKeyFullInv ==
    ASSUME FullInv, AppendKey
    PROVE  FullInv'
  <1>a. PICK l, n : l = HT[slot] /\ n = Len(wt)
    OBVIOUS
  <1>0. TypeInv' /\ ~oob' /\ width' = width /\ HT' = HT /\ pc = "grow"
    BY FullInvFacts, AppendKeyTypeInv DEF AppendKey
  <1>1. l \in 1..Len(heap) /\ n \in 1..n /\ wt[n].var = key /\ l # NULL /\ n \in Nat
    BY <1>0, <1>a, FullInvFacts DEF TypeInv, TypeOK, GrowingEntry, NULL
  <1>2. Len(wt') = n /\ pc' \in {"idle", "update"} /\ wt' \in Seq(Entries)
        /\ \A d \in 1..n : wt'[d].var = wt[d].var
    BY <1>1, <1>a, FullInvFacts, BindRangeEffect DEF AppendKey
  <1>3. Entered' = 1..n /\ Entered = 1..(n - 1) /\ DOMAIN wt = 1..n /\ DOMAIN wt' = 1..n
    BY <1>0, <1>2, <1>a, FullInvFacts DEF Entered
  <1>4. heap' = [heap EXCEPT ![l] = mlist_make(heap[l].width, heap[l].elems \cup {n})]
    BY <1>a DEF AppendKey, mlappend
  <1>5. heap[l].freed = FALSE
    <2>1. heap[l] \in Lists
      BY <1>1, FullInvFacts
    <2>2. ~heap[l].freed
      BY <1>1, <1>a, FullInvFacts DEF Dir
    <2> QED
      BY <2>1, <2>2 DEF Lists
  <1>6. /\ heap'[l].width = heap[l].width
        /\ heap'[l].freed = heap[l].freed
        /\ heap'[l].elems = heap[l].elems \cup {n}
        /\ \A i \in 1..Len(heap) : i # l => heap'[i] = heap[i]
    <2>1. heap \in Seq(Lists) /\ heap[l] \in Lists
      BY <1>1, FullInvFacts
    <2>2. PICK b : b = mlist_make(heap[l].width, heap[l].elems \cup {n})
      OBVIOUS
    <2>3. b.width = heap[l].width /\ b.elems = heap[l].elems \cup {n}
      BY <2>2 DEF mlist_make
    <2>4. b.freed = heap[l].freed
      <3>1. b.freed = FALSE
        BY <2>2, Zenon DEF mlist_make
      <3> QED
        BY <1>5, <3>1, Zenon
    <2>5. b \in Lists
      BY <1>1, <2>1, <2>2 DEF mlist_make, Lists
    <2>6. heap'[l] = b /\ \A i \in 1..Len(heap) : i # l => heap'[i] = heap[i]
      <3>1. heap' = [heap EXCEPT ![l] = b]
        BY <1>4, <2>2
      <3> QED
        BY <1>1, <2>1, <3>1, SeqReplace
    <2> QED
      BY <2>3, <2>4, <2>6, Zenon
  <1>7. \A i \in Slots(width) : HT[i] # NULL => HT[i] \in 1..Len(heap)
    BY FullInvFacts DEF TypeOK, NULL
  <1>70. \A i \in Slots(width) : HT[i] # NULL =>
            heap'[HT[i]].width = heap[HT[i]].width /\ heap'[HT[i]].freed = heap[HT[i]].freed
    BY <1>6, <1>7
  <1>8. Dir(width, HT, heap)'
    <2>1. Dir(width, HT, heap)
      BY FullInvFacts
    <2> QED
      BY <1>0, <1>70, <2>1 DEF Dir
  <1>9. BucketsSorted'
    <2>1. SUFFICES ASSUME NEW i \in Slots(width), HT[i] # NULL, NEW e \in heap'[HT[i]].elems
                   PROVE  e \in 1..n /\ wt'[e].var % heap'[HT[i]].width = i % heap'[HT[i]].width
      BY <1>0, <1>3 DEF BucketsSorted
    <2>2. heap'[HT[i]].width = heap[HT[i]].width
      BY <1>70, <2>1
    <2>3. CASE e \in heap[HT[i]].elems
      <3>1. e \in 1..(n - 1) /\ wt[e].var % heap[HT[i]].width = i % heap[HT[i]].width
        BY <1>3, <2>1, <2>3, FullInvFacts DEF Contents, BucketsSorted
      <3>2. e \in 1..n
        BY <1>1, <3>1
      <3> QED
        BY <1>2, <2>2, <3>1, <3>2
    <2>4. CASE e \notin heap[HT[i]].elems
      <3>1. e = n /\ HT[i] = l
        BY <1>6, <1>7, <2>1, <2>4
      <3>2. PICK lw \in Nat \ {0} : lw = heap[l].width /\ Doublings(lw, width)
        BY <1>1, <1>a, FullInvFacts DEF Dir
      <3>3. i % lw = slot % lw
        BY <1>1, <1>a, <2>1, <3>1, <3>2, FullInvFacts DEF Dir
      <3>4. slot % lw = key % lw
        BY <3>2, FullInvFacts, ModThroughWidth
      <3> QED
        BY <1>1, <1>2, <2>2, <3>1, <3>2, <3>3, <3>4
    <2> QED
      BY <2>3, <2>4
  <1>10. EntriesReachable'
    <2>1. SUFFICES ASSUME NEW e \in 1..n
                   PROVE  /\ HT[wt'[e].var % width] # NULL
                          /\ e \in heap'[HT[wt'[e].var % width]].elems
      BY <1>0, <1>3 DEF EntriesReachable, HASHFUNC
    <2>2. wt'[e].var = wt[e].var /\ wt[e].var \in Nat
      BY <1>2, <1>a, <2>1, FullInvFacts
    <2>3. CASE e = n
      BY <1>1, <1>a, <1>6, <2>2, <2>3, FullInvFacts
    <2>4. CASE e # n
      <3>1. e \in 1..(n - 1)
        BY <1>1, <2>1, <2>4
      <3>2. HT[wt[e].var % width] # NULL /\ e \in heap[HT[wt[e].var % width]].elems
        BY <1>3, <3>1, FullInvFacts DEF Contents, EntriesReachable, HASHFUNC
      <3>3. wt[e].var % width \in Slots(width)
        BY <2>2, FullInvFacts, DivMod DEF Slots
      <3>4. HT[wt[e].var % width] \in 1..Len(heap)
        BY <1>7, <3>2, <3>3
      <3>5. e \in heap'[HT[wt[e].var % width]].elems
        BY <1>6, <3>2, <3>4
      <3> QED
        BY <2>2, <3>2, <3>5
    <2> QED
      BY <2>3, <2>4
  <1>11. OneEntryPerVariable'
    BY <1>2, <1>3, FullInvFacts DEF Contents, OneEntryPerVariable
  <1> QED
    BY <1>0, <1>8, <1>9, <1>10, <1>11, FullInvParts, PTL DEF Contents

(* create_bucket below the initial width: update_buckets then reaches every *)
(* slot that agrees with the bucket's, and those were all empty.           *)
LEMMA CreateBucketFullInv ==
    ASSUME FullInv, CreateBucket, NoLateBucket
    PROVE  FullInv'
  <1>a. PICK n, m, b : n = Len(heap) + 1 /\ m = Len(wt) + 1 /\ b = INITWIDTH
    OBVIOUS
  <1>0. TypeInv' /\ width' = width /\ pc = "update" /\ HT[slot] = NULL
    BY FullInvFacts, CreateBucketTypeInv DEF CreateBucket
  <1>1. slot \in 0..(b - 1) /\ b \in Nat \ {0} /\ n \in Nat \ {0} /\ m \in Nat \ {0}
    BY <1>0, <1>a, FullInvFacts DEF NoLateBucket, LateBucket, Slots
  <1>2. PICK c \in Nat \ {0} : width = b * c
    BY <1>1, <1>a, FullInvFacts, DoublingsDivide DEF Dir
  <1>3. /\ BucketSlots(width, slot, b) \subseteq Slots(width)
        /\ \A i \in Slots(width) : i \in BucketSlots(width, slot, b) <=> i % b = slot
    BY <1>1, <1>2, BucketSlotsMod
  <1>4. ~oob'
    <2>1. oob' = (oob \/ WritesOutside(width, slot, b))
      BY <1>a DEF CreateBucket
    <2>2. ~WritesOutside(width, slot, b)
      BY <1>3 DEF WritesOutside
    <2> QED
      BY <2>1, <2>2, FullInvFacts, Zenon
  <1>5. \A i \in Slots(width) : HT'[i] = IF i % b = slot THEN n ELSE HT[i]
    BY <1>3, <1>a DEF CreateBucket, update_buckets
  <1>6. \A i \in Slots(width) : i % b = slot => HT[i] = NULL
    <2>1. slot % b = slot
      BY <1>1, ModSmall
    <2>2. \A i, k \in Slots(width) : i % b = k % b /\ HT[i] = NULL => HT[k] = NULL
      BY <1>a, FullInvFacts, Zenon DEF Dir
    <2> QED
      BY <1>0, <2>1, <2>2, FullInvFacts
  <1>7. \A i \in Slots(width) : HT[i] \in 0..(n - 1)
    BY <1>a, FullInvFacts DEF TypeOK
  <1>8. /\ \A l \in 1..(n - 1) : heap'[l] = heap[l]
        /\ heap'[n] = mlist_make(b, {m})
    <2>1. PICK x : x = mlist_make(b, {m})
      OBVIOUS
    <2>2. heap' = Append(heap, x) /\ heap \in Seq(Lists) /\ n = Len(heap) + 1
      BY <1>a, <2>1, FullInvFacts DEF CreateBucket
    <2>3. x \in Lists
      BY <1>1, <2>1 DEF mlist_make, Lists
    <2> QED
      BY <2>1, <2>2, <2>3
  <1>9. heap'[n].width = b /\ heap'[n].elems = {m} /\ ~heap'[n].freed
    BY <1>8 DEF mlist_make
  <1>10. \A i \in Slots(width) :
           \/ HT'[i] = n /\ i % b = slot
           \/ HT'[i] = HT[i] /\ i % b # slot /\ HT[i] # n /\ HT[i] = NULL
           \/ /\ HT'[i] = HT[i] /\ i % b # slot /\ HT[i] # n /\ HT[i] # NULL
              /\ heap'[HT[i]] = heap[HT[i]]
    BY <1>1, <1>5, <1>7, <1>8 DEF NULL
  <1>11. Dir(width, HT, heap)
    BY FullInvFacts
  <1>12. Dir(width, HT', heap')
    <2>1. n # NULL
      BY <1>1 DEF NULL
    <2>2. ASSUME NEW i \in Slots(width), HT'[i] # NULL
          PROVE  /\ heap'[HT'[i]].width \in Nat \ {0}
                 /\ Doublings(heap'[HT'[i]].width, width)
                 /\ ~heap'[HT'[i]].freed
      <3>1. CASE HT'[i] = n
        BY <1>1, <1>9, <1>11, <1>a, <3>1 DEF Dir
      <3>2. CASE HT'[i] = HT[i] /\ heap'[HT[i]] = heap[HT[i]]
        BY <1>11, <2>2, <3>2, Zenon DEF Dir
      <3> QED
        BY <1>10, <2>2, <3>1, <3>2
    <2>3. ASSUME NEW i \in Slots(width), NEW k \in Slots(width), HT'[i] # NULL
          PROVE  HT'[k] = HT'[i] <=> k % heap'[HT'[i]].width = i % heap'[HT'[i]].width
      <3>1. CASE HT'[i] = n /\ i % b = slot
        BY <1>9, <1>10, <3>1
      <3>2. CASE HT'[i] = HT[i] /\ i % b # slot /\ heap'[HT[i]] = heap[HT[i]] /\ HT[i] # n
        <4>1. HT[k] = HT[i] <=> k % heap[HT[i]].width = i % heap[HT[i]].width
          BY <1>11, <2>3, <3>2, Zenon DEF Dir
        <4>2. HT'[k] = HT[i] <=> HT[k] = HT[i]
          BY <1>5, <1>6, <2>3, <3>2
        <4> QED
          BY <3>2, <4>1, <4>2
      <3> QED
        BY <1>10, <2>3, <3>1, <3>2
    <2>4. ASSUME NEW i \in Slots(width), NEW k \in Slots(width),
                 i % INITWIDTH = k % INITWIDTH, HT'[i] = NULL
          PROVE  HT'[k] = NULL
      <3>1. HT[i] = NULL /\ i % b # slot
        BY <1>10, <2>1, <2>4
      <3>2. HT[k] = NULL
        BY <1>11, <2>4, <3>1, Zenon DEF Dir
      <3> QED
        BY <1>5, <1>a, <2>4, <3>1, <3>2
    <2>5. width \in Nat \ {0} /\ Doublings(INITWIDTH, width)
      BY <1>11 DEF Dir
    <2> QED
      BY <2>2, <2>3, <2>4, <2>5, Zenon DEF Dir
  <1>13. /\ Len(wt') = m /\ pc' \in {"idle", "update"} /\ wt' \in Seq(Entries)
         /\ \A d \in 1..(m - 1) : wt'[d].var = wt[d].var
         /\ wt'[m].var = key
    <2>1. PICK t : t = wtEntryInit(key)
      OBVIOUS
    <2>2. t \in Seq(Entries) /\ Len(t) = m /\ BindRange(t, m) /\ m \in 1..Len(t)
          /\ (\A d \in 1..(m - 1) : t[d] = wt[d]) /\ t[m].var = key
      BY <1>1, <1>a, <2>1, FullInvFacts, NewEntryType DEF CreateBucket
    <2> QED
      BY <1>1, <2>2, FullInvFacts, BindRangeEffect
  <1>14. Entered' = 1..m /\ Entered = 1..(m - 1) /\ DOMAIN wt' = 1..m /\ DOMAIN wt = 1..(m - 1)
    BY <1>0, <1>1, <1>13, <1>a, FullInvFacts DEF Entered
  <1>15. (key % width) % b = key % b /\ slot = key % b
    <2>1. (key % width) % b = key % b
      BY <1>1, <1>a, <1>11, FullInvFacts, ModThroughWidth DEF Dir
    <2> QED
      BY <1>1, <2>1, FullInvFacts, ModSmall
  <1>16. BucketsSorted'
    <2>1. SUFFICES ASSUME NEW i \in Slots(width), HT'[i] # NULL, NEW e \in heap'[HT'[i]].elems
                   PROVE  e \in 1..m /\ wt'[e].var % heap'[HT'[i]].width = i % heap'[HT'[i]].width
      BY <1>0, <1>14 DEF BucketsSorted
    <2>2. CASE HT'[i] = n /\ i % b = slot
      <3>1. e = m /\ heap'[HT'[i]].width = b
        BY <1>9, <2>1, <2>2
      <3> QED
        BY <1>1, <1>13, <1>15, <2>2, <3>1
    <2>3. CASE HT'[i] = HT[i] /\ HT[i] # NULL /\ heap'[HT[i]] = heap[HT[i]]
      <3>1. e \in 1..(m - 1) /\ wt[e].var % heap[HT[i]].width = i % heap[HT[i]].width
        BY <1>14, <2>1, <2>3, FullInvFacts DEF Contents, BucketsSorted
      <3>2. e \in 1..m
        BY <1>1, <3>1
      <3> QED
        BY <1>13, <2>3, <3>1, <3>2
    <2> QED
      BY <1>10, <2>1, <2>2, <2>3
  <1>17. EntriesReachable'
    <2>1. SUFFICES ASSUME NEW e \in 1..m
                   PROVE  /\ HT'[wt'[e].var % width] # NULL
                          /\ e \in heap'[HT'[wt'[e].var % width]].elems
      BY <1>0, <1>14 DEF EntriesReachable, HASHFUNC
    <2>2. CASE e = m
      <3>1. HT'[slot] = n /\ n # NULL
        BY <1>1, <1>5, <1>15, FullInvFacts DEF NULL
      <3> QED
        BY <1>9, <1>13, <2>2, <3>1, FullInvFacts
    <2>3. CASE e # m
      <3>1. e \in 1..(m - 1)
        BY <1>1, <2>1, <2>3
      <3>2. HT[wt[e].var % width] # NULL /\ e \in heap[HT[wt[e].var % width]].elems
        BY <1>14, <3>1, FullInvFacts DEF Contents, EntriesReachable, HASHFUNC
      <3>3. wt[e].var \in Nat
        BY <1>a, <3>1, FullInvFacts
      <3>4. wt[e].var % width \in Slots(width)
        BY <3>3, FullInvFacts, DivMod DEF Slots
      <3>5. HT'[wt[e].var % width] = HT[wt[e].var % width]
            /\ heap'[HT[wt[e].var % width]] = heap[HT[wt[e].var % width]]
        BY <1>6, <1>10, <3>2, <3>4
      <3> QED
        BY <1>13, <3>1, <3>2, <3>5
    <2> QED
      BY <2>2, <2>3
  <1>18. OneEntryPerVariable'
    <2>1. \A e \in 1..(m - 1) : wt[e].var # key
      BY <1>0, <1>a, LookupFails, FullInvFacts
    <2>2. \A d, e \in 1..(m - 1) : wt[d].var = wt[e].var => d = e
      BY <1>14, FullInvFacts DEF Contents, OneEntryPerVariable
    <2>3. SUFFICES ASSUME NEW d \in 1..m, NEW e \in 1..m, wt'[d].var = wt'[e].var
                   PROVE  d = e
      BY <1>14 DEF OneEntryPerVariable
    <2>4. CASE d \in 1..(m - 1) /\ e \in 1..(m - 1)
      BY <1>13, <2>2, <2>3, <2>4
    <2>5. CASE d \in 1..(m - 1) /\ e = m
      BY <1>13, <2>1, <2>3, <2>5
    <2>6. CASE e \in 1..(m - 1) /\ d = m
      BY <1>13, <2>1, <2>3, <2>6
    <2> QED
      BY <1>1, <2>3, <2>4, <2>5, <2>6
  <1>19. Dir(width, HT, heap)'
    BY <1>0, <1>12
  <1> QED
    BY <1>0, <1>4, <1>16, <1>17, <1>18, <1>19, FullInvParts, PTL DEF Contents

(* One turn of the loop: an entry of the split bucket lands in the new     *)
(* bucket the slots of its variable now share.                             *)
LEMMA SplitBucketFullInv ==
    ASSUME FullInv, SplitBucket
    PROVE  FullInv'
  <1>1. PICK old, lw, w, ht0, ht1 : SplitFacts(old, lw, w, ht0, ht1)
    BY FullInvFacts, SplitBucketEffect
  <1>a. PICK n, low : n = Len(heap) /\ low = key % lw
    OBVIOUS
  <1>2. /\ n \in Nat /\ old \in 1..n /\ old = HT[slot] /\ lw = heap[old].width
        /\ lw \in Nat \ {0} /\ w \in Nat \ {0} /\ width' = w /\ wt' = wt /\ pc' = pc
        /\ ht0 \in [Slots(w) -> 0..n]
        /\ old # NULL
    <2>1. /\ old \in 1..Len(heap) /\ old = HT[slot] /\ lw = heap[old].width
          /\ lw \in Nat \ {0} /\ w \in Nat \ {0} /\ width' = w /\ wt' = wt /\ pc' = pc
          /\ ht0 \in [Slots(w) -> 0..Len(heap)]
      BY <1>1, Zenon DEF SplitFacts
    <2>2. Len(heap) \in Nat
      BY FullInvFacts
    <2> QED
      BY <1>a, <2>1, <2>2 DEF NULL
  <1>3. /\ (lw = width /\ w = 2 * width) \/ (lw # width /\ w = width)
        /\ ht0 = IF lw = width THEN expand_hashtable(HT, width) ELSE HT
        /\ \A k \in Nat : k % w \in Slots(w) /\ ht0[k % w] = HT[k % width]
    BY <1>1, Zenon DEF SplitFacts
  <1>4. \A i \in Slots(w) :
           HT'[i] = IF i \in BucketSlots(w, (key % lw) + lw, 2 * lw) THEN n + 2
                    ELSE IF i \in BucketSlots(w, key % lw, 2 * lw) THEN n + 1
                    ELSE ht0[i]
    BY <1>1, <1>a, Zenon DEF SplitFacts
  <1>5. /\ \A l \in 1..n : l # old => heap'[l] = heap[l]
        /\ \A l \in {n + 1, n + 2} :
             heap'[l] = mlist_make(2 * lw, Redistributed(HT', 2 * lw, heap[old].elems, l))
    BY <1>1, <1>a, Zenon DEF SplitFacts
  <1>6. TypeInv' /\ key \in Nat /\ slot = key % width
    BY FullInvFacts, SplitBucketTypeInv
  <1>7. Dir(w, ht0, heap) /\ lw # w
    <2>0. Dir(width, HT, heap) /\ width \in Nat \ {0} /\ HT \in [Slots(width) -> 0..n]
      BY <1>a, FullInvFacts DEF TypeOK
    <2>1. CASE lw = width
      <3>1. Dir(2 * width, expand_hashtable(HT, width), heap)
        BY <2>0, ExpandDir
      <3> QED
        BY <1>2, <1>3, <2>0, <2>1, <3>1
    <2>2. CASE lw # width
      BY <1>3, <2>0, <2>2
    <2> QED
      BY <2>1, <2>2
  <1>8. key % w \in Slots(w) /\ ht0[key % w] = old
    BY <1>2, <1>3, <1>6
  <1>9. /\ Doublings(lw, w) /\ Doublings(2 * lw, w)
        /\ low \in 0..(lw - 1)
        /\ Distributed(w, ht0, old, lw, low, n + 1, n + 2, HT')
        /\ ~WritesOutside(w, low, 2 * lw)
        /\ ~WritesOutside(w, low + lw, 2 * lw)
    <2>0. PICK hp, ht2, k, l1, l2 :
             hp = heap /\ ht2 = HT' /\ k = key /\ l1 = n + 1 /\ l2 = n + 2
      OBVIOUS
    <2>1. /\ Dir(w, ht0, hp) /\ old # NULL /\ lw = hp[old].width /\ lw # w
          /\ k \in Nat /\ k % w \in Slots(w) /\ ht0[k % w] = old
      BY <1>2, <1>6, <1>7, <1>8, <2>0
    <2>2. Rewritten(w, ht0, lw, k % lw, l1, l2, ht2)
      BY <1>4, <2>0, Zenon DEF Rewritten
    <2>3. /\ Doublings(lw, w) /\ Doublings(2 * lw, w)
          /\ k % lw \in 0..(lw - 1)
          /\ Distributed(w, ht0, old, lw, k % lw, l1, l2, ht2)
          /\ ~WritesOutside(w, k % lw, 2 * lw)
          /\ ~WritesOutside(w, (k % lw) + lw, 2 * lw)
      BY <2>1, <2>2, DistributeSlots
    <2> QED
      BY <1>a, <2>0, <2>3
  <1>10. ~oob'
    <2>1. oob' = (oob \/ WritesOutside(w, low, 2 * lw) \/ WritesOutside(w, low + lw, 2 * lw))
      BY <1>1, <1>a, Zenon DEF SplitFacts
    <2> QED
      BY <1>9, <2>1, FullInvFacts, Zenon
  <1>11. \A l \in {n + 1, n + 2} :
            /\ heap'[l].width = 2 * lw /\ ~heap'[l].freed
            /\ heap'[l].elems = {e \in heap[old].elems : HT'[wt[e].var % (2 * lw)] = l}
    BY <1>5 DEF mlist_make, Redistributed, HASHFUNC
  <1>12. Dir(w, HT', heap')
    <2>1. \A i \in Slots(w) : ht0[i] \in 0..n
      BY <1>2
    <2>2. PICK hp, hp2, ht2 : hp = heap /\ hp2 = heap' /\ ht2 = HT'
      OBVIOUS
    <2>3. /\ Dir(w, ht0, hp) /\ Doublings(2 * lw, w)
          /\ Distributed(w, ht0, old, lw, low, n + 1, n + 2, ht2)
          /\ lw \in Nat \ {0} /\ low \in 0..(lw - 1)
      BY <1>2, <1>7, <1>9, <2>2
    <2>4. BucketsReplaced(n, ht0, w, old, lw, hp, hp2)
      BY <1>2, <1>5, <1>11, <2>1, <2>2 DEF BucketsReplaced
    <2>5. Dir(w, ht2, hp2)
      BY <2>3, <2>4, DistributeDir
    <2> QED
      BY <2>2, <2>5
  <1>13. Entered' = Entered /\ DOMAIN wt' = DOMAIN wt
    BY <1>2 DEF Entered
  <1>14. \A i \in Slots(w) :
            \/ HT'[i] = n + 2 /\ i % (2 * lw) = low + lw /\ ht0[i] = old
            \/ HT'[i] = n + 1 /\ i % (2 * lw) = low /\ ht0[i] = old
            \/ HT'[i] = ht0[i] /\ ht0[i] # old
    BY <1>9 DEF Distributed
  <1>15. \A i \in Slots(w) : \E k \in Nat : i \in Nat /\ i % w = i /\ k = i % width
            /\ k \in Slots(width) /\ ht0[i] = HT[k]
    <2>1. \A i \in Slots(w) : i \in Nat /\ i \in 0..(w - 1)
      BY <1>2 DEF Slots
    <2>2. \A i \in Slots(w) : i % w = i
      BY <1>2, <2>1, ModSmall
    <2>3. \A i \in Nat : i % width \in Slots(width) /\ i % width \in Nat
      <3> TAKE i \in Nat
      <3>1. i % width \in 0..(width - 1) /\ width \in Nat \ {0}
        BY FullInvFacts, DivMod
      <3> QED
        BY <3>1 DEF Slots
    <2> QED
      BY <1>3, <2>1, <2>2, <2>3
  (* A variable's slot, seen from the widths that divide the directory. *)
  <1>16. ASSUME NEW v \in Nat
         PROVE  /\ (v % w) % (2 * lw) = v % (2 * lw) /\ (v % w) % lw = v % lw
                /\ v % (2 * lw) \in Slots(w) /\ (v % (2 * lw)) % (2 * lw) = v % (2 * lw)
    <2>1. PICK b \in Nat \ {0} : b = 2 * lw /\ Doublings(b, w)
      BY <1>2, <1>9
    <2>2. (v % w) % b = v % b /\ (v % w) % lw = v % lw
      <3>1. (v % w) % b = v % b
        BY <1>2, <2>1, ModThroughWidth
      <3>2. (v % w) % lw = v % lw
        BY <1>2, <1>9, ModThroughWidth
      <3> QED
        BY <3>1, <3>2
    <2>3. v % b \in 0..(b - 1)
      BY <2>1, DivMod
    <2>4. (v % b) % b = v % b
      BY <2>1, <2>3, ModSmall
    <2>5. PICK c \in Nat \ {0} : w = b * c
      BY <1>2, <2>1, DoublingsDivide
    <2>6. b <= b * c
      BY <2>5
    <2>7. v % b \in Slots(w)
      BY <2>1, <2>3, <2>5, <2>6 DEF Slots
    <2> QED
      BY <2>1, <2>2, <2>4, <2>7
  (* Where the variable's slot and its residue modulo 2 * lw lead. *)
  <1>17. ASSUME NEW v \in Nat, HT[v % width] = old
         PROVE  /\ HT'[v % w] \in {n + 1, n + 2}
                /\ HT'[v % (2 * lw)] = HT'[v % w]
    <2>1. v % w \in Slots(w) /\ ht0[v % w] = old
      BY <1>3, <1>17
    <2>2. HT'[v % w] \in {n + 1, n + 2}
      BY <1>14, <2>1
    <2>3. heap'[HT'[v % w]].width = 2 * lw /\ HT'[v % w] # NULL
      BY <1>2, <1>11, <2>2 DEF NULL
    <2>4. PICK r : r = v % (2 * lw)
      OBVIOUS
    <2>5. r \in Slots(w) /\ r % (2 * lw) = (v % w) % (2 * lw)
      BY <1>16, <2>4
    <2>6. \A i, k \in Slots(w) : HT'[i] # NULL =>
            (HT'[k] = HT'[i] <=> k % heap'[HT'[i]].width = i % heap'[HT'[i]].width)
      BY <1>12, Zenon DEF Dir
    <2>7. HT'[r] = HT'[v % w]
      BY <2>1, <2>3, <2>5, <2>6
    <2> QED
      BY <2>2, <2>4, <2>7
  <1>18. \A e \in heap[old].elems : wt[e].var \in Nat
    BY <1>2, <1>a, FullInvFacts DEF TypeInv
  <1>19. BucketsSorted'
    <2>1. SUFFICES ASSUME NEW i \in Slots(w), HT'[i] # NULL, NEW e \in heap'[HT'[i]].elems
                   PROVE  /\ e \in Entered
                          /\ wt[e].var % heap'[HT'[i]].width = i % heap'[HT'[i]].width
      BY <1>2, <1>13 DEF BucketsSorted
    <2>2. PICK k \in Slots(width) : i \in Nat /\ i % w = i /\ k = i % width /\ ht0[i] = HT[k]
      BY <1>15
    <2>3. CASE HT'[i] \in {n + 1, n + 2} /\ ht0[i] = old
      <3>1. /\ heap'[HT'[i]].width = 2 * lw /\ e \in heap[old].elems
            /\ HT'[wt[e].var % (2 * lw)] = HT'[i]
        BY <1>11, <2>1, <2>3
      <3>2. e \in Entered
        BY <1>2, <2>2, <2>3, <3>1, FullInvFacts DEF Contents, BucketsSorted
      <3>3. PICK r : r = wt[e].var % (2 * lw)
        OBVIOUS
      <3>4. r \in Slots(w) /\ r % (2 * lw) = r
        BY <1>16, <1>18, <3>1, <3>3
      <3>5. HT'[r] = HT'[i] <=> r % (2 * lw) = i % (2 * lw)
        BY <1>12, <2>1, <3>1, <3>4 DEF Dir
      <3> QED
        BY <3>1, <3>2, <3>3, <3>4, <3>5
    <2>4. CASE HT'[i] = ht0[i] /\ ht0[i] # old
      <3>1. HT[k] # NULL /\ HT[k] # old /\ HT'[i] = HT[k]
        BY <2>1, <2>2, <2>4
      <3>2. HT[k] \in 1..n
        BY <1>a, <3>1, FullInvFacts DEF TypeOK, NULL
      <3>3. heap'[HT[k]] = heap[HT[k]]
        BY <1>5, <3>1, <3>2
      <3>4. PICK b \in Nat \ {0} : b = heap[HT[k]].width /\ Doublings(b, width)
        BY <3>1, FullInvFacts DEF Dir
      <3>5. e \in Entered /\ wt[e].var % b = k % b
        BY <2>1, <3>1, <3>3, <3>4, FullInvFacts DEF Contents, BucketsSorted
      <3>6. k % b = i % b
        BY <2>2, <3>4, FullInvFacts, ModThroughWidth
      <3> QED
        BY <3>1, <3>3, <3>4, <3>5, <3>6
    <2> QED
      BY <1>14, <2>3, <2>4
  <1>20. EntriesReachable'
    <2>1. SUFFICES ASSUME NEW e \in Entered
                   PROVE  /\ HT'[wt[e].var % w] # NULL
                          /\ e \in heap'[HT'[wt[e].var % w]].elems
      BY <1>2, <1>13 DEF EntriesReachable, HASHFUNC
    <2>2. PICK v : v = wt[e].var
      OBVIOUS
    <2>3. e \in 1..Len(wt)
      BY <2>1, FullInvFacts DEF Entered
    <2>4. v \in Nat
      BY <2>2, <2>3, FullInvFacts
    <2>5. HT[v % width] # NULL /\ e \in heap[HT[v % width]].elems
      BY <2>2, FullInvFacts DEF Contents, EntriesReachable, HASHFUNC
    <2>6. v % w \in Slots(w) /\ ht0[v % w] = HT[v % width]
      BY <1>3, <2>4
    <2>7. CASE HT[v % width] = old
      <3>1. HT'[v % w] \in {n + 1, n + 2} /\ HT'[v % (2 * lw)] = HT'[v % w]
        BY <1>17, <2>4, <2>7
      <3>2. e \in heap'[HT'[v % w]].elems
        BY <1>11, <2>2, <2>5, <2>7, <3>1
      <3> QED
        BY <1>2, <2>2, <3>1, <3>2 DEF NULL
    <2>8. CASE HT[v % width] # old
      <3>1. HT'[v % w] = HT[v % width]
        BY <1>14, <2>6, <2>8
      <3>2. v % width \in Slots(width)
        BY <2>4, FullInvFacts, DivMod DEF Slots
      <3>3. HT[v % width] \in 1..n
        BY <1>a, <2>5, <3>2, FullInvFacts DEF TypeOK, NULL
      <3>4. heap'[HT[v % width]] = heap[HT[v % width]]
        BY <1>5, <2>8, <3>3
      <3> QED
        BY <2>2, <2>5, <3>1, <3>4
    <2> QED
      BY <2>7, <2>8
  <1>21. OneEntryPerVariable'
    BY <1>2, FullInvFacts DEF Contents, OneEntryPerVariable
  <1>22. Dir(width, HT, heap)'
    BY <1>2, <1>12
  <1> QED
    BY <1>6, <1>10, <1>19, <1>20, <1>21, <1>22, FullInvParts, PTL DEF Contents

LEMMA NextFullInv == FullInv /\ NoLateBucket /\ [Next]_vars => FullInv'
  <1> SUFFICES ASSUME FullInv, NoLateBucket, [Next]_vars PROVE FullInv'
    OBVIOUS
  <1>1. ASSUME NEW c \in Clauses, advance(c) PROVE FullInv'
    BY <1>1, AdvanceFullInv
  <1>2. CASE CreateBucket
    BY <1>2, CreateBucketFullInv
  <1>3. CASE FindEntry
    BY <1>3, FindEntryFullInv
  <1>4. CASE AllocateEntry
    BY <1>4, AllocateEntryFullInv
  <1>5. CASE SplitBucket
    BY <1>5, SplitBucketFullInv
  <1>6. CASE AppendKey
    BY <1>6, AppendKeyFullInv
  <1>7. ASSUME FinalGroup \/ UNCHANGED vars PROVE FullInv'
    <2>1. UNCHANGED <<pc, width, HT, heap, wt, oob>>
      BY <1>7 DEF FinalGroup, vars
    <2>2. TypeInv'
      BY <1>7, FullInvFacts, NextTypeInv DEF Next
    <2>3. Dir(width, HT, heap)'
      BY <2>1, FullInvFacts
    <2>4. Entered' = Entered
      BY <2>1 DEF Entered
    <2>5. Contents'
      BY <2>1, <2>4, FullInvFacts
      DEF Contents, BucketsSorted, EntriesReachable, OneEntryPerVariable
    <2>6. ~oob'
      BY <2>1, FullInvFacts
    <2> QED
      BY <2>2, <2>3, <2>5, <2>6, FullInvParts, PTL
  <1> QED
    BY <1>1, <1>2, <1>3, <1>4, <1>5, <1>6, <1>7 DEF Next, updateWorldTable

(* The hash table of localcond.c is sound as long as create_bucket is not  *)
(* called for a slot the initial directory did not have: the inductive     *)
(* invariant holds for every number of variables, bucket capacity and      *)
(* initial width, through any number of splits and doublings.              *)
THEOREM HashTableSound == Spec /\ []NoLateBucket => []IInv
  <1>1. Spec /\ []NoLateBucket => []FullInv
    BY InitFullInv, NextFullInv, PTL DEF Spec
  <1>2. FullInv => IInv
    BY DEF FullInv
  <1> QED
    BY <1>1, <1>2, PTL

(* Under the same condition no variable ever gets a second entry, so the   *)
(* ranges of one variable are collected in one place and resetCount and    *)
(* getMissingRngs see each variable once.                                  *)
THEOREM NoDuplicateEntry == Spec /\ []NoLateBucket => []OneEntryPerVariable
  <1>1. IInv => OneEntryPerVariable
    BY DEF IInv
  <1> QED
    BY <1>1, HashTableSound, PTL

(* Under the same condition every entry is in the bucket the next lookup   *)
(* of its variable searches (search in updateWorldTable).                  *)
THEOREM LookupsFindEntries == Spec /\ []NoLateBucket => []EntriesReachable
  <1>1. IInv => EntriesReachable
    BY DEF IInv
  <1> QED
    BY <1>1, HashTableSound, PTL

(* Under the same condition no slot of the directory points to a bucket    *)
(* that distribute_elements has freed, even half way through a split.      *)
THEOREM NoFreedBucket == Spec /\ []NoLateBucket => []NoDanglingBucket
  <1>1. IInv => NoDanglingBucket
    BY DEF IInv
  <1> QED
    BY <1>1, HashTableSound, PTL

(* Under the same condition update_buckets keeps what its comment demands: *)
(* all slots that agree modulo a bucket's width share the bucket.          *)
THEOREM BucketsShared == Spec /\ []NoLateBucket => []RelevantBucketsShareList
  <1>1. IInv => RelevantBucketsShareList
    BY DEF IInv
  <1> QED
    BY <1>1, HashTableSound, PTL

-----------------------------------------------------------------------------
(* A directory that starts with one slot *)

(* Only a directory that holds a bucket has been doubled. *)
GrownWhenUsed == width = INITWIDTH \/ \E i \in Slots(width) : HT[i] # NULL

LEMMA NextGrownWhenUsed ==
    ASSUME FullInv, GrownWhenUsed, [Next]_vars
    PROVE  GrownWhenUsed'
  <1>1. ASSUME UNCHANGED <<width, HT>> PROVE GrownWhenUsed'
    BY <1>1 DEF GrownWhenUsed
  <1>2. ASSUME NEW c \in Clauses, advance(c) PROVE GrownWhenUsed'
    <2>1. CASE S = <<>>
      BY <1>2, <2>1 DEF advance, genStateInit, GrownWhenUsed
    <2>2. CASE S # <<>>
      BY <1>1, <1>2, <2>2 DEF advance
    <2> QED
      BY <2>1, <2>2
  <1>3. CASE CreateBucket
    <2>1. \A i \in Slots(width) : HT[i] # NULL => HT'[i] # NULL
      BY <1>3, FullInvFacts DEF CreateBucket, update_buckets, NULL
    <2>2. width' = width
      BY <1>3 DEF CreateBucket
    <2> QED
      BY <2>1, <2>2 DEF GrownWhenUsed
  <1>4. CASE SplitBucket
    <2>1. TypeInv' /\ pc' = "grow"
      BY <1>4, FullInvFacts, SplitBucketTypeInv DEF SplitBucket
    <2>2. HT'[slot'] # NULL
      BY <2>1 DEF TypeInv, GrowingEntry
    <2>3. slot' \in Slots(width')
      <3>1. PICK old, lw, w, ht0, ht1 : SplitFacts(old, lw, w, ht0, ht1)
        BY <1>4, FullInvFacts, SplitBucketEffect
      <3>2. /\ \A k \in Nat : k % w \in Slots(w) /\ ht0[k % w] = HT[k % width]
            /\ slot' = key % w /\ width' = w
        BY <3>1, Zenon DEF SplitFacts
      <3> QED
        BY <3>2, FullInvFacts
    <2> QED
      BY <2>2, <2>3 DEF GrownWhenUsed
  <1>5. CASE FindEntry \/ AllocateEntry \/ AppendKey \/ FinalGroup \/ UNCHANGED vars
    BY <1>1, <1>5 DEF FindEntry, AllocateEntry, AppendKey, FinalGroup, vars
  <1> QED
    BY <1>2, <1>3, <1>4, <1>5 DEF Next, updateWorldTable

(* With INIT_NBITS = 0 the condition needs no assuming: a directory of one *)
(* slot is never extended by an empty slot, and the hash table is sound    *)
(* for every sequence of variables.                                        *)
THEOREM SoundFromOneSlot ==
    ASSUME INITWIDTH = 1
    PROVE  Spec => [](IInv /\ NoLateBucket)
  <1>1. ASSUME FullInv, GrownWhenUsed PROVE NoLateBucket
    <2>1. SUFFICES ASSUME HT[slot] = NULL, slot >= INITWIDTH PROVE FALSE
      BY DEF NoLateBucket, LateBucket
    <2>2. slot \in Slots(width) /\ width \in Nat \ {0}
      BY <1>1, FullInvFacts
    <2>3. width # INITWIDTH
      BY <1>1, <2>1, <2>2 DEF Slots
    <2>4. PICK i \in Slots(width) : HT[i] # NULL
      BY <1>1, <2>3 DEF GrownWhenUsed
    <2>5. i % INITWIDTH = 0 /\ slot % INITWIDTH = 0
      BY <1>1, <2>2, <2>4 DEF Slots
    <2>6. i % INITWIDTH = slot % INITWIDTH /\ HT[slot] = NULL => HT[i] = NULL
      BY <1>1, <2>2, <2>4, FullInvFacts DEF Dir
    <2> QED
      BY <2>1, <2>4, <2>5, <2>6
  <1>a. FullInv /\ GrownWhenUsed => NoLateBucket
    BY <1>1
  <1>2. Init => GrownWhenUsed
    BY DEF Init, GrownWhenUsed
  <1>3. FullInv /\ GrownWhenUsed /\ [Next]_vars => FullInv' /\ GrownWhenUsed'
    BY <1>1, NextFullInv, NextGrownWhenUsed
  <1>4. FullInv => IInv
    BY DEF FullInv
  <1> QED
    BY <1>a, <1>2, <1>3, <1>4, InitFullInv, PTL DEF Spec
=============================================================================
