------------------------------ MODULE LocalCond ------------------------------
(***************************************************************************)
(* The lineage of one duplicate group and its local world table            *)
(* (backend/maybms/localcond.c).                                           *)
(*                                                                         *)
(* A confidence aggregate hands every tuple of the group to advance() as a *)
(* clause (world-set descriptor) of WSD_LEN maps.  Each map's variable is  *)
(* looked up in an extendible hash table: a directory HT of slots, several *)
(* of which may share one bucket (mList); a bucket of width w holds the    *)
(* variables that agree modulo w.  A full bucket is split, and the         *)
(* directory doubled when the bucket is as wide as it.                     *)
(*                                                                         *)
(* Representation.  The code stores nbits and mask = 2^nbits - 1; here a   *)
(* width stands for mask + 1, so "nbits + 1" doubles a width, key & mask   *)
(* is key % width and equal nbits are equal widths.  A bucket's parallel   *)
(* arrays keys/indices hold pairs (var of entry e, e); here it is the set  *)
(* of such e (their order is never observed: keys in a bucket differ).     *)
(* Offsets are 1-based; NULL pointers are 0.                               *)
(***************************************************************************)
EXTENDS Integers, Sequences, FiniteSets

CONSTANTS
    VarIds,          \* variables of the database, RESERVED_VAR included
    RngIds,          \* ranges
    WSD_LEN,         \* maps per clause (triples of condition columns)
    INITWIDTH,       \* 2^INIT_NBITS: slots of a fresh directory
    LIST_INIT_SIZE,  \* capacity of a bucket
    WTINITSIZE,      \* initial capacity of the array of entries
    RNGENTRYSIZE,    \* initial capacity of an entry's array of ranges
    SINITSIZE,       \* initial capacity of S (100 in the code)
    MaxWSDs          \* bound: clauses per duplicate group

ASSUME LocalCondAssumption ==
    /\ VarIds \subseteq Nat
    /\ RngIds \subseteq Nat
    /\ WSD_LEN \in Nat \ {0}
    /\ INITWIDTH \in Nat \ {0}
    /\ LIST_INIT_SIZE \in Nat \ {0}
    /\ WTINITSIZE \in Nat \ {0}
    /\ RNGENTRYSIZE \in Nat \ {0}
    /\ SINITSIZE \in Nat \ {0, 1}
    /\ MaxWSDs \in Nat

NULL == 0
KEY_NOT_FOUND == 0
RESERVED_VAR == 0
RNG_FOR_RESERVED_VAR == 1

ASSUME ReservedAssumption ==
    RESERVED_VAR \in VarIds /\ RNG_FOR_RESERVED_VAR \in RngIds

VARIABLES
    S,            \* the clauses advanced so far; <<>> between groups is S = NULL
    current_size, \* allocated size of S
    wsd,          \* the clause being advanced, maps bound up to position j-1
    j,            \* position of the map being looked up
    pc,           \* "idle", "update" (updateWorldTable) or "grow" (its loop)
    width,        \* state->mask + 1
    HT,           \* directory: slot -> bucket
    heap,         \* buckets ever allocated in the group
    wt,           \* wt_entries, each with its ranges and their capacity
    wt_entry_max, \* allocated size of wt_entries
    oob           \* some write of update_buckets fell outside HT

vars == <<S, current_size, wsd, j, pc, width, HT, heap, wt, wt_entry_max, oob>>

-----------------------------------------------------------------------------
(* Clauses and maps *)

Map(v, r, e, k) == [var |-> v, rng |-> r, wt_offset |-> e, rng_offset |-> k]

Maps == [var : VarIds, rng : RngIds, wt_offset : Nat, rng_offset : Nat]

(* The clauses the rewriting lets through: it filters out joins of tuples   *)
(* that give one variable two ranges.  No tuple carries the reserved        *)
(* variable; the variables of the database are numbered from 1.             *)
Clauses ==
    {c \in [1..WSD_LEN -> (VarIds \ {RESERVED_VAR}) \X RngIds] :
        \A a, b \in 1..WSD_LEN : c[a][1] = c[b][1] => c[a][2] = c[b][2]}

(* create_map for every map, then the two loops of advance() that turn a   *)
(* repeated variable into the reserved one.                                *)
MakeClause(c) ==
    [a \in 1..WSD_LEN |->
        IF \E b \in 1..(a-1) : c[b][1] = c[a][1]
        THEN Map(RESERVED_VAR, RNG_FOR_RESERVED_VAR, 0, 0)
        ELSE Map(c[a][1], c[a][2], 0, 0)]

-----------------------------------------------------------------------------
(* The hash table *)

HASHFUNC(key, w) == key % w

Slots(w) == 0..(w - 1)

(* mlist_make, then mlappend of the entries elems. *)
mlist_make(w, elems) == [width |-> w, elems |-> elems, freed |-> FALSE]

mlappend(l, e) == [heap EXCEPT ![l] = mlist_make(heap[l].width, heap[l].elems \cup {e})]

pfree(l) == [heap EXCEPT ![l] = [width |-> heap[l].width, elems |-> {}, freed |-> TRUE]]

BUCKETISFULL(l) == Cardinality(heap[l].elems) = LIST_INIT_SIZE

Matches(l, key) == {e \in heap[l].elems : wt[e].var = key}

search(l, key) ==
    IF Matches(l, key) = {} THEN KEY_NOT_FOUND
                            ELSE CHOOSE e \in Matches(l, key) : TRUE

(* The slots update_buckets assigns for a bucket of width lw put at index,  *)
(* in a directory of w slots.                                              *)
BucketSlots(w, index, lw) == {index + i * lw : i \in 0..((w \div lw) - 1)}

(* Mutant: only the slot itself is written, not the ones that share it. *)
update_buckets_OneSlot(ht, w, index, lw, l) ==
    [i \in Slots(w) |-> IF i = index THEN l ELSE ht[i]]

update_buckets(ht, w, index, lw, l) ==
    [i \in Slots(w) |-> IF i \in BucketSlots(w, index, lw) THEN l ELSE ht[i]]

WritesOutside(w, index, lw) == ~(BucketSlots(w, index, lw) \subseteq Slots(w))

(* Mutant: repalloc without the memcpy. *)
expand_hashtable_NoCopy(ht, w) ==
    [i \in Slots(2 * w) |-> IF i < w THEN ht[i] ELSE NULL]

(* repalloc to twice the size and memcpy of the lower half to the upper.   *)
expand_hashtable(ht, w) ==
    [i \in Slots(2 * w) |-> IF i < w THEN ht[i] ELSE ht[i - w]]

(* Mutant: the elements are hashed with the mask of the old list. *)
Redistributed_OldMask(ht, lw, elems, l) ==
    {e \in elems : ht[HASHFUNC(wt[e].var, lw \div 2)] = l}

(* The entries of a split bucket that go to bucket l. *)
Redistributed(ht, lw, elems, l) ==
    {e \in elems : ht[HASHFUNC(wt[e].var, lw)] = l}

-----------------------------------------------------------------------------
(* The world table *)

(* wtEntryInit: write the next entry, count it, double the array if full.  *)
NewEntry(v) == [var |-> v, rngs |-> <<>>, rng_entry_max |-> RNGENTRYSIZE]

(* Mutant: the array is enlarged one element late. *)
Grown_Late(count, max) == IF count > max THEN 2 * max ELSE max

Grown(count, max) == IF count = max THEN 2 * max ELSE max

wtEntryInit(v) == Append(wt, NewEntry(v))

(* rngEntryInit on entry e of table t. *)
rngEntryInit(t, e, r) ==
    [t EXCEPT ![e] = [var           |-> t[e].var,
                      rngs          |-> Append(t[e].rngs, r),
                      rng_entry_max |-> Grown(Len(t[e].rngs) + 1, t[e].rng_entry_max)]]

(* Mutant: the loop over the ranges accepts the first one. *)
KnownRanges_Any(t, e, r) == DOMAIN t[e].rngs

KnownRanges(t, e, r) == {k \in DOMAIN t[e].rngs : t[e].rngs[k] = r}

Bound(e, k) == [wsd EXCEPT ![j] = Map(wsd[j].var, wsd[j].rng, e, k)]

(* Mutant: the loop of advance() does not go on to the next map. *)
NextMap_Stay(w) ==
    /\ wsd' = w
    /\ IF j < WSD_LEN
       THEN UNCHANGED <<j, pc, S>>
       ELSE j' = 1 /\ pc' = "idle" /\ S' = Append(S, w)

(* Leave updateWorldTable with clause w: on to the next map of advance(),  *)
(* or out of advance() with the clause in S.                               *)
NextMap(w) ==
    /\ wsd' = w
    /\ IF j < WSD_LEN
       THEN j' = j + 1 /\ pc' = "update" /\ UNCHANGED S
       ELSE j' = 1 /\ pc' = "idle" /\ S' = Append(S, w)

(* Step 2 of updateWorldTable: the range in entry e of table t.  The loop  *)
(* stops at the first match, which is the only one.                        *)
BindRange(t, e) ==
    LET r == wsd[j].rng
        known == KnownRanges(t, e, r)
    IN  \/ /\ known # {}
           /\ wt' = t
           /\ NextMap(Bound(e, CHOOSE k \in known : TRUE))
        \/ /\ known = {}
           /\ wt' = rngEntryInit(t, e, r)
           /\ NextMap(Bound(e, Len(t[e].rngs) + 1))

-----------------------------------------------------------------------------
(* Operations *)

key == wsd[j].var
slot == HASHFUNC(key, width)

Init ==
    /\ S = <<>> /\ current_size = SINITSIZE
    /\ wsd = [a \in 1..WSD_LEN |-> Map(RESERVED_VAR, RNG_FOR_RESERVED_VAR, 0, 0)]
    /\ j = 1 /\ pc = "idle"
    /\ width = INITWIDTH /\ HT = [i \in Slots(INITWIDTH) |-> NULL]
    /\ heap = <<>>
    /\ wt = <<>> /\ wt_entry_max = WTINITSIZE
    /\ oob = FALSE

(* genStateInit: fresh S, directory and array of entries. *)
genStateInit ==
    /\ current_size' = SINITSIZE
    /\ width' = INITWIDTH
    /\ HT' = [i \in Slots(INITWIDTH) |-> NULL]
    /\ heap' = <<>>
    /\ wt' = <<>>
    /\ wt_entry_max' = WTINITSIZE

(* An accumulator call: create the maps and enter advance(). *)
advance(c) ==
    /\ pc = "idle"
    /\ Len(S) < MaxWSDs
    /\ IF S = <<>>
       THEN genStateInit
       ELSE /\ current_size' = IF Len(S) >= current_size - 1
                               THEN 2 * current_size ELSE current_size
            /\ UNCHANGED <<width, HT, heap, wt, wt_entry_max>>
    /\ wsd' = MakeClause(c)
    /\ j' = 1
    /\ pc' = "update"
    /\ UNCHANGED <<S, oob>>

(* updateWorldTable, empty slot: a new entry in a new bucket of the initial *)
(* width (create_bucket).                                                  *)
CreateBucket ==
    /\ pc = "update"
    /\ HT[slot] = NULL
    /\ HT' = update_buckets(HT, width, slot, INITWIDTH, Len(heap) + 1)
    /\ oob' = (oob \/ WritesOutside(width, slot, INITWIDTH))
    /\ heap' = Append(heap, mlist_make(INITWIDTH, {Len(wt) + 1}))
    /\ wt_entry_max' = Grown(Len(wt) + 1, wt_entry_max)
    /\ BindRange(wtEntryInit(key), Len(wt) + 1)
    /\ UNCHANGED <<current_size, width>>

(* updateWorldTable, the bucket has an entry for the variable. *)
FindEntry ==
    /\ pc = "update"
    /\ HT[slot] # NULL
    /\ search(HT[slot], key) # KEY_NOT_FOUND
    /\ BindRange(wt, search(HT[slot], key))
    /\ UNCHANGED <<current_size, width, HT, heap, wt_entry_max, oob>>

(* updateWorldTable, the bucket has none: allocate the entry, then make    *)
(* room in the bucket.                                                     *)
AllocateEntry ==
    /\ pc = "update"
    /\ HT[slot] # NULL
    /\ search(HT[slot], key) = KEY_NOT_FOUND
    /\ wt' = wtEntryInit(key)
    /\ wt_entry_max' = Grown(Len(wt) + 1, wt_entry_max)
    /\ pc' = "grow"
    /\ UNCHANGED <<S, current_size, wsd, j, width, HT, heap, oob>>

(* One turn of the loop: double the directory if the full bucket is as     *)
(* wide, then distribute_elements over two buckets of twice the width.     *)
SplitBucket ==
    /\ pc = "grow"
    /\ BUCKETISFULL(HT[slot])
    /\ LET old == HT[slot]
           lw  == heap[old].width
           w   == IF lw = width THEN 2 * width ELSE width
           ht0 == IF lw = width THEN expand_hashtable(HT, width) ELSE HT
           l1  == Len(heap) + 1
           l2  == Len(heap) + 2
           low == HASHFUNC(key, lw)
           ht1 == update_buckets(ht0, w, low, 2 * lw, l1)
           ht2 == update_buckets(ht1, w, low + lw, 2 * lw, l2)
           bucket(l) == mlist_make(2 * lw, Redistributed(ht2, 2 * lw, heap[old].elems, l))
       IN  /\ width' = w
           /\ HT' = ht2
           /\ heap' = Append(Append(pfree(old), bucket(l1)), bucket(l2))
           /\ oob' = (\/ oob
                      \/ WritesOutside(w, low, 2 * lw)
                      \/ WritesOutside(w, low + lw, 2 * lw))
    /\ UNCHANGED <<S, current_size, wsd, j, pc, wt, wt_entry_max>>

(* The loop ends: mlappend the entry to the bucket of its slot. *)
AppendKey ==
    /\ pc = "grow"
    /\ ~BUCKETISFULL(HT[slot])
    /\ heap' = mlappend(HT[slot], Len(wt))
    /\ BindRange(wt, Len(wt))
    /\ UNCHANGED <<current_size, width, HT, wt_entry_max, oob>>

(* A final function returns the group's confidence and drops the lineage.  *)
FinalGroup ==
    /\ pc = "idle"
    /\ S # <<>>
    /\ S' = <<>>
    /\ UNCHANGED <<current_size, wsd, j, pc, width, HT, heap, wt, wt_entry_max, oob>>

updateWorldTable ==
    CreateBucket \/ FindEntry \/ AllocateEntry \/ SplitBucket \/ AppendKey

Next == (\E c \in Clauses : advance(c)) \/ updateWorldTable \/ FinalGroup

Spec == Init /\ [][Next]_vars

(* advance() is a call: once entered it runs on. *)
FairSpec == Spec /\ WF_vars(updateWorldTable)

-----------------------------------------------------------------------------
(* Properties *)

Lists == [width : Nat \ {0}, elems : SUBSET Nat, freed : BOOLEAN]

Entries == [var : VarIds, rngs : Seq(RngIds), rng_entry_max : Nat]

(* Type correctness of the group's state. *)
TypeOK ==
    /\ S \in Seq([1..WSD_LEN -> Maps])
    /\ current_size \in Nat
    /\ wsd \in [1..WSD_LEN -> Maps]
    /\ j \in 1..WSD_LEN
    /\ pc \in {"idle", "update", "grow"}
    /\ width \in Nat \ {0}
    /\ HT \in [Slots(width) -> 0..Len(heap)]
    /\ heap \in Seq(Lists)
    /\ wt \in Seq(Entries)
    /\ wt_entry_max \in Nat
    /\ oob \in BOOLEAN

(* The entries that have been entered in a bucket: all, except the one just *)
(* allocated while room is made for it.                                    *)
Entered == IF pc = "grow" THEN 1..(Len(wt) - 1) ELSE DOMAIN wt

(* A bucket is about to be created at a slot the initial directory did not *)
(* have: the case create_bucket gets wrong (see the README).               *)
LateBucket == pc = "update" /\ HT[slot] = NULL /\ slot >= INITWIDTH
NoLateBucket == ~LateBucket

(* Every variable of the group has one entry, however often the directory  *)
(* was doubled in between: updateWorldTable never creates a second one for *)
(* a variable it has met before.                                           *)
OneEntryPerVariable ==
    \A d, e \in DOMAIN wt : wt[d].var = wt[e].var => d = e

(* Every entry is where the next lookup of its variable searches for it:   *)
(* in the bucket of the slot the current mask sends the variable to.       *)
EntriesReachable ==
    \A e \in Entered :
        LET l == HT[HASHFUNC(wt[e].var, width)]
        IN  l # NULL /\ e \in heap[l].elems

(* No slot points to a bucket that distribute_elements has freed.          *)
NoDanglingBucket == \A i \in Slots(width) : HT[i] # NULL => ~heap[HT[i]].freed

(* "we must associate this list to all other relevant buckets" (comment of *)
(* update_buckets): the slots that agree modulo a bucket's width share it. *)
RelevantBucketsShareList ==
    \A i, k \in Slots(width) :
        HT[i] # NULL => (HT[k] = HT[i] <=>
                         k % heap[HT[i]].width = i % heap[HT[i]].width)

(* update_buckets and mlappend stay inside their arrays, and every array   *)
(* has room for the next write before its count is increased.              *)
WithinAllocation ==
    /\ ~oob
    /\ \A l \in DOMAIN heap : Cardinality(heap[l].elems) <= LIST_INIT_SIZE
    /\ Len(wt) < wt_entry_max
    /\ \A e \in DOMAIN wt : Len(wt[e].rngs) < wt[e].rng_entry_max
    /\ Len(S) < current_size

(* The offsets stored in a clause still name its variable and its range    *)
(* when computeEntryPointers turns them into pointers at the end.          *)
OffsetsFaithful ==
    \A n \in DOMAIN S : \A a \in 1..WSD_LEN :
        LET m == S[n][a] IN
        /\ m.wt_offset \in DOMAIN wt
        /\ wt[m.wt_offset].var = m.var
        /\ m.rng_offset \in DOMAIN wt[m.wt_offset].rngs
        /\ wt[m.wt_offset].rngs[m.rng_offset] = m.rng

-----------------------------------------------------------------------------
(* The inductive invariant behind the three properties above *)

(* w is reached from b by doublings: w = b * c and every divisor of c other *)
(* than 1 is even.                                                         *)
Doublings(b, w) ==
    \E c \in 1..w :
        /\ w = b * c
        /\ \A d, e \in 1..c : c = d * e => d = 1 \/ d % 2 = 0

(* Slots that agree modulo the initial width are empty together. *)
EmptyTogether ==
    \A i, k \in Slots(width) :
        i % INITWIDTH = k % INITWIDTH /\ HT[i] = NULL => HT[k] = NULL

(* The directory and every bucket in it have grown by doubling. *)
WidthsDouble ==
    /\ Doublings(INITWIDTH, width)
    /\ \A i \in Slots(width) : HT[i] # NULL => Doublings(heap[HT[i]].width, width)

(* A bucket holds entered entries only, whose variables agree modulo its   *)
(* width with the slots that share it.                                     *)
BucketsSorted ==
    \A i \in Slots(width) : HT[i] # NULL =>
        \A e \in heap[HT[i]].elems :
            /\ e \in Entered
            /\ wt[e].var % heap[HT[i]].width = i % heap[HT[i]].width

(* While room is made, the last entry is the one of the map looked up. *)
GrowingEntry ==
    pc = "grow" => Len(wt) > 0 /\ wt[Len(wt)].var = key /\ HT[slot] # NULL

IInv ==
    /\ TypeOK
    /\ WidthsDouble
    /\ EmptyTogether
    /\ RelevantBucketsShareList
    /\ BucketsSorted
    /\ NoDanglingBucket
    /\ EntriesReachable
    /\ OneEntryPerVariable
    /\ GrowingEntry
    /\ ~oob

-----------------------------------------------------------------------------
(* Liveness and refinement *)

(* A lookup ends: distinct variables differ in some bit, so splitting makes *)
(* room after finitely many turns of the loop.                             *)
LookupTerminates == (pc # "idle") ~> (pc = "idle")

(* The extendible hash table implements the plain table of WorldTable: at *)
(* every step the same offsets are handed out as a linear search would.    *)
(* The entry just allocated, which has no range yet, is not part of it.    *)
AbsTable == [e \in Entered |-> [var |-> wt[e].var, rngs |-> wt[e].rngs]]

Abs == INSTANCE WorldTable WITH
           table   <- AbsTable,
           lineage <- S,
           clause  <- IF pc = "idle" THEN <<>> ELSE SubSeq(wsd, 1, j - 1)

ImplementsWorldTable == Abs!WTSpec
=============================================================================
