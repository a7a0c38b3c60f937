------------------------------ MODULE HashTable ------------------------------
(***************************************************************************)
(* The chained hash table of mat-daemon/src/hash_table.h (the examples     *)
(* carry the same file).  The process table, the object and site counters  *)
(* are instances of it.  The table is not synchronised: its users hold a   *)
(* lock, so an operation is one step.                                      *)
(***************************************************************************)
EXTENDS Integers, Sequences, SequencesExt

CONSTANTS
  Key, Val,
  Addr,     \* addresses malloc can return
  Hash,     \* the hash of each key
  Primes,   \* ht_prime_sizes from DEFAULT_START_SIZE_IDX on
  NULL

ASSUME SizesAssumption ==
  /\ Hash \in [Key -> Nat]
  /\ Primes \in Seq(Nat \ {0, 1}) /\ Len(Primes) > 0
  /\ \A i \in 1..Len(Primes)-1 : Primes[i] + 2 <= Primes[i+1]

(* The sizes do not run out: the keys would have to fill two thirds of the *)
(* largest, a prime just below 2^64.                                       *)
ASSUME RoomAssumption ==
  IsFiniteSet(Key) /\ 3 * (Cardinality(Key) + 1) <= 2 * Primes[Len(Primes)]

(* A pointer to a slot is not NULL. *)
ASSUME NullAssumption == NULL \notin [val : Val, addr : Addr]
                      /\ NULL \notin [key : Key, val : Val, addr : Addr]

VARIABLES
  data,         \* _data: for each bucket its chain of slots, in order
  size_idx,     \* _size_idx
  load_thresh,  \* _load_thresh
  len           \* len

vars == <<data, size_idx, load_thresh, len>>

Slot   == [key : Key, val : Val, addr : Addr]
Index(k, i) == Hash[k] % Primes[i]
Empty(i) == [b \in 0..Primes[i]-1 |-> <<>>]

(* two thirds of the size, truncated *)
Thresh(i) == (2 * Primes[i]) \div 3

(* hash_table_traverse: bucket by bucket, each chain from its head *)
Traverse(d) == FlattenSeq([i \in 1..Cardinality(DOMAIN d) |-> d[i-1]])

(* _get_val and _get_key: walk the one chain the key can be in *)
Find(k) == LET chain == data[Index(k, size_idx)]
           IN  {i \in DOMAIN chain : chain[i].key = k}
Get(k) == IF Find(k) = {} THEN NULL
            ELSE data[Index(k, size_idx)][CHOOSE i \in Find(k) : \A j \in Find(k) : i <= j]

RehashedOldSize(d, i) ==   \* mutant of Rehashed: the old size places the slots
  LET all == Traverse(d)
      moved[n \in 0..Len(all)] ==
        IF n = 0 THEN Empty(i)
        ELSE [moved[n-1] EXCEPT ![Index(all[n].key, size_idx)] = Append(@, all[n])]
  IN  moved[Len(all)]

(* _rehash: the slots themselves move, in the order of the traversal, each *)
(* to the end of its new chain (_rehash_insert)                            *)
Rehashed(d, i) ==
  LET all == Traverse(d)
      moved[n \in 0..Len(all)] ==
        IF n = 0 THEN Empty(i)
        ELSE [moved[n-1] EXCEPT ![Index(all[n].key, i)] = Append(@, all[n])]
  IN  moved[Len(all)]

Free(a) == \A b \in DOMAIN data : \A i \in DOMAIN data[b] : data[b][i].addr # a

Replace(k, v) ==   \* mutant of Overwrite: a new slot takes the old one's place
  /\ Find(k) # {}
  /\ \E a \in Addr :
       /\ Free(a)
       /\ LET i == CHOOSE i \in Find(k) : \A j \in Find(k) : i <= j
          IN  data' = [data EXCEPT ![Index(k, size_idx)][i] = [key |-> k, val |-> v, addr |-> a]]
  /\ UNCHANGED <<size_idx, load_thresh, len>>

Overwrite(k, v) ==
  /\ Find(k) # {}
  /\ LET i == CHOOSE i \in Find(k) : \A j \in Find(k) : i <= j
     IN  data' = [data EXCEPT ![Index(k, size_idx)][i].val = v]
  /\ UNCHANGED <<size_idx, load_thresh, len>>

Added(k, v, a) ==
  [data EXCEPT ![Index(k, size_idx)] = Append(@, [key |-> k, val |-> v, addr |-> a])]

GrowLate(d) ==   \* mutant of Grow: the length before the insertion is tested
  IF len = load_thresh
    THEN /\ size_idx' = size_idx + 1
         /\ data' = Rehashed(d, size_idx')
         /\ load_thresh' = Thresh(size_idx')
    ELSE /\ data' = d
         /\ UNCHANGED <<size_idx, load_thresh>>

(* the end of _insert, given the table with the new slot in it *)
Grow(d) ==
  IF len' = load_thresh
    THEN /\ size_idx' = size_idx + 1
         /\ data' = Rehashed(d, size_idx')
         /\ load_thresh' = Thresh(size_idx')
    ELSE /\ data' = d
         /\ UNCHANGED <<size_idx, load_thresh>>

Add(k, v, a) ==
  /\ Find(k) = {}
  /\ Free(a)
  /\ len' = len + 1
  /\ Grow(Added(k, v, a))

Delete(k) ==
  /\ Find(k) # {}
  /\ LET i == CHOOSE i \in Find(k) : \A j \in Find(k) : i <= j
     IN  data' = [data EXCEPT ![Index(k, size_idx)] = RemoveAt(@, i)]
  /\ len' = len - 1
  /\ UNCHANGED <<size_idx, load_thresh>>

(* _free, then _make *)
Remake ==
  /\ data' = Empty(1)
  /\ size_idx' = 1
  /\ load_thresh' = Thresh(1)
  /\ len' = 0

-----------------------------------------------------------------------------
Init == /\ data = Empty(1)
        /\ size_idx = 1
        /\ load_thresh = Thresh(1)
        /\ len = 0

Next == \/ \E k \in Key : \/ Delete(k)
                          \/ \E v \in Val : \/ Overwrite(k, v)
                                            \/ \E a \in Addr : Add(k, v, a)
        \/ Remake

Spec == Init /\ [][Next]_vars
-----------------------------------------------------------------------------
(* Every variable stays in its domain. *)
TypeOK ==
  /\ size_idx \in DOMAIN Primes
  /\ DOMAIN data = 0..Primes[size_idx]-1
  /\ \A b \in DOMAIN data : data[b] \in Seq(Slot)
  /\ load_thresh \in Nat
  /\ len \in Nat

(* Every slot sits in the bucket its key hashes to under the size in force *)
(* and a traversal meets each key once, len keys in all.                   *)
Placed ==
  /\ TypeOK
  /\ \A b \in DOMAIN data : \A i \in DOMAIN data[b] : Index(data[b][i].key, size_idx) = b
  /\ LET all == Traverse(data)
     IN  /\ \A i, j \in DOMAIN all : all[i].key = all[j].key => i = j
         /\ len = Len(all)

(* The test for growth is an equality (hash_table.h:266): it is enough     *)
(* only because len never steps over the threshold.                        *)
BelowThreshold == len < load_thresh

(* The table behaves as a dictionary whose slots do not move: a pointer    *)
(* from hash_table_get_val survives insertions, rehashes and the deletion  *)
(* of other keys.                                                          *)
entries == [k \in Key |-> IF Get(k) = NULL THEN NULL
                            ELSE [val |-> Get(k).val, addr |-> Get(k).addr]]

AsDictionary == INSTANCE Dictionary WITH None <- NULL, map <- entries

Implements == AsDictionary!Spec
=============================================================================
