--------------------------- MODULE TableSweepProofs ---------------------------
(***************************************************************************)
(* The growable array, and the hash table and the array at work together:  *)
(* whatever the keys, the capacities and the number of entries, the array  *)
(* is the list its callers stored and a sweep removes the dead entries.    *)
(***************************************************************************)
EXTENDS TableSweep, FiniteSetTheorems, TLAPS

-----------------------------------------------------------------------------
(***************************************************************************)
(* What the run of HashTable shows of five keys and four sizes, for any    *)
(* keys, hashes and sizes.                                                 *)
(*                                                                         *)
(* The traversal and the rehash are recursive over a table of any length,  *)
(* so that their properties need induction.  The library states induction  *)
(* for an operator; here it is stated for a set of numbers, and follows    *)
(* from the well-foundedness of finite sets under inclusion.               *)
(***************************************************************************)

LEMMA Least == ASSUME NEW T, T \subseteq Nat, T # {}
               PROVE  \E m \in T : \A n \in T : m <= n
  <1>. DEFINE Upto == {0..n : n \in T}
  <1>1. Upto \subseteq FiniteSubsetsOf(Nat)
    <2>. SUFFICES ASSUME NEW n \in T PROVE 0..n \in FiniteSubsetsOf(Nat)
      OBVIOUS
    <2>1. IsFiniteSet(0..n)
      BY FS_Interval
    <2>. QED BY <2>1 DEF FiniteSubsetsOf
  <1>2. \E x \in Upto : \A y \in Upto : ~(<<y, x>> \in StrictSubsetOrdering(Nat))
    <2>1. IsWellFoundedOn(StrictSubsetOrdering(Nat), FiniteSubsetsOf(Nat))
      BY FS_StrictSubsetOrderingWellFounded
    <2>2. Upto # {}
      OBVIOUS
    <2>. HIDE DEF Upto
    <2>. QED BY <1>1, <2>1, <2>2, WFMin
  <1>3. PICK m \in T : \A n \in T : ~(<<0..n, 0..m>> \in StrictSubsetOrdering(Nat))
    BY <1>2
  <1>4. ASSUME NEW n \in T, n < m
        PROVE  FALSE
    <2>1. /\ 0..n \subseteq 0..m /\ m \in 0..m /\ m \notin 0..n
          /\ 0..n \in SUBSET Nat /\ 0..m \in SUBSET Nat
      BY <1>4
    <2>. QED BY <1>3, <2>1 DEF StrictSubsetOrdering
  <1>. QED BY <1>4

LEMMA Induction == ASSUME NEW T, 0 \in T, \A n \in Nat : n \in T => n + 1 \in T
                   PROVE  \A n \in Nat : n \in T
  <1>. SUFFICES ASSUME Nat \ T # {} PROVE FALSE
    OBVIOUS
  <1>1. PICK m \in Nat \ T : \A n \in Nat \ T : m <= n
    BY Least
  <1>2. m # 0 /\ m - 1 \in Nat /\ m - 1 \in T
    BY <1>1
  <1>. QED BY <1>1, <1>2
-----------------------------------------------------------------------------
(* A table of size number i: its buckets, the slots in them, their keys.   *)
Table(i)    == [0..Primes[i]-1 -> Seq(Slot)]
In(s, d)    == \E b \in DOMAIN d : \E j \in DOMAIN d[b] : d[b][j] = s
KeysOf(d)   == {k \in Key : \E s \in Slot : In(s, d) /\ s.key = k}
Distinct(d) == \A b \in DOMAIN d : \A j, l \in DOMAIN d[b] : d[b][j].key = d[b][l].key => j = l

WellPlaced(d, i) ==
  /\ d \in Table(i)
  /\ \A b \in DOMAIN d : \A j \in DOMAIN d[b] : Index(d[b][j].key, i) = b
  /\ Distinct(d)

IInv ==
  /\ size_idx \in DOMAIN Primes
  /\ WellPlaced(data, size_idx)
  /\ load_thresh = Thresh(size_idx)
  /\ len = Cardinality(KeysOf(data))
  /\ len < load_thresh

LEMMA Sizes ==
  ASSUME NEW i \in DOMAIN Primes
  PROVE  /\ Primes[i] \in Nat /\ Primes[i] >= 2
         /\ Thresh(i) \in Nat /\ Thresh(i) >= 1
         /\ \A k \in Key : Index(k, i) \in 0..Primes[i]-1
  <1>1. Primes[i] \in Nat /\ Primes[i] >= 2
    BY SizesAssumption
  <1>2. Thresh(i) \in Nat /\ Thresh(i) >= 1
    BY <1>1 DEF Thresh
  <1>3. ASSUME NEW k \in Key PROVE Index(k, i) \in 0..Primes[i]-1
    <2>1. Hash[k] \in Nat
      BY SizesAssumption
    <2>. QED BY <1>1, <2>1 DEF Index
  <1>. QED BY <1>1, <1>2, <1>3

LEMMA KeysFinite ==
  ASSUME NEW d
  PROVE  KeysOf(d) \subseteq Key /\ IsFiniteSet(KeysOf(d)) /\ Cardinality(KeysOf(d)) \in Nat
                                  /\ Cardinality(KeysOf(d)) <= Cardinality(Key)
  <1>1. KeysOf(d) \in SUBSET Key
    BY DEF KeysOf
  <1>. QED BY <1>1, FS_Subset, FS_CardinalityType, RoomAssumption
-----------------------------------------------------------------------------
(* A concatenation holds the elements of its parts, and if no two places   *)
(* of the parts hold the same key, neither do two places of it.            *)
Parts(ss, n, T) ==
  /\ T \in Seq(Slot)
  /\ \A s : (\E i \in DOMAIN T : T[i] = s) <=> (\E b \in 1..n : \E j \in DOMAIN ss[b] : ss[b][j] = s)
  /\ \A i, l \in DOMAIN T : T[i].key = T[l].key => i = l

KeysApart(ss) ==
  \A b, c \in DOMAIN ss : \A j \in DOMAIN ss[b], l \in DOMAIN ss[c] :
    ss[b][j].key = ss[c][l].key => b = c /\ j = l

LEMMA JoinParts ==
  ASSUME NEW ss \in Seq(Seq(Slot)), KeysApart(ss), NEW n \in Nat, n + 1 <= Len(ss),
         NEW T, Parts(ss, n, T)
  PROVE  Parts(ss, n + 1, T \o ss[n + 1])
  <1>. DEFINE U == T \o ss[n + 1]
  <1>1. T \in Seq(Slot) /\ ss[n + 1] \in Seq(Slot) /\ n + 1 \in DOMAIN ss
    BY DEF Parts
  <1>2. /\ U \in Seq(Slot) /\ Len(U) = Len(T) + Len(ss[n + 1])
        /\ DOMAIN U = 1..Len(U) /\ Len(T) \in Nat /\ Len(ss[n + 1]) \in Nat
        /\ DOMAIN T = 1..Len(T) /\ DOMAIN ss[n + 1] = 1..Len(ss[n + 1])
    BY <1>1
  <1>3. /\ \A i \in 1..Len(T) : U[i] = T[i]
        /\ \A j \in 1..Len(ss[n + 1]) : U[Len(T) + j] = ss[n + 1][j]
    BY <1>1, <1>2
  <1>4. \A i \in DOMAIN U : i \in DOMAIN T \/ \E j \in DOMAIN ss[n + 1] : i = Len(T) + j
    <2>. SUFFICES ASSUME NEW i \in DOMAIN U, i \notin DOMAIN T
                  PROVE  \E j \in DOMAIN ss[n + 1] : i = Len(T) + j
      OBVIOUS
    <2>1. i - Len(T) \in DOMAIN ss[n + 1] /\ i = Len(T) + (i - Len(T))
      BY <1>2
    <2>. QED BY <2>1
  <1>. HIDE DEF U
  <1>5. ASSUME NEW s
        PROVE  (\E i \in DOMAIN U : U[i] = s)
               <=> (\E b \in 1..n+1 : \E j \in DOMAIN ss[b] : ss[b][j] = s)
    <2>1. (\E i \in DOMAIN T : T[i] = s) <=> (\E b \in 1..n : \E j \in DOMAIN ss[b] : ss[b][j] = s)
      BY DEF Parts
    <2>2. ASSUME NEW i \in DOMAIN U, U[i] = s
          PROVE  \E b \in 1..n+1 : \E j \in DOMAIN ss[b] : ss[b][j] = s
      <3>1. CASE i \in DOMAIN T
        <4>1. T[i] = s
          BY <1>2, <1>3, <2>2, <3>1
        <4>2. PICK b \in 1..n : \E j \in DOMAIN ss[b] : ss[b][j] = s
          BY <2>1, <3>1, <4>1
        <4>3. b \in 1..n+1
          OBVIOUS
        <4>. QED BY <4>2, <4>3
      <3>2. CASE \E j \in DOMAIN ss[n + 1] : i = Len(T) + j
        BY <1>2, <1>3, <2>2, <3>2, n + 1 \in 1..n+1
      <3>. QED BY <1>4, <3>1, <3>2
    <2>3. ASSUME NEW b \in 1..n+1, NEW j \in DOMAIN ss[b], ss[b][j] = s
          PROVE  \E i \in DOMAIN U : U[i] = s
      <3>1. CASE b = n + 1
        <4>0. j \in 1..Len(ss[n + 1]) /\ ss[n + 1][j] = s
          BY <1>2, <2>3, <3>1
        <4>1. Len(T) + j \in DOMAIN U
          <5>1. j \in Nat /\ 1 <= j /\ j <= Len(ss[n + 1])
            BY <1>2, <4>0
          <5>. QED BY <1>2, <5>1
        <4>2. U[Len(T) + j] = s
          BY <1>3, <4>0
        <4>. QED BY <4>1, <4>2
      <3>2. CASE b # n + 1
        <4>1. b \in 1..n
          BY <3>2
        <4>2. PICK i \in DOMAIN T : T[i] = s
          BY <2>1, <2>3, <4>1
        <4>. QED BY <1>2, <1>3, <4>2
      <3>. QED BY <3>1, <3>2
    <2>. QED BY <2>2, <2>3
  <1>6. ASSUME NEW i \in DOMAIN U, NEW l \in DOMAIN U, U[i].key = U[l].key
        PROVE  i = l
    <2>1. ASSUME NEW x \in DOMAIN T, NEW y \in DOMAIN ss[n + 1], T[x].key = ss[n + 1][y].key
          PROVE  FALSE
      <3>1. PICK b \in 1..n : \E j \in DOMAIN ss[b] : ss[b][j] = T[x]
        BY DEF Parts
      <3>2. PICK j \in DOMAIN ss[b] : ss[b][j] = T[x]
        BY <3>1
      <3>3. b \in DOMAIN ss /\ b # n + 1
        BY <3>1
      <3>. QED BY <1>1, <2>1, <3>2, <3>3 DEF KeysApart
    <2>2. CASE i \in DOMAIN T /\ l \in DOMAIN T
      BY <1>2, <1>3, <1>6, <2>2 DEF Parts
    <2>3. CASE i \in DOMAIN T /\ l \notin DOMAIN T
      <3>1. PICK y \in DOMAIN ss[n + 1] : l = Len(T) + y
        BY <1>4, <2>3
      <3>. QED BY <1>2, <1>3, <1>6, <2>1, <2>3, <3>1
    <2>4. CASE i \notin DOMAIN T /\ l \in DOMAIN T
      <3>1. PICK y \in DOMAIN ss[n + 1] : i = Len(T) + y
        BY <1>4, <2>4
      <3>. QED BY <1>2, <1>3, <1>6, <2>1, <2>4, <3>1
    <2>5. CASE i \notin DOMAIN T /\ l \notin DOMAIN T
      <3>1. PICK y \in DOMAIN ss[n + 1] : i = Len(T) + y
        BY <1>4, <2>5
      <3>2. PICK z \in DOMAIN ss[n + 1] : l = Len(T) + z
        BY <1>4, <2>5
      <3>3. ss[n + 1][y].key = ss[n + 1][z].key
        BY <1>2, <1>3, <1>6, <3>1, <3>2
      <3>4. y = z
        BY <1>1, <3>3, Zenon DEF KeysApart
      <3>. QED BY <3>1, <3>2, <3>4
    <2>. QED BY <2>2, <2>3, <2>4, <2>5
  <1>. QED BY <1>2, <1>5, <1>6 DEF Parts, U

(* The local function of FlattenSeq, up to n. *)
Joined(ss, f, n) == f = [i \in 1..n |-> IF i = 1 THEN ss[i] ELSE f[i-1] \o ss[i]]

LEMMA JoinedAt ==
  ASSUME NEW ss, NEW f, NEW n \in Nat, Joined(ss, f, n), NEW i \in 1..n
  PROVE  f[i] = IF i = 1 THEN ss[i] ELSE f[i-1] \o ss[i]
  BY DEF Joined

LEMMA JoinFirst ==
  ASSUME NEW ss \in Seq(Seq(Slot)), Len(ss) > 0, KeysApart(ss)
  PROVE  \E f : Joined(ss, f, 1) /\ Parts(ss, 1, f[1])
  <1>. DEFINE f == [i \in 1..1 |-> ss[i]]
  <1>1. Joined(ss, f, 1) /\ f[1] = ss[1]
    BY DEF Joined
  <1>2. Parts(ss, 1, ss[1])
    <2>1. ss[1] \in Seq(Slot) /\ 1 \in DOMAIN ss /\ 1..1 = {1}
      OBVIOUS
    <2>. QED BY <2>1 DEF Parts, KeysApart
  <1>. HIDE DEF f
  <1>. QED BY <1>1, <1>2

LEMMA JoinNext ==
  ASSUME NEW ss \in Seq(Seq(Slot)), KeysApart(ss), NEW n \in Nat \ {0}, n + 1 <= Len(ss),
         NEW f, Joined(ss, f, n), Parts(ss, n, f[n])
  PROVE  \E g : Joined(ss, g, n + 1) /\ Parts(ss, n + 1, g[n + 1])
  <1>. DEFINE g == [i \in 1..n+1 |-> IF i = n + 1 THEN f[n] \o ss[n + 1] ELSE f[i]]
  <1>1. Parts(ss, n + 1, f[n] \o ss[n + 1])
    BY JoinParts
  <1>2. g[n + 1] = f[n] \o ss[n + 1]
    <2>1. n + 1 \in 1..n+1
      OBVIOUS
    <2>. QED BY <2>1
  <1>3. \A i \in 1..n+1 : g[i] = IF i = 1 THEN ss[i] ELSE g[i-1] \o ss[i]
    <2>. SUFFICES ASSUME NEW i \in 1..n+1
                  PROVE  g[i] = IF i = 1 THEN ss[i] ELSE g[i-1] \o ss[i]
      OBVIOUS
    <2>1. CASE i = n + 1
      <3>1. i # 1 /\ i - 1 = n /\ n \in 1..n+1 /\ n # n + 1
        BY <2>1
      <3>2. g[n] = f[n]
        BY <3>1
      <3>. HIDE DEF g
      <3>. QED BY <1>2, <2>1, <3>1, <3>2
    <2>2. CASE i # n + 1
      <3>1. i \in 1..n /\ (i # 1 => i - 1 \in 1..n+1 /\ i - 1 # n + 1)
        BY <2>2
      <3>2. g[i] = f[i] /\ (i # 1 => g[i - 1] = f[i - 1])
        BY <3>1
      <3>. HIDE DEF g
      <3>. QED BY <3>1, <3>2, JoinedAt
    <2>. QED BY <2>1, <2>2
  <1>4. g = [i \in 1..n+1 |-> g[i]]
    OBVIOUS
  <1>. HIDE DEF g
  <1>5. Joined(ss, g, n + 1)
    BY <1>3, <1>4 DEF Joined
  <1>. QED BY <1>1, <1>2, <1>5

LEMMA JoinAll ==
  ASSUME NEW ss \in Seq(Seq(Slot)), Len(ss) > 0, KeysApart(ss)
  PROVE  \E f : Joined(ss, f, Len(ss)) /\ Parts(ss, Len(ss), f[Len(ss)])
  <1>. DEFINE Good(m) == \E f : Joined(ss, f, m + 1) /\ Parts(ss, m + 1, f[m + 1])
              All     == {m \in Nat : m + 1 <= Len(ss) => Good(m)}
  <1>1. Good(0)
    BY JoinFirst, 0 + 1 = 1
  <1>2. ASSUME NEW m \in Nat, Good(m), (m + 1) + 1 <= Len(ss)
        PROVE  Good(m + 1)
    BY <1>2, JoinNext, m + 1 \in Nat \ {0}
  <1>. HIDE DEF Good
  <1>3. 0 \in All /\ \A m \in Nat : m \in All => m + 1 \in All
    BY <1>1, <1>2
  <1>4. \A n \in Nat : n \in All
    <2>. HIDE DEF All
    <2>. QED BY <1>3, Induction
  <1>5. Len(ss) - 1 \in Nat /\ (Len(ss) - 1) + 1 = Len(ss)
    OBVIOUS
  <1>6. Good(Len(ss) - 1)
    BY <1>4, <1>5
  <1>. QED BY <1>5, <1>6 DEF Good

LEMMA JoinUnique ==
  ASSUME NEW ss, NEW n \in Nat \ {0}, NEW f, NEW g, Joined(ss, f, n), Joined(ss, g, n)
  PROVE  f[n] = g[n]
  <1>. DEFINE Same == {m \in Nat : m + 1 <= n => f[m + 1] = g[m + 1]}
  <1>1. 0 \in Same
    <2>1. 1 \in 1..n
      OBVIOUS
    <2>. QED BY <2>1, JoinedAt
  <1>2. ASSUME NEW m \in Nat, m \in Same PROVE m + 1 \in Same
    <2>. SUFFICES ASSUME m + 2 <= n PROVE f[m + 2] = g[m + 2]
      OBVIOUS
    <2>1. f[m + 1] = g[m + 1]
      BY <1>2
    <2>2. m + 2 \in 1..n /\ m + 2 # 1 /\ (m + 2) - 1 = m + 1
      OBVIOUS
    <2>3. f[m + 2] = IF m + 2 = 1 THEN ss[m + 2] ELSE f[(m + 2) - 1] \o ss[m + 2]
      BY <2>2, JoinedAt
    <2>4. g[m + 2] = IF m + 2 = 1 THEN ss[m + 2] ELSE g[(m + 2) - 1] \o ss[m + 2]
      BY <2>2, JoinedAt
    <2>. QED BY <2>1, <2>2, <2>3, <2>4
  <1>3. \A m \in Nat : m \in Same
    <2>. HIDE DEF Same
    <2>. QED BY <1>1, <1>2, Induction
  <1>4. n - 1 \in Nat /\ (n - 1) + 1 = n
    OBVIOUS
  <1>. QED BY <1>3, <1>4

LEMMA Flattened ==
  ASSUME NEW ss \in Seq(Seq(Slot)), Len(ss) > 0, KeysApart(ss)
  PROVE  Parts(ss, Len(ss), FlattenSeq(ss))
  <1>. DEFINE c == CHOOSE h : Joined(ss, h, Len(ss))
  <1>1. PICK f : Joined(ss, f, Len(ss)) /\ Parts(ss, Len(ss), f[Len(ss)])
    BY JoinAll
  <1>2. Joined(ss, c, Len(ss))
    BY <1>1, Zenon
  <1>3. Len(ss) \in Nat \ {0} /\ Len(ss) # 0
    OBVIOUS
  <1>4. FlattenSeq(ss) = c[Len(ss)]
    BY <1>3, Zenon DEF FlattenSeq, Joined
  <1>. HIDE DEF c
  <1>5. c[Len(ss)] = f[Len(ss)]
    BY <1>1, <1>2, <1>3, JoinUnique
  <1>. QED BY <1>1, <1>4, <1>5
-----------------------------------------------------------------------------
(* A traversal meets every slot of a well-placed table, each key once.     *)
LEMMA TraverseMeets ==
  ASSUME NEW i \in DOMAIN Primes, NEW d, WellPlaced(d, i)
  PROVE  /\ Traverse(d) \in Seq(Slot)
         /\ \A s : (\E x \in DOMAIN Traverse(d) : Traverse(d)[x] = s) <=> In(s, d)
         /\ \A x, y \in DOMAIN Traverse(d) : Traverse(d)[x].key = Traverse(d)[y].key => x = y
  <1>. DEFINE n  == Primes[i]
              ss == [b \in 1..n |-> d[b-1]]
  <1>1. n \in Nat /\ n >= 2
    BY Sizes
  <1>2. DOMAIN d = 0..n-1 /\ \A b \in 0..n-1 : d[b] \in Seq(Slot)
    BY DEF WellPlaced, Table
  <1>3. Cardinality(DOMAIN d) = n
    BY <1>1, <1>2, FS_Interval
  <1>4. ss \in Seq(Seq(Slot)) /\ Len(ss) = n
    BY <1>1, <1>2
  <1>5. KeysApart(ss)
    <2>. SUFFICES ASSUME NEW b \in 1..n, NEW c \in 1..n,
                         NEW j \in DOMAIN d[b-1], NEW l \in DOMAIN d[c-1],
                         d[b-1][j].key = d[c-1][l].key
                  PROVE  b = c /\ j = l
      BY <1>1 DEF KeysApart
    <2>1. b - 1 \in 0..n-1 /\ c - 1 \in 0..n-1
      BY <1>1
    <2>2. Index(d[b-1][j].key, i) = b - 1 /\ Index(d[c-1][l].key, i) = c - 1
      BY <1>2, <2>1 DEF WellPlaced
    <2>3. b = c
      BY <1>1, <2>2
    <2>. QED BY <1>2, <2>1, <2>3 DEF WellPlaced, Distinct
  <1>6. Traverse(d) = FlattenSeq(ss)
    BY <1>3 DEF Traverse
  <1>7. \A s : (\E b \in 1..n : \E j \in DOMAIN ss[b] : ss[b][j] = s) <=> In(s, d)
    <2>. SUFFICES ASSUME NEW s
                  PROVE  (\E b \in 1..n : \E j \in DOMAIN d[b-1] : d[b-1][j] = s) <=> In(s, d)
      OBVIOUS
    <2>1. ASSUME NEW b \in 0..n-1 PROVE b + 1 \in 1..n /\ (b + 1) - 1 = b
      BY <1>1
    <2>2. ASSUME NEW b \in 1..n PROVE b - 1 \in 0..n-1
      BY <1>1
    <2>. QED BY <1>2, <2>1, <2>2 DEF In
  <1>. HIDE DEF n, ss
  <1>8. Parts(ss, n, Traverse(d))
    BY <1>1, <1>4, <1>5, <1>6, Flattened
  <1>. QED BY <1>7, <1>8 DEF Parts

LEMMA TraverseLength ==
  ASSUME NEW i \in DOMAIN Primes, NEW d, WellPlaced(d, i)
  PROVE  Len(Traverse(d)) = Cardinality(KeysOf(d))
  <1>. DEFINE T == Traverse(d)
              f == [x \in 1..Len(T) |-> T[x].key]
  <1>1. /\ T \in Seq(Slot) /\ DOMAIN T = 1..Len(T) /\ Len(T) \in Nat
        /\ \A s : (\E x \in DOMAIN T : T[x] = s) <=> In(s, d)
        /\ \A x, y \in DOMAIN T : T[x].key = T[y].key => x = y
    BY TraverseMeets
  <1>. HIDE DEF T
  <1>2. \A x \in 1..Len(T) : T[x] \in Slot /\ T[x].key \in Key /\ In(T[x], d)
    <2>. SUFFICES ASSUME NEW x \in 1..Len(T)
                  PROVE  T[x] \in Slot /\ T[x].key \in Key /\ In(T[x], d)
      OBVIOUS
    <2>1. T[x] \in Slot
      BY <1>1
    <2>2. In(T[x], d)
      BY <1>1
    <2>. QED BY <2>1, <2>2 DEF Slot
  <1>3. f \in [1..Len(T) -> KeysOf(d)]
    BY <1>2 DEF KeysOf
  <1>4. \A x, y \in 1..Len(T) : f[x] = f[y] => x = y
    BY <1>1
  <1>5. \A k \in KeysOf(d) : \E x \in 1..Len(T) : f[x] = k
    BY <1>1 DEF KeysOf
  <1>6. f \in Bijection(1..Len(T), KeysOf(d))
    BY <1>3, <1>4, <1>5 DEF Bijection, Injection, Surjection, IsInjective
  <1>7. Cardinality(KeysOf(d)) = Len(T)
    BY <1>1, <1>6, FS_CountingElements DEF ExistsBijection
  <1>. QED BY <1>7 DEF T

(* A new slot at the end of its chain.                                     *)
LEMMA AddSlot ==
  ASSUME NEW i \in DOMAIN Primes, NEW d, WellPlaced(d, i),
         NEW s \in Slot, \A t : In(t, d) => t.key # s.key
  PROVE  LET e == [d EXCEPT ![Index(s.key, i)] = Append(@, s)]
         IN  WellPlaced(e, i) /\ \A t : In(t, e) <=> In(t, d) \/ t = s
  <1>. DEFINE c == Index(s.key, i)
              e == [d EXCEPT ![c] = Append(@, s)]
  <1>1. c \in DOMAIN d /\ DOMAIN d = 0..Primes[i]-1 /\ \A b \in DOMAIN d : d[b] \in Seq(Slot)
    BY Sizes DEF WellPlaced, Table, Slot
  <1>2. DOMAIN e = DOMAIN d /\ e[c] = Append(d[c], s) /\ \A b \in DOMAIN d \ {c} : e[b] = d[b]
    BY <1>1
  <1>3. e \in Table(i)
    <2>1. Append(d[c], s) \in Seq(Slot)
      BY <1>1
    <2>2. \A b \in 0..Primes[i]-1 : e[b] \in Seq(Slot)
      BY <1>1, <1>2, <2>1
    <2>3. e = [b \in 0..Primes[i]-1 |-> e[b]]
      BY <1>1
    <2>. HIDE DEF e
    <2>. QED BY <2>2, <2>3 DEF Table
  <1>4. /\ Len(d[c]) \in Nat /\ DOMAIN d[c] = 1..Len(d[c])
        /\ DOMAIN e[c] = 1..Len(d[c]) + 1
        /\ e[c][Len(d[c]) + 1] = s /\ \A j \in DOMAIN d[c] : e[c][j] = d[c][j]
    BY <1>1, <1>2
  <1>. HIDE DEF e, c
  <1>5. \A b \in DOMAIN e : \A j \in DOMAIN e[b] :
          \/ j \in DOMAIN d[b] /\ e[b][j] = d[b][j]
          \/ b = c /\ j = Len(d[c]) + 1 /\ e[b][j] = s /\ j \notin DOMAIN d[b]
    BY <1>2, <1>4
  <1>6. \A b \in DOMAIN d : \A j \in DOMAIN d[b] : j \in DOMAIN e[b] /\ e[b][j] = d[b][j]
    BY <1>2, <1>4
  <1>7. \A t : In(t, e) <=> In(t, d) \/ t = s
    <2>1. \A t : In(t, e) => In(t, d) \/ t = s
      BY <1>2, <1>5 DEF In
    <2>2. \A t : In(t, d) => In(t, e)
      BY <1>2, <1>6 DEF In
    <2>3. In(s, e)
      <3>1. Len(d[c]) + 1 \in DOMAIN e[c] /\ c \in DOMAIN e
        BY <1>1, <1>2, <1>4
      <3>. QED BY <1>4, <3>1 DEF In
    <2>. QED BY <2>1, <2>2, <2>3
  <1>8. \A b \in DOMAIN e : \A j \in DOMAIN e[b] : Index(e[b][j].key, i) = b
    BY <1>2, <1>5 DEF WellPlaced, c
  <1>9. Distinct(e)
    <2>. SUFFICES ASSUME NEW b \in DOMAIN e, NEW j \in DOMAIN e[b], NEW l \in DOMAIN e[b],
                         e[b][j].key = e[b][l].key
                  PROVE  j = l
      BY DEF Distinct
    <2>1. \A x \in DOMAIN d[b] : d[b][x].key # s.key
      BY <1>2 DEF In
    <2>. QED BY <1>2, <1>5, <2>1 DEF WellPlaced, Distinct
  <1>10. WellPlaced(e, i)
    BY <1>3, <1>8, <1>9 DEF WellPlaced
  <1>. QED BY <1>7, <1>10 DEF e, c

LEMMA EmptyTable ==
  ASSUME NEW i \in DOMAIN Primes
  PROVE  WellPlaced(Empty(i), i) /\ \A s : ~In(s, Empty(i))
  <1>1. \A b \in DOMAIN Empty(i) : Empty(i)[b] = <<>> /\ DOMAIN Empty(i)[b] = {}
    BY DEF Empty
  <1>2. Empty(i) \in Table(i)
    BY Sizes DEF Empty, Table
  <1>. QED BY <1>1, <1>2 DEF WellPlaced, Distinct, In

(* The local function of Rehashed, up to the n-th slot; and what its value *)
(* there is: a well-placed table of the first n slots.                     *)
Rehashing(all, i, f, n) ==
  f = [x \in 0..n |-> IF x = 0 THEN Empty(i)
                      ELSE [f[x-1] EXCEPT ![Index(all[x].key, i)] = Append(@, all[x])]]

Holds(all, i, n, d) ==
  WellPlaced(d, i) /\ \A s : In(s, d) <=> \E x \in 1..n : all[x] = s

LEMMA MovedAt ==
  ASSUME NEW all, NEW i, NEW f, NEW n \in Nat, Rehashing(all, i, f, n), NEW x \in 0..n
  PROVE  f[x] = IF x = 0 THEN Empty(i)
                ELSE [f[x-1] EXCEPT ![Index(all[x].key, i)] = Append(@, all[x])]
  BY DEF Rehashing

LEMMA MoveFirst ==
  ASSUME NEW i \in DOMAIN Primes, NEW all
  PROVE  \E f : Rehashing(all, i, f, 0) /\ Holds(all, i, 0, f[0])
  <1>. DEFINE f == [x \in 0..0 |-> Empty(i)]
  <1>1. Rehashing(all, i, f, 0) /\ f[0] = Empty(i)
    BY DEF Rehashing
  <1>. HIDE DEF f
  <1>. QED BY <1>1, EmptyTable DEF Holds

LEMMA MoveNext ==
  ASSUME NEW i \in DOMAIN Primes, NEW all \in Seq(Slot),
         \A x, y \in DOMAIN all : all[x].key = all[y].key => x = y,
         NEW n \in Nat, n + 1 <= Len(all),
         NEW f, Rehashing(all, i, f, n), Holds(all, i, n, f[n])
  PROVE  \E g : Rehashing(all, i, g, n + 1) /\ Holds(all, i, n + 1, g[n + 1])
  <1>. DEFINE s == all[n + 1]
              d == [f[n] EXCEPT ![Index(s.key, i)] = Append(@, s)]
              g == [x \in 0..n+1 |-> IF x = n + 1 THEN d ELSE f[x]]
  <1>1. Holds(all, i, n + 1, d)
    <2>1. s \in Slot /\ n + 1 \in DOMAIN all
      OBVIOUS
    <2>2. \A t : In(t, f[n]) => t.key # s.key
      <3>. SUFFICES ASSUME NEW x \in 1..n, all[x].key = all[n + 1].key PROVE FALSE
        BY DEF Holds
      <3>1. x \in DOMAIN all /\ x # n + 1
        OBVIOUS
      <3>. QED BY <2>1, <3>1
    <2>3. WellPlaced(d, i) /\ \A t : In(t, d) <=> In(t, f[n]) \/ t = s
      <3>. HIDE DEF s
      <3>. QED BY <2>1, <2>2, AddSlot DEF Holds
    <2>4. ASSUME NEW t
          PROVE  (In(t, f[n]) \/ t = s) <=> \E x \in 1..n+1 : all[x] = t
      <3>1. In(t, f[n]) <=> \E x \in 1..n : all[x] = t
        BY DEF Holds
      <3>2. n + 1 \in 1..n+1 /\ \A x \in 1..n+1 : x \in 1..n \/ x = n + 1
        OBVIOUS
      <3>3. \A x \in 1..n : x \in 1..n+1
        OBVIOUS
      <3>. QED BY <3>1, <3>2, <3>3
    <2>. HIDE DEF d
    <2>. QED BY <2>3, <2>4 DEF Holds
  <1>. HIDE DEF d
  <1>2. g[n + 1] = d
    <2>1. n + 1 \in 0..n+1
      OBVIOUS
    <2>. QED BY <2>1
  <1>3. \A x \in 0..n+1 :
          g[x] = IF x = 0 THEN Empty(i)
                 ELSE [g[x-1] EXCEPT ![Index(all[x].key, i)] = Append(@, all[x])]
    <2>. SUFFICES ASSUME NEW x \in 0..n+1
                  PROVE  g[x] = IF x = 0 THEN Empty(i)
                                ELSE [g[x-1] EXCEPT ![Index(all[x].key, i)] = Append(@, all[x])]
      OBVIOUS
    <2>1. CASE x = n + 1
      <3>1. x # 0 /\ x - 1 = n /\ n \in 0..n+1 /\ n # n + 1
        BY <2>1
      <3>2. g[n] = f[n]
        BY <3>1
      <3>. HIDE DEF g
      <3>. QED BY <1>2, <2>1, <3>1, <3>2 DEF d
    <2>2. CASE x # n + 1
      <3>1. x \in 0..n /\ (x # 0 => x - 1 \in 0..n+1 /\ x - 1 # n + 1)
        BY <2>2
      <3>2. g[x] = f[x] /\ (x # 0 => g[x - 1] = f[x - 1])
        BY <3>1
      <3>3. f[x] = IF x = 0 THEN Empty(i)
                   ELSE [f[x-1] EXCEPT ![Index(all[x].key, i)] = Append(@, all[x])]
        BY <3>1, MovedAt
      <3>. HIDE DEF g
      <3>. QED BY <3>2, <3>3
    <2>. QED BY <2>1, <2>2
  <1>4. g = [x \in 0..n+1 |-> g[x]]
    OBVIOUS
  <1>. HIDE DEF g
  <1>5. Rehashing(all, i, g, n + 1)
    BY <1>3, <1>4, Zenon DEF Rehashing
  <1>. QED BY <1>1, <1>2, <1>5

LEMMA MoveAll ==
  ASSUME NEW i \in DOMAIN Primes, NEW all \in Seq(Slot),
         \A x, y \in DOMAIN all : all[x].key = all[y].key => x = y
  PROVE  \E f : Rehashing(all, i, f, Len(all)) /\ Holds(all, i, Len(all), f[Len(all)])
  <1>. DEFINE Good(m) == \E f : Rehashing(all, i, f, m) /\ Holds(all, i, m, f[m])
              Goods   == {m \in Nat : m <= Len(all) => Good(m)}
  <1>1. Good(0)
    BY MoveFirst
  <1>2. ASSUME NEW m \in Nat, Good(m), m + 1 <= Len(all)
        PROVE  Good(m + 1)
    BY <1>2, MoveNext
  <1>. HIDE DEF Good
  <1>3. 0 \in Goods /\ \A m \in Nat : m \in Goods => m + 1 \in Goods
    BY <1>1, <1>2
  <1>4. \A n \in Nat : n \in Goods
    <2>. HIDE DEF Goods
    <2>. QED BY <1>3, Induction
  <1>5. Good(Len(all))
    BY <1>4
  <1>. QED BY <1>5 DEF Good

LEMMA MoveUnique ==
  ASSUME NEW all, NEW i, NEW n \in Nat, NEW f, NEW g, Rehashing(all, i, f, n), Rehashing(all, i, g, n)
  PROVE  f[n] = g[n]
  <1>. DEFINE Same == {m \in Nat : m <= n => f[m] = g[m]}
  <1>1. 0 \in Same
    <2>. DEFINE To(d) == [d EXCEPT ![Index(all[0].key, i)] = Append(@, all[0])]
    <2>1. 0 \in 0..n
      OBVIOUS
    <2>2. f[0] = IF 0 = 0 THEN Empty(i) ELSE To(f[0-1])
      BY <2>1, MovedAt
    <2>3. g[0] = IF 0 = 0 THEN Empty(i) ELSE To(g[0-1])
      BY <2>1, MovedAt
    <2>. HIDE DEF To
    <2>. QED BY <2>2, <2>3
  <1>2. ASSUME NEW m \in Nat, m \in Same PROVE m + 1 \in Same
    <2>. SUFFICES ASSUME m + 1 <= n PROVE f[m + 1] = g[m + 1]
      OBVIOUS
    <2>. DEFINE To(d) == [d EXCEPT ![Index(all[m + 1].key, i)] = Append(@, all[m + 1])]
    <2>1. f[m] = g[m]
      BY <1>2
    <2>2. m + 1 \in 0..n /\ m + 1 # 0 /\ (m + 1) - 1 = m
      OBVIOUS
    <2>3. f[m + 1] = IF m + 1 = 0 THEN Empty(i) ELSE To(f[(m + 1) - 1])
      BY <2>2, MovedAt
    <2>4. g[m + 1] = IF m + 1 = 0 THEN Empty(i) ELSE To(g[(m + 1) - 1])
      BY <2>2, MovedAt
    <2>. HIDE DEF To
    <2>. QED BY <2>1, <2>2, <2>3, <2>4
  <1>3. \A m \in Nat : m \in Same
    <2>. HIDE DEF Same
    <2>. QED BY <1>1, <1>2, Induction
  <1>. QED BY <1>3

(* A rehash loses no slot, makes none, and puts each where it is looked    *)
(* for under the new size.                                                 *)
LEMMA RehashKeeps ==
  ASSUME NEW h \in DOMAIN Primes, NEW i \in DOMAIN Primes, NEW d, WellPlaced(d, h)
  PROVE  WellPlaced(Rehashed(d, i), i) /\ \A s : In(s, Rehashed(d, i)) <=> In(s, d)
  <1>. DEFINE all == Traverse(d)
              c   == CHOOSE f : Rehashing(all, i, f, Len(all))
  <1>1. /\ all \in Seq(Slot)
        /\ \A s : (\E x \in DOMAIN all : all[x] = s) <=> In(s, d)
        /\ \A x, y \in DOMAIN all : all[x].key = all[y].key => x = y
    BY TraverseMeets
  <1>2. Rehashed(d, i) = c[Len(all)]
    BY Zenon DEF Rehashed, Rehashing
  <1>. HIDE DEF all
  <1>3. PICK f : Rehashing(all, i, f, Len(all)) /\ Holds(all, i, Len(all), f[Len(all)])
    BY <1>1, MoveAll
  <1>4. Rehashing(all, i, c, Len(all))
    BY <1>3, Zenon
  <1>5. Len(all) \in Nat /\ DOMAIN all = 1..Len(all)
    BY <1>1
  <1>. HIDE DEF c
  <1>6. c[Len(all)] = f[Len(all)]
    BY <1>3, <1>4, <1>5, MoveUnique
  <1>. QED BY <1>1, <1>2, <1>3, <1>5, <1>6 DEF Holds
-----------------------------------------------------------------------------
(* The search in a chain, in a table d of size number i.                   *)
FoundIn(d, i, k) == {j \in DOMAIN d[Index(k, i)] : d[Index(k, i)][j].key = k}

LEMMA SearchFinds ==
  ASSUME NEW i \in DOMAIN Primes, NEW d, WellPlaced(d, i), NEW k \in Key
  PROVE  /\ Index(k, i) \in DOMAIN d /\ d[Index(k, i)] \in Seq(Slot)
         /\ \A s \in Slot : s.key = k /\ In(s, d)
                            => \E j \in FoundIn(d, i, k) : d[Index(k, i)][j] = s
         /\ \A j, l \in FoundIn(d, i, k) : j = l
         /\ \A j \in FoundIn(d, i, k) : In(d[Index(k, i)][j], d)
  <1>1. Index(k, i) \in DOMAIN d /\ d[Index(k, i)] \in Seq(Slot)
    BY Sizes DEF WellPlaced, Table
  <1>2. ASSUME NEW s \in Slot, s.key = k, In(s, d)
        PROVE  \E j \in FoundIn(d, i, k) : d[Index(k, i)][j] = s
    <2>0. PICK b \in DOMAIN d : \E j \in DOMAIN d[b] : d[b][j] = s
      BY <1>2 DEF In
    <2>1. PICK j \in DOMAIN d[b] : d[b][j] = s
      BY <2>0
    <2>2. b = Index(k, i)
      BY <1>2, <2>1 DEF WellPlaced
    <2>. QED BY <1>2, <2>1, <2>2 DEF FoundIn
  <1>3. \A j, l \in FoundIn(d, i, k) : j = l
    BY <1>1 DEF FoundIn, WellPlaced, Distinct
  <1>4. \A j \in FoundIn(d, i, k) : In(d[Index(k, i)][j], d)
    BY <1>1 DEF FoundIn, In
  <1>. QED BY <1>1, <1>2, <1>3, <1>4

First(S) == CHOOSE i \in S : \A j \in S : i <= j

(* The one place at which a key is found, when it is.                      *)
LEMMA SearchFirst ==
  ASSUME NEW i \in DOMAIN Primes, NEW d, WellPlaced(d, i), NEW k \in Key, FoundIn(d, i, k) # {}
  PROVE  /\ First(FoundIn(d, i, k)) \in FoundIn(d, i, k)
         /\ FoundIn(d, i, k) = {First(FoundIn(d, i, k))}
  <1>1. PICK j : j \in FoundIn(d, i, k)
    OBVIOUS
  <1>2. FoundIn(d, i, k) = {j} /\ j \in Int
    BY <1>1, SearchFinds DEF FoundIn
  <1>3. First({j}) = j
    BY <1>2 DEF First
  <1>. QED BY <1>2, <1>3

LEMMA SlotIn ==
  ASSUME NEW i \in DOMAIN Primes, NEW d, WellPlaced(d, i), NEW s, In(s, d)
  PROVE  s \in Slot /\ s.key \in Key
  <1>1. PICK b \in DOMAIN d : \E j \in DOMAIN d[b] : d[b][j] = s
    BY DEF In
  <1>2. d[b] \in Seq(Slot)
    BY DEF WellPlaced, Table
  <1>3. s \in Slot
    BY <1>1, <1>2
  <1>. QED BY <1>3 DEF Slot

(* The value of a found slot is replaced; the slot stays.                  *)
Revalued(s, v)      == [s EXCEPT !.val = v]
Changed(d, c, j, v) == [d EXCEPT ![c][j].val = v]

LEMMA ChangeSlot ==
  ASSUME NEW i \in DOMAIN Primes, NEW d, WellPlaced(d, i),
         NEW k \in Key, FoundIn(d, i, k) # {}, NEW v \in Val,
         NEW c, c = Index(k, i), NEW j, j = First(FoundIn(d, i, k)),
         NEW e, e = Changed(d, c, j, v)
  PROVE  /\ WellPlaced(e, i)
         /\ \A t : In(t, e) <=> \/ In(t, d) /\ t.key # k
                                \/ t = Revalued(d[c][j], v)
  <1>. DEFINE u == [d[c][j] EXCEPT !.val = v]
  <1>0. e = [d EXCEPT ![c][j].val = v]
    BY DEF Changed
  <1>1. /\ c \in DOMAIN d /\ DOMAIN d = 0..Primes[i]-1
        /\ \A b \in DOMAIN d : d[b] \in Seq(Slot)
    BY SearchFinds DEF WellPlaced, Table
  <1>2. j \in DOMAIN d[c] /\ d[c][j].key = k /\ d[c][j] \in Slot
    <2>1. j \in FoundIn(d, i, k)
      BY SearchFirst
    <2>2. j \in DOMAIN d[c] /\ d[c][j].key = k
      BY <2>1 DEF FoundIn
    <2>. QED BY <1>1, <2>2
  <1>3. u \in Slot /\ u.key = k
    BY <1>2 DEF Slot
  <1>4. /\ DOMAIN e = DOMAIN d /\ \A b \in DOMAIN d \ {c} : e[b] = d[b]
        /\ e[c] = [d[c] EXCEPT ![j] = u]
    BY <1>0, <1>1, <1>2
  <1>5. e = [b \in 0..Primes[i]-1 |-> e[b]]
    BY <1>0, <1>1
  <1>. HIDE DEF u
  <1>6. /\ e[c] \in Seq(Slot) /\ DOMAIN e[c] = DOMAIN d[c] /\ e[c][j] = u
        /\ \A l \in DOMAIN d[c] \ {j} : e[c][l] = d[c][l]
    BY <1>1, <1>2, <1>3, <1>4
  <1>7. e \in Table(i)
    <2>1. \A b \in 0..Primes[i]-1 : e[b] \in Seq(Slot)
      BY <1>1, <1>4, <1>6
    <2>. QED BY <1>5, <2>1 DEF Table
  <1>8. \A b \in DOMAIN e : /\ DOMAIN e[b] = DOMAIN d[b]
                            /\ \A l \in DOMAIN e[b] : /\ e[b][l].key = d[b][l].key
                                                      /\ (b = c /\ l = j) \/ e[b][l] = d[b][l]
    BY <1>2, <1>3, <1>4, <1>6
  <1>9. WellPlaced(e, i)
    BY <1>4, <1>7, <1>8 DEF WellPlaced, Distinct
  <1>10. \A b \in DOMAIN d : \A l \in DOMAIN d[b] : d[b][l].key = k => b = c /\ l = j
    BY <1>1, <1>2 DEF WellPlaced, Distinct
  <1>11. ASSUME NEW t
         PROVE  In(t, e) <=> (In(t, d) /\ t.key # k) \/ t = u
    <2>1. ASSUME In(t, e) PROVE (In(t, d) /\ t.key # k) \/ t = u
      BY <1>4, <1>6, <1>8, <1>10, <2>1 DEF In
    <2>2. ASSUME In(t, d), t.key # k PROVE In(t, e)
      BY <1>2, <1>4, <1>8, <2>2 DEF In
    <2>3. In(u, e)
      BY <1>1, <1>2, <1>4, <1>6 DEF In
    <2>. QED BY <2>1, <2>2, <2>3
  <1>. QED BY <1>9, <1>11 DEF u, Revalued

LEMMA RemovedAt ==
  ASSUME NEW s \in Seq(Slot), NEW j \in DOMAIN s
  PROVE  LET r == RemoveAt(s, j)
         IN  /\ Len(s) \in Nat /\ DOMAIN s = 1..Len(s)
             /\ r \in Seq(Slot) /\ DOMAIN r = 1..Len(s)-1
             /\ \A l \in 1..Len(s)-1 : r[l] = IF l < j THEN s[l] ELSE s[l + 1]
  <1>. DEFINE p == SubSeq(s, 1, j - 1)
              q == SubSeq(s, j + 1, Len(s))
  <1>1. Len(s) \in Nat /\ DOMAIN s = 1..Len(s) /\ j \in 1..Len(s)
    OBVIOUS
  <1>2. p \in Seq(Slot) /\ Len(p) = j - 1 /\ \A l \in 1..j-1 : p[l] = s[l]
    BY <1>1
  <1>3. q \in Seq(Slot) /\ Len(q) = Len(s) - j /\ \A l \in 1..Len(s)-j : q[l] = s[j + l]
    BY <1>1
  <1>4. RemoveAt(s, j) = p \o q
    BY DEF RemoveAt
  <1>. HIDE DEF p, q
  <1>5. /\ p \o q \in Seq(Slot) /\ Len(p \o q) = Len(s) - 1
        /\ DOMAIN (p \o q) = 1..Len(s)-1
    <2>1. p \o q \in Seq(Slot) /\ Len(p \o q) = Len(p) + Len(q)
      <3>1. p \in Seq(Slot) /\ q \in Seq(Slot)
        BY <1>2, <1>3
      <3>. QED BY <3>1
    <2>2. Len(p) + Len(q) = Len(s) - 1
      BY <1>1, <1>2, <1>3
    <2>3. DOMAIN (p \o q) = 1..Len(p \o q)
      BY <2>1
    <2>. QED BY <2>1, <2>2, <2>3
  <1>6. ASSUME NEW l \in 1..Len(s)-1
        PROVE  (p \o q)[l] = IF l < j THEN s[l] ELSE s[l + 1]
    <2>1. CASE l < j
      <3>1. (p \o q)[l] = p[l] /\ l \in 1..j-1
        BY <1>1, <1>2, <1>3, <2>1
      <3>. QED BY <1>2, <2>1, <3>1
    <2>2. CASE ~(l < j)
      <3>1. (p \o q)[l] = q[l - (j - 1)] /\ l - (j - 1) \in 1..Len(s)-j
        BY <1>1, <1>2, <1>3, <2>2
      <3>2. j + (l - (j - 1)) = l + 1
        BY <1>1
      <3>. QED BY <1>3, <2>2, <3>1, <3>2
    <2>. QED BY <2>1, <2>2
  <1>. QED BY <1>1, <1>4, <1>5, <1>6

(* A found slot is taken out of its chain.                                 *)
LEMMA DropSlot ==
  ASSUME NEW i \in DOMAIN Primes, NEW d, WellPlaced(d, i),
         NEW k \in Key, FoundIn(d, i, k) # {}
  PROVE  LET c == Index(k, i)
             j == First(FoundIn(d, i, k))
             e == [d EXCEPT ![c] = RemoveAt(@, j)]
         IN  /\ WellPlaced(e, i)
             /\ \A t : In(t, e) <=> In(t, d) /\ t.key # k
  <1>. DEFINE c == Index(k, i)
              j == First(FoundIn(d, i, k))
              r == RemoveAt(d[c], j)
              e == [d EXCEPT ![c] = RemoveAt(@, j)]
  <1>1. /\ c \in DOMAIN d /\ DOMAIN d = 0..Primes[i]-1
        /\ \A b \in DOMAIN d : d[b] \in Seq(Slot)
    BY SearchFinds DEF WellPlaced, Table
  <1>2. j \in DOMAIN d[c] /\ d[c][j].key = k /\ d[c][j] \in Slot
    <2>1. j \in FoundIn(d, i, k)
      BY SearchFirst
    <2>2. j \in DOMAIN d[c] /\ d[c][j].key = k
      BY <2>1 DEF FoundIn
    <2>. QED BY <1>1, <2>2
  <1>3. /\ DOMAIN e = DOMAIN d /\ \A b \in DOMAIN d \ {c} : e[b] = d[b]
        /\ e[c] = r
    BY <1>1
  <1>4. e = [b \in 0..Primes[i]-1 |-> e[b]]
    BY <1>1
  <1>. HIDE DEF e, c, j
  <1>5. /\ Len(d[c]) \in Nat /\ DOMAIN d[c] = 1..Len(d[c])
        /\ r \in Seq(Slot) /\ DOMAIN r = 1..Len(d[c])-1
        /\ \A l \in 1..Len(d[c])-1 : r[l] = IF l < j THEN d[c][l] ELSE d[c][l + 1]
    <2>1. d[c] \in Seq(Slot) /\ j \in DOMAIN d[c]
      BY <1>1, <1>2
    <2>. QED BY <2>1, RemovedAt
  <1>. HIDE DEF r
  <1>. DEFINE From(l) == IF l < j THEN l ELSE l + 1
  <1>6. /\ \A l \in DOMAIN r : From(l) \in DOMAIN d[c] \ {j} /\ r[l] = d[c][From(l)]
        /\ \A l, m \in DOMAIN r : From(l) = From(m) => l = m
        /\ \A n \in DOMAIN d[c] \ {j} : \E l \in DOMAIN r : From(l) = n
    <2>1. j \in 1..Len(d[c])
      BY <1>2, <1>5
    <2>2. ASSUME NEW n \in DOMAIN d[c] \ {j} PROVE \E l \in DOMAIN r : From(l) = n
      <3>1. CASE n < j
        <4>1. n \in DOMAIN r /\ From(n) = n
          BY <1>5, <2>1, <3>1
        <4>. QED BY <4>1
      <3>2. CASE n > j
        <4>1. n - 1 \in DOMAIN r /\ From(n - 1) = n
          BY <1>5, <2>1, <3>2
        <4>. QED BY <4>1
      <3>. QED BY <1>5, <2>1, <3>1, <3>2
    <2>3. \A l \in DOMAIN r : From(l) \in DOMAIN d[c] \ {j} /\ r[l] = d[c][From(l)]
      BY <1>5, <2>1
    <2>4. \A l, m \in DOMAIN r : From(l) = From(m) => l = m
      BY <1>5, <2>1
    <2>. HIDE DEF From
    <2>. QED BY <2>2, <2>3, <2>4
  <1>. HIDE DEF From
  <1>7. e \in Table(i)
    <2>1. \A b \in 0..Primes[i]-1 : e[b] \in Seq(Slot)
      BY <1>1, <1>3, <1>5
    <2>. QED BY <1>4, <2>1 DEF Table
  <1>8. \A b \in DOMAIN e : \A l \in DOMAIN e[b] : Index(e[b][l].key, i) = b
    BY <1>1, <1>3, <1>6 DEF WellPlaced
  <1>9. Distinct(e)
    BY <1>1, <1>3, <1>6 DEF WellPlaced, Distinct
  <1>10. \A b \in DOMAIN d : \A l \in DOMAIN d[b] : d[b][l].key = k => b = c /\ l = j
    BY <1>1, <1>2 DEF WellPlaced, Distinct, c
  <1>11. ASSUME NEW t
         PROVE  In(t, e) <=> In(t, d) /\ t.key # k
    <2>1. ASSUME In(t, e) PROVE In(t, d) /\ t.key # k
      BY <1>1, <1>3, <1>6, <1>10, <2>1 DEF In
    <2>2. ASSUME In(t, d), t.key # k PROVE In(t, e)
      <3>1. PICK b \in DOMAIN d : \E l \in DOMAIN d[b] : d[b][l] = t
        BY <2>2 DEF In
      <3>2. PICK l \in DOMAIN d[b] : d[b][l] = t
        BY <3>1
      <3>3. CASE b = c
        BY <1>1, <1>2, <1>3, <1>6, <2>2, <3>2, <3>3 DEF In
      <3>4. CASE b # c
        BY <1>3, <3>2, <3>4 DEF In
      <3>. QED BY <3>3, <3>4
    <2>. QED BY <2>1, <2>2
  <1>12. WellPlaced(e, i)
    BY <1>7, <1>8, <1>9 DEF WellPlaced
  <1>. QED BY <1>11, <1>12 DEF c, j, e
-----------------------------------------------------------------------------
LEMMA FindIs == \A k : Find(k) = FoundIn(data, size_idx, k)
  BY DEF Find, FoundIn

LEMMA NotFound ==
  ASSUME NEW i \in DOMAIN Primes, NEW d, WellPlaced(d, i), NEW k \in Key
  PROVE  FoundIn(d, i, k) = {} <=> k \notin KeysOf(d)
  <1>1. ASSUME NEW j \in FoundIn(d, i, k) PROVE k \in KeysOf(d)
    <2>. DEFINE s == d[Index(k, i)][j]
    <2>1. In(s, d) /\ s.key = k
      BY SearchFinds DEF FoundIn
    <2>. HIDE DEF s
    <2>. QED BY <2>1, SlotIn DEF KeysOf
  <1>2. ASSUME k \in KeysOf(d) PROVE FoundIn(d, i, k) # {}
    <2>1. PICK s \in Slot : In(s, d) /\ s.key = k
      BY <1>2 DEF KeysOf
    <2>. QED BY <2>1, SearchFinds
  <1>. QED BY <1>1, <1>2

LEMMA Larger ==
  ASSUME NEW i \in DOMAIN Primes
  PROVE  /\ Cardinality(Key) \in Nat
         /\ i + 1 \in DOMAIN Primes => Thresh(i) < Thresh(i + 1)
         /\ i + 1 \notin DOMAIN Primes => Cardinality(Key) < Thresh(i)
  <1>1. Len(Primes) \in Nat /\ DOMAIN Primes = 1..Len(Primes) /\ i \in 1..Len(Primes)
    BY SizesAssumption
  <1>2. Cardinality(Key) \in Nat
    BY RoomAssumption, FS_CardinalityType
  <1>3. ASSUME i + 1 \in DOMAIN Primes PROVE Thresh(i) < Thresh(i + 1)
    <2>1. i \in 1..Len(Primes)-1
      BY <1>1, <1>3
    <2>2. Primes[i] + 2 <= Primes[i + 1] /\ Primes[i] \in Nat /\ Primes[i + 1] \in Nat
      BY <1>3, <2>1, SizesAssumption, Sizes
    <2>. QED BY <2>2 DEF Thresh
  <1>4. ASSUME i + 1 \notin DOMAIN Primes PROVE Cardinality(Key) < Thresh(i)
    <2>1. i = Len(Primes)
      BY <1>1, <1>4
    <2>2. Primes[i] \in Nat /\ 3 * (Cardinality(Key) + 1) <= 2 * Primes[i]
      BY <2>1, RoomAssumption, Sizes
    <2>. QED BY <1>2, <2>2 DEF Thresh
  <1>. QED BY <1>2, <1>3, <1>4

(* What each operation does to the slots in the table.                     *)
LEMMA AddDoes ==
  ASSUME IInv, NEW k \in Key, NEW v \in Val, NEW a \in Addr, Add(k, v, a)
  PROVE  /\ k \notin KeysOf(data)
         /\ IInv'
         /\ \A t : In(t, data') <=> In(t, data) \/ t = [key |-> k, val |-> v, addr |-> a]
  <1>. DEFINE s == [key |-> k, val |-> v, addr |-> a]
              d == Added(k, v, a)
  <1>1. size_idx \in DOMAIN Primes /\ WellPlaced(data, size_idx)
    BY DEF IInv
  <1>2. k \notin KeysOf(data)
    BY <1>1, FindIs, NotFound DEF Add
  <1>3. s \in Slot /\ s.key = k
    BY DEF Slot
  <1>4. \A t : In(t, data) => t.key # s.key
    BY <1>1, <1>2, <1>3, SlotIn DEF KeysOf
  <1>5. d = [data EXCEPT ![Index(s.key, size_idx)] = Append(@, s)]
    BY <1>3 DEF Added
  <1>. HIDE DEF s, d
  <1>6. WellPlaced(d, size_idx) /\ \A t : In(t, d) <=> In(t, data) \/ t = s
    BY <1>1, <1>3, <1>4, <1>5, AddSlot
  <1>7. len' = len + 1 /\ len = Cardinality(KeysOf(data)) /\ len < load_thresh
        /\ load_thresh = Thresh(size_idx)
    BY DEF IInv, Add
  <1>8. \A e : (\A t : In(t, e) <=> In(t, d)) =>
          Cardinality(KeysOf(e)) = len + 1 /\ len + 1 <= Cardinality(Key) /\ len \in Nat
    <2>. SUFFICES ASSUME NEW e, \A t : In(t, e) <=> In(t, d)
                  PROVE  Cardinality(KeysOf(e)) = len + 1 /\ len + 1 <= Cardinality(Key)
                         /\ len \in Nat
      OBVIOUS
    <2>1. KeysOf(e) = KeysOf(data) \cup {k}
      BY <1>3, <1>6 DEF KeysOf
    <2>2. IsFiniteSet(KeysOf(data)) /\ Cardinality(KeysOf(data)) \in Nat
          /\ Cardinality(KeysOf(e)) <= Cardinality(Key)
      BY KeysFinite
    <2>3. Cardinality(KeysOf(e)) = Cardinality(KeysOf(data)) + 1
      BY <1>2, <2>1, <2>2, FS_AddElement
    <2>. QED BY <1>7, <2>2, <2>3
  <1>9. CASE len' = load_thresh
    <2>1. size_idx' = size_idx + 1 /\ data' = Rehashed(d, size_idx + 1)
          /\ load_thresh' = Thresh(size_idx + 1)
      BY <1>9 DEF Add, Grow, d
    <2>2. size_idx + 1 \in DOMAIN Primes
      <3>1. len + 1 <= Cardinality(Key) /\ len + 1 = Thresh(size_idx)
        BY <1>7, <1>8, <1>9
      <3>2. Thresh(size_idx) \in Nat
        BY <1>1, Sizes
      <3>. QED BY <1>1, <3>1, <3>2, Larger
    <2>3. WellPlaced(data', size_idx') /\ \A t : In(t, data') <=> In(t, d)
      BY <1>1, <1>6, <2>1, <2>2, RehashKeeps
    <2>4. len' < load_thresh'
      <3>1. Thresh(size_idx) \in Nat /\ Thresh(size_idx + 1) \in Nat
        BY <1>1, <2>2, Sizes
      <3>. QED BY <1>1, <1>7, <1>9, <2>1, <2>2, <3>1, Larger
    <2>5. IInv'
      BY <1>7, <1>8, <2>1, <2>2, <2>3, <2>4 DEF IInv
    <2>. QED BY <1>2, <1>6, <2>3, <2>5 DEF s
  <1>10. CASE len' # load_thresh
    <2>1. size_idx' = size_idx /\ data' = d /\ load_thresh' = load_thresh
      BY <1>10 DEF Add, Grow, d
    <2>2. len' < load_thresh'
      <3>1. Thresh(size_idx) \in Nat /\ len \in Nat
        BY <1>1, <1>8, Sizes
      <3>. QED BY <1>7, <1>10, <2>1, <3>1
    <2>3. IInv'
      BY <1>1, <1>6, <1>7, <1>8, <2>1, <2>2 DEF IInv
    <2>. QED BY <1>2, <1>6, <2>1, <2>3 DEF s
  <1>. QED BY <1>9, <1>10

LEMMA OverwriteDoes ==
  ASSUME IInv, NEW k \in Key, NEW v \in Val, Overwrite(k, v)
  PROVE  /\ IInv'
         /\ \E s \in Slot : /\ In(s, data) /\ s.key = k
                            /\ \A t : In(t, data') <=> \/ In(t, data) /\ t.key # k
                                                       \/ t = Revalued(s, v)
  <1>. DEFINE c == Index(k, size_idx)
              j == First(FoundIn(data, size_idx, k))
              s == data[c][j]
  <1>1. size_idx \in DOMAIN Primes /\ WellPlaced(data, size_idx)
    BY DEF IInv
  <1>2. FoundIn(data, size_idx, k) # {}
    BY FindIs DEF Overwrite
  <1>3. data' = Changed(data, c, j, v)
    BY FindIs DEF Overwrite, First, Changed
  <1>4. /\ WellPlaced(data', size_idx)
        /\ \A t : In(t, data') <=> \/ In(t, data) /\ t.key # k
                                   \/ t = Revalued(s, v)
    <2>. HIDE DEF c, j
    <2>1. c = Index(k, size_idx) /\ j = First(FoundIn(data, size_idx, k))
      BY DEF c, j
    <2>. QED BY <1>1, <1>2, <1>3, <2>1, ChangeSlot
  <1>5. s \in Slot /\ In(s, data) /\ s.key = k
    <2>1. j \in FoundIn(data, size_idx, k)
      BY <1>1, <1>2, SearchFirst
    <2>2. s.key = k
      BY <2>1 DEF FoundIn
    <2>3. In(s, data)
      BY <1>1, <2>1, SearchFinds
    <2>. HIDE DEF s
    <2>. QED BY <1>1, <2>2, <2>3, SlotIn
  <1>. HIDE DEF s
  <1>6. KeysOf(data') = KeysOf(data)
    <2>1. Revalued(s, v) \in Slot /\ Revalued(s, v).key = k
      BY <1>5 DEF Slot, Revalued
    <2>2. ASSUME NEW x \in KeysOf(data) PROVE x \in KeysOf(data')
      BY <1>4, <1>5, <2>1 DEF KeysOf
    <2>3. ASSUME NEW x \in KeysOf(data') PROVE x \in KeysOf(data)
      BY <1>4, <1>5, <2>1 DEF KeysOf
    <2>. QED BY <2>2, <2>3
  <1>7. UNCHANGED <<size_idx, load_thresh, len>>
    BY DEF Overwrite
  <1>8. IInv'
    BY <1>4, <1>6, <1>7 DEF IInv
  <1>. QED BY <1>4, <1>5, <1>8

LEMMA DeleteDoes ==
  ASSUME IInv, NEW k \in Key, Delete(k)
  PROVE  /\ IInv' /\ k \in KeysOf(data)
         /\ \A t : In(t, data') <=> In(t, data) /\ t.key # k
  <1>1. size_idx \in DOMAIN Primes /\ WellPlaced(data, size_idx)
    BY DEF IInv
  <1>2. FoundIn(data, size_idx, k) # {}
    BY FindIs DEF Delete
  <1>3. data' = [data EXCEPT ![Index(k, size_idx)] = RemoveAt(@, First(FoundIn(data, size_idx, k)))]
    BY FindIs DEF Delete, First
  <1>4. WellPlaced(data', size_idx) /\ \A t : In(t, data') <=> In(t, data) /\ t.key # k
    BY <1>1, <1>2, <1>3, DropSlot
  <1>5. k \in KeysOf(data)
    BY <1>1, <1>2, NotFound
  <1>6. KeysOf(data') = KeysOf(data) \ {k}
    BY <1>4 DEF KeysOf
  <1>7. /\ IsFiniteSet(KeysOf(data)) /\ Cardinality(KeysOf(data)) \in Nat
        /\ Cardinality(KeysOf(data')) = Cardinality(KeysOf(data)) - 1
    BY <1>5, <1>6, KeysFinite, FS_RemoveElement
  <1>8. len' = len - 1 /\ UNCHANGED <<size_idx, load_thresh>>
    BY DEF Delete
  <1>9. Thresh(size_idx) \in Nat
    BY <1>1, Sizes
  <1>10. IInv'
    BY <1>4, <1>7, <1>8, <1>9 DEF IInv
  <1>. QED BY <1>4, <1>5, <1>10

LEMMA RemakeDoes ==
  ASSUME data' = Empty(1), size_idx' = 1, load_thresh' = Thresh(1), len' = 0
  PROVE  IInv' /\ \A t : ~In(t, data')
  <1>1. 1 \in DOMAIN Primes
    BY SizesAssumption
  <1>2. WellPlaced(data', 1) /\ \A t : ~In(t, data')
    BY <1>1, EmptyTable
  <1>3. KeysOf(data') = {}
    BY <1>2 DEF KeysOf
  <1>4. Cardinality(KeysOf(data')) = 0
    BY <1>3, FS_EmptySet
  <1>5. Thresh(1) \in Nat /\ Thresh(1) >= 1
    BY <1>1, Sizes
  <1>. QED BY <1>1, <1>2, <1>4, <1>5 DEF IInv
-----------------------------------------------------------------------------
LEMMA InitIInv == Init => IInv
  <1>1. SUFFICES ASSUME Init PROVE IInv
    OBVIOUS
  <1>2. 1 \in DOMAIN Primes
    BY SizesAssumption
  <1>3. WellPlaced(Empty(1), 1) /\ \A t : ~In(t, Empty(1))
    BY <1>2, EmptyTable
  <1>4. KeysOf(Empty(1)) = {}
    BY <1>3 DEF KeysOf
  <1>5. Cardinality(KeysOf(Empty(1))) = 0
    BY <1>4, FS_EmptySet
  <1>6. Thresh(1) \in Nat /\ Thresh(1) >= 1
    BY <1>2, Sizes
  <1>. QED BY <1>1, <1>2, <1>3, <1>5, <1>6 DEF Init, IInv

LEMMA NextIInv == IInv /\ [Next]_vars => IInv'
  <1>. SUFFICES ASSUME IInv, [Next]_vars PROVE IInv'
    OBVIOUS
  <1>1. ASSUME NEW k \in Key, Delete(k) PROVE IInv'
    BY <1>1, DeleteDoes
  <1>2. ASSUME NEW k \in Key, NEW v \in Val, Overwrite(k, v) PROVE IInv'
    BY <1>2, OverwriteDoes
  <1>3. ASSUME NEW k \in Key, NEW v \in Val, NEW a \in Addr, Add(k, v, a) PROVE IInv'
    BY <1>3, AddDoes
  <1>4. ASSUME Remake PROVE IInv'
    BY <1>4, RemakeDoes DEF Remake
  <1>5. ASSUME UNCHANGED vars PROVE IInv'
    BY <1>5 DEF vars, IInv
  <1>. QED BY <1>1, <1>2, <1>3, <1>4, <1>5 DEF Next

(* A key is in the bucket its hash chooses and there only, len counts the  *)
(* keys, the threshold is the one of the size and not reached: so after    *)
(* every sequence of operations of hash_table.h, rehashes on the way.      *)
THEOREM TableInvariant == Spec => []IInv
  BY InitIInv, NextIInv, PTL DEF Spec

LEMMA IInvPlaced == IInv => Placed
  <1>. SUFFICES ASSUME IInv PROVE Placed
    OBVIOUS
  <1>1. size_idx \in DOMAIN Primes /\ WellPlaced(data, size_idx)
    BY DEF IInv
  <1>2. TypeOK
    <2>1. DOMAIN data = 0..Primes[size_idx]-1 /\ \A b \in DOMAIN data : data[b] \in Seq(Slot)
      BY <1>1 DEF WellPlaced, Table
    <2>2. load_thresh \in Nat
      BY <1>1, Sizes DEF IInv
    <2>3. len \in Nat
      BY KeysFinite DEF IInv
    <2>. QED BY <1>1, <2>1, <2>2, <2>3 DEF TypeOK
  <1>3. \A b \in DOMAIN data : \A i \in DOMAIN data[b] : Index(data[b][i].key, size_idx) = b
    BY <1>1 DEF WellPlaced
  <1>4. \A i, j \in DOMAIN Traverse(data) :
          Traverse(data)[i].key = Traverse(data)[j].key => i = j
    BY <1>1, TraverseMeets
  <1>5. len = Len(Traverse(data))
    BY <1>1, TraverseLength DEF IInv
  <1>. QED BY <1>2, <1>3, <1>4, <1>5 DEF Placed

(* A lookup searches the one chain its key can be in, and a traversal      *)
(* meets each entry once, len in all, whatever the keys and their hashes.  *)
THEOREM SlotsPlaced == Spec => []Placed
  BY TableInvariant, IInvPlaced, PTL

(* The test for growth is an equality: len never steps over it.            *)
THEOREM NeverFull == Spec => []BelowThreshold
  <1>1. IInv => BelowThreshold
    BY DEF IInv, BelowThreshold
  <1>. QED BY <1>1, TableInvariant, PTL
-----------------------------------------------------------------------------
(* What a lookup returns in a well-placed table.                           *)
Lookup(d, i, k) == IF FoundIn(d, i, k) = {} THEN NULL
                     ELSE d[Index(k, i)][First(FoundIn(d, i, k))]
Entry(s)        == [val |-> s.val, addr |-> s.addr]
EntryOf(d, i, k) == IF Lookup(d, i, k) = NULL THEN NULL ELSE Entry(Lookup(d, i, k))

LEMMA EntryIs ==
  ASSUME NEW i \in DOMAIN Primes, NEW d, WellPlaced(d, i), NEW k \in Key
  PROVE  /\ \A s : In(s, d) /\ s.key = k => EntryOf(d, i, k) = Entry(s) /\ Entry(s) # NULL
         /\ (\A s : In(s, d) => s.key # k) => EntryOf(d, i, k) = NULL
  <1>1. ASSUME NEW s, In(s, d), s.key = k
        PROVE  EntryOf(d, i, k) = Entry(s) /\ Entry(s) # NULL
    <2>1. s \in Slot
      BY <1>1, SlotIn
    <2>2. PICK j \in FoundIn(d, i, k) : d[Index(k, i)][j] = s
      BY <1>1, <2>1, SearchFinds
    <2>3. First(FoundIn(d, i, k)) = j
      BY <2>2, SearchFirst
    <2>4. Lookup(d, i, k) = s
      BY <2>2, <2>3 DEF Lookup
    <2>5. s # NULL /\ Entry(s) # NULL
      BY <2>1, NullAssumption DEF Slot, Entry
    <2>. QED BY <2>4, <2>5 DEF EntryOf
  <1>2. ASSUME \A s : In(s, d) => s.key # k PROVE EntryOf(d, i, k) = NULL
    <2>1. FoundIn(d, i, k) = {}
      BY <1>2, SearchFinds DEF FoundIn
    <2>. QED BY <2>1 DEF EntryOf, Lookup
  <1>. QED BY <1>1, <1>2

LEMMA EntriesAre == /\ entries = [k \in Key |-> EntryOf(data, size_idx, k)]
                    /\ entries' = [k \in Key |-> EntryOf(data', size_idx', k)]
  <1>1. \A k : Get(k) = Lookup(data, size_idx, k)
    BY DEF Get, Find, Lookup, FoundIn, First
  <1>2. \A k : Get(k)' = Lookup(data', size_idx', k)
    BY DEF Get, Find, Lookup, FoundIn, First, Index
  <1>. QED BY <1>1, <1>2 DEF entries, EntryOf, Entry

LEMMA RefinesInit == Init => AsDictionary!Init
  <1>. SUFFICES ASSUME Init PROVE AsDictionary!Init
    OBVIOUS
  <1>1. 1 \in DOMAIN Primes
    BY SizesAssumption
  <1>2. WellPlaced(data, size_idx) /\ (\A t : ~In(t, data)) /\ size_idx \in DOMAIN Primes
    BY <1>1, EmptyTable DEF Init
  <1>3. \A k \in Key : EntryOf(data, size_idx, k) = NULL
    BY <1>2, EntryIs
  <1>. QED BY <1>3, EntriesAre DEF AsDictionary!Init

(* A key whose slot a step leaves alone keeps its entry, at its address.   *)
LEMMA Kept ==
  ASSUME IInv, IInv', NEW k \in Key,
         \A s : s.key = k => (In(s, data) <=> In(s, data'))
  PROVE  entries'[k] = entries[k]
  <1>1. /\ size_idx \in DOMAIN Primes /\ WellPlaced(data, size_idx)
        /\ size_idx' \in DOMAIN Primes /\ WellPlaced(data', size_idx')
    BY DEF IInv
  <1>2. CASE \E s : In(s, data) /\ s.key = k
    BY <1>1, <1>2, EntryIs, EntriesAre
  <1>3. CASE \A s : In(s, data) => s.key # k
    BY <1>1, <1>3, EntryIs, EntriesAre
  <1>. QED BY <1>2, <1>3

LEMMA DeleteImplements ==
  ASSUME IInv, NEW k \in Key, Delete(k)
  PROVE  AsDictionary!Remove(k)
  <1>1. IInv' /\ \A t : In(t, data') <=> In(t, data) /\ t.key # k
    BY DeleteDoes
  <1>2. entries'[k] = NULL
    <2>1. EntryOf(data', size_idx', k) = NULL
      BY <1>1, EntryIs DEF IInv
    <2>. QED BY <2>1, EntriesAre
  <1>3. \A j \in Key \ {k} : entries'[j] = entries[j]
    BY <1>1, Kept
  <1>4. entries' = [entries EXCEPT ![k] = NULL]
    <2>1. /\ entries = [j \in Key |-> entries[j]]
          /\ entries' = [j \in Key |-> entries'[j]]
      BY EntriesAre
    <2>. QED BY <1>2, <1>3, <2>1
  <1>. QED BY <1>4 DEF AsDictionary!Remove

LEMMA OverwriteImplements ==
  ASSUME IInv, NEW k \in Key, NEW v \in Val, Overwrite(k, v)
  PROVE  AsDictionary!Put(k, v)
  <1>1. IInv'
    BY OverwriteDoes
  <1>2. PICK s \in Slot : /\ In(s, data) /\ s.key = k
                          /\ \A t : In(t, data') <=> \/ In(t, data) /\ t.key # k
                                                     \/ t = Revalued(s, v)
    BY OverwriteDoes
  <1>3. Revalued(s, v).key = k /\ Entry(Revalued(s, v)) = [val |-> v, addr |-> s.addr]
    BY <1>2 DEF Slot, Revalued, Entry
  <1>4. entries'[k] = [val |-> v, addr |-> s.addr]
    <2>1. EntryOf(data', size_idx', k) = Entry(Revalued(s, v))
      BY <1>1, <1>2, <1>3, EntryIs DEF IInv
    <2>. QED BY <1>3, <2>1, EntriesAre
  <1>5. \A j \in Key \ {k} : entries'[j] = entries[j]
    BY <1>1, <1>2, <1>3, Kept
  <1>6. entries' = [entries EXCEPT ![k] = [val |-> v, addr |-> s.addr]]
    <2>1. /\ entries = [j \in Key |-> entries[j]]
          /\ entries' = [j \in Key |-> entries'[j]]
      BY EntriesAre
    <2>. QED BY <1>4, <1>5, <2>1
  <1>7. entries[k] # NULL /\ entries[k].addr = s.addr
    <2>1. EntryOf(data, size_idx, k) = Entry(s) /\ Entry(s) # NULL
      BY <1>2, EntryIs DEF IInv
    <2>. QED BY <2>1, EntriesAre DEF Entry
  <1>8. s.addr \in Addr
    BY DEF Slot
  <1>. QED BY <1>6, <1>7, <1>8 DEF AsDictionary!Put, AsDictionary!Present

LEMMA AddImplements ==
  ASSUME IInv, NEW k \in Key, NEW v \in Val, NEW a \in Addr, Add(k, v, a)
  PROVE  AsDictionary!Put(k, v)
  <1>. DEFINE s == [key |-> k, val |-> v, addr |-> a]
  <1>1. /\ k \notin KeysOf(data) /\ IInv'
        /\ \A t : In(t, data') <=> In(t, data) \/ t = s
    BY AddDoes
  <1>2. s.key = k /\ Entry(s) = [val |-> v, addr |-> a]
    BY DEF Entry
  <1>. HIDE DEF s
  <1>3. size_idx \in DOMAIN Primes /\ WellPlaced(data, size_idx)
    BY DEF IInv
  <1>4. \A t : In(t, data) => t \in Slot /\ t.key # k
    BY <1>1, <1>3, SlotIn DEF KeysOf
  <1>5. entries'[k] = [val |-> v, addr |-> a]
    <2>1. EntryOf(data', size_idx', k) = Entry(s)
      BY <1>1, <1>2, EntryIs DEF IInv
    <2>. QED BY <1>2, <2>1, EntriesAre
  <1>6. \A j \in Key \ {k} : entries'[j] = entries[j]
    BY <1>1, <1>2, Kept
  <1>7. entries' = [entries EXCEPT ![k] = [val |-> v, addr |-> a]]
    <2>1. /\ entries = [j \in Key |-> entries[j]]
          /\ entries' = [j \in Key |-> entries'[j]]
      BY EntriesAre
    <2>. QED BY <1>5, <1>6, <2>1
  <1>8. entries[k] = NULL
    BY <1>3, <1>4, EntryIs, EntriesAre
  <1>9. ASSUME NEW j \in Key, entries[j] # NULL PROVE entries[j].addr # a
    <2>1. PICK t : In(t, data) /\ t.key = j
      BY <1>3, <1>9, EntryIs, EntriesAre
    <2>2. entries[j].addr = t.addr
      <3>1. EntryOf(data, size_idx, j) = Entry(t)
        BY <1>3, <2>1, EntryIs
      <3>. QED BY <3>1, EntriesAre DEF Entry
    <2>3. t.addr # a
      BY <2>1 DEF Add, Free, In
    <2>. QED BY <2>2, <2>3
  <1>. QED BY <1>7, <1>8, <1>9 DEF AsDictionary!Put, AsDictionary!Present

LEMMA RemakeImplements ==
  ASSUME IInv, Remake
  PROVE  AsDictionary!Clear
  <1>1. IInv' /\ \A t : ~In(t, data')
    BY RemakeDoes DEF Remake
  <1>2. \A k \in Key : EntryOf(data', size_idx', k) = NULL
    BY <1>1, EntryIs DEF IInv
  <1>. QED BY <1>2, EntriesAre DEF AsDictionary!Clear

LEMMA RefinesNext == IInv /\ [Next]_vars => [AsDictionary!Next]_entries
  <1>. SUFFICES ASSUME IInv, [Next]_vars PROVE AsDictionary!Next \/ UNCHANGED entries
    OBVIOUS
  <1>1. ASSUME NEW k \in Key, Delete(k) PROVE AsDictionary!Next
    BY <1>1, DeleteImplements DEF AsDictionary!Next
  <1>2. ASSUME NEW k \in Key, NEW v \in Val, Overwrite(k, v) PROVE AsDictionary!Next
    BY <1>2, OverwriteImplements DEF AsDictionary!Next
  <1>3. ASSUME NEW k \in Key, NEW v \in Val, NEW a \in Addr, Add(k, v, a) PROVE AsDictionary!Next
    BY <1>3, AddImplements DEF AsDictionary!Next
  <1>4. ASSUME Remake PROVE AsDictionary!Next
    BY <1>4, RemakeImplements DEF AsDictionary!Next
  <1>5. ASSUME UNCHANGED vars PROVE UNCHANGED entries
    BY <1>5, EntriesAre DEF vars
  <1>. QED BY <1>1, <1>2, <1>3, <1>4, <1>5 DEF Next

(* The table is a dictionary whose slots stay where they are: what         *)
(* hash_table_get_val points to survives insertions, rehashes and the      *)
(* deletion of other keys.                                                 *)
THEOREM TableIsDictionary == Spec => Implements
  BY TableInvariant, RefinesInit, RefinesNext, PTL DEF Spec, Implements, AsDictionary!Spec


-----------------------------------------------------------------------------
(* The capacity next_power_of_2 yields is enough.                          *)
Doubling(f, x) == f = [k \in 0..x |-> IF k = 0 THEN 1 ELSE 2 * f[k-1]]

LEMMA DoublingExists == ASSUME NEW x \in Nat PROVE \E f : Doubling(f, x)
  <1>. DEFINE All == {n \in Nat : \E f : Doubling(f, n)}
  <1>1. 0 \in All
    <2>1. Doubling([k \in 0..0 |-> 1], 0)
      BY DEF Doubling
    <2>. QED BY <2>1
  <1>2. ASSUME NEW n \in Nat, n \in All PROVE n + 1 \in All
    <2>1. PICK f : Doubling(f, n)
      BY <1>2
    <2>. DEFINE g == [k \in 0..n+1 |-> IF k = n + 1 THEN 2 * f[n] ELSE f[k]]
    <2>2. ASSUME NEW k \in 0..n+1 PROVE g[k] = IF k = 0 THEN 1 ELSE 2 * g[k-1]
      <3>1. CASE k = n + 1
        <4>1. g[n] = f[n] /\ g[n + 1] = 2 * f[n] /\ k - 1 = n /\ k # 0
          BY <3>1
        <4>. QED BY <3>1, <4>1
      <3>2. CASE k = 0
        <4>1. g[0] = f[0] /\ f[0] = 1
          BY <2>1 DEF Doubling
        <4>. QED BY <3>2, <4>1
      <3>3. CASE k # 0 /\ k # n + 1
        <4>1. k \in 0..n /\ k - 1 \in 0..n /\ k - 1 \in 0..n+1 /\ k - 1 # n + 1
          BY <3>3
        <4>2. f[k] = 2 * f[k-1]
          BY <2>1, <3>3, <4>1 DEF Doubling
        <4>3. g[k] = f[k] /\ g[k-1] = f[k-1]
          BY <3>3, <4>1
        <4>. HIDE DEF g
        <4>. QED BY <3>3, <4>2, <4>3
      <3>. QED BY <3>1, <3>2, <3>3
    <2>3. g = [k \in 0..n+1 |-> g[k]]
      OBVIOUS
    <2>. HIDE DEF g
    <2>4. Doubling(g, n + 1)
      BY <2>2, <2>3 DEF Doubling
    <2>. QED BY <2>4
  <1>. HIDE DEF All
  <1>3. \A n \in Nat : n \in All
    BY <1>1, <1>2, Induction
  <1>. QED BY <1>3 DEF All

LEMMA DoublingGrows ==
  ASSUME NEW x \in Nat, NEW f, Doubling(f, x)
  PROVE  \A k \in 0..x : f[k] \in Nat /\ f[k] > k
  <1>. DEFINE All == {n \in Nat : n <= x => f[n] \in Nat /\ f[n] > n}
  <1>0. \A k \in 0..x : f[k] = IF k = 0 THEN 1 ELSE 2 * f[k-1]
    BY DEF Doubling
  <1>1. 0 \in All
    BY <1>0
  <1>2. ASSUME NEW n \in Nat, n \in All PROVE n + 1 \in All
    <2>. SUFFICES ASSUME n + 1 <= x PROVE f[n + 1] \in Nat /\ f[n + 1] > n + 1
      OBVIOUS
    <2>1. f[n] \in Nat /\ f[n] > n
      BY <1>2
    <2>2. n + 1 \in 0..x /\ n + 1 # 0 /\ (n + 1) - 1 = n
      OBVIOUS
    <2>3. f[n + 1] = 2 * f[n]
      BY <1>0, <2>2
    <2>. QED BY <2>1, <2>3
  <1>. HIDE DEF All
  <1>3. \A n \in Nat : n \in All
    BY <1>1, <1>2, Induction
  <1>. QED BY <1>3 DEF All

LEMMA PowerEnough ==
  ASSUME NEW x \in Nat
  PROVE  NextPowerOf2(x) \in Nat \ {0} /\ NextPowerOf2(x) >= x
  <1>1. CASE x = 0
    BY <1>1 DEF NextPowerOf2
  <1>2. CASE x # 0
    <2>. DEFINE c == CHOOSE f : Doubling(f, x)
                enough == {k \in 0..x : c[k] >= x}
                m == CHOOSE k \in enough : \A j \in enough : k <= j
    <2>1. Doubling(c, x)
      BY DoublingExists, Zenon
    <2>2. NextPowerOf2(x) = c[m]
      BY <1>2, Zenon DEF NextPowerOf2, Doubling
    <2>. HIDE DEF c
    <2>3. enough \subseteq Nat /\ x \in enough
      BY <2>1, DoublingGrows
    <2>4. \E k \in enough : \A j \in enough : k <= j
      <3>. HIDE DEF enough
      <3>. QED BY <2>3, Least
    <2>5. m \in enough
      <3>. HIDE DEF enough
      <3>. QED BY <2>4
    <2>6. c[m] \in Nat /\ c[m] >= x
      BY <2>1, <2>5, DoublingGrows
    <2>. QED BY <1>2, <2>2, <2>6
  <1>. QED BY <1>1, <1>2
-----------------------------------------------------------------------------
(* Fits, with the block a sequence: what Len of it says is its domain.     *)
ArrayInv ==
  /\ block \in Seq(Elem \cup {Junk})
  /\ used \in Nat /\ used <= Len(block)
  /\ capacity \in Nat \ {0}
  /\ block # NoBlock => Len(block) = capacity
  /\ held = IF block = NoBlock THEN 0 ELSE 1

(* What a growth yields: a block g.b of g.c cells with room for one more,  *)
(* the elements in it, and no other block held.                            *)
Room(g) ==
  /\ g.b \in Seq(Elem \cup {Junk}) /\ Len(g.b) = g.c
  /\ g.c \in Nat \ {0} /\ g.c > used
  /\ \A i \in 1..used : g.b[i] = block[i]
  /\ g.h = 1

LEMMA CellsAre ==
  ASSUME NEW n \in Nat
  PROVE  Cells(n) \in Seq(Elem \cup {Junk}) /\ Len(Cells(n)) = n
  BY DEF Cells

LEMMA GrownRoom ==
  ASSUME ArrayInv, NEW c \in Nat, c >= capacity
  PROVE  Room(Grown(c)) /\ Grown(c).c >= c
  <1>0. /\ c \in Nat \ {0} /\ capacity \in Nat /\ used \in Nat
        /\ block \in Seq(Elem \cup {Junk}) /\ Len(block) \in Nat /\ used <= Len(block)
    BY DEF ArrayInv
  <1>1. CASE block = NoBlock
    <2>1. Grown(c) = [b |-> Cells(c), c |-> c, h |-> held + 1]
      BY <1>1 DEF Grown
    <2>2. used = 0 /\ held = 0
      BY <1>1 DEF ArrayInv, NoBlock
    <2>. QED BY <1>0, <2>1, <2>2, CellsAre DEF Room
  <1>2. CASE block # NoBlock
    <2>. DEFINE d == Doubled(c)
    <2>1. d \in Nat \ {0} /\ d >= c /\ d > used
      <3>1. CASE used >= c
        <4>1. d = NextPowerOf2(used + 1)
          BY <3>1 DEF Doubled
        <4>2. d \in Nat \ {0} /\ d >= used + 1
          BY <1>0, <4>1, PowerEnough
        <4>. HIDE DEF d
        <4>. QED BY <1>0, <3>1, <4>2
      <3>2. CASE ~(used >= c)
        BY <1>0, <3>2 DEF Doubled
      <3>. QED BY <3>1, <3>2
    <2>2. Grown(c) = [b |-> IF d > capacity THEN Moved(d) ELSE block, c |-> d, h |-> held]
      BY <1>2 DEF Grown
    <2>. HIDE DEF d
    <2>3. held = 1 /\ Len(block) = capacity
      BY <1>2 DEF ArrayInv
    <2>4. CASE d > capacity
      <3>1. /\ Moved(d) \in Seq(Elem \cup {Junk}) /\ Len(Moved(d)) = d
            /\ \A i \in 1..used : Moved(d)[i] = block[i]
        BY <1>0, <2>1 DEF Moved
      <3>. QED BY <2>1, <2>2, <2>3, <2>4, <3>1 DEF Room
    <2>5. CASE ~(d > capacity)
      <3>1. d = capacity
        BY <1>0, <2>1, <2>5
      <3>. QED BY <1>0, <2>1, <2>2, <2>3, <3>1 DEF Room
    <2>. QED BY <2>4, <2>5
  <1>. QED BY <1>1, <1>2

LEMMA IfNeeded == ArrayInv => Room(GrowIfNeeded)
  BY GrownRoom DEF GrowIfNeeded, ArrayInv

LEMMA IfNeededTo ==
  ASSUME ArrayInv, NEW n \in Nat
  PROVE  Room(GrowIfNeededTo(n)) /\ GrowIfNeededTo(n).c >= n
  <1>. DEFINE c == IF n > capacity THEN NextPowerOf2(n) ELSE capacity
  <1>1. c \in Nat /\ c >= capacity /\ c >= n
    <2>1. capacity \in Nat /\ NextPowerOf2(n) \in Nat /\ NextPowerOf2(n) >= n
      BY PowerEnough DEF ArrayInv
    <2>. QED BY <2>1
  <1>2. GrowIfNeededTo(n) = Grown(c)
    BY DEF GrowIfNeededTo
  <1>. HIDE DEF c
  <1>3. Room(Grown(c)) /\ Grown(c).c >= c /\ Grown(c).c \in Nat
    BY <1>1, GrownRoom DEF Room
  <1>. QED BY <1>1, <1>2, <1>3
-----------------------------------------------------------------------------
(* Sequences, element by element.                                          *)
LEMMA PrefixIs ==
  ASSUME NEW T, NEW b \in Seq(T), NEW n \in 0..Len(b)
  PROVE  /\ SubSeq(b, 1, n) \in Seq(T) /\ Len(SubSeq(b, 1, n)) = n
         /\ \A j \in 1..n : SubSeq(b, 1, n)[j] = b[j]
  OBVIOUS

LEMMA SameSeq ==
  ASSUME NEW T, NEW q \in Seq(T), NEW r \in Seq(T), Len(q) = Len(r),
         \A j \in 1..Len(q) : q[j] = r[j]
  PROVE  q = r
  OBVIOUS

LEMMA SeqIs ==
  ASSUME NEW T, NEW n \in Nat, NEW f, f = [j \in 1..n |-> f[j]], \A j \in 1..n : f[j] \in T
  PROVE  f \in Seq(T) /\ Len(f) = n
  OBVIOUS

LEMMA SpliceIs ==
  ASSUME NEW T, NEW l \in Seq(T), NEW es \in Seq(T), NEW i \in 1..Len(l)+1,
         NEW r \in Seq(T), Len(r) = Len(l) + Len(es),
         \A j \in 1..Len(r) : r[j] = IF j < i THEN l[j]
                                     ELSE IF j < i + Len(es) THEN es[j - i + 1]
                                     ELSE l[j - Len(es)]
  PROVE  r = SubSeq(l, 1, i - 1) \o es \o SubSeq(l, i, Len(l))
  <1>. DEFINE p == SubSeq(l, 1, i - 1)
              q == SubSeq(l, i, Len(l))
              s == p \o es
  <1>0. Len(l) \in Nat /\ Len(es) \in Nat /\ i - 1 \in 0..Len(l)
    OBVIOUS
  <1>1. p \in Seq(T) /\ Len(p) = i - 1 /\ \A j \in 1..i-1 : p[j] = l[j]
    BY <1>0, PrefixIs
  <1>2. /\ q \in Seq(T) /\ Len(q) = Len(l) - i + 1
        /\ \A j \in 1..Len(l)-i+1 : q[j] = l[i + j - 1]
    BY <1>0
  <1>. HIDE DEF p, q
  <1>3. /\ s \in Seq(T) /\ Len(s) = i - 1 + Len(es)
        /\ \A j \in 1..i-1 : s[j] = l[j]
        /\ \A j \in 1..Len(es) : s[i - 1 + j] = es[j]
    <2>1. p \in Seq(T) /\ es \in Seq(T)
      BY <1>1
    <2>2. s \in Seq(T) /\ Len(s) = Len(p) + Len(es)
      BY <2>1
    <2>3. \A j \in 1..Len(p) : s[j] = p[j]
      BY <2>1
    <2>4. \A j \in 1..Len(es) : s[Len(p) + j] = es[j]
      BY <2>1
    <2>. HIDE DEF s
    <2>. QED BY <1>1, <2>2, <2>3, <2>4
  <1>. HIDE DEF s
  <1>4. /\ s \o q \in Seq(T) /\ Len(s \o q) = Len(s) + Len(q)
        /\ \A j \in 1..Len(s) : (s \o q)[j] = s[j]
        /\ \A j \in 1..Len(q) : (s \o q)[Len(s) + j] = q[j]
    <2>1. s \in Seq(T) /\ q \in Seq(T)
      BY <1>2, <1>3
    <2>. QED BY <2>1
  <1>. DEFINE u == s \o q
  <1>5. u \in Seq(T) /\ Len(u) = Len(r)
    BY <1>0, <1>2, <1>3, <1>4
  <1>6. ASSUME NEW j \in 1..Len(r) PROVE r[j] = u[j]
    <2>0. j \in Nat /\ i \in Nat
      OBVIOUS
    <2>1. CASE j < i
      <3>1. j \in 1..i-1 /\ j \in 1..Len(s)
        BY <1>0, <1>3, <2>0, <2>1
      <3>2. u[j] = s[j] /\ s[j] = l[j]
        BY <1>3, <1>4, <3>1
      <3>. QED BY <2>1, <3>2
    <2>2. CASE j >= i /\ j < i + Len(es)
      <3>1. j - i + 1 \in 1..Len(es) /\ j = i - 1 + (j - i + 1) /\ j \in 1..Len(s)
        BY <1>0, <1>3, <2>2
      <3>2. u[j] = s[j] /\ s[j] = es[j - i + 1]
        BY <1>3, <1>4, <3>1
      <3>. QED BY <2>2, <3>2
    <2>3. CASE j >= i + Len(es)
      <3>. DEFINE n == j - (i - 1 + Len(es))
      <3>1. n \in 1..Len(q) /\ j = Len(s) + n /\ i + n - 1 = j - Len(es)
        BY <1>0, <1>2, <1>3, <2>3
      <3>2. u[j] = q[n] /\ q[n] = l[i + n - 1]
        BY <1>2, <1>4, <3>1
      <3>3. ~(j < i) /\ ~(j < i + Len(es))
        BY <1>0, <2>0, <2>3
      <3>. QED BY <3>1, <3>2, <3>3
    <2>. HIDE DEF u
    <2>. QED BY <1>0, <2>0, <2>1, <2>2, <2>3
  <1>. HIDE DEF u
  <1>7. r = u
    BY <1>5, <1>6, SameSeq
  <1>. QED BY <1>7 DEF u, s, p, q

LEMMA DropIs ==
  ASSUME NEW T, NEW l \in Seq(T), NEW i \in 1..Len(l),
         NEW r \in Seq(T), Len(r) = Len(l) - 1,
         \A j \in 1..Len(r) : r[j] = IF j < i THEN l[j] ELSE l[j + 1]
  PROVE  r = SubSeq(l, 1, i - 1) \o SubSeq(l, i + 1, Len(l))
  <1>. DEFINE p == SubSeq(l, 1, i - 1)
              q == SubSeq(l, i + 1, Len(l))
              u == p \o q
  <1>0. Len(l) \in Nat /\ i - 1 \in 0..Len(l)
    OBVIOUS
  <1>1. p \in Seq(T) /\ Len(p) = i - 1 /\ \A j \in 1..i-1 : p[j] = l[j]
    BY <1>0, PrefixIs
  <1>2. /\ q \in Seq(T) /\ Len(q) = Len(l) - i
        /\ \A j \in 1..Len(l)-i : q[j] = l[i + j]
    BY <1>0
  <1>. HIDE DEF p, q
  <1>3. /\ u \in Seq(T) /\ Len(u) = Len(p) + Len(q)
        /\ \A j \in 1..Len(p) : u[j] = p[j]
        /\ \A j \in 1..Len(q) : u[Len(p) + j] = q[j]
    <2>1. p \in Seq(T) /\ q \in Seq(T)
      BY <1>1, <1>2
    <2>. QED BY <2>1
  <1>. HIDE DEF u
  <1>4. u \in Seq(T) /\ Len(u) = Len(r)
    BY <1>0, <1>1, <1>2, <1>3
  <1>5. ASSUME NEW j \in 1..Len(r) PROVE r[j] = u[j]
    <2>0. j \in Nat /\ i \in Nat
      OBVIOUS
    <2>1. CASE j < i
      <3>1. j \in 1..i-1 /\ j \in 1..Len(p)
        BY <1>0, <1>1, <2>0, <2>1
      <3>2. u[j] = p[j] /\ p[j] = l[j]
        BY <1>1, <1>3, <3>1
      <3>. QED BY <2>1, <3>2
    <2>2. CASE j >= i
      <3>1. j - (i - 1) \in 1..Len(q) /\ j = Len(p) + (j - (i - 1)) /\ i + (j - (i - 1)) = j + 1
        BY <1>0, <1>1, <1>2, <2>2
      <3>2. u[j] = q[j - (i - 1)] /\ q[j - (i - 1)] = l[j + 1]
        BY <1>2, <1>3, <3>1
      <3>. QED BY <2>2, <3>2
    <2>. QED BY <1>0, <2>1, <2>2
  <1>6. r = u
    BY <1>4, <1>5, SameSeq
  <1>. QED BY <1>6 DEF u, p, q
-----------------------------------------------------------------------------
(* What the operations of the array do to its elements.                    *)
Cell == Elem \cup {Junk}

HoldsFrom(r, b, i, es) ==
  /\ r \in Seq(Cell) /\ Len(r) = Len(b)
  /\ \A j \in 1..Len(b) : r[j] = IF j >= i /\ j < i + Len(es) THEN es[j - i + 1] ELSE b[j]

LEMMA StoredIs ==
  ASSUME NEW b \in Seq(Cell), NEW i \in Nat \ {0}, NEW es \in Seq(Cell)
  PROVE  HoldsFrom(Stored(b, i, es), b, i, es)
  <1>0. Len(b) \in Nat /\ DOMAIN b = 1..Len(b) /\ Len(es) \in Nat
    OBVIOUS
  <1>1. \A j \in 1..Len(b) : Stored(b, i, es)[j] =
              IF j >= i /\ j < i + Len(es) THEN es[j - i + 1] ELSE b[j]
    BY <1>0 DEF Stored
  <1>2. \A j \in 1..Len(b) : Stored(b, i, es)[j] \in Cell
    <2>. SUFFICES ASSUME NEW j \in 1..Len(b) PROVE Stored(b, i, es)[j] \in Cell
      OBVIOUS
    <2>1. CASE j >= i /\ j < i + Len(es)
      <3>1. j - i + 1 \in 1..Len(es)
        BY <1>0, <2>1
      <3>2. es[j - i + 1] \in Cell
        BY <3>1
      <3>. QED BY <1>1, <2>1, <3>2
    <2>2. CASE ~(j >= i /\ j < i + Len(es))
      BY <1>1, <2>2
    <2>. QED BY <2>1, <2>2
  <1>3. Stored(b, i, es) = [j \in 1..Len(b) |-> Stored(b, i, es)[j]]
    BY <1>0 DEF Stored
  <1>4. Stored(b, i, es) \in Seq(Cell) /\ Len(Stored(b, i, es)) = Len(b)
    BY <1>0, <1>2, <1>3
  <1>. QED BY <1>1, <1>4 DEF HoldsFrom

list == SubSeq(block, 1, used)

(* One or more elements come to stand in a list that keeps the others.     *)
Spliced(i, es) ==
  /\ used' = used + Len(es)
  /\ \A j \in 1..used' : block'[j] = IF j < i THEN block[j]
                                     ELSE IF j < i + Len(es) THEN es[j - i + 1]
                                     ELSE block[j - Len(es)]

LEMMA SpliceStep ==
  ASSUME ArrayInv, ArrayInv', NEW es \in Seq(Cell), NEW i \in 1..used+1, Spliced(i, es)
  PROVE  AsList!Splice(i, es)
  <1>1. /\ list \in Seq(Cell) /\ Len(list) = used /\ used \in Nat
        /\ \A j \in 1..used : list[j] = block[j]
    BY PrefixIs DEF ArrayInv, Cell, list
  <1>2. /\ list' \in Seq(Cell) /\ Len(list') = used' /\ used' \in Nat
        /\ \A j \in 1..used' : list'[j] = block'[j]
    <2>1. block' \in Seq(Cell) /\ used' \in 0..Len(block')
      BY DEF ArrayInv, Cell
    <2>2. list' = SubSeq(block', 1, used')
      BY DEF list
    <2>. HIDE DEF list
    <2>3. used' \in Nat
      BY <2>1
    <2>. QED BY <2>1, <2>2, <2>3, PrefixIs
  <1>. HIDE DEF list
  <1>3. used' = used + Len(es) /\ Len(es) \in Nat /\ i \in 1..Len(list)+1
    BY <1>1 DEF Spliced
  <1>4. ASSUME NEW j \in 1..Len(list')
        PROVE  list'[j] = IF j < i THEN list[j]
                          ELSE IF j < i + Len(es) THEN es[j - i + 1]
                          ELSE list[j - Len(es)]
    <2>0. j \in 1..used' /\ j \in Nat /\ i \in Nat
      BY <1>2
    <2>1. list'[j] = IF j < i THEN block[j]
                     ELSE IF j < i + Len(es) THEN es[j - i + 1]
                     ELSE block[j - Len(es)]
      BY <1>2, <2>0 DEF Spliced
    <2>2. j < i => j \in 1..used
      BY <1>1, <1>3, <2>0
    <2>3. ~(j < i) /\ ~(j < i + Len(es)) => j - Len(es) \in 1..used
      BY <1>1, <1>3, <2>0
    <2>. QED BY <1>1, <2>1, <2>2, <2>3
  <1>5. list' = SubSeq(list, 1, i - 1) \o es \o SubSeq(list, i, Len(list))
    <2>1. Len(list') = Len(list) + Len(es)
      BY <1>1, <1>2, <1>3
    <2>. QED BY <1>1, <1>2, <1>3, <1>4, <2>1, SpliceIs
  <1>. QED BY <1>5 DEF AsList!Splice, list

LEMMA StoreStep ==
  ASSUME ArrayInv, NEW g, Room(g), NEW es \in Seq(Cell), Len(es) > 0,
         g.c >= used + Len(es), Becomes(g, Stored(g.b, used + 1, es), used + Len(es))
  PROVE  ArrayInv' /\ Spliced(used + 1, es)
  <1>1. /\ used \in Nat /\ Len(es) \in Nat /\ g.b \in Seq(Cell) /\ Len(g.b) = g.c
        /\ g.c \in Nat \ {0} /\ \A j \in 1..used : g.b[j] = block[j]
        /\ used + 1 \in Nat \ {0}
    BY DEF ArrayInv, Room, Cell
  <1>2. /\ block' = Stored(g.b, used + 1, es) /\ used' = used + Len(es)
        /\ capacity' = g.c /\ held' = 1
    BY DEF Becomes, Room
  <1>3. /\ block' \in Seq(Cell) /\ Len(block') = g.c
        /\ \A j \in 1..g.c : block'[j] =
             IF j >= used + 1 /\ j < used + 1 + Len(es) THEN es[j - (used + 1) + 1] ELSE g.b[j]
    <2>1. HoldsFrom(block', g.b, used + 1, es)
      BY <1>1, <1>2, StoredIs
    <2>. QED BY <1>1, <2>1 DEF HoldsFrom
  <1>4. block' # NoBlock
    BY <1>1, <1>3 DEF NoBlock
  <1>5. ArrayInv'
    BY <1>1, <1>2, <1>3, <1>4 DEF ArrayInv, Cell
  <1>6. Spliced(used + 1, es)
    <2>. SUFFICES ASSUME NEW j \in 1..used'
                  PROVE  block'[j] = IF j < used + 1 THEN block[j]
                                     ELSE IF j < used + 1 + Len(es) THEN es[j - (used + 1) + 1]
                                     ELSE block[j - Len(es)]
      BY <1>2 DEF Spliced
    <2>1. j \in 1..g.c /\ j \in Nat /\ j < used + 1 + Len(es)
      BY <1>1, <1>2
    <2>2. CASE j < used + 1
      BY <1>1, <1>3, <2>1, <2>2
    <2>3. CASE ~(j < used + 1)
      BY <1>1, <1>3, <2>1, <2>3
    <2>. QED BY <2>2, <2>3
  <1>. QED BY <1>5, <1>6

LEMMA PushDoes ==
  ASSUME ArrayInv, NEW e \in Elem, array_push(e)
  PROVE  ArrayInv' /\ Spliced(used + 1, <<e>>)
  <1>1. Room(GrowIfNeeded)
    BY IfNeeded
  <1>2. Becomes(GrowIfNeeded, Stored(GrowIfNeeded.b, used + 1, <<e>>), used + 1)
    BY DEF array_push
  <1>3. <<e>> \in Seq(Cell) /\ Len(<<e>>) = 1
    BY DEF Cell
  <1>4. used \in Nat /\ GrowIfNeeded.c >= used + 1
    BY <1>1 DEF Room, ArrayInv
  <1>. DEFINE es == <<e>>
  <1>5. es \in Seq(Cell) /\ Len(es) > 0 /\ GrowIfNeeded.c >= used + Len(es)
        /\ Becomes(GrowIfNeeded, Stored(GrowIfNeeded.b, used + 1, es), used + Len(es))
    BY <1>2, <1>3, <1>4
  <1>. HIDE DEF es
  <1>6. ArrayInv' /\ Spliced(used + 1, es)
    BY <1>1, <1>5, StoreStep
  <1>. QED BY <1>6 DEF es

LEMMA PushNDoes ==
  ASSUME ArrayInv, NEW es \in Seq(Elem), array_push_n(es)
  PROVE  ArrayInv' /\ Spliced(used + 1, es)
  <1>. DEFINE g == GrowIfNeededTo(used + Len(es))
  <1>1. used + Len(es) \in Nat
    BY DEF ArrayInv
  <1>2. Room(g) /\ g.c >= used + Len(es)
    BY <1>1, IfNeededTo
  <1>3. Becomes(g, Stored(g.b, used + 1, es), used + Len(es))
    BY DEF array_push_n
  <1>4. es \in Seq(Cell) /\ Len(es) > 0
    BY DEF array_push_n, Cell
  <1>. HIDE DEF g
  <1>. QED BY <1>2, <1>3, <1>4, StoreStep

LEMMA InsertDoes ==
  ASSUME ArrayInv, NEW i \in 1..used, NEW e \in Elem, array_insert(i, e)
  PROVE  ArrayInv' /\ Spliced(i, <<e>>)
  <1>. DEFINE g == GrowIfNeeded
              o == Opened(g.b, i)
              es == <<e>>
  <1>1. Room(g)
    BY IfNeeded
  <1>2. Becomes(g, Stored(o, i, es), used + 1)
    BY DEF array_insert, ArrayInv
  <1>3. es \in Seq(Cell) /\ Len(es) = 1 /\ es[1] = e
    BY DEF Cell
  <1>4. /\ used \in Nat /\ g.b \in Seq(Cell) /\ Len(g.b) = g.c /\ g.c \in Nat \ {0}
        /\ \A j \in 1..used : g.b[j] = block[j]
        /\ g.c > used /\ i \in Nat \ {0} /\ DOMAIN g.b = 1..g.c
    BY <1>1 DEF ArrayInv, Room, Cell
  <1>. HIDE DEF g, es
  <1>5. /\ o \in Seq(Cell) /\ Len(o) = g.c
        /\ \A j \in 1..g.c : o[j] = IF j > i /\ j <= used + 1 THEN g.b[j - 1] ELSE g.b[j]
    <2>1. \A j \in 1..g.c : o[j] = IF j > i /\ j <= used + 1 THEN g.b[j - 1] ELSE g.b[j]
      BY <1>4 DEF Opened
    <2>2. \A j \in 1..g.c : o[j] \in Cell
      <3>. SUFFICES ASSUME NEW j \in 1..g.c PROVE o[j] \in Cell
        OBVIOUS
      <3>1. CASE j > i /\ j <= used + 1
        <4>1. j - 1 \in 1..g.c
          BY <1>4, <3>1
        <4>. HIDE DEF o
        <4>. QED BY <1>4, <2>1, <3>1, <4>1
      <3>2. CASE ~(j > i /\ j <= used + 1)
        <4>. HIDE DEF o
        <4>. QED BY <1>4, <2>1, <3>2
      <3>. QED BY <3>1, <3>2
    <2>3. o = [j \in 1..g.c |-> o[j]]
      BY <1>4 DEF Opened
    <2>. HIDE DEF o
    <2>4. o \in Seq(Cell) /\ Len(o) = g.c
      <3>1. g.c \in Nat
        BY <1>4
      <3>. QED BY <2>2, <2>3, <3>1, SeqIs
    <2>. QED BY <2>1, <2>4
  <1>. HIDE DEF o
  <1>6. /\ block' = Stored(o, i, es) /\ used' = used + 1
        /\ capacity' = g.c /\ held' = 1
    BY <1>1, <1>2 DEF Becomes, Room
  <1>7. /\ block' \in Seq(Cell) /\ Len(block') = g.c
        /\ \A j \in 1..g.c : block'[j] =
             IF j >= i /\ j < i + Len(es) THEN es[j - i + 1] ELSE o[j]
    <2>1. HoldsFrom(block', o, i, es)
      BY <1>3, <1>4, <1>5, <1>6, StoredIs
    <2>. QED BY <1>5, <2>1 DEF HoldsFrom
  <1>8. block' # NoBlock
    BY <1>4, <1>7 DEF NoBlock
  <1>9. ArrayInv'
    BY <1>4, <1>6, <1>7, <1>8 DEF ArrayInv, Cell
  <1>10. Spliced(i, es)
    <2>. SUFFICES ASSUME NEW j \in 1..used'
                  PROVE  block'[j] = IF j < i THEN block[j]
                                     ELSE IF j < i + Len(es) THEN es[j - i + 1]
                                     ELSE block[j - Len(es)]
      BY <1>3, <1>6 DEF Spliced
    <2>1. j \in 1..g.c /\ j \in Nat /\ j <= used + 1
      BY <1>4, <1>6
    <2>2. CASE j < i
      <3>1. j \in 1..used /\ block'[j] = o[j] /\ o[j] = g.b[j]
        BY <1>4, <1>5, <1>7, <2>1, <2>2
      <3>. QED BY <1>4, <2>2, <3>1
    <2>3. CASE j = i
      BY <1>3, <1>4, <1>7, <2>1, <2>3
    <2>4. CASE j > i
      <3>1. j - 1 \in 1..used /\ ~(j < i) /\ ~(j < i + 1)
        BY <1>4, <2>1, <2>4
      <3>2. block'[j] = o[j] /\ o[j] = g.b[j - 1]
        BY <1>3, <1>5, <1>7, <2>1, <2>4, <3>1
      <3>. QED BY <1>3, <1>4, <3>1, <3>2
    <2>. QED BY <1>4, <2>1, <2>2, <2>3, <2>4
  <1>. QED BY <1>9, <1>10 DEF es

LEMMA DeleteAt ==
  ASSUME ArrayInv, NEW i \in 1..used, array_delete(i)
  PROVE  ArrayInv' /\ AsList!Drop(i)
  <1>1. /\ used \in Nat /\ block \in Seq(Cell) /\ used <= Len(block) /\ Len(block) \in Nat
        /\ DOMAIN block = 1..Len(block) /\ i \in Nat /\ Junk \in Cell
    BY DEF ArrayInv, Cell
  <1>2. used' = used - 1 /\ UNCHANGED <<capacity, held>> /\ block' = Closed(i)
    BY DEF array_delete
  <1>3. /\ \A j \in 1..Len(block) : block'[j] = IF j >= used THEN Junk
                                       ELSE IF j >= i THEN block[j + 1] ELSE block[j]
        /\ block' = [j \in 1..Len(block) |-> block'[j]]
    BY <1>1, <1>2 DEF Closed
  <1>4. \A j \in 1..Len(block) : block'[j] \in Cell
    <2>. SUFFICES ASSUME NEW j \in 1..Len(block) PROVE block'[j] \in Cell
      OBVIOUS
    <2>1. CASE j >= used
      BY <1>1, <1>3, <2>1
    <2>2. CASE ~(j >= used)
      <3>1. j + 1 \in 1..Len(block)
        BY <1>1, <2>2
      <3>2. block[j] \in Cell /\ block[j + 1] \in Cell
        BY <1>1, <3>1
      <3>. QED BY <1>3, <2>2, <3>2
    <2>. QED BY <2>1, <2>2
  <1>5. block' \in Seq(Cell) /\ Len(block') = Len(block)
    BY <1>1, <1>3, <1>4
  <1>6. (block' = NoBlock) <=> (block = NoBlock)
    <2>1. Len(block) > 0
      BY <1>1
    <2>. QED BY <1>5, <2>1 DEF NoBlock
  <1>7. ArrayInv'
    <2>1. used' \in Nat /\ used' <= Len(block')
      BY <1>1, <1>2, <1>5
    <2>. QED BY <1>2, <1>5, <1>6, <2>1 DEF ArrayInv, Cell
  <1>8. /\ list \in Seq(Cell) /\ Len(list) = used
        /\ \A j \in 1..used : list[j] = block[j]
    BY <1>1, PrefixIs DEF list
  <1>9. /\ list' \in Seq(Cell) /\ Len(list') = used - 1
        /\ \A j \in 1..used-1 : list'[j] = block'[j]
    <2>1. used - 1 \in 0..Len(block')
      BY <1>1, <1>5
    <2>. QED BY <1>2, <1>5, <2>1, PrefixIs DEF list
  <1>. HIDE DEF list
  <1>10. ASSUME NEW j \in 1..Len(list')
         PROVE  list'[j] = IF j < i THEN list[j] ELSE list[j + 1]
    <2>1. j \in 1..used-1 /\ j \in 1..Len(block) /\ j \in 1..used /\ j + 1 \in 1..used /\ j \in Nat
          /\ ~(j >= used)
      BY <1>1, <1>9
    <2>2. list'[j] = IF j >= i THEN block[j + 1] ELSE block[j]
      BY <1>3, <1>9, <2>1
    <2>. QED BY <1>1, <1>8, <2>1, <2>2
  <1>11. list' = SubSeq(list, 1, i - 1) \o SubSeq(list, i + 1, Len(list))
    BY <1>8, <1>9, <1>10, DropIs
  <1>. QED BY <1>7, <1>11 DEF AsList!Drop, list
LEMMA ClearDoes ==
  ASSUME ArrayInv, array_clear
  PROVE  ArrayInv' /\ AsList!Replace(<<>>)
  <1>1. Len(block) \in Nat /\ block \in Seq(Cell)
    BY DEF ArrayInv, Cell
  <1>2. /\ block' = Cells(Len(block)) /\ used' = 0 /\ UNCHANGED <<capacity, held>>
        /\ block' \in Seq(Cell) /\ Len(block') = Len(block)
    BY <1>1, CellsAre DEF array_clear, Cell
  <1>3. (block' = NoBlock) <=> (block = NoBlock)
    BY <1>1, <1>2 DEF NoBlock
  <1>4. ArrayInv'
    BY <1>1, <1>2, <1>3 DEF ArrayInv, Cell
  <1>5. SubSeq(block', 1, used') = <<>>
    BY <1>2
  <1>. QED BY <1>4, <1>5 DEF AsList!Replace

LEMMA ZeroTermDoes ==
  ASSUME ArrayInv, array_zero_term
  PROVE  ArrayInv' /\ UNCHANGED list
  <1>1. Room(GrowIfNeeded)
    BY IfNeeded
  <1>2. /\ block' = GrowIfNeeded.b /\ used' = used /\ capacity' = GrowIfNeeded.c /\ held' = 1
        /\ block' \in Seq(Cell) /\ Len(block') = capacity' /\ capacity' \in Nat \ {0}
        /\ capacity' > used /\ \A i \in 1..used : block'[i] = block[i]
    BY <1>1 DEF Room, array_zero_term, Becomes, Cell
  <1>3. used \in Nat /\ used <= Len(block) /\ block \in Seq(Cell)
    BY DEF ArrayInv, Cell
  <1>4. block' # NoBlock
    BY <1>2 DEF NoBlock
  <1>5. ArrayInv'
    BY <1>2, <1>3, <1>4 DEF ArrayInv, Cell
  <1>6. list \in Seq(Cell) /\ Len(list) = used /\ \A j \in 1..used : list[j] = block[j]
    BY <1>3, PrefixIs DEF list
  <1>7. list' \in Seq(Cell) /\ Len(list') = used /\ \A j \in 1..used : list'[j] = block'[j]
    <2>1. used \in 0..Len(block')
      BY <1>2, <1>3
    <2>2. list' = SubSeq(block', 1, used)
      BY <1>2 DEF list
    <2>. HIDE DEF list
    <2>. QED BY <1>2, <2>1, <2>2, PrefixIs
  <1>. HIDE DEF list
  <1>8. list' = list
    BY <1>2, <1>6, <1>7, SameSeq
  <1>. QED BY <1>5, <1>8

LEMMA CopyDoes ==
  ASSUME ArrayInv, NEW es \in Seq(Elem), array_copy(es)
  PROVE  ArrayInv' /\ AsList!Replace(es)
  <1>. DEFINE g == GrowIfNeededTo(Len(es))
              b == Cells(Len(g.b))
  <1>1. Room(g) /\ g.c >= Len(es)
    BY IfNeededTo
  <1>2. Becomes(g, Stored(b, 1, es), Len(es))
    BY DEF array_copy
  <1>3. g.c \in Nat \ {0} /\ g.h = 1 /\ b \in Seq(Cell) /\ Len(b) = g.c
    <2>1. g.c \in Nat \ {0} /\ g.h = 1 /\ Len(g.b) = g.c
      BY <1>1 DEF Room
    <2>. QED BY <2>1, CellsAre DEF Cell
  <1>4. es \in Seq(Cell) /\ Len(es) \in Nat
    BY DEF Cell
  <1>. HIDE DEF g, b
  <1>5. /\ block' = Stored(b, 1, es) /\ used' = Len(es) /\ capacity' = g.c /\ held' = 1
    BY <1>2, <1>3 DEF Becomes
  <1>6. HoldsFrom(block', b, 1, es)
    BY <1>3, <1>4, <1>5, StoredIs
  <1>7. /\ block' \in Seq(Cell) /\ Len(block') = g.c
        /\ \A j \in 1..Len(es) : block'[j] = es[j]
    BY <1>1, <1>3, <1>4, <1>6 DEF HoldsFrom
  <1>8. block' # NoBlock
    BY <1>3, <1>7 DEF NoBlock
  <1>9. ArrayInv'
    BY <1>1, <1>3, <1>4, <1>5, <1>7, <1>8 DEF ArrayInv, Cell
  <1>10. list' \in Seq(Cell) /\ Len(list') = Len(es) /\ \A j \in 1..Len(es) : list'[j] = block'[j]
    <2>1. Len(es) \in 0..Len(block')
      BY <1>1, <1>3, <1>4, <1>7
    <2>2. list' = SubSeq(block', 1, Len(es))
      BY <1>5 DEF list
    <2>. HIDE DEF list
    <2>. QED BY <1>7, <2>1, <2>2, PrefixIs
  <1>. HIDE DEF list
  <1>11. list' = es
    BY <1>4, <1>7, <1>10, SameSeq
  <1>. QED BY <1>9, <1>11 DEF AsList!Replace, list

LEMMA FreeDoes ==
  ASSUME ArrayInv, array_free
  PROVE  ArrayInv' /\ AsList!Replace(<<>>)
  <1>1. /\ block' = <<>> /\ used' = 0 /\ capacity' \in {DefaultCap} \cup Caps
        /\ held' = 0
    BY DEF array_free, Make, NoBlock, ArrayInv
  <1>2. capacity' \in Nat \ {0}
    BY <1>1, CapAssumption
  <1>3. ArrayInv'
    BY <1>1, <1>2 DEF ArrayInv, NoBlock
  <1>4. SubSeq(block', 1, used') = <<>>
    BY <1>1
  <1>. QED BY <1>3, <1>4 DEF AsList!Replace

LEMMA ArrayInitInv == ArrayInit => ArrayInv /\ list = <<>>
  <1>. SUFFICES ASSUME ArrayInit PROVE ArrayInv /\ list = <<>>
    OBVIOUS
  <1>1. capacity \in Nat \ {0} /\ block = <<>> /\ used = 0 /\ held = 0
    BY CapAssumption DEF ArrayInit, NoBlock
  <1>. QED BY <1>1 DEF ArrayInv, NoBlock, list

LEMMA SplicedOne ==
  ASSUME ArrayInv, ArrayInv', NEW i \in 1..used+1, NEW e \in Elem, Spliced(i, <<e>>)
  PROVE  AsList!Next
  <1>. DEFINE es == <<e>>
  <1>1. es \in Seq(Cell)
    BY DEF Cell
  <1>. HIDE DEF es
  <1>2. AsList!Splice(i, es)
    BY <1>1, SpliceStep DEF es
  <1>3. i \in 1..Len(list)+1
    <2>1. used \in 0..Len(block) /\ block \in Seq(Cell)
      BY DEF ArrayInv, Cell
    <2>. QED BY <2>1, PrefixIs DEF list
  <1>4. AsList!Splice(i, <<e>>)
    BY <1>2 DEF es
  <1>. QED BY <1>3, <1>4 DEF AsList!Next, list

LEMMA PairIs == ASSUME NEW T, NEW x \in T, NEW y \in T
                PROVE  <<x, y>> \in Seq(T) /\ Len(<<x, y>>) = 2
  OBVIOUS

LEMMA ArrayStep ==
  ASSUME ArrayInv, ArrayNext
  PROVE  ArrayInv' /\ (AsList!Next \/ UNCHANGED list)
  <1>0. /\ used \in Nat /\ used \in 0..Len(block) /\ block \in Seq(Cell)
        /\ used + 1 \in 1..used+1 /\ 1..used \subseteq 1..used+1
    BY DEF ArrayInv, Cell
  <1>00. Len(list) = used
    BY <1>0, PrefixIs DEF list
  <1>1. ASSUME NEW e \in Elem, array_push(e) PROVE ArrayInv' /\ AsList!Next
    BY <1>0, <1>1, PushDoes, SplicedOne
  <1>2. ASSUME NEW e \in Elem, NEW i \in 1..used, array_insert(i, e)
        PROVE  ArrayInv' /\ AsList!Next
    BY <1>0, <1>2, InsertDoes, SplicedOne
  <1>3. ASSUME NEW e1 \in Elem, NEW e2 \in Elem, array_push_n(<<e1, e2>>)
        PROVE  ArrayInv' /\ AsList!Next
    <2>. DEFINE es == <<e1, e2>>
    <2>1. es \in Seq(Elem) /\ es \in Seq(Cell)
      BY PairIs DEF Cell
    <2>. HIDE DEF es
    <2>2. ArrayInv' /\ Spliced(used + 1, es)
      BY <1>3, <2>1, PushNDoes DEF es
    <2>3. AsList!Splice(used + 1, es)
      BY <1>0, <2>1, <2>2, SpliceStep
    <2>4. AsList!Splice(Len(list) + 1, <<e1, e2>>)
      BY <1>00, <2>3 DEF es
    <2>. QED BY <2>2, <2>4 DEF AsList!Next, list
  <1>4. ASSUME NEW i \in 1..used, array_delete(i)
        PROVE  ArrayInv' /\ AsList!Next
    <2>1. ArrayInv' /\ AsList!Drop(i)
      BY <1>4, DeleteAt
    <2>2. i \in DOMAIN list
      BY <1>0, PrefixIs DEF list
    <2>. QED BY <2>1, <2>2 DEF AsList!Next, list
  <1>5. ASSUME used > 0, array_pop PROVE ArrayInv' /\ AsList!Next
    BY <1>0, <1>4, <1>5 DEF array_pop
  <1>6. ASSUME array_clear PROVE ArrayInv' /\ AsList!Next
    BY <1>6, ClearDoes DEF AsList!Next
  <1>7. ASSUME array_zero_term PROVE ArrayInv' /\ UNCHANGED list
    BY <1>7, ZeroTermDoes
  <1>8. ASSUME array_free PROVE ArrayInv' /\ AsList!Next
    BY <1>8, FreeDoes DEF AsList!Next
  <1>9. ASSUME NEW n \in 0..2, NEW es \in [1..n -> Elem], array_copy(es)
        PROVE  ArrayInv' /\ AsList!Next
    <2>1. es \in Seq(Elem)
      OBVIOUS
    <2>2. ArrayInv' /\ AsList!Replace(es)
      BY <1>9, <2>1, CopyDoes
    <2>3. es \in {<<>>} \cup UNION {[1..m -> Elem] : m \in 1..2}
      <3>1. CASE n = 0
        BY <3>1
      <3>2. CASE n # 0
        BY <3>2
      <3>. QED BY <3>1, <3>2
    <2>. QED BY <2>2, <2>3 DEF AsList!Next
  <1>. QED BY <1>1, <1>2, <1>3, <1>4, <1>5, <1>6, <1>7, <1>8, <1>9 DEF ArrayNext
-----------------------------------------------------------------------------
(* What a sweep does to the table is what the table's operations do.       *)
LEMMA TableStep == SweepNext => [Next]_vars
  <1>. SUFFICES ASSUME SweepNext, ~Next PROVE UNCHANGED vars
    OBVIOUS
  <1>1. UNCHANGED tableVars => UNCHANGED vars
    BY DEF tableVars, vars
  <1>2. CASE BeginSweep \/ Collect \/ Collected \/ Swept
    BY <1>1, <1>2 DEF BeginSweep, Collect, Collected, Swept, tableVars
  <1>3. CASE SweepOne
    BY <1>1, <1>3 DEF SweepOne, InTable, Next
  <1>. QED BY <1>1, <1>2, <1>3 DEF SweepNext, tableVars

(* The table of a sweep is a hash table: what is proved of one holds.      *)
THEOREM SweepTable == SweepSpec => Spec
  <1>1. SweepInit => Init
    BY DEF SweepInit
  <1>2. [SweepNext]_<<tableVars, arrayVars, sweepVars>> => [Next]_vars
    BY TableStep DEF tableVars, vars
  <1>. QED BY <1>1, <1>2, PTL DEF SweepSpec, Spec

(* Between the steps of a sweep: while it collects, the array holds the    *)
(* keys of the dead entries met; while it sweeps, the keys not yet tried   *)
(* are those of the entries that still have to go, and of none to stay.    *)
(* These are positions of a traversal that growth, rehashes and closing    *)
(* chains could shift, were the table touched before the array is full.    *)
SweepInv ==
  /\ IInv /\ ArrayInv
  /\ spc \in {"rest", "collect", "sweep"}
  /\ at \in Nat \ {0}
  /\ spc = "collect" =>
       /\ at <= len + 1
       /\ due = {e \in Entries : e[2] = 1}
       /\ \A x : (\E i \in 1..used : block[i] = x)
                 <=> (\E j \in 1..at-1 : Traverse(data)[j].val = 0 /\ Traverse(data)[j].key = x)
  /\ spc = "sweep" =>
       /\ due \subseteq Entries
       /\ \A e \in Entries \ due : \E i \in at..used : block[i] = e[1]
       /\ \A e \in due : \A i \in at..used : block[i] # e[1]

EntriesIn(d, n) == {<<s.key, s.val>> : s \in {Traverse(d)[i] : i \in 1..n}}

LEMMA EntriesAreSlots ==
  ASSUME NEW i \in DOMAIN Primes, NEW d, WellPlaced(d, i)
  PROVE  \A e : e \in EntriesIn(d, Cardinality(KeysOf(d)))
                <=> \E s \in Slot : In(s, d) /\ e = <<s.key, s.val>>
  <1>. DEFINE T == Traverse(d)
              n == Cardinality(KeysOf(d))
  <1>1. /\ T \in Seq(Slot)
        /\ \A s : (\E x \in DOMAIN T : T[x] = s) <=> In(s, d)
    BY TraverseMeets
  <1>2. DOMAIN T = 1..n
    BY <1>1, TraverseLength
  <1>. HIDE DEF T, n
  <1>3. \A s : (\E x \in 1..n : T[x] = s) <=> In(s, d)
    BY <1>1, <1>2
  <1>4. \A s : In(s, d) => s \in Slot
    BY SlotIn
  <1>5. EntriesIn(d, n) = {<<s.key, s.val>> : s \in {T[x] : x \in 1..n}}
    BY DEF EntriesIn, T
  <1>. QED BY <1>3, <1>4, <1>5 DEF n

LEMMA EntriesNow == /\ Entries = EntriesIn(data, len)
                    /\ Entries' = EntriesIn(data', len')
  BY DEF Entries, EntriesIn, Traverse

LEMMA EntryOne ==
  ASSUME NEW i \in DOMAIN Primes, NEW d, WellPlaced(d, i),
         NEW s, NEW u, In(s, d), In(u, d), s.key = u.key
  PROVE  s = u
  BY TraverseMeets

LEMMA TraversalIs ==
  ASSUME IInv
  PROVE  /\ \A j \in 1..len : Traverse(data)[j] \in Slot /\ In(Traverse(data)[j], data)
         /\ \A s : In(s, data) => \E j \in 1..len : Traverse(data)[j] = s
         /\ len \in Nat
  <1>1. size_idx \in DOMAIN Primes /\ WellPlaced(data, size_idx)
    BY DEF IInv
  <1>2. Traverse(data) \in Seq(Slot) /\ Len(Traverse(data)) = len
    BY <1>1, TraverseMeets, TraverseLength DEF IInv
  <1>3. DOMAIN Traverse(data) = 1..len /\ len \in Nat
    BY <1>2
  <1>. QED BY <1>1, <1>2, <1>3, TraverseMeets

LEMMA EntryIsSlot ==
  ASSUME IInv
  PROVE  \A e : e \in Entries <=> \E s \in Slot : In(s, data) /\ e = <<s.key, s.val>>
  BY EntriesAreSlots, EntriesNow DEF IInv

LEMMA EntryIsSlotNext ==
  ASSUME IInv'
  PROVE  \A e : e \in Entries' <=> \E s \in Slot : In(s, data') /\ e = <<s.key, s.val>>
  BY EntriesAreSlots, EntriesNow DEF IInv

(* An entry of the table pushed to the array.                              *)
LEMMA PushedKey ==
  ASSUME SweepInv, Collect
  PROVE  /\ Traverse(data)[at] \in Slot
         /\ ArrayInv'
         /\ IF Traverse(data)[at].val = 0
              THEN /\ Traverse(data)[at].key \in Elem
                   /\ Spliced(used + 1, <<Traverse(data)[at].key>>)
              ELSE UNCHANGED arrayVars
  <1>1. IInv /\ ArrayInv /\ at \in Nat \ {0} /\ at <= len
    BY DEF SweepInv, Collect
  <1>2. Traverse(data)[at] \in Slot
    BY <1>1, TraversalIs
  <1>3. Traverse(data)[at].key \in Elem
    BY <1>2, SweepAssumption DEF Slot
  <1>4. IF Traverse(data)[at].val = 0 THEN array_push(Traverse(data)[at].key) ELSE UNCHANGED arrayVars
    BY DEF Collect
  <1>5. UNCHANGED arrayVars => ArrayInv'
    BY <1>1 DEF arrayVars, ArrayInv
  <1>. QED BY <1>1, <1>2, <1>3, <1>4, <1>5, PushDoes

LEMMA CollectKeeps == SweepInv /\ Collect => SweepInv'
  <1>. SUFFICES ASSUME SweepInv, Collect PROVE SweepInv'
    OBVIOUS
  <1>. DEFINE s == Traverse(data)[at]
  <1>1. /\ IInv /\ ArrayInv /\ at \in Nat \ {0} /\ at <= len /\ spc = "collect" /\ len \in Nat
        /\ used \in Nat /\ due = {e \in Entries : e[2] = 1}
        /\ at' = at + 1 /\ UNCHANGED <<data, size_idx, load_thresh, len, spc, due>>
    BY TraversalIs DEF SweepInv, Collect, tableVars, ArrayInv
  <1>2. IInv' /\ Traverse(data)' = Traverse(data) /\ Entries' = Entries
    BY <1>1 DEF IInv, Entries
  <1>3. /\ ArrayInv'
        /\ IF s.val = 0 THEN s.key \in Elem /\ Spliced(used + 1, <<s.key>>)
             ELSE UNCHANGED arrayVars
    BY PushedKey
  <1>4. ASSUME NEW x
        PROVE  (\E i \in 1..used' : block'[i] = x) <=> (\E i \in 1..used : block[i] = x)
                                                      \/ (s.val = 0 /\ s.key = x)
    <2>. HIDE DEF s
    <2>1. CASE s.val = 0
      <3>1. /\ used' = used + 1 /\ block'[used + 1] = s.key
            /\ \A i \in 1..used : block'[i] = block[i]
        <4>. DEFINE es == <<s.key>>
        <4>1. Len(es) = 1 /\ es[1] = s.key
          OBVIOUS
        <4>2. Spliced(used + 1, es)
          BY <1>3, <2>1
        <4>. HIDE DEF es
        <4>3. used' = used + 1
          BY <4>1, <4>2 DEF Spliced
        <4>. QED BY <1>1, <4>1, <4>2, <4>3 DEF Spliced
      <3>2. \A i \in 1..used+1 : i \in 1..used \/ i = used + 1
        BY <1>1
      <3>3. used + 1 \in 1..used+1 /\ 1..used \subseteq 1..used+1
        BY <1>1
      <3>. QED BY <2>1, <3>1, <3>2, <3>3
    <2>2. CASE s.val # 0
      BY <1>3, <2>2 DEF arrayVars
    <2>. QED BY <2>1, <2>2
  <1>5. ASSUME NEW x
        PROVE  (\E i \in 1..used' : block'[i] = x)
               <=> (\E j \in 1..at'-1 : Traverse(data)'[j].val = 0 /\ Traverse(data)'[j].key = x)
    <2>1. (\E i \in 1..used : block[i] = x)
          <=> (\E j \in 1..at-1 : Traverse(data)[j].val = 0 /\ Traverse(data)[j].key = x)
      BY <1>1 DEF SweepInv
    <2>2. at' - 1 = at /\ \A j : j \in 1..at <=> j \in 1..at-1 \/ j = at
      BY <1>1
    <2>. QED BY <1>2, <1>4, <2>1, <2>2
  <1>. HIDE DEF s
  <1>6. spc' = "collect" /\ at' \in Nat \ {0} /\ at' <= len' + 1 /\ due' = {e \in Entries' : e[2] = 1}
    BY <1>1, <1>2
  <1>. QED BY <1>2, <1>3, <1>5, <1>6 DEF SweepInv

LEMMA CollectedKeeps == SweepInv /\ Collected => SweepInv'
  <1>. SUFFICES ASSUME SweepInv, Collected PROVE SweepInv'
    OBVIOUS
  <1>1. /\ IInv /\ ArrayInv /\ at \in Nat \ {0} /\ len \in Nat /\ spc = "collect" /\ at = len + 1
        /\ due = {e \in Entries : e[2] = 1}
        /\ spc' = "sweep" /\ at' = 1
        /\ UNCHANGED <<data, size_idx, load_thresh, len, block, used, capacity, held, due>>
    <2>1. IInv /\ len \in Nat
      BY TraversalIs DEF SweepInv
    <2>. QED BY <2>1 DEF SweepInv, Collected, tableVars, arrayVars
  <1>2. IInv' /\ ArrayInv' /\ Entries' = Entries
    BY <1>1 DEF IInv, ArrayInv, Entries
  <1>3. size_idx \in DOMAIN Primes /\ WellPlaced(data, size_idx)
    BY <1>1 DEF IInv
  <1>4. \A x : (\E i \in 1..used : block[i] = x)
               <=> (\E j \in 1..len : Traverse(data)[j].val = 0 /\ Traverse(data)[j].key = x)
    <2>1. at - 1 = len
      BY <1>1
    <2>. QED BY <1>1, <2>1 DEF SweepInv
  <1>5. ASSUME NEW e \in Entries \ due PROVE \E i \in 1..used : block[i] = e[1]
    <2>1. PICK s \in Slot : In(s, data) /\ e = <<s.key, s.val>>
      BY <1>1, EntryIsSlot
    <2>2. e[1] = s.key /\ e[2] = s.val /\ s.val = 0
      BY <1>1, <2>1, SweepAssumption DEF Slot
    <2>3. PICK j \in 1..len : Traverse(data)[j] = s
      BY <1>1, <2>1, TraversalIs
    <2>. QED BY <1>4, <2>2, <2>3
  <1>6. ASSUME NEW e \in due, NEW i \in 1..used, block[i] = e[1] PROVE FALSE
    <2>1. PICK s \in Slot : In(s, data) /\ e = <<s.key, s.val>>
      BY <1>1, EntryIsSlot
    <2>2. e[1] = s.key /\ e[2] = s.val /\ s.val = 1
      BY <1>1, <2>1
    <2>3. PICK j \in 1..len : Traverse(data)[j].val = 0 /\ Traverse(data)[j].key = s.key
      BY <1>4, <1>6, <2>2
    <2>4. Traverse(data)[j] = s
      BY <1>1, <1>3, <2>1, <2>3, TraversalIs, EntryOne
    <2>. QED BY <2>2, <2>3, <2>4
  <1>. QED BY <1>1, <1>2, <1>5, <1>6 DEF SweepInv

LEMMA SweepOneKeeps == SweepInv /\ SweepOne => SweepInv'
  <1>. SUFFICES ASSUME SweepInv, SweepOne PROVE SweepInv'
    OBVIOUS
  <1>. DEFINE k == block[at]
  <1>1. /\ IInv /\ ArrayInv /\ at \in Nat \ {0} /\ used \in Nat /\ spc = "sweep" /\ at <= used
        /\ due \subseteq Entries
        /\ \A e \in Entries \ due : \E i \in at..used : block[i] = e[1]
        /\ \A e \in due : \A i \in at..used : block[i] # e[1]
        /\ at' = at + 1 /\ UNCHANGED <<block, used, capacity, held, spc, due>>
    BY DEF SweepInv, SweepOne, ArrayInv, arrayVars
  <1>2. ArrayInv'
    BY <1>1 DEF ArrayInv
  <1>3. size_idx \in DOMAIN Primes /\ WellPlaced(data, size_idx)
    BY <1>1 DEF IInv
  <1>4. IInv' /\ \A e : e \in Entries' <=> e \in Entries /\ e[1] # k
    <2>1. CASE InTable(k)
      <3>1. k \in Key /\ Delete(k)
        BY <2>1 DEF SweepOne, InTable
      <3>2. IInv' /\ \A s : In(s, data') <=> In(s, data) /\ s.key # k
        BY <1>1, <3>1, DeleteDoes
      <3>. HIDE DEF k
      <3>3. ASSUME NEW e PROVE e \in Entries' <=> e \in Entries /\ e[1] # k
        <4>1. e \in Entries <=> \E s \in Slot : In(s, data) /\ e = <<s.key, s.val>>
          BY <1>1, EntryIsSlot
        <4>2. e \in Entries' <=> \E s \in Slot : In(s, data') /\ e = <<s.key, s.val>>
          BY <3>2, EntryIsSlotNext
        <4>. QED BY <3>2, <4>1, <4>2
      <3>. QED BY <3>2, <3>3
    <2>2. CASE ~InTable(k)
      <3>1. UNCHANGED <<data, size_idx, load_thresh, len>>
        BY <2>2 DEF SweepOne, tableVars
      <3>2. IInv' /\ Entries' = Entries
        BY <1>1, <3>1 DEF IInv, Entries
      <3>. HIDE DEF k
      <3>3. ASSUME NEW e \in Entries, e[1] = k PROVE FALSE
        <4>1. PICK s \in Slot : In(s, data) /\ e = <<s.key, s.val>>
          BY <1>1, EntryIsSlot
        <4>2. s.key = k /\ k \in Key
          BY <3>3, <4>1 DEF Slot
        <4>3. k \in KeysOf(data)
          BY <4>1, <4>2 DEF KeysOf
        <4>. QED BY <1>3, <2>2, <4>2, <4>3, FindIs, NotFound DEF InTable
      <3>. QED BY <3>2, <3>3
    <2>. QED BY <2>1, <2>2
  <1>5. /\ at \in at..used /\ at' \in Nat \ {0}
        /\ \A i : i \in at..used <=> i = at \/ i \in at'..used
    BY <1>1
  <1>6. due \subseteq Entries'
    BY <1>1, <1>4, <1>5
  <1>7. ASSUME NEW e \in Entries' \ due PROVE \E i \in at'..used : block[i] = e[1]
    <2>1. e \in Entries \ due /\ e[1] # k
      BY <1>4
    <2>2. PICK i \in at..used : block[i] = e[1]
      BY <1>1, <2>1
    <2>3. i # at
      BY <2>1, <2>2
    <2>. QED BY <1>5, <2>2, <2>3
  <1>8. \A e \in due : \A i \in at'..used : block[i] # e[1]
    BY <1>1, <1>5
  <1>. HIDE DEF k
  <1>. QED BY <1>1, <1>2, <1>4, <1>5, <1>6, <1>7, <1>8 DEF SweepInv

LEMMA BeginKeeps == SweepInv /\ BeginSweep => SweepInv'
  <1>. SUFFICES ASSUME SweepInv, BeginSweep PROVE SweepInv'
    OBVIOUS
  <1>1. /\ IInv /\ ArrayInv /\ array_clear /\ spc' = "collect" /\ at' = 1 /\ len \in Nat
        /\ due' = {e \in Entries : e[2] = 1}
        /\ UNCHANGED <<data, size_idx, load_thresh, len>>
    BY TraversalIs DEF SweepInv, BeginSweep, tableVars
  <1>2. IInv' /\ Entries' = Entries
    BY <1>1 DEF IInv, Entries
  <1>3. ArrayInv' /\ used' = 0
    BY <1>1, ClearDoes DEF array_clear
  <1>4. \A x : (\E i \in 1..used' : block'[i] = x)
               <=> (\E j \in 1..at'-1 : Traverse(data)'[j].val = 0 /\ Traverse(data)'[j].key = x)
    BY <1>1, <1>3
  <1>5. at' <= len' + 1
    BY <1>1
  <1>. QED BY <1>1, <1>2, <1>3, <1>4, <1>5 DEF SweepInv

LEMMA SweepInvKept == SweepInv /\ [SweepNext]_<<tableVars, arrayVars, sweepVars>> => SweepInv'
  <1>. SUFFICES ASSUME SweepInv, [SweepNext]_<<tableVars, arrayVars, sweepVars>> PROVE SweepInv'
    OBVIOUS
  <1>1. ASSUME spc = "rest", Next, UNCHANGED <<arrayVars, spc, at>> PROVE SweepInv'
    <2>1. IInv'
      BY <1>1, NextIInv DEF SweepInv
    <2>2. ArrayInv' /\ spc' = "rest" /\ at' \in Nat \ {0}
      BY <1>1 DEF SweepInv, ArrayInv, arrayVars
    <2>. QED BY <2>1, <2>2 DEF SweepInv
  <1>2. ASSUME spc = "rest", ArrayNext, UNCHANGED <<tableVars, spc, at>> PROVE SweepInv'
    <2>1. IInv'
      BY <1>2 DEF SweepInv, IInv, tableVars
    <2>2. ArrayInv' /\ spc' = "rest" /\ at' \in Nat \ {0}
      BY <1>2, ArrayStep DEF SweepInv
    <2>. QED BY <2>1, <2>2 DEF SweepInv
  <1>3. ASSUME Swept PROVE SweepInv'
    <2>1. UNCHANGED <<data, size_idx, load_thresh, len, block, used, capacity, held>>
      BY <1>3 DEF Swept, tableVars, arrayVars
    <2>2. IInv' /\ ArrayInv'
      BY <2>1 DEF SweepInv, IInv, ArrayInv
    <2>. QED BY <1>3, <2>2 DEF SweepInv, Swept
  <1>4. ASSUME UNCHANGED <<tableVars, arrayVars, sweepVars>> PROVE SweepInv'
    <2>1. UNCHANGED <<data, size_idx, load_thresh, len, block, used, capacity, held, spc, at, due>>
      BY <1>4 DEF tableVars, arrayVars, sweepVars
    <2>2. IInv' /\ ArrayInv' /\ Entries' = Entries /\ Traverse(data)' = Traverse(data)
      BY <2>1 DEF SweepInv, IInv, ArrayInv, Entries
    <2>. QED BY <2>1, <2>2 DEF SweepInv
  <1>. QED BY <1>1, <1>2, <1>3, <1>4, BeginKeeps, CollectKeeps, CollectedKeeps, SweepOneKeeps
       DEF SweepNext
LEMMA SweepInitInv == SweepInit => SweepInv
  <1>1. ASSUME SweepInit PROVE IInv /\ ArrayInv
    BY <1>1, InitIInv, ArrayInitInv DEF SweepInit
  <1>. QED BY <1>1 DEF SweepInit, SweepInv

(* The positions and the entries to stay or go agree at every step of the  *)
(* discovery thread's two loops (process.c:113-127).                       *)
THEOREM SweepInvariant == SweepSpec => []SweepInv
  BY SweepInitInv, SweepInvKept, PTL DEF SweepSpec

(* When the second loop ends, the entries found dead are deleted, all of   *)
(* them and nothing else, for any number of entries.                       *)
THEOREM SweepsExactly == SweepSpec => []SweepExact
  <1>1. SweepInv => SweepExact
    <2>. SUFFICES ASSUME SweepInv, spc = "sweep", at > used PROVE Entries = due
      BY DEF SweepExact
    <2>1. at..used = {}
      BY DEF SweepInv, ArrayInv
    <2>. QED BY <2>1 DEF SweepInv
  <1>. QED BY <1>1, SweepInvariant, PTL

(* The array's elements always fit in its block, the block is as large as  *)
(* the capacity says, and one block at the most is held (array.c's growth  *)
(* frees the old one).                                                     *)
THEOREM ArrayFits == SweepSpec => []Fits
  <1>1. SweepInv => Fits
    <2>. SUFFICES ASSUME ArrayInv PROVE Fits
      BY DEF SweepInv
    <2>. QED BY DEF ArrayInv, Fits
  <1>. QED BY <1>1, SweepInvariant, PTL

LEMMA ListStep ==
  SweepInv /\ [SweepNext]_<<tableVars, arrayVars, sweepVars>>
  => [AsList!Next]_(SubSeq(block, 1, used))
  <1>. SUFFICES ASSUME SweepInv, [SweepNext]_<<tableVars, arrayVars, sweepVars>>,
                       list' # list
                PROVE  AsList!Next
    BY DEF list
  <1>0. ArrayInv
    BY DEF SweepInv
  <1>1. UNCHANGED arrayVars => list' = list
    BY DEF arrayVars, list
  <1>2. CASE ArrayNext
    BY <1>0, <1>2, ArrayStep
  <1>3. CASE BeginSweep
    BY <1>0, <1>3, ClearDoes DEF BeginSweep, AsList!Next
  <1>4. CASE Collect
    <2>. DEFINE s == Traverse(data)[at]
    <2>1. /\ ArrayInv'
          /\ IF s.val = 0 THEN s.key \in Elem /\ Spliced(used + 1, <<s.key>>)
               ELSE UNCHANGED arrayVars
      BY <1>4, PushedKey
    <2>. HIDE DEF s
    <2>2. s.key \in Elem /\ Spliced(used + 1, <<s.key>>)
      BY <1>1, <2>1
    <2>3. used + 1 \in 1..used+1
      BY <1>0 DEF ArrayInv
    <2>. QED BY <1>0, <2>1, <2>2, <2>3, SplicedOne
  <1>5. CASE Collected \/ SweepOne \/ Swept
    BY <1>1, <1>5 DEF Collected, SweepOne, Swept
  <1>. QED BY <1>1, <1>2, <1>3, <1>4, <1>5 DEF SweepNext

(* The array is the list its callers stored: pushes, insertions and        *)
(* deletions move the right elements, and a growth loses none.             *)
THEOREM ArrayIsList == SweepSpec => IsList
  <1>1. SweepInit => SubSeq(block, 1, used) = <<>>
    BY ArrayInitInv DEF SweepInit, list
  <1>. QED BY <1>1, SweepInvariant, ListStep, PTL DEF SweepSpec, IsList, AsList!Spec
==============================================================================
