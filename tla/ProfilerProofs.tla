---------------------------- MODULE ProfilerProofs ----------------------------
(***************************************************************************)
(* What the runs of Profiler show of rings of 8 words, for rings of every  *)
(* size, any number of them and any number of records.                     *)
(*                                                                         *)
(* The argument is about the free-running count: record i of a ring starts *)
(* at Start(c, i), the tail and the head the pass read are both starts of  *)
(* records, and between the tail and the head no two words share a place.  *)
(***************************************************************************)
EXTENDS Profiler, FiniteSetTheorems, TLAPS

Next1(c) == Len(log[c]) + 1   \* the record that comes next

(* Every variable, the memory included, stays in its domain. *)
Typed ==
  /\ TypeOK
  /\ log \in [Cpu -> Seq(Record)]
  /\ mem \in [Cpu -> [0..N-1 -> Nat \X Nat]]

(* The tail is the start of a record, less than one ring behind the head,  *)
(* and what lies between them is in its place.                             *)
Ring(c) ==
  /\ head[c] = Start(c, Next1(c))
  /\ tail[c] <= head[c] /\ head[c] < tail[c] + N
  /\ \E k \in 1..Next1(c) : tail[c] = Start(c, k)
  /\ \A i \in DOMAIN log[c] : tail[c] <= Start(c, i) =>
       \A o \in 0..Size(log[c][i])-1 : mem[c][(Start(c, i) + o) % N] = <<i, o>>

(* Where a pass stands: begin is the place of the j-th record, and exam is *)
(* what lies before it.  A wrapped range is never entered.                 *)
InPass == pc \in {"read", "lookup", "count", "commit"}

At(j) ==
  /\ tail[cpu] <= Start(cpu, j) /\ Start(cpu, j) <= h
  /\ begin = (tail[cpu] % N) + (Start(cpu, j) - tail[cpu])
  /\ exam = {i \in DOMAIN log[cpu] : tail[cpu] <= Start(cpu, i) /\ Start(cpu, i) < Start(cpu, j)}

Pass ==
  /\ pc = "snapshot" => cpu \in Cpu
  /\ InPass =>
       /\ cpu \in Cpu
       /\ tail[cpu] <= h /\ h <= head[cpu] /\ end = h % N
       /\ \E k \in 1..Next1(cpu) : h = Start(cpu, k)
       /\ \E j \in 1..Next1(cpu) : At(j)
       /\ tail[cpu] % N > end => begin = tail[cpu] % N
  /\ pc \in {"lookup", "count"} => begin < end /\ IsSample
  /\ pc = "commit" => ~(begin < end)

(* What was counted lies before the tail, or has been examined in the pass *)
(* that goes on.                                                           *)
Counts ==
  /\ \A x \in tally \cup old : /\ x \in Cpu \X Nat /\ x[2] \in DOMAIN log[x[1]]
                               /\ log[x[1]][x[2]].kind = "sample"
  /\ \A x \in old : Start(x[1], x[2]) < tail[x[1]]
  /\ \A x \in tally : \/ Start(x[1], x[2]) < tail[x[1]]
                      \/ InPass /\ x[1] = cpu /\ x[2] \in exam
  /\ IsFiniteSet(tally)

(* ProfileExact in other words: infos say that process p has n samples.    *)
Infos == Seq([pid : Pid, accesses : Nat])
OnePerPid(infos) == \A i, j \in DOMAIN infos : infos[i].pid = infos[j].pid => i = j
Has(infos, p, n) ==
  LET entries == {i \in DOMAIN infos : infos[i].pid = p}
  IN  IF n = 0 THEN entries = {} ELSE \E i \in entries : infos[i].accesses = n

Amount(p) == Cardinality({x \in tally : log[x[1]][x[2]].pid = p})
Exact     == OnePerPid(profile) /\ \A p \in Pid : Has(profile, p, Amount(p))

IInv == Typed /\ (\A c \in Cpu : Ring(c)) /\ Pass /\ Counts /\ CountedOnce /\ Exact
-----------------------------------------------------------------------------
(* Places in a ring.                                                       *)
LEMMA Unique == ASSUME NEW n \in Nat \ {0}, NEW p \in Int, NEW q \in Int,
                       NEW r \in 0..n-1, NEW s \in 0..n-1, n * p + r = n * q + s
                PROVE  r = s
  <1>1. n * (p - q) = s - r
    OBVIOUS
  <1>2. CASE p - q >= 1
    <2>1. n * (p - q) >= n
      BY <1>2
    <2>. QED BY <1>1, <2>1
  <1>3. CASE q - p >= 1
    <2>1. n * (q - p) >= n
      BY <1>3
    <2>. QED BY <1>1, <2>1
  <1>. QED BY <1>2, <1>3

LEMMA Divided == ASSUME NEW n \in Nat \ {0}, NEW a \in Nat
                 PROVE  a % n \in 0..n-1 /\ \E q \in Int : a = n * q + (a % n)
  <1>1. a % n \in 0..n-1
    OBVIOUS
  <1>2. a = n * (a \div n) + (a % n)
    OBVIOUS
  <1>3. a \div n \in Int
    OBVIOUS
  <1>4. \E q \in Int : a = n * q + (a % n)
    BY ONLY <1>2, <1>3, Zenon
  <1>. QED BY <1>1, <1>4

(* The place d words further on.                                           *)
LEMMA Further == ASSUME NEW n \in Nat \ {0}, NEW a \in Nat, NEW d \in 0..n-1
                 PROVE  (a + d) % n = IF (a % n) + d < n THEN (a % n) + d
                                        ELSE (a % n) + d - n
  <1>1. PICK q \in Int : a = n * q + (a % n)
    BY Divided
  <1>2. PICK p \in Int : a + d = n * p + ((a + d) % n)
    <2>1. a + d \in Nat
      OBVIOUS
    <2>. QED BY <2>1, Divided, Zenon
  <1>3. a % n \in 0..n-1 /\ (a + d) % n \in 0..n-1
    BY Divided
  <1>4. CASE (a % n) + d < n
    <2>1. (a % n) + d \in 0..n-1 /\ a + d = n * q + ((a % n) + d)
      BY <1>1, <1>3, <1>4
    <2>. QED BY <2>1, <1>2, <1>3, <1>4, Unique
  <1>5. CASE ~((a % n) + d < n)
    <2>1. (a % n) + d - n \in 0..n-1 /\ a + d = n * (q + 1) + ((a % n) + d - n)
      BY <1>1, <1>3, <1>5
    <2>2. (a % n) + d - n = (a + d) % n
      BY <2>1, <1>2, <1>3, Unique, q + 1 \in Int
    <2>. QED BY <2>2, <1>5
  <1>. QED BY <1>4, <1>5
(* A place counted from the start of the ring, and once around.            *)
LEMMA Around == ASSUME NEW n \in Nat \ {0}, NEW a \in Nat
                PROVE  /\ a < n => a % n = a
                       /\ (a + n) % n = a % n
  <1>1. PICK q \in Int : a = n * q + (a % n)
    BY Divided
  <1>2. PICK p \in Int : a + n = n * p + ((a + n) % n)
    <2>1. a + n \in Nat
      OBVIOUS
    <2>. QED BY <2>1, Divided, Zenon
  <1>3. a % n \in 0..n-1 /\ (a + n) % n \in 0..n-1
    BY Divided
  <1>4. ASSUME a < n PROVE a % n = a
    <2>1. n * q + (a % n) = n * 0 + a /\ a \in 0..n-1
      BY <1>1, <1>4
    <2>. QED BY <2>1, <1>3, Unique
  <1>5. n * p + ((a + n) % n) = n * (q + 1) + (a % n)
    BY <1>1, <1>2, <1>3
  <1>6. (a + n) % n = a % n
    BY <1>5, <1>3, q + 1 \in Int, Unique
  <1>. QED BY <1>4, <1>6

(* Two places less than a ring apart are as far apart as the ring says.    *)
LEMMA ApartBy == ASSUME NEW n \in Nat \ {0}, NEW a \in Nat, NEW d \in 0..n-1
                 PROVE  (((a + d) % n) + n - (a % n)) % n = d
  <1>2. (a + d) % n = IF (a % n) + d < n THEN (a % n) + d ELSE (a % n) + d - n
    BY Further
  <1>3. a % n \in 0..n-1
    BY Divided
  <1>4. d % n = d /\ (d + n) % n = d
    BY Around
  <1>5. CASE (a % n) + d < n
    <2>1. ((a + d) % n) + n - (a % n) = d + n
      BY <1>2, <1>3, <1>5
    <2>. QED BY <2>1, <1>4
  <1>6. CASE ~((a % n) + d < n)
    <2>1. ((a + d) % n) + n - (a % n) = d
      BY <1>2, <1>3, <1>6
    <2>. QED BY <2>1, <1>4
  <1>. QED BY <1>5, <1>6

LEMMA Apart == ASSUME NEW n \in Nat \ {0}, NEW a \in Nat, NEW b \in Nat, a <= b, b < a + n
               PROVE  ((b % n) + n - (a % n)) % n = b - a
  <1>1. PICK d \in 0..n-1 : b = a + d
    <2>1. b - a \in 0..n-1 /\ b = a + (b - a)
      OBVIOUS
    <2>. QED BY <2>1, Zenon
  <1>2. b - a = d
    BY <1>1
  <1>. QED BY <1>1, <1>2, ApartBy

(* So are two of which the first lies behind, a ring's length added.       *)
LEMMA Behind == ASSUME NEW n \in Nat \ {0}, NEW a \in Nat, NEW b \in Nat, b < a, a <= b + n
                PROVE  ((b % n) + n - (a % n)) % n = b + n - a
  <1>1. (b + n) % n = b % n
    BY Around
  <1>2. PICK e \in Nat : e = b + n
    <2>1. b + n \in Nat
      OBVIOUS
    <2>. QED BY <2>1
  <1>3. ((e % n) + n - (a % n)) % n = e - a
    <2>1. a <= e /\ e < a + n
      BY <1>2
    <2>. QED BY <2>1, Apart
  <1>. QED BY <1>1, <1>2, <1>3
-----------------------------------------------------------------------------
(* Where records start.                                                    *)
LEMMA Logged == ASSUME NEW c \in Cpu, log \in [Cpu -> Seq(Record)]
                PROVE  /\ log[c] \in Seq(Record) /\ Len(log[c]) \in Nat
                       /\ DOMAIN log[c] = 1..Len(log[c])
                       /\ Next1(c) \in Nat \ {0} /\ Next1(c) = Len(log[c]) + 1
  BY DEF Next1

LEMMA CountsBefore ==
  ASSUME NEW c \in Cpu, log \in [Cpu -> Seq(Record)], NEW i \in 1..Next1(c)
  PROVE  /\ Samples(c, i) \in 0..i-1
         /\ IsFiniteSet({j \in 1..i-1 : log[c][j].kind = "sample"})
  <1>. DEFINE S == {j \in 1..i-1 : log[c][j].kind = "sample"}
  <1>1. i \in Nat \ {0} /\ i - 1 \in Nat
    BY Logged
  <1>2. IsFiniteSet(1..i-1) /\ Cardinality(1..i-1) = i-1
    <2>1. 1 <= i
      BY <1>1
    <2>. QED BY <1>1, FS_Interval
  <1>3. IsFiniteSet(S) /\ Cardinality(S) <= i-1 /\ Cardinality(S) \in Nat
    BY <1>2, FS_Subset, FS_CardinalityType
  <1>. QED BY <1>1, <1>3 DEF Samples

LEMMA SamplesStep ==
  ASSUME NEW c \in Cpu, log \in [Cpu -> Seq(Record)], NEW i \in DOMAIN log[c]
  PROVE  Samples(c, i + 1) = Samples(c, i) + (IF log[c][i].kind = "sample" THEN 1 ELSE 0)
  <1>. DEFINE S(k) == {j \in 1..k-1 : log[c][j].kind = "sample"}
  <1>1. i \in 1..Next1(c) /\ i + 1 \in 1..Next1(c) /\ i \in Nat
    BY Logged
  <1>2. IsFiniteSet(S(i)) /\ i \notin S(i)
    BY <1>1, CountsBefore
  <1>3. CASE log[c][i].kind = "sample"
    <2>1. S(i + 1) = S(i) \cup {i}
      BY <1>1, <1>3
    <2>. QED BY <2>1, <1>2, <1>3, FS_AddElement DEF Samples
  <1>4. CASE log[c][i].kind # "sample"
    <2>1. S(i + 1) = S(i)
      BY <1>1, <1>4
    <2>2. Samples(c, i) \in 0..i-1
      BY <1>1, CountsBefore
    <2>3. Samples(c, i + 1) = Samples(c, i)
      BY <2>1 DEF Samples
    <2>. QED BY <2>2, <2>3, <1>1, <1>4
  <1>. QED BY <1>3, <1>4

LEMMA Sizes == ASSUME SizeAssumption, NEW rec \in Record
               PROVE  Size(rec) \in 1..N
  BY DEF SizeAssumption, Size

(* A record starts where the one before it ends.                           *)
LEMMA StartStep ==
  ASSUME SizeAssumption, NEW c \in Cpu, log \in [Cpu -> Seq(Record)], NEW i \in DOMAIN log[c]
  PROVE  Start(c, i + 1) = Start(c, i) + Size(log[c][i])
  <1>. DEFINE s == Samples(c, i)
  <1>1. i \in 1..Next1(c) /\ i \in Nat
    BY Logged
  <1>2. s \in 0..i-1
    BY <1>1, CountsBefore
  <1>3. Samples(c, i + 1) = s + (IF log[c][i].kind = "sample" THEN 1 ELSE 0)
    BY SamplesStep
  <1>4. SampleSize \in Int /\ OtherSize \in Int
    BY DEF SizeAssumption
  <1>5. CASE log[c][i].kind = "sample"
    <2>1. Start(c, i + 1) = (s + 1) * SampleSize + ((i + 1) - 1 - (s + 1)) * OtherSize
      BY <1>3, <1>5 DEF Start
    <2>2. (s + 1) * SampleSize = s * SampleSize + SampleSize
      BY <1>2, <1>4
    <2>3. (i + 1) - 1 - (s + 1) = i - 1 - s
      BY <1>1, <1>2
    <2>4. s * SampleSize \in Int /\ (i - 1 - s) * OtherSize \in Int
      BY <1>1, <1>2, <1>4
    <2>. QED BY <2>1, <2>2, <2>3, <2>4, <1>4, <1>5 DEF Start, Size
  <1>6. CASE log[c][i].kind # "sample"
    <2>1. Start(c, i + 1) = s * SampleSize + ((i + 1) - 1 - s) * OtherSize
      BY <1>2, <1>3, <1>6 DEF Start
    <2>2. ((i + 1) - 1 - s) * OtherSize = (i - 1 - s) * OtherSize + OtherSize
      BY <1>1, <1>2, <1>4
    <2>4. s * SampleSize \in Int /\ (i - 1 - s) * OtherSize \in Int
      BY <1>1, <1>2, <1>4
    <2>. QED BY <2>1, <2>2, <2>4, <1>4, <1>6 DEF Start, Size
  <1>. QED BY <1>5, <1>6

LEMMA StartType ==
  ASSUME SizeAssumption, NEW c \in Cpu, log \in [Cpu -> Seq(Record)], NEW i \in 1..Next1(c)
  PROVE  Start(c, i) \in Nat
  <1>1. Samples(c, i) \in Nat /\ i - 1 - Samples(c, i) \in Nat
    <2>1. i \in Nat
      BY Logged
    <2>2. Samples(c, i) \in 0..i-1
      BY CountsBefore
    <2>. QED BY <2>1, <2>2
  <1>2. SampleSize \in Nat /\ OtherSize \in Nat
    BY DEF SizeAssumption
  <1>. QED BY <1>1, <1>2 DEF Start
LEMMA Weighted ==
  ASSUME NEW s \in Nat, NEW t \in Nat, NEW u \in Nat, NEW v \in Nat, NEW a \in Nat, NEW b \in Nat,
         s <= t, u <= v
  PROVE  s * a + u * b <= t * a + v * b
  <1>1. s * a <= t * a /\ u * b <= v * b
    OBVIOUS
  <1>2. s * a \in Nat /\ t * a \in Nat /\ u * b \in Nat /\ v * b \in Nat
    OBVIOUS
  <1>. QED BY <1>1, <1>2

(* Later records start later.                                              *)
LEMMA Later ==
  ASSUME SizeAssumption, NEW c \in Cpu, log \in [Cpu -> Seq(Record)],
         NEW i \in 1..Next1(c), NEW j \in 1..Next1(c), i <= j
  PROVE  Start(c, i) <= Start(c, j)
  <1>. DEFINE S(k) == {m \in 1..k-1 : log[c][m].kind = "sample"}
              O(k) == {m \in 1..k-1 : log[c][m].kind # "sample"}
  <1>1. i \in Nat \ {0} /\ j \in Nat \ {0} /\ i - 1 \in Nat /\ j - 1 \in Nat
    BY Logged
  <1>2. \A k \in Nat \ {0} : IsFiniteSet(1..k-1) /\ Cardinality(1..k-1) = k-1
    <2>. SUFFICES ASSUME NEW k \in Nat \ {0}
                  PROVE  IsFiniteSet(1..k-1) /\ Cardinality(1..k-1) = k-1
      OBVIOUS
    <2>1. k - 1 \in Nat /\ 1 <= k
      OBVIOUS
    <2>. QED BY <2>1, FS_Interval
  <1>3. \A k \in {i, j} : /\ IsFiniteSet(S(k)) /\ IsFiniteSet(O(k))
                         /\ Cardinality(S(k)) + Cardinality(O(k)) = k - 1
                         /\ Cardinality(S(k)) \in Nat /\ Cardinality(O(k)) \in Nat
    <2>. SUFFICES ASSUME NEW k \in {i, j}
                  PROVE  /\ IsFiniteSet(S(k)) /\ IsFiniteSet(O(k))
                         /\ Cardinality(S(k)) + Cardinality(O(k)) = k - 1
                         /\ Cardinality(S(k)) \in Nat /\ Cardinality(O(k)) \in Nat
      OBVIOUS
    <2>1. IsFiniteSet(S(k)) /\ IsFiniteSet(O(k))
      BY <1>1, <1>2, FS_Subset
    <2>2. S(k) \cup O(k) = 1..k-1 /\ S(k) \cap O(k) = {}
      OBVIOUS
    <2>3. Cardinality(S(k) \cup O(k)) = Cardinality(S(k)) + Cardinality(O(k)) - Cardinality(S(k) \cap O(k))
      BY <2>1, FS_Union
    <2>4. Cardinality({}) = 0
      BY FS_EmptySet
    <2>5. Cardinality(S(k)) \in Nat /\ Cardinality(O(k)) \in Nat
      BY <2>1, FS_CardinalityType
    <2>6. Cardinality(1..k-1) = k - 1
      BY <1>1, <1>2
    <2>7. Cardinality(S(k)) + Cardinality(O(k)) = k - 1
      <3>1. Cardinality(S(k) \cap O(k)) = 0 /\ Cardinality(S(k) \cup O(k)) = k - 1
        BY ONLY <2>2, <2>4, <2>6, Zenon
      <3>. HIDE DEF S, O
      <3>. QED BY <3>1, <2>3, <2>5
    <2>. QED BY <2>1, <2>5, <2>7
  <1>4. S(i) \subseteq S(j) /\ O(i) \subseteq O(j)
    BY <1>1
  <1>5. Cardinality(S(i)) <= Cardinality(S(j)) /\ Cardinality(O(i)) <= Cardinality(O(j))
    BY <1>3, <1>4, FS_Subset
  <1>6. Samples(c, i) = Cardinality(S(i)) /\ Samples(c, j) = Cardinality(S(j))
    BY DEF Samples
  <1>7. /\ Samples(c, i) \in Nat /\ Samples(c, j) \in Nat /\ Samples(c, i) <= Samples(c, j)
        /\ i - 1 - Samples(c, i) \in Nat /\ j - 1 - Samples(c, j) \in Nat
        /\ i - 1 - Samples(c, i) <= j - 1 - Samples(c, j)
    <2>. HIDE DEF S, O
    <2>. QED BY <1>1, <1>3, <1>5, <1>6
  <1>8. SampleSize \in Nat /\ OtherSize \in Nat
    BY DEF SizeAssumption
  <1>. QED BY <1>7, <1>8, Weighted DEF Start

LEMMA StrictlyLater ==
  ASSUME SizeAssumption, NEW c \in Cpu, log \in [Cpu -> Seq(Record)],
         NEW i \in DOMAIN log[c], NEW j \in 1..Next1(c), i < j
  PROVE  Start(c, i) + Size(log[c][i]) <= Start(c, j)
  <1>1. i + 1 \in 1..Next1(c) /\ i + 1 <= j
    BY Logged
  <1>2. Start(c, i + 1) <= Start(c, j)
    BY <1>1, Later
  <1>. QED BY <1>2, StartStep

(* The order of starts is the order of records.                            *)
LEMMA Ordered ==
  ASSUME SizeAssumption, NEW c \in Cpu, log \in [Cpu -> Seq(Record)],
         NEW i \in 1..Next1(c), NEW j \in 1..Next1(c), Start(c, i) < Start(c, j)
  PROVE  i < j /\ i \in DOMAIN log[c]
  <1>1. i \in Nat /\ j \in Nat /\ Start(c, i) \in Nat /\ Start(c, j) \in Nat
    BY Logged, StartType
  <1>2. i < j
    BY <1>1, Later
  <1>. QED BY <1>1, <1>2, Logged
-----------------------------------------------------------------------------
(* Where the loop dereferences begin it stands on a whole record, the next *)
(* one of the range, and the range is not wrapped.                         *)
Standing(j) ==
  /\ j \in DOMAIN log[cpu] /\ j + 1 \in 1..Next1(cpu) /\ At(j)
  /\ begin = Start(cpu, j) % N /\ mem[cpu][begin] = <<j, 0>> /\ AtHeader
  /\ TheRecord = log[cpu][j] /\ HeaderSize = Size(log[cpu][j])
  /\ begin + HeaderSize <= end /\ end < N
  /\ \A o \in 0..HeaderSize-1 : mem[cpu][begin + o] = <<j, o>>
  /\ Start(cpu, j + 1) = Start(cpu, j) + HeaderSize /\ Start(cpu, j + 1) <= h
  /\ tail[cpu] % N <= end

(* What the end of the range is, seen from its beginning. *)
LEMMA RangeEnd ==
  ASSUME SizeAssumption, Typed, \A c \in Cpu : Ring(c), Pass, InPass
  PROVE  /\ tail[cpu] \in Nat /\ h \in Nat /\ tail[cpu] % N \in 0..N-1 /\ end \in 0..N-1
         /\ h - tail[cpu] \in 0..N-1
         /\ end = IF (tail[cpu] % N) + (h - tail[cpu]) < N THEN (tail[cpu] % N) + (h - tail[cpu])
                    ELSE (tail[cpu] % N) + (h - tail[cpu]) - N
  <1>1. cpu \in Cpu /\ tail[cpu] <= h /\ h <= head[cpu] /\ end = h % N
    BY DEF Pass
  <1>2. tail[cpu] \in Nat /\ h \in Nat /\ head[cpu] \in Nat /\ N \in Nat \ {0}
    BY <1>1 DEF Typed, TypeOK, SizeAssumption
  <1>3. head[cpu] < tail[cpu] + N
    BY <1>1 DEF Ring
  <1>4. h - tail[cpu] \in 0..N-1 /\ tail[cpu] + (h - tail[cpu]) = h
    BY <1>1, <1>2, <1>3
  <1>5. tail[cpu] % N \in 0..N-1 /\ h % N \in 0..N-1
    BY <1>2, Divided
  <1>6. h % N = IF (tail[cpu] % N) + (h - tail[cpu]) < N THEN (tail[cpu] % N) + (h - tail[cpu])
                  ELSE (tail[cpu] % N) + (h - tail[cpu]) - N
    BY <1>2, <1>4, Further
  <1>. QED BY <1>1, <1>2, <1>4, <1>5, <1>6

LEMMA InPlace ==
  ASSUME SizeAssumption, Typed, \A c \in Cpu : Ring(c), Pass, InPass, begin < end
  PROVE  \E j \in DOMAIN log[cpu] : Standing(j)
  <1>1. cpu \in Cpu /\ log \in [Cpu -> Seq(Record)]
    BY DEF Pass, Typed
  <1>2. PICK j \in 1..Next1(cpu) : At(j)
    BY DEF Pass
  <1>3. PICK k \in 1..Next1(cpu) : h = Start(cpu, k)
    BY DEF Pass
  <1>4. Start(cpu, j) \in Nat /\ j \in Nat
    BY <1>1, StartType, Logged
  <1>5. /\ tail[cpu] \in Nat /\ h \in Nat /\ tail[cpu] % N \in 0..N-1 /\ end \in 0..N-1
        /\ h - tail[cpu] \in 0..N-1 /\ N \in Nat \ {0}
    BY RangeEnd DEF SizeAssumption
  <1>6. tail[cpu] % N <= end
    BY <1>5 DEF Pass
  <1>7. end = (tail[cpu] % N) + (h - tail[cpu])
    BY <1>5, <1>6, RangeEnd
  <1>8. begin = (tail[cpu] % N) + (Start(cpu, j) - tail[cpu]) /\ tail[cpu] <= Start(cpu, j)
    BY <1>2 DEF At
  <1>9. Start(cpu, j) < Start(cpu, k)
    BY <1>3, <1>4, <1>5, <1>7, <1>8
  <1>10. j \in DOMAIN log[cpu] /\ j < k
    BY <1>1, <1>9, Ordered
  <1>11. Start(cpu, j) + Size(log[cpu][j]) <= h
    BY <1>1, <1>3, <1>10, StrictlyLater
  <1>12. Start(cpu, j + 1) = Start(cpu, j) + Size(log[cpu][j])
    BY <1>1, <1>10, StartStep
  <1>13. Size(log[cpu][j]) \in 1..N
    <2>1. log[cpu][j] \in Record
      BY <1>1, <1>10
    <2>. QED BY <2>1, Sizes
  <1>14. ASSUME NEW o \in 0..Size(log[cpu][j])-1
         PROVE  mem[cpu][begin + o] = <<j, o>>
    <2>1. mem[cpu][(Start(cpu, j) + o) % N] = <<j, o>>
      BY <1>1, <1>8, <1>10 DEF Ring
    <2>2. PICK d \in 0..N-1 : d = Start(cpu, j) + o - tail[cpu]
      BY <1>4, <1>5, <1>8, <1>11, <1>13
    <2>3. Start(cpu, j) + o = tail[cpu] + d /\ (tail[cpu] % N) + d < N
      BY <1>4, <1>5, <1>7, <1>8, <1>11, <1>13, <2>2
    <2>4. (tail[cpu] + d) % N = (tail[cpu] % N) + d
      BY <1>5, <2>3, Further
    <2>5. (tail[cpu] % N) + d = begin + o
      BY <1>4, <1>5, <1>8, <2>2
    <2>. QED BY <2>1, <2>3, <2>4, <2>5
  <1>15. begin \in Nat
    BY DEF Typed, TypeOK
  <1>16. mem[cpu][begin] = <<j, 0>>
    BY <1>13, <1>14, <1>15
  <1>17. AtHeader /\ TheRecord = log[cpu][j] /\ HeaderSize = Size(log[cpu][j])
    BY <1>10, <1>16, <1>1 DEF AtHeader, TheRecord, HeaderSize, Blank
  <1>18. begin + HeaderSize <= end /\ end < N
    BY <1>4, <1>5, <1>7, <1>8, <1>11, <1>13, <1>17
  <1>19. j + 1 \in 1..Next1(cpu)
    BY <1>1, <1>10, Logged
  <1>20. begin = Start(cpu, j) % N
    <2>1. PICK d \in 0..N-1 : Start(cpu, j) = tail[cpu] + d
      <3>1. Start(cpu, j) - tail[cpu] \in 0..N-1 /\ Start(cpu, j) = tail[cpu] + (Start(cpu, j) - tail[cpu])
        BY <1>4, <1>5, <1>8, <1>11, <1>13
      <3>. QED BY <3>1, Zenon
    <2>2. (tail[cpu] % N) + d < N /\ begin = (tail[cpu] % N) + d
      BY <1>4, <1>5, <1>7, <1>8, <1>11, <1>13, <2>1
    <2>. QED BY <1>5, <2>1, <2>2, Further
  <1>. QED BY <1>2, <1>6, <1>10, <1>11, <1>12, <1>14, <1>16, <1>17, <1>18, <1>19, <1>20
       DEF Standing
-----------------------------------------------------------------------------
(* What the parts of the invariant depend on.                              *)
LEMMA StartSame ==
  ASSUME log' = log, NEW c, NEW i
  PROVE  Start(c, i)' = Start(c, i) /\ Next1(c)' = Next1(c)
  BY DEF Start, Samples, Next1

LEMMA RingSame ==
  ASSUME UNCHANGED <<ring, tail>>, \A c \in Cpu : Ring(c)
  PROVE  \A c \in Cpu : Ring(c)'
  BY DEF ring, Ring, Next1, Start, Samples

LEMMA PassSame ==
  ASSUME UNCHANGED <<ring, tail, cpu, locals, exam>>, Pass, InPass, InPass',
         pc' \in {"lookup", "count"} => begin < end /\ IsSample,
         pc' = "commit" => ~(begin < end)
  PROVE  Pass'
  <1>1. /\ log' = log /\ head' = head /\ mem' = mem /\ tail' = tail /\ cpu' = cpu
        /\ h' = h /\ begin' = begin /\ end' = end /\ exam' = exam
    BY DEF ring, locals
  <1>2. \A c, i : Start(c, i)' = Start(c, i) /\ Next1(c)' = Next1(c)
    BY <1>1, StartSame
  <1>3. IsSample' = IsSample
    BY <1>1 DEF IsSample, TheRecord
  <1>4. \A j : At(j)' = At(j)
    BY <1>1, <1>2 DEF At
  <1>. QED BY <1>1, <1>2, <1>3, <1>4 DEF Pass, InPass

LEMMA CountsSame ==
  ASSUME UNCHANGED <<log, tail, cpu, exam, tally, old>>, Counts, InPass => InPass'
  PROVE  Counts'
  <1>1. \A c, i : Start(c, i)' = Start(c, i)
    BY StartSame
  <1>. QED BY <1>1 DEF Counts

LEMMA ExactSame ==
  ASSUME UNCHANGED <<log, profile, tally, old>>, CountedOnce, Exact
  PROVE  CountedOnce' /\ Exact'
  BY DEF CountedOnce, Exact, OnePerPid, Has, Amount

(* A turn of the loop: the record under begin has been dealt with.         *)
LEMMA Advance ==
  ASSUME SizeAssumption, Typed, \A c \in Cpu : Ring(c), Pass, InPass, begin < end,
         Inc, UNCHANGED <<ring, tail, cpu, h, end>>, pc' = "read"
  PROVE  Pass' /\ begin' \in 0..N-1 /\ exam \subseteq exam'
  <1>1. PICK j \in DOMAIN log[cpu] : Standing(j)
    BY InPlace
  <1>2. cpu \in Cpu /\ log \in [Cpu -> Seq(Record)]
    BY DEF Pass, Typed
  <1>3. Size(log[cpu][j]) \in 1..N
    <2>1. log[cpu][j] \in Record
      BY <1>2
    <2>. QED BY <2>1, Sizes
  <1>4. begin \in 0..N-1 /\ end \in 0..N-1 /\ N \in Nat \ {0} /\ tail[cpu] \in Nat
    BY <1>2 DEF Typed, TypeOK, SizeAssumption
  <1>5. begin' = begin + HeaderSize /\ exam' = exam \cup {j}
    BY <1>1, <1>3, <1>4 DEF Inc, Standing
  <1>6. begin' \in 0..N-1 /\ begin' <= end /\ HeaderSize \in 1..N
    BY <1>1, <1>3, <1>4, <1>5 DEF Standing
  <1>7. Start(cpu, j) \in Nat /\ j \in Nat /\ j \in 1..Next1(cpu) /\ j + 1 \in 1..Next1(cpu)
    BY <1>1, <1>2, Logged, StartType DEF Standing
  <1>8. Start(cpu, j + 1) = Start(cpu, j) + HeaderSize /\ Start(cpu, j + 1) <= h
    BY <1>1 DEF Standing
  <1>9. /\ tail[cpu] <= Start(cpu, j)
        /\ begin = (tail[cpu] % N) + (Start(cpu, j) - tail[cpu])
        /\ exam = {i \in DOMAIN log[cpu] : tail[cpu] <= Start(cpu, i) /\ Start(cpu, i) < Start(cpu, j)}
    BY <1>1 DEF Standing, At
  <1>10. \A i \in DOMAIN log[cpu] :
           Start(cpu, i) < Start(cpu, j + 1) <=> Start(cpu, i) < Start(cpu, j) \/ i = j
    <2>. SUFFICES ASSUME NEW i \in DOMAIN log[cpu]
                  PROVE  Start(cpu, i) < Start(cpu, j + 1) <=> Start(cpu, i) < Start(cpu, j) \/ i = j
      OBVIOUS
    <2>1. i \in 1..Next1(cpu) /\ i \in Nat /\ Start(cpu, i) \in Nat
      BY <1>2, Logged, StartType
    <2>2. ASSUME Start(cpu, i) < Start(cpu, j + 1), i # j
          PROVE  Start(cpu, i) < Start(cpu, j)
      <3>1. i < j + 1
        BY <2>1, <2>2, <1>2, <1>7, Ordered
      <3>2. i < j
        BY <3>1, <2>1, <2>2, <1>7
      <3>3. Start(cpu, i) + Size(log[cpu][i]) <= Start(cpu, j)
        BY <3>2, <1>2, <1>7, StrictlyLater
      <3>4. Size(log[cpu][i]) \in 1..N
        <4>1. log[cpu][i] \in Record
          BY <1>2
        <4>. QED BY <4>1, Sizes
      <3>. QED BY <3>3, <3>4, <2>1, <1>7, <1>4
    <2>. QED BY <2>1, <2>2, <1>4, <1>6, <1>7, <1>8
  <1>11. exam' = {i \in DOMAIN log[cpu] : tail[cpu] <= Start(cpu, i) /\ Start(cpu, i) < Start(cpu, j + 1)}
    BY <1>1, <1>5, <1>9, <1>10
  <1>12. /\ log' = log /\ head' = head /\ mem' = mem /\ tail' = tail /\ cpu' = cpu
         /\ h' = h /\ end' = end
    BY DEF ring
  <1>13. \A c, i : Start(c, i)' = Start(c, i) /\ Next1(c)' = Next1(c)
    BY <1>12, StartSame
  <1>14. begin' = (tail[cpu] % N) + (Start(cpu, j + 1) - tail[cpu]) /\ tail[cpu] <= Start(cpu, j + 1)
    <2>1. tail[cpu] % N \in 0..N-1
      BY <1>4, Divided
    <2>. QED BY <2>1, <1>4, <1>5, <1>6, <1>7, <1>8, <1>9
  <1>15. At(j + 1)'
    BY <1>8, <1>11, <1>12, <1>13, <1>14 DEF At
  <1>16. ~(tail[cpu] % N > end)
    <2>1. tail[cpu] % N \in 0..N-1
      BY <1>4, Divided
    <2>. QED BY <2>1, <1>1, <1>4 DEF Standing
  <1>17. Pass'
    BY <1>2, <1>7, <1>12, <1>13, <1>15, <1>16 DEF Pass, InPass
  <1>. QED BY <1>5, <1>6, <1>17
-----------------------------------------------------------------------------
(* The kernel writes a record: it comes after those that are there, on     *)
(* words the tail has given back.                                          *)
LEMMA Written ==
  ASSUME SizeAssumption, Typed, NEW c \in Cpu, NEW rec \in Record, Emit(c, rec)
  PROVE  /\ log' \in [Cpu -> Seq(Record)]
         /\ \A d \in Cpu \ {c} : log'[d] = log[d] /\ mem'[d] = mem[d] /\ head'[d] = head[d]
         /\ Len(log'[c]) = Len(log[c]) + 1 /\ log'[c][Len(log[c]) + 1] = rec
         /\ head'[c] = head[c] + Size(rec) /\ head[c] + Size(rec) < tail[c] + N
         /\ \A d \in Cpu : /\ DOMAIN log[d] \subseteq DOMAIN log'[d]
                           /\ \A i \in DOMAIN log[d] : log'[d][i] = log[d][i]
         /\ DOMAIN log'[c] = DOMAIN log[c] \cup {Len(log[c]) + 1}
         /\ head' \in [Cpu -> Nat]
         /\ Size(rec) \in 1..N
         /\ \A w \in 0..N-1 :
              mem'[c][w] = IF (w + N - (head[c] % N)) % N < Size(rec)
                             THEN <<Len(log[c]) + 1, (w + N - (head[c] % N)) % N>> ELSE mem[c][w]
  <1>1. Size(rec) \in 1..N
    BY Sizes
  <1>2. log \in [Cpu -> Seq(Record)] /\ head \in [Cpu -> Nat] /\ mem \in [Cpu -> [0..N-1 -> Nat \X Nat]]
    BY DEF Typed, TypeOK
  <1>3. log' = [log EXCEPT ![c] = Append(log[c], rec)]
    BY DEF Emit
  <1>4. log[c] \in Seq(Record) /\ Append(log[c], rec) \in Seq(Record)
    BY <1>2
  <1>5. log' \in [Cpu -> Seq(Record)] /\ log'[c] = Append(log[c], rec)
        /\ \A d \in Cpu \ {c} : log'[d] = log[d]
    BY <1>2, <1>3, <1>4
  <1>6. Len(log'[c]) = Len(log[c]) + 1 /\ log'[c][Len(log[c]) + 1] = rec
        /\ DOMAIN log'[c] = DOMAIN log[c] \cup {Len(log[c]) + 1}
        /\ \A i \in DOMAIN log[c] : log'[c][i] = log[c][i]
    <2>1. \A s \in Seq(Record) :
            /\ Len(Append(s, rec)) = Len(s) + 1 /\ Append(s, rec)[Len(s) + 1] = rec
            /\ DOMAIN Append(s, rec) = DOMAIN s \cup {Len(s) + 1}
            /\ \A i \in DOMAIN s : Append(s, rec)[i] = s[i]
      OBVIOUS
    <2>. QED BY <1>4, <1>5, <2>1
  <1>7. \A d \in Cpu : /\ DOMAIN log[d] \subseteq DOMAIN log'[d]
                      /\ \A i \in DOMAIN log[d] : log'[d][i] = log[d][i]
    BY <1>5, <1>6
  <1>8. head' = [head EXCEPT ![c] = head[c] + Size(rec)] /\ head[c] + Size(rec) < tail[c] + N
    BY DEF Emit
  <1>9. head'[c] = head[c] + Size(rec) /\ head' \in [Cpu -> Nat]
        /\ \A d \in Cpu \ {c} : head'[d] = head[d]
    BY <1>1, <1>2, <1>8
  <1>10. mem' = [mem EXCEPT ![c] =
               [w \in 0..N-1 |->
                  LET o == (w + N - (head[c] % N)) % N
                  IN  IF o < Size(rec) THEN <<Len(log'[c]), o>> ELSE mem[c][w]]]
    BY DEF Emit
  <1>11. \A d \in Cpu \ {c} : mem'[d] = mem[d]
    BY <1>2, <1>10
  <1>12. \A w \in 0..N-1 :
              mem'[c][w] = IF (w + N - (head[c] % N)) % N < Size(rec)
                             THEN <<Len(log[c]) + 1, (w + N - (head[c] % N)) % N>> ELSE mem[c][w]
    BY <1>2, <1>6, <1>10
  <1>. QED BY <1>1, <1>5, <1>6, <1>7, <1>8, <1>9, <1>11, <1>12

LEMMA EmitTyped ==
  ASSUME SizeAssumption, Typed, NEW c \in Cpu, NEW rec \in Record, Emit(c, rec)
  PROVE  Typed'
  <1>1. mem' \in [Cpu -> [0..N-1 -> Nat \X Nat]]
    <2>1. ASSUME NEW w \in 0..N-1
          PROVE  (w + N - (head[c] % N)) % N \in Nat
      <3>1. head[c] \in Nat /\ N \in Nat \ {0}
        BY DEF Typed, TypeOK, SizeAssumption
      <3>2. head[c] % N \in 0..N-1
        BY <3>1, Divided
      <3>3. w + N - (head[c] % N) \in Nat
        BY <3>1, <3>2
      <3>4. (w + N - (head[c] % N)) % N \in 0..N-1
        BY <3>1, <3>3, Divided
      <3>. QED BY <3>4
    <2>2. Len(log'[c]) \in Nat
      BY Written, Len(log[c]) \in Nat DEF Typed
    <2>. QED BY <2>1, <2>2 DEF Emit, Typed
  <1>2. \A d \in Cpu : \A w \in 0..N-1 :
           mem'[d][w] = Blank \/ /\ mem'[d][w][1] \in DOMAIN log'[d]
                                 /\ mem'[d][w][2] < Size(log'[d][mem'[d][w][1]])
    <2>1. ASSUME NEW d \in Cpu, NEW w \in 0..N-1, mem'[d][w] = mem[d][w]
          PROVE  mem'[d][w] = Blank \/ /\ mem'[d][w][1] \in DOMAIN log'[d]
                                       /\ mem'[d][w][2] < Size(log'[d][mem'[d][w][1]])
      <3>1. mem[d][w] = Blank \/ /\ mem[d][w][1] \in DOMAIN log[d]
                                 /\ mem[d][w][2] < Size(log[d][mem[d][w][1]])
        BY DEF Typed, TypeOK
      <3>2. /\ DOMAIN log[d] \subseteq DOMAIN log'[d]
            /\ \A i \in DOMAIN log[d] : log'[d][i] = log[d][i]
        BY Written
      <3>. QED BY <2>1, <3>1, <3>2
    <2>2. ASSUME NEW w \in 0..N-1, mem'[c][w] # mem[c][w]
          PROVE  /\ mem'[c][w][1] \in DOMAIN log'[c]
                 /\ mem'[c][w][2] < Size(log'[c][mem'[c][w][1]])
      <3>. DEFINE o == (w + N - (head[c] % N)) % N
      <3>1. o < Size(rec) /\ mem'[c][w] = <<Len(log[c]) + 1, o>>
        BY <2>2, Written
      <3>2. Len(log[c]) + 1 \in DOMAIN log'[c] /\ log'[c][Len(log[c]) + 1] = rec
        BY Written
      <3>3. mem'[c][w][1] = Len(log[c]) + 1 /\ mem'[c][w][2] = o
        BY <3>1
      <3>. QED BY <3>1, <3>2, <3>3
    <2>3. \A d \in Cpu \ {c} : mem'[d] = mem[d]
      BY Written
    <2>. QED BY <2>1, <2>2, <2>3
  <1>3. /\ head' \in [Cpu -> Nat] /\ log' \in [Cpu -> Seq(Record)]
        /\ \A d \in Cpu : log'[d] \in Seq(Record)
    BY Written
  <1>4. UNCHANGED <<tail, known, pc, cpu, locals, profile>>
    BY DEF Emit
  <1>. QED BY <1>1, <1>2, <1>3, <1>4 DEF Typed, TypeOK, locals

LEMMA StartKept ==
  ASSUME SizeAssumption, Typed, NEW c \in Cpu, NEW rec \in Record, Emit(c, rec),
         NEW d \in Cpu, NEW i \in 1..Next1(d)
  PROVE  Start(d, i)' = Start(d, i)
  <1>1. i - 1 \in 0..Len(log[d]) /\ DOMAIN log[d] = 1..Len(log[d]) /\ Len(log[d]) \in Nat
    BY Logged DEF Typed
  <1>2. {j \in 1..i-1 : log'[d][j].kind = "sample"} = {j \in 1..i-1 : log[d][j].kind = "sample"}
    <2>1. \A j \in 1..i-1 : log'[d][j] = log[d][j]
      BY <1>1, Written
    <2>. QED BY <2>1
  <1>. QED BY <1>2 DEF Start, Samples

(* What holds of starts holds after the step too.                          *)
Steps == log \in [Cpu -> Seq(Record)] =>
           \A c \in Cpu : \A i \in DOMAIN log[c] : Start(c, i + 1) = Start(c, i) + Size(log[c][i])

LEMMA StepsNext == Steps'
  <1>1. Steps
    BY SizeAssumption, StartStep DEF Steps
  <1>. QED BY <1>1, PTL

LEMMA EmitRing ==
  ASSUME SizeAssumption, Typed, \A d \in Cpu : Ring(d),
         NEW c \in Cpu, NEW rec \in Record, Emit(c, rec)
  PROVE  \A d \in Cpu : Ring(d)'
  <1>1. log \in [Cpu -> Seq(Record)] /\ log' \in [Cpu -> Seq(Record)] /\ tail' = tail
    BY Written DEF Typed, Emit
  <1>2. ASSUME NEW d \in Cpu
        PROVE  /\ Len(log[d]) \in Nat /\ DOMAIN log[d] = 1..Len(log[d]) /\ Next1(d) = Len(log[d]) + 1
               /\ \A i \in 1..Next1(d) : Start(d, i)' = Start(d, i) /\ Start(d, i) \in Nat
    <2>1. \A i \in 1..Next1(d) : Start(d, i)' = Start(d, i)
      BY StartKept
    <2>2. \A i \in 1..Next1(d) : Start(d, i) \in Nat
      BY <1>1, StartType
    <2>. QED BY <1>1, <2>1, <2>2, Logged
  <1>3. ASSUME NEW d \in Cpu \ {c}
        PROVE  Ring(d)'
    <2>1. log'[d] = log[d] /\ mem'[d] = mem[d] /\ head'[d] = head[d] /\ tail'[d] = tail[d]
      BY <1>1, Written
    <2>2. PICK n \in Nat : n = Next1(d) /\ n = Next1(d)' /\ n \in 1..n /\ DOMAIN log[d] \subseteq 1..n
      BY <1>2, <2>1 DEF Next1
    <2>3. \A i \in 1..n : Start(d, i)' = Start(d, i)
      BY <1>2, <2>2
    <2>4. Ring(d) /\ d \in Cpu
      OBVIOUS
    <2>5. head'[d] = Start(d, n)' /\ tail'[d] <= head'[d] /\ head'[d] < tail'[d] + N
      BY <2>1, <2>2, <2>3, <2>4 DEF Ring
    <2>6. \E k \in 1..n : tail'[d] = Start(d, k)'
      BY <2>1, <2>2, <2>3, <2>4 DEF Ring
    <2>7. \A i \in DOMAIN log'[d] : tail'[d] <= Start(d, i)' =>
             \A o \in 0..Size(log'[d][i])-1 : mem'[d][(Start(d, i)' + o) % N] = <<i, o>>
      BY <2>1, <2>2, <2>3, <2>4 DEF Ring
    <2>. QED BY <2>2, <2>5, <2>6, <2>7 DEF Ring
  <1>4. PICK L \in Nat \ {0} : /\ L = Len(log[c]) + 1 /\ L = Next1(c) /\ Next1(c)' = L + 1
                             /\ DOMAIN log[c] = 1..L-1
    <2>1. Len(log'[c]) = Len(log[c]) + 1
      BY Written
    <2>. QED BY <1>2, <2>1 DEF Next1
  <1>5. Start(c, L) = head[c] /\ Start(c, L)' = head[c]
    BY <1>2, <1>4 DEF Ring
  <1>6. /\ head[c] \in Nat /\ tail[c] \in Nat /\ N \in Nat \ {0} /\ Size(rec) \in 1..N
        /\ tail[c] <= head[c] /\ head'[c] = head[c] + Size(rec) /\ head[c] + Size(rec) < tail[c] + N
    BY Written DEF Typed, TypeOK, SizeAssumption, Ring
  <1>7. Start(c, L + 1)' = head'[c]
    <2>1. L \in DOMAIN log'[c] /\ log'[c][L] = rec
      BY <1>4, Written
    <2>2. \A i \in DOMAIN log'[c] : Start(c, i + 1)' = Start(c, i)' + Size(log'[c][i])
      BY <1>1, StepsNext DEF Steps
    <2>. QED BY <1>5, <1>6, <2>1, <2>2
  <1>8. PICK k \in 1..L : tail'[c] = Start(c, k)'
    BY <1>1, <1>2, <1>4 DEF Ring
  <1>9. ASSUME NEW o \in 0..Size(rec)-1
        PROVE  mem'[c][(head[c] + o) % N] = <<L, o>>
    <2>1. o \in 0..N-1 /\ head[c] + o \in Nat
      BY <1>6
    <2>2. (head[c] + o) % N \in 0..N-1
      BY <1>6, <2>1, Divided
    <2>3. PICK w \in 0..N-1 : w = (head[c] + o) % N
      BY <2>2
    <2>4. (w + N - (head[c] % N)) % N = o
      BY <1>6, <2>1, <2>3, ApartBy
    <2>5. mem'[c][w] = IF (w + N - (head[c] % N)) % N < Size(rec)
                         THEN <<Len(log[c]) + 1, (w + N - (head[c] % N)) % N>> ELSE mem[c][w]
      BY Written
    <2>6. o < Size(rec)
      BY <1>6
    <2>. QED BY <1>4, <2>3, <2>4, <2>5, <2>6
  <1>10. ASSUME NEW i \in DOMAIN log[c], NEW o \in 0..Size(log[c][i])-1, tail[c] <= Start(c, i)
         PROVE  mem'[c][(Start(c, i) + o) % N] = <<i, o>>
    <2>1. i \in 1..Next1(c) /\ i < L /\ L \in 1..Next1(c) /\ Start(c, i) \in Nat
      BY <1>2, <1>4
    <2>2. Start(c, i) + Size(log[c][i]) <= head[c]
      BY <1>1, <1>5, <2>1, StrictlyLater
    <2>3. Size(log[c][i]) \in 1..N
      <3>1. log[c][i] \in Record
        BY <1>1
      <3>. QED BY <3>1, Sizes
    <2>4. PICK p \in Nat : p = Start(c, i) + o
      BY <2>1
    <2>5. p < head[c] /\ tail[c] <= p
      BY <1>6, <2>1, <2>2, <2>3, <2>4, <1>10
    <2>6. ((p % N) + N - (head[c] % N)) % N = p + N - head[c]
      <3>1. head[c] <= p + N
        BY <1>6, <2>5
      <3>. QED BY <1>6, <2>5, <3>1, Behind
    <2>7. ~(p + N - head[c] < Size(rec))
      BY <1>6, <2>5
    <2>8. p % N \in 0..N-1
      BY <1>6, Divided
    <2>9. mem'[c][p % N] = mem[c][p % N]
      <3>1. PICK w \in 0..N-1 : w = p % N
        BY <2>8
      <3>2. mem'[c][w] = IF (w + N - (head[c] % N)) % N < Size(rec)
                           THEN <<Len(log[c]) + 1, (w + N - (head[c] % N)) % N>> ELSE mem[c][w]
        BY Written
      <3>. QED BY <2>6, <2>7, <3>1, <3>2
    <2>10. mem[c][p % N] = <<i, o>>
      BY <2>4, <1>10 DEF Ring
    <2>. QED BY <2>4, <2>9, <2>10
  <1>11. ASSUME NEW i \in DOMAIN log'[c], tail'[c] <= Start(c, i)', NEW o \in 0..Size(log'[c][i])-1
         PROVE  mem'[c][(Start(c, i)' + o) % N] = <<i, o>>
    <2>1. CASE i = L
      <3>1. log'[c][i] = rec /\ Start(c, i)' = head[c]
        BY <1>4, <1>5, <2>1, Written
      <3>. QED BY <2>1, <3>1, <1>9
    <2>2. CASE i \in DOMAIN log[c]
      <3>1. log'[c][i] = log[c][i] /\ i \in 1..Next1(c)
        BY <1>2, <2>2, Written
      <3>2. Start(c, i)' = Start(c, i)
        BY <1>2, <3>1
      <3>. QED BY <1>1, <1>10, <1>11, <2>2, <3>1, <3>2
    <2>3. i = L \/ i \in DOMAIN log[c]
      <3>1. DOMAIN log'[c] = DOMAIN log[c] \cup {Len(log[c]) + 1}
        BY Written
      <3>. QED BY <1>4, <3>1
    <2>. QED BY <2>1, <2>2, <2>3
  <1>12. Ring(c)'
    <2>1. tail'[c] <= head'[c] /\ head'[c] < tail'[c] + N
      BY <1>1, <1>6
    <2>2. L + 1 = Next1(c)' /\ k \in 1..L + 1
      BY <1>4
    <2>3. PICK n \in Nat : n = L + 1
      OBVIOUS
    <2>4. n = Next1(c)' /\ k \in 1..n /\ head'[c] = Start(c, n)'
      BY <1>7, <2>2, <2>3
    <2>. QED BY <1>8, <1>11, <2>1, <2>4 DEF Ring
  <1>. QED BY <1>3, <1>12

LEMMA EmitPass ==
  ASSUME SizeAssumption, Typed, \A d \in Cpu : Ring(d), Pass,
         NEW c \in Cpu, NEW rec \in Record, Emit(c, rec)
  PROVE  Pass'
  <1>1. UNCHANGED <<tail, pc, cpu, h, begin, end, exam>>
    BY DEF Emit, locals, hist
  <1>2. CASE ~InPass
    BY <1>1, <1>2 DEF Pass, InPass
  <1>3. CASE InPass
    <2>1. PICK q \in Cpu : q = cpu /\ q = cpu'
      BY <1>1, <1>3 DEF Pass
    <2>2. /\ log \in [Cpu -> Seq(Record)] /\ h <= head[q]
          /\ head[q] \in Nat /\ h \in Nat /\ N \in Nat /\ Ring(q)
      BY <1>3, <2>1 DEF Pass, Typed, TypeOK, SizeAssumption
    <2>3. PICK n \in Nat : /\ n = Next1(q) /\ n \in 1..n /\ DOMAIN log[q] \subseteq 1..n
      <3>1. /\ Len(log[q]) \in Nat /\ DOMAIN log[q] = 1..Len(log[q])
            /\ Next1(q) = Len(log[q]) + 1
        BY <2>2, Logged
      <3>. QED BY <3>1
    <2>4. \A i \in 1..n : Start(q, i)' = Start(q, i) /\ Start(q, i) \in Nat
      <3>1. \A i \in 1..Next1(q) : Start(q, i)' = Start(q, i)
        BY StartKept
      <3>2. \A i \in 1..Next1(q) : Start(q, i) \in Nat
        BY <2>2, StartType
      <3>. QED BY <2>3, <3>1, <3>2
    <2>5. n = Len(log[q]) + 1 /\ Start(q, n) = head[q]
      BY <2>2, <2>3 DEF Ring, Next1
    <2>6. 1..n \subseteq 1..Next1(q)' /\ h <= head'[q]
      <3>1. CASE q = c
        <4>1. Next1(q)' = n + 1 /\ head'[q] = head[q] + Size(rec) /\ Size(rec) \in 1..N
          BY <2>5, <3>1, Written DEF Next1
        <4>. QED BY <2>2, <4>1
      <3>2. CASE q # c
        <4>1. log'[q] = log[q] /\ head'[q] = head[q]
          BY <3>2, Written
        <4>. QED BY <2>2, <2>3, <4>1 DEF Next1
      <3>. QED BY <3>1, <3>2
    <2>7. /\ DOMAIN log[q] \subseteq DOMAIN log'[q]
          /\ \A i \in DOMAIN log'[q] : i \in DOMAIN log[q] \/ i = n
      <3>1. CASE q = c
        BY <2>5, <3>1, Written
      <3>2. CASE q # c
        BY <3>2, Written
      <3>. QED BY <3>1, <3>2
    <2>8. ASSUME NEW j \in 1..n, At(j)
          PROVE  At(j)'
      <3>1. /\ Start(q, j)' = Start(q, j) /\ Start(q, j) <= head[q] /\ Start(q, j) \in Nat
            /\ n \in 1..n
        BY <2>1, <2>2, <2>3, <2>4, <2>8 DEF At
      <3>2. \A i \in DOMAIN log'[q] : Start(q, i)' < Start(q, j) => i \in DOMAIN log[q]
        BY <2>2, <2>4, <2>5, <2>7, <3>1
      <3>3. {i \in DOMAIN log'[q] : tail[q] <= Start(q, i)' /\ Start(q, i)' < Start(q, j)}
            = {i \in DOMAIN log[q] : tail[q] <= Start(q, i) /\ Start(q, i) < Start(q, j)}
        BY <2>3, <2>4, <2>7, <3>2
      <3>. QED BY <1>1, <2>1, <2>8, <3>1, <3>3 DEF At
    <2>9. (\E k \in 1..Next1(q)' : h = Start(q, k)') /\ (\E j \in 1..Next1(q)' : At(j)')
      BY <1>3, <2>1, <2>3, <2>4, <2>6, <2>8 DEF Pass
    <2>10. ASSUME pc \in {"lookup", "count"}
           PROVE  IsSample'
      <3>1. begin < end /\ IsSample
        BY <2>10 DEF Pass
      <3>2. PICK j \in DOMAIN log[cpu] : Standing(j)
        BY <1>3, <3>1, InPlace
      <3>3. Ring(q)'
        BY EmitRing
      <3>4. log[q][j] \in Record /\ log'[q][j] = log[q][j] /\ j \in DOMAIN log'[q]
            /\ Size(log[q][j]) \in 1..N
        <4>1. log[q][j] \in Record
          BY <2>1, <2>2, <3>2
        <4>. QED BY <4>1, <2>1, <3>2, Written, Sizes
      <3>5. Start(q, j)' = Start(q, j) /\ Start(q, j) \in Nat /\ Start(q, j) + 0 = Start(q, j)
        BY <2>1, <2>3, <2>4, <3>2
      <3>6. mem'[q][Start(q, j) % N] = <<j, 0>>
        <4>1. 0 \in 0..Size(log[q][j])-1 /\ tail[q] <= Start(q, j)
          BY <2>1, <2>2, <3>2, <3>4 DEF Standing, At
        <4>2. \A o \in 0..Size(log'[q][j])-1 : mem'[q][(Start(q, j)' + o) % N] = <<j, o>>
          BY <1>1, <3>3, <3>4, <3>5, <4>1 DEF Ring
        <4>. QED BY <3>4, <3>5, <4>1, <4>2
      <3>7. mem'[q][begin] = <<j, 0>> /\ mem[q][begin] = <<j, 0>>
        BY <2>1, <3>2, <3>6 DEF Standing
      <3>. QED BY <1>1, <2>1, <3>1, <3>4, <3>7 DEF IsSample, TheRecord
    <2>. QED BY <1>1, <1>3, <2>1, <2>6, <2>9, <2>10 DEF Pass, InPass
  <1>. QED BY <1>2, <1>3
LEMMA EmitCounts ==
  ASSUME SizeAssumption, Typed, Counts, CountedOnce, Exact,
         NEW c \in Cpu, NEW rec \in Record, Emit(c, rec)
  PROVE  Counts' /\ CountedOnce' /\ Exact'
  <1>1. UNCHANGED <<tail, pc, cpu, exam, tally, old, profile>>
    BY DEF Emit, hist
  <1>2. ASSUME NEW x \in tally \cup old
        PROVE  /\ x \in Cpu \X Nat /\ x[2] \in DOMAIN log'[x[1]]
               /\ log'[x[1]][x[2]] = log[x[1]][x[2]] /\ log[x[1]][x[2]].kind = "sample"
               /\ Start(x[1], x[2])' = Start(x[1], x[2])
    <2>1. x \in Cpu \X Nat /\ x[2] \in DOMAIN log[x[1]] /\ log[x[1]][x[2]].kind = "sample"
      BY DEF Counts
    <2>2. PICK d \in Cpu : x[1] = d
      BY <2>1
    <2>5. PICK i \in DOMAIN log[d] : x[2] = i
      BY <2>1, <2>2
    <2>3. i \in 1..Next1(d)
      <3>1. Len(log[d]) \in Nat /\ DOMAIN log[d] = 1..Len(log[d]) /\ Next1(d) = Len(log[d]) + 1
        BY Logged DEF Typed
      <3>. QED BY <3>1
    <2>4. Start(d, i)' = Start(d, i)
      BY <2>3, StartKept
    <2>. QED BY <2>1, <2>2, <2>4, <2>5, Written
  <1>3. Counts'
    BY <1>1, <1>2 DEF Counts, InPass
  <1>4. \A p : {x \in tally : log'[x[1]][x[2]].pid = p} = {x \in tally : log[x[1]][x[2]].pid = p}
    BY <1>2
  <1>5. \A p : Amount(p)' = Amount(p)
    BY <1>1, <1>4 DEF Amount
  <1>6. \A p \in Pid : Has(profile', p, Amount(p)')
    BY <1>1, <1>5 DEF Exact
  <1>. QED BY <1>1, <1>3, <1>6 DEF CountedOnce, Exact

LEMMA EmitKeeps ==
  ASSUME SizeAssumption, IInv, NEW c \in Cpu, NEW rec \in Record, Emit(c, rec)
  PROVE  IInv'
  BY EmitTyped, EmitRing, EmitPass, EmitCounts DEF IInv
-----------------------------------------------------------------------------
(* One count more.                                                         *)
LEMMA Items == ASSUME NEW S, NEW s \in Seq(S)
               PROVE  /\ Len(s) \in Nat /\ DOMAIN s = 1..Len(s)
                      /\ \A i \in DOMAIN s : s[i] \in S
  OBVIOUS

LEMMA Replaced == ASSUME NEW S, NEW s \in Seq(S), NEW i \in DOMAIN s, NEW r \in S
                  PROVE  /\ [s EXCEPT ![i] = r] \in Seq(S)
                         /\ DOMAIN [s EXCEPT ![i] = r] = DOMAIN s
                         /\ \A j \in DOMAIN s : [s EXCEPT ![i] = r][j] = IF j = i THEN r ELSE s[j]
  OBVIOUS

LEMMA Appended == ASSUME NEW S, NEW s \in Seq(S), NEW r \in S
                  PROVE  /\ Append(s, r) \in Seq(S)
                         /\ DOMAIN Append(s, r) = DOMAIN s \cup {Len(s) + 1}
                         /\ \A j \in DOMAIN s : Append(s, r)[j] = s[j]
                         /\ Append(s, r)[Len(s) + 1] = r /\ Len(s) + 1 \notin DOMAIN s
  OBVIOUS

LEMMA OneMore == ASSUME NEW r \in [pid : Pid, accesses : Nat]
                 PROVE  /\ [r EXCEPT !.accesses = r.accesses + 1] \in [pid : Pid, accesses : Nat]
                        /\ [r EXCEPT !.accesses = r.accesses + 1].pid = r.pid
                        /\ [r EXCEPT !.accesses = r.accesses + 1].accesses = r.accesses + 1
  OBVIOUS

LEMMA CountOne ==
  ASSUME NEW infos \in Infos, NEW p \in Pid, OnePerPid(infos)
  PROVE  /\ Counted(infos, p) \in Infos /\ OnePerPid(Counted(infos, p))
         /\ \A n \in Nat : Has(infos, p, n) => Has(Counted(infos, p), p, n + 1)
         /\ \A q \in Pid \ {p}, n \in Nat : Has(infos, q, n) => Has(Counted(infos, p), q, n)
  <1>. DEFINE new == Counted(infos, p)
  <1>1. CASE \E i \in DOMAIN infos : infos[i].pid = p
    <2>1. PICK i \in DOMAIN infos : infos[i].pid = p
      BY <1>1
    <2>2. infos[i] \in [pid : Pid, accesses : Nat] /\ DOMAIN infos = 1..Len(infos) /\ Len(infos) \in Nat
      BY Items DEF Infos
    <2>3. \A j \in 1..i-1 : infos[j].pid # p
      BY <2>1, <2>2 DEF OnePerPid
    <2>4. i = CHOOSE k \in DOMAIN infos : infos[k].pid = p /\ \A j \in 1..k-1 : infos[j].pid # p
      <3>1. \A k \in DOMAIN infos :
              (infos[k].pid = p /\ \A j \in 1..k-1 : infos[j].pid # p) => k = i
        BY <2>1 DEF OnePerPid
      <3>. QED BY <2>1, <2>3, <3>1
    <2>5. PICK r \in [pid : Pid, accesses : Nat] :
            /\ r = [infos[i] EXCEPT !.accesses = infos[i].accesses + 1]
            /\ r.pid = infos[i].pid /\ r.accesses = infos[i].accesses + 1
      BY <2>2, OneMore, Zenon
    <2>6. new = [infos EXCEPT ![i] = r]
      <3>1. new = [infos EXCEPT ![i] = [infos[i] EXCEPT !.accesses = infos[i].accesses + 1]]
        BY <1>1, <2>4, Zenon DEF Counted
      <3>. QED BY <2>5, <3>1, Zenon
    <2>7. /\ new \in Infos /\ DOMAIN new = DOMAIN infos
          /\ \A j \in DOMAIN infos : new[j] = IF j = i THEN r ELSE infos[j]
      <3>. HIDE DEF new
      <3>. QED BY <2>6, Replaced DEF Infos
    <2>8. OnePerPid(new)
      <3>. HIDE DEF new
      <3>. QED BY <2>1, <2>5, <2>7 DEF OnePerPid
    <2>9. ASSUME NEW n \in Nat, Has(infos, p, n)
          PROVE  Has(new, p, n + 1)
      <3>. HIDE DEF new
      <3>1. n = infos[i].accesses
        BY <2>1, <2>9 DEF Has, OnePerPid
      <3>. QED BY <2>1, <2>5, <2>7, <3>1 DEF Has
    <2>10. ASSUME NEW q \in Pid \ {p}, NEW n \in Nat, Has(infos, q, n)
           PROVE  Has(new, q, n)
      <3>. HIDE DEF new
      <3>. QED BY <2>1, <2>5, <2>7, <2>10 DEF Has
    <2>. QED BY <2>7, <2>8, <2>9, <2>10
  <1>2. CASE ~(\E i \in DOMAIN infos : infos[i].pid = p)
    <2>1. PICK r \in [pid : Pid, accesses : Nat] :
            r = [pid |-> p, accesses |-> 1] /\ r.pid = p /\ r.accesses = 1
      <3>1. [pid |-> p, accesses |-> 1] \in [pid : Pid, accesses : Nat]
        OBVIOUS
      <3>. QED BY <3>1, Zenon
    <2>2. new = Append(infos, r)
      BY <1>2, <2>1, Zenon DEF Counted
    <2>. HIDE DEF new
    <2>3. /\ new \in Infos
          /\ DOMAIN new = DOMAIN infos \cup {Len(infos) + 1}
          /\ \A j \in DOMAIN infos : new[j] = infos[j]
          /\ new[Len(infos) + 1] = r
          /\ Len(infos) + 1 \notin DOMAIN infos
      BY <2>2, Appended DEF Infos
    <2>4. OnePerPid(new)
      BY <1>2, <2>1, <2>3 DEF OnePerPid
    <2>5. ASSUME NEW n \in Nat, Has(infos, p, n)
          PROVE  Has(new, p, n + 1)
      <3>1. n = 0
        BY <1>2, <2>5 DEF Has
      <3>. QED BY <2>1, <2>3, <3>1 DEF Has
    <2>6. ASSUME NEW q \in Pid \ {p}, NEW n \in Nat, Has(infos, q, n)
          PROVE  Has(new, q, n)
      BY <2>1, <2>3, <2>6 DEF Has
    <2>. QED BY <2>1, <2>3, <2>4, <2>5, <2>6 DEF new
  <1>. QED BY <1>1, <1>2
-----------------------------------------------------------------------------
(* The steps of the thread, and of the discovery thread beside it.         *)
PCs == {"clear", "snapshot", "read", "lookup", "count", "commit", "sleep"}

LEMMA TypedStep ==
  ASSUME Typed, UNCHANGED ring, tail' \in [Cpu -> Nat], known' \subseteq Pid, pc' \in PCs,
         cpu' \in 1..NCpu+1, h' \in Nat, begin' \in 0..N-1, end' \in 0..N-1,
         profile' \in Infos
  PROVE  Typed'
  BY DEF Typed, TypeOK, ring, PCs, Infos

LEMMA Types ==
  ASSUME Typed
  PROVE  /\ tail \in [Cpu -> Nat] /\ known \subseteq Pid /\ cpu \in 1..NCpu+1 /\ head \in [Cpu -> Nat]
         /\ h \in Nat /\ begin \in 0..N-1 /\ end \in 0..N-1 /\ profile \in Infos /\ pc \in PCs
         /\ log \in [Cpu -> Seq(Record)]
  BY DEF Typed, TypeOK, Infos, PCs

LEMMA StutterKeeps ==
  ASSUME IInv, UNCHANGED <<ring, tail, pc, cpu, locals, profile, hist>>, known' \subseteq Pid
  PROVE  IInv'
  <1>1. UNCHANGED <<log, tail, cpu, exam, tally, old, h, begin, end>>
    BY DEF ring, hist, locals
  <1>2. Typed'
    BY <1>1, Types, TypedStep DEF IInv
  <1>3. Pass'
    <2>1. CASE InPass
      BY <1>1, <2>1, PassSame DEF IInv, Pass, InPass
    <2>2. CASE ~InPass
      BY <1>1, <2>2 DEF IInv, Pass, InPass
    <2>. QED BY <2>1, <2>2
  <1>4. Counts'
    BY <1>1, CountsSame DEF IInv, InPass
  <1>. QED BY <1>1, <1>2, <1>3, <1>4, RingSame, ExactSame DEF IInv

LEMMA ClearKeeps == ASSUME SizeAssumption, IInv, Clear PROVE IInv'
  <1>1. /\ UNCHANGED <<ring, tail, known, h, begin, end, exam, log>>
        /\ pc = "clear" /\ pc' = (IF NCpu = 0 THEN "sleep" ELSE "snapshot")
        /\ profile' = <<>> /\ cpu' = 1 /\ old' = old \cup tally /\ tally' = {}
    BY DEF Clear, Goto, ring, locals
  <1>2. NCpu \in Nat /\ 1 \in 1..NCpu+1
    BY DEF SizeAssumption
  <1>3. Typed'
    <2>1. <<>> \in Infos
      BY DEF Infos
    <2>. QED BY <1>1, <1>2, <2>1, Types, TypedStep DEF IInv, PCs
  <1>4. Pass'
    BY <1>1, <1>2 DEF Pass, InPass, Cpu
  <1>5. Counts'
    <2>1. \A x \in tally \cup old : Start(x[1], x[2]) < tail[x[1]]
      BY <1>1 DEF IInv, Counts, InPass
    <2>2. IsFiniteSet({})
      BY FS_EmptySet
    <2>3. \A c, i : Start(c, i)' = Start(c, i)
      BY <1>1, StartSame
    <2>. QED BY <1>1, <2>1, <2>2, <2>3 DEF IInv, Counts
  <1>6. Exact'
    <2>1. Cardinality({}) = 0
      BY FS_EmptySet
    <2>2. \A p : {x \in tally' : log'[x[1]][x[2]].pid = p} = {}
      BY <1>1
    <2>3. \A p : Amount(p)' = 0
      BY <2>1, <2>2 DEF Amount
    <2>4. DOMAIN profile' = {}
      BY <1>1
    <2>5. OnePerPid(profile') /\ \A p : Has(profile', p, 0)
      BY <2>4 DEF OnePerPid, Has
    <2>. QED BY <2>3, <2>5 DEF Exact
  <1>. QED BY <1>1, <1>3, <1>4, <1>5, <1>6, RingSame DEF IInv, CountedOnce

LEMMA SnapshotKeeps == ASSUME SizeAssumption, IInv, Snapshot PROVE IInv'
  <1>1. /\ UNCHANGED <<ring, tail, known, cpu, profile, tally, old, log, head>>
        /\ pc = "snapshot" /\ pc' = "read"
        /\ h' = head[cpu] /\ begin' = tail[cpu] % N /\ end' = head[cpu] % N /\ exam' = {}
    BY DEF Snapshot, Goto, ring
  <1>2. PICK c \in Cpu : c = cpu
    BY <1>1 DEF IInv, Pass
  <1>3. /\ head[c] \in Nat /\ tail[c] \in Nat /\ N \in Nat \ {0} /\ tail[c] <= head[c]
        /\ log \in [Cpu -> Seq(Record)] /\ Ring(c)
    BY DEF IInv, Typed, TypeOK, SizeAssumption, Ring
  <1>4. tail[c] % N \in 0..N-1 /\ head[c] % N \in 0..N-1
    BY <1>3, Divided
  <1>5. Typed'
    BY <1>1, <1>2, <1>3, <1>4, Types, TypedStep DEF IInv, PCs
  <1>6. \A x, i : Start(x, i)' = Start(x, i) /\ Next1(x)' = Next1(x)
    BY <1>1, StartSame
  <1>7. Next1(c) \in 1..Next1(c) /\ head[c] = Start(c, Next1(c))
    <2>1. Next1(c) \in Nat \ {0}
      BY <1>3, Logged
    <2>. QED BY <1>3, <2>1 DEF Ring
  <1>8. PICK k \in 1..Next1(c) : tail[c] = Start(c, k)
    BY <1>3 DEF Ring
  <1>9. At(k)'
    <2>1. tail'[c] <= Start(c, k)' /\ Start(c, k)' <= h'
      BY <1>1, <1>2, <1>3, <1>6, <1>8
    <2>2. begin' = (tail'[c] % N) + (Start(c, k)' - tail'[c])
      BY <1>1, <1>2, <1>3, <1>4, <1>6, <1>8
    <2>3. \A i \in DOMAIN log[c] : Start(c, i) \in Nat
      <3>1. \A i \in DOMAIN log[c] : i \in 1..Next1(c)
        <4>1. Len(log[c]) \in Nat /\ DOMAIN log[c] = 1..Len(log[c]) /\ Next1(c) = Len(log[c]) + 1
          BY <1>3, Logged
        <4>. QED BY <4>1
      <3>. QED BY <1>3, <3>1, StartType
    <2>4. exam' = {i \in DOMAIN log'[c] : tail'[c] <= Start(c, i)' /\ Start(c, i)' < Start(c, k)'}
      BY <1>1, <1>3, <1>6, <1>8, <2>3
    <2>. QED BY <1>1, <1>2, <2>1, <2>2, <2>4 DEF At
  <1>10. Pass'
    <2>1. \E n \in 1..Next1(c)' : h' = Start(c, n)'
      BY <1>1, <1>2, <1>6, <1>7
    <2>2. \E n \in 1..Next1(c)' : At(n)'
      BY <1>6, <1>9
    <2>3. tail'[c] <= h' /\ h' <= head'[c] /\ end' = h' % N /\ cpu' = c
      BY <1>1, <1>2, <1>3
    <2>. QED BY <1>1, <1>2, <2>1, <2>2, <2>3 DEF Pass, InPass
  <1>11. Counts'
    <2>1. \A x, i : Start(x, i)' = Start(x, i)
      BY <1>1, StartSame
    <2>. QED BY <1>1, <2>1 DEF IInv, Counts, InPass
  <1>. QED BY <1>1, <1>5, <1>10, <1>11, RingSame, ExactSame DEF IInv

(* A step inside a pass that moves nothing but the control.                *)
LEMMA MoveKeeps ==
  ASSUME IInv, UNCHANGED <<ring, tail, known, cpu, locals, profile, hist>>, InPass, InPass', pc' \in PCs,
         pc' \in {"lookup", "count"} => begin < end /\ IsSample,
         pc' = "commit" => ~(begin < end)
  PROVE  IInv'
  <1>1. UNCHANGED <<log, tail, cpu, exam, tally, old, h, begin, end>>
    BY DEF ring, hist, locals
  <1>2. Typed'
    BY <1>1, Types, TypedStep DEF IInv
  <1>3. Pass'
    BY <1>1, PassSame DEF IInv
  <1>4. Counts'
    BY <1>1, CountsSame DEF IInv
  <1>. QED BY <1>1, <1>2, <1>3, <1>4, RingSame, ExactSame DEF IInv

LEMMA ReadDoneKeeps == ASSUME SizeAssumption, IInv, ReadDone PROVE IInv'
  <1>1. pc = "read" /\ pc' = "commit" /\ InPass /\ InPass' /\ pc' \in PCs
    BY DEF ReadDone, Goto, InPass, PCs
  <1>2. ~(begin < end)
    <2>1. ASSUME begin < end
          PROVE  FALSE
      <3>1. PICK j \in DOMAIN log[cpu] : Standing(j)
        BY <1>1, <2>1, InPlace DEF IInv
      <3>2. log[cpu][j] \in Record
        BY <1>1, <3>1 DEF IInv, Pass, Typed
      <3>3. Size(log[cpu][j]) \in 1..N
        BY <3>2, Sizes
      <3>4. HeaderSize = 0
        BY <2>1 DEF ReadDone
      <3>. QED BY <3>1, <3>3, <3>4 DEF Standing
    <2>. QED BY <2>1
  <1>. QED BY <1>1, <1>2, MoveKeeps DEF ReadDone

LEMMA LookupsKeep == ASSUME IInv, ReadSample \/ KnownProcess PROVE IInv'
  <1>1. /\ InPass /\ InPass' /\ pc' \in {"lookup", "count"} /\ pc' \in PCs
        /\ UNCHANGED <<ring, tail, known, cpu, locals, profile, hist>>
    BY DEF ReadSample, KnownProcess, Goto, InPass, PCs
  <1>2. begin < end /\ IsSample
    BY DEF ReadSample, KnownProcess, Goto, IInv, Pass
  <1>. QED BY <1>1, <1>2, MoveKeeps

LEMMA SkipsKeep == ASSUME SizeAssumption, IInv, SkipOther \/ UnknownProcess PROVE IInv'
  <1>1. /\ InPass /\ begin < end /\ pc' = "read" /\ Inc
        /\ UNCHANGED <<ring, tail, known, cpu, h, end, profile, tally, old, log>>
    BY DEF SkipOther, UnknownProcess, Goto, InPass, IInv, Pass, ring
  <1>2. Pass' /\ begin' \in 0..N-1 /\ exam \subseteq exam'
    BY <1>1, Advance DEF IInv
  <1>3. Typed'
    BY <1>1, <1>2, Types, TypedStep DEF IInv, PCs
  <1>4. Counts'
    <2>1. \A c, i : Start(c, i)' = Start(c, i)
      BY <1>1, StartSame
    <2>2. InPass'
      BY <1>1 DEF InPass
    <2>. QED BY <1>1, <1>2, <2>1, <2>2 DEF IInv, Counts
  <1>. QED BY <1>1, <1>2, <1>3, <1>4, RingSame, ExactSame DEF IInv

LEMMA CountKeeps == ASSUME SizeAssumption, IInv, CountSample PROVE IInv'
  <1>1. /\ InPass /\ begin < end /\ pc' = "read" /\ Inc /\ IsSample
        /\ profile' = Counted(profile, TheRecord.pid)
        /\ tally' = tally \cup {<<cpu, mem[cpu][begin][1]>>}
        /\ UNCHANGED <<ring, tail, known, cpu, h, end, old, log>>
    BY DEF CountSample, Goto, InPass, IInv, Pass, ring
  <1>2. Pass' /\ begin' \in 0..N-1 /\ exam \subseteq exam'
    BY <1>1, Advance DEF IInv
  <1>3. PICK c \in Cpu : c = cpu
    BY <1>1 DEF IInv, Pass
  <1>4. PICK j \in DOMAIN log[c] : Standing(j)
    BY <1>1, <1>3, InPlace DEF IInv
  <1>5. log[c][j] \in Record /\ log[c][j].kind = "sample" /\ TheRecord = log[c][j]
    BY <1>1, <1>3, <1>4 DEF IInv, Typed, Standing, IsSample
  <1>6. PICK p \in Pid : p = TheRecord.pid /\ p = log[c][j].pid
    BY <1>5 DEF Record
  <1>7. j \in Nat /\ j \in 1..Next1(c) /\ Start(c, j) \in Nat
    <2>1. Len(log[c]) \in Nat /\ DOMAIN log[c] = 1..Len(log[c]) /\ Next1(c) = Len(log[c]) + 1
      BY Logged DEF IInv, Typed
    <2>2. j \in Nat /\ j \in 1..Next1(c)
      BY <2>1
    <2>. QED BY <2>2, StartType DEF IInv, Typed
  <1>8. PICK x \in Cpu \X Nat : x = <<c, j>> /\ x[1] = c /\ x[2] = j
    <2>1. c \in Cpu /\ j \in Nat
      BY <1>7
    <2>2. <<c, j>> \in Cpu \X Nat /\ <<c, j>>[1] = c /\ <<c, j>>[2] = j
      BY <2>1
    <2>. QED BY <2>2, Zenon
  <1>9. tally' = tally \cup {x} /\ j \in exam'
    BY <1>1, <1>3, <1>4, <1>8 DEF Standing, Inc
  <1>10. x \notin tally /\ x \notin old
    <2>1. tail[c] <= Start(c, j) /\ tail[c] \in Nat /\ j \notin exam
      BY <1>3, <1>4, <1>7 DEF Standing, At, IInv, Typed, TypeOK
    <2>. QED BY <1>3, <1>7, <1>8, <2>1 DEF IInv, Counts
  <1>11. Typed' /\ profile' \in Infos /\ OnePerPid(profile')
    <2>1. profile' \in Infos /\ OnePerPid(profile')
      BY <1>1, <1>6, Types, CountOne DEF IInv, Exact
    <2>. QED BY <1>1, <1>2, <2>1, Types, TypedStep DEF IInv, PCs
  <1>12. Counts'
    <2>1. \A d, i : Start(d, i)' = Start(d, i)
      BY <1>1, StartSame
    <2>2. InPass' /\ cpu' = c
      BY <1>1, <1>3 DEF InPass
    <2>3. IsFiniteSet(tally')
      BY <1>9, FS_AddElement DEF IInv, Counts
    <2>4. \A y \in tally' \cup old' :
             y \in Cpu \X Nat /\ y[2] \in DOMAIN log'[y[1]] /\ log'[y[1]][y[2]].kind = "sample"
      BY <1>1, <1>5, <1>8, <1>9 DEF IInv, Counts
    <2>5. \A y \in tally' : \/ Start(y[1], y[2]) < tail[y[1]]
                           \/ (y[1] = c /\ y[2] \in exam')
      BY <1>1, <1>2, <1>3, <1>8, <1>9 DEF IInv, Counts
    <2>. QED BY <1>1, <2>1, <2>2, <2>3, <2>4, <2>5 DEF IInv, Counts
  <1>13. CountedOnce'
    BY <1>1, <1>9, <1>10 DEF IInv, CountedOnce
  <1>14. Exact'
    <2>. DEFINE Of(q) == {y \in tally : log[y[1]][y[2]].pid = q}
                New(q) == {y \in tally' : log[y[1]][y[2]].pid = q}
    <2>1. \A q \in Pid : IsFiniteSet(Of(q)) /\ Cardinality(Of(q)) \in Nat
      <3>. SUFFICES ASSUME NEW q \in Pid
                    PROVE  IsFiniteSet(Of(q)) /\ Cardinality(Of(q)) \in Nat
        OBVIOUS
      <3>1. Of(q) \subseteq tally /\ IsFiniteSet(tally)
        BY DEF IInv, Counts
      <3>2. IsFiniteSet(Of(q))
        BY <3>1, FS_Subset
      <3>. QED BY <3>2, FS_CardinalityType
    <2>2. New(p) = Of(p) \cup {x} /\ x \notin Of(p)
      BY <1>6, <1>8, <1>9, <1>10
    <2>3. Cardinality(New(p)) = Cardinality(Of(p)) + 1
      <3>. HIDE DEF Of, New
      <3>. QED BY <2>1, <2>2, FS_AddElement
    <2>4. \A q \in Pid \ {p} : New(q) = Of(q)
      BY <1>6, <1>8, <1>9
    <2>5. \A q : Amount(q) = Cardinality(Of(q)) /\ Amount(q)' = Cardinality(New(q))
      BY <1>1 DEF Amount
    <2>6. \A q \in Pid : Amount(q) \in Nat /\ Amount(q)' = IF q = p THEN Amount(q) + 1 ELSE Amount(q)
      <3>. HIDE DEF Of, New
      <3>. QED BY <2>1, <2>3, <2>4, <2>5
    <2>7. profile' = Counted(profile, p) /\ profile \in Infos /\ OnePerPid(profile)
          /\ \A q \in Pid : Has(profile, q, Amount(q))
      BY <1>1, <1>6, Types DEF IInv, Exact
    <2>8. \A q \in Pid : Has(profile', q, Amount(q)')
      <3>. HIDE DEF Of, New
      <3>. QED BY <2>6, <2>7, CountOne
    <2>. QED BY <1>11, <2>8 DEF Exact
  <1>. QED BY <1>1, <1>2, <1>11, <1>12, <1>13, <1>14, RingSame DEF IInv

LEMMA CommitKeeps == ASSUME SizeAssumption, IInv, Commit PROVE IInv'
  <1>1. /\ UNCHANGED <<ring, known, h, begin, end, profile, exam, tally, old, log, head, mem>>
        /\ pc = "commit" /\ pc' = (IF cpu = NCpu THEN "sleep" ELSE "snapshot")
        /\ tail' = [tail EXCEPT ![cpu] = h] /\ cpu' = cpu + 1
    BY DEF Commit, Goto, ring, locals, hist
  <1>2. PICK c \in Cpu : c = cpu
    BY <1>1 DEF IInv, Pass, InPass
  <1>3. /\ head[c] \in Nat /\ tail[c] \in Nat /\ h \in Nat /\ N \in Nat \ {0} /\ NCpu \in Nat
        /\ tail \in [Cpu -> Nat] /\ log \in [Cpu -> Seq(Record)]
        /\ tail[c] <= h /\ h <= head[c] /\ head[c] < tail[c] + N
    BY <1>1, <1>2 DEF IInv, Typed, TypeOK, SizeAssumption, Ring, Pass, InPass
  <1>4. /\ tail' \in [Cpu -> Nat] /\ tail'[c] = h /\ \A d \in Cpu \ {c} : tail'[d] = tail[d]
    BY <1>1, <1>2, <1>3
  <1>5. Typed'
    <2>1. cpu' \in 1..NCpu+1
      BY <1>1, <1>2, <1>3 DEF Cpu
    <2>. QED BY <1>1, <1>4, <2>1, Types, TypedStep DEF IInv, PCs
  <1>6. \A x, i : Start(x, i)' = Start(x, i) /\ Next1(x)' = Next1(x)
    BY <1>1, StartSame
  <1>7. \A d \in Cpu : DOMAIN log[d] \subseteq 1..Next1(d) /\ \A i \in 1..Next1(d) : Start(d, i) \in Nat
    <2>. SUFFICES ASSUME NEW d \in Cpu
                  PROVE  DOMAIN log[d] \subseteq 1..Next1(d) /\ \A i \in 1..Next1(d) : Start(d, i) \in Nat
      OBVIOUS
    <2>1. Len(log[d]) \in Nat /\ DOMAIN log[d] = 1..Len(log[d]) /\ Next1(d) = Len(log[d]) + 1
      BY <1>3, Logged
    <2>2. \A i \in 1..Next1(d) : Start(d, i) \in Nat
      BY <1>3, StartType
    <2>. QED BY <2>1, <2>2
  <1>8. \A d \in Cpu : Ring(d)'
    <2>1. ASSUME NEW d \in Cpu \ {c}
          PROVE  Ring(d)'
      <3>1. Ring(d) /\ tail'[d] = tail[d]
        BY <1>4 DEF IInv
      <3>. QED BY <1>1, <1>6, <3>1 DEF Ring
    <2>2. Ring(c)'
      <3>1. Ring(c)
        BY DEF IInv
      <3>2. \E k \in 1..Next1(c) : tail'[c] = Start(c, k)
        BY <1>1, <1>2, <1>4 DEF IInv, Pass, InPass
      <3>3. tail'[c] <= head'[c] /\ head'[c] < tail'[c] + N
        BY <1>1, <1>3, <1>4
      <3>4. \A i \in DOMAIN log[c] : tail'[c] <= Start(c, i) => tail[c] <= Start(c, i)
        BY <1>3, <1>4, <1>7
      <3>. QED BY <1>1, <1>6, <3>1, <3>2, <3>3, <3>4 DEF Ring
    <2>. QED BY <2>1, <2>2
  <1>9. Pass'
    <2>1. cpu # NCpu => cpu' \in Cpu
      BY <1>1, <1>2, <1>3 DEF Cpu
    <2>. QED BY <1>1, <2>1 DEF Pass, InPass
  <1>10. Counts'
    <2>1. PICK j \in 1..Next1(c) : At(j)
      BY <1>1, <1>2 DEF IInv, Pass, InPass
    <2>2. \A i \in exam : i \in DOMAIN log[c] /\ Start(c, i) < Start(c, j)
      BY <1>2, <2>1 DEF At
    <2>3. \A i \in exam : Start(c, i) < tail'[c]
      <3>1. Start(c, j) <= h /\ Start(c, j) \in Nat
        BY <1>2, <1>7, <2>1 DEF At
      <3>. QED BY <1>3, <1>4, <1>7, <2>2, <3>1
    <2>4. \A d \in Cpu : tail[d] <= tail'[d] /\ tail[d] \in Nat /\ tail'[d] \in Nat
      <3>. SUFFICES ASSUME NEW d \in Cpu
                    PROVE  tail[d] <= tail'[d] /\ tail[d] \in Nat /\ tail'[d] \in Nat
        OBVIOUS
      <3>1. CASE d = c
        BY <3>1, <1>3, <1>4
      <3>2. CASE d # c
        BY <3>2, <1>3, <1>4
      <3>. QED BY <3>1, <3>2
    <2>5. ASSUME NEW x \in tally \cup old
          PROVE  Start(x[1], x[2])' < tail'[x[1]]
      <3>1. x \in Cpu \X Nat /\ x[2] \in DOMAIN log[x[1]]
        BY DEF IInv, Counts
      <3>2. x[1] \in Cpu /\ Start(x[1], x[2]) \in Nat
        BY <1>7, <3>1
      <3>3. Start(x[1], x[2]) < tail[x[1]] \/ (x[1] = c /\ x[2] \in exam)
        BY <1>2 DEF IInv, Counts
      <3>4. Start(x[1], x[2]) < tail'[x[1]]
        BY <2>3, <2>4, <3>2, <3>3
      <3>. QED BY <1>6, <3>4
    <2>6. \A x \in tally \cup old : Start(x[1], x[2])' < tail'[x[1]]
      BY <2>5
    <2>. QED BY <1>1, <2>6 DEF IInv, Counts
  <1>. QED BY <1>1, <1>5, <1>8, <1>9, <1>10, ExactSame DEF IInv

LEMMA SleepKeeps == ASSUME IInv, Sleep PROVE IInv'
  <1>1. /\ UNCHANGED <<ring, tail, known, cpu, locals, profile, hist>>
        /\ UNCHANGED <<log, exam, tally, old, h, begin, end>>
        /\ pc = "sleep" /\ pc' = "clear"
    BY DEF Sleep, Goto, ring, hist, locals
  <1>2. Typed'
    BY <1>1, Types, TypedStep DEF IInv, PCs
  <1>3. Pass'
    BY <1>1 DEF Pass, InPass
  <1>4. Counts'
    BY <1>1, CountsSame DEF IInv, InPass
  <1>. QED BY <1>1, <1>2, <1>3, <1>4, RingSame, ExactSame DEF IInv
-----------------------------------------------------------------------------
LEMMA InitIInv == ASSUME SizeAssumption, Init PROVE IInv
  <1>. USE DEF Init
  <1>1. N \in Nat \ {0} /\ NCpu \in Nat /\ 0 \in 0..N-1 /\ 1 \in 1..NCpu+1
    BY DEF SizeAssumption
  <1>2. log \in [Cpu -> Seq(Record)] /\ \A c \in Cpu : log[c] = <<>> /\ log[c] \in Seq(Record)
    OBVIOUS
  <1>3. head \in [Cpu -> Nat] /\ tail \in [Cpu -> Nat] /\ \A c \in Cpu : head[c] = 0 /\ tail[c] = 0
    OBVIOUS
  <1>4. mem \in [Cpu -> [0..N-1 -> Nat \X Nat]] /\ \A c \in Cpu, w \in 0..N-1 : mem[c][w] = Blank
    BY DEF Blank
  <1>5. profile \in Infos /\ DOMAIN profile = {}
    BY DEF Infos
  <1>6. Typed
    BY <1>1, <1>2, <1>3, <1>4, <1>5 DEF Typed, TypeOK, Infos
  <1>7. ASSUME NEW c \in Cpu PROVE Ring(c)
    <2>1. Next1(c) = 1 /\ DOMAIN log[c] = {}
      BY <1>2 DEF Next1
    <2>2. Samples(c, 1) = 0
      <3>1. {j \in 1..1-1 : log[c][j].kind = "sample"} = {}
        OBVIOUS
      <3>. QED BY <3>1, FS_EmptySet DEF Samples
    <2>3. Start(c, 1) = 0
      BY <2>2, SampleSize \in Int, OtherSize \in Int DEF Start, SizeAssumption
    <2>. QED BY <1>1, <1>3, <2>1, <2>3 DEF Ring
  <1>8. Pass
    BY DEF Pass, InPass
  <1>9. Counts /\ CountedOnce
    BY FS_EmptySet DEF Counts, CountedOnce
  <1>10. Exact
    <2>1. \A p : Amount(p) = 0
      <3>1. \A p : {x \in tally : log[x[1]][x[2]].pid = p} = {}
        OBVIOUS
      <3>. QED BY <3>1, FS_EmptySet DEF Amount
    <2>. QED BY <1>5, <2>1 DEF Exact, OnePerPid, Has
  <1>. QED BY <1>6, <1>7, <1>8, <1>9, <1>10 DEF IInv

LEMMA StepKeeps == ASSUME SizeAssumption, IInv, [Next]_vars PROVE IInv'
  <1>1. CASE \E c \in Cpu, rec \in Record : Emit(c, rec)
    BY <1>1, EmitKeeps
  <1>2. CASE TableChanges
    <2>1. known' \subseteq Pid
      BY <1>2, Types DEF TableChanges, IInv
    <2>. QED BY <1>2, <2>1, StutterKeeps DEF TableChanges
  <1>3. CASE Profile
    BY <1>3, ClearKeeps, SnapshotKeeps, ReadDoneKeeps, LookupsKeep, SkipsKeep, CountKeeps,
       CommitKeeps, SleepKeeps DEF Profile
  <1>4. CASE UNCHANGED vars
    <2>1. UNCHANGED <<ring, tail, known, pc, cpu, locals, profile, hist>>
      BY <1>4 DEF vars
    <2>. QED BY <2>1, StutterKeeps, Types DEF IInv
  <1>. QED BY <1>1, <1>2, <1>3, <1>4 DEF Next

(* The inductive invariant holds in every reachable state: the kernel and  *)
(* the pass over the rings keep the records of a ring apart, whole and     *)
(* counted at most once (profile.c:123-203).                               *)
THEOREM Inductive == Spec => []IInv
  <1>1. Init => IInv BY InitIInv, SizeAssumption
  <1>2. IInv /\ [Next]_vars => IInv' BY StepKeeps, SizeAssumption
  <1>. QED BY <1>1, <1>2, PTL DEF Spec

(* Positions stay in the ring, and profile entries, snapshots and program  *)
(* counter in their domains, for rings of any size (profile.c:123-203).    *)
THEOREM TypeCorrect == Spec => []TypeOK
  <1>1. IInv => TypeOK
    BY DEF IInv, Typed
  <1>. QED BY <1>1, Inductive, PTL

(* The loop only ever stands on whole records, whatever the sizes of rings *)
(* and records: the size-0 break and the jump back to base are dead code   *)
(* (profile.c:170, 190).                                                   *)
THEOREM RecordsWhole == Spec => []WholeRecord
  <1>1. IInv => WholeRecord
    <2>. SUFFICES ASSUME IInv, pc \in {"read", "lookup", "count"}, begin < end
                  PROVE  /\ AtHeader /\ begin + HeaderSize <= end
                         /\ \A o \in 0..HeaderSize-1 : mem[cpu][begin + o] = <<mem[cpu][begin][1], o>>
      BY DEF WholeRecord, IInv, Typed
    <2>1. PICK j \in DOMAIN log[cpu] : Standing(j)
      BY SizeAssumption, InPlace DEF IInv, InPass
    <2>2. mem[cpu][begin][1] = j
      BY <2>1 DEF Standing
    <2>. QED BY <2>1, <2>2 DEF Standing
  <1>. QED BY <1>1, Inductive, PTL

(* A pass gives back a batch it has read to the last record, or one that   *)
(* wraps and that it has not touched (profile.c:164-198).                  *)
THEOREM BatchAllOrNothing == Spec => []AllOrNothing
  <1>1. IInv => AllOrNothing
    <2>. SUFFICES ASSUME IInv, pc = "commit"
                  PROVE  exam = IF tail[cpu] % N <= h % N THEN Due ELSE {}
      BY DEF AllOrNothing
    <2>1. InPass /\ ~(begin < end) /\ cpu \in Cpu /\ end = h % N
      BY DEF IInv, Pass, InPass
    <2>2. PICK j \in 1..Next1(cpu) : At(j)
      BY <2>1 DEF IInv, Pass
    <2>3. /\ tail[cpu] \in Nat /\ h \in Nat /\ tail[cpu] % N \in 0..N-1 /\ end \in 0..N-1
          /\ h - tail[cpu] \in 0..N-1 /\ N \in Nat \ {0}
          /\ end = IF (tail[cpu] % N) + (h - tail[cpu]) < N THEN (tail[cpu] % N) + (h - tail[cpu])
                     ELSE (tail[cpu] % N) + (h - tail[cpu]) - N
      BY <2>1, SizeAssumption, RangeEnd DEF IInv, SizeAssumption
    <2>4. Start(cpu, j) \in Nat
      BY <2>1, SizeAssumption, StartType DEF IInv, Typed
    <2>5. CASE tail[cpu] % N <= end
      <3>1. end = (tail[cpu] % N) + (h - tail[cpu])
        BY <2>3, <2>5
      <3>2. Start(cpu, j) = h
        BY <2>1, <2>2, <2>3, <2>4, <3>1 DEF At
      <3>. QED BY <2>1, <2>2, <2>5, <3>2 DEF At, Due
    <2>6. CASE ~(tail[cpu] % N <= end)
      <3>1. begin = tail[cpu] % N
        BY <2>1, <2>3, <2>6 DEF IInv, Pass
      <3>2. Start(cpu, j) = tail[cpu]
        BY <2>2, <2>3, <2>4, <3>1 DEF At
      <3>3. \A i \in DOMAIN log[cpu] : Start(cpu, i) \in Nat
        <4>1. \A i \in DOMAIN log[cpu] : i \in 1..Next1(cpu)
          <5>1. /\ Len(log[cpu]) \in Nat /\ DOMAIN log[cpu] = 1..Len(log[cpu])
                /\ Next1(cpu) = Len(log[cpu]) + 1
            BY <2>1, Logged DEF IInv, Typed
          <5>. QED BY <5>1
        <4>. QED BY <2>1, <4>1, SizeAssumption, StartType DEF IInv, Typed
      <3>4. exam = {}
        BY <2>2, <2>3, <3>2, <3>3 DEF At
      <3>. QED BY <2>1, <2>6, <3>4
    <2>. QED BY <2>5, <2>6
  <1>. QED BY <1>1, Inductive, PTL

(* No sample is counted in two periods, or twice in one.                   *)
THEOREM SamplesCountedOnce == Spec => []CountedOnce
  <1>1. IInv => CountedOnce
    BY DEF IInv
  <1>. QED BY <1>1, Inductive, PTL

(* The profile of a period is exact: one entry for each process, with the  *)
(* number of its samples (profile.c:134-157).                              *)
THEOREM ProfilesExact == Spec => []ProfileExact
  <1>1. IInv => ProfileExact
    BY DEF IInv, Exact, OnePerPid, Has, Amount, ProfileExact
  <1>. QED BY <1>1, Inductive, PTL
=============================================================================
