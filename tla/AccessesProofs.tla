--------------------------- MODULE AccessesProofs ---------------------------
(***************************************************************************)
(* The accesses tool: whatever the ranges, their pages and their number,   *)
(* and however the process goes on meanwhile, a sample is credited to the  *)
(* counter of the range it fell in, and each buffer is freed once.         *)
(***************************************************************************)
EXTENDS Accesses, FiniteSetTheorems, TLAPS

(* A set of numbers has a least one: the proofs by induction come to this. *)
LEMMA LeastPlace == ASSUME NEW T, T \subseteq Nat, T # {}
                    PROVE  \E m \in T : \A n \in T : m <= n
  <1>. DEFINE Upto0 == {0..n : n \in T}
  <1>1. Upto0 \subseteq FiniteSubsetsOf(Nat)
    <2>. SUFFICES ASSUME NEW n \in T PROVE 0..n \in FiniteSubsetsOf(Nat)
      OBVIOUS
    <2>1. IsFiniteSet(0..n)
      BY FS_Interval
    <2>. QED BY <2>1 DEF FiniteSubsetsOf
  <1>2. \E x \in Upto0 : \A y \in Upto0 : ~(<<y, x>> \in StrictSubsetOrdering(Nat))
    <2>1. IsWellFoundedOn(StrictSubsetOrdering(Nat), FiniteSubsetsOf(Nat))
      BY FS_StrictSubsetOrderingWellFounded
    <2>2. Upto0 # {}
      OBVIOUS
    <2>. HIDE DEF Upto0
    <2>. QED BY <1>1, <2>1, <2>2, WFMin
  <1>3. PICK m \in T : \A n \in T : ~(<<0..n, 0..m>> \in StrictSubsetOrdering(Nat))
    BY <1>2
  <1>4. ASSUME NEW n \in T, n < m
        PROVE  FALSE
    <2>1. /\ 0..n \subseteq 0..m /\ m \in 0..m /\ m \notin 0..n
          /\ 0..n \in SUBSET Nat /\ 0..m \in SUBSET Nat
      BY <1>4
    <2>. QED BY <1>3, <2>1 DEF StrictSubsetOrdering
  <1>. QED BY <1>4

LEMMA Induction == ASSUME NEW T, 0 \in T, \A n \in Nat : n \in T => n + 1 \in T
                   PROVE  \A n \in Nat : n \in T
  <1>. SUFFICES ASSUME Nat \ T # {} PROVE FALSE
    OBVIOUS
  <1>1. PICK m \in Nat \ T : \A n \in Nat \ T : m <= n
    BY LeastPlace
  <1>2. m # 0 /\ m - 1 \in Nat /\ m - 1 \in T
    BY <1>1
  <1>. QED BY <1>1, <1>2

LEMMA GreatestPlace ==
  ASSUME NEW T, T \subseteq Nat, T # {}, NEW a \in Nat, \A x \in T : x <= a
  PROVE  \E m \in T : \A x \in T : x <= m
  <1>. DEFINE U == {a - x : x \in T}
  <1>1. U \subseteq Nat /\ U # {}
    <2>1. \A x \in T : x \in Nat /\ x <= a /\ a - x \in Nat
      OBVIOUS
    <2>. QED BY <2>1
  <1>. HIDE DEF U
  <1>2. PICK u \in U : \A v \in U : u <= v
    BY <1>1, LeastPlace
  <1>3. PICK m \in T : u = a - m
    BY DEF U
  <1>4. ASSUME NEW x \in T PROVE x <= m
    <2>1. a - x \in U
      BY DEF U
    <2>. QED BY <1>2, <1>3, <2>1
  <1>. QED BY <1>4
-----------------------------------------------------------------------------
(* The pages of the ranges without a buffer that were read at one start.   *)
Reading == [obj : Object, pages : Nat]
Part(r, s) == IF ~r.obj.coop /\ r.obj.start = s THEN r.pages ELSE 0

Sums(f, q, s, n) == f = [i \in 0..n |-> IF i = 0 THEN 0 ELSE f[i-1] + Part(q[i], s)]
Total(q, s) == (CHOOSE f : Sums(f, q, s, Len(q)))[Len(q)]

LEMMA SumsExist == ASSUME NEW q, NEW s PROVE \A n \in Nat : \E f : Sums(f, q, s, n)
  <1>. DEFINE All == {n \in Nat : \E f : Sums(f, q, s, n)}
  <1>1. 0 \in All
    <2>1. Sums([i \in 0..0 |-> 0], q, s, 0)
      BY DEF Sums
    <2>. QED BY <2>1
  <1>2. ASSUME NEW n \in Nat, n \in All PROVE n + 1 \in All
    <2>1. PICK f : Sums(f, q, s, n)
      BY <1>2
    <2>. DEFINE g == [i \in 0..n+1 |-> IF i = n + 1 THEN f[n] + Part(q[n + 1], s) ELSE f[i]]
    <2>2. ASSUME NEW i \in 0..n+1 PROVE g[i] = IF i = 0 THEN 0 ELSE g[i-1] + Part(q[i], s)
      <3>1. CASE i = n + 1
        <4>1. g[n] = f[n] /\ g[n + 1] = f[n] + Part(q[n + 1], s) /\ i - 1 = n /\ i # 0
          BY <3>1
        <4>. HIDE DEF g
        <4>. QED BY <3>1, <4>1
      <3>2. CASE i = 0
        <4>1. g[0] = f[0] /\ f[0] = 0
          BY <2>1 DEF Sums
        <4>. QED BY <3>2, <4>1
      <3>3. CASE i # 0 /\ i # n + 1
        <4>1. i \in 0..n /\ i - 1 \in 0..n /\ i - 1 \in 0..n+1 /\ i - 1 # n + 1
          BY <3>3
        <4>2. f[i] = f[i-1] + Part(q[i], s)
          BY <2>1, <3>3, <4>1 DEF Sums
        <4>3. g[i] = f[i] /\ g[i-1] = f[i-1]
          BY <3>3, <4>1
        <4>. HIDE DEF g
        <4>. QED BY <3>3, <4>2, <4>3
      <3>. QED BY <3>1, <3>2, <3>3
    <2>3. g = [i \in 0..n+1 |-> g[i]]
      OBVIOUS
    <2>. HIDE DEF g
    <2>4. Sums(g, q, s, n + 1)
      BY <2>2, <2>3 DEF Sums
    <2>. QED BY <2>4
  <1>. HIDE DEF All
  <1>3. \A n \in Nat : n \in All
    BY <1>1, <1>2, Induction
  <1>. QED BY <1>3 DEF All

LEMMA SumsAt ==
  ASSUME NEW f, NEW q, NEW s, NEW n \in Nat, Sums(f, q, s, n)
  PROVE  f[0] = 0 /\ \A i \in 1..n : f[i] = f[i-1] + Part(q[i], s)
  <1>1. 0 \in 0..n /\ \A i \in 1..n : i \in 0..n /\ i # 0
    OBVIOUS
  <1>2. ASSUME NEW i \in 1..n PROVE f[i] = f[i-1] + Part(q[i], s)
    BY <1>1 DEF Sums
  <1>3. f[0] = 0
    BY <1>1 DEF Sums
  <1>. QED BY <1>2, <1>3

(* Sums of sequences that begin alike are alike. *)
LEMMA SumsAgree ==
  ASSUME NEW q, NEW r, NEW s, NEW n \in Nat, NEW m \in Nat, n <= m,
         \A i \in 1..n : q[i] = r[i] /\ Part(q[i], s) \in Nat,
         NEW f, Sums(f, q, s, n), NEW g, Sums(g, r, s, m)
  PROVE  \A i \in 0..n : f[i] = g[i] /\ f[i] \in Nat
  <1>. DEFINE All == {i \in Nat : i <= n => f[i] = g[i] /\ f[i] \in Nat}
  <1>0. /\ f[0] = 0 /\ \A i \in 1..n : f[i] = f[i-1] + Part(q[i], s)
        /\ g[0] = 0 /\ \A i \in 1..m : g[i] = g[i-1] + Part(r[i], s)
    BY SumsAt
  <1>1. 0 \in All
    BY <1>0
  <1>2. ASSUME NEW i \in Nat, i \in All PROVE i + 1 \in All
    <2>. SUFFICES ASSUME i + 1 <= n PROVE f[i+1] = g[i+1] /\ f[i+1] \in Nat
      OBVIOUS
    <2>1. i + 1 \in 1..n /\ i + 1 \in 1..m /\ (i + 1) - 1 = i
      OBVIOUS
    <2>2. f[i+1] = f[i] + Part(q[i+1], s) /\ g[i+1] = g[i] + Part(r[i+1], s)
      BY <1>0, <2>1
    <2>3. f[i] = g[i] /\ f[i] \in Nat
      BY <1>2
    <2>. QED BY <2>1, <2>2, <2>3
  <1>. HIDE DEF All
  <1>3. \A i \in Nat : i \in All
    BY <1>1, <1>2, Induction
  <1>. QED BY <1>3 DEF All

LEMMA PartIs == ASSUME NEW r \in Reading, NEW s PROVE Part(r, s) \in Nat
  BY DEF Part, Reading

LEMMA TotalIs ==
  ASSUME NEW q \in Seq(Reading), NEW s
  PROVE  \E f : Sums(f, q, s, Len(q)) /\ Total(q, s) = f[Len(q)] /\ Total(q, s) \in Nat
  <1>. DEFINE c == CHOOSE f : Sums(f, q, s, Len(q))
  <1>1. Sums(c, q, s, Len(q))
    <2>1. Len(q) \in Nat
      OBVIOUS
    <2>2. \E f : Sums(f, q, s, Len(q))
      BY <2>1, SumsExist
    <2>. QED BY <2>2, Zenon
  <1>2. Total(q, s) = c[Len(q)]
    BY DEF Total
  <1>. HIDE DEF c
  <1>3. c[Len(q)] \in Nat
    <2>1. Len(q) \in Nat /\ Len(q) \in 0..Len(q) /\ \A i \in 1..Len(q) : Part(q[i], s) \in Nat
      BY PartIs
    <2>. QED BY <1>1, <2>1, SumsAgree
  <1>. QED BY <1>1, <1>2, <1>3

LEMMA TotalEmpty == \A s : Total(<<>>, s) = 0
  <1>. SUFFICES ASSUME NEW s PROVE Total(<<>>, s) = 0
    OBVIOUS
  <1>1. <<>> \in Seq(Reading) /\ Len(<<>>) = 0
    OBVIOUS
  <1>2. PICK f : Sums(f, <<>>, s, 0) /\ Total(<<>>, s) = f[0]
    BY <1>1, TotalIs
  <1>. QED BY <1>2, SumsAt

LEMMA TotalGrows ==
  ASSUME NEW q \in Seq(Reading), NEW x \in Reading, NEW s
  PROVE  Total(Append(q, x), s) = Total(q, s) + Part(x, s)
  <1>. DEFINE r == Append(q, x)
              n == Len(q)
  <1>1. /\ r \in Seq(Reading) /\ Len(r) = n + 1 /\ n \in Nat /\ n + 1 \in Nat
        /\ r[n + 1] = x /\ \A i \in 1..n : q[i] = r[i] /\ q[i] \in Reading
    OBVIOUS
  <1>. HIDE DEF r, n
  <1>2. PICK f : Sums(f, q, s, n) /\ Total(q, s) = f[n]
    BY TotalIs DEF n
  <1>3. PICK g : Sums(g, r, s, n + 1) /\ Total(r, s) = g[n + 1]
    BY <1>1, TotalIs
  <1>4. f[n] = g[n]
    <2>1. n <= n + 1 /\ n \in 0..n
      BY <1>1
    <2>2. \A i \in 1..n : q[i] = r[i] /\ Part(q[i], s) \in Nat
      BY <1>1, PartIs
    <2>. DEFINE m == n + 1
    <2>3. n <= m /\ m \in Nat /\ Sums(g, r, s, m)
      BY <1>1, <1>3, <2>1
    <2>. HIDE DEF m
    <2>4. \A i \in 0..n : f[i] = g[i]
      BY <1>1, <1>2, <2>2, <2>3, SumsAgree
    <2>. QED BY <2>1, <2>4
  <1>5. g[n + 1] = g[n] + Part(x, s)
    <2>1. n + 1 \in 1..(n + 1) /\ (n + 1) - 1 = n
      BY <1>1
    <2>2. g[n + 1] = g[(n + 1) - 1] + Part(r[n + 1], s)
      BY <1>1, <1>3, <2>1, SumsAt
    <2>. QED BY <1>1, <2>1, <2>2
  <1>. QED BY <1>2, <1>3, <1>4, <1>5 DEF r

LEMMA PagesAre == /\ \A s : PagesAt(s) = Total(seen, s)
                  /\ \A s : PagesAt(s)' = Total(seen', s)
  BY Zenon DEF PagesAt, Total, Sums, Part
-----------------------------------------------------------------------------
(* Control, and the domains of the variables.                              *)
CounterKey == [kind : {"bytes"}, at : Nat] \cup [kind : {"addr"}, at : Address]
Counter    == [key : CounterKey, rss : Nat, accesses : Nat]

Types ==
  /\ counters \in Seq(Counter)
  /\ DOMAIN addr_tree \subseteq Address
  /\ addr_tree = [s \in DOMAIN addr_tree |-> addr_tree[s]]
  /\ \A s \in DOMAIN addr_tree : /\ addr_tree[s].look \in 1..Len(counters)
                                 /\ addr_tree[s].end \in Nat
  /\ IsFiniteSet(heap)
  /\ present \subseteq Object /\ todo \subseteq Object
  /\ ring \in Seq(Address) /\ batch \in Seq(Address)
  /\ seen \in Seq(Reading)

Control ==
  /\ pc \in {"open", "scan", "samples", "report", "done", "undefined", "aborted"}
  /\ pc \notin {"samples", "report"} => handled = {}
  /\ pc = "open" => counters = <<>>
  /\ pc \in {"aborted", "undefined"} => failed

(* The table of counters holds a key once, and those of the buffers that   *)
(* are allocated.                                                          *)
BytesSlots(c) == {i \in DOMAIN c : c[i].key.kind = "bytes"}

Distinct(c) == \A i, j \in DOMAIN c : c[i].key = c[j].key => i = j

Owned == heap = {counters[i].key.at : i \in BytesSlots(counters)}

(* A counter without a buffer has the pages read at its start so far.      *)
AddrKey(s) == [kind |-> "addr", at |-> s]

Paged == \A s \in Address :
           /\ Slot(counters, AddrKey(s)) = {} => Total(seen, s) = 0
           /\ \A i \in Slot(counters, AddrKey(s)) : counters[i].rss = Total(seen, s)

(* The tree holds the range read last at each start, and its counter.      *)
StartOf(i)  == seen[i].obj.start
Final(i)    == \A j \in DOMAIN seen : j > i => StartOf(j) # StartOf(i)

Entered(i) ==
  LET o == seen[i].obj
      e == addr_tree[StartOf(i)]
      k == counters[e.look]
  IN  /\ e.end = o.end
      /\ o.coop  => k.key.kind = "bytes" /\ k.rss = seen[i].pages
      /\ ~o.coop => k.key = AddrKey(o.start)

Mapped == /\ DOMAIN addr_tree = {StartOf(i) : i \in DOMAIN seen}
          /\ \A i \in DOMAIN seen : Final(i) => Entered(i)

(* What was credited is what the tree says of the address, and no sample   *)
(* was credited twice: they are told apart by their place in the batch.    *)
Hits(i) == {e \in handled : i \in e.slots}

Credited ==
  /\ IsFiniteSet(handled)
  /\ \A e \in handled : /\ e.addr \in Address /\ e.slots = Holders(e.addr)
                        /\ e.nth \in Nat /\ e.nth > Len(batch)
  /\ \A i \in DOMAIN counters : counters[i].accesses = Cardinality(Hits(i))

Tables == Types /\ Distinct(counters) /\ Owned /\ Paged /\ Mapped

IInv == Control /\ Tables /\ Credited
-----------------------------------------------------------------------------
(* A step that leaves the tables alone. *)
LEMMA TablesStay ==
  ASSUME Tables, Credited, UNCHANGED <<counters, addr_tree, heap, seen, handled>>,
         present' \subseteq Object, todo' \subseteq Object,
         ring' \in Seq(Address), batch' \in Seq(Address), batch' = batch \/ handled = {}
  PROVE  Tables' /\ Credited'
  <1>1. Types' /\ Distinct(counters)' /\ Owned'
    BY DEF Tables, Types, Distinct, Owned, BytesSlots
  <1>2. Paged'
    BY DEF Tables, Paged, Slot, AddrKey
  <1>3. Mapped'
    BY DEF Tables, Mapped, StartOf, Final, Entered
  <1>4. Credited'
    <2>1. \A a : Holders(a)' = Holders(a)
      BY DEF Holders, Nearest, Greatest
    <2>2. \A i : Hits(i)' = Hits(i)
      BY DEF Hits
    <2>3. ASSUME NEW e \in handled PROVE e.nth \in Nat /\ e.nth > Len(batch')
      BY <2>3 DEF Credited
    <2>. QED BY <2>1, <2>2, <2>3 DEF Credited
  <1>. QED BY <1>1, <1>2, <1>3, <1>4 DEF Tables

LEMMA InitIInv == Init => IInv
  <1>. SUFFICES ASSUME Init PROVE IInv
    OBVIOUS
  <1>1. /\ <<>> \in Seq(Counter) /\ <<>> \in Seq(Address) /\ <<>> \in Seq(Reading)
        /\ DOMAIN <<>> = {} /\ Len(<<>>) = 0
    OBVIOUS
  <1>2. /\ counters = <<>> /\ addr_tree = <<>> /\ heap = {} /\ seen = <<>> /\ handled = {}
        /\ pc = "open" /\ present = {} /\ todo = {} /\ ring = <<>> /\ batch = <<>>
    BY DEF Init
  <1>3. Control
    BY <1>2 DEF Control
  <1>4. Types
    BY <1>1, <1>2, FS_EmptySet DEF Types
  <1>5. Distinct(counters) /\ Owned
    BY <1>1, <1>2 DEF Distinct, Owned, BytesSlots
  <1>6. Paged
    BY <1>1, <1>2, TotalEmpty DEF Paged, Slot
  <1>7. Mapped
    BY <1>1, <1>2 DEF Mapped
  <1>8. Credited
    BY <1>1, <1>2, FS_EmptySet DEF Credited
  <1>. QED BY <1>3, <1>4, <1>5, <1>6, <1>7, <1>8 DEF IInv, Tables

(* The process and the hardware. *)
LEMMA ProcessKeeps ==
  ASSUME IInv, \/ \E o \in Object : Create(o) \/ Destroy(o)
               \/ Exit \/ \E a \in Address : Access(a)
  PROVE  IInv'
  <1>1. UNCHANGED <<counters, addr_tree, heap, seen, handled, batch, pc, failed>>
    BY DEF Create, Destroy, Exit, Access, tables, hist, kernel
  <1>2. present' \subseteq Object /\ todo' \subseteq Object /\ ring' \in Seq(Address)
    <2>1. present \subseteq Object /\ todo \subseteq Object /\ ring \in Seq(Address)
      BY DEF IInv, Tables, Types
    <2>2. ASSUME NEW o \in Object, Create(o)
          PROVE  present' \subseteq Object /\ todo' \subseteq Object /\ ring' \in Seq(Address)
      <3>1. present' = present \cup {o} /\ todo' \in {todo, todo \cup {o}} /\ ring' = ring
        BY <2>2 DEF Create
      <3>. QED BY <2>1, <3>1
    <2>3. ASSUME NEW o \in Object, Destroy(o)
          PROVE  present' \subseteq Object /\ todo' \subseteq Object /\ ring' \in Seq(Address)
      BY <2>1, <2>3 DEF Destroy
    <2>4. CASE Exit
      BY <2>1, <2>4 DEF Exit
    <2>5. ASSUME NEW a \in Address, Access(a)
          PROVE  present' \subseteq Object /\ todo' \subseteq Object /\ ring' \in Seq(Address)
      BY <2>1, <2>5 DEF Access, kernel
    <2>. QED BY <2>2, <2>3, <2>4, <2>5
  <1>3. batch' \in Seq(Address)
    BY <1>1 DEF IInv, Tables, Types
  <1>4. Tables' /\ Credited'
    BY <1>1, <1>2, <1>3, TablesStay DEF IInv
  <1>5. Control'
    BY <1>1 DEF IInv, Control
  <1>. QED BY <1>4, <1>5 DEF IInv

(* do_loop outside of Record, CountSample and Reset. *)
LEMMA LoopKeeps ==
  ASSUME IInv,
         Open \/ OpenFails \/ BeginPass \/ Report
           \/ \E o \in Object : Vanished(o) \/ ReadFails(o)
  PROVE  IInv'
  <1>1. /\ UNCHANGED <<counters, addr_tree, heap, seen, handled>>
        /\ batch' = batch \/ handled = {}
    BY DEF Open, OpenFails, BeginPass, Report, Vanished, ReadFails, Goto, Scanning,
           tables, hist, kernel, IInv, Control
  <1>2. /\ present' \subseteq Object /\ todo' \subseteq Object
        /\ ring' \in Seq(Address) /\ batch' \in Seq(Address)
    <2>1. /\ present \subseteq Object /\ todo \subseteq Object
          /\ ring \in Seq(Address) /\ batch \in Seq(Address) /\ <<>> \in Seq(Address)
      BY DEF IInv, Tables, Types
    <2>2. CASE Open \/ OpenFails \/ Report
      BY <2>1, <2>2 DEF Open, OpenFails, Report, tables, hist, kernel
    <2>3. CASE BeginPass
      BY <2>1, <2>3 DEF BeginPass, tables, hist, kernel
    <2>4. ASSUME NEW o \in Object, Vanished(o) \/ ReadFails(o)
          PROVE  /\ present' \subseteq Object /\ todo' \subseteq Object
                 /\ ring' \in Seq(Address) /\ batch' \in Seq(Address)
      BY <2>1, <2>4 DEF Vanished, ReadFails, Scanning, kernel
    <2>. QED BY <2>2, <2>3, <2>4
  <1>3. Tables' /\ Credited'
    BY <1>1, <1>2, TablesStay DEF IInv
  <1>4. Control'
    BY <1>1 DEF Open, OpenFails, BeginPass, Report, Vanished, ReadFails, Goto, Scanning,
                tables, hist, kernel, IInv, Control
  <1>. QED BY <1>3, <1>4 DEF IInv
-----------------------------------------------------------------------------
(* One range is read. *)
LEMMA BlockIsFree ==
  ASSUME IsFiniteSet(heap)
  PROVE  NewBlock \in Nat /\ NewBlock \notin heap
  <1>. DEFINE n == Cardinality(heap)
  <1>1. n \in Nat /\ n + 1 \in Nat
    BY FS_CardinalityType
  <1>2. IsFiniteSet(1..n+1) /\ Cardinality(1..n+1) = n + 1
    BY <1>1, FS_Interval
  <1>3. \E b \in 1..n+1 : b \notin heap
    <2>. SUFFICES ASSUME 1..n+1 \subseteq heap PROVE FALSE
      OBVIOUS
    <2>1. Cardinality(1..n+1) <= n
      BY FS_Subset
    <2>. QED BY <1>1, <1>2, <2>1
  <1>4. NewBlock \in 1..n+1 /\ NewBlock \notin heap
    BY <1>3, Zenon DEF NewBlock
  <1>. QED BY <1>1, <1>4

(* what hash_table_insert or the addition does to the counters; j is the   *)
(* slot of the key                                                         *)
Counted(c, d, k, n, j) ==
  /\ d \in Seq(Counter) /\ Distinct(d) /\ Len(d) >= Len(c)
  /\ j \in 1..Len(d) /\ Slot(d, k) = {j} /\ d[j].key = k
  /\ \A i \in 1..Len(c) : i # j => d[i] = c[i]
  /\ \A i \in 1..Len(d) : i # j => i \in 1..Len(c)
  /\ Slot(c, k) = {} => j \notin 1..Len(c) /\ d[j].rss = n /\ d[j].accesses = 0
  /\ Slot(c, k) # {} => /\ j \in 1..Len(c) /\ c[j].key = k /\ d[j].rss = c[j].rss + n
                        /\ d[j].accesses = c[j].accesses

LEMMA MorePages ==
  ASSUME NEW c \in Counter, NEW n \in Nat
  PROVE  LET d == [c EXCEPT !.rss = @ + n]
         IN  d \in Counter /\ d.key = c.key /\ d.rss = c.rss + n /\ d.accesses = c.accesses
  <1>. DEFINE d == [c EXCEPT !.rss = @ + n]
  <1>1. c.rss + n \in Nat /\ c.key \in CounterKey /\ c.accesses \in Nat
    BY DEF Counter
  <1>2. d = [key |-> c.key, rss |-> c.rss + n, accesses |-> c.accesses]
    BY DEF Counter
  <1>. HIDE DEF d
  <1>3. d \in Counter
    BY <1>1, <1>2 DEF Counter
  <1>4. d.key = c.key /\ d.rss = c.rss + n /\ d.accesses = c.accesses
    BY <1>2
  <1>. QED BY <1>3, <1>4 DEF d

LEMMA WithObjectIs ==
  ASSUME counters \in Seq(Counter), Distinct(counters), NEW k \in CounterKey, NEW n \in Nat
  PROVE  \E j : Counted(counters, WithObject(k, n), k, n, j)
  <1>. DEFINE d == WithObject(k, n)
              m == Len(counters)
  <1>0. m \in Nat /\ DOMAIN counters = 1..m /\ \A i \in 1..m : counters[i] \in Counter
    OBVIOUS
  <1>1. CASE Slot(counters, k) = {}
    <2>. DEFINE x == [key |-> k, rss |-> n, accesses |-> 0]
    <2>1. x \in Counter /\ x.key = k /\ x.rss = n /\ x.accesses = 0
      BY DEF Counter
    <2>2. d = Append(counters, x)
      BY <1>1 DEF WithObject
    <2>. HIDE DEF x
    <2>3. /\ d \in Seq(Counter) /\ Len(d) = m + 1 /\ DOMAIN d = 1..m+1 /\ d[m + 1] = x
          /\ \A i \in 1..m : d[i] = counters[i]
      BY <2>1, <2>2
    <2>4. \A i \in 1..m : counters[i].key # k
      BY <1>0, <1>1 DEF Slot
    <2>. HIDE DEF d
    <2>5. Slot(d, k) = {m + 1}
      BY <1>0, <2>1, <2>3, <2>4 DEF Slot
    <2>6. Distinct(d)
      <3>1. \A i \in 1..m+1 : i \in 1..m \/ i = m + 1
        BY <1>0
      <3>. QED BY <1>0, <2>1, <2>3, <2>4, <3>1 DEF Distinct
    <2>7. /\ m + 1 \in 1..Len(d) /\ Len(d) >= m /\ m + 1 \notin 1..m
          /\ \A i \in 1..Len(d) : i # m + 1 => i \in 1..m
      BY <1>0, <2>3
    <2>8. Counted(counters, d, k, n, m + 1)
      BY <1>0, <1>1, <2>1, <2>3, <2>5, <2>6, <2>7 DEF Counted
    <2>. QED BY <2>8 DEF d
  <1>2. CASE Slot(counters, k) # {}
    <2>1. PICK j \in 1..m : counters[j].key = k
      BY <1>0, <1>2 DEF Slot
    <2>2. Slot(counters, k) = {j}
      BY <1>0, <2>1 DEF Slot, Distinct
    <2>3. d = [i \in 1..m |-> IF counters[i].key = k
                                THEN [counters[i] EXCEPT !.rss = @ + n] ELSE counters[i]]
      BY <1>0, <1>2 DEF WithObject
    <2>. DEFINE y(i) == [counters[i] EXCEPT !.rss = @ + n]
    <2>4. ASSUME NEW i \in 1..m
          PROVE  /\ y(i) \in Counter /\ y(i).key = counters[i].key
                 /\ y(i).rss = counters[i].rss + n /\ y(i).accesses = counters[i].accesses
      BY <1>0, MorePages
    <2>5. \A i \in 1..m : d[i] = IF counters[i].key = k THEN y(i) ELSE counters[i]
      BY <2>3
    <2>. HIDE DEF y
    <2>6. \A i \in 1..m : d[i] \in Counter /\ d[i].key = counters[i].key
      BY <1>0, <2>4, <2>5
    <2>7. d \in Seq(Counter) /\ Len(d) = m /\ DOMAIN d = 1..m
      <3>1. d = [i \in 1..m |-> d[i]]
        BY <2>3
      <3>. HIDE DEF d
      <3>. QED BY <1>0, <2>6, <3>1
    <2>8. \A i \in 1..m : i # j => counters[i].key # k
      BY <1>0, <2>1 DEF Distinct
    <2>. HIDE DEF d
    <2>9. Slot(d, k) = {j}
      BY <2>1, <2>6, <2>7, <2>8 DEF Slot
    <2>10. Distinct(d)
      BY <1>0, <2>6, <2>7 DEF Distinct
    <2>11. /\ \A i \in 1..m : i # j => d[i] = counters[i]
           /\ d[j].key = k /\ d[j].rss = counters[j].rss + n /\ d[j].accesses = counters[j].accesses
      BY <2>1, <2>4, <2>5, <2>8
    <2>12. Len(d) >= m
      BY <1>0, <2>7
    <2>13. Counted(counters, d, k, n, j)
      BY <1>2, <2>1, <2>2, <2>7, <2>9, <2>10, <2>11, <2>12 DEF Counted
    <2>. QED BY <2>13 DEF d
  <1>. QED BY <1>1, <1>2

(* A range o of n pages is read: its key is k, its counter in slot j. *)
KeyOf(o, k) == IF o.coop THEN \E b \in Nat \ heap : /\ k = [kind |-> "bytes", at |-> b]
                                                   /\ heap' = heap \cup {b}
                         ELSE k = AddrKey(o.start) /\ heap' = heap

Enter(o, n, k, j) ==
  /\ k \in CounterKey /\ KeyOf(o, k) /\ (o.coop => Slot(counters, k) = {})
  /\ Counted(counters, counters', k, n, j)
  /\ addr_tree' = Insert(o.start, [end |-> o.end, look |-> j])
  /\ seen' = Append(seen, [obj |-> o, pages |-> n])

LEMMA NotEntered ==
  ASSUME Owned, NEW b, b \notin heap
  PROVE  Slot(counters, [kind |-> "bytes", at |-> b]) = {}
  <1>. SUFFICES ASSUME NEW i \in DOMAIN counters, counters[i].key = [kind |-> "bytes", at |-> b]
                PROVE  FALSE
    BY DEF Slot
  <1>1. counters[i].key.kind = "bytes" /\ counters[i].key.at = b
    OBVIOUS
  <1>. QED BY <1>1 DEF Owned, BytesSlots

LEMMA ReadEnters ==
  ASSUME Tables, NEW o \in Object, NEW n \in Pages, ReadObject(o, n)
  PROVE  \E k : \E j : Enter(o, n, k, j)
  <1>1. /\ n \in Nat /\ o.start \in Address /\ o.start \in Nat /\ o.coop \in BOOLEAN
    BY ObjectAssumption, PageAssumption
  <1>2. PICK k \in CounterKey : KeyOf(o, k) /\ (o.coop => Slot(counters, k) = {}) /\ Record(o, k, n)
    <2>1. CASE o.coop
      <3>. DEFINE k == [kind |-> "bytes", at |-> NewBlock]
      <3>1. NewBlock \in Nat /\ NewBlock \notin heap
        BY BlockIsFree DEF Tables, Types
      <3>2. Slot(counters, k) = {}
        BY <3>1, NotEntered DEF Tables
      <3>3. k \in CounterKey
        BY <3>1 DEF CounterKey
      <3>4. Record(o, k, n) /\ heap' = heap \cup {NewBlock}
        BY <2>1 DEF ReadObject
      <3>5. KeyOf(o, k)
        BY <2>1, <3>1, <3>4 DEF KeyOf
      <3>. QED BY <3>2, <3>3, <3>4, <3>5
    <2>2. CASE ~o.coop
      <3>1. Record(o, AddrKey(o.start), n) /\ heap' = heap
        BY <2>2 DEF ReadObject, AddrKey
      <3>2. AddrKey(o.start) \in CounterKey
        BY <1>1 DEF CounterKey, AddrKey
      <3>. QED BY <2>2, <3>1, <3>2 DEF KeyOf
    <2>. QED BY <2>1, <2>2
  <1>3. counters \in Seq(Counter) /\ Distinct(counters)
    BY DEF Tables, Types
  <1>4. counters' = WithObject(k, n)
    BY <1>2 DEF Record
  <1>5. PICK j : Counted(counters, WithObject(k, n), k, n, j)
    BY <1>1, <1>3, WithObjectIs
  <1>6. Counted(counters, counters', k, n, j)
    BY <1>4, <1>5, Zenon
  <1>7. (CHOOSE i \in Slot(counters', k) : TRUE) = j
    <2>1. Slot(counters', k) = {j}
      BY <1>6 DEF Counted
    <2>. QED BY <2>1
  <1>8. /\ addr_tree' = Insert(o.start, [end |-> o.end, look |-> j])
        /\ seen' = Append(seen, [obj |-> o, pages |-> n])
    BY <1>2, <1>7 DEF Record
  <1>9. Enter(o, n, k, j)
    BY <1>2, <1>6, <1>8, Zenon DEF Enter
  <1>. QED BY <1>9

(* What a range that is read leaves of the types, and of the buffers. *)
LEMMA EnterTypes ==
  ASSUME Types, NEW o \in Object, NEW n \in Nat, NEW k, NEW j, Enter(o, n, k, j),
         present' \subseteq Object, todo' \subseteq Object, UNCHANGED <<ring, batch>>
  PROVE  Types'
  <1>1. o.start \in Address /\ o.end \in Nat
    BY ObjectAssumption
  <1>2. counters' \in Seq(Counter) /\ Len(counters') >= Len(counters) /\ j \in 1..Len(counters')
    BY DEF Enter, Counted
  <1>3. Len(counters) \in Nat /\ Len(counters') \in Nat
    BY <1>2 DEF Types
  <1>. DEFINE x == [end |-> o.end, look |-> j]
  <1>4. x.end \in Nat /\ x.look \in 1..Len(counters')
    BY <1>1, <1>2
  <1>5. addr_tree' = [s \in DOMAIN addr_tree \cup {o.start} |->
                        IF s = o.start THEN x ELSE addr_tree[s]]
    BY DEF Enter, Insert
  <1>. HIDE DEF x
  <1>6. /\ DOMAIN addr_tree' = DOMAIN addr_tree \cup {o.start}
        /\ addr_tree' = [s \in DOMAIN addr_tree' |-> addr_tree'[s]]
        /\ addr_tree'[o.start] = x
        /\ \A s \in DOMAIN addr_tree : s # o.start => addr_tree'[s] = addr_tree[s]
    BY <1>5
  <1>7. DOMAIN addr_tree' \subseteq Address
    BY <1>1, <1>6 DEF Types
  <1>8. ASSUME NEW s \in DOMAIN addr_tree'
        PROVE  addr_tree'[s].look \in 1..Len(counters') /\ addr_tree'[s].end \in Nat
    <2>1. CASE s = o.start
      BY <1>4, <1>6, <2>1
    <2>2. CASE s # o.start
      <3>1. /\ s \in DOMAIN addr_tree /\ addr_tree'[s] = addr_tree[s]
            /\ addr_tree[s].look \in 1..Len(counters) /\ addr_tree[s].end \in Nat
        BY <1>6, <2>2 DEF Types
      <3>. QED BY <1>2, <1>3, <3>1
    <2>. QED BY <2>1, <2>2
  <1>9. IsFiniteSet(heap')
    BY FS_AddElement DEF Types, Enter, KeyOf
  <1>10. seen' \in Seq(Reading)
    <2>1. [obj |-> o, pages |-> n] \in Reading
      BY DEF Reading
    <2>. QED BY <2>1 DEF Types, Enter
  <1>11. ring' \in Seq(Address) /\ batch' \in Seq(Address)
    BY DEF Types
  <1>. QED BY <1>2, <1>6, <1>7, <1>8, <1>9, <1>10, <1>11 DEF Types

LEMMA EnterOwned ==
  ASSUME Types, Owned, NEW o \in Object, NEW n \in Nat, NEW k, NEW j, Enter(o, n, k, j)
  PROVE  Owned'
  <1>. DEFINE m  == Len(counters)
              m1 == Len(counters')
  <1>1. /\ m \in Nat /\ m1 \in Nat /\ m1 >= m /\ j \in 1..m1
        /\ DOMAIN counters = 1..m /\ DOMAIN counters' = 1..m1
    BY DEF Types, Enter, Counted
  <1>2. /\ \A i \in 1..m : i # j => counters'[i] = counters[i]
        /\ \A i \in 1..m1 : i # j => i \in 1..m
        /\ counters'[j].key = k
        /\ Slot(counters, k) = {} => j \notin 1..m
        /\ Slot(counters, k) # {} => j \in 1..m /\ counters[j].key = k
    BY DEF Enter, Counted
  <1>3. 1..m \subseteq 1..m1
    BY <1>1
  <1>4. ASSUME NEW i \in 1..m PROVE i \in 1..m1 /\ counters'[i].key = counters[i].key
    <2>1. CASE i = j
      <3>1. Slot(counters, k) # {}
        BY <1>2, <2>1
      <3>. QED BY <1>2, <1>3, <2>1, <3>1
    <2>2. CASE i # j
      BY <1>2, <1>3, <2>2
    <2>. QED BY <2>1, <2>2
  <1>. HIDE DEF m, m1
  <1>5. CASE o.coop
    <2>1. PICK b \in Nat \ heap : k = [kind |-> "bytes", at |-> b] /\ heap' = heap \cup {b}
      BY <1>5 DEF Enter, KeyOf
    <2>2. j \notin 1..m /\ k.kind = "bytes" /\ k.at = b
      BY <1>2, <1>5, <2>1 DEF Enter
    <2>3. BytesSlots(counters)' = BytesSlots(counters) \cup {j}
      BY <1>1, <1>2, <1>3, <1>4, <2>2 DEF BytesSlots
    <2>4. \A i \in BytesSlots(counters) : counters'[i].key.at = counters[i].key.at
      BY <1>1, <1>4 DEF BytesSlots
    <2>5. counters'[j].key.at = b
      BY <1>2, <2>2
    <2>. HIDE DEF BytesSlots
    <2>6. {counters'[i].key.at : i \in BytesSlots(counters)'} =
            {counters[i].key.at : i \in BytesSlots(counters)} \cup {b}
      BY <2>3, <2>4, <2>5
    <2>. QED BY <2>1, <2>6 DEF Owned
  <1>6. CASE ~o.coop
    <2>1. k.kind = "addr" /\ heap' = heap
      BY <1>6 DEF Enter, KeyOf, AddrKey
    <2>2. BytesSlots(counters)' = BytesSlots(counters)
      <3>1. counters'[j].key.kind # "bytes"
        BY <1>2, <2>1
      <3>. QED BY <1>1, <1>2, <1>4, <3>1 DEF BytesSlots
    <2>3. \A i \in BytesSlots(counters) : counters'[i].key.at = counters[i].key.at
      BY <1>1, <1>4 DEF BytesSlots
    <2>. QED BY <2>1, <2>2, <2>3 DEF Owned
  <1>. QED BY <1>5, <1>6

LEMMA EnterPaged ==
  ASSUME Types, Paged, NEW o \in Object, NEW n \in Nat, NEW k, NEW j, Enter(o, n, k, j)
  PROVE  Paged'
  <1>. SUFFICES ASSUME NEW s \in Address
                PROVE  /\ Slot(counters', AddrKey(s)) = {} => Total(seen', s) = 0
                       /\ \A i \in Slot(counters', AddrKey(s)) : counters'[i].rss = Total(seen', s)
    BY DEF Paged, AddrKey
  <1>. DEFINE t  == Total(seen, s)
              t1 == Total(seen', s)
              p  == IF ~o.coop /\ o.start = s THEN n ELSE 0
  <1>1. t \in Nat /\ t1 = t + p
    <2>. DEFINE x == [obj |-> o, pages |-> n]
    <2>1. x \in Reading /\ Part(x, s) = p /\ seen \in Seq(Reading) /\ seen' = Append(seen, x)
      BY DEF Reading, Part, Types, Enter
    <2>. HIDE DEF x, p
    <2>. QED BY <2>1, TotalIs, TotalGrows
  <1>2. /\ Slot(counters, AddrKey(s)) = {} => t = 0
        /\ \A i \in Slot(counters, AddrKey(s)) : counters[i].rss = t
    BY DEF Paged
  <1>3. /\ DOMAIN counters = 1..Len(counters) /\ DOMAIN counters' = 1..Len(counters')
        /\ Len(counters) \in Nat /\ Len(counters') \in Nat /\ Len(counters') >= Len(counters)
    BY DEF Types, Enter, Counted
  <1>. HIDE DEF t, t1
  <1>4. CASE k = AddrKey(s)
    <2>1. ~o.coop /\ o.start = s
      BY <1>4 DEF Enter, KeyOf, AddrKey
    <2>2. Slot(counters', AddrKey(s)) = {j}
      BY <1>4 DEF Enter, Counted
    <2>3. counters'[j].rss = t + n
      <3>1. CASE Slot(counters, k) = {}
        <4>1. counters'[j].rss = n /\ t = 0
          BY <1>2, <1>4, <3>1 DEF Enter, Counted
        <4>. QED BY <4>1
      <3>2. CASE Slot(counters, k) # {}
        <4>1. counters'[j].rss = counters[j].rss + n /\ j \in 1..Len(counters) /\ counters[j].key = k
          BY <3>2 DEF Enter, Counted
        <4>2. j \in Slot(counters, k)
          BY <1>3, <4>1 DEF Slot
        <4>. QED BY <1>2, <1>4, <4>1, <4>2
      <3>. QED BY <3>1, <3>2
    <2>. QED BY <1>1, <2>1, <2>2, <2>3 DEF t1
  <1>5. CASE k # AddrKey(s)
    <2>1. p = 0
      BY <1>5 DEF Enter, KeyOf
    <2>2. t1 = t
      BY <1>1, <2>1
    <2>3. /\ counters'[j].key = k
          /\ \A i \in 1..Len(counters) : i # j => counters'[i] = counters[i]
          /\ \A i \in 1..Len(counters') : i # j => i \in 1..Len(counters)
          /\ j \in 1..Len(counters) => counters[j].key = k
      BY DEF Enter, Counted
    <2>4. \A i \in 1..Len(counters) : i \in 1..Len(counters')
      BY <1>3
    <2>5. Slot(counters', AddrKey(s)) = Slot(counters, AddrKey(s))
      BY <1>3, <1>5, <2>3, <2>4 DEF Slot
    <2>6. \A i \in Slot(counters, AddrKey(s)) : counters'[i] = counters[i]
      BY <1>3, <1>5, <2>3 DEF Slot
    <2>. QED BY <1>2, <2>2, <2>5, <2>6 DEF t1
  <1>. QED BY <1>4, <1>5

LEMMA EnterMapped ==
  ASSUME Types, Mapped, NEW o \in Object, NEW n \in Nat, NEW k, NEW j, Enter(o, n, k, j)
  PROVE  Mapped'
  <1>. PICK m \in Nat : m = Len(seen)
    BY DEF Types
  <1>. DEFINE x == [obj |-> o, pages |-> n]
              e == [end |-> o.end, look |-> j]
  <1>1. /\ m \in Nat /\ DOMAIN seen = 1..m /\ DOMAIN seen' = 1..m+1
        /\ \A i \in 1..m : seen'[i] = seen[i] /\ i \in 1..m+1 /\ m + 1 > i
        /\ seen'[m + 1] = x /\ m + 1 \in 1..m+1 /\ \A i \in 1..m+1 : i \in 1..m \/ i = m + 1
    <2>1. x \in Reading /\ seen \in Seq(Reading) /\ seen' = Append(seen, x)
      BY DEF Reading, Types, Enter
    <2>. HIDE DEF x
    <2>. QED BY <2>1
  <1>2. x.obj = o /\ x.pages = n /\ e.end = o.end /\ e.look = j
    OBVIOUS
  <1>3. /\ DOMAIN addr_tree' = DOMAIN addr_tree \cup {o.start}
        /\ addr_tree'[o.start] = e
        /\ \A s \in DOMAIN addr_tree : s # o.start => addr_tree'[s] = addr_tree[s]
    BY DEF Enter, Insert
  <1>. HIDE DEF x, e
  <1>4. StartOf(m + 1)' = o.start /\ \A i \in 1..m : StartOf(i)' = StartOf(i)
    BY <1>1, <1>2 DEF StartOf
  <1>5. DOMAIN addr_tree' = {StartOf(i)' : i \in DOMAIN seen'}
    <2>1. DOMAIN addr_tree = {StartOf(i) : i \in 1..m}
      BY <1>1 DEF Mapped
    <2>. QED BY <1>1, <1>3, <1>4, <2>1
  <1>6. Entered(m + 1)'
    <2>1. /\ seen'[m + 1].obj = o /\ seen'[m + 1].pages = n /\ addr_tree'[StartOf(m + 1)'] = e
      BY <1>1, <1>2, <1>3, <1>4
    <2>2. e.end = o.end
      BY <1>2
    <2>3. counters'[e.look].key = k
      BY <1>2 DEF Enter, Counted
    <2>4. o.coop => k.kind = "bytes" /\ counters'[e.look].rss = n
      BY <1>2 DEF Enter, Counted, KeyOf
    <2>5. ~o.coop => k = AddrKey(o.start)
      BY DEF Enter, KeyOf
    <2>. QED BY <2>1, <2>2, <2>3, <2>4, <2>5 DEF Entered, AddrKey
  <1>7. ASSUME NEW i \in 1..m, Final(i)' PROVE Entered(i)'
    <2>1. StartOf(i) # o.start
      BY <1>1, <1>4, <1>7 DEF Final
    <2>2. Final(i)
      <3>. SUFFICES ASSUME NEW h \in 1..m, h > i PROVE StartOf(h) # StartOf(i)
        BY <1>1 DEF Final
      <3>1. h \in DOMAIN seen'
        BY <1>1
      <3>2. StartOf(h)' # StartOf(i)'
        BY <1>7, <3>1 DEF Final
      <3>. QED BY <1>4, <3>2
    <2>3. Entered(i)
      BY <1>1, <2>2 DEF Mapped
    <2>. DEFINE d == addr_tree[StartOf(i)]
    <2>4. /\ StartOf(i) \in DOMAIN addr_tree /\ addr_tree'[StartOf(i)'] = d
          /\ d.look \in 1..Len(counters)
      <3>1. StartOf(i) \in DOMAIN addr_tree
        BY <1>1 DEF Mapped
      <3>. QED BY <1>3, <1>4, <2>1, <3>1 DEF Types
    <2>5. d.look # j
      <3>. SUFFICES ASSUME d.look = j PROVE FALSE
        OBVIOUS
      <3>1. counters[d.look].key = k /\ Slot(counters, k) # {}
        BY <2>4 DEF Enter, Counted
      <3>2. ~o.coop /\ k = AddrKey(o.start)
        BY <3>1 DEF Enter, KeyOf
      <3>3. k.kind # "bytes" /\ k # AddrKey(StartOf(i))
        BY <2>1, <3>2 DEF AddrKey
      <3>4. o.coop \in BOOLEAN /\ (seen[i].obj.coop => counters[d.look].key.kind = "bytes")
            /\ (~seen[i].obj.coop => counters[d.look].key = AddrKey(StartOf(i)))
        BY <2>3, ObjectAssumption DEF Entered, StartOf
      <3>. QED BY <3>1, <3>3, <3>4
    <2>6. counters'[d.look] = counters[d.look]
      BY <2>4, <2>5 DEF Enter, Counted
    <2>. HIDE DEF d
    <2>7. seen'[i] = seen[i]
      BY <1>1
    <2>8. /\ d.end = seen[i].obj.end
          /\ seen[i].obj.coop => counters[d.look].key.kind = "bytes" /\ counters[d.look].rss = seen[i].pages
          /\ ~seen[i].obj.coop => counters[d.look].key = AddrKey(seen[i].obj.start)
      BY <2>3 DEF Entered, d
    <2>. QED BY <2>4, <2>6, <2>7, <2>8 DEF Entered, AddrKey
  <1>8. \A i \in DOMAIN seen' : Final(i)' => Entered(i)'
    <2>1. ASSUME NEW i \in 1..m+1, Final(i)' PROVE Entered(i)'
      <3>1. CASE i = m + 1
        BY <1>6, <3>1
      <3>2. CASE i \in 1..m
        BY <1>7, <2>1, <3>2
      <3>. QED BY <1>1, <3>1, <3>2
    <2>. QED BY <1>1, <2>1
  <1>. QED BY <1>5, <1>8 DEF Mapped

(* Nothing is credited during a scan. *)
LEMMA EnterCredited ==
  ASSUME Types, Credited, handled = {}, handled' = {},
         NEW o, NEW n \in Nat, NEW k, NEW j, Enter(o, n, k, j)
  PROVE  Credited'
  <1>1. \A i : Hits(i) = {} /\ Hits(i)' = {}
    BY DEF Hits
  <1>2. \A i \in DOMAIN counters : counters[i].accesses = 0
    BY <1>1, FS_EmptySet DEF Credited
  <1>3. /\ DOMAIN counters = 1..Len(counters) /\ DOMAIN counters' = 1..Len(counters')
    BY DEF Types, Enter, Counted
  <1>4. ASSUME NEW i \in 1..Len(counters') PROVE counters'[i].accesses = 0
    <2>1. CASE i # j
      BY <1>2, <1>3, <2>1 DEF Enter, Counted
    <2>2. CASE i = j
      BY <1>2, <1>3, <2>2 DEF Enter, Counted
    <2>. QED BY <2>1, <2>2
  <1>. QED BY <1>1, <1>3, <1>4, FS_EmptySet DEF Credited

LEMMA ReadKeeps == ASSUME IInv, NEW o \in Object, NEW n \in Pages, ReadObject(o, n)
                   PROVE  IInv'
  <1>1. PICK k : \E j : Enter(o, n, k, j)
    BY ReadEnters DEF IInv
  <1>2. PICK j : Enter(o, n, k, j)
    BY <1>1
  <1>3. /\ n \in Nat /\ Types /\ Distinct(counters) /\ Owned /\ Paged /\ Mapped /\ Credited
    BY PageAssumption DEF IInv, Tables
  <1>4. /\ UNCHANGED <<pc, present, ring, batch, failed>>
        /\ todo' \subseteq todo /\ pc = "scan" /\ handled = {} /\ handled' = {}
    BY DEF ReadObject, Scanning, kernel, IInv, Control
  <1>5. present' \subseteq Object /\ todo' \subseteq Object
    BY <1>3, <1>4 DEF Types
  <1>6. Types'
    BY <1>2, <1>3, <1>4, <1>5, EnterTypes
  <1>7. Distinct(counters)'
    BY <1>2 DEF Enter, Counted, Distinct
  <1>8. Owned'
    BY <1>2, <1>3, EnterOwned
  <1>9. Paged'
    BY <1>2, <1>3, EnterPaged
  <1>10. Mapped'
    BY <1>2, <1>3, EnterMapped
  <1>11. Credited'
    BY <1>2, <1>3, <1>4, EnterCredited
  <1>12. Control'
    BY <1>4 DEF IInv, Control
  <1>. QED BY <1>6, <1>7, <1>8, <1>9, <1>10, <1>11, <1>12 DEF IInv, Tables
-----------------------------------------------------------------------------
(* A sample is credited. *)
LEMMA OneMoreAccess ==
  ASSUME NEW c \in Counter
  PROVE  LET d == [c EXCEPT !.accesses = @ + 1]
         IN  d \in Counter /\ d.key = c.key /\ d.rss = c.rss /\ d.accesses = c.accesses + 1
  <1>. DEFINE d == [c EXCEPT !.accesses = @ + 1]
  <1>1. c.rss \in Nat /\ c.key \in CounterKey /\ c.accesses + 1 \in Nat
    BY DEF Counter
  <1>2. d = [key |-> c.key, rss |-> c.rss, accesses |-> c.accesses + 1]
    BY DEF Counter
  <1>. HIDE DEF d
  <1>3. d \in Counter
    BY <1>1, <1>2 DEF Counter
  <1>4. d.key = c.key /\ d.rss = c.rss /\ d.accesses = c.accesses + 1
    BY <1>2
  <1>. QED BY <1>3, <1>4 DEF d

LEMMA CountIs ==
  ASSUME Types, CountSample
  PROVE  /\ counters' \in Seq(Counter) /\ Len(counters') = Len(counters)
         /\ \A i \in 1..Len(counters) :
              /\ counters'[i].key = counters[i].key /\ counters'[i].rss = counters[i].rss
              /\ counters'[i].accesses =
                   counters[i].accesses + (IF i \in Holders(batch[1]) THEN 1 ELSE 0)
  <1>. DEFINE m == Len(counters)
              slots == Holders(batch[1])
              y(i) == [counters[i] EXCEPT !.accesses = @ + 1]
  <1>1. m \in Nat /\ DOMAIN counters = 1..m /\ \A i \in 1..m : counters[i] \in Counter
    BY DEF Types
  <1>2. counters' = [i \in 1..m |-> IF i \in slots THEN y(i) ELSE counters[i]]
    BY <1>1 DEF CountSample
  <1>3. ASSUME NEW i \in 1..m
        PROVE  /\ y(i) \in Counter /\ y(i).key = counters[i].key /\ y(i).rss = counters[i].rss
               /\ y(i).accesses = counters[i].accesses + 1
    BY <1>1, OneMoreAccess
  <1>4. \A i \in 1..m : counters[i].accesses \in Nat
    BY <1>1 DEF Counter
  <1>. HIDE DEF y, m, slots
  <1>5. \A i \in 1..m : counters'[i] = IF i \in slots THEN y(i) ELSE counters[i]
    BY <1>2
  <1>6. \A i \in 1..m : counters'[i] \in Counter
    BY <1>1, <1>3, <1>5
  <1>7. counters' \in Seq(Counter) /\ Len(counters') = m
    <2>1. counters' = [i \in 1..m |-> counters'[i]]
      BY <1>2
    <2>. QED BY <1>1, <1>6, <2>1
  <1>8. ASSUME NEW i \in 1..m
        PROVE  /\ counters'[i].key = counters[i].key /\ counters'[i].rss = counters[i].rss
               /\ counters'[i].accesses = counters[i].accesses + (IF i \in slots THEN 1 ELSE 0)
    <2>1. CASE i \in slots
      BY <1>3, <1>5, <2>1
    <2>2. CASE i \notin slots
      BY <1>4, <1>5, <2>2
    <2>. QED BY <2>1, <2>2
  <1>. QED BY <1>7, <1>8 DEF m, slots

LEMMA CountCredits ==
  ASSUME Types, Credited, CountSample
  PROVE  Credited' /\ batch' \in Seq(Address)
  <1>. PICK a, w, n : /\ a = batch[1] /\ w = Holders(batch[1]) /\ n = Len(batch)
    OBVIOUS
  <1>. PICK x : x = [addr |-> a, slots |-> w, nth |-> n]
    OBVIOUS
  <1>1. /\ a \in Address /\ n \in Nat /\ batch' \in Seq(Address) /\ Len(batch') \in Nat
        /\ n > Len(batch')
    BY DEF CountSample, Types
  <1>2. handled' = handled \cup {x} /\ x.addr = a /\ x.slots = w /\ x.nth = n
    BY DEF CountSample
  <1>3. x \notin handled
    BY <1>1, <1>2 DEF Credited
  <1>4. \A b : Holders(b)' = Holders(b)
    BY DEF CountSample, Holders, Nearest, Greatest
  <1>5. IsFiniteSet(handled')
    BY <1>2, FS_AddElement DEF Credited
  <1>6. ASSUME NEW e \in handled'
        PROVE  /\ e.addr \in Address /\ e.slots = Holders(e.addr)'
               /\ e.nth \in Nat /\ e.nth > Len(batch')
    <2>1. CASE e = x
      <3>1. w = Holders(a)
        OBVIOUS
      <3>2. w = Holders(a)'
        BY <1>4, <3>1
      <3>. QED BY <1>1, <1>2, <2>1, <3>2
    <2>2. CASE e \in handled
      <3>1. e.addr \in Address /\ e.slots = Holders(e.addr) /\ e.nth \in Nat /\ e.nth > n
        BY <2>2 DEF Credited
      <3>2. e.slots = Holders(e.addr)'
        BY <1>4, <3>1
      <3>. QED BY <1>1, <3>1, <3>2
    <2>. QED BY <1>2, <2>1, <2>2
  <1>7. ASSUME NEW i \in 1..Len(counters)
        PROVE  counters'[i].accesses = Cardinality(Hits(i)')
    <2>1. counters[i].accesses = Cardinality(Hits(i)) /\ counters[i].accesses \in Nat
      <3>1. counters[i] \in Counter /\ i \in DOMAIN counters
        BY DEF Types
      <3>. QED BY <3>1 DEF Credited, Counter
    <2>2. counters'[i].accesses = counters[i].accesses + (IF i \in w THEN 1 ELSE 0)
      BY CountIs
    <2>3. IsFiniteSet(Hits(i)) /\ x \notin Hits(i)
      <3>1. Hits(i) \subseteq handled
        BY DEF Hits
      <3>. QED BY <1>3, <3>1, FS_Subset DEF Credited
    <2>4. CASE i \in w
      <3>1. Hits(i)' = Hits(i) \cup {x}
        BY <1>2, <2>4 DEF Hits
      <3>2. Cardinality(Hits(i) \cup {x}) = Cardinality(Hits(i)) + 1
        BY <2>3, FS_AddElement
      <3>. QED BY <2>1, <2>2, <2>4, <3>1, <3>2
    <2>5. CASE i \notin w
      <3>1. Hits(i)' = Hits(i)
        BY <1>2, <2>5 DEF Hits
      <3>. QED BY <2>1, <2>2, <2>5, <3>1
    <2>. QED BY <2>4, <2>5
  <1>8. DOMAIN counters' = 1..Len(counters)
    BY CountIs
  <1>. QED BY <1>1, <1>5, <1>6, <1>7, <1>8 DEF Credited

LEMMA CountKeeps == ASSUME IInv, CountSample PROVE IInv'
  <1>1. /\ Types /\ Distinct(counters) /\ Owned /\ Paged /\ Mapped /\ Credited
    BY DEF IInv, Tables
  <1>2. Credited' /\ batch' \in Seq(Address)
    BY <1>1, CountCredits
  <1>3. /\ counters' \in Seq(Counter) /\ Len(counters') = Len(counters)
        /\ DOMAIN counters = 1..Len(counters) /\ DOMAIN counters' = 1..Len(counters)
        /\ \A i \in 1..Len(counters) : /\ counters'[i].key = counters[i].key
                                       /\ counters'[i].rss = counters[i].rss
    <2>1. DOMAIN counters = 1..Len(counters)
      BY <1>1 DEF Types
    <2>. QED BY <1>1, <2>1, CountIs
  <1>4. UNCHANGED <<addr_tree, heap, pc, present, todo, ring, seen, failed>> /\ pc = "samples"
    BY DEF CountSample, kernel
  <1>5. Types'
    BY <1>1, <1>2, <1>3, <1>4 DEF Types
  <1>6. Distinct(counters)'
    BY <1>1, <1>3 DEF Distinct
  <1>7. Owned'
    <2>1. BytesSlots(counters)' = BytesSlots(counters)
      BY <1>3 DEF BytesSlots
    <2>2. \A i \in BytesSlots(counters) : counters'[i].key = counters[i].key
      BY <1>3 DEF BytesSlots
    <2>. QED BY <1>1, <1>4, <2>1, <2>2 DEF Owned
  <1>8. Paged'
    <2>1. \A k : Slot(counters', k) = Slot(counters, k)
      BY <1>3 DEF Slot
    <2>2. \A k : \A i \in Slot(counters, k) : counters'[i].rss = counters[i].rss
      BY <1>3 DEF Slot
    <2>. QED BY <1>1, <1>4, <2>1, <2>2 DEF Paged, AddrKey
  <1>9. Mapped'
    <2>1. \A i : StartOf(i)' = StartOf(i) /\ (Final(i)' <=> Final(i))
      BY <1>4 DEF StartOf, Final
    <2>2. ASSUME NEW i \in DOMAIN seen, Entered(i) PROVE Entered(i)'
      <3>1. addr_tree[StartOf(i)].look \in 1..Len(counters)
        BY <1>1 DEF Mapped, Types
      <3>. PICK l \in 1..Len(counters) : l = addr_tree[StartOf(i)].look
        BY <3>1
      <3>2. counters'[l].key = counters[l].key /\ counters'[l].rss = counters[l].rss
        BY <1>3
      <3>3. l = addr_tree'[StartOf(i)'].look
        BY <1>4, <2>1
      <3>. QED BY <1>4, <2>1, <2>2, <3>2, <3>3 DEF Entered, AddrKey
    <2>. QED BY <1>1, <1>4, <2>1, <2>2 DEF Mapped
  <1>10. Control'
    BY <1>4 DEF IInv, Control
  <1>. QED BY <1>2, <1>5, <1>6, <1>7, <1>8, <1>9, <1>10 DEF IInv, Tables
-----------------------------------------------------------------------------
(* The end of an interval frees each buffer, and no other block. *)
LEMMA ResetKeeps == ASSUME IInv, Reset PROVE IInv'
  <1>. DEFINE freed == [i \in {j \in DOMAIN counters : counters[j].key.kind = "bytes"} |->
                          counters[i].key.at]
  <1>1. DOMAIN freed = BytesSlots(counters) /\ \A i \in BytesSlots(counters) : freed[i] = counters[i].key.at
    BY DEF BytesSlots
  <1>2. heap = {freed[i] : i \in DOMAIN freed}
    BY <1>1 DEF IInv, Tables, Owned
  <1>3. \A i, j \in DOMAIN freed : freed[i] = freed[j] => i = j
    <2>. SUFFICES ASSUME NEW i \in BytesSlots(counters), NEW j \in BytesSlots(counters),
                         counters[i].key.at = counters[j].key.at
                  PROVE  i = j
      BY <1>1
    <2>1. ASSUME NEW h \in BytesSlots(counters)
          PROVE  h \in DOMAIN counters /\ counters[h].key = [kind |-> "bytes", at |-> counters[h].key.at]
      <3>1. h \in DOMAIN counters /\ counters[h].key.kind = "bytes"
        BY DEF BytesSlots
      <3>2. counters[h] \in Counter
        BY <3>1 DEF IInv, Tables, Types
      <3>3. counters[h].key \in CounterKey
        BY <3>2 DEF Counter
      <3>. QED BY <3>1, <3>3 DEF CounterKey
    <2>2. counters[i].key = counters[j].key
      BY <2>1
    <2>. QED BY <2>1, <2>2 DEF IInv, Tables, Distinct
  <1>4. /\ pc' = IF (\A i \in DOMAIN freed : freed[i] \in heap)
                      /\ (\A i, j \in DOMAIN freed : freed[i] = freed[j] => i = j)
                   THEN "open" ELSE "aborted"
        /\ heap' = heap \ {freed[i] : i \in DOMAIN freed}
    BY DEF Reset
  <1>. HIDE DEF freed
  <1>5. pc' = "open" /\ heap' = {}
    BY <1>2, <1>3, <1>4
  <1>6. /\ counters' = <<>> /\ addr_tree' = <<>> /\ seen' = <<>> /\ handled' = {}
        /\ UNCHANGED <<present, todo, ring, batch>>
    BY DEF Reset, kernel
  <1>7. /\ <<>> \in Seq(Counter) /\ <<>> \in Seq(Reading) /\ DOMAIN <<>> = {} /\ Len(<<>>) = 0
    OBVIOUS
  <1>8. Types'
    <2>1. /\ present \subseteq Object /\ todo \subseteq Object
          /\ ring \in Seq(Address) /\ batch \in Seq(Address)
      BY DEF IInv, Tables, Types
    <2>. QED BY <1>5, <1>6, <1>7, <2>1, FS_EmptySet DEF Types
  <1>9. Distinct(counters)' /\ Owned'
    BY <1>5, <1>6, <1>7 DEF Distinct, Owned, BytesSlots
  <1>10. Paged'
    BY <1>6, <1>7, TotalEmpty DEF Paged, Slot
  <1>11. Mapped'
    BY <1>6, <1>7 DEF Mapped
  <1>12. Credited'
    BY <1>6, <1>7, FS_EmptySet DEF Credited
  <1>13. Control'
    BY <1>5, <1>6 DEF Control
  <1>. QED BY <1>8, <1>9, <1>10, <1>11, <1>12, <1>13 DEF IInv, Tables

LEMMA NextIInv == IInv /\ [Next]_vars => IInv'
  <1>. SUFFICES ASSUME IInv, [Next]_vars PROVE IInv'
    OBVIOUS
  <1>1. CASE UNCHANGED vars
    <2>1. UNCHANGED <<counters, addr_tree, heap, seen, handled, present, todo, ring, batch, pc, failed>>
      BY <1>1 DEF vars, tables, kernel, hist
    <2>2. /\ present' \subseteq Object /\ todo' \subseteq Object
          /\ ring' \in Seq(Address) /\ batch' \in Seq(Address)
      BY <2>1 DEF IInv, Tables, Types
    <2>3. Tables' /\ Credited'
      BY <2>1, <2>2, TablesStay DEF IInv
    <2>4. Control'
      BY <2>1 DEF IInv, Control
    <2>. QED BY <2>3, <2>4 DEF IInv
  <1>2. CASE Stopped
    BY <1>1, <1>2 DEF Stopped
  <1>3. CASE (\E o \in Object : Create(o) \/ Destroy(o)) \/ Exit \/ \E a \in Address : Access(a)
    BY <1>3, ProcessKeeps
  <1>4. CASE Open \/ OpenFails \/ BeginPass \/ Report
    BY <1>4, LoopKeeps
  <1>5. CASE \E o \in Object : Vanished(o) \/ ReadFails(o)
    BY <1>5, LoopKeeps
  <1>6. CASE \E o \in Object : \E n \in Pages : ReadObject(o, n)
    BY <1>6, ReadKeeps
  <1>7. CASE CountSample
    BY <1>7, CountKeeps
  <1>8. CASE Reset
    BY <1>8, ResetKeeps
  <1>. QED BY <1>1, <1>2, <1>3, <1>4, <1>5, <1>6, <1>7, <1>8 DEF Next, DoLoop

(* accesses.c, do_loop: the table of counters holds each key once and the  *)
(* keys' buffers are those allocated, each range of the tree leads to the  *)
(* counter of the object last read there, a counter without a buffer has   *)
(* the pages read at its start, and the accesses of a counter are the      *)
(* samples credited to it.                                                 *)
THEOREM AccessesInvariant == Spec => []IInv
  <1>. QED BY InitIInv, NextIInv, PTL DEF Spec

(* accesses.c, get_objects and the loop of do_loop that frees the keys: a  *)
(* buffer is freed with its interval and once, and the tool aborts or goes *)
(* on with a key that is not set only after a buffer it could not read.    *)
THEOREM BuffersOnce == Spec => []BuffersFreedOnce
  <1>1. IInv => BuffersFreedOnce
    <2>. SUFFICES ASSUME IInv PROVE BuffersFreedOnce
      OBVIOUS
    <2>1. pc = "open" => heap = {}
      <3>. SUFFICES ASSUME pc = "open" PROVE heap = {}
        OBVIOUS
      <3>1. counters = <<>> /\ DOMAIN <<>> = {}
        BY DEF IInv, Control
      <3>. QED BY <3>1 DEF IInv, Tables, Owned, BytesSlots
    <2>2. pc \in {"aborted", "undefined"} => failed
      BY DEF IInv, Control
    <2>. QED BY <2>1, <2>2 DEF BuffersFreedOnce
  <1>. QED BY <1>1, AccessesInvariant, PTL
-----------------------------------------------------------------------------
(* The tree and the ranges read agree on what lies at an address. *)
LEMMA NothingBelow ==
  ASSUME Types, Mapped, NEW a \in Address, {s \in DOMAIN addr_tree : s <= a} = {}
  PROVE  Holders(a) = {} /\ Latest(a) = {}
  <1>1. Holders(a) = {}
    BY DEF Holders, Nearest, Greatest
  <1>2. ASSUME NEW i \in Latest(a) PROVE FALSE
    <2>1. i \in DOMAIN seen /\ StartOf(i) <= a
      BY DEF Latest, StartOf
    <2>. QED BY <2>1 DEF Mapped
  <1>. QED BY <1>1, <1>2

LEMMA LatestIs ==
  ASSUME Types, Mapped, NEW a \in Address, {s \in DOMAIN addr_tree : s <= a} # {}
  PROVE  \E l \in DOMAIN seen :
           /\ Latest(a) = {l} /\ Entered(l) /\ StartOf(l) \in Address
           /\ Nearest(a) = {StartOf(l)}
  <1>. DEFINE S == {s \in DOMAIN addr_tree : s <= a}
  <1>1. a \in Nat /\ S \subseteq Nat /\ \A x \in S : x <= a
    BY ObjectAssumption DEF Types
  <1>2. PICK g \in S : \A x \in S : x <= g
    BY <1>1, GreatestPlace
  <1>3. Nearest(a) = {g}
    BY <1>1, <1>2 DEF Nearest, Greatest
  <1>. DEFINE I == {i \in DOMAIN seen : StartOf(i) = g}
  <1>4. I # {} /\ I \subseteq Nat /\ Len(seen) \in Nat /\ \A i \in I : i <= Len(seen)
    <2>1. I # {}
      BY DEF Mapped
    <2>2. Len(seen) \in Nat /\ DOMAIN seen = 1..Len(seen)
      BY DEF Types
    <2>. QED BY <2>1, <2>2
  <1>5. PICK l \in I : \A i \in I : i <= l
    BY <1>4, GreatestPlace
  <1>6. \A i \in DOMAIN seen : i \in Nat /\ StartOf(i) \in Nat /\ StartOf(i) \in DOMAIN addr_tree
    <2>1. \A i \in DOMAIN seen : i \in Nat /\ StartOf(i) \in DOMAIN addr_tree
      BY DEF Types, Mapped
    <2>. QED BY <2>1, ObjectAssumption DEF Types
  <1>7. Final(l)
    BY <1>5, <1>6 DEF Final
  <1>8. Entered(l)
    BY <1>7 DEF Mapped
  <1>9. l \in Latest(a)
    <2>1. l \in DOMAIN seen /\ StartOf(l) = g /\ g <= a
      OBVIOUS
    <2>2. ASSUME NEW j \in DOMAIN seen, StartOf(j) <= a
          PROVE  StartOf(j) < StartOf(l) \/ (StartOf(j) = StartOf(l) /\ j <= l)
      <3>1. StartOf(j) <= g
        BY <1>2, <1>6, <2>2
      <3>. QED BY <1>5, <1>6, <2>1, <3>1
    <2>. QED BY <2>1, <2>2 DEF Latest, StartOf
  <1>10. ASSUME NEW i \in Latest(a) PROVE i = l
    <2>1. /\ i \in DOMAIN seen /\ StartOf(i) <= a
          /\ \A j \in DOMAIN seen :
               StartOf(j) <= a => StartOf(j) < StartOf(i) \/ (StartOf(j) = StartOf(i) /\ j <= i)
      BY DEF Latest, StartOf
    <2>2. StartOf(i) <= g
      BY <1>2, <1>6, <2>1
    <2>3. StartOf(l) = g /\ g <= a
      OBVIOUS
    <2>4. StartOf(i) = g /\ l <= i
      BY <1>6, <2>1, <2>2, <2>3
    <2>5. i <= l
      BY <1>5, <2>1, <2>4
    <2>. QED BY <1>6, <2>1, <2>4, <2>5
  <1>11. Latest(a) = {l}
    BY <1>9, <1>10
  <1>12. StartOf(l) = g /\ StartOf(l) \in Address
    BY DEF Types
  <1>. QED BY <1>3, <1>8, <1>11, <1>12

(* A counter that is credited: what it shows of the range it stands for. *)
LEMMA CounterShows ==
  ASSUME Types, Paged, Credited, NEW l \in DOMAIN seen, Entered(l), StartOf(l) \in Address,
         NEW j \in DOMAIN counters, j = addr_tree[StartOf(l)].look
  PROVE  LET o == seen[l].obj
         IN  /\ counters[j].key.kind = IF o.coop THEN "bytes" ELSE "addr"
             /\ counters[j].rss = IF o.coop THEN seen[l].pages ELSE PagesAt(o.start)
             /\ counters[j].accesses = Cardinality(Hits(j))
  <1>1. counters[j].accesses = Cardinality(Hits(j))
    BY DEF Credited
  <1>2. /\ seen[l].obj.coop => counters[j].key.kind = "bytes" /\ counters[j].rss = seen[l].pages
        /\ ~seen[l].obj.coop => counters[j].key = AddrKey(StartOf(l))
    BY DEF Entered, StartOf
  <1>3. CASE seen[l].obj.coop
    BY <1>1, <1>2, <1>3
  <1>4. CASE ~seen[l].obj.coop
    <2>1. counters[j].key.kind = "addr" /\ j \in Slot(counters, AddrKey(StartOf(l)))
      BY <1>2, <1>4 DEF Slot, AddrKey
    <2>2. counters[j].rss = Total(seen, StartOf(l))
      BY <2>1 DEF Paged
    <2>3. counters[j].rss = PagesAt(seen[l].obj.start)
      BY <2>2, PagesAre, Zenon DEF StartOf
    <2>. QED BY <1>1, <1>4, <2>1, <2>3
  <1>. QED BY <1>3, <1>4

(* accesses.c, get_objects and get_accesses_for_cpu: however the ranges    *)
(* overlap and the process changes during the scan, a sample is credited   *)
(* to the counter of the nearest range at or below it as it was read last, *)
(* and to none past its end; the counter has the pages of that range, and  *)
(* as many accesses as samples were credited to it.                        *)
THEOREM SamplesCredited == Spec => []Attributed
  <1>1. IInv => Attributed
    <2>. SUFFICES ASSUME IInv PROVE Attributed
      OBVIOUS
    <2>. USE DEF IInv, Tables
    <2>. SUFFICES ASSUME NEW c \in handled
                  PROVE  LET over == {i \in Latest(c.addr) : c.addr < seen[i].obj.end}
                         IN  /\ Cardinality(c.slots) = Cardinality(over)
                             /\ \A i \in over, slot \in c.slots :
                                  LET o == seen[i].obj
                                      k == counters[slot]
                                  IN  /\ k.key.kind = IF o.coop THEN "bytes" ELSE "addr"
                                      /\ k.rss = IF o.coop THEN seen[i].pages ELSE PagesAt(o.start)
                                      /\ k.accesses = Cardinality({e \in handled : slot \in e.slots})
      BY Zenon DEF Attributed
    <2>. DEFINE a == c.addr
                over == {i \in Latest(a) : a < seen[i].obj.end}
    <2>1. a \in Address /\ c.slots = Holders(a)
      BY DEF Credited
    <2>2. CASE {s \in DOMAIN addr_tree : s <= a} = {}
      <3>1. Holders(a) = {} /\ Latest(a) = {}
        BY <2>1, <2>2, NothingBelow
      <3>. QED BY <2>1, <3>1
    <2>3. CASE {s \in DOMAIN addr_tree : s <= a} # {}
      <3>1. PICK l \in DOMAIN seen : /\ Latest(a) = {l} /\ Entered(l) /\ StartOf(l) \in Address
                                     /\ Nearest(a) = {StartOf(l)}
        BY <2>1, <2>3, LatestIs
      <3>. PICK j : j = addr_tree[StartOf(l)].look
        OBVIOUS
      <3>2. j \in DOMAIN counters
        <4>1. StartOf(l) \in DOMAIN addr_tree
          BY DEF Mapped
        <4>2. j \in 1..Len(counters)
          BY <4>1 DEF Types
        <4>. QED BY <4>2 DEF Types
      <3>3. addr_tree[StartOf(l)].end = seen[l].obj.end
        BY <3>1 DEF Entered
      <3>4. CASE ~(a < seen[l].obj.end)
        <4>1. Holders(a) = {} /\ over = {}
          BY <3>1, <3>3, <3>4 DEF Holders
        <4>. QED BY <2>1, <4>1
      <3>5. CASE a < seen[l].obj.end
        <4>1. Holders(a) = {j} /\ over = {l}
          BY <3>1, <3>3, <3>5 DEF Holders
        <4>2. Cardinality({j}) = 1 /\ Cardinality({l}) = 1
          BY FS_Singleton
        <4>3. LET o == seen[l].obj
              IN  /\ counters[j].key.kind = IF o.coop THEN "bytes" ELSE "addr"
                  /\ counters[j].rss = IF o.coop THEN seen[l].pages ELSE PagesAt(o.start)
                  /\ counters[j].accesses = Cardinality(Hits(j))
          BY <3>1, <3>2, CounterShows
        <4>. QED BY <2>1, <4>1, <4>2, <4>3 DEF Hits
      <3>. QED BY <3>4, <3>5
    <2>. QED BY <2>2, <2>3
  <1>. QED BY <1>1, AccessesInvariant, PTL
=============================================================================
