------------------------- MODULE SimpleConfigProofs -------------------------
(***************************************************************************)
(* Who owns the copies of string defaults, and what a parse leaves in the  *)
(* options and reports, for any options, kinds, lines, validators and      *)
(* bounds.                                                                 *)
(***************************************************************************)
EXTENDS SimpleConfig, FiniteSetTheorems, TLAPS

(* scfg_make starts without a copy. *)
LEMMA InitOwnership == Init => Ownership
  BY DEF Init, Ownership, TypeOK, EntryType, Entry, Value, Owners, Holders

(* A call that sets flags of one entry, and leaves its copy alone. *)
LEMMA FlagsKeep ==
  ASSUME Ownership, UNCHANGED <<target, blocks, freed>>,
         entry' \in [Key -> EntryType'],
         \A k \in Key : entry'[k].sdef = entry[k].sdef
  PROVE  Ownership'
  BY DEF Ownership, TypeOK, EntryType, Owners, Holders

LEMMA RequireKeeps == ASSUME Ownership, NEW k \in Key, Require(k) PROVE Ownership'
  <1>1. entry' = [entry EXCEPT ![k].required = TRUE] /\ UNCHANGED <<target, blocks, freed>>
    BY DEF Require, Call
  <1>2. entry[k] \in EntryType /\ EntryType' = EntryType
    BY <1>1 DEF Ownership, TypeOK, EntryType
  <1>3. [entry[k] EXCEPT !.required = TRUE] \in EntryType
        /\ [entry[k] EXCEPT !.required = TRUE].sdef = entry[k].sdef
    BY <1>2 DEF EntryType
  <1>4. entry' = [entry EXCEPT ![k] = [entry[k] EXCEPT !.required = TRUE]]
    BY <1>1
  <1>5. entry' \in [Key -> EntryType] /\ \A j \in Key : entry'[j].sdef = entry[j].sdef
    BY <1>3, <1>4 DEF Ownership, TypeOK
  <1>. QED BY <1>1, <1>2, <1>5, FlagsKeep

LEMMA ValidateKeeps == ASSUME Ownership, NEW k \in Key, Validate(k) PROVE Ownership'
  <1>1. entry' = [entry EXCEPT ![k].validate = TRUE] /\ UNCHANGED <<target, blocks, freed>>
    BY DEF Validate, Call
  <1>2. entry[k] \in EntryType /\ EntryType' = EntryType
    BY <1>1 DEF Ownership, TypeOK, EntryType
  <1>3. [entry[k] EXCEPT !.validate = TRUE] \in EntryType
        /\ [entry[k] EXCEPT !.validate = TRUE].sdef = entry[k].sdef
    BY <1>2 DEF EntryType
  <1>4. entry' = [entry EXCEPT ![k] = [entry[k] EXCEPT !.validate = TRUE]]
    BY <1>1
  <1>5. entry' \in [Key -> EntryType] /\ \A j \in Key : entry'[j].sdef = entry[j].sdef
    BY <1>3, <1>4 DEF Ownership, TypeOK
  <1>. QED BY <1>1, <1>2, <1>5, FlagsKeep

(* What is freed belonged to the entry alone. *)
LEMMA AddEntryKeeps ==
  ASSUME Ownership, NEW k \in Key, NEW kind \in Kinds, AddEntry(k, kind)
  PROVE  Ownership'
  <1>1. /\ entry' = [entry EXCEPT ![k] = Entry(kind)]
        /\ freed' = freed \cup FreedBy(entry[k])
        /\ UNCHANGED <<target, blocks>>
    BY DEF AddEntry, Call
  <1>2. \A j \in Key : entry'[j].sdef = IF j = k THEN 0 ELSE entry[j].sdef
    BY <1>1 DEF Entry, Ownership, TypeOK
  <1>3. FreedBy(entry[k]) \subseteq 1..blocks
        /\ \A b \in FreedBy(entry[k]) : k \in Owners(b)
    BY DEF FreedBy, Ownership, TypeOK, EntryType, Owners
  <1>4. TypeOK'
    <2>1. Entry(kind) \in EntryType
      BY DEF Entry, EntryType, Ownership, TypeOK
    <2>2. EntryType' = EntryType
      BY <1>1 DEF EntryType
    <2>. QED BY <1>1, <1>3, <2>1, <2>2 DEF Ownership, TypeOK
  <1>5. \A b \in 1..blocks : Owners(b)' = Owners(b) \ {k} /\ Holders(b)' = Holders(b)
    BY <1>1, <1>2 DEF Owners, Holders
  <1>. QED BY <1>1, <1>3, <1>4, <1>5 DEF Ownership

(* A new copy is nobody else's. *)
LEMMA DefaultKeeps == ASSUME Ownership, NEW k \in Key, Default(k) PROVE Ownership'
  <1> DEFINE copy == IF entry[k].kind = "string" THEN blocks' ELSE 0
             new  == [entry[k] EXCEPT !.has_default = TRUE, !.sdef = copy]
  <1>1. /\ blocks' = IF entry[k].kind = "string" THEN blocks + 1 ELSE blocks
        /\ entry' = [entry EXCEPT ![k] = new]
        /\ UNCHANGED <<target, freed>>
    BY DEF Default, Call
  <1>2. blocks \in Nat /\ blocks' \in Nat /\ blocks <= blocks' /\ copy \in 0..blocks'
    BY <1>1 DEF Ownership, TypeOK
  <1>3. entry \in [Key -> EntryType]
    BY DEF Ownership, TypeOK
  <1>4. new \in EntryType' /\ new.sdef = copy
    BY <1>2, <1>3 DEF EntryType
  <1>5. \A e \in EntryType : e \in EntryType' /\ e.sdef \in 0..blocks
    BY <1>2 DEF EntryType
  <1> HIDE DEF new, copy
  <1>6. \A j \in Key : entry'[j].sdef = IF j = k THEN copy ELSE entry[j].sdef
    BY <1>1, <1>3, <1>4
  <1>7. TypeOK'
    <2>1. entry' \in [Key -> EntryType']
      BY <1>1, <1>3, <1>4, <1>5
    <2>. QED BY <1>1, <1>2, <2>1 DEF Ownership, TypeOK
  <1>8. copy = 0 \/ copy \notin 1..blocks
    BY <1>1, <1>2 DEF copy
  <1>9. \A b \in 1..blocks : Owners(b)' = Owners(b) \ {k} /\ Holders(b)' = Holders(b)
    BY <1>1, <1>6, <1>8 DEF Owners, Holders
  <1>10. ASSUME NEW b \in 1..blocks', b \notin 1..blocks
         PROVE  Owners(b)' \subseteq {k} /\ Holders(b)' = {} /\ b \notin freed'
    <2>1. \A j \in Key : entry[j].sdef # b
      BY <1>3, <1>5, <1>10
    <2>. QED BY <1>1, <1>2, <1>6, <1>10, <2>1 DEF Owners, Holders, Ownership, TypeOK
  <1>. QED BY <1>1, <1>2, <1>7, <1>9, <1>10 DEF Ownership

(* scfg_free gives up every copy that an entry still has. *)
LEMMA RemakeKeeps == Ownership /\ Remake => Ownership'
  <1> SUFFICES ASSUME Ownership, Remake PROVE Ownership'
    OBVIOUS
  <1>1. /\ freed' = freed \cup UNION {FreedBy(entry[k]) : k \in Key}
        /\ entry' = [k \in Key |-> Entry("none")]
        /\ UNCHANGED <<target, blocks>>
    BY DEF Remake
  <1>2. \A k \in Key : FreedBy(entry[k]) \subseteq 1..blocks
                      /\ \A b \in FreedBy(entry[k]) : k \in Owners(b)
    BY DEF FreedBy, Ownership, TypeOK, EntryType, Owners
  <1>3. \A k \in Key : entry'[k] \in EntryType' /\ entry'[k].sdef = 0
    BY <1>1 DEF Entry, EntryType, Ownership, TypeOK
  <1>4. TypeOK'
    <2>1. entry' \in [Key -> EntryType']
      BY <1>1, <1>3
    <2>2. UNION {FreedBy(entry[k]) : k \in Key} \subseteq 1..blocks
      BY <1>2, Zenon
    <2>3. freed' \subseteq 1..blocks'
      BY <1>1, <2>2 DEF Ownership, TypeOK
    <2>. QED BY <1>1, <2>1, <2>3 DEF Ownership, TypeOK
  <1>5. \A b \in 1..blocks : Owners(b)' = {} /\ Holders(b)' = Holders(b)
    BY <1>1, <1>3 DEF Owners, Holders
  <1>6. \A b \in freed' : b \in freed \/ Owners(b) # {}
    BY <1>1, <1>2
  <1>. QED BY <1>1, <1>4, <1>5, <1>6 DEF Ownership

(* A line stores a value of its own, never a copy of a default. *)
LEMMA LineKeeps == ASSUME Ownership, NEW ws, ParseLine(ws), UNCHANGED client
                   PROVE  Ownership'
  <1>1. UNCHANGED <<blocks, freed>>
    BY DEF client
  <1>2. CASE UNCHANGED <<entry, target>>
    BY <1>1, <1>2 DEF Ownership, TypeOK, EntryType, Owners, Holders
  <1>3. CASE ws # <<>> /\ LineError(ws) = "NONE" /\ Accept(ws)
    <2> DEFINE k == ws[1]
    <2>1. k \in Key /\ Registered(k)
      BY <1>3 DEF LineError
    <2>2. entry \in [Key -> EntryType] /\ EntryType' = EntryType
      BY <1>1 DEF Ownership, TypeOK, EntryType
    <2>3. Address(k) \in Key \X Kinds
      BY <2>1, <2>2 DEF Address, Registered, EntryType
    <2>4. \/ UNCHANGED target
          \/ \E v : target' = [target EXCEPT ![Address(k)] = Value(v, 0)]
      BY <1>3 DEF Accept
    <2>5. DOMAIN target' = Key \X Kinds
          /\ \A a \in Key \X Kinds : target'[a].block \in {0, target[a].block}
      <3>1. DOMAIN target = Key \X Kinds
        BY DEF Ownership, TypeOK
      <3>2. CASE UNCHANGED target
        BY <3>1, <3>2
      <3>3. ASSUME NEW v, target' = [target EXCEPT ![Address(k)] = Value(v, 0)]
            PROVE  /\ DOMAIN target' = Key \X Kinds
                   /\ \A a \in Key \X Kinds : target'[a].block \in {0, target[a].block}
        <4>1. \A a \in Key \X Kinds :
                target'[a] = IF a = Address(k) THEN Value(v, 0) ELSE target[a]
          BY <2>3, <3>1, <3>3
        <4>2. Value(v, 0).block = 0
          BY DEF Value
        <4>. QED BY <3>1, <3>3, <4>1, <4>2
      <3>. QED BY <2>4, <3>2, <3>3
    <2>6. [entry[k] EXCEPT !.set = TRUE] \in EntryType
          /\ [entry[k] EXCEPT !.set = TRUE].sdef = entry[k].sdef
      BY <2>1, <2>2 DEF EntryType
    <2>7. entry' = [entry EXCEPT ![k] = [entry[k] EXCEPT !.set = TRUE]] \/ UNCHANGED entry
      BY <1>3 DEF Accept
    <2>8. entry' \in [Key -> EntryType'] /\ \A j \in Key : entry'[j].sdef = entry[j].sdef
      BY <2>1, <2>2, <2>6, <2>7
    <2>9. TypeOK'
      BY <1>1, <2>5, <2>8 DEF Ownership, TypeOK
    <2>10. \A b \in 1..blocks : Owners(b)' = Owners(b) /\ Holders(b)' \subseteq Holders(b)
      BY <2>5, <2>8 DEF Owners, Holders
    <2>. QED BY <1>1, <2>9, <2>10 DEF Ownership
  <1>. QED BY <1>2, <1>3 DEF ParseLine

(* A default goes from its entry to the client, and only there. *)
LEMMA FinishKeeps == Ownership /\ Finish => Ownership'
  <1> SUFFICES ASSUME Ownership, Finish PROVE Ownership'
    OBVIOUS
  <1>1. UNCHANGED <<blocks, freed>>
    BY DEF Finish, client
  <1>2. CASE UNCHANGED <<entry, target>>
    BY <1>1, <1>2 DEF Ownership, TypeOK, EntryType, Owners, Holders
  <1>3. CASE ApplyDefaults
    <2>1. entry \in [Key -> EntryType] /\ EntryType' = EntryType
          /\ DOMAIN target = Key \X Kinds
      BY <1>1 DEF Ownership, TypeOK, EntryType
    <2>2. ASSUME NEW k \in Key
          PROVE  /\ entry'[k] \in EntryType
                 /\ entry'[k].sdef = IF k \in Defaulting THEN 0 ELSE entry[k].sdef
      BY <1>3, <2>1 DEF ApplyDefaults, DefaultOf, EntryType, Ownership, TypeOK
    <2>3. ASSUME NEW a \in Key \X Kinds
          PROVE  \/ target'[a].block \in {0, target[a].block}
                 \/ /\ a[1] \in Key /\ a = Address(a[1]) /\ a[1] \in Defaulting
                    /\ target'[a].block = entry[a[1]].sdef
      BY <1>3, <2>1 DEF ApplyDefaults, DefaultOf, Value
    <2>4. TypeOK'
      <3>1. entry' \in [Key -> EntryType']
        BY <1>3, <2>1, <2>2 DEF ApplyDefaults
      <3>2. DOMAIN target' = Key \X Kinds
        BY <1>3, <2>1 DEF ApplyDefaults
      <3>3. \A a \in Key \X Kinds : target'[a].block \in 0..blocks
        BY <2>1, <2>3 DEF Ownership, TypeOK, EntryType
      <3>. QED BY <1>1, <3>1, <3>2, <3>3 DEF Ownership, TypeOK
    <2>5. ASSUME NEW b \in 1..blocks
          PROVE  /\ Owners(b)' = Owners(b) \ Defaulting
                 /\ \A a \in Holders(b)' :
                      a \in Holders(b) \/ (a = Address(a[1]) /\ a[1] \in Owners(b) \cap Defaulting)
      BY <2>2, <2>3 DEF Owners, Holders
    <2>. QED BY <1>1, <2>4, <2>5 DEF Ownership
  <1>. QED BY <1>2, <1>3 DEF Finish

LEMMA StepKeeps == Ownership /\ [Next]_vars => Ownership'
  <1> SUFFICES ASSUME Ownership, [Next]_vars PROVE Ownership'
    OBVIOUS
  <1>1. CASE UNCHANGED <<entry, target, blocks, freed>>
    BY <1>1 DEF Ownership, TypeOK, EntryType, Owners, Holders
  <1>2. CASE SetUp \/ Remake
    BY <1>2, AddEntryKeeps, RequireKeeps, DefaultKeeps, ValidateKeeps, RemakeKeeps DEF SetUp
  <1>3. ASSUME NEW text, Chunk(text) PROVE Ownership'
    BY <1>3, LineKeeps DEF Chunk
  <1>4. CASE Parse
    <2>1. CASE OpenFails \/ Open
      BY <2>1, <1>1 DEF OpenFails, Open, client
    <2>2. CASE (\E l \in Line : ReadLine(l)) \/ ReadRest
      BY <2>2, <1>3 DEF ReadLine, ReadRest
    <2>. QED BY <1>4, <2>1, <2>2, FinishKeeps DEF Parse
  <1>5. CASE UNCHANGED vars
    BY <1>5, <1>1 DEF vars, client
  <1>. QED BY <1>2, <1>4, <1>5 DEF Next

(* No string default is freed while an entry or the client refers to it,   *)
(* nor shared, whatever is registered and read, in any order.              *)
THEOREM DefaultsOwned == Spec => []Ownership
  <1>. QED BY InitOwnership, StepKeeps, PTL DEF Spec
-----------------------------------------------------------------------------
(***************************************************************************)
(* sh_split.  Its recursions go through a line from left to right, so each *)
(* function it defines exists, and is determined by its steps.             *)
(***************************************************************************)
(* A set of numbers has a least one: the proofs by induction come to this. *)
LEMMA LeastPlace == ASSUME NEW T, T \subseteq Nat, T # {}
                    PROVE  \E m \in T : \A n \in T : m <= n
  <1>. DEFINE Upto0 == {0..n : n \in T}
  <1>1. Upto0 \subseteq FiniteSubsetsOf(Nat)
    <2>. SUFFICES ASSUME NEW n \in T PROVE 0..n \in FiniteSubsetsOf(Nat)
      OBVIOUS
    <2>1. IsFiniteSet(0..n)
      BY FS_Interval
    <2>. QED BY <2>1 DEF FiniteSubsetsOf
  <1>2. \E x \in Upto0 : \A y \in Upto0 : ~(<<y, x>> \in StrictSubsetOrdering(Nat))
    <2>1. IsWellFoundedOn(StrictSubsetOrdering(Nat), FiniteSubsetsOf(Nat))
      BY FS_StrictSubsetOrderingWellFounded
    <2>2. Upto0 # {}
      OBVIOUS
    <2>. HIDE DEF Upto0
    <2>. QED BY <1>1, <2>1, <2>2, WFMin
  <1>3. PICK m \in T : \A n \in T : ~(<<0..n, 0..m>> \in StrictSubsetOrdering(Nat))
    BY <1>2
  <1>4. ASSUME NEW n \in T, n < m
        PROVE  FALSE
    <2>1. /\ 0..n \subseteq 0..m /\ m \in 0..m /\ m \notin 0..n
          /\ 0..n \in SUBSET Nat /\ 0..m \in SUBSET Nat
      BY <1>4
    <2>. QED BY <1>3, <2>1 DEF StrictSubsetOrdering
  <1>. QED BY <1>4

LEMMA FirstIs ==
  ASSUME NEW s \in Seq(Char), NEW i \in Nat \ {0}, NEW P
  PROVE  LET j == FirstIn(s, i, P)
         IN  /\ j \in Nat
             /\ j <= Len(s) => j >= i /\ j \in P
             /\ j > Len(s) => j = Len(s) + 1
             /\ \A k \in i..Len(s) : k \in P => j <= k
  <1>. DEFINE at == {j \in i..Len(s) : j \in P}
              c  == CHOOSE j \in at : \A k \in at : j <= k
  <1>1. CASE at = {}
    <2>1. FirstIn(s, i, P) = Len(s) + 1
      BY <1>1 DEF FirstIn
    <2>. QED BY <1>1, <2>1
  <1>2. CASE at # {}
    <2>1. at \subseteq Nat
      OBVIOUS
    <2>2. c \in at /\ \A k \in at : c <= k
      <3>. HIDE DEF at
      <3>. QED BY <1>2, <2>1, LeastPlace
    <2>3. FirstIn(s, i, P) = c
      BY <1>2 DEF FirstIn
    <2>. HIDE DEF c
    <2>. QED BY <2>2, <2>3
  <1>. QED BY <1>1, <1>2

LEMMA Induction == ASSUME NEW T, 0 \in T, \A n \in Nat : n \in T => n + 1 \in T
                   PROVE  \A n \in Nat : n \in T
  <1>. SUFFICES ASSUME Nat \ T # {} PROVE FALSE
    OBVIOUS
  <1>1. PICK m \in Nat \ T : \A n \in Nat \ T : m <= n
    BY LeastPlace
  <1>2. m # 0 /\ m - 1 \in Nat /\ m - 1 \in T
    BY <1>1
  <1>. QED BY <1>1, <1>2

(* What is built step by step exists, and is determined by its steps.      *)
Chain(f, a, g, n) == f[0] = a /\ \A i \in 1..n : f[i] = g[i][f[i-1]]

LEMMA ChainExists ==
  ASSUME NEW T, NEW a \in T, NEW n \in Nat, NEW g \in [1..n -> [T -> T]]
  PROVE  \E f \in [0..n -> T] : Chain(f, a, g, n)
  <1>. DEFINE Upto0(m) == \E f \in [0..m -> T] : Chain(f, a, g, m)
              All == {m \in Nat : m <= n => Upto0(m)}
  <1>1. 0 \in All
    <2>1. [x \in 0..0 |-> a] \in [0..0 -> T] /\ [x \in 0..0 |-> a][0] = a
      OBVIOUS
    <2>2. Chain([x \in 0..0 |-> a], a, g, 0)
      BY <2>1 DEF Chain
    <2>3. Upto0(0)
      BY <2>1, <2>2
    <2>. HIDE DEF Upto0
    <2>. QED BY <2>3
  <1>2. ASSUME NEW m \in Nat, m \in All PROVE m + 1 \in All
    <2>1. CASE m + 1 <= n
      <3>1. PICK f \in [0..m -> T] : Chain(f, a, g, m)
        BY <1>2, <2>1
      <3>. DEFINE h == [x \in 0..m+1 |-> IF x = m + 1 THEN g[m+1][f[m]] ELSE f[x]]
      <3>2. m + 1 \in 1..n /\ f[m] \in T /\ g[m+1] \in [T -> T]
        BY <2>1
      <3>3. g[m+1][f[m]] \in T
        BY <3>2
      <3>4. h \in [0..m+1 -> T]
        BY <3>3
      <3>5. h[m+1] = g[m+1][f[m]] /\ \A x \in 0..m : h[x] = f[x]
        OBVIOUS
      <3>. HIDE DEF h
      <3>6. ASSUME NEW i \in 1..m+1 PROVE h[i] = g[i][h[i-1]]
        <4>1. CASE i = m + 1
          <5>1. i - 1 = m /\ m \in 0..m
            BY <4>1
          <5>2. h[i-1] = f[m]
            BY <3>5, <5>1
          <5>. QED BY <3>5, <4>1, <5>2
        <4>2. CASE i # m + 1
          <5>1. i \in 1..m /\ i \in 0..m /\ i - 1 \in 0..m
            BY <4>2
          <5>2. h[i] = f[i] /\ h[i-1] = f[i-1]
            BY <3>5, <5>1
          <5>. QED BY <3>1, <5>1, <5>2 DEF Chain
        <4>. QED BY <4>1, <4>2
      <3>7. h[0] = a
        BY <3>1, <3>5 DEF Chain
      <3>8. Chain(h, a, g, m + 1)
        BY <3>6, <3>7 DEF Chain
      <3>. QED BY <3>4, <3>8
    <2>2. CASE ~(m + 1 <= n)
      BY <2>2
    <2>. QED BY <2>1, <2>2
  <1>. HIDE DEF All
  <1>3. \A m \in Nat : m \in All
    BY <1>1, <1>2, Induction
  <1>. QED BY <1>3 DEF All
-----------------------------------------------------------------------------
(* The copy of a word without the backslashes that escape.                 *)
Drops(w, i) == w[i] = Backslash /\ i < Len(w) /\ Escapable(w[i + 1])

Copying(w, f) == f = [i \in 0..Len(w) |->
                       IF i = 0 THEN <<>>
                         ELSE IF Drops(w, i) THEN f[i - 1] ELSE Append(f[i - 1], w[i])]

LEMMA CopyExists ==
  ASSUME NEW w \in Seq(Char)
  PROVE  \E f : Copying(w, f)
  <1>. DEFINE T == Seq(Char)
              n == Len(w)
              step(i) == [x \in T |-> IF Drops(w, i) THEN x ELSE Append(x, w[i])]
              g == [i \in 1..n |-> step(i)]
  <1>1. ASSUME NEW i \in 1..n PROVE step(i) \in [T -> T]
    <2>1. w[i] \in Char
      OBVIOUS
    <2>2. \A x \in T : Append(x, w[i]) \in T
      BY <2>1
    <2>. HIDE DEF T
    <2>. QED BY <2>2
  <1>2. n \in Nat /\ <<>> \in T
    OBVIOUS
  <1>3. g \in [1..n -> [T -> T]]
    <2>. HIDE DEF step, T, n
    <2>. QED BY <1>1
  <1>4. PICK f \in [0..n -> T] : Chain(f, <<>>, g, n)
    <2>. HIDE DEF g, T, n
    <2>. QED BY <1>2, <1>3, ChainExists
  <1>5. ASSUME NEW i \in 0..n
        PROVE  f[i] = IF i = 0 THEN <<>>
                        ELSE IF Drops(w, i) THEN f[i - 1] ELSE Append(f[i - 1], w[i])
    <2>1. CASE i = 0
      BY <1>4, <2>1 DEF Chain
    <2>2. CASE i # 0
      <3>1. i \in 1..n /\ f[i - 1] \in T
        BY <2>2
      <3>2. f[i] = g[i][f[i - 1]]
        BY <1>4, <3>1 DEF Chain
      <3>3. g[i] = step(i)
        BY <3>1
      <3>. QED BY <2>2, <3>1, <3>2, <3>3
    <2>. QED BY <2>1, <2>2
  <1>6. f = [i \in 0..n |-> f[i]]
    OBVIOUS
  <1>7. Copying(w, f)
    BY <1>5, <1>6, Zenon DEF Copying
  <1>. QED BY <1>7

LEMMA CopyFirst == ASSUME NEW w \in Seq(Char), NEW f, Copying(w, f) PROVE f[0] = <<>>
  <1>1. 0 \in 0..Len(w)
    OBVIOUS
  <1>. QED BY <1>1 DEF Copying

LEMMA CopyAt ==
  ASSUME NEW w \in Seq(Char), NEW f, Copying(w, f), NEW i \in 1..Len(w)
  PROVE  f[i] = IF Drops(w, i) THEN f[i - 1] ELSE Append(f[i - 1], w[i])
  <1>1. i \in 0..Len(w) /\ i # 0
    OBVIOUS
  <1>. QED BY <1>1 DEF Copying

(* A word that is a part of another, and not followed by what its last     *)
(* backslash might escape, is copied alike.                                *)
LEMMA CopyPart ==
  ASSUME NEW u \in Seq(Char), NEW w \in Seq(Char), Len(u) <= Len(w),
         \A i \in 1..Len(u) : w[i] = u[i],
         Len(u) < Len(w) => ~Escapable(w[Len(u) + 1]),
         NEW f, Copying(u, f), NEW h, Copying(w, h)
  PROVE  h[Len(u)] = f[Len(u)] /\ f[Len(u)] \in Seq(Char)
  <1>. DEFINE All == {m \in Nat : m <= Len(u) => h[m] = f[m] /\ f[m] \in Seq(Char)}
  <1>1. 0 \in All
    <2>1. <<>> \in Seq(Char)
      OBVIOUS
    <2>. QED BY <2>1, CopyFirst
  <1>2. ASSUME NEW m \in Nat, m \in All PROVE m + 1 \in All
    <2>. SUFFICES ASSUME m + 1 <= Len(u) PROVE h[m + 1] = f[m + 1] /\ f[m + 1] \in Seq(Char)
      OBVIOUS
    <2>1. /\ m + 1 \in 1..Len(u) /\ m + 1 \in 1..Len(w) /\ (m + 1) - 1 = m
          /\ h[m] = f[m] /\ f[m] \in Seq(Char)
      BY <1>2
    <2>2. Drops(u, m + 1) <=> Drops(w, m + 1)
      <3>1. CASE m + 1 = Len(u)
        BY <2>1, <3>1 DEF Drops
      <3>2. CASE m + 1 < Len(u)
        <4>1. m + 2 \in 1..Len(u) /\ (m + 1) + 1 = m + 2
          BY <3>2
        <4>. QED BY <2>1, <3>2, <4>1 DEF Drops
      <3>. QED BY <3>1, <3>2
    <2>3. f[m + 1] = IF Drops(u, m + 1) THEN f[m] ELSE Append(f[m], u[m + 1])
      BY <2>1, CopyAt
    <2>4. h[m + 1] = IF Drops(w, m + 1) THEN h[m] ELSE Append(h[m], w[m + 1])
      BY <2>1, CopyAt
    <2>5. w[m + 1] = u[m + 1] /\ u[m + 1] \in Char
      BY <2>1
    <2>6. Append(f[m], u[m + 1]) \in Seq(Char)
      BY <2>1, <2>5
    <2>. QED BY <2>1, <2>2, <2>3, <2>4, <2>5, <2>6
  <1>. HIDE DEF All
  <1>3. \A m \in Nat : m \in All
    BY <1>1, <1>2, Induction
  <1>. QED BY <1>3 DEF All

LEMMA UnescapedIs ==
  ASSUME NEW w \in Seq(Char)
  PROVE  \E f : Copying(w, f) /\ Unescaped(w) = f[Len(w)] /\ Unescaped(w) \in Seq(Char)
  <1>. DEFINE c == CHOOSE f : Copying(w, f)
  <1>1. Copying(w, c)
    BY CopyExists, Zenon
  <1>2. Unescaped(w) = c[Len(w)]
    BY Zenon DEF Unescaped, Copying, Drops
  <1>. HIDE DEF c
  <1>3. c[Len(w)] \in Seq(Char)
    BY <1>1, CopyPart
  <1>. QED BY <1>1, <1>2, <1>3

LEMMA Joined ==
  ASSUME NEW a \in Seq(Char), NEW b \in Seq(Char)
  PROVE  /\ a \o b \in Seq(Char) /\ Len(a \o b) = Len(a) + Len(b)
         /\ Len(a) \in Nat /\ Len(b) \in Nat
         /\ \A i \in 1..Len(a) : (a \o b)[i] = a[i]
         /\ \A i \in 1..Len(b) : (a \o b)[Len(a) + i] = b[i]
  OBVIOUS

LEMMA UnescapedEmpty == Unescaped(<<>>) = <<>>
  <1>1. PICK f : Copying(<<>>, f) /\ Unescaped(<<>>) = f[Len(<<>>)]
    <2>1. <<>> \in Seq(Char)
      OBVIOUS
    <2>. QED BY <2>1, UnescapedIs
  <1>2. Len(<<>>) = 0 /\ <<>> \in Seq(Char)
    OBVIOUS
  <1>. QED BY <1>1, <1>2, CopyFirst

LEMMA UnescapedAppend ==
  ASSUME NEW u \in Seq(Char), NEW c \in Char, ~Escapable(c)
  PROVE  Unescaped(Append(u, c)) = Append(Unescaped(u), c)
  <1>. DEFINE w == Append(u, c)
  <1>1. /\ w \in Seq(Char) /\ Len(w) = Len(u) + 1 /\ w[Len(u) + 1] = c
        /\ Len(u) \in Nat /\ \A i \in 1..Len(u) : w[i] = u[i]
    <2>1. Len(u) \in Nat /\ w \in Seq(Char) /\ Len(w) = Len(u) + 1
      OBVIOUS
    <2>2. w[Len(u) + 1] = c
      OBVIOUS
    <2>3. ASSUME NEW i \in 1..Len(u) PROVE w[i] = u[i]
      OBVIOUS
    <2>. QED BY <2>1, <2>2, <2>3
  <1>. HIDE DEF w
  <1>2. PICK f : Copying(u, f) /\ Unescaped(u) = f[Len(u)]
    BY UnescapedIs
  <1>3. PICK h : Copying(w, h) /\ Unescaped(w) = h[Len(w)]
    BY <1>1, UnescapedIs
  <1>4. h[Len(u)] = f[Len(u)]
    <2>1. Len(u) <= Len(w)
      BY <1>1
    <2>2. ~Escapable(w[Len(u) + 1])
      BY <1>1, Zenon
    <2>. QED BY <1>1, <1>2, <1>3, <2>1, <2>2, CopyPart
  <1>5. h[Len(w)] = Append(h[Len(u)], c)
    <2>1. ~Drops(w, Len(w)) /\ Len(w) \in 1..Len(w) /\ Len(w) - 1 = Len(u)
      <3>1. Len(w) \in 1..Len(w) /\ ~(Len(w) < Len(w))
        BY <1>1
      <3>2. ~Drops(w, Len(w))
        BY <3>1 DEF Drops
      <3>. QED BY <1>1, <3>1, <3>2
    <2>2. h[Len(w)] = IF Drops(w, Len(w)) THEN h[Len(w) - 1] ELSE Append(h[Len(w) - 1], w[Len(w)])
      BY <1>1, <1>3, <2>1, CopyAt
    <2>. QED BY <1>1, <2>1, <2>2
  <1>. QED BY <1>2, <1>3, <1>4, <1>5 DEF w

LEMMA UnescapedEscape ==
  ASSUME NEW u \in Seq(Char), NEW c \in Char, Escapable(c)
  PROVE  Unescaped(u \o <<Backslash, c>>) = Append(Unescaped(u), c)
  <1>. DEFINE w == u \o <<Backslash, c>>
  <1>1. /\ w \in Seq(Char) /\ Len(w) = Len(u) + 2
        /\ w[Len(u) + 1] = Backslash /\ w[Len(u) + 2] = c
        /\ Len(u) \in Nat /\ \A i \in 1..Len(u) : w[i] = u[i]
    <2>. DEFINE b == <<Backslash, c>>
    <2>0. Backslash \in Char
      BY CharAssumption DEF Backslash
    <2>1. b \in Seq(Char) /\ Len(b) = 2 /\ b[1] = Backslash /\ b[2] = c
      BY <2>0
    <2>2. 1 \in 1..Len(b) /\ 2 \in 1..Len(b)
      BY <2>1
    <2>. HIDE DEF b
    <2>3. /\ u \o b \in Seq(Char) /\ Len(u \o b) = Len(u) + Len(b) /\ Len(u) \in Nat
          /\ \A i \in 1..Len(u) : (u \o b)[i] = u[i]
          /\ (u \o b)[Len(u) + 1] = b[1] /\ (u \o b)[Len(u) + 2] = b[2]
      BY <2>1, <2>2, Joined
    <2>. QED BY <2>1, <2>3 DEF b
  <1>. HIDE DEF w
  <1>2. PICK f : Copying(u, f) /\ Unescaped(u) = f[Len(u)]
    BY UnescapedIs
  <1>3. PICK h : Copying(w, h) /\ Unescaped(w) = h[Len(w)]
    BY <1>1, UnescapedIs
  <1>4. h[Len(u)] = f[Len(u)]
    <2>1. ~Escapable(Backslash)
      BY DEF Escapable, IsQuote, Backslash
    <2>2. Len(u) <= Len(w) /\ ~Escapable(w[Len(u) + 1])
      BY <1>1, <2>1
    <2>. QED BY <1>1, <1>2, <1>3, <2>2, CopyPart
  <1>5. h[Len(u) + 1] = h[Len(u)]
    <2>1. Drops(w, Len(u) + 1) /\ Len(u) + 1 \in 1..Len(w) /\ (Len(u) + 1) - 1 = Len(u)
      <3>1. (Len(u) + 1) + 1 = Len(u) + 2
        OBVIOUS
      <3>2. Len(u) + 1 < Len(w) /\ Len(u) + 1 \in 1..Len(w) /\ (Len(u) + 1) - 1 = Len(u)
        BY <1>1
      <3>. QED BY <1>1, <3>1, <3>2, Zenon DEF Drops
    <2>2. h[Len(u) + 1] = IF Drops(w, Len(u) + 1) THEN h[(Len(u) + 1) - 1]
                            ELSE Append(h[(Len(u) + 1) - 1], w[Len(u) + 1])
      BY <1>1, <1>3, <2>1, CopyAt
    <2>. QED BY <2>1, <2>2
  <1>6. h[Len(w)] = Append(h[Len(u) + 1], c)
    <2>1. ~Drops(w, Len(w)) /\ Len(w) \in 1..Len(w) /\ Len(w) - 1 = Len(u) + 1
      <3>1. Len(w) \in 1..Len(w) /\ ~(Len(w) < Len(w))
        BY <1>1
      <3>2. ~Drops(w, Len(w))
        BY <3>1 DEF Drops
      <3>. QED BY <1>1, <3>1, <3>2
    <2>2. h[Len(w)] = IF Drops(w, Len(w)) THEN h[Len(w) - 1] ELSE Append(h[Len(w) - 1], w[Len(w)])
      BY <1>1, <1>3, <2>1, CopyAt
    <2>. QED BY <1>1, <2>1, <2>2
  <1>. QED BY <1>2, <1>3, <1>4, <1>5, <1>6 DEF w

(* A word without a backslash is copied as it is.                          *)
LEMMA UnescapedPlain ==
  ASSUME NEW w \in Seq(Char), \A i \in 1..Len(w) : w[i] # Backslash
  PROVE  Unescaped(w) = w
  <1>1. PICK f : Copying(w, f) /\ Unescaped(w) = f[Len(w)]
    BY UnescapedIs
  <1>. DEFINE All == {m \in Nat : m <= Len(w) => f[m] = SubSeq(w, 1, m)}
  <1>2. 0 \in All
    <2>1. SubSeq(w, 1, 0) = <<>>
      OBVIOUS
    <2>. QED BY <1>1, <2>1, CopyFirst
  <1>3. ASSUME NEW m \in Nat, m \in All PROVE m + 1 \in All
    <2>. SUFFICES ASSUME m + 1 <= Len(w) PROVE f[m + 1] = SubSeq(w, 1, m + 1)
      OBVIOUS
    <2>1. m + 1 \in 1..Len(w) /\ (m + 1) - 1 = m /\ f[m] = SubSeq(w, 1, m)
      BY <1>3
    <2>2. ~Drops(w, m + 1)
      BY <2>1 DEF Drops
    <2>3. f[m + 1] = Append(f[m], w[m + 1])
      BY <1>1, <2>1, <2>2, CopyAt
    <2>4. SubSeq(w, 1, m + 1) = Append(SubSeq(w, 1, m), w[m + 1])
      <3>. DEFINE u == SubSeq(w, 1, m + 1)
                  v == Append(SubSeq(w, 1, m), w[m + 1])
      <3>1. u \in Seq(Char) /\ v \in Seq(Char) /\ Len(u) = m + 1 /\ Len(v) = m + 1
        BY <2>1
      <3>2. ASSUME NEW i \in 1..m+1 PROVE u[i] = v[i]
        BY <2>1
      <3>. HIDE DEF u, v
      <3>3. u = v
        BY <3>1, <3>2
      <3>. QED BY <3>3 DEF u, v
    <2>. QED BY <2>1, <2>3, <2>4
  <1>. HIDE DEF All
  <1>4. \A m \in Nat : m \in All
    BY <1>2, <1>3, Induction
  <1>5. f[Len(w)] = SubSeq(w, 1, Len(w))
    BY <1>4 DEF All
  <1>6. SubSeq(w, 1, Len(w)) = w
    OBVIOUS
  <1>. QED BY <1>1, <1>5, <1>6
-----------------------------------------------------------------------------
(* How a word is written between quotes: a backslash before each character *)
(* that may be escaped.                                                    *)
Coded(c) == IF Escapable(c) THEN <<Backslash, c>> ELSE <<c>>

Coding(w, e) == e = [i \in 0..Len(w) |-> IF i = 0 THEN <<>> ELSE e[i - 1] \o Coded(w[i])]

Quoted(w) == LET e[i \in 0..Len(w)] == IF i = 0 THEN <<>> ELSE e[i - 1] \o Coded(w[i])
             IN  e[Len(w)]

LEMMA CodedIs == ASSUME NEW c \in Char
                 PROVE  /\ Coded(c) \in Seq(Char) /\ Len(Coded(c)) \in Nat /\ Len(Coded(c)) >= 1
                        /\ Coded(c)[Len(Coded(c))] = c
                        /\ Escapable(c) => Len(Coded(c)) = 2 /\ Coded(c)[1] = Backslash
                        /\ ~Escapable(c) => Coded(c) = <<c>>
  <1>1. Backslash \in Char
    BY CharAssumption DEF Backslash
  <1>2. CASE Escapable(c)
    <2>1. Coded(c) = <<Backslash, c>>
      BY <1>2 DEF Coded
    <2>. QED BY <1>1, <1>2, <2>1
  <1>3. CASE ~Escapable(c)
    <2>1. Coded(c) = <<c>>
      BY <1>3 DEF Coded
    <2>. QED BY <1>3, <2>1
  <1>. QED BY <1>2, <1>3

LEMMA CodeExists ==
  ASSUME NEW w \in Seq(Char)
  PROVE  \E e : Coding(w, e)
  <1>. DEFINE T == Seq(Char)
              n == Len(w)
              step(i) == [x \in T |-> x \o Coded(w[i])]
              g == [i \in 1..n |-> step(i)]
  <1>1. ASSUME NEW i \in 1..n PROVE step(i) \in [T -> T]
    <2>1. w[i] \in Char
      OBVIOUS
    <2>2. \A x \in T : x \o Coded(w[i]) \in T
      BY <2>1, CodedIs, Joined
    <2>. HIDE DEF T
    <2>. QED BY <2>2
  <1>2. n \in Nat /\ <<>> \in T
    OBVIOUS
  <1>3. g \in [1..n -> [T -> T]]
    <2>. HIDE DEF step, T, n
    <2>. QED BY <1>1
  <1>4. PICK e \in [0..n -> T] : Chain(e, <<>>, g, n)
    <2>. HIDE DEF g, T, n
    <2>. QED BY <1>2, <1>3, ChainExists
  <1>5. ASSUME NEW i \in 0..n
        PROVE  e[i] = IF i = 0 THEN <<>> ELSE e[i - 1] \o Coded(w[i])
    <2>1. CASE i = 0
      BY <1>4, <2>1 DEF Chain
    <2>2. CASE i # 0
      <3>1. i \in 1..n /\ e[i - 1] \in T
        BY <2>2
      <3>2. e[i] = g[i][e[i - 1]]
        BY <1>4, <3>1 DEF Chain
      <3>3. g[i] = step(i)
        BY <3>1
      <3>. QED BY <2>2, <3>1, <3>2, <3>3
    <2>. QED BY <2>1, <2>2
  <1>6. e = [i \in 0..n |-> e[i]]
    OBVIOUS
  <1>7. Coding(w, e)
    BY <1>5, <1>6, Zenon DEF Coding
  <1>. QED BY <1>7

(* No quote of a coded word is bare, its last character is the word's, and *)
(* reading it yields the word.                                             *)
Safe(u) == \A j \in 1..Len(u) : IsQuote(u[j]) => j >= 2 /\ u[j - 1] = Backslash

CodeOf(u, w, m) == /\ u \in Seq(Char) /\ Safe(u)
                   /\ Unescaped(u) = SubSeq(w, 1, m)
                   /\ m = 0 => u = <<>>
                   /\ m # 0 => Len(u) >= 1 /\ u[Len(u)] = w[m]

LEMMA CodeStep ==
  ASSUME NEW w \in Seq(Char), NEW m \in Nat, m + 1 <= Len(w), NEW u, CodeOf(u, w, m)
  PROVE  CodeOf(u \o Coded(w[m + 1]), w, m + 1)
  <1>. DEFINE c == w[m + 1]
              b == Coded(c)
              v == u \o b
  <1>1. u \in Seq(Char) /\ c \in Char /\ Len(u) \in Nat /\ Len(w) \in Nat
    BY DEF CodeOf
  <1>2. /\ b \in Seq(Char) /\ Len(b) \in Nat /\ Len(b) >= 1 /\ b[Len(b)] = c
        /\ (Escapable(c) => Len(b) = 2 /\ b[1] = Backslash) /\ (~Escapable(c) => b = <<c>>)
    BY <1>1, CodedIs
  <1>3. b = IF Escapable(c) THEN <<Backslash, c>> ELSE <<c>>
    BY DEF Coded
  <1>. HIDE DEF b, c
  <1>4. /\ v \in Seq(Char) /\ Len(v) = Len(u) + Len(b)
        /\ \A i \in 1..Len(u) : v[i] = u[i]
        /\ \A i \in 1..Len(b) : v[Len(u) + i] = b[i]
    BY <1>1, <1>2, Joined
  <1>5. Unescaped(v) = Append(Unescaped(u), c)
    <2>1. CASE Escapable(c)
      BY <1>1, <1>3, <2>1, UnescapedEscape
    <2>2. CASE ~Escapable(c)
      <3>1. v = Append(u, c)
        BY <1>1, <1>3, <2>2
      <3>. QED BY <1>1, <2>2, <3>1, UnescapedAppend
    <2>. QED BY <2>1, <2>2
  <1>6. Append(SubSeq(w, 1, m), c) = SubSeq(w, 1, m + 1)
    <2>. DEFINE x == SubSeq(w, 1, m + 1)
                y == Append(SubSeq(w, 1, m), c)
    <2>1. x \in Seq(Char) /\ y \in Seq(Char) /\ Len(x) = m + 1 /\ Len(y) = m + 1
      BY <1>1
    <2>2. ASSUME NEW i \in 1..m+1 PROVE x[i] = y[i]
      BY <1>1 DEF c
    <2>. HIDE DEF x, y
    <2>3. x = y
      BY <2>1, <2>2
    <2>. QED BY <2>3 DEF x, y
  <1>. HIDE DEF v
  <1>7. v[Len(v)] = c /\ Len(v) >= 1
    <2>1. Len(b) \in 1..Len(b)
      BY <1>2
    <2>2. v[Len(u) + Len(b)] = b[Len(b)]
      BY <1>4, <2>1
    <2>. QED BY <1>1, <1>2, <1>4, <2>2
  <1>8. Safe(v)
    <2>. SUFFICES ASSUME NEW j \in 1..Len(v), IsQuote(v[j])
                  PROVE  j >= 2 /\ v[j - 1] = Backslash
      BY DEF Safe
    <2>1. CASE j <= Len(u)
      <3>1. j \in 1..Len(u) /\ v[j] = u[j]
        BY <1>1, <1>4, <2>1
      <3>2. j >= 2 /\ u[j - 1] = Backslash
        BY <3>1 DEF CodeOf, Safe
      <3>. QED BY <1>1, <1>4, <3>1, <3>2
    <2>2. CASE j > Len(u)
      <3>1. CASE Escapable(c)
        <4>1. v[Len(u) + 1] = Backslash /\ ~IsQuote(Backslash) /\ Len(v) = Len(u) + 2
          <5>1. 1 \in 1..Len(b)
            BY <1>2
          <5>2. v[Len(u) + 1] = b[1]
            BY <1>4, <5>1
          <5>. QED BY <1>2, <1>4, <3>1, <5>2 DEF IsQuote, Backslash
        <4>2. j # Len(u) + 1
          BY <4>1
        <4>3. j = Len(u) + 2
          BY <1>1, <2>2, <4>1, <4>2
        <4>. QED BY <1>1, <4>1, <4>3
      <3>2. CASE ~Escapable(c)
        <4>1. Len(b) = 1
          BY <1>3, <3>2
        <4>2. j = Len(v)
          BY <1>1, <1>4, <2>2, <4>1
        <4>. QED BY <1>7, <3>2, <4>2 DEF Escapable
      <3>. QED BY <3>1, <3>2
    <2>. QED BY <1>1, <1>4, <2>1, <2>2
  <1>9. CodeOf(v, w, m + 1)
    BY <1>4, <1>5, <1>6, <1>7, <1>8 DEF CodeOf, c
  <1>. QED BY <1>9 DEF v, b, c

LEMMA QuotedIs ==
  ASSUME NEW w \in Seq(Char)
  PROVE  CodeOf(Quoted(w), w, Len(w))
  <1>. DEFINE e == CHOOSE e : Coding(w, e)
              All == {m \in Nat : m <= Len(w) => CodeOf(e[m], w, m)}
  <1>1. Coding(w, e)
    BY CodeExists, Zenon
  <1>2. Quoted(w) = e[Len(w)]
    BY Zenon DEF Quoted, Coding
  <1>. HIDE DEF e
  <1>3. 0 \in All
    <2>1. 0 \in 0..Len(w) /\ <<>> \in Seq(Char) /\ Len(<<>>) = 0 /\ SubSeq(w, 1, 0) = <<>>
      OBVIOUS
    <2>2. e[0] = <<>>
      BY <1>1, <2>1 DEF Coding
    <2>3. CodeOf(<<>>, w, 0)
      <3>1. Safe(<<>>)
        BY <2>1 DEF Safe
      <3>. QED BY <2>1, <3>1, UnescapedEmpty DEF CodeOf
    <2>. QED BY <2>2, <2>3
  <1>4. ASSUME NEW m \in Nat, m \in All PROVE m + 1 \in All
    <2>. SUFFICES ASSUME m + 1 <= Len(w) PROVE CodeOf(e[m + 1], w, m + 1)
      OBVIOUS
    <2>1. m + 1 \in 0..Len(w) /\ m + 1 # 0 /\ (m + 1) - 1 = m /\ CodeOf(e[m], w, m)
      BY <1>4
    <2>2. e[m + 1] = e[m] \o Coded(w[m + 1])
      BY <1>1, <2>1 DEF Coding
    <2>. QED BY <2>1, <2>2, CodeStep
  <1>. HIDE DEF All
  <1>5. \A m \in Nat : m \in All
    BY <1>3, <1>4, Induction
  <1>. QED BY <1>2, <1>5 DEF All
-----------------------------------------------------------------------------
(* sh_split, one word after the other.                                     *)
NextWords(s, f, i) ==
  LET j == WordStart(s, i)
  IN  IF j > Len(s) \/ s[j] = "#" THEN <<>> ELSE <<Word(s, j)>> \o f[After(s, j)]

Splitting(s, f) == f = [i \in 1..Len(s)+2 |-> NextWords(s, f, i)]

LEMMA StartIs ==
  ASSUME NEW s \in Seq(Char), NEW i \in 1..Len(s)+2
  PROVE  /\ WordStart(s, i) \in Nat
         /\ WordStart(s, i) <= Len(s) => WordStart(s, i) >= i
  <1>. DEFINE P == {j \in DOMAIN s : ~IsSpace(s[j])}
  <1>1. i \in Nat \ {0}
    OBVIOUS
  <1>. HIDE DEF P
  <1>2. /\ FirstIn(s, i, P) \in Nat
        /\ FirstIn(s, i, P) <= Len(s) => FirstIn(s, i, P) >= i
    BY <1>1, FirstIs
  <1>. QED BY <1>2 DEF WordStart, P

LEMMA AfterIs ==
  ASSUME NEW s \in Seq(Char), NEW j \in 1..Len(s)
  PROVE  After(s, j) \in j+1..Len(s)+2
  <1>. DEFINE P == {x \in 2..Len(s) : s[x] = s[j] /\ s[x - 1] # Backslash}
              Q == {x \in DOMAIN s : IsSpace(s[x])}
  <1>1. j + 1 \in Nat \ {0} /\ Len(s) \in Nat
    OBVIOUS
  <1>2. Closing(s, j) = FirstIn(s, j + 1, P) /\ BareEnd(s, j) = FirstIn(s, j + 1, Q)
    BY DEF Closing, BareEnd
  <1>. HIDE DEF P, Q
  <1>3. FirstIn(s, j + 1, P) \in j+1..Len(s)+1
    <2>1. LET c == FirstIn(s, j + 1, P)
          IN  c \in Nat /\ (c <= Len(s) => c >= j + 1) /\ (c > Len(s) => c = Len(s) + 1)
      BY <1>1, FirstIs
    <2>. QED BY <1>1, <2>1
  <1>4. FirstIn(s, j + 1, Q) \in j+1..Len(s)+1
    <2>1. LET c == FirstIn(s, j + 1, Q)
          IN  c \in Nat /\ (c <= Len(s) => c >= j + 1) /\ (c > Len(s) => c = Len(s) + 1)
      BY <1>1, FirstIs
    <2>. QED BY <1>1, <2>1
  <1>5. After(s, j) = FirstIn(s, j + 1, P) + 1 \/ After(s, j) = FirstIn(s, j + 1, Q)
    BY <1>2 DEF After
  <1>. QED BY <1>1, <1>3, <1>4, <1>5

LEMMA SliceIn ==
  ASSUME NEW s \in Seq(Char), NEW a \in Nat \ {0}, NEW b \in Int, b <= Len(s)
  PROVE  SubSeq(s, a, b) \in Seq(Char)
  <1>1. CASE a <= b
    BY <1>1
  <1>2. CASE ~(a <= b)
    <2>1. SubSeq(s, a, b) = <<>> /\ <<>> \in Seq(Char)
      BY <1>2
    <2>. QED BY <2>1
  <1>. QED BY <1>1, <1>2

LEMMA WordIn ==
  ASSUME NEW s \in Seq(Char), NEW j \in 1..Len(s)
  PROVE  Word(s, j) \in Seq(Char)
  <1>. DEFINE P == {x \in 2..Len(s) : s[x] = s[j] /\ s[x - 1] # Backslash}
              Q == {x \in DOMAIN s : IsSpace(s[x])}
  <1>1. j \in Nat \ {0} /\ j + 1 \in Nat \ {0} /\ Len(s) \in Nat
    OBVIOUS
  <1>2. Closing(s, j) = FirstIn(s, j + 1, P) /\ BareEnd(s, j) = FirstIn(s, j + 1, Q)
    BY DEF Closing, BareEnd
  <1>. HIDE DEF P, Q
  <1>3. /\ FirstIn(s, j + 1, P) \in Nat
        /\ FirstIn(s, j + 1, P) > Len(s) => FirstIn(s, j + 1, P) = Len(s) + 1
    BY <1>1, FirstIs
  <1>4. /\ FirstIn(s, j + 1, Q) \in Nat
        /\ FirstIn(s, j + 1, Q) > Len(s) => FirstIn(s, j + 1, Q) = Len(s) + 1
    BY <1>1, FirstIs
  <1>5. /\ Closing(s, j) - 1 \in Int /\ Closing(s, j) - 1 <= Len(s)
        /\ BareEnd(s, j) - 1 \in Int /\ BareEnd(s, j) - 1 <= Len(s)
    BY <1>1, <1>2, <1>3, <1>4
  <1>6. CASE ~IsQuote(s[j])
    <2>1. Word(s, j) = Unescaped(SubSeq(s, j, BareEnd(s, j) - 1))
      BY <1>6 DEF Word
    <2>2. SubSeq(s, j, BareEnd(s, j) - 1) \in Seq(Char)
      BY <1>1, <1>5, SliceIn
    <2>. QED BY <2>1, <2>2, UnescapedIs
  <1>7. CASE IsQuote(s[j]) /\ j = Len(s)
    BY <1>7 DEF Word
  <1>8. CASE IsQuote(s[j]) /\ j # Len(s)
    <2>1. Word(s, j) = Unescaped(SubSeq(s, j + 1, Closing(s, j) - 1))
      BY <1>8 DEF Word
    <2>2. SubSeq(s, j + 1, Closing(s, j) - 1) \in Seq(Char)
      BY <1>1, <1>5, SliceIn
    <2>. QED BY <2>1, <2>2, UnescapedIs
  <1>. QED BY <1>6, <1>7, <1>8

(* What a word is followed by depends on later places only.                *)
LEMMA NextSame ==
  ASSUME NEW s \in Seq(Char), NEW i \in 1..Len(s)+2, NEW f, NEW g,
         \A x \in i+1..Len(s)+2 : f[x] = g[x]
  PROVE  NextWords(s, f, i) = NextWords(s, g, i)
  <1>. DEFINE j == WordStart(s, i)
  <1>1. j \in Nat /\ (j <= Len(s) => j >= i) /\ Len(s) \in Nat
    BY StartIs
  <1>2. CASE j > Len(s) \/ s[j] = "#"
    BY <1>2 DEF NextWords
  <1>3. CASE ~(j > Len(s) \/ s[j] = "#")
    <2>. HIDE DEF j
    <2>1. j \in 1..Len(s) /\ j >= i
      BY <1>1, <1>3
    <2>2. After(s, j) \in j+1..Len(s)+2
      BY <2>1, AfterIs
    <2>3. f[After(s, j)] = g[After(s, j)]
      BY <2>1, <2>2
    <2>. QED BY <1>3, <2>3 DEF NextWords, j
  <1>. QED BY <1>2, <1>3

LEMMA SplitExists == ASSUME NEW s \in Seq(Char) PROVE \E f : Splitting(s, f)
  <1>. DEFINE n == Len(s) + 2
              From(m, f) == f = [i \in n-m..n |-> NextWords(s, f, i)]
              All == {m \in Nat : m <= n - 1 => \E f : From(m, f)}
  <1>0. n \in Nat /\ n >= 2
    OBVIOUS
  <1>1. 0 \in All
    <2>. DEFINE f == [i \in n-0..n |-> <<>>]
    <2>1. ASSUME NEW i \in n-0..n PROVE NextWords(s, f, i) = <<>>
      <3>1. i = Len(s) + 2 /\ i \in 1..Len(s)+2
        OBVIOUS
      <3>2. WordStart(s, i) \in Nat /\ (WordStart(s, i) <= Len(s) => WordStart(s, i) >= i)
        BY <3>1, StartIs
      <3>3. WordStart(s, i) > Len(s)
        BY <3>1, <3>2
      <3>. QED BY <3>3 DEF NextWords
    <2>2. [i \in n-0..n |-> NextWords(s, f, i)] = f
      <3>. HIDE DEF n
      <3>. QED BY <2>1
    <2>. HIDE DEF f
    <2>3. From(0, f)
      BY <2>2
    <2>. QED BY <2>3
  <1>2. ASSUME NEW m \in Nat, m \in All PROVE m + 1 \in All
    <2>. SUFFICES ASSUME m + 1 <= n - 1 PROVE \E f : From(m + 1, f)
      OBVIOUS
    <2>1. PICK f : From(m, f)
      BY <1>0, <1>2
    <2>. DEFINE b == n - (m + 1)
                g == [i \in b..n |-> IF i = b THEN NextWords(s, f, b) ELSE f[i]]
    <2>2. b \in 1..n /\ n - m = b + 1
      BY <1>0
    <2>3. \A i \in b+1..n : f[i] = NextWords(s, f, i)
      BY <2>1, <2>2
    <2>4. g[b] = NextWords(s, f, b) /\ \A i \in b+1..n : g[i] = f[i]
      BY <1>0, <2>2
    <2>5. ASSUME NEW i \in b..n PROVE g[i] = NextWords(s, g, i)
      <3>. HIDE DEF g, b
      <3>1. i \in 1..n /\ \A x \in i+1..n : g[x] = f[x]
        BY <1>0, <2>2, <2>4
      <3>2. NextWords(s, g, i) = NextWords(s, f, i)
        BY <3>1, NextSame
      <3>3. i = b \/ i \in b+1..n
        BY <2>2
      <3>. QED BY <2>3, <2>4, <3>2, <3>3
    <2>6. g = [i \in b..n |-> g[i]]
      OBVIOUS
    <2>. HIDE DEF g
    <2>7. From(m + 1, g)
      <3>. HIDE DEF n
      <3>. QED BY <2>5, <2>6
    <2>. QED BY <2>7
  <1>. HIDE DEF All
  <1>3. \A m \in Nat : m \in All
    BY <1>1, <1>2, Induction
  <1>4. n - 1 \in Nat /\ n - (n - 1) = 1
    BY <1>0
  <1>5. PICK f : From(n - 1, f)
    BY <1>3, <1>4 DEF All
  <1>. QED BY <1>4, <1>5 DEF Splitting

LEMMA SplitTyped ==
  ASSUME NEW s \in Seq(Char), NEW f, Splitting(s, f)
  PROVE  \A i \in 1..Len(s)+2 : f[i] = NextWords(s, f, i) /\ f[i] \in Seq(Seq(Char))
  <1>. DEFINE n == Len(s) + 2
              T == Seq(Char)
              All == {m \in Nat : \A i \in 1..n : i >= n - m => f[i] \in Seq(T)}
  <1>0. n \in Nat /\ n >= 2 /\ Len(s) \in Nat
    OBVIOUS
  <1>1. \A i \in 1..n : f[i] = NextWords(s, f, i)
    BY DEF Splitting
  <1>2. ASSUME NEW i \in 1..n, \A x \in i+1..n : f[x] \in Seq(T)
        PROVE  f[i] \in Seq(T)
    <2>. DEFINE j == WordStart(s, i)
    <2>0. f[i] = NextWords(s, f, i)
      BY <1>1
    <2>1. j \in Nat /\ (j <= Len(s) => j >= i)
      BY StartIs
    <2>2. CASE j > Len(s) \/ s[j] = "#"
      <3>1. NextWords(s, f, i) = <<>>
        BY <2>2 DEF NextWords
      <3>2. <<>> \in Seq(T)
        <4>. HIDE DEF T
        <4>. QED OBVIOUS
      <3>. QED BY <2>0, <3>1, <3>2, Zenon
    <2>3. CASE ~(j > Len(s) \/ s[j] = "#")
      <3>1. NextWords(s, f, i) = <<Word(s, j)>> \o f[After(s, j)]
        BY <2>3 DEF NextWords
      <3>. HIDE DEF j
      <3>2. j \in 1..Len(s) /\ j >= i
        BY <1>0, <2>1, <2>3
      <3>3. After(s, j) \in j+1..n /\ Word(s, j) \in T
        BY <3>2, AfterIs, WordIn
      <3>4. f[After(s, j)] \in Seq(T)
        BY <1>2, <3>2, <3>3
      <3>5. <<Word(s, j)>> \o f[After(s, j)] \in Seq(T)
        <4>. HIDE DEF T
        <4>. QED BY <3>3, <3>4
      <3>. QED BY <2>0, <3>1, <3>5, Zenon
    <2>. QED BY <2>2, <2>3
  <1>3. 0 \in All
    <2>. SUFFICES ASSUME NEW i \in 1..n, i >= n - 0 PROVE f[i] \in Seq(T)
      OBVIOUS
    <2>1. \A x \in i+1..n : FALSE
      OBVIOUS
    <2>. HIDE DEF n, T
    <2>. QED BY <1>2, <2>1
  <1>4. ASSUME NEW m \in Nat, m \in All PROVE m + 1 \in All
    <2>. SUFFICES ASSUME NEW i \in 1..n, i >= n - (m + 1) PROVE f[i] \in Seq(T)
      OBVIOUS
    <2>1. \A x \in i+1..n : x \in 1..n /\ x >= n - m
      BY <1>0
    <2>2. \A x \in i+1..n : f[x] \in Seq(T)
      BY <1>4, <2>1
    <2>. HIDE DEF n, T
    <2>. QED BY <1>2, <2>2
  <1>. HIDE DEF All
  <1>5. \A m \in Nat : m \in All
    BY <1>3, <1>4, Induction
  <1>6. \A i \in 1..n : f[i] \in Seq(T)
    <2>1. n \in All
      BY <1>0, <1>5
    <2>. QED BY <1>0, <2>1 DEF All
  <1>. QED BY <1>1, <1>6

LEMMA SplitIs ==
  ASSUME NEW s \in Seq(Char), s # <<>>
  PROVE  \E f : /\ sh_split(s) = f[1] /\ f[1] \in Seq(Seq(Char))
                /\ \A i \in 1..Len(s)+2 : f[i] = NextWords(s, f, i) /\ f[i] \in Seq(Seq(Char))
  <1>. DEFINE c == CHOOSE f : Splitting(s, f)
  <1>1. Splitting(s, c)
    BY SplitExists, Zenon
  <1>2. sh_split(s) = c[1]
    BY Zenon DEF sh_split, Splitting, NextWords
  <1>. HIDE DEF c
  <1>3. \A i \in 1..Len(s)+2 : c[i] = NextWords(s, c, i) /\ c[i] \in Seq(Seq(Char))
    BY <1>1, SplitTyped
  <1>4. 1 \in 1..Len(s)+2
    OBVIOUS
  <1>. QED BY <1>2, <1>3, <1>4
-----------------------------------------------------------------------------
(* Where words begin and end. *)
Then(w, ws) == <<w>> \o ws

Plain(u) == /\ u \in Seq(Char) /\ u # <<>> /\ u[1] # "#"
            /\ \A i \in 1..Len(u) : ~IsSpace(u[i]) /\ ~IsQuote(u[i]) /\ u[i] # Backslash

(* from i on there is nothing but space, or a comment after it *)
Blank(s, i) == \E c \in i..Len(s)+1 : /\ \A x \in i..c-1 : IsSpace(s[x])
                                      /\ c <= Len(s) => s[c] = "#"

LEMMA StartAt ==
  ASSUME NEW s \in Seq(Char), NEW i \in Nat \ {0}, NEW j \in i..Len(s)+1,
         \A x \in i..j-1 : IsSpace(s[x]), j <= Len(s) => ~IsSpace(s[j])
  PROVE  WordStart(s, i) = j
  <1>. DEFINE P == {x \in DOMAIN s : ~IsSpace(s[x])}
              c == FirstIn(s, i, P)
  <1>1. /\ c \in Nat /\ (c <= Len(s) => c >= i /\ c \in P)
        /\ (c > Len(s) => c = Len(s) + 1) /\ \A k \in i..Len(s) : k \in P => c <= k
    <2>. HIDE DEF P
    <2>. QED BY FirstIs
  <1>2. c = WordStart(s, i)
    BY DEF WordStart
  <1>. HIDE DEF c
  <1>3. j <= Len(s) => j \in P
    OBVIOUS
  <1>4. ~(c <= Len(s) /\ c < j)
    BY <1>1
  <1>. HIDE DEF P
  <1>5. c <= j
    BY <1>1, <1>3
  <1>6. Len(s) \in Nat /\ j \in Nat
    OBVIOUS
  <1>. QED BY <1>1, <1>2, <1>4, <1>5, <1>6

LEMMA BlankEnds ==
  ASSUME NEW s \in Seq(Char), NEW i \in Nat \ {0}, Blank(s, i), NEW f
  PROVE  NextWords(s, f, i) = <<>>
  <1>1. PICK c \in i..Len(s)+1 : /\ \A x \in i..c-1 : IsSpace(s[x])
                                 /\ c <= Len(s) => s[c] = "#"
    BY DEF Blank
  <1>2. c <= Len(s) => ~IsSpace(s[c])
    BY <1>1 DEF IsSpace
  <1>3. WordStart(s, i) = c
    BY <1>1, <1>2, StartAt
  <1>. QED BY <1>1, <1>3 DEF NextWords

(* from i on, after nothing but space, u stands from j to before m         *)
BareFrom(s, i, j, m, u) ==
  /\ i \in Nat \ {0} /\ j \in Nat /\ m \in Nat /\ i <= j /\ j < m /\ m <= Len(s) + 1
  /\ \A x \in i..j-1 : IsSpace(s[x])
  /\ Plain(u) /\ u = SubSeq(s, j, m - 1)
  /\ m <= Len(s) => IsSpace(s[m])

LEMMA BareNext ==
  ASSUME NEW s \in Seq(Char), NEW i, NEW j, NEW m, NEW u, BareFrom(s, i, j, m, u), NEW f
  PROVE  NextWords(s, f, i) = Then(u, f[m])
  <1>0. /\ i \in Nat \ {0} /\ j \in Nat /\ m \in Nat /\ i <= j /\ j < m /\ m <= Len(s) + 1
        /\ \A x \in i..j-1 : IsSpace(s[x])
        /\ Plain(u) /\ u = SubSeq(s, j, m - 1)
        /\ m <= Len(s) => IsSpace(s[m])
    BY DEF BareFrom
  <1>. USE <1>0
  <1>. DEFINE Q == {x \in DOMAIN s : IsSpace(s[x])}
              c == FirstIn(s, j + 1, Q)
  <1>1. /\ Len(u) = m - j /\ Len(s) \in Nat
        /\ \A x \in 1..m-j : u[x] = s[j + x - 1]
    OBVIOUS
  <1>2. ASSUME NEW x \in j..m-1
        PROVE  s[x] = u[x - j + 1] /\ ~IsSpace(s[x]) /\ ~IsQuote(s[x]) /\ s[x] # Backslash
    <2>1. x - j + 1 \in 1..m-j /\ j + (x - j + 1) - 1 = x
      OBVIOUS
    <2>2. s[x] = u[x - j + 1]
      BY <1>1, <2>1
    <2>. QED BY <1>1, <2>1, <2>2 DEF Plain
  <1>3. s[j] # "#" /\ ~IsSpace(s[j]) /\ ~IsQuote(s[j]) /\ j \in j..m-1 /\ j \in 1..Len(s)
    <2>1. j \in j..m-1 /\ j - j + 1 = 1 /\ j \in 1..Len(s)
      BY <1>1
    <2>2. s[j] = u[1]
      BY <1>2, <2>1
    <2>. QED BY <1>2, <2>1, <2>2 DEF Plain
  <1>4. WordStart(s, i) = j
    <2>1. j \in i..Len(s)+1
      BY <1>1
    <2>. QED BY <1>3, <2>1, StartAt
  <1>5. BareEnd(s, j) = m
    <2>1. /\ c \in Nat /\ (c <= Len(s) => c >= j + 1 /\ c \in Q)
          /\ (c > Len(s) => c = Len(s) + 1) /\ \A k \in j+1..Len(s) : k \in Q => c <= k
      <3>1. j + 1 \in Nat \ {0}
        OBVIOUS
      <3>. HIDE DEF Q
      <3>. QED BY <3>1, FirstIs
    <2>2. c = BareEnd(s, j)
      BY DEF BareEnd
    <2>. HIDE DEF c
    <2>3. ~(c <= Len(s) /\ c < m)
      <3>. SUFFICES ASSUME c <= Len(s), c < m PROVE FALSE
        OBVIOUS
      <3>1. c \in j..m-1 /\ IsSpace(s[c])
        BY <2>1
      <3>. QED BY <1>2, <3>1
    <2>4. m <= Len(s) => c <= m
      <3>1. m <= Len(s) => m \in Q /\ m \in j+1..Len(s)
        OBVIOUS
      <3>. QED BY <2>1, <3>1
    <2>. HIDE DEF Q
    <2>. QED BY <1>1, <2>1, <2>2, <2>3, <2>4
  <1>6. Word(s, j) = u
    <2>1. Word(s, j) = Unescaped(u)
      BY <1>3, <1>5 DEF Word
    <2>2. Unescaped(u) = u
      BY UnescapedPlain DEF Plain
    <2>. QED BY <2>1, <2>2
  <1>7. After(s, j) = m
    BY <1>3, <1>5 DEF After
  <1>8. ~(j > Len(s) \/ s[j] = "#")
    BY <1>1, <1>3
  <1>. QED BY <1>4, <1>6, <1>7, <1>8, Zenon DEF NextWords, Then

(* the same of a quote that opens at j and closes at m                     *)
QuotedFrom(s, i, j, m) ==
  /\ i \in Nat \ {0} /\ j \in Nat /\ m \in Nat /\ i <= j /\ j < m /\ m <= Len(s)
  /\ \A x \in i..j-1 : IsSpace(s[x])
  /\ IsQuote(s[j]) /\ s[m] = s[j] /\ s[m - 1] # Backslash
  /\ \A x \in j+1..m-1 : s[x] = s[j] => s[x - 1] = Backslash

LEMMA QuotedNext ==
  ASSUME NEW s \in Seq(Char), NEW i, NEW j, NEW m, QuotedFrom(s, i, j, m), NEW f
  PROVE  NextWords(s, f, i) = Then(Unescaped(SubSeq(s, j + 1, m - 1)), f[m + 1])
  <1>0. /\ i \in Nat \ {0} /\ j \in Nat /\ m \in Nat /\ i <= j /\ j < m /\ m <= Len(s)
        /\ \A x \in i..j-1 : IsSpace(s[x])
        /\ IsQuote(s[j]) /\ s[m] = s[j] /\ s[m - 1] # Backslash
        /\ \A x \in j+1..m-1 : s[x] = s[j] => s[x - 1] = Backslash
    BY DEF QuotedFrom
  <1>. USE <1>0
  <1>. DEFINE P == {x \in 2..Len(s) : s[x] = s[j] /\ s[x - 1] # Backslash}
              c == FirstIn(s, j + 1, P)
  <1>1. j \in 1..Len(s) /\ j # Len(s) /\ Len(s) \in Nat /\ s[j] # "#" /\ ~IsSpace(s[j])
    <2>1. j \in 1..Len(s) /\ j # Len(s) /\ Len(s) \in Nat
      OBVIOUS
    <2>2. \A d : IsQuote(d) => d # "#" /\ ~IsSpace(d)
      BY DEF IsQuote, IsSpace
    <2>. QED BY <2>1, <2>2
  <1>2. WordStart(s, i) = j
    <2>1. j \in i..Len(s)+1
      BY <1>1
    <2>. QED BY <1>1, <2>1, StartAt
  <1>3. Closing(s, j) = m
    <2>1. /\ c \in Nat /\ (c <= Len(s) => c >= j + 1 /\ c \in P)
          /\ (c > Len(s) => c = Len(s) + 1) /\ \A k \in j+1..Len(s) : k \in P => c <= k
      <3>1. j + 1 \in Nat \ {0}
        OBVIOUS
      <3>. HIDE DEF P
      <3>. QED BY <3>1, FirstIs
    <2>2. c = Closing(s, j)
      BY DEF Closing
    <2>. HIDE DEF c
    <2>3. ~(c < m)
      <3>. SUFFICES ASSUME c < m PROVE FALSE
        OBVIOUS
      <3>1. c \in j+1..m-1 /\ s[c] = s[j] /\ s[c - 1] # Backslash
        BY <1>1, <2>1
      <3>. QED BY <3>1
    <2>4. c <= m
      <3>1. m \in P /\ m \in j+1..Len(s)
        BY <1>1
      <3>. QED BY <2>1, <3>1
    <2>. HIDE DEF P
    <2>. QED BY <2>1, <2>2, <2>3, <2>4
  <1>4. Word(s, j) = Unescaped(SubSeq(s, j + 1, m - 1)) /\ After(s, j) = m + 1
    BY <1>1, <1>3 DEF Word, After
  <1>5. ~(j > Len(s) \/ s[j] = "#")
    BY <1>1
  <1>. QED BY <1>2, <1>4, <1>5, Zenon DEF NextWords, Then
-----------------------------------------------------------------------------
(* A line put together from parts; p stands in s after x characters.       *)
At(s, x, p) == /\ p \in Seq(Char) /\ x \in Nat /\ x + Len(p) <= Len(s)
               /\ \A i \in 1..Len(p) : s[x + i] = p[i]

LEMMA SliceIs ==
  ASSUME NEW s \in Seq(Char), NEW x, NEW p, At(s, x, p)
  PROVE  SubSeq(s, x + 1, x + Len(p)) = p
  <1>. DEFINE u == SubSeq(s, x + 1, x + Len(p))
  <1>1. p \in Seq(Char) /\ x \in Nat /\ Len(p) \in Nat /\ x + Len(p) <= Len(s) /\ Len(s) \in Nat
    BY DEF At
  <1>2. u \in Seq(Char) /\ Len(u) = Len(p) /\ \A i \in 1..Len(p) : u[i] = s[x + i]
    <2>1. u \in Seq(Char)
      BY <1>1, SliceIn
    <2>2. Len(u) = Len(p)
      BY <1>1
    <2>3. ASSUME NEW i \in 1..Len(p) PROVE u[i] = s[x + i]
      BY <1>1
    <2>. QED BY <2>1, <2>2, <2>3
  <1>3. \A i \in 1..Len(p) : u[i] = p[i]
    BY <1>2 DEF At
  <1>. HIDE DEF u
  <1>4. u = p
    BY <1>1, <1>2, <1>3
  <1>. QED BY <1>4 DEF u

LEMMA AtInner ==
  ASSUME NEW s \in Seq(Char), NEW x, NEW p, NEW y, NEW q, At(s, x, p), At(p, y, q)
  PROVE  At(s, x + y, q)
  <1>1. /\ x \in Nat /\ y \in Nat /\ x + y \in Nat /\ q \in Seq(Char) /\ p \in Seq(Char)
        /\ Len(q) \in Nat /\ Len(p) \in Nat /\ Len(s) \in Nat
        /\ x + Len(p) <= Len(s) /\ y + Len(q) <= Len(p)
    BY DEF At
  <1>2. ASSUME NEW i \in 1..Len(q) PROVE s[(x + y) + i] = q[i]
    <2>1. y + i \in 1..Len(p) /\ x + (y + i) = (x + y) + i
      BY <1>1
    <2>2. p[y + i] = q[i] /\ s[x + (y + i)] = p[y + i]
      BY <2>1 DEF At
    <2>. QED BY <2>1, <2>2
  <1>3. (x + y) + Len(q) <= Len(s)
    BY <1>1
  <1>. QED BY <1>1, <1>2, <1>3 DEF At

LEMMA AtJoined ==
  ASSUME NEW a \in Seq(Char), NEW b \in Seq(Char)
  PROVE  At(a \o b, 0, a) /\ At(a \o b, Len(a), b)
  <1>1. /\ a \o b \in Seq(Char) /\ Len(a \o b) = Len(a) + Len(b)
        /\ Len(a) \in Nat /\ Len(b) \in Nat
        /\ \A i \in 1..Len(a) : (a \o b)[i] = a[i]
        /\ \A i \in 1..Len(b) : (a \o b)[Len(a) + i] = b[i]
    BY Joined
  <1>. DEFINE s == a \o b
  <1>. HIDE DEF s
  <1>2. /\ Len(s) = Len(a) + Len(b)
        /\ \A i \in 1..Len(a) : s[i] = a[i]
        /\ \A i \in 1..Len(b) : s[Len(a) + i] = b[i]
    BY <1>1 DEF s
  <1>3. At(s, 0, a) /\ At(s, Len(a), b)
    <2>1. \A i \in 1..Len(a) : 0 + i = i
      OBVIOUS
    <2>. QED BY <1>1, <1>2, <2>1 DEF At
  <1>. QED BY <1>3 DEF s

Four(a, b, c, d) == ((a \o b) \o c) \o d

Parted(s, a, b, c, d) ==
  /\ s \in Seq(Char) /\ Len(s) = Len(a) + Len(b) + Len(c) + Len(d)
  /\ Len(a) \in Nat /\ Len(b) \in Nat /\ Len(c) \in Nat /\ Len(d) \in Nat
  /\ At(s, 0, a) /\ At(s, Len(a), b)
  /\ At(s, Len(a) + Len(b), c) /\ At(s, Len(a) + Len(b) + Len(c), d)

LEMMA FourParts ==
  ASSUME NEW a \in Seq(Char), NEW b \in Seq(Char), NEW c \in Seq(Char), NEW d \in Seq(Char)
  PROVE  Parted(Four(a, b, c, d), a, b, c, d)
  <1>. DEFINE s == Four(a, b, c, d)
  <1>. DEFINE ab == a \o b
              abc == ab \o c
  <1>1. /\ ab \in Seq(Char) /\ Len(ab) = Len(a) + Len(b) /\ Len(a) \in Nat /\ Len(b) \in Nat
        /\ At(ab, 0, a) /\ At(ab, Len(a), b)
    BY Joined, AtJoined
  <1>. HIDE DEF ab
  <1>2. /\ abc \in Seq(Char) /\ Len(abc) = Len(ab) + Len(c) /\ Len(c) \in Nat
        /\ At(abc, 0, ab) /\ At(abc, Len(ab), c)
    BY <1>1, Joined, AtJoined
  <1>. HIDE DEF abc
  <1>3. /\ s \in Seq(Char) /\ Len(s) = Len(abc) + Len(d) /\ Len(d) \in Nat
        /\ At(s, 0, abc) /\ At(s, Len(abc), d)
    <2>1. s = abc \o d
      BY DEF ab, abc, Four
    <2>2. /\ abc \o d \in Seq(Char) /\ Len(abc \o d) = Len(abc) + Len(d) /\ Len(d) \in Nat
          /\ At(abc \o d, 0, abc) /\ At(abc \o d, Len(abc), d)
      BY <1>2, Joined, AtJoined
    <2>. QED BY <2>1, <2>2, Zenon
  <1>4. At(s, 0 + 0, ab) /\ At(s, 0 + Len(ab), c)
    BY <1>2, <1>3, AtInner
  <1>5. 0 + 0 = 0 /\ 0 + Len(ab) = Len(ab) /\ 0 + Len(a) = Len(a)
    BY <1>1
  <1>6. At(s, 0, ab)
    BY <1>4
  <1>7. At(s, 0 + 0, a) /\ At(s, 0 + Len(a), b)
    BY <1>1, <1>3, <1>6, AtInner
  <1>8. Len(ab) = Len(a) + Len(b) /\ Len(abc) = Len(a) + Len(b) + Len(c)
    BY <1>1, <1>2
  <1>9. Parted(s, a, b, c, d)
    <2>. HIDE DEF s
    <2>. QED BY <1>1, <1>2, <1>3, <1>4, <1>5, <1>7, <1>8 DEF Parted
  <1>. QED BY <1>9

LEMMA BlankAt ==
  ASSUME NEW s \in Seq(Char), NEW x, NEW t, At(s, x, t), Len(s) = x + Len(t), Blank(t, 1)
  PROVE  Blank(s, x + 1)
  <1>1. x \in Nat /\ t \in Seq(Char) /\ Len(t) \in Nat /\ \A i \in 1..Len(t) : s[x + i] = t[i]
    BY DEF At
  <1>2. PICK c \in 1..Len(t)+1 : /\ \A i \in 1..c-1 : IsSpace(t[i])
                                 /\ c <= Len(t) => t[c] = "#"
    BY DEF Blank
  <1>3. x + c \in x+1..Len(s)+1
    BY <1>1
  <1>4. ASSUME NEW i \in x+1..(x+c)-1 PROVE IsSpace(s[i])
    <2>1. i - x \in 1..c-1 /\ i - x \in 1..Len(t) /\ x + (i - x) = i
      BY <1>1
    <2>2. s[i] = t[i - x]
      BY <1>1, <2>1
    <2>. QED BY <1>2, <2>1, <2>2
  <1>5. x + c <= Len(s) => s[x + c] = "#"
    <2>1. x + c <= Len(s) => c \in 1..Len(t)
      BY <1>1
    <2>. QED BY <1>1, <1>2, <2>1
  <1>. QED BY <1>3, <1>4, <1>5 DEF Blank
-----------------------------------------------------------------------------
(* Whole lines. *)
Gap(g)  == g \in Seq(Char) /\ g # <<>> /\ \A i \in 1..Len(g) : IsSpace(g[i])
Rest(t) == t \in Seq(Char) /\ (t # <<>> => IsSpace(t[1]))

LEMMA SplitBlank ==
  ASSUME NEW s \in Seq(Char), Blank(s, 1)
  PROVE  sh_split(s) = <<>>
  <1>1. CASE s = <<>>
    BY <1>1 DEF sh_split
  <1>2. CASE s # <<>>
    <2>1. PICK f : /\ sh_split(s) = f[1]
                   /\ \A i \in 1..Len(s)+2 : f[i] = NextWords(s, f, i)
      BY <1>2, SplitIs
    <2>2. 1 \in 1..Len(s)+2 /\ 1 \in Nat \ {0}
      OBVIOUS
    <2>. QED BY <2>1, <2>2, BlankEnds
  <1>. QED BY <1>1, <1>2

(* What follows a bare word that stands after a gap, or after nothing.     *)
BareHere(s, x, g, u, y, m) ==
  /\ At(s, x, g) /\ \A i \in 1..Len(g) : IsSpace(g[i])
  /\ At(s, x + Len(g), u) /\ Plain(u)
  /\ y = x + 1 /\ m = x + Len(g) + Len(u) + 1
  /\ m <= Len(s) => IsSpace(s[m])

LEMMA BareAt ==
  ASSUME NEW s \in Seq(Char), NEW x, NEW g, NEW u, NEW y, NEW m, BareHere(s, x, g, u, y, m), NEW f
  PROVE  NextWords(s, f, y) = Then(u, f[m])
  <1>0. /\ At(s, x, g) /\ \A i \in 1..Len(g) : IsSpace(g[i])
        /\ At(s, x + Len(g), u) /\ y = x + 1 /\ m = x + Len(g) + Len(u) + 1
    BY DEF BareHere
  <1>. USE <1>0
  <1>. DEFINE j == x + Len(g) + 1
  <1>1. /\ x \in Nat /\ Len(g) \in Nat /\ Len(u) \in Nat /\ Len(s) \in Nat /\ Len(u) >= 1
        /\ x + Len(g) + Len(u) <= Len(s)
    BY DEF At, Plain, BareHere
  <1>2. /\ y \in Nat \ {0} /\ j \in Nat /\ m \in Nat
        /\ y <= j /\ j < m /\ m <= Len(s) + 1
    BY <1>1
  <1>3. ASSUME NEW z \in y..j-1 PROVE IsSpace(s[z])
    <2>1. z - x \in 1..Len(g) /\ x + (z - x) = z
      BY <1>1
    <2>2. s[z] = g[z - x]
      BY <2>1 DEF At
    <2>. QED BY <2>1, <2>2
  <1>4. u = SubSeq(s, j, m - 1)
    <2>1. SubSeq(s, (x + Len(g)) + 1, (x + Len(g)) + Len(u)) = u
      BY SliceIs
    <2>2. m - 1 = (x + Len(g)) + Len(u)
      BY <1>1
    <2>. QED BY <2>1, <2>2
  <1>5. \A z \in y..j-1 : IsSpace(s[z])
    BY <1>3
  <1>5a. Plain(u) /\ (m <= Len(s) => IsSpace(s[m]))
    BY DEF BareHere
  <1>. HIDE DEF j
  <1>6. BareFrom(s, y, j, m, u)
    BY <1>2, <1>4, <1>5, <1>5a DEF BareFrom, BareHere
  <1>. QED BY <1>6, BareNext

LEMMA EmptyAt == ASSUME NEW s \in Seq(Char) PROVE At(s, 0, <<>>) /\ Len(<<>>) = 0
  BY DEF At

LEMMA RestAt ==
  ASSUME NEW s \in Seq(Char), NEW x, NEW t, At(s, x, t), Rest(t), Len(s) = x + Len(t)
  PROVE  x + 1 <= Len(s) => IsSpace(s[x + 1])
  <1>1. x \in Nat /\ Len(t) \in Nat /\ t \in Seq(Char)
    BY DEF At
  <1>. SUFFICES ASSUME x + 1 <= Len(s) PROVE IsSpace(s[x + 1])
    OBVIOUS
  <1>2. t # <<>> /\ 1 \in 1..Len(t)
    BY <1>1
  <1>3. s[x + 1] = t[1]
    BY <1>2 DEF At
  <1>. QED BY <1>2, <1>3 DEF Rest

LEMMA GapAt ==
  ASSUME NEW s \in Seq(Char), NEW x, NEW p, NEW g, At(s, x, p), At(p, 0, g), Gap(g)
  PROVE  IsSpace(s[x + 1])
  <1>1. /\ x \in Nat /\ Len(p) \in Nat /\ Len(g) \in Nat /\ Len(g) >= 1 /\ Len(g) <= Len(p)
    BY DEF At, Gap
  <1>2. 1 \in 1..Len(g) /\ 1 \in 1..Len(p) /\ 0 + 1 = 1
    BY <1>1
  <1>3. s[x + 1] = p[1] /\ p[1] = g[1]
    BY <1>2 DEF At
  <1>. QED BY <1>2, <1>3 DEF Gap

LEMMA SplitFlag ==
  ASSUME NEW k, Plain(k), NEW t, Rest(t), Blank(t, 1), NEW s, s = k \o t
  PROVE  s \in Seq(Char) /\ sh_split(s) = <<k>>
  <1>1. /\ s \in Seq(Char) /\ Len(s) = Len(k) + Len(t) /\ Len(k) \in Nat /\ Len(t) \in Nat
        /\ At(s, 0, k) /\ At(s, Len(k), t) /\ Len(k) >= 1
    <2>1. k \in Seq(Char) /\ t \in Seq(Char) /\ Len(k) >= 1
      BY DEF Plain, Rest
    <2>2. /\ k \o t \in Seq(Char) /\ Len(k \o t) = Len(k) + Len(t) /\ Len(k) \in Nat /\ Len(t) \in Nat
          /\ At(k \o t, 0, k) /\ At(k \o t, Len(k), t)
      BY <2>1, Joined, AtJoined
    <2>. QED BY <2>1, <2>2, Zenon
  <1>2. PICK f : /\ sh_split(s) = f[1]
                 /\ \A i \in 1..Len(s)+2 : f[i] = NextWords(s, f, i)
    <2>1. s # <<>>
      BY <1>1
    <2>. QED BY <1>1, <2>1, SplitIs
  <1>3. At(s, 0, <<>>) /\ Len(<<>>) = 0 /\ \A i \in 1..Len(<<>>) : IsSpace(<<>>[i])
    <2>1. At(s, 0, <<>>) /\ Len(<<>>) = 0
      BY <1>1, EmptyAt
    <2>. QED BY <2>1
  <1>4. 0 + Len(<<>>) = 0 /\ Len(k) + 1 = 0 + Len(<<>>) + Len(k) + 1 /\ 1 = 0 + 1
    BY <1>1, <1>3
  <1>5. Len(k) + 1 <= Len(s) => IsSpace(s[Len(k) + 1])
    BY <1>1, RestAt
  <1>6. NextWords(s, f, 1) = Then(k, f[Len(k) + 1])
    <2>1. At(s, 0 + Len(<<>>), k)
      BY <1>1, <1>4
    <2>2. BareHere(s, 0, <<>>, k, 1, Len(k) + 1)
      BY <1>1, <1>3, <1>4, <1>5, <2>1 DEF BareHere
    <2>3. \A z \in Seq(Char) : \A m : BareHere(z, 0, <<>>, k, 1, m)
                                     => NextWords(z, f, 1) = Then(k, f[m])
      BY BareAt
    <2>4. s \in Seq(Char)
      BY <1>1
    <2>. QED BY <2>2, <2>3, <2>4, Zenon
  <1>7. f[1] = Then(k, f[Len(k) + 1]) /\ f[Len(k) + 1] = NextWords(s, f, Len(k) + 1)
    BY <1>1, <1>2, <1>6
  <1>8. NextWords(s, f, Len(k) + 1) = <<>>
    <2>0. Len(k) + 1 \in Nat \ {0} /\ At(s, Len(k), t) /\ Len(s) = Len(k) + Len(t)
      BY <1>1
    <2>1. Blank(s, Len(k) + 1)
      BY <1>1, <2>0, BlankAt
    <2>. QED BY <1>1, <2>0, <2>1, BlankEnds
  <1>9. Then(k, <<>>) = <<k>>
    BY DEF Then
  <1>. QED BY <1>1, <1>2, <1>7, <1>8, <1>9, Zenon

(* The key and the gap after it, which every other line begins with.       *)
Opens(s, k, p, g) == /\ Plain(k) /\ At(s, 0, k)
                     /\ At(s, Len(k), p) /\ At(p, 0, g) /\ Gap(g)

Begun(s, k, f) == /\ sh_split(s) = Then(k, f[Len(k) + 1])
                  /\ \A i \in 1..Len(s)+2 : f[i] = NextWords(s, f, i) /\ f[i] \in Seq(Seq(Char))

LEMMA FirstWord ==
  ASSUME NEW s \in Seq(Char), NEW k, NEW p, NEW g, Opens(s, k, p, g)
  PROVE  \E f : Begun(s, k, f)
  <1>0. Plain(k) /\ At(s, 0, k) /\ At(s, Len(k), p) /\ At(p, 0, g) /\ Gap(g)
    BY DEF Opens
  <1>. USE <1>0
  <1>1. /\ k \in Seq(Char) /\ Len(k) \in Nat /\ Len(k) >= 1 /\ Len(s) \in Nat /\ Len(k) <= Len(s)
    BY DEF At, Plain
  <1>2. PICK f : /\ sh_split(s) = f[1]
                 /\ \A i \in 1..Len(s)+2 : f[i] = NextWords(s, f, i) /\ f[i] \in Seq(Seq(Char))
    <2>1. s # <<>>
      BY <1>1
    <2>. QED BY <1>1, <2>1, SplitIs
  <1>3. At(s, 0, <<>>) /\ Len(<<>>) = 0 /\ \A i \in 1..Len(<<>>) : IsSpace(<<>>[i])
    <2>1. At(s, 0, <<>>) /\ Len(<<>>) = 0
      BY EmptyAt
    <2>. QED BY <2>1
  <1>4. 0 + Len(<<>>) = 0 /\ Len(k) + 1 = 0 + Len(<<>>) + Len(k) + 1 /\ 1 = 0 + 1
    BY <1>1, <1>3
  <1>5. IsSpace(s[Len(k) + 1])
    BY GapAt
  <1>6. NextWords(s, f, 1) = Then(k, f[Len(k) + 1])
    <2>1. At(s, 0 + Len(<<>>), k)
      BY <1>4
    <2>2. BareHere(s, 0, <<>>, k, 1, Len(k) + 1)
      BY <1>1, <1>3, <1>4, <1>5, <2>1 DEF BareHere
    <2>3. \A m : BareHere(s, 0, <<>>, k, 1, m) => NextWords(s, f, 1) = Then(k, f[m])
      BY BareAt
    <2>. QED BY <2>2, <2>3, Zenon
  <1>7. f[1] = NextWords(s, f, 1)
    BY <1>1, <1>2
  <1>8. Begun(s, k, f)
    BY <1>2, <1>6, <1>7, Zenon DEF Begun
  <1>. QED BY <1>8

LEMMA TwoWords == ASSUME NEW T, NEW a \in T, NEW b \in T PROVE Then(a, Then(b, <<>>)) = <<a, b>>
  <1>1. Then(b, <<>>) = <<b>>
    BY DEF Then
  <1>2. <<a>> \o <<b>> = <<a, b>>
    <2>. DEFINE z == <<a>> \o <<b>>
    <2>1. z \in Seq(T) /\ Len(z) = 2 /\ z[1] = a /\ z[2] = b
      OBVIOUS
    <2>. HIDE DEF z
    <2>2. z = <<z[1], z[2]>>
      BY <2>1
    <2>3. z = <<a, b>>
      BY <2>1, <2>2
    <2>. QED BY <2>3 DEF z
  <1>. QED BY <1>1, <1>2, Zenon DEF Then

LEMMA SplitBare ==
  ASSUME NEW k, Plain(k), NEW g, Gap(g), NEW v, Plain(v), NEW t, Rest(t), Blank(t, 1),
         NEW s, s = Four(k, g, v, t)
  PROVE  s \in Seq(Char) /\ sh_split(s) = <<k, v>>
  <1>. DEFINE x == Len(k)
              m == Len(k) + Len(g) + Len(v) + 1
  <1>0. k \in Seq(Char) /\ g \in Seq(Char) /\ v \in Seq(Char) /\ t \in Seq(Char)
    BY DEF Plain, Gap, Rest
  <1>1. /\ s \in Seq(Char) /\ Len(s) = Len(k) + Len(g) + Len(v) + Len(t)
        /\ Len(k) \in Nat /\ Len(g) \in Nat /\ Len(v) \in Nat /\ Len(t) \in Nat
        /\ At(s, 0, k) /\ At(s, Len(k), g)
        /\ At(s, Len(k) + Len(g), v) /\ At(s, Len(k) + Len(g) + Len(v), t)
    <2>1. Parted(s, k, g, v, t)
      BY <1>0, FourParts
    <2>. QED BY <2>1 DEF Parted
  <1>2. At(g, 0, g)
    BY <1>0, <1>1 DEF At
  <1>3. PICK f : /\ sh_split(s) = Then(k, f[Len(k) + 1])
                 /\ \A i \in 1..Len(s)+2 : f[i] = NextWords(s, f, i)
    <2>1. s \in Seq(Char) /\ Opens(s, k, g, g)
      BY <1>1, <1>2 DEF Opens
    <2>2. PICK f : Begun(s, k, f)
      BY <2>1, FirstWord
    <2>. QED BY <2>2 DEF Begun
  <1>4. NextWords(s, f, Len(k) + 1) = Then(v, f[m])
    <2>1. m <= Len(s) => IsSpace(s[m])
      BY <1>1, RestAt
    <2>2. \A i \in 1..Len(g) : IsSpace(g[i])
      BY DEF Gap
    <2>3. BareHere(s, Len(k), g, v, Len(k) + 1, m)
      BY <1>1, <2>1, <2>2 DEF BareHere
    <2>. HIDE DEF m
    <2>4. \A y : \A z : BareHere(s, Len(k), g, v, y, z) => NextWords(s, f, y) = Then(v, f[z])
      BY <1>1, BareAt
    <2>. QED BY <2>3, <2>4, Zenon
  <1>5. NextWords(s, f, m) = <<>>
    <2>0. /\ At(s, Len(k) + Len(g) + Len(v), t) /\ m \in Nat \ {0}
          /\ Len(s) = (Len(k) + Len(g) + Len(v)) + Len(t)
      BY <1>1
    <2>1. Blank(s, m)
      BY <1>1, <2>0, BlankAt, Zenon
    <2>. HIDE DEF m
    <2>. QED BY <1>1, <2>0, <2>1, BlankEnds
  <1>6. f[Len(k) + 1] = NextWords(s, f, Len(k) + 1) /\ f[m] = NextWords(s, f, m)
    <2>1. Len(k) + 1 \in 1..Len(s)+2 /\ m \in 1..Len(s)+2
      BY <1>1
    <2>. QED BY <1>3, <2>1, Zenon
  <1>7. Then(k, Then(v, <<>>)) = <<k, v>>
    BY <1>0, TwoWords
  <1>8. sh_split(s) = Then(k, Then(v, <<>>))
    BY <1>3, <1>4, <1>5, <1>6, Zenon
  <1>. QED BY <1>1, <1>7, <1>8, Zenon

LEMMA SplitQuoted ==
  ASSUME NEW k, Plain(k), NEW g, Gap(g), NEW q \in Char, IsQuote(q),
         NEW w \in Seq(Char), w # <<>> => w[Len(w)] # Backslash, NEW t \in Seq(Char), Blank(t, 1),
         NEW s, s = Four(k, g \o <<q>>, Quoted(w) \o <<q>>, t)
  PROVE  s \in Seq(Char) /\ sh_split(s) = <<k, w>>
  <1>. DEFINE u == Quoted(w)
              b == g \o <<q>>
              c == u \o <<q>>
              j == Len(k) + Len(g) + 1
              m == j + Len(u) + 1
  <1>0. /\ k \in Seq(Char) /\ g \in Seq(Char) /\ u \in Seq(Char) /\ <<q>> \in Seq(Char)
        /\ Len(<<q>>) = 1 /\ <<q>>[1] = q
        /\ Safe(u) /\ Unescaped(u) = w
        /\ u # <<>> => u[Len(u)] # Backslash
    <2>1. CodeOf(u, w, Len(w)) /\ SubSeq(w, 1, Len(w)) = w
      BY QuotedIs
    <2>2. u # <<>> => u[Len(u)] # Backslash
      <3>. HIDE DEF u
      <3>1. CASE Len(w) = 0
        BY <2>1, <3>1 DEF CodeOf
      <3>2. CASE Len(w) # 0
        <4>1. w # <<>>
          BY <3>2
        <4>2. u[Len(u)] = w[Len(w)]
          BY <2>1, <3>2 DEF CodeOf
        <4>. QED BY <4>1, <4>2
      <3>. QED BY <3>1, <3>2
    <2>. QED BY <2>1, <2>2 DEF CodeOf, Plain, Gap
  <1>. HIDE DEF u
  <1>1. /\ b \in Seq(Char) /\ Len(b) = Len(g) + 1 /\ At(b, 0, g) /\ At(b, Len(g), <<q>>)
        /\ c \in Seq(Char) /\ Len(c) = Len(u) + 1 /\ At(c, 0, u) /\ At(c, Len(u), <<q>>)
        /\ Len(g) \in Nat /\ Len(u) \in Nat
    BY <1>0, Joined, AtJoined
  <1>2. s = Four(k, b, c, t)
    BY DEF u
  <1>. HIDE DEF b, c
  <1>3. /\ s \in Seq(Char) /\ Len(s) = Len(k) + Len(b) + Len(c) + Len(t)
        /\ Len(k) \in Nat /\ Len(t) \in Nat
        /\ At(s, 0, k) /\ At(s, Len(k), b)
        /\ At(s, Len(k) + Len(b), c) /\ At(s, Len(k) + Len(b) + Len(c), t)
    <2>1. Parted(s, k, b, c, t)
      BY <1>0, <1>1, <1>2, FourParts
    <2>. QED BY <2>1 DEF Parted
  <1>4. PICK f : /\ sh_split(s) = Then(k, f[Len(k) + 1])
                 /\ \A i \in 1..Len(s)+2 : f[i] = NextWords(s, f, i)
    <2>1. s \in Seq(Char) /\ Opens(s, k, b, g)
      BY <1>1, <1>3 DEF Opens
    <2>2. PICK f : Begun(s, k, f)
      BY <2>1, FirstWord
    <2>. QED BY <2>2 DEF Begun
  <1>5. /\ \A i \in 1..Len(g) : s[Len(k) + i] = g[i] /\ IsSpace(g[i])
        /\ s[j] = q
        /\ \A i \in 1..Len(u) : s[j + i] = u[i]
        /\ s[m] = q
    <2>1. At(s, Len(k) + 0, g) /\ At(s, Len(k) + Len(g), <<q>>)
      BY <1>1, <1>3, AtInner
    <2>2. At(s, (Len(k) + Len(b)) + 0, u) /\ At(s, (Len(k) + Len(b)) + Len(u), <<q>>)
      BY <1>1, <1>3, AtInner
    <2>3. /\ Len(k) + 0 = Len(k) /\ (Len(k) + Len(b)) + 0 = j
          /\ (Len(k) + Len(g)) + 1 = j /\ ((Len(k) + Len(b)) + Len(u)) + 1 = m
      BY <1>1, <1>3
    <2>4. \A i \in 1..Len(g) : s[Len(k) + i] = g[i] /\ IsSpace(g[i])
      BY <2>1, <2>3 DEF At, Gap
    <2>5. 1 \in 1..Len(<<q>>)
      BY <1>0
    <2>6. s[j] = q
      BY <1>0, <2>1, <2>3, <2>5 DEF At
    <2>7. \A i \in 1..Len(u) : s[j + i] = u[i]
      BY <2>2, <2>3 DEF At
    <2>8. s[m] = q
      BY <1>0, <2>2, <2>3, <2>5 DEF At
    <2>. QED BY <2>4, <2>6, <2>7, <2>8
  <1>6. /\ j \in Nat /\ m \in Nat /\ j < m /\ m <= Len(s) /\ Len(k) + 1 <= j
        /\ m + 1 = (Len(k) + Len(b) + Len(c)) + 1 /\ m - 1 = j + Len(u)
        /\ Len(k) + 1 \in Nat \ {0}
    <2>1. /\ Len(k) \in Nat /\ Len(g) \in Nat /\ Len(u) \in Nat /\ Len(t) \in Nat
          /\ Len(b) = Len(g) + 1 /\ Len(c) = Len(u) + 1
          /\ Len(s) = Len(k) + Len(b) + Len(c) + Len(t)
      BY <1>1, <1>3
    <2>2. j \in Nat /\ m \in Nat /\ j < m /\ Len(k) + 1 <= j /\ m - 1 = j + Len(u)
      BY <2>1
    <2>3. m + 1 = (Len(k) + Len(b) + Len(c)) + 1
      BY <2>1
    <2>4. m <= Len(s)
      BY <2>1
    <2>. QED BY <2>1, <2>2, <2>3, <2>4
  <1>7. ASSUME NEW x \in Len(k)+1..j-1 PROVE IsSpace(s[x])
    <2>1. x - Len(k) \in 1..Len(g) /\ Len(k) + (x - Len(k)) = x
      BY <1>1, <1>3
    <2>2. s[Len(k) + (x - Len(k))] = g[x - Len(k)] /\ IsSpace(g[x - Len(k)])
      BY <1>5, <2>1
    <2>. QED BY <2>1, <2>2
  <1>8. SubSeq(s, j + 1, m - 1) = u
    <2>1. j + Len(u) <= Len(s)
      BY <1>1, <1>3, <1>6
    <2>. HIDE DEF j, m
    <2>2. At(s, j, u)
      BY <1>0, <1>5, <1>6, <2>1 DEF At
    <2>3. SubSeq(s, j + 1, j + Len(u)) = u
      BY <1>3, <2>2, SliceIs
    <2>. QED BY <1>6, <2>3, Zenon
  <1>9. q # Backslash /\ Backslash # q
    BY DEF IsQuote, Backslash
  <1>10. s[m - 1] # Backslash
    <2>1. CASE u = <<>>
      <3>1. m - 1 = j
        BY <1>1, <1>3, <2>1
      <3>. QED BY <1>5, <1>9, <3>1
    <2>2. CASE u # <<>>
      <3>1. Len(u) \in 1..Len(u) /\ m - 1 = j + Len(u)
        BY <1>0, <1>6, <2>2
      <3>2. s[j + Len(u)] = u[Len(u)]
        BY <1>5, <3>1
      <3>. QED BY <1>0, <2>2, <3>1, <3>2
    <2>. QED BY <2>1, <2>2
  <1>11. ASSUME NEW x \in j+1..m-1, s[x] = q PROVE s[x - 1] = Backslash
    <2>1. x - j \in 1..Len(u) /\ j + (x - j) = x
      BY <1>1, <1>6
    <2>2. u[x - j] = q
      BY <1>5, <1>11, <2>1
    <2>3. x - j >= 2 /\ u[(x - j) - 1] = Backslash
      BY <1>0, <2>1, <2>2 DEF Safe
    <2>4. (x - j) - 1 \in 1..Len(u) /\ j + ((x - j) - 1) = x - 1
      BY <1>6, <2>1, <2>3
    <2>. QED BY <1>5, <2>3, <2>4
  <1>12. NextWords(s, f, Len(k) + 1) = Then(w, f[m + 1])
    <2>1. QuotedFrom(s, Len(k) + 1, j, m)
      BY <1>5, <1>6, <1>7, <1>10, <1>11 DEF QuotedFrom
    <2>. HIDE DEF j, m
    <2>2. NextWords(s, f, Len(k) + 1) = Then(Unescaped(SubSeq(s, j + 1, m - 1)), f[m + 1])
      <3>1. \A y : QuotedFrom(s, y, j, m)
                     => NextWords(s, f, y) = Then(Unescaped(SubSeq(s, j + 1, m - 1)), f[m + 1])
        BY <1>3, QuotedNext
      <3>. QED BY <2>1, <3>1, Zenon
    <2>. QED BY <1>0, <1>8, <2>2, Zenon
  <1>13. NextWords(s, f, m + 1) = <<>>
    <2>1. Blank(s, (Len(k) + Len(b) + Len(c)) + 1)
      BY <1>3, BlankAt
    <2>2. Blank(s, m + 1) /\ m + 1 \in Nat \ {0}
      BY <1>6, <2>1
    <2>. HIDE DEF m
    <2>. QED BY <1>3, <2>2, BlankEnds
  <1>14. f[Len(k) + 1] = NextWords(s, f, Len(k) + 1) /\ f[m + 1] = NextWords(s, f, m + 1)
    <2>1. Len(k) + 1 \in 1..Len(s)+2 /\ m + 1 \in 1..Len(s)+2
      BY <1>3, <1>6
    <2>. QED BY <1>4, <2>1, Zenon
  <1>15. Then(k, Then(w, <<>>)) = <<k, w>>
    BY <1>0, TwoWords
  <1>16. sh_split(s) = Then(k, Then(w, <<>>))
    BY <1>4, <1>12, <1>13, <1>14, Zenon
  <1>. QED BY <1>3, <1>15, <1>16, Zenon

LEMMA SplitExtra ==
  ASSUME NEW k, Plain(k), NEW g, Gap(g), NEW v, Plain(v),
         NEW h, Gap(h), NEW e, Plain(e), NEW t, Rest(t),
         NEW s, s = Four(k, g, v, Four(h, e, <<>>, t))
  PROVE  s \in Seq(Char) /\ sh_split(s) \in Seq(Seq(Char)) /\ Len(sh_split(s)) > 2
  <1>. DEFINE r == Four(h, e, <<>>, t)
              m == Len(k) + Len(g) + Len(v) + 1
              n == Len(k) + Len(g) + Len(v) + Len(h) + Len(e) + 1
  <1>0. /\ k \in Seq(Char) /\ g \in Seq(Char) /\ v \in Seq(Char)
        /\ h \in Seq(Char) /\ e \in Seq(Char) /\ t \in Seq(Char) /\ <<>> \in Seq(Char)
    BY DEF Plain, Gap, Rest
  <1>1. /\ r \in Seq(Char) /\ Len(r) = Len(h) + Len(e) + Len(t)
        /\ Len(h) \in Nat /\ Len(e) \in Nat /\ Len(t) \in Nat
        /\ At(r, 0, h) /\ At(r, Len(h), e) /\ At(r, Len(h) + Len(e), t)
    <2>1. Parted(r, h, e, <<>>, t)
      BY <1>0, FourParts
    <2>2. Len(<<>>) = 0
      OBVIOUS
    <2>. HIDE DEF r
    <2>3. /\ Len(h) \in Nat /\ Len(e) \in Nat /\ Len(t) \in Nat
          /\ Len(h) + Len(e) + Len(<<>>) + Len(t) = Len(h) + Len(e) + Len(t)
          /\ Len(h) + Len(e) + Len(<<>>) = Len(h) + Len(e)
      BY <2>1, <2>2 DEF Parted
    <2>. QED BY <2>1, <2>3 DEF Parted
  <1>2. s = Four(k, g, v, r)
    OBVIOUS
  <1>. HIDE DEF r
  <1>3. /\ s \in Seq(Char) /\ Len(s) = Len(k) + Len(g) + Len(v) + Len(r)
        /\ Len(k) \in Nat /\ Len(g) \in Nat /\ Len(v) \in Nat /\ Len(r) \in Nat
        /\ At(s, 0, k) /\ At(s, Len(k), g)
        /\ At(s, Len(k) + Len(g), v) /\ At(s, Len(k) + Len(g) + Len(v), r)
    <2>1. Parted(s, k, g, v, r)
      BY <1>0, <1>1, <1>2, FourParts
    <2>. QED BY <2>1 DEF Parted
  <1>4. At(g, 0, g)
    BY <1>0, <1>3 DEF At
  <1>5. PICK f : /\ sh_split(s) = Then(k, f[Len(k) + 1])
                 /\ \A i \in 1..Len(s)+2 : f[i] = NextWords(s, f, i) /\ f[i] \in Seq(Seq(Char))
    <2>1. s \in Seq(Char) /\ Opens(s, k, g, g)
      BY <1>3, <1>4 DEF Opens
    <2>2. PICK f : Begun(s, k, f)
      BY <2>1, FirstWord
    <2>. QED BY <2>2 DEF Begun
  <1>6. IsSpace(s[m])
    <2>1. \A x : At(s, x, r) => IsSpace(s[x + 1])
      BY <1>1, <1>3, GapAt
    <2>. QED BY <1>3, <2>1
  <1>7. NextWords(s, f, Len(k) + 1) = Then(v, f[m])
    <2>2. \A i \in 1..Len(g) : IsSpace(g[i])
      BY DEF Gap
    <2>3. BareHere(s, Len(k), g, v, Len(k) + 1, m)
      BY <1>3, <1>6, <2>2 DEF BareHere
    <2>. HIDE DEF m
    <2>4. \A z \in Seq(Char) : \A y, x : BareHere(z, Len(k), g, v, y, x)
                                        => NextWords(z, f, y) = Then(v, f[x])
      BY BareAt
    <2>5. s \in Seq(Char)
      BY <1>3
    <2>. QED BY <2>3, <2>4, <2>5, Zenon
  <1>8. NextWords(s, f, m) = Then(e, f[n])
    <2>. DEFINE p == Len(k) + Len(g) + Len(v)
    <2>1. p \in Nat /\ m = p + 1 /\ n = p + Len(h) + Len(e) + 1 /\ At(s, p, r)
      BY <1>1, <1>3
    <2>2. At(s, p + 0, h) /\ At(s, p + Len(h), e) /\ At(s, p + (Len(h) + Len(e)), t) /\ p + 0 = p
      <3>. HIDE DEF p
      <3>1. At(s, p + 0, h)
        BY <1>1, <1>3, <2>1, AtInner
      <3>2. At(s, p + Len(h), e)
        BY <1>1, <1>3, <2>1, AtInner
      <3>3. At(s, p + (Len(h) + Len(e)), t)
        BY <1>1, <1>3, <2>1, AtInner
      <3>. QED BY <2>1, <3>1, <3>2, <3>3
    <2>3. Len(s) = p + Len(h) + Len(e) + Len(t)
      BY <1>1, <1>3
    <2>. HIDE DEF p, m, n
    <2>4. n <= Len(s) => IsSpace(s[n])
      <3>. DEFINE x == p + (Len(h) + Len(e))
      <3>1. At(s, x, t) /\ n = x + 1 /\ Len(s) = x + Len(t)
        BY <1>1, <2>1, <2>2, <2>3
      <3>. HIDE DEF x
      <3>. QED BY <1>3, <3>1, RestAt
    <2>5. \A i \in 1..Len(h) : IsSpace(h[i])
      BY DEF Gap
    <2>6. BareHere(s, p, h, e, m, n)
      BY <2>1, <2>2, <2>4, <2>5 DEF BareHere
    <2>7. s \in Seq(Char)
      BY <1>3
    <2>. QED BY <2>6, <2>7, BareAt
  <1>9. /\ f[Len(k) + 1] = NextWords(s, f, Len(k) + 1) /\ f[m] = NextWords(s, f, m)
        /\ f[n] \in Seq(Seq(Char))
    <2>1. Len(k) + 1 \in 1..Len(s)+2 /\ m \in 1..Len(s)+2 /\ n \in 1..Len(s)+2
      BY <1>1, <1>3
    <2>. QED BY <1>5, <2>1, Zenon
  <1>10. sh_split(s) = Then(k, Then(v, Then(e, f[n])))
    BY <1>5, <1>7, <1>8, <1>9, Zenon
  <1>11. \A a \in Seq(Char) : \A b \in Seq(Seq(Char)) :
           Then(a, b) \in Seq(Seq(Char)) /\ Len(Then(a, b)) = 1 + Len(b) /\ Len(b) \in Nat
    BY DEF Then
  <1>12. Then(e, f[n]) \in Seq(Seq(Char)) /\ Len(Then(e, f[n])) = 1 + Len(f[n]) /\ Len(f[n]) \in Nat
    BY <1>0, <1>9, <1>11
  <1>13. /\ Then(v, Then(e, f[n])) \in Seq(Seq(Char))
         /\ Len(Then(v, Then(e, f[n]))) = 1 + Len(Then(e, f[n]))
    BY <1>0, <1>12, <1>11
  <1>14. /\ sh_split(s) \in Seq(Seq(Char))
         /\ Len(sh_split(s)) = 1 + Len(Then(v, Then(e, f[n])))
    BY <1>0, <1>10, <1>13, <1>11
  <1>15. \A a, b, c \in Nat : b = 1 + a => (c = 1 + (1 + b) => c > 2)
    OBVIOUS
  <1>16. /\ Len(f[n]) \in Nat /\ Len(Then(e, f[n])) \in Nat /\ Len(sh_split(s)) \in Nat
         /\ Len(sh_split(s)) = 1 + (1 + Len(Then(e, f[n])))
    BY <1>12, <1>13, <1>14
  <1>17. Len(sh_split(s)) > 2
    BY <1>12, <1>15, <1>16, Zenon
  <1>. QED BY <1>3, <1>14, <1>17, Zenon
-----------------------------------------------------------------------------
(* The words ws are those the author of line l meant: none, too many, the  *)
(* key alone, or the key and the value.                                    *)
Means(l, ws) ==
  /\ ws \in Seq(Seq(Char))
  /\ ws = <<>> <=> l.key = Nothing /\ ~l.extra
  /\ ws # <<>> => (l.extra <=> Len(ws) >= 3)
  /\ ws # <<>> /\ ~l.extra =>
       /\ ws[1] = l.key
       /\ Len(ws) = 1 <=> l.val = Nothing
       /\ Len(ws) = 2 => ws[2] = l.val

LinesMean == \A l \in Line : Len(l.text) <= LineMax => Means(l, sh_split(l.text))

(***************************************************************************)
(* The lines of a file as their authors write them: nothing but space or a *)
(* comment, or a key, and maybe after a gap a value that needs no quotes,  *)
(* or one between quotes, single or double, with a backslash before each   *)
(* character in it that may be escaped, or too many words.  What follows   *)
(* the value may be a comment.  A quoted value that ends in a backslash    *)
(* cannot be written: the closing quote would count as escaped.            *)
(***************************************************************************)
BlankLine(l)   == /\ l.text \in Seq(Char) /\ Blank(l.text, 1)
                  /\ l.key = Nothing /\ ~l.extra

FlagLine(l)    == \E t : /\ Rest(t) /\ Blank(t, 1) /\ l.text = l.key \o t
                         /\ l.val = Nothing /\ ~l.extra

BareLine(l)    == \E g, t : /\ Gap(g) /\ Rest(t) /\ Blank(t, 1) /\ Plain(l.val)
                            /\ l.text = Four(l.key, g, l.val, t)
                            /\ l.val # Nothing /\ ~l.extra

QuotedLine(l)  == \E g, t : \E q \in Char :
                    /\ Gap(g) /\ t \in Seq(Char) /\ Blank(t, 1) /\ IsQuote(q)
                    /\ l.val \in Seq(Char) /\ (l.val # <<>> => l.val[Len(l.val)] # Backslash)
                    /\ l.text = Four(l.key, g \o <<q>>, Quoted(l.val) \o <<q>>, t)
                    /\ l.val # Nothing /\ ~l.extra

CrowdedLine(l) == \E g, v, h, e, t :
                    /\ Gap(g) /\ Plain(v) /\ Gap(h) /\ Plain(e) /\ Rest(t)
                    /\ l.text = Four(l.key, g, v, Four(h, e, <<>>, t))
                    /\ l.extra

WellWritten(l) ==
  \/ BlankLine(l)
  \/ /\ Plain(l.key) /\ l.key # Nothing
     /\ FlagLine(l) \/ BareLine(l) \/ QuotedLine(l) \/ CrowdedLine(l)

LinesWritten == \A l \in Line : Len(l.text) <= LineMax => WellWritten(l)

LEMMA WordsMeant ==
  ASSUME NEW l, WellWritten(l)
  PROVE  l.text \in Seq(Char) /\ Means(l, sh_split(l.text))
  <1>. DEFINE s == l.text
              ws == sh_split(l.text)
  <1>1. CASE BlankLine(l)
    <2>1. s \in Seq(Char) /\ ws = <<>>
      BY <1>1, SplitBlank DEF BlankLine
    <2>2. <<>> \in Seq(Seq(Char))
      OBVIOUS
    <2>. QED BY <1>1, <2>1, <2>2 DEF BlankLine, Means
  <1>2. CASE Plain(l.key) /\ l.key # Nothing /\ FlagLine(l)
    <2>1. PICK t : Rest(t) /\ Blank(t, 1) /\ s = l.key \o t /\ l.val = Nothing /\ ~l.extra
      BY <1>2 DEF FlagLine
    <2>2. s \in Seq(Char) /\ ws = <<l.key>>
      BY <1>2, <2>1, SplitFlag
    <2>3. l.key \in Seq(Char)
      BY <1>2 DEF Plain
    <2>4. /\ <<l.key>> \in Seq(Seq(Char)) /\ <<l.key>> # <<>>
          /\ Len(<<l.key>>) = 1 /\ <<l.key>>[1] = l.key
      BY <2>3
    <2>. HIDE DEF s, ws
    <2>5. ws \in Seq(Seq(Char)) /\ ws # <<>> /\ Len(ws) = 1 /\ ws[1] = l.key
      BY <2>2, <2>4
    <2>6. Means(l, ws)
      BY <1>2, <2>1, <2>5 DEF Means
    <2>. QED BY <2>2, <2>6 DEF s, ws
  <1>3. ASSUME Plain(l.key), l.key # Nothing, ~l.extra, l.val # Nothing, l.val \in Seq(Char),
               s \in Seq(Char), ws = <<l.key, l.val>>
        PROVE  s \in Seq(Char) /\ Means(l, ws)
    <2>1. l.key \in Seq(Char)
      BY <1>3 DEF Plain
    <2>2. /\ <<l.key, l.val>> \in Seq(Seq(Char)) /\ <<l.key, l.val>> # <<>>
          /\ Len(<<l.key, l.val>>) = 2 /\ <<l.key, l.val>>[1] = l.key
          /\ <<l.key, l.val>>[2] = l.val
      BY <1>3, <2>1
    <2>. HIDE DEF s, ws
    <2>3. /\ ws \in Seq(Seq(Char)) /\ ws # <<>> /\ Len(ws) = 2
          /\ ws[1] = l.key /\ ws[2] = l.val
      BY <1>3, <2>2
    <2>. QED BY <1>3, <2>3 DEF Means
  <1>4. CASE Plain(l.key) /\ l.key # Nothing /\ BareLine(l)
    <2>1. PICK g, t : /\ Gap(g) /\ Rest(t) /\ Blank(t, 1) /\ Plain(l.val)
                      /\ s = Four(l.key, g, l.val, t) /\ l.val # Nothing /\ ~l.extra
      BY <1>4 DEF BareLine
    <2>2. s \in Seq(Char) /\ ws = <<l.key, l.val>>
      BY <1>4, <2>1, SplitBare
    <2>3. l.val \in Seq(Char)
      BY <2>1 DEF Plain
    <2>. QED BY <1>3, <1>4, <2>1, <2>2, <2>3
  <1>5. CASE Plain(l.key) /\ l.key # Nothing /\ QuotedLine(l)
    <2>1. PICK g, t : \E q \in Char :
                    /\ Gap(g) /\ t \in Seq(Char) /\ Blank(t, 1) /\ IsQuote(q)
                    /\ l.val \in Seq(Char) /\ (l.val # <<>> => l.val[Len(l.val)] # Backslash)
                    /\ s = Four(l.key, g \o <<q>>, Quoted(l.val) \o <<q>>, t)
                    /\ l.val # Nothing /\ ~l.extra
      BY <1>5 DEF QuotedLine
    <2>2. PICK q \in Char :
                    /\ Gap(g) /\ t \in Seq(Char) /\ Blank(t, 1) /\ IsQuote(q)
                    /\ l.val \in Seq(Char) /\ (l.val # <<>> => l.val[Len(l.val)] # Backslash)
                    /\ s = Four(l.key, g \o <<q>>, Quoted(l.val) \o <<q>>, t)
                    /\ l.val # Nothing /\ ~l.extra
      BY <2>1
    <2>3. s \in Seq(Char) /\ ws = <<l.key, l.val>>
      BY <1>5, <2>2, SplitQuoted
    <2>. QED BY <1>3, <1>5, <2>2, <2>3
  <1>6. CASE Plain(l.key) /\ l.key # Nothing /\ CrowdedLine(l)
    <2>1. PICK g, v, h, e, t :
                    /\ Gap(g) /\ Plain(v) /\ Gap(h) /\ Plain(e) /\ Rest(t)
                    /\ s = Four(l.key, g, v, Four(h, e, <<>>, t)) /\ l.extra
      BY <1>6 DEF CrowdedLine
    <2>2. s \in Seq(Char) /\ ws \in Seq(Seq(Char)) /\ Len(ws) > 2
      BY <1>6, <2>1, SplitExtra
    <2>. HIDE DEF s, ws
    <2>3. ws # <<>> /\ Len(ws) \in Nat
      BY <2>2
    <2>4. Means(l, ws)
      BY <2>1, <2>2, <2>3 DEF Means
    <2>. QED BY <2>2, <2>4 DEF s, ws
  <1>. QED BY <1>1, <1>2, <1>4, <1>5, <1>6 DEF WellWritten

(* Of any line that is written so, of any length that fits, sh_split makes *)
(* the words its author meant: the quotes and backslashes are gone and no  *)
(* other character is, and a comment is no word.                           *)
THEOREM WordsOfLines == LinesWritten => LinesMean
  BY WordsMeant DEF LinesWritten, LinesMean
-----------------------------------------------------------------------------
(* A number that is read begins with a digit; it is no marker.             *)
LEMMA ConvertSays ==
  ASSUME NEW kind, NEW w \in Seq(Char), w # Nothing
  PROVE  Convert(kind, w) # Nothing
  <1>1. Keep # Nothing /\ Bad # Nothing /\ <<"0">> # Nothing /\ <<"1">> # Nothing
    BY DEF Keep, Bad, Nothing
  <1>2. Scanned(w) # Nothing
    <2>. DEFINE i == WordStart(w, 1)
                N == {d \in DOMAIN w : w[d] \notin Digits}
                j == FirstIn(w, i, N)
    <2>1. i \in Nat /\ i >= 1
      BY FirstIs DEF WordStart
    <2>2. Scanned(w) = IF i > Len(w) THEN Keep ELSE IF i = j THEN Bad ELSE SubSeq(w, i, j - 1)
      BY DEF Scanned
    <2>. HIDE DEF i
    <2>3. j \in Nat /\ (j <= Len(w) => j >= i) /\ (j > Len(w) => j = Len(w) + 1)
          /\ \A k \in i..Len(w) : k \in N => j <= k
      BY <2>1, FirstIs
    <2>. HIDE DEF j
    <2>4. CASE i <= Len(w) /\ i # j
      <3>1. i \in 1..Len(w) /\ j > i /\ j - 1 <= Len(w)
        BY <2>1, <2>3, <2>4
      <3>2. w[i] \in Digits
        BY <2>3, <3>1
      <3>3. SubSeq(w, i, j - 1)[1] = w[i]
        BY <2>1, <2>3, <3>1
      <3>4. Nothing[1] \notin Digits
        BY DEF Nothing, Digits
      <3>5. SubSeq(w, i, j - 1) # Nothing
        <4>. SUFFICES ASSUME SubSeq(w, i, j - 1) = Nothing PROVE FALSE
          OBVIOUS
        <4>1. Nothing[1] = w[i]
          BY <3>3
        <4>. QED BY <3>2, <3>4, <4>1
      <3>6. Scanned(w) = SubSeq(w, i, j - 1)
        <4>1. ~(i > Len(w)) /\ i # j
          BY <2>1, <2>4
        <4>. QED BY <2>2, <4>1, Zenon
      <3>. QED BY <3>5, <3>6
    <2>. QED BY <1>1, <2>1, <2>2, <2>4
  <1>. QED BY <1>1, <1>2 DEF Convert

(* What the code makes of the words is what the line means.                *)
LEMMA LineSays ==
  ASSUME NEW l, NEW ws, Means(l, ws), ws # <<>>
  PROVE  /\ LineError(ws) = "NONE" <=> Meaning(l) # Bad
         /\ LineError(ws) = "NONE" => /\ ws[1] = l.key /\ l.key \in Key /\ Registered(l.key)
                                      /\ StoredBy(ws) = Meaning(l) /\ Meaning(l) # Nothing
  <1>1. /\ Len(ws) \in Nat /\ Len(ws) >= 1 /\ (l.extra <=> Len(ws) >= 3)
        /\ ws[1] \in Seq(Char)
    BY DEF Means
  <1>2. CASE Len(ws) >= 3
    BY <1>1, <1>2 DEF LineError, Meaning
  <1>3. CASE Len(ws) < 3
    <2>1. /\ ~l.extra /\ ws[1] = l.key /\ (Len(ws) = 1 <=> l.val = Nothing)
          /\ Len(ws) = 2 => ws[2] = l.val /\ ws[2] \in Seq(Char)
      BY <1>1, <1>3 DEF Means
    <2>2. CASE l.key \notin Key
      BY <1>1, <1>3, <2>1, <2>2 DEF LineError, Meaning
    <2>3. CASE l.key \in Key /\ ~Registered(l.key)
      BY <1>1, <1>3, <2>1, <2>3 DEF LineError, Meaning
    <2>4. CASE l.key \in Key /\ Registered(l.key) /\ Len(ws) = 1
      <3>1. <<"1">> # Bad /\ <<"1">> # Nothing
        BY DEF Bad, Nothing
      <3>. QED BY <1>1, <1>3, <2>1, <2>4, <3>1 DEF LineError, Meaning, StoredBy
    <2>5. CASE l.key \in Key /\ Registered(l.key) /\ Len(ws) # 1
      <3>1. Len(ws) = 2 /\ l.val # Nothing /\ ws[2] = l.val /\ l.val \in Seq(Char)
        <4>1. Len(ws) = 2
          <5>1. Len(ws) \in Nat /\ Len(ws) >= 1
            BY <1>1
          <5>2. Len(ws) < 3 /\ Len(ws) # 1
            BY <1>3, <2>5
          <5>3. \A n \in Nat : n >= 1 /\ n < 3 /\ n # 1 => n = 2
            OBVIOUS
          <5>. QED BY <5>1, <5>2, <5>3, Zenon
        <4>2. ws[2] \in Seq(Char) /\ ws[2] = l.val
          BY <2>1, <4>1
        <4>3. l.val # Nothing
          BY <2>1, <4>1
        <4>. QED BY <4>1, <4>2, <4>3
      <3>2. Convert(entry[l.key].kind, l.val) # Nothing
        BY <3>1, ConvertSays
      <3>. QED BY <1>1, <1>3, <2>1, <2>5, <3>1, <3>2 DEF LineError, Meaning, StoredBy
    <2>. QED BY <2>2, <2>3, <2>4, <2>5
  <1>. QED BY <1>1, <1>2, <1>3
-----------------------------------------------------------------------------
(* While a file is read: apart from `set' the entries are those of the     *)
(* call; an error stands for a mistake of the file or of an earlier one,   *)
(* and ends the loop; an option holds what the file last gave it or what   *)
(* it held, and counts as set when it was given, unless there is an error. *)
SameOption(e, f) == /\ e.kind = f.kind /\ e.required = f.required
                    /\ e.has_default = f.has_default /\ e.sdef = f.sdef

Held(k) == IF given[k] \in {Nothing, Keep} THEN was.target[Address(k)] ELSE Value(given[k], 0)

ReadSoFar ==
  /\ \A k \in Key : SameOption(entry[k], was.entry[k])
  /\ err = "NONE" <=> was.err = "NONE" /\ ~spoilt
  /\ pc = "reading" => ~spoilt
  /\ \A k \in Key : Registered(k) => target[Address(k)] = Held(k)
  /\ err = "NONE" => \A k \in Key : entry[k].set <=> was.entry[k].set \/ given[k] # Nothing

Control ==
  /\ DOMAIN given = Key
  /\ pc \in {"ready", "reading", "close", "parsed"}
  /\ rest # <<>> => pc \in {"reading", "close"} /\ cut

ParseInv ==
  /\ Ownership /\ Control
  /\ pc \in {"reading", "close"} /\ ~cut => ReadSoFar
  /\ Outcome /\ Verdict

LEMMA AcceptKeeps ==
  ASSUME Ownership, Control, ReadSoFar, pc = "reading",
         NEW l, NEW ws, Means(l, ws), ws # <<>>, LineError(ws) = "NONE",
         Accept(ws), Gives(l), UNCHANGED was, pc' = "reading" => err' = "NONE"
  PROVE  ReadSoFar' /\ DOMAIN given' = Key
  <1>. DEFINE k == l.key
              v == Meaning(l)
  <1>1. /\ ws[1] = k /\ k \in Key /\ Registered(k) /\ v # Bad /\ v # Nothing /\ StoredBy(ws) = v
        /\ ~(l.key = Nothing /\ ~l.extra)
    BY LineSays DEF Means
  <1>2. /\ target' = IF v = Keep THEN target ELSE [target EXCEPT ![Address(k)] = Value(v, 0)]
        /\ IF err = "NONE"
             THEN /\ entry' = [entry EXCEPT ![k].set = TRUE]
                  /\ err' = IF Refused(entry[k], target'[Address(k)].val) THEN "VALIDATE" ELSE "NONE"
             ELSE UNCHANGED <<entry, err>>
    BY <1>1 DEF Accept
  <1>3. /\ given' = IF v = Keep /\ given[k] # Nothing THEN given ELSE [given EXCEPT ![k] = v]
        /\ spoilt' = (was.err # "NONE" \/ Refused(entry[k], IF v = Keep THEN target[Address(k)].val ELSE v))
    BY <1>1 DEF Gives
  <1>4. /\ entry \in [Key -> EntryType] /\ DOMAIN target = Key \X Kinds /\ DOMAIN given = Key
        /\ ~spoilt
    BY DEF Ownership, TypeOK, Control, ReadSoFar
  <1>. HIDE DEF v, k
  <1>5. Address(k) \in Key \X Kinds
    BY <1>1, <1>4 DEF Address, Registered, EntryType
  <1>6. ASSUME NEW j \in Key
        PROVE  /\ SameOption(entry'[j], entry[j]) /\ Address(j)' = Address(j)
               /\ Registered(j)' = Registered(j)
               /\ entry'[j].set = (entry[j].set \/ (j = k /\ err = "NONE"))
    <2>1. entry'[j] = IF j = k /\ err = "NONE" THEN [entry[j] EXCEPT !.set = TRUE] ELSE entry[j]
      BY <1>1, <1>2, <1>4
    <2>2. entry[j] \in EntryType
      BY <1>4
    <2>3. /\ [entry[j] EXCEPT !.set = TRUE].kind = entry[j].kind
          /\ [entry[j] EXCEPT !.set = TRUE].required = entry[j].required
          /\ [entry[j] EXCEPT !.set = TRUE].has_default = entry[j].has_default
          /\ [entry[j] EXCEPT !.set = TRUE].sdef = entry[j].sdef
          /\ [entry[j] EXCEPT !.set = TRUE].set = TRUE
          /\ entry[j].set \in BOOLEAN
      BY <2>2 DEF EntryType
    <2>. QED BY <2>1, <2>3 DEF SameOption, Address, Registered
  <1>7. \A j \in Key : SameOption(entry'[j], was'.entry[j])
    BY <1>6 DEF ReadSoFar, SameOption
  <1>8. err' = "NONE" <=> was'.err = "NONE" /\ ~spoilt'
    <2>1. CASE err = "NONE"
      <3>1. target'[Address(k)].val = IF v = Keep THEN target[Address(k)].val ELSE v
        <4>1. Value(v, 0).val = v
          BY DEF Value
        <4>2. v # Keep => target'[Address(k)] = Value(v, 0)
          BY <1>2, <1>4, <1>5
        <4>. QED BY <1>2, <4>1, <4>2
      <3>2. was.err = "NONE"
        BY <2>1 DEF ReadSoFar
      <3>3. spoilt' <=> Refused(entry[k], target'[Address(k)].val)
        BY <1>3, <3>1, <3>2
      <3>4. err' = IF Refused(entry[k], target'[Address(k)].val) THEN "VALIDATE" ELSE "NONE"
        BY <1>2, <2>1
      <3>. QED BY <3>2, <3>3, <3>4
    <2>2. CASE err # "NONE"
      BY <1>2, <1>4, <2>2 DEF ReadSoFar
    <2>. QED BY <2>1, <2>2
  <1>9. \A j \in Key : given'[j] = IF j = k /\ ~(v = Keep /\ given[k] # Nothing) THEN v ELSE given[j]
    BY <1>1, <1>3, <1>4
  <1>10. ASSUME NEW j \in Key, Registered(j)' PROVE target'[Address(j)'] = Held(j)'
    <2>1. Address(j)' = Address(j) /\ Registered(j)
      BY <1>6, <1>10
    <2>2. target[Address(j)] = Held(j)
      BY <2>1 DEF ReadSoFar
    <2>3. Held(j)' = IF given'[j] \in {Nothing, Keep} THEN was.target[Address(j)] ELSE Value(given'[j], 0)
      BY <2>1 DEF Held, Value
    <2>4. CASE j # k
      <3>1. Address(j) # Address(k)
        BY <2>4 DEF Address
      <3>2. target'[Address(j)] = target[Address(j)]
        BY <1>2, <3>1
      <3>. QED BY <1>9, <2>1, <2>2, <2>3, <2>4, <3>2 DEF Held
    <2>5. CASE j = k /\ v = Keep
      <3>1. target' = target
        BY <1>2, <2>5
      <3>2. given'[j] \in {Nothing, Keep} <=> given[j] \in {Nothing, Keep}
        BY <1>1, <1>9, <2>5
      <3>3. given[j] \notin {Nothing, Keep} => given'[j] = given[j]
        BY <1>9, <2>5
      <3>. QED BY <2>1, <2>2, <2>3, <3>1, <3>2, <3>3 DEF Held
    <2>6. CASE j = k /\ v # Keep
      <3>1. target'[Address(j)] = Value(v, 0)
        BY <1>2, <1>4, <1>5, <2>6
      <3>2. given'[j] = v
        BY <1>9, <2>6
      <3>. QED BY <1>1, <2>1, <2>3, <2>6, <3>1, <3>2
    <2>. QED BY <2>4, <2>5, <2>6
  <1>11. ASSUME err' = "NONE", NEW j \in Key
         PROVE  entry'[j].set <=> was'.entry[j].set \/ given'[j] # Nothing
    <2>1. err = "NONE"
      BY <1>2, <1>11
    <2>2. entry[j].set <=> was.entry[j].set \/ given[j] # Nothing
      BY <2>1 DEF ReadSoFar
    <2>3. (given'[j] # Nothing) <=> (given[j] # Nothing \/ j = k)
      BY <1>1, <1>9
    <2>4. entry'[j].set = (entry[j].set \/ (j = k /\ err = "NONE"))
      BY <1>6
    <2>. QED BY <2>1, <2>2, <2>3, <2>4
  <1>12. pc' = "reading" => ~spoilt'
    BY <1>8
  <1>13. DOMAIN given' = Key
    BY <1>3, <1>4
  <1>. QED BY <1>7, <1>8, <1>10, <1>11, <1>12, <1>13 DEF ReadSoFar

(* What a line of the file leaves, whether it was a comment, a mistake or  *)
(* a value.                                                                *)
LEMMA WordsKeep ==
  ASSUME Ownership, Control, ReadSoFar, pc = "reading",
         NEW l, NEW ws, Means(l, ws), ParseLine(ws), Gives(l),
         UNCHANGED was, pc' = "reading" => err' = "NONE"
  PROVE  ReadSoFar'
  <1>1. ~spoilt /\ Bad # Nothing
    BY DEF ReadSoFar, Bad, Nothing
  <1>2. CASE ws = <<>>
    <2>1. UNCHANGED <<entry, target, err, given, was>> /\ spoilt' = (was.err # "NONE")
      <3>1. UNCHANGED <<entry, target, err>>
        BY <1>2 DEF ParseLine, Accept, LineError
      <3>. QED BY <1>2, <3>1 DEF Means, Gives
    <2>2. err' = "NONE" <=> was'.err = "NONE" /\ ~spoilt'
      BY <1>1, <2>1 DEF ReadSoFar
    <2>. QED BY <2>1, <2>2 DEF ReadSoFar, SameOption, Registered, Address, Held, Value
  <1>3. CASE ws # <<>> /\ LineError(ws) # "NONE"
    <2>1. err' # "NONE" /\ UNCHANGED <<entry, target>>
      BY <1>3 DEF ParseLine
    <2>2. Meaning(l) = Bad
      BY <1>3, LineSays
    <2>3. ~(l.key = Nothing /\ ~l.extra)
      BY <1>3 DEF Means
    <2>4. UNCHANGED given /\ spoilt' = TRUE
      BY <2>2, <2>3 DEF Gives
    <2>. QED BY <2>1, <2>4 DEF ReadSoFar, SameOption, Registered, Address, Held, Value
  <1>4. CASE ws # <<>> /\ LineError(ws) = "NONE"
    <2>1. Accept(ws)
      BY <1>4 DEF ParseLine
    <2>. QED BY <1>4, <2>1, AcceptKeeps
  <1>. QED BY <1>2, <1>3, <1>4

LEMMA ReadLineInv ==
  ASSUME LinesMean, ParseInv, NEW l \in Line, ReadLine(l)
  PROVE  ParseInv'
  <1>1. Ownership'
    BY StepKeeps DEF ParseInv, Next, Parse
  <1>2. /\ pc = "reading" /\ rest = <<>> /\ Chunk(l.text) /\ pc' \in {"reading", "close"}
        /\ cut' = (cut \/ rest' # <<>>) /\ UNCHANGED was
        /\ IF spoilt THEN UNCHANGED <<given, spoilt>> ELSE Gives(l)
    BY DEF ReadLine, Chunk
  <1>3. Outcome' /\ Verdict'
    BY <1>2 DEF Outcome, Verdict
  <1>4. DOMAIN given' = Key
    BY <1>2 DEF Gives, ParseInv, Control
  <1>5. Control'
    BY <1>2, <1>4 DEF Control
  <1>6. ASSUME ~cut' PROVE ReadSoFar'
    <2>1. ReadSoFar /\ ~spoilt /\ rest' = <<>>
      BY <1>2, <1>6 DEF ParseInv, ReadSoFar
    <2>2. /\ LineMax \in Nat /\ l.text \in Seq(Char)
          /\ Len(l.text) <= LineMax => Means(l, sh_split(l.text))
      BY LineAssumption DEF LinesMean
    <2>3. Upto(l.text) = Len(l.text) /\ Len(l.text) <= LineMax
      <3>1. rest' = SubSeq(l.text, Upto(l.text) + 1, Len(l.text))
        BY <1>2 DEF Chunk
      <3>2. Len(<<>>) = 0
        OBVIOUS
      <3>3. Len(SubSeq(l.text, Upto(l.text) + 1, Len(l.text))) = 0
        BY <2>1, <3>1, <3>2, Zenon
      <3>. QED BY <2>2, <3>3 DEF Upto
    <2>4. SubSeq(l.text, 1, Upto(l.text)) = l.text
      BY <2>2, <2>3
    <2>5. ParseLine(sh_split(l.text))
      <3>1. PICK ws \in {sh_split(SubSeq(l.text, 1, Upto(l.text)))} : ParseLine(ws)
        BY <1>2 DEF Chunk
      <3>2. ws = sh_split(l.text)
        BY <2>4, <3>1
      <3>. QED BY <3>1, <3>2
    <2>6. pc' = "reading" => err' = "NONE"
      BY <1>2 DEF Chunk, Stop
    <2>. QED BY <1>2, <2>1, <2>2, <2>3, <2>5, <2>6, WordsKeep DEF ParseInv
  <1>. QED BY <1>1, <1>2, <1>3, <1>5, <1>6 DEF ParseInv

(* Once a line was cut, nothing is promised of this parse.                 *)
LEMMA ReadRestInv == ParseInv /\ ReadRest => ParseInv'
  <1> SUFFICES ASSUME ParseInv, ReadRest PROVE ParseInv'
    OBVIOUS
  <1>1. Ownership'
    BY StepKeeps DEF ParseInv, Next, Parse
  <1>2. cut' /\ pc' \in {"reading", "close"} /\ UNCHANGED given
    BY DEF ReadRest, Chunk, ParseInv, Control
  <1>. QED BY <1>1, <1>2 DEF ParseInv, Control, Outcome, Verdict

LEMMA OpenInv == ParseInv /\ Open => ParseInv'
  <1> SUFFICES ASSUME ParseInv, Open PROVE ParseInv'
    OBVIOUS
  <1>1. Ownership'
    BY StepKeeps DEF ParseInv, Next, Parse
  <1>2. /\ pc' = "reading" /\ ~spoilt' /\ given' = [k \in Key |-> Nothing]
        /\ was' = [entry |-> entry, target |-> target, err |-> err]
        /\ UNCHANGED <<entry, target, err, rest>> /\ rest = <<>>
    BY DEF Open, ParseInv, Control
  <1>3. Control' /\ Outcome' /\ Verdict'
    BY <1>2 DEF Control, Outcome, Verdict
  <1>4. ReadSoFar'
    <2>1. /\ was'.entry = entry' /\ was'.target = target' /\ was'.err = err'
          /\ \A k \in Key : given'[k] = Nothing
      BY <1>2
    <2>. QED BY <1>2, <2>1 DEF ReadSoFar, SameOption, Held, Address, Registered
  <1>. QED BY <1>1, <1>3, <1>4 DEF ParseInv

(* The calls between two parses. *)
LEMMA IdleInv == ParseInv /\ (SetUp \/ Remake \/ OpenFails) => ParseInv'
  <1> SUFFICES ASSUME ParseInv, SetUp \/ Remake \/ OpenFails PROVE ParseInv'
    OBVIOUS
  <1>1. Ownership'
    BY StepKeeps DEF ParseInv, Next, Parse
  <1>2. pc \in {"ready", "parsed"} /\ pc' = "ready" /\ UNCHANGED <<rest, given>>
    BY DEF SetUp, AddEntry, Require, Default, Validate, Call, Remake, OpenFails, hist
  <1>. QED BY <1>1, <1>2 DEF ParseInv, Control, Outcome, Verdict
-----------------------------------------------------------------------------
(* The traversal meets every option. *)
LEMMA MissingIs == /\ Missing = {} <=> \A k \in Key : entry[k].required => entry[k].set
                   /\ Missing = {} => Reached = Key
  BY OrderAssumption DEF Missing, Reached

LEMMA DefaultStored ==
  ASSUME Ownership, ApplyDefaults, NEW k \in Key, Registered(k)
  PROVE  target'[Address(k)] = IF k \in Defaulting THEN DefaultOf(k).value
                                 ELSE target[Address(k)]
  <1>1. Address(k) \in DOMAIN target /\ Address(k)[1] = k
    BY DEF Ownership, TypeOK, EntryType, Address, Registered
  <1>. QED BY <1>1 DEF ApplyDefaults

LEMMA DefaultsOption ==
  ASSUME Ownership, ApplyDefaults, NEW k \in Key
  PROVE  entry'[k].kind = entry[k].kind
  BY DEF ApplyDefaults, Ownership, TypeOK, EntryType

(* The value that an option without a line is left with. *)
LEMMA LeftSays ==
  ASSUME Ownership, ReadSoFar, err = "NONE", ApplyDefaults, UNCHANGED hist,
         NEW k \in Key, Registered(k), given[k] \in {Nothing, Keep}
  PROVE  target'[Address(k)] \in LeftAs(k)'
  <1> DEFINE e == was.entry[k]
             before  == was.target[Address(k)]
             default == IF e.kind # "string" THEN Value(DefaultValue, 0)
                          ELSE IF e.sdef = 0 THEN Value(Null, 0) ELSE Value(DefaultValue, e.sdef)
             applies == e.has_default /\ ~e.set
  <1>1. /\ SameOption(entry[k], e) /\ was.err = "NONE" /\ ~spoilt
        /\ target[Address(k)] = before
        /\ entry[k].set <=> e.set \/ given[k] # Nothing
    BY DEF ReadSoFar, Held
  <1>2. LeftAs(k)' = IF ~applies \/ given[k] = Keep THEN {before}
                       ELSE IF err' = "NONE" THEN {default} ELSE {before, default}
    <2>1. Address(k)' = Address(k)
      BY DefaultsOption DEF Address
    <2>2. UNCHANGED <<was, given, spoilt>>
      BY DEF hist
    <2>. QED BY <1>1, <2>1, <2>2 DEF LeftAs, Value
  <1>3. DefaultOf(k).value = default
    BY <1>1 DEF DefaultOf, SameOption
  <1>4. k \in Defaulting <=> k \in Reached /\ applies /\ given[k] = Nothing
    BY <1>1 DEF Defaulting, SameOption
  <1>5. err' = "NONE" => k \in Reached
    BY MissingIs DEF ApplyDefaults
  <1>6. Keep # Nothing
    BY DEF Keep, Nothing
  <1>7. target'[Address(k)] = IF k \in Defaulting THEN default ELSE before
    BY <1>1, <1>3, DefaultStored
  <1> HIDE DEF default, before, applies
  <1>. QED BY <1>2, <1>4, <1>5, <1>6, <1>7

LEMMA FinishInv == ParseInv /\ Finish => ParseInv'
  <1> SUFFICES ASSUME ParseInv, Finish PROVE ParseInv'
    OBVIOUS
  <1>1. Ownership'
    BY StepKeeps DEF ParseInv, Next, Parse
  <1>2. /\ pc \in {"reading", "close"} /\ pc' = "parsed" /\ rest' = <<>>
        /\ UNCHANGED hist /\ UNCHANGED <<was, given, spoilt, cut>>
        /\ IF err = "NONE" THEN ApplyDefaults ELSE UNCHANGED <<entry, target, err>>
    BY DEF Finish, hist
  <1>3. Control'
    BY <1>2 DEF ParseInv, Control
  <1>4. ASSUME ~cut PROVE Outcome' /\ Verdict'
    <2>1. ReadSoFar /\ Ownership
      BY <1>2, <1>4 DEF ParseInv
    <2>2. CASE err # "NONE"
      <3>1. UNCHANGED <<entry, target, err, was, given, spoilt>>
        BY <1>2, <2>2
      <3>2. Verdict'
        BY <2>1, <2>2, <3>1 DEF Verdict, ReadSoFar
      <3>3. ASSUME NEW k \in Key, Registered(k)'
            PROVE  IF given'[k] \in {Nothing, Keep} THEN target'[Address(k)'] \in LeftAs(k)'
                     ELSE target'[Address(k)'] = Value(given'[k], 0)
        <4>1. Registered(k) /\ Address(k)' = Address(k) /\ target[Address(k)] = Held(k)
          BY <2>1, <3>1, <3>3 DEF Registered, Address, ReadSoFar
        <4>2. was.target[Address(k)] \in LeftAs(k)'
          BY <2>2, <3>1, <4>1 DEF LeftAs
        <4>. QED BY <3>1, <4>1, <4>2 DEF Held
      <3>4. Outcome'
        BY <3>3 DEF Outcome, Value
      <3>. QED BY <3>2, <3>4
    <2>3. CASE err = "NONE"
      <3>1. ApplyDefaults
        BY <1>2, <2>3
      <3>2. ASSUME NEW k \in Key, Registered(k)'
            PROVE  IF given'[k] \in {Nothing, Keep} THEN target'[Address(k)'] \in LeftAs(k)'
                     ELSE target'[Address(k)'] = Value(given'[k], 0)
        <4>1. Registered(k) /\ Address(k)' = Address(k)
          BY <2>1, <3>1, <3>2, DefaultsOption DEF Registered, Address
        <4>2. CASE given[k] \in {Nothing, Keep}
          BY <1>2, <2>1, <2>3, <3>1, <4>1, <4>2, LeftSays
        <4>3. CASE given[k] \notin {Nothing, Keep}
          <5>1. entry[k].set
            BY <2>1, <2>3, <4>3 DEF ReadSoFar
          <5>2. target'[Address(k)] = target[Address(k)]
            BY <2>1, <3>1, <4>1, <5>1, DefaultStored DEF Defaulting
          <5>3. target[Address(k)] = Value(given[k], 0)
            BY <2>1, <4>1, <4>3 DEF ReadSoFar, Held
          <5>. QED BY <1>2, <4>1, <4>3, <5>2, <5>3
        <4>. QED BY <4>2, <4>3
      <3>3. Outcome'
        BY <3>2 DEF Outcome, Value
      <3>4. err' = "NONE" <=> \A k \in Key : entry[k].required => entry[k].set
        BY <3>1, MissingIs DEF ApplyDefaults
      <3>5. \A k \in Key : /\ entry[k].required = was.entry[k].required
                           /\ entry[k].set <=> was.entry[k].set \/ given[k] # Nothing
        BY <2>1, <2>3 DEF ReadSoFar, SameOption
      <3>6. Verdict'
        BY <1>2, <2>1, <2>3, <3>4, <3>5 DEF Verdict, ReadSoFar
      <3>. QED BY <3>3, <3>6
    <2>. QED BY <2>2, <2>3
  <1>5. Outcome' /\ Verdict'
    BY <1>2, <1>4 DEF Outcome, Verdict
  <1>. QED BY <1>1, <1>2, <1>3, <1>5 DEF ParseInv
-----------------------------------------------------------------------------
LEMMA InitParse == Init => ParseInv
  BY InitOwnership DEF Init, ParseInv, Control, Outcome, Verdict

LEMMA StepParse == LinesMean /\ ParseInv /\ [Next]_vars => ParseInv'
  <1> SUFFICES ASSUME LinesMean, ParseInv, [Next]_vars PROVE ParseInv'
    OBVIOUS
  <1>1. CASE Next
    BY <1>1, ReadLineInv, ReadRestInv, OpenInv, IdleInv, FinishInv DEF Next, Parse
  <1>2. CASE UNCHANGED vars
    <2>1. UNCHANGED <<entry, target, err, blocks, freed, pc, rest, was, given, spoilt, cut>>
      BY <1>2 DEF vars, client, hist
    <2>2. Ownership'
      BY StepKeeps DEF ParseInv
    <2>3. Control'
      BY <2>1 DEF ParseInv, Control
    <2>4. \A k \in Key : /\ Address(k)' = Address(k) /\ Registered(k)' = Registered(k)
                         /\ Held(k)' = Held(k) /\ LeftAs(k)' = LeftAs(k)
      BY <2>1 DEF Address, Registered, Held, LeftAs, Value
    <2>5. (ReadSoFar' <=> ReadSoFar) /\ (Outcome' <=> Outcome) /\ (Verdict' <=> Verdict)
      BY <2>1, <2>4 DEF ReadSoFar, SameOption, Outcome, Verdict, Value
    <2>. QED BY <2>1, <2>2, <2>3, <2>5 DEF ParseInv
  <1>. QED BY <1>1, <1>2

(* What scfg_parse_line and scfg_apply_default leave of any file between   *)
(* two lines, by ParseInv.                                                 *)
THEOREM ParseInvariant == LinesMean => (Spec => []ParseInv)
  <1>. SUFFICES ASSUME LinesMean PROVE Spec => []ParseInv
    OBVIOUS
  <1>1. ParseInv /\ [Next]_vars => ParseInv'
    BY StepParse
  <1>. QED BY <1>1, InitParse, PTL DEF Spec

(* Whatever a well-written file says, scfg_parse leaves in each option the *)
(* last value given before the first mistake, or its default, or what it   *)
(* held.  A file with a line that fgets cuts is left out, as in Outcome.   *)
THEOREM OptionsHold == LinesWritten => (Spec => []Outcome)
  <1>. SUFFICES ASSUME LinesWritten PROVE Spec => []Outcome
    OBVIOUS
  <1>1. Spec => []ParseInv
    BY WordsOfLines, ParseInvariant
  <1>2. ParseInv => Outcome
    BY DEF ParseInv
  <1>. QED BY <1>1, <1>2, PTL

(* And it reports success exactly if no line was a mistake, every required *)
(* option was given and no earlier parse had failed.                       *)
THEOREM SuccessMeans == LinesWritten => (Spec => []Verdict)
  <1>. SUFFICES ASSUME LinesWritten PROVE Spec => []Verdict
    OBVIOUS
  <1>1. Spec => []ParseInv
    BY WordsOfLines, ParseInvariant
  <1>2. ParseInv => Verdict
    BY DEF ParseInv
  <1>. QED BY <1>1, <1>2, PTL
=============================================================================
