---------------------------- MODULE RBTreeProofs ----------------------------
(***************************************************************************)
(* The red-black tree of tree.h, for any number of keys: what the steps on *)
(* nodes do, and that _insert keeps the tree and puts the value at its key *)
(*                                                                         *)
(* A tree is described by functions besides it: each node x stands for the *)
(* open interval of keys from lo[x] to hi[x] and has a black height bh[x]. *)
(* What is true all over a tree is then said node by node, also while an   *)
(* operation is under way, and the loops end because the interval on the   *)
(* way down narrows.                                                       *)
(***************************************************************************)
EXTENDS RBTree, FiniteSetTheorems, TLAPS

-----------------------------------------------------------------------------
(***************************************************************************)
(* What the primitive steps do, field by field.                            *)
(***************************************************************************)
KeyOf(t, x)    == t.n[x].key
ValOf(t, x)    == t.n[x].val
ParentOf(t, x) == t.n[x].parent
RedOf(t, x)    == t.n[x].red
Side == {0, 1}

Field(V) == [red : BOOLEAN, ch : [1..2 -> Int], parent : Int, key : Int, val : V]
Typed(t, V) ==
  /\ t \in [n : [DOMAIN t.n -> Field(V)], root : Int, beg : Int, len : Int]
  /\ DOMAIN t.n \subseteq Key \cup {FalseRoot}

(* u has the nodes of t with their keys and values *)
Alike(t, u) ==
  /\ DOMAIN u.n = DOMAIN t.n
  /\ u.root = t.root /\ u.beg = t.beg /\ u.len = t.len
  /\ \A x \in DOMAIN t.n : KeyOf(u, x) = KeyOf(t, x) /\ ValOf(u, x) = ValOf(t, x)

(* There are finitely many keys. *)
LEMMA KeyFinite == IsFiniteSet(Key)
  BY KeyAssumption, FS_Interval DEF Key

(* The nodes of a tree are not NULL, and the helper is not a key. *)
LEMMA Names == ASSUME NEW V, NEW t, Typed(t, V)
               PROVE  /\ NULL \notin DOMAIN t.n /\ DOMAIN t.n \subseteq Int
                      /\ Key \subseteq Int /\ FalseRoot \notin Key /\ NULL \notin Key
                      /\ \A k \in Key : k >= 1 /\ k <= NKey
  BY KeyAssumption DEF Typed, NULL, FalseRoot, Key

(* a field of a node assigned *)
LEMMA ChAssigned ==
  ASSUME NEW V, NEW r \in Field(V), NEW i \in 1..2, NEW q \in Int
  PROVE  /\ [r EXCEPT !.ch[i] = q] \in Field(V)
         /\ [r EXCEPT !.ch[i] = q].red = r.red /\ [r EXCEPT !.ch[i] = q].parent = r.parent
         /\ [r EXCEPT !.ch[i] = q].key = r.key /\ [r EXCEPT !.ch[i] = q].val = r.val
         /\ \A j \in 1..2 : [r EXCEPT !.ch[i] = q].ch[j] = IF j = i THEN q ELSE r.ch[j]
  BY DEF Field

(* Assigning the parent of a node leaves its other fields. *)
LEMMA ParentAssigned ==
  ASSUME NEW V, NEW r \in Field(V), NEW q \in Int
  PROVE  /\ [r EXCEPT !.parent = q] \in Field(V)
         /\ [r EXCEPT !.parent = q].red = r.red /\ [r EXCEPT !.parent = q].parent = q
         /\ [r EXCEPT !.parent = q].key = r.key /\ [r EXCEPT !.parent = q].val = r.val
         /\ [r EXCEPT !.parent = q].ch = r.ch
  BY DEF Field

(* Assigning the colour of a node leaves its other fields. *)
LEMMA RedAssigned ==
  ASSUME NEW V, NEW r \in Field(V), NEW b \in BOOLEAN
  PROVE  /\ [r EXCEPT !.red = b] \in Field(V)
         /\ [r EXCEPT !.red = b].red = b /\ [r EXCEPT !.red = b].parent = r.parent
         /\ [r EXCEPT !.red = b].key = r.key /\ [r EXCEPT !.red = b].val = r.val
         /\ [r EXCEPT !.red = b].ch = r.ch
  BY DEF Field

(* a node of a tree replaced *)
LEMMA NodeReplaced ==
  ASSUME NEW V, NEW t, Typed(t, V), NEW p \in DOMAIN t.n, NEW r \in Field(V),
         NEW u, u = [t EXCEPT !.n[p] = r]
  PROVE  /\ Typed(u, V) /\ DOMAIN u.n = DOMAIN t.n
         /\ u.root = t.root /\ u.beg = t.beg /\ u.len = t.len
         /\ u.n[p] = r /\ \A x \in DOMAIN t.n \ {p} : u.n[x] = t.n[x]
  BY DEF Typed

(* The types of the fields of a node. *)
LEMMA Fields == ASSUME NEW V, NEW t, Typed(t, V), NEW x \in DOMAIN t.n
                PROVE  /\ t.n[x] \in Field(V)
                       /\ RedOf(t, x) \in BOOLEAN /\ ParentOf(t, x) \in Int
                       /\ KeyOf(t, x) \in Int /\ ValOf(t, x) \in V
                       /\ \A d \in Side : Child(t, x, d) \in Int
  BY DEF Typed, Field, RedOf, ParentOf, KeyOf, ValOf, Child, Side

(* SetChild assigns one link. *)
LEMMA SetChildIs ==
  ASSUME NEW V, NEW t, Typed(t, V), NEW p \in DOMAIN t.n, NEW d \in Side, NEW q \in Int,
         NEW u, u = SetChild(t, p, d, q)
  PROVE  /\ Typed(u, V) /\ Alike(t, u)
         /\ \A x \in DOMAIN t.n :
              /\ RedOf(u, x) = RedOf(t, x) /\ ParentOf(u, x) = ParentOf(t, x)
              /\ \A e \in Side : Child(u, x, e) = IF x = p /\ e = d THEN q ELSE Child(t, x, e)
  <1>. DEFINE r == [t.n[p] EXCEPT !.ch[d + 1] = q]
  <1>1. u = [t EXCEPT !.n[p] = r]
    BY DEF SetChild
  <1>2. t.n[p] \in Field(V) /\ d + 1 \in 1..2
    BY Fields DEF Side
  <1>3. /\ r \in Field(V) /\ r.red = t.n[p].red /\ r.parent = t.n[p].parent
        /\ r.key = t.n[p].key /\ r.val = t.n[p].val
        /\ \A j \in 1..2 : r.ch[j] = IF j = d + 1 THEN q ELSE t.n[p].ch[j]
    BY <1>2, ChAssigned
  <1>. HIDE DEF r
  <1>4. /\ Typed(u, V) /\ DOMAIN u.n = DOMAIN t.n
        /\ u.root = t.root /\ u.beg = t.beg /\ u.len = t.len
        /\ u.n[p] = r /\ \A x \in DOMAIN t.n \ {p} : u.n[x] = t.n[x]
    BY <1>1, <1>3, NodeReplaced
  <1>5. Alike(t, u)
    BY <1>3, <1>4 DEF Alike, KeyOf, ValOf
  <1>6. ASSUME NEW x \in DOMAIN t.n
        PROVE  /\ RedOf(u, x) = RedOf(t, x) /\ ParentOf(u, x) = ParentOf(t, x)
               /\ \A e \in Side : Child(u, x, e) = IF x = p /\ e = d THEN q ELSE Child(t, x, e)
    <2>1. CASE x = p
      BY <1>3, <1>4, <2>1 DEF RedOf, ParentOf, Child, Side
    <2>2. CASE x # p
      BY <1>4, <2>2 DEF RedOf, ParentOf, Child
    <2>. QED BY <2>1, <2>2
  <1>. QED BY <1>4, <1>5, <1>6

(* SetParent assigns one parent, and nothing for NULL. *)
LEMMA SetParentIs ==
  ASSUME NEW V, NEW t, Typed(t, V), NEW q \in Links(t), NEW p \in Int,
         NEW u, u = SetParent(t, q, p)
  PROVE  /\ Typed(u, V) /\ Alike(t, u)
         /\ \A x \in DOMAIN t.n :
              /\ RedOf(u, x) = RedOf(t, x) /\ ParentOf(u, x) = IF x = q THEN p ELSE ParentOf(t, x)
              /\ \A e \in Side : Child(u, x, e) = Child(t, x, e)
  <1>1. CASE q = NULL
    BY <1>1, Names DEF SetParent, Alike
  <1>2. CASE q # NULL
    <2>. DEFINE r == [t.n[q] EXCEPT !.parent = p]
    <2>1. u = [t EXCEPT !.n[q] = r] /\ q \in DOMAIN t.n
      BY <1>2 DEF SetParent, Links
    <2>2. t.n[q] \in Field(V)
      BY <2>1, Fields
    <2>3. /\ r \in Field(V) /\ r.red = t.n[q].red /\ r.parent = p
          /\ r.key = t.n[q].key /\ r.val = t.n[q].val /\ r.ch = t.n[q].ch
      BY <2>2, ParentAssigned
    <2>. HIDE DEF r
    <2>4. /\ Typed(u, V) /\ DOMAIN u.n = DOMAIN t.n
          /\ u.root = t.root /\ u.beg = t.beg /\ u.len = t.len
          /\ u.n[q] = r /\ \A x \in DOMAIN t.n \ {q} : u.n[x] = t.n[x]
      BY <2>1, <2>3, NodeReplaced
    <2>5. Alike(t, u)
      BY <2>3, <2>4 DEF Alike, KeyOf, ValOf
    <2>6. ASSUME NEW x \in DOMAIN t.n
          PROVE  /\ RedOf(u, x) = RedOf(t, x) /\ ParentOf(u, x) = IF x = q THEN p ELSE ParentOf(t, x)
                 /\ \A e \in Side : Child(u, x, e) = Child(t, x, e)
      BY <2>3, <2>4 DEF RedOf, ParentOf, Child
    <2>. QED BY <2>4, <2>5, <2>6
  <1>. QED BY <1>1, <1>2

(* Link hangs q as child d of p, in both directions. *)
LEMMA LinkIs ==
  ASSUME NEW V, NEW t, Typed(t, V), NEW p \in DOMAIN t.n, NEW d \in Side, NEW q \in Links(t),
         NEW u, u = Link(t, p, d, q)
  PROVE  /\ Typed(u, V) /\ Alike(t, u)
         /\ \A x \in DOMAIN t.n :
              /\ RedOf(u, x) = RedOf(t, x) /\ ParentOf(u, x) = IF x = q THEN p ELSE ParentOf(t, x)
              /\ \A e \in Side : Child(u, x, e) = IF x = p /\ e = d THEN q ELSE Child(t, x, e)
  <1>. DEFINE s == SetChild(t, p, d, q)
  <1>1. q \in Int /\ p \in Int
    BY Names DEF Links, NULL
  <1>2. /\ Typed(s, V) /\ Alike(t, s)
        /\ \A x \in DOMAIN t.n :
             /\ RedOf(s, x) = RedOf(t, x) /\ ParentOf(s, x) = ParentOf(t, x)
             /\ \A e \in Side : Child(s, x, e) = IF x = p /\ e = d THEN q ELSE Child(t, x, e)
    BY <1>1, SetChildIs
  <1>3. u = SetParent(s, q, p)
    BY DEF Link
  <1>. HIDE DEF s
  <1>4. q \in Links(s) /\ DOMAIN s.n = DOMAIN t.n
    BY <1>2 DEF Links, Alike
  <1>5. /\ Typed(u, V) /\ Alike(s, u)
        /\ \A x \in DOMAIN s.n :
              /\ RedOf(u, x) = RedOf(s, x) /\ ParentOf(u, x) = IF x = q THEN p ELSE ParentOf(s, x)
              /\ \A e \in Side : Child(u, x, e) = Child(s, x, e)
    BY <1>1, <1>2, <1>3, <1>4, SetParentIs
  <1>6. Alike(t, u)
    BY <1>2, <1>5 DEF Alike
  <1>. QED BY <1>2, <1>4, <1>5, <1>6

(* Paint assigns colours only. *)
LEMMA PaintIs ==
  ASSUME NEW V, NEW t, Typed(t, V), NEW reds, NEW blacks, NEW u, u = Paint(t, reds, blacks)
  PROVE  /\ Typed(u, V) /\ Alike(t, u)
         /\ \A x \in DOMAIN t.n :
              /\ RedOf(u, x) = ((RedOf(t, x) \/ x \in reds) /\ x \notin blacks)
              /\ ParentOf(u, x) = ParentOf(t, x)
              /\ \A e \in Side : Child(u, x, e) = Child(t, x, e)
  <1>. DEFINE b(x) == (RedOf(t, x) \/ x \in reds) /\ x \notin blacks
              r(x) == [t.n[x] EXCEPT !.red = b(x)]
  <1>1. /\ DOMAIN u.n = DOMAIN t.n /\ u.root = t.root /\ u.beg = t.beg /\ u.len = t.len
        /\ u = [t EXCEPT !.n = [x \in DOMAIN t.n |-> r(x)]]
        /\ \A x \in DOMAIN t.n : u.n[x] = r(x)
    BY DEF Paint, Typed, RedOf
  <1>2. ASSUME NEW x \in DOMAIN t.n
        PROVE  /\ r(x) \in Field(V) /\ r(x).red = b(x) /\ r(x).parent = t.n[x].parent
               /\ r(x).key = t.n[x].key /\ r(x).val = t.n[x].val /\ r(x).ch = t.n[x].ch
    <2>1. t.n[x] \in Field(V) /\ b(x) \in BOOLEAN
      BY Fields
    <2>. HIDE DEF b
    <2>. QED BY <2>1, RedAssigned
  <1>. HIDE DEF r, b
  <1>3. Typed(u, V)
    <2>1. u.n \in [DOMAIN t.n -> Field(V)]
      BY <1>1, <1>2 DEF Typed
    <2>2. u \in [n : [DOMAIN t.n -> Field(V)], root : Int, beg : Int, len : Int]
      BY <1>1, <2>1 DEF Typed
    <2>. QED BY <2>2, <1>1 DEF Typed
  <1>4. Alike(t, u)
    BY <1>1, <1>2 DEF Alike, KeyOf, ValOf
  <1>. QED BY <1>1, <1>2, <1>3, <1>4 DEF RedOf, ParentOf, Child, b

Rotated(t, u, p, d, node, r, c, dir) ==
  /\ Alike(t, u)
  /\ \A x \in DOMAIN t.n :
       /\ RedOf(u, x) = IF x = node THEN TRUE ELSE IF x = r THEN FALSE ELSE RedOf(t, x)
       /\ ParentOf(u, x) = IF x = r THEN p ELSE IF x = node THEN r
                           ELSE IF x = c THEN node ELSE ParentOf(t, x)
       /\ \A e \in Side : Child(u, x, e) =
            IF x = p /\ e = d THEN r ELSE IF x = node /\ e = 1 - dir THEN c
            ELSE IF x = r /\ e = dir THEN node ELSE Child(t, x, e)

(* A rotation at child d of p: r comes up, node goes down, c changes sides. *)
LEMMA RotateIs ==
  ASSUME NEW V, NEW t, Typed(t, V), NEW p \in DOMAIN t.n, NEW d \in Side, NEW dir \in Side,
         NEW node \in DOMAIN t.n, NEW r \in DOMAIN t.n, NEW c \in Links(t),
         r = Child(t, node, 1 - dir), c = Child(t, r, dir),
         p # node, p # r, node # r, c # p, c # node, c # r,
         NEW u, u = Rotate(t, p, d, node, dir)
  PROVE  Typed(u, V) /\ Rotated(t, u, p, d, node, r, c, dir)
  <1>. DEFINE t1 == Link(t, node, 1 - dir, c)
              t2 == Link(t1, r, dir, node)
              t3 == Paint(t2, {node}, {r})
  <1>1. u = Link(t3, p, d, r)
    BY DEF Rotate, Turned
  <1>2. 1 - dir \in Side
    BY DEF Side
  <1>3. /\ Typed(t1, V) /\ Alike(t, t1)
        /\ \A x \in DOMAIN t.n :
             /\ RedOf(t1, x) = RedOf(t, x) /\ ParentOf(t1, x) = IF x = c THEN node ELSE ParentOf(t, x)
             /\ \A e \in Side : Child(t1, x, e) = IF x = node /\ e = 1 - dir THEN c ELSE Child(t, x, e)
    BY <1>2, LinkIs
  <1>4. DOMAIN t1.n = DOMAIN t.n /\ Links(t1) = Links(t)
    BY <1>3 DEF Alike, Links
  <1>. HIDE DEF t1
  <1>5. /\ Typed(t2, V) /\ Alike(t1, t2)
        /\ \A x \in DOMAIN t.n :
             /\ RedOf(t2, x) = RedOf(t1, x) /\ ParentOf(t2, x) = IF x = node THEN r ELSE ParentOf(t1, x)
             /\ \A e \in Side : Child(t2, x, e) = IF x = r /\ e = dir THEN node ELSE Child(t1, x, e)
    <2>1. node \in Links(t1)
      BY <1>4 DEF Links
    <2>. QED BY <1>3, <1>4, <2>1, LinkIs
  <1>6. DOMAIN t2.n = DOMAIN t.n
    BY <1>4, <1>5 DEF Alike
  <1>. HIDE DEF t2
  <1>7. /\ Typed(t3, V) /\ Alike(t2, t3)
        /\ \A x \in DOMAIN t.n :
             /\ RedOf(t3, x) = ((RedOf(t2, x) \/ x \in {node}) /\ x \notin {r})
             /\ ParentOf(t3, x) = ParentOf(t2, x)
             /\ \A e \in Side : Child(t3, x, e) = Child(t2, x, e)
    BY <1>5, <1>6, PaintIs
  <1>8. DOMAIN t3.n = DOMAIN t.n
    BY <1>6, <1>7 DEF Alike
  <1>. HIDE DEF t3
  <1>9. /\ Typed(u, V) /\ Alike(t3, u)
        /\ \A x \in DOMAIN t.n :
             /\ RedOf(u, x) = RedOf(t3, x) /\ ParentOf(u, x) = IF x = r THEN p ELSE ParentOf(t3, x)
             /\ \A e \in Side : Child(u, x, e) = IF x = p /\ e = d THEN r ELSE Child(t3, x, e)
    <2>1. r \in Links(t3)
      BY <1>8 DEF Links
    <2>. QED BY <1>1, <1>7, <1>8, <2>1, LinkIs
  <1>10. Alike(t, u)
    BY <1>3, <1>5, <1>7, <1>9 DEF Alike
  <1>11. \A x \in DOMAIN t.n : RedOf(t, x) \in BOOLEAN
    BY Fields
  <1>12. ASSUME NEW x \in DOMAIN t.n
         PROVE  RedOf(u, x) = IF x = node THEN TRUE ELSE IF x = r THEN FALSE ELSE RedOf(t, x)
    BY ZenonT(60), <1>3, <1>5, <1>7, <1>9, <1>11
  <1>13. ASSUME NEW x \in DOMAIN t.n
         PROVE  ParentOf(u, x) = IF x = r THEN p ELSE IF x = node THEN r
                                 ELSE IF x = c THEN node ELSE ParentOf(t, x)
    BY <1>3, <1>5, <1>7, <1>9
  <1>14. ASSUME NEW x \in DOMAIN t.n, NEW e \in Side
         PROVE  Child(u, x, e) =
                   IF x = p /\ e = d THEN r ELSE IF x = node /\ e = 1 - dir THEN c
                   ELSE IF x = r /\ e = dir THEN node ELSE Child(t, x, e)
    BY <1>3, <1>5, <1>7, <1>9
  <1>. QED BY <1>9, <1>10, <1>12, <1>13, <1>14 DEF Rotated

(* a node added *)
LEMMA AllocateIs ==
  ASSUME NEW V, NEW t, Typed(t, V), NEW x \in Key \cup {FalseRoot}, x \notin DOMAIN t.n,
         NEW k \in Int, NEW v \in V, NEW u, u = Allocate(t, x, k, v)
  PROVE  /\ Typed(u, V) /\ DOMAIN u.n = DOMAIN t.n \cup {x}
         /\ u.root = t.root /\ u.beg = t.beg /\ u.len = t.len
         /\ \A y \in DOMAIN t.n :
              /\ KeyOf(u, y) = KeyOf(t, y) /\ ValOf(u, y) = ValOf(t, y)
              /\ RedOf(u, y) = RedOf(t, y) /\ ParentOf(u, y) = ParentOf(t, y)
              /\ \A e \in Side : Child(u, y, e) = Child(t, y, e)
         /\ KeyOf(u, x) = k /\ ValOf(u, x) = v /\ RedOf(u, x) /\ ParentOf(u, x) = NULL
         /\ \A e \in Side : Child(u, x, e) = NULL
  <1>. DEFINE f == [y \in DOMAIN t.n \cup {x} |-> IF y = x THEN Make(k, v) ELSE t.n[y]]
  <1>1. Make(k, v) \in Field(V)
    BY DEF Make, Field, NULL
  <1>2. /\ u = [t EXCEPT !.n = f] /\ DOMAIN f = DOMAIN t.n \cup {x}
        /\ f[x] = Make(k, v) /\ \A y \in DOMAIN t.n : f[y] = t.n[y]
    BY DEF Allocate
  <1>3. \A y \in DOMAIN f : f[y] \in Field(V)
    BY <1>1, <1>2, Fields
  <1>4. f \in [DOMAIN f -> Field(V)]
    BY <1>3
  <1>. HIDE DEF f
  <1>5. u.n = f /\ u.root = t.root /\ u.beg = t.beg /\ u.len = t.len
    BY <1>2 DEF Typed
  <1>6. u \in [n : [DOMAIN u.n -> Field(V)], root : Int, beg : Int, len : Int]
    BY <1>2, <1>4, <1>5 DEF Typed
  <1>7. DOMAIN u.n \subseteq Key \cup {FalseRoot}
    BY <1>2, <1>5 DEF Typed
  <1>8. \A y \in DOMAIN t.n :
              /\ KeyOf(u, y) = KeyOf(t, y) /\ ValOf(u, y) = ValOf(t, y)
              /\ RedOf(u, y) = RedOf(t, y) /\ ParentOf(u, y) = ParentOf(t, y)
              /\ \A e \in Side : Child(u, y, e) = Child(t, y, e)
    BY <1>2, <1>5 DEF KeyOf, ValOf, RedOf, ParentOf, Child
  <1>9. /\ KeyOf(u, x) = k /\ ValOf(u, x) = v /\ RedOf(u, x) /\ ParentOf(u, x) = NULL
        /\ \A e \in Side : Child(u, x, e) = NULL
    BY <1>2, <1>5 DEF KeyOf, ValOf, RedOf, ParentOf, Child, Make, Side
  <1>. QED BY <1>2, <1>5, <1>6, <1>7, <1>8, <1>9 DEF Typed

(* nodes freed *)
LEMMA DropIs ==
  ASSUME NEW V, NEW t, Typed(t, V), NEW X, NEW u, u = Drop(t, X)
  PROVE  /\ Typed(u, V) /\ DOMAIN u.n = DOMAIN t.n \ X
         /\ u.root = t.root /\ u.beg = t.beg /\ u.len = t.len
         /\ \A y \in DOMAIN t.n \ X :
              /\ KeyOf(u, y) = KeyOf(t, y) /\ ValOf(u, y) = ValOf(t, y)
              /\ RedOf(u, y) = RedOf(t, y) /\ ParentOf(u, y) = ParentOf(t, y)
              /\ \A e \in Side : Child(u, y, e) = Child(t, y, e)
  <1>. DEFINE f == [x \in DOMAIN t.n \ X |-> t.n[x]]
  <1>1. u = [t EXCEPT !.n = f] /\ DOMAIN f = DOMAIN t.n \ X /\ \A y \in DOMAIN f : f[y] = t.n[y]
    BY DEF Drop
  <1>2. f \in [DOMAIN f -> Field(V)]
    BY Fields
  <1>. HIDE DEF f
  <1>3. u.n = f /\ u.root = t.root /\ u.beg = t.beg /\ u.len = t.len
    BY <1>1 DEF Typed
  <1>4. u \in [n : [DOMAIN u.n -> Field(V)], root : Int, beg : Int, len : Int]
    BY <1>1, <1>2, <1>3 DEF Typed
  <1>. QED BY <1>1, <1>3, <1>4 DEF Typed, KeyOf, ValOf, RedOf, ParentOf, Child

(* The tree with the false root above its root. *)
LEMMA WithHeadIs ==
  ASSUME NEW V, NULL \in V, NEW t, Typed(t, V), FalseRoot \notin DOMAIN t.n, NEW u, u = WithHead(t)
  PROVE  /\ Typed(u, V) /\ DOMAIN u.n = DOMAIN t.n \cup {FalseRoot}
         /\ u.root = t.root /\ u.beg = t.beg /\ u.len = t.len
         /\ \A y \in DOMAIN t.n :
              /\ KeyOf(u, y) = KeyOf(t, y) /\ ValOf(u, y) = ValOf(t, y)
              /\ RedOf(u, y) = RedOf(t, y) /\ ParentOf(u, y) = ParentOf(t, y)
              /\ \A e \in Side : Child(u, y, e) = Child(t, y, e)
         /\ KeyOf(u, FalseRoot) = 0
         /\ Child(u, FalseRoot, 0) = NULL /\ Child(u, FalseRoot, 1) = t.root
  <1>. DEFINE s == Allocate(t, FalseRoot, NULL, NULL)
  <1>1. NULL \in Int /\ FalseRoot \in Key \cup {FalseRoot} /\ 1 \in Side /\ 0 \in Side
    BY DEF NULL, Side
  <1>2. /\ Typed(s, V) /\ DOMAIN s.n = DOMAIN t.n \cup {FalseRoot}
        /\ s.root = t.root /\ s.beg = t.beg /\ s.len = t.len
        /\ \A y \in DOMAIN t.n :
              /\ KeyOf(s, y) = KeyOf(t, y) /\ ValOf(s, y) = ValOf(t, y)
              /\ RedOf(s, y) = RedOf(t, y) /\ ParentOf(s, y) = ParentOf(t, y)
              /\ \A e \in Side : Child(s, y, e) = Child(t, y, e)
        /\ KeyOf(s, FalseRoot) = NULL
        /\ \A e \in Side : Child(s, FalseRoot, e) = NULL
    BY <1>1, AllocateIs
  <1>3. u = SetChild(s, FalseRoot, 1, t.root) /\ t.root \in Int
    BY DEF WithHead, Typed
  <1>. HIDE DEF s
  <1>4. /\ Typed(u, V) /\ Alike(s, u)
        /\ \A x \in DOMAIN s.n :
              /\ RedOf(u, x) = RedOf(s, x) /\ ParentOf(u, x) = ParentOf(s, x)
              /\ \A e \in Side : Child(u, x, e) = IF x = FalseRoot /\ e = 1 THEN t.root ELSE Child(s, x, e)
    BY <1>1, <1>2, <1>3, SetChildIs
  <1>. QED BY <1>1, <1>2, <1>4 DEF Alike, NULL, Side

(* The tree after the false root has gone: the root is what hung on the    *)
(* right of it, black and without a parent.                                *)
LEMMA NewRootIs ==
  ASSUME NEW V, NEW t, Typed(t, V), FalseRoot \in DOMAIN t.n, NEW r \in Links(t),
         r = Child(t, FalseRoot, 1), NEW u, u = NewRoot(t)
  PROVE  /\ Typed(u, V) /\ DOMAIN u.n = DOMAIN t.n \ {FalseRoot}
         /\ u.root = r /\ u.beg = t.beg /\ u.len = t.len
         /\ \A y \in DOMAIN u.n :
              /\ KeyOf(u, y) = KeyOf(t, y) /\ ValOf(u, y) = ValOf(t, y)
              /\ RedOf(u, y) <=> RedOf(t, y) /\ y # r
              /\ ParentOf(u, y) = IF y = r THEN NULL ELSE ParentOf(t, y)
              /\ \A e \in Side : Child(u, y, e) = Child(t, y, e)
  <1>. DEFINE t0 == [t EXCEPT !.root = r]
              t1 == SetParent(t0, r, NULL)
              t2 == Paint(t1, {}, {r})
  <1>1. u = Drop(t2, {FalseRoot})
    BY DEF NewRoot
  <1>2. r \in Int /\ NULL \in Int
    BY Names DEF Links, NULL
  <1>3. /\ Typed(t0, V) /\ t0.n = t.n /\ t0.root = r /\ t0.beg = t.beg /\ t0.len = t.len
    BY <1>2 DEF Typed
  <1>4. r \in Links(t0)
    BY <1>3 DEF Links
  <1>5. \A x : KeyOf(t0, x) = KeyOf(t, x) /\ ValOf(t0, x) = ValOf(t, x) /\ RedOf(t0, x) = RedOf(t, x)
               /\ ParentOf(t0, x) = ParentOf(t, x) /\ \A e : Child(t0, x, e) = Child(t, x, e)
    BY <1>3 DEF KeyOf, ValOf, RedOf, ParentOf, Child
  <1>. HIDE DEF t0
  <1>6. /\ Typed(t1, V) /\ Alike(t0, t1)
        /\ \A x \in DOMAIN t0.n :
              /\ RedOf(t1, x) = RedOf(t0, x) /\ ParentOf(t1, x) = IF x = r THEN NULL ELSE ParentOf(t0, x)
              /\ \A e \in Side : Child(t1, x, e) = Child(t0, x, e)
    BY <1>2, <1>3, <1>4, SetParentIs
  <1>. HIDE DEF t1
  <1>7. /\ Typed(t2, V) /\ Alike(t1, t2)
        /\ \A x \in DOMAIN t1.n :
              /\ RedOf(t2, x) = ((RedOf(t1, x) \/ x \in {}) /\ x \notin {r})
              /\ ParentOf(t2, x) = ParentOf(t1, x)
              /\ \A e \in Side : Child(t2, x, e) = Child(t1, x, e)
    BY <1>6, PaintIs
  <1>. HIDE DEF t2
  <1>8. /\ Typed(u, V) /\ DOMAIN u.n = DOMAIN t2.n \ {FalseRoot}
         /\ u.root = t2.root /\ u.beg = t2.beg /\ u.len = t2.len
         /\ \A y \in DOMAIN t2.n \ {FalseRoot} :
              /\ KeyOf(u, y) = KeyOf(t2, y) /\ ValOf(u, y) = ValOf(t2, y)
              /\ RedOf(u, y) = RedOf(t2, y) /\ ParentOf(u, y) = ParentOf(t2, y)
              /\ \A e \in Side : Child(u, y, e) = Child(t2, y, e)
    BY <1>1, <1>7, DropIs
  <1>9. /\ DOMAIN u.n = DOMAIN t.n \ {FalseRoot} /\ DOMAIN t2.n = DOMAIN t.n /\ DOMAIN t1.n = DOMAIN t.n
        /\ u.root = r /\ u.beg = t.beg /\ u.len = t.len
    BY <1>3, <1>6, <1>7, <1>8 DEF Alike
  <1>10. \A x \in DOMAIN t.n : RedOf(t, x) \in BOOLEAN
    BY Fields
  <1>11. ASSUME NEW y \in DOMAIN u.n
         PROVE  RedOf(u, y) <=> RedOf(t, y) /\ y # r
    <2>1. y \in DOMAIN t.n /\ RedOf(u, y) = RedOf(t2, y) /\ RedOf(t1, y) = RedOf(t, y)
      BY <1>3, <1>5, <1>6, <1>8, <1>9
    <2>2. RedOf(t2, y) = ((RedOf(t1, y) \/ y \in {}) /\ y \notin {r})
      BY <1>7, <1>9, <2>1
    <2>. QED BY <2>1, <2>2, <1>10
  <1>12. ASSUME NEW y \in DOMAIN u.n
         PROVE  /\ KeyOf(u, y) = KeyOf(t, y) /\ ValOf(u, y) = ValOf(t, y)
                /\ ParentOf(u, y) = IF y = r THEN NULL ELSE ParentOf(t, y)
                /\ \A e \in Side : Child(u, y, e) = Child(t, y, e)
    BY <1>3, <1>5, <1>6, <1>7, <1>8, <1>9 DEF Alike
  <1>. QED BY <1>8, <1>9, <1>11, <1>12

(* A set of natural numbers that is not empty has a least one. *)
LEMMA LeastPlace == ASSUME NEW T, T \subseteq Nat, T # {}
                    PROVE  \E m \in T : \A n \in T : m <= n
  <1>. DEFINE Upto0 == {0..n : n \in T}
  <1>1. Upto0 \subseteq FiniteSubsetsOf(Nat)
    <2>. SUFFICES ASSUME NEW n \in T PROVE 0..n \in FiniteSubsetsOf(Nat)
      OBVIOUS
    <2>1. IsFiniteSet(0..n)
      BY FS_Interval
    <2>. QED BY <2>1 DEF FiniteSubsetsOf
  <1>2. \E x \in Upto0 : \A y \in Upto0 : ~(<<y, x>> \in StrictSubsetOrdering(Nat))
    <2>1. IsWellFoundedOn(StrictSubsetOrdering(Nat), FiniteSubsetsOf(Nat))
      BY FS_StrictSubsetOrderingWellFounded
    <2>2. Upto0 # {}
      OBVIOUS
    <2>. HIDE DEF Upto0
    <2>. QED BY <1>1, <2>1, <2>2, WFMin
  <1>3. PICK m \in T : \A n \in T : ~(<<0..n, 0..m>> \in StrictSubsetOrdering(Nat))
    BY <1>2
  <1>4. ASSUME NEW n \in T, n < m
        PROVE  FALSE
    <2>1. /\ 0..n \subseteq 0..m /\ m \in 0..m /\ m \notin 0..n
          /\ 0..n \in SUBSET Nat /\ 0..m \in SUBSET Nat
      BY <1>4
    <2>. QED BY <1>3, <2>1 DEF StrictSubsetOrdering
  <1>. QED BY <1>4

(* Induction over the natural numbers, for a set of them. *)
LEMMA Induction == ASSUME NEW T, 0 \in T, \A n \in Nat : n \in T => n + 1 \in T
                   PROVE  \A n \in Nat : n \in T
  <1>. SUFFICES ASSUME Nat \ T # {} PROVE FALSE
    OBVIOUS
  <1>1. PICK m \in Nat \ T : \A n \in Nat \ T : m <= n
    BY LeastPlace
  <1>2. m # 0 /\ m - 1 \in Nat /\ m - 1 \in T
    BY <1>1
  <1>. QED BY <1>1, <1>2

(***************************************************************************)
(* A tree with its helper, as each node sees it: node x stands for the     *)
(* open interval from lo[x] to hi[x], its key splits that in two, and the  *)
(* child on either side has that side for its interval.                    *)
(***************************************************************************)
Lower(t, lo, x, d) == IF d = 0 THEN lo[x] ELSE KeyOf(t, x)
Upper(t, hi, x, d) == IF d = 0 THEN KeyOf(t, x) ELSE hi[x]

Linked(t, lo, hi) ==
  /\ FalseRoot \in DOMAIN t.n /\ DOMAIN t.n \subseteq Key \cup {FalseRoot}
  /\ lo \in [DOMAIN t.n -> Int] /\ hi \in [DOMAIN t.n -> Int]
  /\ KeyOf(t, FalseRoot) = 0 /\ lo[FalseRoot] = -1 /\ hi[FalseRoot] = NKey + 1
  /\ \A x \in DOMAIN t.n : KeyOf(t, x) \in Int /\ lo[x] < KeyOf(t, x) /\ KeyOf(t, x) < hi[x]
  /\ \A x \in DOMAIN t.n \ {FalseRoot} : KeyOf(t, x) \in Key /\ 0 <= lo[x] /\ hi[x] <= NKey + 1
  /\ \A x \in DOMAIN t.n : \A d \in Side :
       /\ Child(t, x, d) \in Links(t)
       /\ Child(t, x, d) # NULL =>
            /\ lo[Child(t, x, d)] = Lower(t, lo, x, d)
            /\ hi[Child(t, x, d)] = Upper(t, hi, x, d)
            /\ x # FalseRoot => ParentOf(t, Child(t, x, d)) = x
  /\ \A x \in DOMAIN t.n \ {FalseRoot} :
       \/ x = Child(t, FalseRoot, 1)
       \/ /\ ParentOf(t, x) \in DOMAIN t.n \ {FalseRoot}
          /\ \E d \in Side : Child(t, ParentOf(t, x), d) = x

Within(t, lo, hi, x, d, y) == Lower(t, lo, x, d) <= lo[y] /\ hi[y] <= Upper(t, hi, x, d)
Clear(lo, hi, x, y) == hi[x] <= lo[y] \/ hi[y] <= lo[x]
Placed(t, lo, hi, x, y) ==
  \/ x = y
  \/ \E d \in Side : Within(t, lo, hi, x, d, y) \/ Within(t, lo, hi, y, d, x)
  \/ Clear(lo, hi, x, y)

(* The names, keys and bounds of a linked tree are integers. *)
LEMMA LinkedNames == ASSUME NEW t, NEW lo, NEW hi, Linked(t, lo, hi)
  PROVE  /\ NULL \notin DOMAIN t.n /\ FalseRoot \in DOMAIN t.n /\ FalseRoot # NULL
         /\ NKey \in Nat
         /\ \A x \in DOMAIN t.n : lo[x] \in Int /\ hi[x] \in Int /\ KeyOf(t, x) \in Int
         /\ \A k \in Key : k \in Int /\ 1 <= k /\ k <= NKey
  BY KeyAssumption DEF Linked, Key, NULL, FalseRoot

(* each node hangs under another one *)
LEMMA Hangs ==
  ASSUME NEW t, NEW lo, NEW hi, Linked(t, lo, hi), NEW y \in DOMAIN t.n, y # FalseRoot
  PROVE  \E p \in DOMAIN t.n : \E e \in Side :
           /\ Child(t, p, e) = y /\ lo[y] = Lower(t, lo, p, e) /\ hi[y] = Upper(t, hi, p, e)
           /\ lo[p] <= lo[y] /\ hi[y] <= hi[p] /\ hi[y] - lo[y] < hi[p] - lo[p]
           /\ lo[p] < KeyOf(t, p) /\ KeyOf(t, p) < hi[p]
  <1>1. PICK p \in DOMAIN t.n : \E e \in Side : Child(t, p, e) = y
    <2>1. CASE y = Child(t, FalseRoot, 1)
      BY <2>1 DEF Linked, Side
    <2>2. CASE y # Child(t, FalseRoot, 1)
      BY <2>2 DEF Linked
    <2>. QED BY <2>1, <2>2
  <1>2. PICK e \in Side : Child(t, p, e) = y
    BY <1>1
  <1>3. y # NULL
    BY LinkedNames
  <1>4. lo[y] = Lower(t, lo, p, e) /\ hi[y] = Upper(t, hi, p, e)
    BY <1>2, <1>3 DEF Linked
  <1>5. lo[p] < KeyOf(t, p) /\ KeyOf(t, p) < hi[p]
    BY DEF Linked
  <1>6. /\ lo[p] \in Int /\ hi[p] \in Int /\ lo[y] \in Int /\ hi[y] \in Int /\ KeyOf(t, p) \in Int
    BY LinkedNames
  <1>7. lo[p] <= lo[y] /\ hi[y] <= hi[p] /\ hi[y] - lo[y] < hi[p] - lo[p]
    BY <1>4, <1>5, <1>6 DEF Lower, Upper
  <1>. QED BY <1>2, <1>4, <1>5, <1>7

(* Two nodes: one is within a side of the other, or they are clear of each *)
(* other.  By induction on how wide they are, the widest first.            *)
LEMMA ApartStep ==
  ASSUME NEW t, NEW lo, NEW hi, Linked(t, lo, hi),
         NEW x \in DOMAIN t.n, NEW y \in DOMAIN t.n, hi[y] - lo[y] <= hi[x] - lo[x],
         \A x1 \in DOMAIN t.n, y1 \in DOMAIN t.n :
           (hi[x] - lo[x]) + (hi[y] - lo[y]) < (hi[x1] - lo[x1]) + (hi[y1] - lo[y1])
             => Placed(t, lo, hi, x1, y1)
  PROVE  Placed(t, lo, hi, x, y)
  <1>. DEFINE D == DOMAIN t.n
  <1>0. \A z \in D : /\ lo[z] \in Int /\ hi[z] \in Int /\ KeyOf(t, z) \in Int
                     /\ lo[z] < KeyOf(t, z) /\ KeyOf(t, z) < hi[z]
    BY LinkedNames DEF Linked
  <1>1. CASE y = FalseRoot
    <2>1. x # FalseRoot => hi[x] - lo[x] < hi[y] - lo[y]
      BY <1>0, <1>1, LinkedNames DEF Linked
    <2>. QED BY <1>0, <1>1, <2>1 DEF Placed
  <1>2. CASE y # FalseRoot
    <2>1. PICK p \in D : \E e \in Side :
           /\ Child(t, p, e) = y /\ lo[y] = Lower(t, lo, p, e) /\ hi[y] = Upper(t, hi, p, e)
           /\ lo[p] <= lo[y] /\ hi[y] <= hi[p] /\ hi[y] - lo[y] < hi[p] - lo[p]
      BY <1>2, Hangs
    <2>2. PICK e \in Side :
           /\ Child(t, p, e) = y /\ lo[y] = Lower(t, lo, p, e) /\ hi[y] = Upper(t, hi, p, e)
           /\ lo[p] <= lo[y] /\ hi[y] <= hi[p] /\ hi[y] - lo[y] < hi[p] - lo[p]
      BY <2>1
    <2>3. CASE x = p
      BY <1>0, <2>2, <2>3 DEF Placed, Within
    <2>4. CASE x # p
      <3>1. Placed(t, lo, hi, x, p)
        BY <1>0, <2>2
      <3>2. CASE Clear(lo, hi, x, p)
        BY <1>0, <2>2, <3>2 DEF Placed, Clear
      <3>3. ASSUME NEW d \in Side, Within(t, lo, hi, x, d, p)
            PROVE  Within(t, lo, hi, x, d, y)
        BY <1>0, <2>2, <3>3 DEF Within, Lower, Upper
      <3>4. ASSUME NEW d \in Side, Within(t, lo, hi, p, d, x), d # e
            PROVE  Clear(lo, hi, x, y)
        BY <1>0, <2>2, <3>4 DEF Within, Lower, Upper, Clear, Side
      <3>5. ASSUME Within(t, lo, hi, p, e, x)
            PROVE  x = y
        <4>1. lo[x] = lo[y] /\ hi[x] = hi[y]
          BY <1>0, <2>2, <3>5 DEF Within, Lower, Upper
        <4>2. x # FalseRoot
          BY <1>0, <1>2, <4>1 DEF Linked
        <4>3. PICK p2 \in D : \E e2 \in Side :
           /\ Child(t, p2, e2) = x /\ lo[x] = Lower(t, lo, p2, e2) /\ hi[x] = Upper(t, hi, p2, e2)
           /\ lo[p2] <= lo[x] /\ hi[x] <= hi[p2] /\ hi[x] - lo[x] < hi[p2] - lo[p2]
          BY <4>2, Hangs
        <4>4. PICK e2 \in Side :
           /\ Child(t, p2, e2) = x /\ lo[x] = Lower(t, lo, p2, e2) /\ hi[x] = Upper(t, hi, p2, e2)
           /\ lo[p2] <= lo[x] /\ hi[x] <= hi[p2] /\ hi[x] - lo[x] < hi[p2] - lo[p2]
          BY <4>3
        <4>5. CASE p2 = p
          <5>1. e2 = e
            BY <1>0, <2>2, <4>1, <4>4, <4>5 DEF Lower, Upper, Side
          <5>. QED BY <2>2, <4>4, <4>5, <5>1
        <4>6. CASE p2 # p
          <5>1. Placed(t, lo, hi, p, p2)
            BY <1>0, <2>2, <4>4
          <5>2. ASSUME Clear(lo, hi, p, p2) PROVE FALSE
            BY <1>0, <2>2, <4>1, <4>4, <5>2 DEF Clear
          <5>3. ASSUME NEW d \in Side, Within(t, lo, hi, p, d, p2) PROVE FALSE
            BY <1>0, <2>2, <4>1, <4>4, <5>3 DEF Within, Lower, Upper, Side
          <5>4. ASSUME NEW d \in Side, Within(t, lo, hi, p2, d, p) PROVE FALSE
            BY <1>0, <2>2, <4>1, <4>4, <5>4 DEF Within, Lower, Upper, Side
          <5>. QED BY <4>6, <5>1, <5>2, <5>3, <5>4 DEF Placed
        <4>. QED BY <4>5, <4>6
      <3>. QED BY <2>4, <3>1, <3>2, <3>3, <3>4, <3>5 DEF Placed
    <2>. QED BY <2>3, <2>4
  <1>. QED BY <1>1, <1>2

(* Any two nodes of a linked tree are placed towards each other. *)
LEMMA Apart ==
  ASSUME NEW t, NEW lo, NEW hi, Linked(t, lo, hi)
  PROVE  \A x, y \in DOMAIN t.n : Placed(t, lo, hi, x, y)
  <1>. DEFINE D == DOMAIN t.n
              w(x) == hi[x] - lo[x]
              T == {n \in Nat : \A x, y \in D : 2 * (NKey + 2) - (w(x) + w(y)) <= n => Placed(t, lo, hi, x, y)}
  <1>0. \A z \in D : /\ lo[z] \in Int /\ hi[z] \in Int /\ KeyOf(t, z) \in Int
                     /\ w(z) \in Int /\ w(z) <= NKey + 2
    <2>. TAKE z \in D
    <2>1. lo[z] \in Int /\ hi[z] \in Int /\ KeyOf(t, z) \in Int /\ NKey \in Nat
      BY LinkedNames
    <2>2. CASE z = FalseRoot
      BY <2>1, <2>2 DEF Linked
    <2>3. CASE z # FalseRoot
      BY <2>1, <2>3 DEF Linked
    <2>. QED BY <2>1, <2>2, <2>3
  <1>. USE LinkedNames
  <1>1. 0 \in T
    <2>. SUFFICES ASSUME NEW x \in D, NEW y \in D, 2 * (NKey + 2) - (w(x) + w(y)) <= 0
                  PROVE  Placed(t, lo, hi, x, y)
      OBVIOUS
    <2>1. w(x) = NKey + 2 /\ w(y) = NKey + 2
      BY <1>0
    <2>2. ASSUME NEW z \in D, w(z) = NKey + 2 PROVE z = FalseRoot
      BY <1>0, <2>2 DEF Linked
    <2>. QED BY <2>1, <2>2 DEF Placed
  <1>2. ASSUME NEW n \in Nat, n \in T
        PROVE  n + 1 \in T
    <2>. SUFFICES ASSUME NEW x \in D, NEW y \in D, 2 * (NKey + 2) - (w(x) + w(y)) <= n + 1
                  PROVE  Placed(t, lo, hi, x, y)
      OBVIOUS
    <2>1. \A x1 \in D, y1 \in D : w(x) + w(y) < w(x1) + w(y1) => Placed(t, lo, hi, x1, y1)
      BY <1>0, <1>2
    <2>2. \A x1 \in D, y1 \in D : w(y) + w(x) < w(x1) + w(y1) => Placed(t, lo, hi, x1, y1)
      BY <1>0, <2>1
    <2>3. CASE w(y) <= w(x)
      BY <2>1, <2>3, ApartStep
    <2>4. CASE ~(w(y) <= w(x))
      <3>1. w(x) <= w(y)
        BY <1>0, <2>4
      <3>2. Placed(t, lo, hi, y, x)
        BY <2>2, <3>1, ApartStep
      <3>. QED BY <3>2 DEF Placed, Clear
    <2>. QED BY <2>3, <2>4
  <1>. HIDE DEF T
  <1>3. \A n \in Nat : n \in T
    BY <1>1, <1>2, Induction
  <1>4. ASSUME NEW x \in D, NEW y \in D PROVE Placed(t, lo, hi, x, y)
    <2>1. 2 * (NKey + 2) - (w(x) + w(y)) \in Nat
      BY <1>0
    <2>2. 2 * (NKey + 2) - (w(x) + w(y)) \in T
      BY <1>3, <2>1
    <2>. QED BY <2>2, <1>0 DEF T
  <1>. QED BY <1>4

(* the nodes have different keys *)
LEMMA KeysDiffer ==
  ASSUME NEW t, NEW lo, NEW hi, Linked(t, lo, hi), NEW x \in DOMAIN t.n, NEW y \in DOMAIN t.n,
         KeyOf(t, x) = KeyOf(t, y)
  PROVE  x = y
  <1>1. \A z \in DOMAIN t.n : /\ lo[z] \in Int /\ hi[z] \in Int /\ KeyOf(t, z) \in Int
                              /\ lo[z] < KeyOf(t, z) /\ KeyOf(t, z) < hi[z]
    BY LinkedNames DEF Linked
  <1>2. Placed(t, lo, hi, x, y)
    BY Apart
  <1>. QED BY <1>1, <1>2 DEF Placed, Within, Clear, Lower, Upper, Side

(* where a key of the tree lies on a side of x, that side has a child, and *)
(* the node with that key is within it                                     *)
LEMMA SideOccupied ==
  ASSUME NEW t, NEW lo, NEW hi, Linked(t, lo, hi), NEW x \in DOMAIN t.n, NEW d \in Side,
         NEW y \in DOMAIN t.n, Lower(t, lo, x, d) < KeyOf(t, y), KeyOf(t, y) < Upper(t, hi, x, d)
  PROVE  Within(t, lo, hi, x, d, y)
  <1>1. \A z \in DOMAIN t.n : /\ lo[z] \in Int /\ hi[z] \in Int /\ KeyOf(t, z) \in Int
                              /\ lo[z] < KeyOf(t, z) /\ KeyOf(t, z) < hi[z]
    BY LinkedNames DEF Linked
  <1>2. Placed(t, lo, hi, x, y)
    BY Apart
  <1>. QED BY <1>1, <1>2 DEF Placed, Within, Clear, Lower, Upper, Side

(* The side of a node within which a key of the tree lies is not empty. *)
LEMMA SideHasChild ==
  ASSUME NEW t, NEW lo, NEW hi, Linked(t, lo, hi), NEW x \in DOMAIN t.n, NEW d \in Side,
         NEW y \in DOMAIN t.n, Lower(t, lo, x, d) < KeyOf(t, y), KeyOf(t, y) < Upper(t, hi, x, d)
  PROVE  Child(t, x, d) # NULL
  <1>. DEFINE D == DOMAIN t.n
              w(z) == hi[z] - lo[z]
              T == {n \in Nat : \A z \in D : Within(t, lo, hi, x, d, z) /\ w(x) - w(z) <= n
                                               => Child(t, x, d) # NULL}
  <1>0. \A z \in D : /\ lo[z] \in Int /\ hi[z] \in Int /\ KeyOf(t, z) \in Int /\ w(z) \in Int
                     /\ lo[z] < KeyOf(t, z) /\ KeyOf(t, z) < hi[z]
    BY LinkedNames DEF Linked
  <1>1. \A z \in D : Within(t, lo, hi, x, d, z) => w(z) < w(x) /\ z # x
    BY <1>0 DEF Within, Lower, Upper
  <1>2. 0 \in T
    BY <1>0, <1>1
  <1>3. ASSUME NEW n \in Nat, n \in T PROVE n + 1 \in T
    <2>. SUFFICES ASSUME NEW z \in D, Within(t, lo, hi, x, d, z), w(x) - w(z) <= n + 1
                  PROVE  Child(t, x, d) # NULL
      OBVIOUS
    <2>0. z # FalseRoot
      <3>1. x # FalseRoot => lo[FalseRoot] < lo[x]
        BY <1>0, LinkedNames DEF Linked
      <3>. QED BY <1>0, <1>1, <3>1 DEF Within, Lower, Upper
    <2>1. PICK p \in D : \E e \in Side :
           /\ Child(t, p, e) = z /\ lo[z] = Lower(t, lo, p, e) /\ hi[z] = Upper(t, hi, p, e)
           /\ lo[p] <= lo[z] /\ hi[z] <= hi[p] /\ hi[z] - lo[z] < hi[p] - lo[p]
      BY <2>0, Hangs
    <2>2. PICK e \in Side :
           /\ Child(t, p, e) = z /\ lo[z] = Lower(t, lo, p, e) /\ hi[z] = Upper(t, hi, p, e)
           /\ lo[p] <= lo[z] /\ hi[z] <= hi[p] /\ hi[z] - lo[z] < hi[p] - lo[p]
      BY <2>1
    <2>3. CASE x = p
      <3>1. e = d
        BY <1>0, <2>2, <2>3 DEF Within, Lower, Upper, Side
      <3>. QED BY <2>2, <2>3, <3>1, LinkedNames
    <2>4. CASE x # p
      <3>1. Placed(t, lo, hi, x, p)
        BY Apart
      <3>2. ASSUME Clear(lo, hi, x, p) PROVE FALSE
        BY <1>0, <2>2, <3>2 DEF Clear, Within, Lower, Upper
      <3>3. ASSUME NEW d2 \in Side, Within(t, lo, hi, x, d2, p)
            PROVE  Within(t, lo, hi, x, d, p)
        BY <1>0, <2>2, <3>3 DEF Within, Lower, Upper, Side
      <3>4. ASSUME NEW d2 \in Side, Within(t, lo, hi, p, d2, x)
            PROVE  FALSE
        BY <1>0, <2>2, <3>4 DEF Within, Lower, Upper, Side
      <3>5. Within(t, lo, hi, x, d, p)
        BY <2>4, <3>1, <3>2, <3>3, <3>4 DEF Placed
      <3>6. w(x) - w(p) <= n
        BY <1>0, <2>2
      <3>. QED BY <1>3, <3>5, <3>6
    <2>. QED BY <2>3, <2>4
  <1>. HIDE DEF T
  <1>4. \A n \in Nat : n \in T
    BY <1>2, <1>3, Induction
  <1>5. Within(t, lo, hi, x, d, y)
    BY SideOccupied
  <1>6. w(x) - w(y) \in Nat
    BY <1>0, <1>1, <1>5
  <1>7. w(x) - w(y) \in T
    BY <1>4, <1>6
  <1>. QED BY <1>0, <1>5, <1>6, <1>7 DEF T

(* a node is a child at one place only *)
LEMMA OnePlace ==
  ASSUME NEW t, NEW lo, NEW hi, Linked(t, lo, hi), NEW x \in DOMAIN t.n, NEW d \in Side,
         NEW y \in DOMAIN t.n, NEW e \in Side, Child(t, x, d) = Child(t, y, e), Child(t, x, d) # NULL
  PROVE  x = y /\ d = e
  <1>. DEFINE c == Child(t, x, d)
  <1>1. \A z \in DOMAIN t.n : /\ lo[z] \in Int /\ hi[z] \in Int /\ KeyOf(t, z) \in Int
                              /\ lo[z] < KeyOf(t, z) /\ KeyOf(t, z) < hi[z]
    BY LinkedNames DEF Linked
  <1>2. /\ lo[c] = Lower(t, lo, x, d) /\ hi[c] = Upper(t, hi, x, d)
        /\ lo[c] = Lower(t, lo, y, e) /\ hi[c] = Upper(t, hi, y, e)
        /\ c \in DOMAIN t.n
    BY DEF Linked, Links
  <1>3. Placed(t, lo, hi, x, y)
    BY Apart
  <1>. HIDE DEF c
  <1>4. x = y
    BY <1>1, <1>2, <1>3 DEF Placed, Within, Clear, Lower, Upper, Side
  <1>. QED BY <1>1, <1>2, <1>4 DEF Lower, Upper, Side

(* The children of a node are nodes other than it and the helper. *)
LEMMA ChildOf ==
  ASSUME NEW t, NEW lo, NEW hi, Linked(t, lo, hi), NEW x \in DOMAIN t.n, NEW d \in Side,
         NEW c, c = Child(t, x, d), c # NULL
  PROVE  /\ c \in DOMAIN t.n /\ c # x /\ c # FalseRoot
         /\ lo[c] = Lower(t, lo, x, d) /\ hi[c] = Upper(t, hi, x, d)
         /\ x # FalseRoot => ParentOf(t, c) = x
         /\ lo[x] <= lo[c] /\ hi[c] <= hi[x] /\ hi[c] - lo[c] < hi[x] - lo[x]
         /\ (d = 0 => KeyOf(t, c) < KeyOf(t, x)) /\ (d = 1 => KeyOf(t, x) < KeyOf(t, c))
  <1>1. \A z \in DOMAIN t.n : /\ lo[z] \in Int /\ hi[z] \in Int /\ KeyOf(t, z) \in Int
                              /\ lo[z] < KeyOf(t, z) /\ KeyOf(t, z) < hi[z]
    BY LinkedNames DEF Linked
  <1>2. /\ lo[c] = Lower(t, lo, x, d) /\ hi[c] = Upper(t, hi, x, d)
        /\ x # FalseRoot => ParentOf(t, c) = x
        /\ c \in DOMAIN t.n
    BY DEF Linked, Links
  <1>3. x # FalseRoot => lo[FalseRoot] < lo[x]
    BY <1>1, LinkedNames DEF Linked
  <1>. QED BY <1>1, <1>2, <1>3 DEF Lower, Upper, Side

-----------------------------------------------------------------------------
(***************************************************************************)
(* Rotations keep the links in order.                                      *)
(***************************************************************************)
TurnedLo(t, lo, node, r, dir) ==
  [lo EXCEPT ![r] = lo[node], ![node] = IF dir = 0 THEN lo[node] ELSE KeyOf(t, r)]
TurnedHi(t, hi, node, r, dir) ==
  [hi EXCEPT ![r] = hi[node], ![node] = IF dir = 0 THEN KeyOf(t, r) ELSE hi[node]]

(* The bounds after a rotation: the two nodes exchange their place. *)
LEMMA TurnedBounds ==
  ASSUME NEW t, NEW lo \in [DOMAIN t.n -> Int], NEW hi \in [DOMAIN t.n -> Int],
         NEW node \in DOMAIN t.n, NEW r \in DOMAIN t.n, node # r, NEW dir \in Side, KeyOf(t, r) \in Int,
         NEW l2, l2 = TurnedLo(t, lo, node, r, dir), NEW h2, h2 = TurnedHi(t, hi, node, r, dir)
  PROVE  /\ l2 \in [DOMAIN t.n -> Int] /\ h2 \in [DOMAIN t.n -> Int]
         /\ l2[r] = lo[node] /\ h2[r] = hi[node]
         /\ l2[node] = (IF dir = 0 THEN lo[node] ELSE KeyOf(t, r))
         /\ h2[node] = (IF dir = 0 THEN KeyOf(t, r) ELSE hi[node])
         /\ \A x \in DOMAIN t.n \ {node, r} : l2[x] = lo[x] /\ h2[x] = hi[x]
  BY DEF TurnedLo, TurnedHi

(* A rotation keeps the tree linked, under the bounds turned. *)
LEMMA RotatedLinked ==
  ASSUME NEW t, NEW lo, NEW hi, Linked(t, lo, hi),
         NEW p \in DOMAIN t.n, NEW d \in Side, NEW dir \in Side,
         NEW node, node = Child(t, p, d), node # NULL,
         NEW r, r = Child(t, node, 1 - dir), r # NULL, NEW c, c = Child(t, r, dir),
         NEW u, Rotated(t, u, p, d, node, r, c, dir),
         NEW l2, l2 = TurnedLo(t, lo, node, r, dir), NEW h2, h2 = TurnedHi(t, hi, node, r, dir)
  PROVE  Linked(u, l2, h2)
  <1>. DEFINE D == DOMAIN t.n
  <1>0. \A z \in D : /\ lo[z] \in Int /\ hi[z] \in Int /\ KeyOf(t, z) \in Int
                     /\ lo[z] < KeyOf(t, z) /\ KeyOf(t, z) < hi[z]
    BY LinkedNames DEF Linked
  <1>1. 1 - dir \in Side
    BY DEF Side
  <1>2. /\ node \in D /\ node # p /\ node # FalseRoot
        /\ lo[node] = Lower(t, lo, p, d) /\ hi[node] = Upper(t, hi, p, d)
        /\ lo[p] <= lo[node] /\ hi[node] <= hi[p]
        /\ hi[node] - lo[node] < hi[p] - lo[p]
    BY ChildOf
  <1>3. /\ r \in D /\ r # node /\ r # FalseRoot
        /\ lo[r] = Lower(t, lo, node, 1 - dir) /\ hi[r] = Upper(t, hi, node, 1 - dir)
        /\ hi[r] - lo[r] < hi[node] - lo[node]
    BY <1>1, <1>2, ChildOf
  <1>4. c # NULL => /\ c \in D /\ c # r /\ c # FalseRoot
                    /\ lo[c] = Lower(t, lo, r, dir) /\ hi[c] = Upper(t, hi, r, dir)
                    /\ hi[c] - lo[c] < hi[r] - lo[r]
    BY <1>3, ChildOf
  <1>5. p # r
    BY <1>0, <1>2, <1>3
  <1>6. c # node /\ c # p
    BY <1>0, <1>2, <1>3, <1>4, LinkedNames
  <1>7. /\ l2 \in [D -> Int] /\ h2 \in [D -> Int]
        /\ l2[r] = lo[node] /\ h2[r] = hi[node]
        /\ l2[node] = (IF dir = 0 THEN lo[node] ELSE KeyOf(t, r))
        /\ h2[node] = (IF dir = 0 THEN KeyOf(t, r) ELSE hi[node])
        /\ \A x \in D \ {node, r} : l2[x] = lo[x] /\ h2[x] = hi[x]
    <2>1. lo \in [D -> Int] /\ hi \in [D -> Int] /\ KeyOf(t, r) \in Int
      BY <1>0, <1>3 DEF Linked
    <2>. QED BY <1>2, <1>3, <2>1, TurnedBounds
  <1>8. /\ DOMAIN u.n = D /\ \A x \in D : KeyOf(u, x) = KeyOf(t, x)
    BY DEF Rotated, Alike
  <1>9. \A x \in D : \A e \in Side : Child(u, x, e) =
            IF x = p /\ e = d THEN r ELSE IF x = node /\ e = 1 - dir THEN c
            ELSE IF x = r /\ e = dir THEN node ELSE Child(t, x, e)
    BY DEF Rotated
  <1>10. \A x \in D : ParentOf(u, x) = IF x = r THEN p ELSE IF x = node THEN r
                           ELSE IF x = c THEN node ELSE ParentOf(t, x)
    BY DEF Rotated
  <1>11. FalseRoot \in D /\ D \subseteq Key \cup {FalseRoot} /\ KeyOf(u, FalseRoot) = 0
         /\ l2[FalseRoot] = -1 /\ h2[FalseRoot] = NKey + 1
    BY <1>2, <1>3, <1>7, <1>8 DEF Linked
  <1>12. ASSUME NEW x \in D
         PROVE  KeyOf(u, x) \in Int /\ l2[x] < KeyOf(u, x) /\ KeyOf(u, x) < h2[x]
    BY <1>0, <1>2, <1>3, <1>7, <1>8 DEF Lower, Upper, Side
  <1>13. ASSUME NEW x \in D \ {FalseRoot}
         PROVE  KeyOf(u, x) \in Key /\ 0 <= l2[x] /\ h2[x] <= NKey + 1
    <2>1. \A z \in D \ {FalseRoot} : KeyOf(t, z) \in Key /\ 0 <= lo[z] /\ hi[z] <= NKey + 1
      BY DEF Linked
    <2>2. \A k \in Key : 0 <= k /\ k <= NKey + 1
      BY LinkedNames
    <2>. QED BY <1>2, <1>3, <1>7, <1>8, <2>1, <2>2
  <1>14. ASSUME NEW x \in D, NEW e \in Side
         PROVE  /\ Child(u, x, e) \in D \cup {NULL}
                /\ Child(u, x, e) # NULL =>
                     /\ l2[Child(u, x, e)] = Lower(u, l2, x, e)
                     /\ h2[Child(u, x, e)] = Upper(u, h2, x, e)
                     /\ x # FalseRoot => ParentOf(u, Child(u, x, e)) = x
    <2>1. CASE x = p /\ e = d
      <3>1. Child(u, x, e) = r
        BY <1>9, <2>1
      <3>2. l2[r] = Lower(u, l2, x, e) /\ h2[r] = Upper(u, h2, x, e)
        BY <1>2, <1>3, <1>5, <1>7, <1>8, <2>1 DEF Lower, Upper
      <3>. QED BY <1>3, <1>10, <2>1, <3>1, <3>2
    <2>2. CASE x = node /\ e = 1 - dir
      <3>1. Child(u, x, e) = c
        BY <1>2, <1>9, <2>2
      <3>2. c # NULL => l2[c] = Lower(u, l2, x, e) /\ h2[c] = Upper(u, h2, x, e)
        BY <1>2, <1>3, <1>4, <1>6, <1>7, <1>8, <2>2 DEF Lower, Upper, Side
      <3>. QED BY <1>4, <1>6, <1>10, <2>2, <3>1, <3>2
    <2>3. CASE x = r /\ e = dir
      <3>1. Child(u, x, e) = node
        BY <1>3, <1>5, <1>9, <2>3
      <3>2. l2[node] = Lower(u, l2, x, e) /\ h2[node] = Upper(u, h2, x, e)
        BY <1>2, <1>3, <1>7, <1>8, <2>3 DEF Lower, Upper, Side
      <3>. QED BY <1>2, <1>3, <1>10, <2>3, <3>1, <3>2
    <2>4. CASE ~(x = p /\ e = d) /\ ~(x = node /\ e = 1 - dir) /\ ~(x = r /\ e = dir)
      <3>. DEFINE y == Child(t, x, e)
      <3>1. Child(u, x, e) = y
        BY <1>9, <2>4
      <3>2. y \in D \cup {NULL}
        BY DEF Linked, Links
      <3>3. ASSUME y # NULL
            PROVE  /\ y \in D /\ y # node /\ y # r /\ y # c
                   /\ lo[y] = Lower(t, lo, x, e) /\ hi[y] = Upper(t, hi, x, e)
                   /\ x # FalseRoot => ParentOf(t, y) = x
        <4>1. y # node
          BY <2>4, <3>3, OnePlace
        <4>2. y # r
          BY <1>1, <1>2, <2>4, <3>3, OnePlace
        <4>3. y # c
          BY <1>3, <2>4, <3>3, OnePlace
        <4>. QED BY <3>3, <4>1, <4>2, <4>3, ChildOf
      <3>. HIDE DEF y
      <3>4. ASSUME y # NULL
            PROVE  l2[y] = Lower(u, l2, x, e) /\ h2[y] = Upper(u, h2, x, e)
        <4>1. l2[y] = lo[y] /\ h2[y] = hi[y]
          BY <1>7, <3>3, <3>4
        <4>2. Lower(u, l2, x, e) = Lower(t, lo, x, e) /\ Upper(u, h2, x, e) = Upper(t, hi, x, e)
          BY <1>1, <1>2, <1>3, <1>7, <1>8, <2>4 DEF Lower, Upper, Side
        <4>. QED BY <3>3, <3>4, <4>1, <4>2
      <3>5. ASSUME y # NULL, x # FalseRoot
            PROVE  ParentOf(u, y) = x
        BY <1>10, <3>3, <3>5
      <3>. QED BY <3>1, <3>2, <3>4, <3>5
    <2>. QED BY <2>1, <2>2, <2>3, <2>4
  <1>15. ASSUME NEW x \in D \ {FalseRoot}
         PROVE  \/ x = Child(u, FalseRoot, 1)
                \/ /\ ParentOf(u, x) \in D \ {FalseRoot}
                   /\ \E e \in Side : Child(u, ParentOf(u, x), e) = x
    <2>0. /\ Child(u, node, 1 - dir) = c /\ Child(u, r, dir) = node /\ Child(u, p, d) = r
      BY <1>1, <1>2, <1>3, <1>5, <1>9
    <2>1. CASE x = r
      <3>1. ParentOf(u, x) = p
        BY <1>10, <2>1
      <3>2. p = FalseRoot => d = 1
        BY <1>0, <1>2, LinkedNames DEF Linked, Lower, Upper, Side
      <3>. QED BY <2>0, <2>1, <3>1, <3>2
    <2>2. CASE x = node
      BY <1>3, <1>10, <2>0, <2>2
    <2>3. CASE x = c
      BY <1>2, <1>3, <1>4, <1>6, <1>10, <1>1, <2>0, <2>3, LinkedNames
    <2>4. CASE x # r /\ x # node /\ x # c
      <3>1. ParentOf(u, x) = ParentOf(t, x)
        BY <1>10, <2>4
      <3>2. CASE x = Child(t, FalseRoot, 1)
        BY <1>2, <1>3, <1>9, <1>11, <2>4, <3>2 DEF Side
      <3>3. CASE x # Child(t, FalseRoot, 1)
        <4>1. ParentOf(t, x) \in D \ {FalseRoot} /\ \E e \in Side : Child(t, ParentOf(t, x), e) = x
          BY <3>3 DEF Linked
        <4>2. PICK e \in Side : Child(t, ParentOf(t, x), e) = x
          BY <4>1
        <4>3. Child(u, ParentOf(t, x), e) = x
          BY <1>9, <2>4, <4>1, <4>2
        <4>. QED BY <3>1, <4>1, <4>3
      <3>. QED BY <3>2, <3>3
    <2>. QED BY <2>1, <2>2, <2>3, <2>4
  <1>. QED
    <2>1. \A x \in DOMAIN u.n : \A e \in Side : Child(u, x, e) \in Links(u)
      BY <1>8, <1>14 DEF Links
    <2>. QED BY <1>7, <1>8, <1>11, <1>12, <1>13, <1>14, <1>15, <2>1 DEF Linked

(* Rotate is a rotation where there is a node to come up. *)
LEMMA RotateDoes ==
  ASSUME NEW V, NEW t, Typed(t, V), NEW lo, NEW hi, Linked(t, lo, hi),
         NEW p \in DOMAIN t.n, NEW d \in Side, NEW dir \in Side,
         NEW node, node = Child(t, p, d), node # NULL,
         NEW r, r = Child(t, node, 1 - dir), r # NULL, NEW c, c = Child(t, r, dir),
         NEW u, u = Rotate(t, p, d, node, dir)
  PROVE  /\ Typed(u, V) /\ Rotated(t, u, p, d, node, r, c, dir)
         /\ Linked(u, TurnedLo(t, lo, node, r, dir), TurnedHi(t, hi, node, r, dir))
  <1>. DEFINE D == DOMAIN t.n
  <1>0. \A z \in D : /\ lo[z] \in Int /\ hi[z] \in Int /\ KeyOf(t, z) \in Int
                     /\ lo[z] < KeyOf(t, z) /\ KeyOf(t, z) < hi[z]
    BY LinkedNames DEF Linked
  <1>1. 1 - dir \in Side
    BY DEF Side
  <1>2. node \in D /\ node # p /\ hi[node] - lo[node] < hi[p] - lo[p]
    BY ChildOf
  <1>3. r \in D /\ r # node /\ hi[r] - lo[r] < hi[node] - lo[node]
    BY <1>1, <1>2, ChildOf
  <1>4. c # NULL => c \in D /\ c # r /\ hi[c] - lo[c] < hi[r] - lo[r]
    BY <1>3, ChildOf
  <1>5. p # r /\ c # node /\ c # p
    BY <1>0, <1>2, <1>3, <1>4, LinkedNames
  <1>6. c \in Links(t) /\ c # r
    BY <1>3, <1>4, LinkedNames DEF Linked, Links
  <1>7. Typed(u, V) /\ Rotated(t, u, p, d, node, r, c, dir)
    <2>1. node \in DOMAIN t.n /\ r \in DOMAIN t.n
      BY <1>2, <1>3
    <2>2. p # node /\ p # r /\ node # r /\ c # p /\ c # node /\ c # r
      BY <1>2, <1>3, <1>5, <1>6
    <2>. QED BY <2>1, <2>2, <1>6, RotateIs
  <1>. QED BY <1>7, RotatedLinked

(* Two steps that keep nodes, keys and values are one. *)
LEMMA AlikeTrans == ASSUME NEW t, NEW u, NEW w, Alike(t, u), Alike(u, w) PROVE Alike(t, w)
  BY DEF Alike

(* The two sides. *)
LEMMA SideFlip == ASSUME NEW d \in Side
                  PROVE  1 - d \in Side /\ 1 - d # d /\ 1 - (1 - d) = d /\ \A e \in Side : e # d => e = 1 - d
  BY DEF Side

(* what a single and a double rotation do, with the bounds that then hold *)
Turn1(t, u, lo, hi, l2, h2, p, d, node, r, c, dir) ==
  /\ Rotated(t, u, p, d, node, r, c, dir)
  /\ Linked(u, l2, h2)
  /\ l2[r] = lo[node] /\ h2[r] = hi[node]
  /\ \A x \in DOMAIN t.n \ {node, r} : l2[x] = lo[x] /\ h2[x] = hi[x]

(* A single rotation and the bounds after it. *)
LEMMA RotateTurns ==
  ASSUME NEW V, NEW t, Typed(t, V), NEW lo, NEW hi, Linked(t, lo, hi),
         NEW p \in DOMAIN t.n, NEW d \in Side, NEW dir \in Side,
         NEW node, node = Child(t, p, d), node # NULL,
         NEW r, r = Child(t, node, 1 - dir), r # NULL, NEW c, c = Child(t, r, dir),
         NEW u, u = Rotate(t, p, d, node, dir)
  PROVE  /\ Typed(u, V)
         /\ \E l2, h2 : Turn1(t, u, lo, hi, l2, h2, p, d, node, r, c, dir)
  <1>0. PICK l2, h2 : l2 = TurnedLo(t, lo, node, r, dir) /\ h2 = TurnedHi(t, hi, node, r, dir)
    OBVIOUS
  <1>1. Typed(u, V) /\ Rotated(t, u, p, d, node, r, c, dir) /\ Linked(u, l2, h2)
    BY <1>0, RotateDoes
  <1>2. 1 - dir \in Side
    BY SideFlip
  <1>3. node \in DOMAIN t.n
    BY ChildOf
  <1>4. r \in DOMAIN t.n /\ r # node
    BY <1>2, <1>3, ChildOf
  <1>5. lo \in [DOMAIN t.n -> Int] /\ hi \in [DOMAIN t.n -> Int] /\ KeyOf(t, r) \in Int
    BY <1>4 DEF Linked
  <1>6. /\ l2[r] = lo[node] /\ h2[r] = hi[node]
        /\ \A x \in DOMAIN t.n \ {node, r} : l2[x] = lo[x] /\ h2[x] = hi[x]
    BY ONLY <1>0, <1>3, <1>4, <1>5 DEF TurnedLo, TurnedHi
  <1>. QED BY <1>1, <1>6 DEF Turn1

Turn2(t, u, lo, hi, l2, h2, p, d, node, r, q, dir) ==
  /\ Alike(t, u)
  /\ Linked(u, l2, h2)
  /\ \A x \in DOMAIN t.n :
       /\ RedOf(u, x) = IF x \in {node, r} THEN TRUE ELSE IF x = q THEN FALSE ELSE RedOf(t, x)
       /\ \A e \in Side : Child(u, x, e) =
            IF x = p /\ e = d THEN q
            ELSE IF x = node /\ e = 1 - dir THEN Child(t, q, dir)
            ELSE IF x = r /\ e = dir THEN Child(t, q, 1 - dir)
            ELSE IF x = q THEN IF e = dir THEN node ELSE r
            ELSE Child(t, x, e)
  /\ \A x \in DOMAIN t.n \ {node, r, q} : l2[x] = lo[x] /\ h2[x] = hi[x]

(* A double rotation and the bounds after it. *)
LEMMA Rotate2Turns ==
  ASSUME NEW V, NEW t, Typed(t, V), NEW lo, NEW hi, Linked(t, lo, hi),
         NEW p \in DOMAIN t.n, NEW d \in Side, NEW dir \in Side,
         NEW node, node = Child(t, p, d), node # NULL,
         NEW r, r = Child(t, node, 1 - dir), r # NULL,
         NEW q, q = Child(t, r, dir), q # NULL,
         NEW u, u = Rotate2(t, p, d, node, dir)
  PROVE  /\ Typed(u, V)
         /\ \E l2, h2 : Turn2(t, u, lo, hi, l2, h2, p, d, node, r, q, dir)
  <1>. DEFINE D == DOMAIN t.n
              od == 1 - dir
              w == Rotate(t, node, od, r, od)
              a == Child(t, q, od)
              b == Child(t, q, dir)
  <1>0. /\ od \in Side /\ od # dir /\ 1 - od = dir /\ \A e \in Side : e # dir => e = od
        /\ dir # 1 - dir
    BY SideFlip DEF Side
  <1>1. u = Rotate(w, p, d, node, dir)
    BY DEF Rotate2
  <1>2. node \in D /\ node # p /\ hi[node] - lo[node] < hi[p] - lo[p]
    BY ChildOf
  <1>3. r \in D /\ r # node /\ hi[r] - lo[r] < hi[node] - lo[node]
    BY <1>0, <1>2, ChildOf
  <1>4. q \in D /\ q # r /\ hi[q] - lo[q] < hi[r] - lo[r]
    BY <1>3, ChildOf
  <1>5. p # r /\ p # q /\ node # q
    BY <1>2, <1>3, <1>4, LinkedNames
  <1>6. /\ Typed(w, V)
        /\ \E l1, h1 : Turn1(t, w, lo, hi, l1, h1, node, od, r, q, a, od)
    <2>1. q = Child(t, r, 1 - od)
      BY <1>0
    <2>. HIDE DEF w, a, b, od
    <2>2. w = Rotate(t, node, od, r, od) /\ a = Child(t, q, od) /\ r = Child(t, node, od)
      BY DEF w, a, od
    <2>. QED BY <1>0, <1>2, <2>1, <2>2, RotateTurns
  <1>7. PICK l1, h1 : Turn1(t, w, lo, hi, l1, h1, node, od, r, q, a, od)
    BY <1>6
  <1>. HIDE DEF w
  <1>8. /\ Linked(w, l1, h1) /\ Alike(t, w) /\ DOMAIN w.n = D
        /\ l1[q] = lo[r] /\ h1[q] = hi[r]
        /\ \A x \in D \ {r, q} : l1[x] = lo[x] /\ h1[x] = hi[x]
        /\ \A x \in D :
             /\ RedOf(w, x) = IF x = r THEN TRUE ELSE IF x = q THEN FALSE ELSE RedOf(t, x)
             /\ \A e \in Side : Child(w, x, e) =
                  IF x = node /\ e = od THEN q ELSE IF x = r /\ e = 1 - od THEN a
                  ELSE IF x = q /\ e = od THEN r ELSE Child(t, x, e)
    BY <1>7 DEF Turn1, Rotated, Alike
  <1>9. /\ node = Child(w, p, d) /\ q = Child(w, node, od) /\ b = Child(w, q, dir)
    BY <1>0, <1>2, <1>3, <1>4, <1>5, <1>8
  <1>10. /\ Typed(u, V)
         /\ \E l2, h2 : Turn1(w, u, l1, h1, l2, h2, p, d, node, q, b, dir)
    <2>. HIDE DEF b
    <2>1. q = Child(w, node, 1 - dir)
      BY <1>9
    <2>2. p \in DOMAIN w.n /\ Typed(w, V) /\ Linked(w, l1, h1)
      BY <1>6, <1>8
    <2>. QED BY <1>1, <1>9, <2>1, <2>2, RotateTurns
  <1>11. PICK l2, h2 : Turn1(w, u, l1, h1, l2, h2, p, d, node, q, b, dir)
    BY <1>10
  <1>12. /\ Linked(u, l2, h2) /\ Alike(w, u)
         /\ \A x \in D \ {node, q} : l2[x] = l1[x] /\ h2[x] = h1[x]
         /\ \A x \in D :
             /\ RedOf(u, x) = IF x = node THEN TRUE ELSE IF x = q THEN FALSE ELSE RedOf(w, x)
             /\ \A e \in Side : Child(u, x, e) =
                  IF x = p /\ e = d THEN q ELSE IF x = node /\ e = 1 - dir THEN b
                  ELSE IF x = q /\ e = dir THEN node ELSE Child(w, x, e)
    BY <1>8, <1>11 DEF Turn1, Rotated
  <1>13. Alike(t, u)
    BY <1>8, <1>12, AlikeTrans
  <1>14. ASSUME NEW x \in D
         PROVE  RedOf(u, x) = IF x \in {node, r} THEN TRUE ELSE IF x = q THEN FALSE ELSE RedOf(t, x)
    BY <1>3, <1>4, <1>8, <1>12
  <1>15. ASSUME NEW x \in D, NEW e \in Side
         PROVE  Child(u, x, e) =
            IF x = p /\ e = d THEN q
            ELSE IF x = node /\ e = 1 - dir THEN b
            ELSE IF x = r /\ e = dir THEN a
            ELSE IF x = q THEN IF e = dir THEN node ELSE r
            ELSE Child(t, x, e)
    <2>1. /\ Child(w, x, e) =
                  IF x = node /\ e = od THEN q ELSE IF x = r /\ e = dir THEN a
                  ELSE IF x = q /\ e = od THEN r ELSE Child(t, x, e)
          /\ Child(u, x, e) =
                  IF x = p /\ e = d THEN q ELSE IF x = node /\ e = od THEN b
                  ELSE IF x = q /\ e = dir THEN node ELSE Child(w, x, e)
      <3>. HIDE DEF a, b, D
      <3>1. /\ Child(w, x, e) =
                  IF x = node /\ e = od THEN q ELSE IF x = r /\ e = 1 - od THEN a
                  ELSE IF x = q /\ e = od THEN r ELSE Child(t, x, e)
        BY <1>8
      <3>2. Child(u, x, e) =
                  IF x = p /\ e = d THEN q ELSE IF x = node /\ e = 1 - dir THEN b
                  ELSE IF x = q /\ e = dir THEN node ELSE Child(w, x, e)
        BY <1>12
      <3>. QED BY <1>0, <3>1, <3>2
    <2>2. e = dir \/ e = od
      BY <1>0
    <2>. HIDE DEF a, b, D
    <2>. QED BY <1>0, <1>2, <1>3, <1>4, <1>5, <2>1, <2>2
  <1>16. \A x \in D \ {node, r, q} : l2[x] = lo[x] /\ h2[x] = hi[x]
    BY <1>8, <1>12
  <1>17. Turn2(t, u, lo, hi, l2, h2, p, d, node, r, q, dir)
    BY <1>12, <1>13, <1>14, <1>15, <1>16 DEF Turn2
  <1>. QED BY <1>10, <1>17

-----------------------------------------------------------------------------
(***************************************************************************)
(* Colours: bh[x] counts the black nodes on any way down from x; RedRule   *)
(* lets one node be red under a red parent.                                *)
(***************************************************************************)
Tall(bh, c) == IF c = NULL THEN 0 ELSE bh[c]
Balanced(t, bh) ==
  /\ bh \in [DOMAIN t.n -> Nat]
  /\ \A x \in DOMAIN t.n \ {FalseRoot} : \A d \in Side :
       bh[x] = Tall(bh, Child(t, x, d)) + Bit(~RedOf(t, x))
RedRule(t, q) ==
  \A x \in DOMAIN t.n \ {FalseRoot} : \A d \in Side :
    RedOf(t, x) /\ IsRed(t, Child(t, x, d)) => Child(t, x, d) = q

(* _tree_is_red in terms of the colour of a node. *)
LEMMA IsRedIs == ASSUME NEW t, NEW q PROVE IsRed(t, q) <=> q # NULL /\ RedOf(t, q)
  BY DEF IsRed, RedOf

(* The single rotation of _insert mends a red pair on one side and keeps   *)
(* the black heights.                                                      *)
LEMMA SingleColours ==
  ASSUME NEW V, NEW t, Typed(t, V), NEW lo, NEW hi, Linked(t, lo, hi), NEW bh, Balanced(t, bh),
         NEW h \in DOMAIN t.n, NEW d2 \in Side, NEW last \in Side,
         NEW g, g = Child(t, h, d2), g # NULL, NEW p, p = Child(t, g, last), p # NULL,
         NEW q, q = Child(t, p, last), q # NULL, RedRule(t, q),
         RedOf(t, q), RedOf(t, p), ~RedOf(t, g), ~IsRed(t, Child(t, g, 1 - last)),
         NEW c, c = Child(t, p, 1 - last),
         NEW u, Rotated(t, u, h, d2, g, p, c, 1 - last)
  PROVE  RedRule(u, NULL) /\ \E b2 : Balanced(u, b2)
  <1>. DEFINE D == DOMAIN t.n
              N == D \ {FalseRoot}
              s == Child(t, g, 1 - last)
              b2 == [bh EXCEPT ![g] = @ - 1, ![p] = @ + 1]
  <1>0. \A z \in D : lo[z] \in Int /\ hi[z] \in Int
    BY LinkedNames
  <1>1. 1 - last \in Side /\ 1 - last # last /\ 1 - (1 - last) = last /\ \A e \in Side : e # last => e = 1 - last
    BY SideFlip
  <1>2. g \in N /\ g # h
    BY ChildOf
  <1>3. p \in N /\ p # g /\ p # h
    BY <1>0, <1>2, ChildOf, LinkedNames
  <1>4. q \in N /\ q # p /\ q # g /\ q # h
    <2>1. q \in N /\ q # p /\ hi[q] - lo[q] < hi[p] - lo[p]
      BY <1>3, ChildOf
    <2>2. hi[p] - lo[p] < hi[g] - lo[g] /\ hi[g] - lo[g] < hi[h] - lo[h]
      BY <1>2, ChildOf
    <2>. QED BY <1>0, <1>2, <1>3, <2>1, <2>2
  <1>5. c # NULL => c \in N /\ c # p /\ c # g /\ c # h
    <2>. SUFFICES ASSUME c # NULL PROVE c \in N /\ c # p /\ c # g /\ c # h
      OBVIOUS
    <2>1. c \in N /\ c # p /\ hi[c] - lo[c] < hi[p] - lo[p]
      BY <1>1, <1>3, ChildOf
    <2>2. hi[p] - lo[p] < hi[g] - lo[g] /\ hi[g] - lo[g] < hi[h] - lo[h]
      BY <1>2, ChildOf
    <2>. QED BY <1>0, <1>2, <1>3, <2>1, <2>2
  <1>6. s # NULL => s \in N /\ s # g /\ s # p
    <2>. SUFFICES ASSUME s # NULL PROVE s \in N /\ s # g /\ s # p
      OBVIOUS
    <2>1. s \in N /\ s # g
      BY <1>1, <1>2, ChildOf
    <2>2. s # p
      BY <1>1, <1>2, OnePlace
    <2>. QED BY <2>1, <2>2
  <1>7. c # q
    BY <1>1, <1>3, OnePlace
  <1>8. ~IsRed(t, c)
    BY <1>1, <1>3, <1>7 DEF RedRule
  <1>9. /\ DOMAIN u.n = D
        /\ \A x \in D :
             /\ RedOf(u, x) = IF x = g THEN TRUE ELSE IF x = p THEN FALSE ELSE RedOf(t, x)
             /\ \A e \in Side : Child(u, x, e) =
                  IF x = h /\ e = d2 THEN p ELSE IF x = g /\ e = last THEN c
                  ELSE IF x = p /\ e = 1 - last THEN g ELSE Child(t, x, e)
    <2>. HIDE DEF N
    <2>1. \A x \in D : \A e \in Side : Child(u, x, e) =
                  IF x = h /\ e = d2 THEN p ELSE IF x = g /\ e = 1 - (1 - last) THEN c
                  ELSE IF x = p /\ e = 1 - last THEN g ELSE Child(t, x, e)
      BY DEF Rotated
    <2>2. /\ DOMAIN u.n = D
          /\ \A x \in D : RedOf(u, x) = IF x = g THEN TRUE ELSE IF x = p THEN FALSE ELSE RedOf(t, x)
      BY DEF Rotated, Alike
    <2>3. 1 - (1 - last) = last
      BY <1>1
    <2>4. \A x \in D : \A e \in Side : Child(u, x, e) =
                  IF x = h /\ e = d2 THEN p ELSE IF x = g /\ e = last THEN c
                  ELSE IF x = p /\ e = 1 - last THEN g ELSE Child(t, x, e)
      BY ONLY <2>1, <2>3
    <2>. QED BY ONLY <2>2, <2>4
  <1>10. \A x \in D : bh[x] \in Nat /\ RedOf(t, x) \in BOOLEAN
    BY Fields DEF Balanced
  <1>11. /\ b2 \in [D -> Int] /\ b2[g] = bh[g] - 1 /\ b2[p] = bh[p] + 1
         /\ \A x \in D \ {g, p} : b2[x] = bh[x]
    BY <1>2, <1>3 DEF Balanced
  <1>12. /\ bh[g] = bh[p] + 1 /\ bh[g] = Tall(bh, s) + 1
         /\ bh[p] = bh[q] /\ bh[p] = Tall(bh, c)
    <2>1. bh[g] = Tall(bh, p) + 1 /\ bh[g] = Tall(bh, s) + 1
      BY <1>1, <1>2 DEF Balanced, Bit
    <2>2. bh[p] = Tall(bh, q) + 0 /\ bh[p] = Tall(bh, c) + 0
      BY <1>1, <1>3 DEF Balanced, Bit
    <2>3. Tall(bh, p) = bh[p] /\ Tall(bh, q) = bh[q] /\ Tall(bh, c) \in Int
      BY <1>5, <1>10 DEF Tall
    <2>. QED BY <1>3, <1>4, <1>10, <2>1, <2>2, <2>3
  <1>. HIDE DEF b2
  <1>13. \A y : y # NULL /\ y \in D \ {g, p} => Tall(b2, y) = Tall(bh, y)
    BY <1>11 DEF Tall
  <1>14. Tall(b2, c) = Tall(bh, c) /\ Tall(b2, s) = Tall(bh, s)
    BY <1>5, <1>6, <1>13 DEF Tall
  <1>15. ASSUME NEW x \in N, NEW e \in Side
         PROVE  b2[x] = Tall(b2, Child(u, x, e)) + Bit(~RedOf(u, x))
    <2>1. CASE x = g
      <3>1. ~RedOf(u, x) = FALSE
        BY <1>9, <2>1
      <3>2. Child(u, x, e) = c \/ Child(u, x, e) = s
        BY <1>1, <1>2, <1>3, <1>9, <2>1
      <3>3. Bit(~RedOf(u, x)) = 0
        BY <3>1 DEF Bit
      <3>4. b2[x] = bh[g] - 1 /\ bh[g] \in Nat /\ bh[p] \in Nat
        BY <1>2, <1>3, <1>10, <1>11, <2>1
      <3>5. Tall(b2, c) = bh[g] - 1 /\ Tall(b2, s) = bh[g] - 1
        <4>1. Tall(bh, s) \in Int
          BY <1>6, <1>10 DEF Tall
        <4>. HIDE DEF s
        <4>. QED BY <1>12, <1>14, <3>4, <4>1
      <3>. QED BY <3>2, <3>3, <3>4, <3>5
    <2>2. CASE x = p
      <3>1. ~RedOf(u, x) = TRUE
        BY <1>3, <1>9, <2>2
      <3>2. Child(u, x, e) = q \/ Child(u, x, e) = g
        <4>1. CASE e = last
          BY <1>1, <1>3, <1>9, <2>2, <4>1
        <4>2. CASE e = 1 - last
          BY <1>3, <1>9, <2>2, <4>2
        <4>. QED BY <1>1, <4>1, <4>2
      <3>3. Tall(b2, q) = bh[q] /\ Tall(b2, g) = bh[g] - 1
        BY <1>2, <1>4, <1>11, LinkedNames DEF Tall
      <3>. QED BY <1>10, <1>11, <1>12, <2>2, <1>2, <1>3, <1>4, <3>1, <3>2, <3>3 DEF Bit
    <2>3. CASE x = h /\ e = d2
      <3>1. Child(u, x, e) = p /\ Child(t, x, e) = g /\ RedOf(u, x) = RedOf(t, x)
        BY <1>2, <1>3, <1>9, <2>3
      <3>2. bh[x] = Tall(bh, g) + Bit(~RedOf(t, x)) /\ b2[x] = bh[x]
        BY <1>2, <1>3, <1>11, <2>3, <3>1 DEF Balanced
      <3>3. Tall(b2, p) = bh[p] + 1 /\ Tall(bh, g) = bh[p] + 1
        BY <1>2, <1>3, <1>11, <1>12, LinkedNames DEF Tall
      <3>. QED BY <3>1, <3>2, <3>3
    <2>4. CASE x # g /\ x # p /\ ~(x = h /\ e = d2)
      <3>. DEFINE y == Child(t, x, e)
      <3>1. Child(u, x, e) = y /\ RedOf(u, x) = RedOf(t, x)
        BY <1>9, <2>4
      <3>2. bh[x] = Tall(bh, y) + Bit(~RedOf(t, x)) /\ b2[x] = bh[x]
        BY <1>11, <2>4 DEF Balanced
      <3>3. y # NULL => y \in D
        BY ChildOf
      <3>4. y # g
        BY <2>4, OnePlace
      <3>5. y # p
        BY <1>2, <2>4, OnePlace
      <3>6. Tall(b2, y) = Tall(bh, y)
        <4>. HIDE DEF y
        <4>. QED BY <1>13, <3>3, <3>4, <3>5 DEF Tall
      <3>. QED BY <3>1, <3>2, <3>6
    <2>. QED BY <2>1, <2>2, <2>3, <2>4
  <1>16. b2 \in [DOMAIN u.n -> Nat]
    <2>1. \A x \in D : b2[x] \in Nat
      <3>1. bh[g] - 1 \in Nat
        BY <1>2, <1>3, <1>10, <1>12
      <3>. QED BY <1>2, <1>3, <1>10, <1>11, <3>1
    <2>. QED BY <1>9, <1>11, <2>1
  <1>17. Balanced(u, b2)
    BY <1>9, <1>15, <1>16 DEF Balanced
  <1>18. ASSUME NEW x \in N, NEW e \in Side, RedOf(u, x), IsRed(u, Child(u, x, e))
         PROVE  FALSE
    <2>0. \A y : y \in D \ {g} /\ ~IsRed(t, y) => ~IsRed(u, y)
      BY <1>9, IsRedIs
    <2>1. CASE x = g
      <3>1. Child(u, x, e) = c \/ Child(u, x, e) = s
        BY <1>1, <1>2, <1>3, <1>9, <2>1
      <3>2. ~IsRed(u, c) /\ ~IsRed(u, s)
        BY <1>5, <1>6, <1>8, <2>0 DEF IsRed
      <3>. QED BY <1>18, <3>1, <3>2
    <2>2. CASE x = p
      BY <1>3, <1>9, <1>18, <2>2
    <2>3. CASE x = h /\ e = d2
      <3>1. Child(u, x, e) = p
        BY <1>9, <2>3
      <3>2. ~IsRed(u, p)
        BY <1>3, <1>9, IsRedIs
      <3>. QED BY <3>1, <3>2, <1>18
    <2>4. CASE x # g /\ x # p /\ ~(x = h /\ e = d2)
      <3>. DEFINE y == Child(t, x, e)
      <3>1. Child(u, x, e) = y /\ RedOf(t, x)
        BY <1>9, <1>18, <2>4
      <3>2. y # NULL
        BY <1>18, <3>1 DEF IsRed
      <3>3. y \in D /\ y # g /\ y # q
        <4>1. y # g
          BY <2>4, OnePlace
        <4>2. y # q
          BY <1>3, <2>4, OnePlace
        <4>. QED BY <3>2, <4>1, <4>2, ChildOf
      <3>4. ~IsRed(t, y)
        BY <3>1, <3>3 DEF RedRule
      <3>. QED BY <1>18, <2>0, <3>1, <3>3, <3>4
    <2>. QED BY <2>1, <2>2, <2>3, <2>4
  <1>19. RedRule(u, NULL)
    BY <1>9, <1>18 DEF RedRule
  <1>. QED BY <1>17, <1>19

(* The double rotation of _insert mends a red pair with a bend and keeps   *)
(* the black heights.                                                      *)
LEMMA DoubleColours ==
  ASSUME NEW V, NEW t, Typed(t, V), NEW lo, NEW hi, Linked(t, lo, hi), NEW bh, Balanced(t, bh),
         NEW h \in DOMAIN t.n, NEW d2 \in Side, NEW dir \in Side,
         NEW g, g = Child(t, h, d2), g # NULL, NEW p, p = Child(t, g, 1 - dir), p # NULL,
         NEW q, q = Child(t, p, dir), q # NULL, RedRule(t, q),
         RedOf(t, q), RedOf(t, p), ~RedOf(t, g), ~IsRed(t, Child(t, g, dir)),
         ~IsRed(t, Child(t, q, 0)), ~IsRed(t, Child(t, q, 1)),
         NEW u, NEW l2, NEW h2, Turn2(t, u, lo, hi, l2, h2, h, d2, g, p, q, dir)
  PROVE  RedRule(u, NULL) /\ \E b2 : Balanced(u, b2)
  <1>. DEFINE D == DOMAIN t.n
              N == D \ {FalseRoot}
              s == Child(t, g, dir)
              c == Child(t, p, 1 - dir)
              a == Child(t, q, 1 - dir)
              b == Child(t, q, dir)
              b2 == [bh EXCEPT ![g] = @ - 1, ![q] = @ + 1]
  <1>0. \A z \in D : lo[z] \in Int /\ hi[z] \in Int
    BY LinkedNames
  <1>1. 1 - dir \in Side /\ 1 - dir # dir /\ 1 - (1 - dir) = dir /\ \A e \in Side : e # dir => e = 1 - dir
    BY SideFlip
  <1>2. g \in N /\ g # h
    BY ChildOf
  <1>3. p \in N /\ p # g /\ p # h
    BY <1>0, <1>1, <1>2, ChildOf, LinkedNames
  <1>4. q \in N /\ q # p /\ q # g /\ q # h
    <2>1. q \in N /\ q # p /\ hi[q] - lo[q] < hi[p] - lo[p]
      BY <1>3, ChildOf
    <2>2. hi[p] - lo[p] < hi[g] - lo[g] /\ hi[g] - lo[g] < hi[h] - lo[h]
      BY <1>1, <1>2, ChildOf
    <2>. QED BY <1>0, <1>2, <1>3, <2>1, <2>2
  <1>5. \A y \in {a, b} : y # NULL => y \in N /\ y # p /\ y # g /\ y # q
    <2>. SUFFICES ASSUME NEW e \in Side, NEW y, y = Child(t, q, e), y # NULL
                  PROVE  y \in N /\ y # p /\ y # g /\ y # q
      BY <1>1
    <2>1. y \in N /\ y # q /\ hi[y] - lo[y] < hi[q] - lo[q]
      BY <1>4, ChildOf
    <2>2. hi[p] - lo[p] < hi[g] - lo[g] /\ hi[q] - lo[q] < hi[p] - lo[p]
      BY <1>1, <1>2, <1>3, ChildOf
    <2>. QED BY <1>0, <1>2, <1>3, <1>4, <2>1, <2>2
  <1>6. s # NULL => s \in N /\ s # g /\ s # p /\ s # q
    <2>. SUFFICES ASSUME s # NULL PROVE s \in N /\ s # g /\ s # p /\ s # q
      OBVIOUS
    <2>1. s \in N /\ s # g
      BY <1>1, <1>2, ChildOf
    <2>2. s # p /\ s # q
      BY <1>1, <1>2, <1>3, OnePlace
    <2>. QED BY <2>1, <2>2
  <1>7. c # q /\ (c # NULL => c \in N /\ c # g /\ c # p)
    <2>1. c # q
      BY <1>1, <1>3, OnePlace
    <2>2. c # NULL => c \in N /\ c # p /\ hi[c] - lo[c] < hi[p] - lo[p]
      BY <1>1, <1>3, ChildOf
    <2>3. hi[p] - lo[p] < hi[g] - lo[g]
      BY <1>1, <1>2, ChildOf
    <2>. QED BY <1>0, <1>2, <1>3, <2>1, <2>2, <2>3
  <1>8. ~IsRed(t, c)
    BY <1>1, <1>3, <1>7 DEF RedRule
  <1>9. /\ DOMAIN u.n = D
        /\ \A x \in D :
             /\ RedOf(u, x) = IF x \in {g, p} THEN TRUE ELSE IF x = q THEN FALSE ELSE RedOf(t, x)
             /\ \A e \in Side : Child(u, x, e) =
                  IF x = h /\ e = d2 THEN q
                  ELSE IF x = g /\ e = 1 - dir THEN b
                  ELSE IF x = p /\ e = dir THEN a
                  ELSE IF x = q THEN IF e = dir THEN g ELSE p
                  ELSE Child(t, x, e)
    BY DEF Turn2, Alike
  <1>10. \A x \in D : bh[x] \in Nat /\ RedOf(t, x) \in BOOLEAN
    BY Fields DEF Balanced
  <1>11. /\ b2 \in [D -> Int] /\ b2[g] = bh[g] - 1 /\ b2[q] = bh[q] + 1
         /\ \A x \in D \ {g, q} : b2[x] = bh[x]
    BY <1>2, <1>4 DEF Balanced
  <1>12. /\ bh[g] = bh[p] + 1 /\ bh[g] = Tall(bh, s) + 1
         /\ bh[p] = bh[q] /\ bh[p] = Tall(bh, c) /\ bh[q] = Tall(bh, a) /\ bh[q] = Tall(bh, b)
    <2>1. bh[g] = Tall(bh, p) + 1 /\ bh[g] = Tall(bh, s) + 1
      BY <1>1, <1>2 DEF Balanced, Bit
    <2>2. bh[p] = Tall(bh, q) + 0 /\ bh[p] = Tall(bh, c) + 0
      BY <1>1, <1>3 DEF Balanced, Bit
    <2>3. bh[q] = Tall(bh, a) + 0 /\ bh[q] = Tall(bh, b) + 0
      BY <1>1, <1>4 DEF Balanced, Bit
    <2>4. Tall(bh, p) = bh[p] /\ Tall(bh, q) = bh[q] /\ Tall(bh, c) \in Int /\ Tall(bh, a) \in Int /\ Tall(bh, b) \in Int
      BY <1>5, <1>7, <1>10 DEF Tall
    <2>. HIDE DEF a, b, c, s
    <2>. QED BY <1>3, <1>4, <1>10, <2>1, <2>2, <2>3, <2>4
  <1>. HIDE DEF b2
  <1>13. \A y : y # NULL /\ y \in D \ {g, q} => Tall(b2, y) = Tall(bh, y)
    BY <1>11 DEF Tall
  <1>14. /\ Tall(b2, c) = Tall(bh, c) /\ Tall(b2, s) = Tall(bh, s)
         /\ Tall(b2, a) = Tall(bh, a) /\ Tall(b2, b) = Tall(bh, b)
         /\ Tall(b2, p) = bh[p] /\ Tall(b2, g) = bh[g] - 1 /\ Tall(b2, q) = bh[q] + 1
    BY <1>2, <1>3, <1>4, <1>5, <1>6, <1>7, <1>11, <1>13, LinkedNames DEF Tall
  <1>20. /\ Child(u, g, dir) = s /\ Child(u, g, 1 - dir) = b
         /\ Child(u, p, dir) = a /\ Child(u, p, 1 - dir) = c
         /\ Child(u, q, dir) = g /\ Child(u, q, 1 - dir) = p
    <2>1. Child(u, g, dir) = s /\ Child(u, g, 1 - dir) = b
      BY <1>1, <1>2, <1>3, <1>4, <1>9
    <2>2. Child(u, p, dir) = a /\ Child(u, p, 1 - dir) = c
      BY ZenonT(60), <1>1, <1>3, <1>4, <1>9
    <2>3. Child(u, q, dir) = g /\ Child(u, q, 1 - dir) = p
      BY <1>1, <1>4, <1>9
    <2>. QED BY <2>1, <2>2, <2>3
  <1>21. /\ bh[g] \in Nat /\ bh[p] \in Nat /\ bh[q] \in Nat
         /\ Tall(b2, b) = bh[g] - 1 /\ Tall(b2, s) = bh[g] - 1
         /\ Tall(b2, a) = bh[p] /\ Tall(b2, c) = bh[p]
    <2>1. bh[g] \in Nat /\ bh[p] \in Nat /\ bh[q] \in Nat
      BY <1>2, <1>3, <1>4, <1>10
    <2>2. Tall(bh, s) \in Int
      BY <1>6, <1>10 DEF Tall
    <2>3. \A i, j, k \in Int : j = k + 1 /\ j = i + 1 => i = j - 1 /\ k = j - 1
      OBVIOUS
    <2>. HIDE DEF a, b, c, s
    <2>4. Tall(bh, s) = bh[g] - 1 /\ bh[p] = bh[g] - 1
      BY <1>12, <2>1, <2>2, <2>3
    <2>5. Tall(bh, b) = bh[p] /\ Tall(bh, a) = bh[p] /\ Tall(bh, c) = bh[p]
      BY <1>12
    <2>. QED BY <1>14, <2>1, <2>4, <2>5
  <1>15. ASSUME NEW x \in N, NEW e \in Side
         PROVE  b2[x] = Tall(b2, Child(u, x, e)) + Bit(~RedOf(u, x))
    <2>0. e = dir \/ e = 1 - dir
      BY <1>1
    <2>1. CASE x = g
      <3>1. Bit(~RedOf(u, x)) = 0 /\ b2[x] = bh[g] - 1
        BY <1>9, <1>11, <2>1 DEF Bit
      <3>2. Tall(b2, Child(u, x, e)) = bh[g] - 1
        BY <1>20, <1>21, <2>0, <2>1
      <3>. QED BY <1>21, <3>1, <3>2
    <2>2. CASE x = p
      <3>1. Bit(~RedOf(u, x)) = 0 /\ b2[x] = bh[p]
        BY <1>3, <1>4, <1>9, <1>11, <2>2 DEF Bit
      <3>2. Tall(b2, Child(u, x, e)) = bh[p]
        BY <1>20, <1>21, <2>0, <2>2
      <3>. QED BY <1>21, <3>1, <3>2
    <2>3. CASE x = q
      <3>1. Bit(~RedOf(u, x)) = 1 /\ b2[x] = bh[q] + 1
        BY <1>4, <1>9, <1>11, <2>3 DEF Bit
      <3>2. Tall(b2, Child(u, x, e)) = bh[q]
        BY <1>12, <1>14, <1>20, <1>21, <2>0, <2>3
      <3>. QED BY <1>21, <3>1, <3>2
    <2>4. CASE x = h /\ e = d2
      <3>1. Child(u, x, e) = q /\ Child(t, x, e) = g /\ RedOf(u, x) = RedOf(t, x)
        BY <1>2, <1>3, <1>4, <1>9, <2>4
      <3>2. bh[x] = Tall(bh, g) + Bit(~RedOf(t, x)) /\ b2[x] = bh[x]
        BY <1>2, <1>3, <1>4, <1>11, <2>4, <3>1 DEF Balanced
      <3>3. Tall(b2, q) = bh[q] + 1 /\ Tall(bh, g) = bh[q] + 1
        BY <1>2, <1>12, <1>14, LinkedNames DEF Tall
      <3>. QED BY <3>1, <3>2, <3>3
    <2>5. CASE x # g /\ x # p /\ x # q /\ ~(x = h /\ e = d2)
      <3>. DEFINE y == Child(t, x, e)
      <3>1. Child(u, x, e) = y /\ RedOf(u, x) = RedOf(t, x)
        BY <1>9, <2>5
      <3>2. bh[x] = Tall(bh, y) + Bit(~RedOf(t, x)) /\ b2[x] = bh[x]
        BY <1>11, <2>5 DEF Balanced
      <3>3. y # NULL => y \in D
        BY ChildOf
      <3>4. y # g
        BY <2>5, OnePlace
      <3>5. y # q
        BY <1>3, <2>5, OnePlace
      <3>6. Tall(b2, y) = Tall(bh, y)
        <4>. HIDE DEF y
        <4>. QED BY <1>13, <3>3, <3>4, <3>5 DEF Tall
      <3>. QED BY <3>1, <3>2, <3>6
    <2>. QED BY <2>1, <2>2, <2>3, <2>4, <2>5
  <1>16. b2 \in [DOMAIN u.n -> Nat]
    <2>1. \A x \in D : b2[x] \in Nat
      <3>1. bh[g] - 1 \in Nat
        BY <1>2, <1>3, <1>10, <1>12
      <3>. QED BY <1>2, <1>4, <1>10, <1>11, <3>1
    <2>. QED BY <1>9, <1>11, <2>1
  <1>17. Balanced(u, b2)
    BY <1>9, <1>15, <1>16 DEF Balanced
  <1>18. ASSUME NEW x \in N, NEW e \in Side, RedOf(u, x), IsRed(u, Child(u, x, e))
         PROVE  FALSE
    <2>0. \A y : y \in D \ {g, p} /\ ~IsRed(t, y) => ~IsRed(u, y)
      BY <1>9, IsRedIs
    <2>00. ~IsRed(t, a) /\ ~IsRed(t, b)
      BY <1>1 DEF Side
    <2>1. CASE x = g
      <3>1. Child(u, x, e) = b \/ Child(u, x, e) = s
        BY <1>1, <1>20, <2>1
      <3>2. ~IsRed(u, b) /\ ~IsRed(u, s)
        BY <1>5, <1>6, <2>0, <2>00 DEF IsRed
      <3>. QED BY <1>18, <3>1, <3>2
    <2>2. CASE x = p
      <3>1. Child(u, x, e) = a \/ Child(u, x, e) = c
        BY <1>1, <1>20, <2>2
      <3>2. ~IsRed(u, a) /\ ~IsRed(u, c)
        BY <1>5, <1>7, <1>8, <2>0, <2>00 DEF IsRed
      <3>. QED BY <1>18, <3>1, <3>2
    <2>3. CASE x = q
      BY <1>4, <1>9, <1>18, <2>3
    <2>4. CASE x = h /\ e = d2
      <3>1. Child(u, x, e) = q
        BY <1>9, <2>4
      <3>2. ~IsRed(u, q)
        BY <1>4, <1>9, IsRedIs
      <3>. QED BY <3>1, <3>2, <1>18
    <2>5. CASE x # g /\ x # p /\ x # q /\ ~(x = h /\ e = d2)
      <3>. DEFINE y == Child(t, x, e)
      <3>1. Child(u, x, e) = y /\ RedOf(t, x)
        BY <1>9, <1>18, <2>5
      <3>2. y # NULL
        BY <1>18, <3>1 DEF IsRed
      <3>3. y \in D /\ y # g /\ y # p /\ y # q
        <4>1. y # g
          BY <2>5, OnePlace
        <4>2. y # q
          BY <1>3, <2>5, OnePlace
        <4>3. y # p
          BY <1>1, <1>2, <2>5, OnePlace
        <4>. QED BY <3>2, <4>1, <4>2, <4>3, ChildOf
      <3>4. ~IsRed(t, y)
        BY <3>1, <3>3 DEF RedRule
      <3>. QED BY <1>18, <2>0, <3>1, <3>3, <3>4
    <2>. QED BY <2>1, <2>2, <2>3, <2>4, <2>5
  <1>19. RedRule(u, NULL)
    BY <1>9, <1>18 DEF RedRule
  <1>. QED BY <1>17, <1>19

(* The direction that a comparison gives. *)
LEMMA BitIs == ASSUME NEW b \in BOOLEAN PROVE Bit(b) \in Side /\ (Bit(b) = 1 <=> b)
  BY DEF Bit, Side

(* the side of x on which the child c hangs, as the code finds it *)
LEMMA WhichSide ==
  ASSUME NEW t, NEW x, NEW c, c # NULL, \E e \in Side : Child(t, x, e) = c
  PROVE  Bit(Child(t, x, 1) = c) \in Side /\ Child(t, x, Bit(Child(t, x, 1) = c)) = c
  <1>1. PICK e \in Side : Child(t, x, e) = c
    OBVIOUS
  <1>2. CASE Child(t, x, 1) = c
    BY <1>2 DEF Bit, Side
  <1>3. CASE Child(t, x, 1) # c
    <2>1. e = 0
      BY <1>1, <1>3 DEF Side
    <2>. QED BY <1>1, <1>3, <2>1 DEF Bit, Side
  <1>. QED BY <1>2, <1>3

(* a red pair put in order *)
LEMMA PairFixed ==
  ASSUME NEW V, NEW t, Typed(t, V), NEW lo, NEW hi, Linked(t, lo, hi), NEW bh, Balanced(t, bh),
         NEW s, s.h \in DOMAIN t.n, \E e \in Side : Child(t, s.h, e) = s.g, s.g # NULL,
         s.last \in Side, s.p = Child(t, s.g, s.last), s.p # NULL,
         NEW d \in Side, NEW q, q = Child(t, s.p, d), q # NULL, RedRule(t, q),
         RedOf(t, q), RedOf(t, s.p), ~IsRed(t, Child(t, s.g, 1 - s.last)),
         ~IsRed(t, Child(t, q, 0)), ~IsRed(t, Child(t, q, 1)),
         NEW u, u = FixPair(t, s, q)
  PROVE  /\ Typed(u, V)
         /\ \E d2 \in Side : \E l2, h2, b2 :
              /\ Linked(u, l2, h2) /\ Balanced(u, b2) /\ RedRule(u, NULL)
              /\ Child(t, s.h, d2) = s.g
              /\ \/ d = s.last /\ Turn1(t, u, lo, hi, l2, h2, s.h, d2, s.g, s.p, Child(t, s.p, 1 - s.last), 1 - s.last)
                 \/ d # s.last /\ Turn2(t, u, lo, hi, l2, h2, s.h, d2, s.g, s.p, q, 1 - s.last)
  <1>1. PICK d2 : d2 = Bit(Child(t, s.h, 1) = s.g)
    OBVIOUS
  <1>2. d2 \in Side /\ Child(t, s.h, d2) = s.g
    <2>1. PICK h0, g0 : h0 = s.h /\ g0 = s.g
      OBVIOUS
    <2>2. g0 # NULL /\ \E e \in Side : Child(t, h0, e) = g0
      BY <2>1
    <2>3. Bit(Child(t, h0, 1) = g0) \in Side /\ Child(t, h0, Bit(Child(t, h0, 1) = g0)) = g0
      BY ONLY <2>2, WhichSide
    <2>. QED BY <1>1, <2>1, <2>3
  <1>3. PICK h, g, p, last, dir : h = s.h /\ g = s.g /\ p = s.p /\ last = s.last /\ dir = 1 - last
    OBVIOUS
  <1>4. /\ last \in Side /\ dir \in Side /\ dir # last /\ 1 - dir = last /\ \A e \in Side : e # last => e = dir
    BY <1>3, SideFlip
  <1>5. /\ h \in DOMAIN t.n /\ g = Child(t, h, d2) /\ g # NULL /\ p = Child(t, g, last) /\ p # NULL
        /\ q = Child(t, p, d) /\ RedOf(t, p) /\ ~IsRed(t, Child(t, g, dir))
    BY <1>2, <1>3
  <1>6. g \in DOMAIN t.n /\ g # FalseRoot
    BY <1>2, <1>5, ChildOf
  <1>7. p \in DOMAIN t.n /\ p # FalseRoot
    BY <1>4, <1>5, <1>6, ChildOf
  <1>8. p # q
    BY <1>5, <1>7, ChildOf
  <1>9. ~RedOf(t, g)
    BY <1>4, <1>5, <1>6, <1>8, IsRedIs DEF RedRule
  <1>10. CASE d = last
    <2>1. u = Rotate(t, h, d2, g, dir)
      <3>1. IsRed(t, q) /\ IsRed(t, s.p)
        BY IsRedIs
      <3>. QED BY <1>1, <1>3, <1>5, <1>10, <3>1 DEF FixPair
    <2>2. p = Child(t, g, 1 - dir)
      BY <1>4, <1>5
    <2>3. PICK c : c = Child(t, p, dir)
      OBVIOUS
    <2>4. Typed(u, V) /\ \E l2, h2 : Turn1(t, u, lo, hi, l2, h2, h, d2, g, p, c, dir)
      BY <1>2, <1>4, <1>5, <2>1, <2>2, <2>3, RotateTurns
    <2>5. PICK l2, h2 : Turn1(t, u, lo, hi, l2, h2, h, d2, g, p, c, dir)
      BY <2>4
    <2>6. Rotated(t, u, h, d2, g, p, c, 1 - last) /\ Linked(u, l2, h2)
      BY <1>3, <2>5 DEF Turn1
    <2>7. RedRule(u, NULL) /\ \E b2 : Balanced(u, b2)
      <3>1. c = Child(t, p, 1 - last) /\ ~IsRed(t, Child(t, g, 1 - last))
        BY <1>3, <1>5, <2>3
      <3>. QED BY <1>2, <1>4, <1>5, <1>9, <1>10, <2>6, <3>1, SingleColours
    <2>. QED BY <1>2, <1>3, <1>10, <2>3, <2>4, <2>5, <2>6, <2>7
  <1>11. CASE d # last
    <2>0. d = dir
      BY <1>4, <1>11
    <2>1. u = Rotate2(t, h, d2, g, dir)
      <3>1. IsRed(t, q) /\ IsRed(t, s.p)
        BY IsRedIs
      <3>2. q # Child(t, p, last)
        BY <1>4, <1>5, <1>7, <1>11, OnePlace
      <3>. QED BY <1>1, <1>3, <1>5, <3>1, <3>2 DEF FixPair
    <2>2. p = Child(t, g, 1 - dir) /\ q = Child(t, p, dir)
      BY <1>4, <1>5, <2>0
    <2>4. Typed(u, V) /\ \E l2, h2 : Turn2(t, u, lo, hi, l2, h2, h, d2, g, p, q, dir)
      BY <1>2, <1>4, <1>5, <2>1, <2>2, Rotate2Turns
    <2>5. PICK l2, h2 : Turn2(t, u, lo, hi, l2, h2, h, d2, g, p, q, dir)
      BY <2>4
    <2>7. RedRule(u, NULL) /\ \E b2 : Balanced(u, b2)
      BY <1>2, <1>4, <1>5, <1>9, <2>2, <2>5, DoubleColours
    <2>8. Linked(u, l2, h2)
      BY <2>5 DEF Turn2
    <2>. QED BY <1>2, <1>3, <1>11, <2>4, <2>5, <2>7, <2>8
  <1>. QED BY <1>10, <1>11

BothRed(t, x) == IsRed(t, Child(t, x, 0)) /\ IsRed(t, Child(t, x, 1))
Calm(t, x) == x # NULL /\ ~RedOf(t, x) /\ ~BothRed(t, x)
Sound(t, lo, hi, bh, q) == Linked(t, lo, hi) /\ Balanced(t, bh) /\ RedRule(t, q)

(* The order of the links depends on the keys, the children and the parents. *)
LEMMA SameLinks ==
  ASSUME NEW t, NEW lo, NEW hi, Linked(t, lo, hi), NEW u, DOMAIN u.n = DOMAIN t.n,
         \A x \in DOMAIN t.n : /\ KeyOf(u, x) = KeyOf(t, x) /\ ParentOf(u, x) = ParentOf(t, x)
                               /\ \A e \in Side : Child(u, x, e) = Child(t, x, e)
  PROVE  Linked(u, lo, hi)
  <1>. DEFINE D == DOMAIN t.n
  <1>1. \A x \in D \ {FalseRoot} :
         \/ x = Child(t, FalseRoot, 1)
         \/ /\ ParentOf(t, x) \in D \ {FalseRoot}
            /\ \E d \in Side : Child(t, ParentOf(t, x), d) = x
    BY DEF Linked
  <1>2. FalseRoot \in D /\ 1 \in Side
    BY DEF Linked, Side
  <1>3. \A x \in D \ {FalseRoot} :
         \/ x = Child(u, FalseRoot, 1)
         \/ /\ ParentOf(u, x) \in D \ {FalseRoot}
            /\ \E d \in Side : Child(u, ParentOf(u, x), d) = x
    BY <1>1, <1>2
  <1>4. \A x \in D : \A d \in Side :
         /\ Child(u, x, d) \in Links(u)
         /\ Child(u, x, d) # NULL =>
            /\ lo[Child(u, x, d)] = Lower(u, lo, x, d)
            /\ hi[Child(u, x, d)] = Upper(u, hi, x, d)
            /\ x # FalseRoot => ParentOf(u, Child(u, x, d)) = x
    <2>. SUFFICES ASSUME NEW x \in D, NEW d \in Side
                  PROVE  /\ Child(t, x, d) \in Links(t)
                         /\ Child(t, x, d) # NULL =>
                            /\ lo[Child(t, x, d)] = Lower(u, lo, x, d)
                            /\ hi[Child(t, x, d)] = Upper(u, hi, x, d)
                            /\ x # FalseRoot => ParentOf(u, Child(t, x, d)) = x
      BY DEF Links
    <2>1. Lower(u, lo, x, d) = Lower(t, lo, x, d) /\ Upper(u, hi, x, d) = Upper(t, hi, x, d)
      BY DEF Lower, Upper
    <2>2. Child(t, x, d) \in Links(t)
      BY DEF Linked
    <2>3. CASE Child(t, x, d) # NULL
      <3>1. Child(t, x, d) \in D
        BY <2>2, <2>3 DEF Links
      <3>. QED BY <2>1, <2>2, <2>3, <3>1 DEF Linked
    <2>. QED BY <2>2, <2>3
  <1>. QED BY <1>2, <1>3, <1>4 DEF Linked

(* Flip at a node between red rules: only its own parent may now object. *)
LEMMA FlipIs ==
  ASSUME NEW V, NEW t, Typed(t, V), NEW lo, NEW hi, NEW bh, Sound(t, lo, hi, bh, NULL),
         NEW q \in DOMAIN t.n, q # FalseRoot, NEW u, u = Flip(t, q)
  PROVE  /\ Typed(u, V) /\ Alike(t, u)
         /\ \E b2 : Sound(u, lo, hi, b2, q)
         /\ \A x \in DOMAIN t.n : \A e \in Side : Child(u, x, e) = Child(t, x, e)
         /\ ~BothRed(t, q) => u = t
         /\ BothRed(t, q) => /\ RedOf(u, q)
                             /\ \A e \in Side : Calm(u, Child(t, q, e))
                             /\ \A x \in DOMAIN t.n :
                                  x # q /\ (\A e \in Side : x # Child(t, q, e)) => RedOf(u, x) = RedOf(t, x)
  <1>. DEFINE D == DOMAIN t.n
              a == Child(t, q, 0)
              b == Child(t, q, 1)
  <1>0. Linked(t, lo, hi) /\ Balanced(t, bh) /\ RedRule(t, NULL)
    BY DEF Sound
  <1>00. 0 \in Side /\ 1 \in Side /\ \A e \in Side : e = 0 \/ e = 1
    BY DEF Side
  <1>1. CASE ~BothRed(t, q)
    <2>1. u = t
      BY <1>1 DEF Flip, BothRed
    <2>2. Alike(t, t) /\ RedRule(t, q)
      <3>1. ASSUME NEW x \in D \ {FalseRoot}, NEW d \in Side, RedOf(t, x), IsRed(t, Child(t, x, d)) 
            PROVE FALSE
        <4>1. Child(t, x, d) = NULL
          BY <1>0, <3>1 DEF RedRule
        <4>. QED BY <4>1, <3>1 DEF IsRed
      <3>. QED BY <3>1 DEF RedRule, Alike
    <2>. QED BY <1>0, <1>1, <2>1, <2>2 DEF Sound
  <1>2. CASE BothRed(t, q)
    <2>1. u = Paint(t, {q}, {a, b})
      BY <1>2 DEF Flip, BothRed
    <2>2. /\ Typed(u, V) /\ Alike(t, u)
          /\ \A x \in D :
              /\ RedOf(u, x) = ((RedOf(t, x) \/ x \in {q}) /\ x \notin {a, b})
              /\ ParentOf(u, x) = ParentOf(t, x)
              /\ \A e \in Side : Child(u, x, e) = Child(t, x, e)
      BY <2>1, PaintIs
    <2>3. /\ a # NULL /\ b # NULL /\ RedOf(t, a) /\ RedOf(t, b)
      BY <1>2, IsRedIs DEF BothRed
    <2>4. a \in D /\ a # q /\ a # FalseRoot /\ b \in D /\ b # q /\ b # FalseRoot
      BY <1>0, <1>00, <2>3, ChildOf
    <2>5. a # b
      BY <1>0, <1>00, <2>3, OnePlace
    <2>6. ~RedOf(t, q)
      BY <1>0, <1>00, <2>3, IsRedIs DEF RedRule
    <2>7. /\ DOMAIN u.n = D /\ RedOf(u, q) /\ ~RedOf(u, a) /\ ~RedOf(u, b)
          /\ \A x \in D : x \notin {q, a, b} => RedOf(u, x) = RedOf(t, x)
      <3>1. \A x \in D : RedOf(t, x) \in BOOLEAN
        BY Fields
      <3>. HIDE DEF a, b
      <3>. QED BY <2>2, <2>4, <3>1 DEF Alike
    <2>8. Linked(u, lo, hi)
      <3>1. \A x \in DOMAIN t.n : KeyOf(u, x) = KeyOf(t, x)
        BY <2>2 DEF Alike
      <3>. QED BY <1>0, <2>2, <2>7, <3>1, SameLinks
    <2>. DEFINE b2 == [bh EXCEPT ![a] = @ + 1, ![b] = @ + 1]
    <2>9. \A x \in D : bh[x] \in Nat
      BY <1>0 DEF Balanced
    <2>10. /\ b2 \in [D -> Nat] /\ b2[a] = bh[a] + 1 /\ b2[b] = bh[b] + 1
           /\ \A x \in D \ {a, b} : b2[x] = bh[x]
      <3>1. bh \in [D -> Nat]
        BY <1>0 DEF Balanced
      <3>. HIDE DEF a, b
      <3>. QED BY <2>4, <2>5, <3>1
    <2>. HIDE DEF b2
    <2>11. ASSUME NEW x \in D \ {FalseRoot}, NEW d \in Side
           PROVE  b2[x] = Tall(b2, Child(t, x, d)) + Bit(~RedOf(u, x))
      <3>1. bh[x] = Tall(bh, Child(t, x, d)) + Bit(~RedOf(t, x))
        BY <1>0 DEF Balanced
      <3>2. CASE x = q
        <4>1. Child(t, x, d) = a \/ Child(t, x, d) = b
          BY <1>00, <3>2
        <4>2. Tall(b2, Child(t, x, d)) = Tall(bh, Child(t, x, d)) + 1 /\ Tall(bh, Child(t, x, d)) \in Nat
          BY <2>3, <2>4, <2>9, <2>10, <4>1 DEF Tall
        <4>3. b2[x] = bh[x]
          BY <2>4, <2>10, <3>2
        <4>. QED BY <2>6, <2>7, <3>1, <3>2, <4>2, <4>3 DEF Bit
      <3>3. CASE x # q
        <4>1. Child(t, x, d) # a /\ Child(t, x, d) # b
          BY <1>0, <1>00, <2>3, <3>3, OnePlace
        <4>2. Tall(b2, Child(t, x, d)) = Tall(bh, Child(t, x, d)) /\ Tall(bh, Child(t, x, d)) \in Nat
          <5>1. Child(t, x, d) # NULL => Child(t, x, d) \in D
            BY <1>0, ChildOf
          <5>. QED BY <2>9, <2>10, <4>1, <5>1 DEF Tall
        <4>3. CASE x \in {a, b}
          <5>1. b2[x] = bh[x] + 1 /\ RedOf(t, x) /\ ~RedOf(u, x)
            BY <2>3, <2>7, <2>10, <4>3
          <5>. QED BY <3>1, <4>2, <5>1 DEF Bit
        <4>4. CASE x \notin {a, b}
          BY <2>7, <2>10, <3>1, <3>3, <4>2, <4>4
        <4>. QED BY <4>3, <4>4
      <3>. QED BY <3>2, <3>3
    <2>12. Balanced(u, b2)
      BY <2>2, <2>7, <2>10, <2>11 DEF Balanced
    <2>13. RedRule(u, q)
      <3>. SUFFICES ASSUME NEW x \in D \ {FalseRoot}, NEW d \in Side, RedOf(u, x), IsRed(u, Child(t, x, d)),
                           Child(t, x, d) # q
                    PROVE  FALSE
        BY <2>2, <2>7 DEF RedRule
      <3>1. Child(t, x, d) # NULL /\ RedOf(u, Child(t, x, d))
        BY IsRedIs
      <3>2. Child(t, x, d) \in D
        BY <1>0, <3>1, ChildOf
      <3>3. Child(t, x, d) # a /\ Child(t, x, d) # b
        BY <2>7, <3>1
      <3>4. x # q
        BY <1>00, <3>3
      <3>5. x # a /\ x # b
        BY <2>7
      <3>6. RedOf(t, x) /\ IsRed(t, Child(t, x, d))
        BY <2>7, <3>1, <3>2, <3>3, <3>4, <3>5, IsRedIs
      <3>. QED BY <1>0, <3>1, <3>6 DEF RedRule
    <2>14. ASSUME NEW e \in Side
           PROVE  Calm(u, Child(t, q, e))
      <3>. DEFINE y == Child(t, q, e)
      <3>1. y = a \/ y = b
        BY <1>00
      <3>2. y # NULL /\ y \in D /\ ~RedOf(u, y) /\ RedOf(t, y) /\ y # FalseRoot
        BY <2>3, <2>4, <2>7, <3>1
      <3>. DEFINE z == Child(t, y, 0)
      <3>3. ~IsRed(t, z)
        <4>1. RedOf(t, y) /\ IsRed(t, z) => z = NULL
          BY <1>0, <1>00, <3>2 DEF RedRule
        <4>. QED BY <3>2, <4>1 DEF IsRed
      <3>4. z # NULL => z # q /\ z \in D
        <4>. SUFFICES ASSUME z # NULL PROVE z # q /\ z \in D
          OBVIOUS
        <4>1. z \in D /\ hi[z] - lo[z] < hi[y] - lo[y]
          BY <1>0, <1>00, <3>2, ChildOf
        <4>2. hi[y] - lo[y] < hi[q] - lo[q]
          BY <1>0, <3>2, ChildOf
        <4>. QED BY <1>0, <3>2, <4>1, <4>2, LinkedNames
      <3>5. ~IsRed(u, z)
        <4>. HIDE DEF z, a, b
        <4>. QED BY <2>7, <3>3, <3>4, IsRedIs
      <3>6. Child(u, y, 0) = z
        BY <1>00, <2>2, <3>2
      <3>. QED BY <3>2, <3>5, <3>6 DEF Calm, BothRed
    <2>15. \A x \in D : x # q /\ (\A e \in Side : x # Child(t, q, e)) => RedOf(u, x) = RedOf(t, x)
      BY <1>00, <2>7
    <2>. QED BY <1>2, <2>2, <2>7, <2>8, <2>12, <2>13, <2>14, <2>15 DEF Sound
  <1>. QED BY <1>1, <1>2

(* A key that is not there leaves a name for its node. *)
LEMMA FreshIs ==
  ASSUME NEW t, NEW N, DOMAIN t.n = N \/ DOMAIN t.n = N \cup {FalseRoot}, FalseRoot \notin N,
         \A x \in N : KeyOf(t, x) \in Key,
         \A x, y \in N : KeyOf(t, x) = KeyOf(t, y) => x = y,
         NEW k \in Key, \A x \in N : KeyOf(t, x) # k
  PROVE  Fresh(t, k) \in Key /\ Fresh(t, k) \notin DOMAIN t.n
  <1>1. CASE k \notin DOMAIN t.n
    BY <1>1 DEF Fresh
  <1>2. CASE k \in DOMAIN t.n
    <2>1. \E x \in Key : x \notin DOMAIN t.n
      <3>. SUFFICES ASSUME \A x \in Key : x \in DOMAIN t.n PROVE FALSE
        OBVIOUS
      <3>0. FalseRoot \notin Key
        BY KeyAssumption DEF Key, FalseRoot
      <3>1. Key \subseteq N
        BY <3>0
      <3>2. IsFiniteSet(Key) /\ Cardinality(Key) = NKey
        BY KeyAssumption, FS_Interval DEF Key
      <3>3. IsFiniteSet(Key \ {k}) /\ Cardinality(Key \ {k}) = NKey - 1
        BY <3>2, FS_RemoveElement
      <3>. DEFINE f == [x \in Key |-> KeyOf(t, x)]
      <3>4. f \in [Key -> Key \ {k}]
        BY <3>1
      <3>5. Cardinality(Key \ {k}) < Cardinality(Key)
        BY <3>2, <3>3, KeyAssumption
      <3>6. \E x, y \in Key : x # y /\ f[x] = f[y]
        <4>. HIDE DEF f
        <4>. QED BY <3>2, <3>3, <3>4, <3>5, FS_PigeonHole
      <3>. QED BY <3>1, <3>6
    <2>. QED BY <1>2, <2>1 DEF Fresh
  <1>. QED BY <1>1, <1>2

(* a red leaf hung on a free side *)
LEMMA AddedIs ==
  ASSUME NEW V, NEW t, Typed(t, V), NEW lo, NEW hi, NEW bh, Sound(t, lo, hi, bh, NULL),
         NEW p \in DOMAIN t.n, p # FalseRoot, NEW d \in Side, Child(t, p, d) = NULL,
         NEW q \in Key, q \notin DOMAIN t.n, NEW k \in Key, NEW v \in V,
         Lower(t, lo, p, d) < k, k < Upper(t, hi, p, d),
         NEW u, u = Link(Allocate(t, q, k, v), p, d, q)
  PROVE  /\ Typed(u, V) /\ DOMAIN u.n = DOMAIN t.n \cup {q}
         /\ u.root = t.root /\ u.beg = t.beg /\ u.len = t.len
         /\ \A x \in DOMAIN t.n : /\ KeyOf(u, x) = KeyOf(t, x) /\ ValOf(u, x) = ValOf(t, x)
                                  /\ RedOf(u, x) = RedOf(t, x)
         /\ KeyOf(u, q) = k /\ ValOf(u, q) = v /\ RedOf(u, q)
         /\ \A e \in Side : Child(u, q, e) = NULL
         /\ \A x \in DOMAIN t.n : \A e \in Side :
              Child(u, x, e) = IF x = p /\ e = d THEN q ELSE Child(t, x, e)
         /\ \E l2, h2, b2 : Sound(u, l2, h2, b2, q)
  <1>. DEFINE D == DOMAIN t.n
              w == Allocate(t, q, k, v)
              l2 == [x \in D \cup {q} |-> IF x = q THEN Lower(t, lo, p, d) ELSE lo[x]]
              h2 == [x \in D \cup {q} |-> IF x = q THEN Upper(t, hi, p, d) ELSE hi[x]]
              b2 == [x \in D \cup {q} |-> IF x = q THEN 0 ELSE bh[x]]
  <1>0. Linked(t, lo, hi) /\ Balanced(t, bh) /\ RedRule(t, NULL)
    BY DEF Sound
  <1>1. k \in Int /\ q \in Int /\ q # NULL /\ q # FalseRoot /\ q # p /\ 1 <= k /\ k <= NKey /\ NKey \in Nat /\ NULL \notin D
    BY <1>0, LinkedNames, Names
  <1>2. /\ Typed(w, V) /\ DOMAIN w.n = D \cup {q}
        /\ w.root = t.root /\ w.beg = t.beg /\ w.len = t.len
        /\ \A y \in D :
              /\ KeyOf(w, y) = KeyOf(t, y) /\ ValOf(w, y) = ValOf(t, y)
              /\ RedOf(w, y) = RedOf(t, y) /\ ParentOf(w, y) = ParentOf(t, y)
              /\ \A e \in Side : Child(w, y, e) = Child(t, y, e)
        /\ KeyOf(w, q) = k /\ ValOf(w, q) = v /\ RedOf(w, q) /\ ParentOf(w, q) = NULL
        /\ \A e \in Side : Child(w, q, e) = NULL
    BY <1>1, AllocateIs
  <1>. HIDE DEF w
  <1>3. /\ Typed(u, V) /\ Alike(w, u)
        /\ \A x \in DOMAIN w.n :
              /\ RedOf(u, x) = RedOf(w, x) /\ ParentOf(u, x) = IF x = q THEN p ELSE ParentOf(w, x)
              /\ \A e \in Side : Child(u, x, e) = IF x = p /\ e = d THEN q ELSE Child(w, x, e)
    <2>1. q \in Links(w) /\ p \in DOMAIN w.n /\ u = Link(w, p, d, q)
      BY <1>2 DEF Links, w
    <2>. QED BY <1>2, <2>1, LinkIs
  <1>4. /\ DOMAIN u.n = D \cup {q} /\ u.root = t.root /\ u.beg = t.beg /\ u.len = t.len
        /\ \A x \in D : /\ KeyOf(u, x) = KeyOf(t, x) /\ ValOf(u, x) = ValOf(t, x)
                        /\ RedOf(u, x) = RedOf(t, x) /\ ParentOf(u, x) = ParentOf(t, x)
                        /\ \A e \in Side : Child(u, x, e) = IF x = p /\ e = d THEN q ELSE Child(t, x, e)
        /\ KeyOf(u, q) = k /\ ValOf(u, q) = v /\ RedOf(u, q) /\ ParentOf(u, q) = p
        /\ \A e \in Side : Child(u, q, e) = NULL
    BY <1>1, <1>2, <1>3 DEF Alike
  <1>5. \A x \in D : lo[x] \in Int /\ hi[x] \in Int /\ KeyOf(t, x) \in Int /\ bh[x] \in Nat
    BY <1>0, LinkedNames DEF Balanced
  <1>6. Lower(t, lo, p, d) \in Int /\ Upper(t, hi, p, d) \in Int
    BY <1>5 DEF Lower, Upper
  <1>7. /\ l2 \in [D \cup {q} -> Int] /\ h2 \in [D \cup {q} -> Int] /\ b2 \in [D \cup {q} -> Nat]
        /\ l2[q] = Lower(t, lo, p, d) /\ h2[q] = Upper(t, hi, p, d) /\ b2[q] = 0
        /\ \A x \in D : l2[x] = lo[x] /\ h2[x] = hi[x] /\ b2[x] = bh[x]
    BY <1>5, <1>6
  <1>. HIDE DEF l2, h2, b2
  <1>8. ASSUME NEW x \in D, NEW e \in Side
        PROVE  Lower(u, l2, x, e) = Lower(t, lo, x, e) /\ Upper(u, h2, x, e) = Upper(t, hi, x, e)
    BY <1>4, <1>7 DEF Lower, Upper
  <1>9. ASSUME NEW x \in D \cup {q}, NEW e \in Side
        PROVE  /\ Child(u, x, e) \in Links(u)
               /\ Child(u, x, e) # NULL =>
                    /\ l2[Child(u, x, e)] = Lower(u, l2, x, e)
                    /\ h2[Child(u, x, e)] = Upper(u, h2, x, e)
                    /\ x # FalseRoot => ParentOf(u, Child(u, x, e)) = x
    <2>1. CASE x = q
      BY <1>4, <2>1 DEF Links
    <2>2. CASE x = p /\ e = d
      BY <1>4, <1>7, <1>8, <2>2 DEF Links
    <2>3. CASE x # q /\ ~(x = p /\ e = d)
      <3>. DEFINE y == Child(t, x, e)
      <3>1. Child(u, x, e) = y
        BY <1>4, <2>3
      <3>2. y \in D \cup {NULL}
        BY <1>0, <2>3 DEF Linked, Links
      <3>3. y # NULL => lo[y] = Lower(t, lo, x, e) /\ hi[y] = Upper(t, hi, x, e)
                        /\ (x # FalseRoot => ParentOf(t, y) = x)
        BY <1>0, <2>3, ChildOf
      <3>. HIDE DEF y
      <3>. QED BY <1>4, <1>7, <1>8, <2>3, <3>1, <3>2, <3>3 DEF Links
    <2>. QED BY <2>1, <2>2, <2>3
  <1>10. ASSUME NEW x \in (D \cup {q}) \ {FalseRoot}
         PROVE  \/ x = Child(u, FalseRoot, 1)
                \/ /\ ParentOf(u, x) \in (D \cup {q}) \ {FalseRoot}
                   /\ \E e \in Side : Child(u, ParentOf(u, x), e) = x
    <2>1. CASE x = q
      BY <1>4, <2>1
    <2>2. CASE x # q
      <3>1. \/ x = Child(t, FalseRoot, 1)
            \/ /\ ParentOf(t, x) \in D \ {FalseRoot}
               /\ \E e \in Side : Child(t, ParentOf(t, x), e) = x
        BY <1>0, <2>2 DEF Linked
      <3>2. CASE x = Child(t, FalseRoot, 1)
        BY <1>0, <1>4, <2>2, <3>2 DEF Linked, Side
      <3>3. CASE /\ ParentOf(t, x) \in D \ {FalseRoot}
                 /\ \E e \in Side : Child(t, ParentOf(t, x), e) = x
        <4>1. PICK e \in Side : Child(t, ParentOf(t, x), e) = x
          BY <3>3
        <4>2. x # NULL /\ ParentOf(u, x) = ParentOf(t, x)
          BY <1>1, <1>4, <2>2
        <4>3. Child(u, ParentOf(t, x), e) = x
          BY <1>4, <3>3, <4>1, <4>2
        <4>. QED BY <3>3, <4>2, <4>3
      <3>. QED BY <3>1, <3>2, <3>3
    <2>. QED BY <2>1, <2>2
  <1>11. ASSUME NEW x \in D \cup {q}
         PROVE  KeyOf(u, x) \in Int /\ l2[x] < KeyOf(u, x) /\ KeyOf(u, x) < h2[x]
    <2>1. CASE x = q
      BY <1>1, <1>4, <1>7, <2>1
    <2>2. CASE x # q
      BY <1>0, <1>4, <1>7, <2>2 DEF Linked
    <2>. QED BY <2>1, <2>2
  <1>12. ASSUME NEW x \in (D \cup {q}) \ {FalseRoot}
         PROVE  KeyOf(u, x) \in Key /\ 0 <= l2[x] /\ h2[x] <= NKey + 1
    <2>0. \A y \in D \ {FalseRoot} : KeyOf(t, y) \in Key /\ 0 <= lo[y] /\ hi[y] <= NKey + 1
      BY <1>0 DEF Linked
    <2>1. CASE x = q
      <3>1. KeyOf(t, p) \in Key /\ 0 <= lo[p] /\ hi[p] <= NKey + 1 /\ 0 <= KeyOf(t, p) /\ KeyOf(t, p) <= NKey + 1
        BY <1>0, <1>1, <2>0, LinkedNames
      <3>. QED BY <1>4, <1>7, <2>1, <3>1 DEF Lower, Upper
    <2>2. CASE x # q
      BY <1>4, <1>7, <2>0, <2>2
    <2>. QED BY <2>1, <2>2
  <1>13. Linked(u, l2, h2)
    <2>1. /\ FalseRoot \in D \cup {q} /\ D \cup {q} \subseteq Key \cup {FalseRoot}
          /\ KeyOf(u, FalseRoot) = 0 /\ l2[FalseRoot] = -1 /\ h2[FalseRoot] = NKey + 1
      BY <1>0, <1>4, <1>7 DEF Linked
    <2>. QED BY <1>4, <1>7, <1>9, <1>10, <1>11, <1>12, <2>1 DEF Linked
  <1>14. Balanced(u, b2)
    <2>. SUFFICES ASSUME NEW x \in (D \cup {q}) \ {FalseRoot}, NEW e \in Side
                  PROVE  b2[x] = Tall(b2, Child(u, x, e)) + Bit(~RedOf(u, x))
      BY <1>4, <1>7 DEF Balanced
    <2>1. CASE x = q
      BY <1>4, <1>7, <2>1 DEF Tall, Bit
    <2>2. CASE x # q
      <3>1. bh[x] = Tall(bh, Child(t, x, e)) + Bit(~RedOf(t, x))
        BY <1>0, <2>2 DEF Balanced
      <3>2. Tall(b2, Child(u, x, e)) = Tall(bh, Child(t, x, e))
        <4>1. CASE x = p /\ e = d
          BY <1>1, <1>4, <1>7, <4>1 DEF Tall
        <4>2. CASE ~(x = p /\ e = d)
          <5>1. Child(u, x, e) = Child(t, x, e) /\ Child(t, x, e) \in D \cup {NULL}
            BY <1>0, <1>4, <2>2, <4>2 DEF Linked, Links
          <5>. QED BY <1>7, <5>1 DEF Tall
        <4>. QED BY <4>1, <4>2
      <3>. QED BY <1>4, <1>7, <2>2, <3>1, <3>2
    <2>. QED BY <2>1, <2>2
  <1>15. RedRule(u, q)
    <2>. SUFFICES ASSUME NEW x \in (D \cup {q}) \ {FalseRoot}, NEW e \in Side,
                         RedOf(u, x), IsRed(u, Child(u, x, e)), Child(u, x, e) # q
                  PROVE  FALSE
      BY <1>4 DEF RedRule
    <2>1. Child(u, x, e) # NULL /\ RedOf(u, Child(u, x, e))
      BY IsRedIs
    <2>2. x # q /\ ~(x = p /\ e = d)
      BY <1>4, <2>1
    <2>3. Child(u, x, e) = Child(t, x, e) /\ Child(t, x, e) \in D
      BY <1>0, <1>4, <2>1, <2>2 DEF Linked, Links
    <2>. QED BY <1>0, <1>4, <2>1, <2>2, <2>3, IsRedIs DEF RedRule
  <1>. QED BY <1>3, <1>4, <1>13, <1>14, <1>15 DEF Sound

-----------------------------------------------------------------------------
(***************************************************************************)
(* The loop of _insert.  k lies on side d of y, where its place is sought, *)
(* and that side is no wider than half of m.                               *)
(***************************************************************************)
Toward(t, lo, hi, y, d, k, m) ==
  /\ y \in DOMAIN t.n /\ d \in Side
  /\ Lower(t, lo, y, d) < k /\ k < Upper(t, hi, y, d)
  /\ 2 * (Upper(t, hi, y, d) - Lower(t, lo, y, d)) <= m

(* lefts says that there is nothing before that side *)
Firsts(t, lefts, lo, y, d, k) ==
  /\ lefts \in BOOLEAN
  /\ lefts => Lower(t, lo, y, d) = 0
  /\ ~lefts => \E z \in DOMAIN t.n \ {FalseRoot} : KeyOf(t, z) < k

Heading(x, lo, hi, y, d, k, m) == Toward(x.t, lo, hi, y, d, k, m) /\ Firsts(x.t, x.lefts, lo, y, d, k)

AtRoot(x, lo, hi, k, m) ==
  /\ x.h = FalseRoot /\ x.g = NULL /\ x.p = NULL
  /\ x.q = Child(x.t, FalseRoot, 1) /\ x.q # NULL /\ ~RedOf(x.t, x.q)
  /\ x.dir \in Side
  /\ Heading(x, lo, hi, FalseRoot, 1, k, m)

BelowRoot(x, lo, hi, k, m) ==
  /\ x.h = FalseRoot /\ x.g = NULL /\ x.p # NULL /\ x.p = Child(x.t, FalseRoot, 1)
  /\ x.dir \in Side /\ x.q = Child(x.t, x.p, x.dir)
  /\ ~BothRed(x.t, x.p) /\ (RedOf(x.t, x.p) => Calm(x.t, x.q))
  /\ Heading(x, lo, hi, x.p, x.dir, k, m)

Chained(x, lo, hi, k, m) ==
  /\ x.h \in DOMAIN x.t.n /\ (\E e \in Side : Child(x.t, x.h, e) = x.g) /\ x.g # NULL
  /\ x.last \in Side /\ x.p = Child(x.t, x.g, x.last) /\ x.p # NULL
  /\ x.dir \in Side /\ x.q = Child(x.t, x.p, x.dir)
  /\ ~BothRed(x.t, x.p)
  /\ RedOf(x.t, x.p) => Calm(x.t, x.q) \/ ~IsRed(x.t, Child(x.t, x.g, 1 - x.last))
  /\ Heading(x, lo, hi, x.p, x.dir, k, m)

(* one turn after a single rotation: h is not above g *)
AfterSingle(x, lo, hi, k, m) ==
  /\ x.g \in DOMAIN x.t.n /\ x.last \in Side /\ x.p = Child(x.t, x.g, x.last) /\ x.p # NULL
  /\ x.dir \in Side /\ x.q = Child(x.t, x.p, x.dir) /\ Calm(x.t, x.q)
  /\ Heading(x, lo, hi, x.p, x.dir, k, m)

(* one turn after a double rotation: g is not above p either, and the way  *)
(* goes to the child of q on side e, next                                  *)
AfterDouble(x, lo, hi, k, m) ==
  /\ x.g # NULL /\ x.p \in DOMAIN x.t.n /\ x.p # FalseRoot /\ ~RedOf(x.t, x.p)
  /\ x.dir \in Side /\ x.q = Child(x.t, x.p, x.dir) /\ x.q # NULL
  /\ RedOf(x.t, x.q) /\ ~BothRed(x.t, x.q) /\ ~x.lefts
  /\ \E e \in Side :
       /\ e = Bit(KeyOf(x.t, x.q) < k)
       /\ Calm(x.t, Child(x.t, x.q, e))
       /\ Heading(x, lo, hi, x.q, e, k, m - 1)

Going(x, lo, hi, k, m) ==
  \/ AtRoot(x, lo, hi, k, m) \/ BelowRoot(x, lo, hi, k, m) \/ Chained(x, lo, hi, k, m)
  \/ AfterSingle(x, lo, hi, k, m) \/ AfterDouble(x, lo, hi, k, m)

(* One level down, the interval in which the place of k is sought is       *)
(* smaller, and lefts still tells whether anything lies before it.         *)
LEMMA TowardDown ==
  ASSUME NEW t, NEW lo, NEW hi, Linked(t, lo, hi), NEW y, NEW e, NEW k \in Int, NEW m \in Int,
         Toward(t, lo, hi, y, e, k, m), NEW lefts, Firsts(t, lefts, lo, y, e, k),
         NEW q, q = Child(t, y, e), q # NULL, KeyOf(t, q) # k,
         NEW d, d = Bit(KeyOf(t, q) < k), NEW l2, l2 = (lefts /\ d = 0)
  PROVE  /\ d \in Side /\ Toward(t, lo, hi, q, d, k, m - 1) /\ Toward(t, lo, hi, q, d, k, m - 2)
         /\ Firsts(t, l2, lo, q, d, k)
  <1>1. /\ q \in DOMAIN t.n /\ q # FalseRoot /\ lo[q] = Lower(t, lo, y, e) /\ hi[q] = Upper(t, hi, y, e)
    BY ChildOf DEF Toward
  <1>2. /\ lo[q] \in Int /\ hi[q] \in Int /\ KeyOf(t, q) \in Int
        /\ lo[q] < KeyOf(t, q) /\ KeyOf(t, q) < hi[q]
    BY <1>1, LinkedNames DEF Linked
  <1>3. d \in Side /\ (d = 1 <=> KeyOf(t, q) < k) /\ (d = 0 \/ d = 1)
    BY DEF Bit, Side
  <1>4. Toward(t, lo, hi, q, d, k, m - 1) /\ Toward(t, lo, hi, q, d, k, m - 2)
    <2>1. CASE d = 0
      BY <1>1, <1>2, <1>3, <2>1 DEF Toward, Lower, Upper
    <2>2. CASE d = 1
      BY <1>1, <1>2, <1>3, <2>2 DEF Toward, Lower, Upper
    <2>. QED BY <1>3, <2>1, <2>2
  <1>5. Firsts(t, l2, lo, q, d, k)
    <2>1. l2 => Lower(t, lo, q, d) = 0
      BY <1>1 DEF Firsts, Lower
    <2>2. ~l2 => \E z \in DOMAIN t.n \ {FalseRoot} : KeyOf(t, z) < k
      BY <1>1, <1>3 DEF Firsts
    <2>3. l2 \in BOOLEAN
      OBVIOUS
    <2>. QED BY <2>1, <2>2, <2>3 DEF Firsts
  <1>. QED BY <1>3, <1>4, <1>5

(* The next turn's helpers, where this one leaves the tree u. *)
Stepped(x, y, u, d) ==
  /\ y.t = u /\ y.h = (IF x.g = NULL THEN x.h ELSE x.g) /\ y.g = x.p /\ y.p = x.q
  /\ y.q = Child(u, x.q, d) /\ y.last = x.dir /\ y.dir = d /\ y.lefts = (x.lefts /\ d = 0)

(* Flip, Toward and Firsts agree. *)
LEMMA HeadingKept ==
  ASSUME NEW t, NEW u, Alike(t, u), NEW lo, NEW hi, NEW y, NEW d, NEW k, NEW m, NEW lefts,
         Toward(t, lo, hi, y, d, k, m), Firsts(t, lefts, lo, y, d, k)
  PROVE  Toward(u, lo, hi, y, d, k, m) /\ Firsts(u, lefts, lo, y, d, k)
  <1>1. DOMAIN u.n = DOMAIN t.n /\ \A z \in DOMAIN t.n : KeyOf(u, z) = KeyOf(t, z)
    BY DEF Alike
  <1>2. Lower(u, lo, y, d) = Lower(t, lo, y, d) /\ Upper(u, hi, y, d) = Upper(t, hi, y, d)
    BY <1>1 DEF Lower, Upper, Toward
  <1>. QED BY <1>1, <1>2 DEF Toward, Firsts

(* Only where a red node hangs under q's parent is q an exception. *)
LEMMA RuleKept ==
  ASSUME NEW t, NEW lo, NEW hi, Linked(t, lo, hi), NEW q, RedRule(t, q),
         NEW y \in DOMAIN t.n, NEW e \in Side, Child(t, y, e) = q, q # NULL,
         y = FalseRoot \/ ~(RedOf(t, q) /\ RedOf(t, y))
  PROVE  RedRule(t, NULL)
  <1>. SUFFICES ASSUME NEW x \in DOMAIN t.n \ {FalseRoot}, NEW d \in Side,
                       RedOf(t, x), IsRed(t, Child(t, x, d))
                PROVE  FALSE
    BY DEF RedRule
  <1>1. Child(t, x, d) = q
    BY DEF RedRule
  <1>2. x = y
    BY <1>1, OnePlace
  <1>. QED BY <1>1, <1>2, IsRedIs

(* A turn of the loop at a node with another key, by stages. *)
LEMMA TurnAtRoot ==
  ASSUME NEW V, NEW x, Typed(x.t, V), NEW lo, NEW hi, NEW bh, Sound(x.t, lo, hi, bh, NULL),
         NEW k \in Int, NEW m \in Int, AtRoot(x, lo, hi, k, m),
         NEW t0, t0 = Flip(x.t, x.q), NEW u, u = FixPair(t0, x, x.q),
         NEW d, d = Bit(KeyOf(x.t, x.q) < k), NEW y, Stepped(x, y, u, d)
  PROVE  /\ Typed(u, V) /\ Alike(x.t, u)
         /\ \E l2, h2, b2 : /\ Sound(u, l2, h2, b2, NULL)
                            /\ KeyOf(x.t, x.q) # k => Going(y, l2, h2, k, m - 1)
  <1>. DEFINE t == x.t
              q == x.q
  <1>0. Linked(t, lo, hi) /\ 1 \in Side /\ 0 \in Side /\ FalseRoot \in DOMAIN t.n
    BY DEF Sound, Side, Linked
  <1>1. q = Child(t, FalseRoot, 1) /\ q # NULL /\ ~RedOf(t, q) /\ x.p = NULL /\ x.g = NULL /\ x.h = FalseRoot
    BY DEF AtRoot
  <1>2. q \in DOMAIN t.n /\ q # FalseRoot
    BY <1>0, <1>1, ChildOf
  <1>3. /\ Typed(t0, V) /\ Alike(t, t0)
        /\ \E b2 : Sound(t0, lo, hi, b2, q)
        /\ \A z \in DOMAIN t.n : \A e \in Side : Child(t0, z, e) = Child(t, z, e)
        /\ ~BothRed(t, q) => t0 = t
        /\ BothRed(t, q) => /\ RedOf(t0, q)
                            /\ \A e \in Side : Calm(t0, Child(t, q, e))
                            /\ \A z \in DOMAIN t.n :
                                 z # q /\ (\A e \in Side : z # Child(t, q, e)) => RedOf(t0, z) = RedOf(t, z)
    BY <1>2, FlipIs
  <1>4. u = t0
    BY <1>1 DEF FixPair, IsRed
  <1>5. PICK b2 : Sound(t0, lo, hi, b2, q)
    BY <1>3
  <1>6. /\ DOMAIN t0.n = DOMAIN t.n /\ Linked(t0, lo, hi) /\ Child(t0, FalseRoot, 1) = q
        /\ KeyOf(t0, q) = KeyOf(t, q)
    BY <1>0, <1>1, <1>2, <1>3, <1>5 DEF Sound, Alike
  <1>7. Sound(t0, lo, hi, b2, NULL)
    <2>1. RedRule(t0, NULL)
      BY <1>0, <1>1, <1>5, <1>6, RuleKept DEF Sound
    <2>. QED BY <1>5, <2>1 DEF Sound
  <1>8. ASSUME KeyOf(t, q) # k
        PROVE  BelowRoot(y, lo, hi, k, m - 1)
    <2>1. Toward(t, lo, hi, FalseRoot, 1, k, m) /\ Firsts(t, x.lefts, lo, FalseRoot, 1, k)
      BY DEF AtRoot, Heading
    <2>2. Toward(t0, lo, hi, FalseRoot, 1, k, m) /\ Firsts(t0, x.lefts, lo, FalseRoot, 1, k)
      BY <1>3, <2>1, HeadingKept
    <2>3. d \in Side /\ Toward(t0, lo, hi, q, d, k, m - 1) /\ Firsts(t0, y.lefts, lo, q, d, k)
      <3>1. d = Bit(KeyOf(t0, q) < k) /\ KeyOf(t0, q) # k /\ q = Child(t0, FalseRoot, 1)
        BY <1>6, <1>8
      <3>3. y.lefts = (x.lefts /\ d = 0)
        BY DEF Stepped
      <3>2. PICK q0 : q0 = q
        OBVIOUS
      <3>. HIDE DEF q
      <3>. QED BY <1>1, <1>6, <2>2, <3>1, <3>3, TowardDown
    <2>4. Heading(y, lo, hi, q, d, k, m - 1)
      BY <1>4, <2>3 DEF Heading, Stepped
    <2>5. ~BothRed(t0, q) /\ (RedOf(t0, q) => Calm(t0, Child(t0, q, d)))
      <3>1. CASE BothRed(t, q)
        <4>1. \A e \in Side : Calm(t0, Child(t0, q, e))
          BY <1>2, <1>3, <3>1
        <4>2. ~IsRed(t0, Child(t0, q, 0))
          BY <1>0, <4>1, IsRedIs DEF Calm
        <4>. QED BY <2>3, <4>1, <4>2 DEF BothRed
      <3>2. CASE ~BothRed(t, q)
        BY <1>1, <1>3, <3>2
      <3>. QED BY <3>1, <3>2
    <2>. QED BY <1>1, <1>4, <1>6, <2>3, <2>4, <2>5 DEF Stepped, BelowRoot
  <1>. QED BY <1>3, <1>4, <1>7, <1>8 DEF Going

(* Where no red pair shows, the stage after BelowRoot and Chained is Chained. *)
LEMMA TurnNoPair ==
  ASSUME NEW V, NEW x, Typed(x.t, V), NEW lo, NEW hi, NEW bh, Sound(x.t, lo, hi, bh, NULL),
         NEW k \in Int, NEW m \in Int, BelowRoot(x, lo, hi, k, m) \/ Chained(x, lo, hi, k, m),
         x.q # NULL,
         NEW t0, t0 = Flip(x.t, x.q), NEW u, u = FixPair(t0, x, x.q),
         ~(RedOf(t0, x.q) /\ RedOf(t0, x.p)),
         NEW d, d = Bit(KeyOf(x.t, x.q) < k), NEW y, Stepped(x, y, u, d)
  PROVE  /\ Typed(u, V) /\ Alike(x.t, u)
         /\ \E l2, h2, b2 : /\ Sound(u, l2, h2, b2, NULL)
                            /\ KeyOf(x.t, x.q) # k => Going(y, l2, h2, k, m - 1)
  <1>0. PICK t, q, p : t = x.t /\ q = x.q /\ p = x.p
    OBVIOUS
  <1>00. Linked(t, lo, hi) /\ 1 \in Side /\ 0 \in Side /\ FalseRoot \in DOMAIN t.n
    BY <1>0 DEF Sound, Side, Linked
  <1>1. /\ x.dir \in Side /\ q = Child(t, p, x.dir) /\ p # NULL /\ q # NULL
        /\ ~BothRed(t, p) /\ Heading(x, lo, hi, p, x.dir, k, m)
    BY <1>0 DEF BelowRoot, Chained
  <1>2. p \in DOMAIN t.n
    BY <1>0, <1>1 DEF Heading, Toward
  <1>3. q \in DOMAIN t.n /\ q # FalseRoot /\ q # p
    BY <1>00, <1>1, <1>2, ChildOf
  <1>4. /\ Typed(t0, V) /\ Alike(t, t0)
        /\ \E b2 : Sound(t0, lo, hi, b2, q)
        /\ \A z \in DOMAIN t.n : \A e \in Side : Child(t0, z, e) = Child(t, z, e)
        /\ ~BothRed(t, q) => t0 = t
        /\ BothRed(t, q) => /\ RedOf(t0, q)
                            /\ \A e \in Side : Calm(t0, Child(t, q, e))
                            /\ \A z \in DOMAIN t.n :
                                 z # q /\ (\A e \in Side : z # Child(t, q, e)) => RedOf(t0, z) = RedOf(t, z)
    BY <1>0, <1>3, FlipIs
  <1>5. u = t0
    BY <1>0 DEF FixPair, IsRed, RedOf
  <1>6. PICK b2 : Sound(t0, lo, hi, b2, q)
    BY <1>4
  <1>7. /\ DOMAIN t0.n = DOMAIN t.n /\ Linked(t0, lo, hi) /\ Child(t0, p, x.dir) = q
        /\ KeyOf(t0, q) = KeyOf(t, q)
    BY <1>1, <1>2, <1>3, <1>4, <1>6 DEF Sound, Alike
  <1>8. Sound(t0, lo, hi, b2, NULL)
    <2>1. RedRule(t0, NULL)
      BY <1>0, <1>1, <1>2, <1>6, <1>7, RuleKept DEF Sound
    <2>. QED BY <1>6, <2>1 DEF Sound
  <1>9. ASSUME KeyOf(t, q) # k
        PROVE  Chained(y, lo, hi, k, m - 1)
    <2>1. Toward(t, lo, hi, p, x.dir, k, m) /\ Firsts(t, x.lefts, lo, p, x.dir, k)
      BY <1>0, <1>1 DEF Heading
    <2>2. Toward(t0, lo, hi, p, x.dir, k, m) /\ Firsts(t0, x.lefts, lo, p, x.dir, k)
      BY <1>4, <2>1, HeadingKept
    <2>3. d \in Side /\ Toward(t0, lo, hi, q, d, k, m - 1) /\ Firsts(t0, y.lefts, lo, q, d, k)
      <3>1. d = Bit(KeyOf(t0, q) < k) /\ KeyOf(t0, q) # k /\ q = Child(t0, p, x.dir)
        BY <1>0, <1>7, <1>9
      <3>3. y.lefts = (x.lefts /\ d = 0)
        BY DEF Stepped
      <3>. QED BY <1>1, <1>7, <2>2, <3>1, <3>3, TowardDown
    <2>4. Heading(y, lo, hi, q, d, k, m - 1)
      BY <1>5, <2>3 DEF Heading, Stepped
    <2>5. /\ ~BothRed(t0, q)
          /\ RedOf(t0, q) => Calm(t0, Child(t0, q, d)) \/ ~IsRed(t0, Child(t0, p, 1 - x.dir))
      <3>1. CASE BothRed(t, q)
        <4>1. \A e \in Side : Calm(t0, Child(t0, q, e))
          BY <1>3, <1>4, <3>1
        <4>2. ~IsRed(t0, Child(t0, q, 0))
          BY <1>00, <4>1, IsRedIs DEF Calm
        <4>. QED BY <2>3, <4>1, <4>2 DEF BothRed
      <3>2. CASE ~BothRed(t, q)
        <4>1. t0 = t
          BY <1>4, <3>2
        <4>2. ASSUME RedOf(t, q) PROVE ~IsRed(t, Child(t, p, 1 - x.dir))
          <5>1. IsRed(t, Child(t, p, x.dir))
            BY <1>1, <4>2, IsRedIs
          <5>2. {x.dir, 1 - x.dir} = {0, 1}
            BY <1>1 DEF Side
          <5>. QED BY <1>1, <5>1, <5>2 DEF BothRed, Side
        <4>. QED BY <3>2, <4>1, <4>2
      <3>. QED BY <3>1, <3>2
    <2>6. /\ y.h \in DOMAIN t.n /\ \E e \in Side : Child(t, y.h, e) = p
      <3>1. CASE BelowRoot(x, lo, hi, k, m)
        <4>1. y.h = FalseRoot /\ p = Child(t, FalseRoot, 1)
          BY <1>0, <3>1 DEF BelowRoot, Stepped
        <4>. QED BY <1>00, <4>1
      <3>2. CASE Chained(x, lo, hi, k, m)
        <4>1. /\ x.h \in DOMAIN t.n /\ \E e \in Side : Child(t, x.h, e) = x.g
              /\ x.g # NULL /\ x.last \in Side /\ p = Child(t, x.g, x.last)
          BY <1>0, <3>2 DEF Chained
        <4>2. y.h = x.g
          BY <4>1 DEF Stepped
        <4>3. PICK e \in Side : Child(t, x.h, e) = x.g
          BY <4>1
        <4>4. x.g \in DOMAIN t.n
          BY <1>00, <4>1, <4>3, ChildOf
        <4>. QED BY <4>1, <4>2, <4>4
      <3>. QED BY <3>1, <3>2
    <2>7. y.h \in DOMAIN t0.n /\ \E e \in Side : Child(t0, y.h, e) = p
      BY <1>4, <1>7, <2>6
    <2>8. /\ y.t = t0 /\ y.g = p /\ y.p = q /\ y.q = Child(t0, q, d) /\ y.last = x.dir /\ y.dir = d
      BY <1>0, <1>5 DEF Stepped
    <2>. QED BY <1>1, <1>7, <2>3, <2>4, <2>5, <2>7, <2>8 DEF Chained
  <1>. QED BY <1>0, <1>4, <1>5, <1>8, <1>9 DEF Going

(* the two turns after a rotation *)
LEMMA TurnAfter ==
  ASSUME NEW V, NEW x, Typed(x.t, V), NEW lo, NEW hi, NEW bh, Sound(x.t, lo, hi, bh, NULL),
         NEW k \in Int, NEW m \in Int, AfterSingle(x, lo, hi, k, m) \/ AfterDouble(x, lo, hi, k, m),
         NEW t0, t0 = Flip(x.t, x.q), NEW u, u = FixPair(t0, x, x.q),
         NEW d, d = Bit(KeyOf(x.t, x.q) < k), NEW y, Stepped(x, y, u, d)
  PROVE  /\ u = x.t
         /\ KeyOf(x.t, x.q) # k => Going(y, lo, hi, k, m - 1)
  <1>0. PICK t, q, p : t = x.t /\ q = x.q /\ p = x.p
    OBVIOUS
  <1>00. Linked(t, lo, hi)
    BY <1>0 DEF Sound
  <1>1. ~BothRed(t, q) /\ (~RedOf(t, q) \/ ~RedOf(t, p))
    BY SMTT(30), <1>0 DEF AfterSingle, AfterDouble, Calm
  <1>2. u = t
    BY ZenonT(60), <1>0, <1>1 DEF Flip, BothRed, FixPair, IsRed, RedOf
  <1>3. ASSUME KeyOf(t, q) # k, AfterSingle(x, lo, hi, k, m)
        PROVE  Chained(y, lo, hi, k, m - 1)
    <2>1. /\ x.g \in DOMAIN t.n /\ x.last \in Side /\ p = Child(t, x.g, x.last) /\ p # NULL
          /\ x.dir \in Side /\ q = Child(t, p, x.dir) /\ q # NULL /\ ~RedOf(t, q) /\ ~BothRed(t, q)
          /\ Toward(t, lo, hi, p, x.dir, k, m) /\ Firsts(t, x.lefts, lo, p, x.dir, k)
      BY <1>0, <1>3 DEF AfterSingle, Calm, Heading
    <2>2. d \in Side /\ Toward(t, lo, hi, q, d, k, m - 1) /\ Firsts(t, y.lefts, lo, q, d, k)
      <3>1. d = Bit(KeyOf(t, q) < k)
        BY <1>0
      <3>3. y.lefts = (x.lefts /\ d = 0)
        BY DEF Stepped
      <3>. QED BY <1>00, <1>3, <2>1, <3>1, <3>3, TowardDown
    <2>3. /\ y.t = t /\ y.g = p /\ y.p = q /\ y.q = Child(t, q, d) /\ y.last = x.dir /\ y.dir = d
          /\ y.h = x.g
      <3>1. x.g # NULL
        BY <1>00, <2>1, LinkedNames
      <3>. QED BY <1>0, <1>2, <3>1 DEF Stepped
    <2>4. Heading(y, lo, hi, q, d, k, m - 1)
      BY <2>2, <2>3 DEF Heading
    <2>. QED BY <2>1, <2>2, <2>3, <2>4 DEF Chained
  <1>4. ASSUME KeyOf(t, q) # k, AfterDouble(x, lo, hi, k, m)
        PROVE  AfterSingle(y, lo, hi, k, m - 1)
    <2>1. /\ p \in DOMAIN t.n /\ x.dir \in Side /\ q = Child(t, p, x.dir) /\ q # NULL
          /\ d \in Side /\ Calm(t, Child(t, q, d))
          /\ Toward(t, lo, hi, q, d, k, m - 1) /\ Firsts(t, x.lefts, lo, q, d, k) /\ ~x.lefts
      BY <1>0, <1>4 DEF AfterDouble, Heading
    <2>2. /\ y.t = t /\ y.g = p /\ y.p = q /\ y.q = Child(t, q, d) /\ y.last = x.dir /\ y.dir = d
          /\ y.lefts = FALSE
      BY <1>0, <1>2, <2>1 DEF Stepped
    <2>3. Heading(y, lo, hi, q, d, k, m - 1)
      BY <2>1, <2>2 DEF Heading, Firsts
    <2>. QED BY <2>1, <2>2, <2>3 DEF AfterSingle
  <1>. QED BY <1>0, <1>2, <1>3, <1>4 DEF Going

(* The key of a node lies between its bounds. *)
LEMMA NodeFacts ==
  ASSUME NEW t, NEW lo, NEW hi, Linked(t, lo, hi)
  PROVE  \A x \in DOMAIN t.n : /\ lo[x] \in Int /\ hi[x] \in Int /\ KeyOf(t, x) \in Int
                               /\ lo[x] < KeyOf(t, x) /\ KeyOf(t, x) < hi[x]
  BY LinkedNames DEF Linked

(* After a single rotation the helpers are as one turn later h, which is   *)
(* not above g, does not matter.                                           *)
LEMMA SingleThen ==
  ASSUME NEW t, NEW lo, NEW hi, Linked(t, lo, hi), NEW k \in Int, NEW m \in Int,
         NEW h \in DOMAIN t.n, NEW d2 \in Side, NEW last \in Side,
         NEW g, g = Child(t, h, d2), g # NULL, NEW p, p = Child(t, g, last), p # NULL,
         NEW q, q = Child(t, p, last), q # NULL,
         NEW u, NEW l2, NEW h2, NEW c, c = Child(t, p, 1 - last),
         Turn1(t, u, lo, hi, l2, h2, h, d2, g, p, c, 1 - last),
         NEW d \in Side, Calm(t, Child(t, q, d)),
         NEW y, y.t = u, y.g = p, y.p = q, y.q = Child(u, q, d), y.last = last, y.dir = d,
         Toward(t, lo, hi, q, d, k, m), Firsts(t, y.lefts, lo, q, d, k)
  PROVE  AfterSingle(y, l2, h2, k, m)
  <1>. DEFINE D == DOMAIN t.n
              z == Child(t, q, d)
  <1>0. \A w \in D : lo[w] \in Int /\ hi[w] \in Int
    BY NodeFacts
  <1>1. 1 - last \in Side /\ 1 - last # last /\ 1 - (1 - last) = last
    BY SideFlip
  <1>2. g \in D /\ g # h /\ hi[g] - lo[g] < hi[h] - lo[h]
    BY ChildOf
  <1>3. p \in D /\ hi[p] - lo[p] < hi[g] - lo[g]
    BY <1>2, ChildOf
  <1>4. q \in D /\ hi[q] - lo[q] < hi[p] - lo[p]
    BY <1>3, ChildOf
  <1>5. z # NULL /\ ~RedOf(t, z) /\ ~BothRed(t, z)
    BY DEF Calm
  <1>6. z \in D /\ hi[z] - lo[z] < hi[q] - lo[q]
    BY <1>4, <1>5, ChildOf
  <1>7. \A w \in {g, p, q, h} : z # w
    BY <1>0, <1>2, <1>3, <1>4, <1>6
  <1>8. p # g /\ p # h /\ q # g /\ q # p /\ q # h
    BY <1>0, <1>2, <1>3, <1>4
  <1>9. /\ DOMAIN u.n = D /\ Alike(t, u)
        /\ \A w \in D :
             /\ RedOf(u, w) = IF w = g THEN TRUE ELSE IF w = p THEN FALSE ELSE RedOf(t, w)
             /\ \A e \in Side : Child(u, w, e) =
                  IF w = h /\ e = d2 THEN p ELSE IF w = g /\ e = last THEN c
                  ELSE IF w = p /\ e = 1 - last THEN g ELSE Child(t, w, e)
        /\ \A w \in D \ {g, p} : l2[w] = lo[w] /\ h2[w] = hi[w]
    <2>1. ASSUME NEW w \in D, NEW e \in Side
          PROVE  Child(u, w, e) = IF w = h /\ e = d2 THEN p ELSE IF w = g /\ e = last THEN c
                                  ELSE IF w = p /\ e = 1 - last THEN g ELSE Child(t, w, e)
      <3>1. Child(u, w, e) = IF w = h /\ e = d2 THEN p ELSE IF w = g /\ e = 1 - (1 - last) THEN c
                                  ELSE IF w = p /\ e = 1 - last THEN g ELSE Child(t, w, e)
        BY DEF Turn1, Rotated
      <3>. QED BY <1>1, <3>1
    <2>2. /\ DOMAIN u.n = D /\ Alike(t, u)
          /\ \A w \in D : RedOf(u, w) = IF w = g THEN TRUE ELSE IF w = p THEN FALSE ELSE RedOf(t, w)
          /\ \A w \in D \ {g, p} : l2[w] = lo[w] /\ h2[w] = hi[w]
      BY DEF Turn1, Rotated, Alike
    <2>. QED BY <2>1, <2>2
  <1>10. Child(u, p, last) = q /\ Child(u, q, d) = z
    BY <1>1, <1>3, <1>4, <1>8, <1>9
  <1>11. Calm(u, z)
    <2>1. ASSUME NEW e \in Side PROVE IsRed(u, Child(u, z, e)) => IsRed(t, Child(t, z, e))
      <3>. DEFINE w == Child(t, z, e)
      <3>1. Child(u, z, e) = w /\ Child(t, z, e) = w
        BY <1>6, <1>7, <1>9
      <3>2. w # NULL => w \in D /\ hi[w] - lo[w] < hi[z] - lo[z]
        BY <1>6, ChildOf
      <3>3. w # NULL => w \in D /\ w # g /\ w # p
        BY <1>0, <1>2, <1>3, <1>4, <1>6, <3>2
      <3>. HIDE DEF w, D, z
      <3>4. CASE w = NULL
        BY <3>1, <3>4 DEF IsRed
      <3>5. CASE w # NULL
        <4>1. RedOf(u, w) = RedOf(t, w)
          BY <1>9, <3>3, <3>5
        <4>. QED BY <3>1, <3>5, <4>1, IsRedIs
      <3>. QED BY <3>4, <3>5
    <2>2. ~BothRed(u, z)
      BY <1>5, <2>1 DEF BothRed, Side
    <2>3. ~RedOf(u, z)
      BY <1>5, <1>6, <1>7, <1>9
    <2>. QED BY <1>5, <2>2, <2>3 DEF Calm
  <1>12. Toward(u, l2, h2, q, d, k, m) /\ Firsts(u, y.lefts, l2, q, d, k)
    <2>1. KeyOf(u, q) = KeyOf(t, q) /\ l2[q] = lo[q] /\ h2[q] = hi[q]
      BY <1>4, <1>8, <1>9 DEF Alike
    <2>2. Lower(u, l2, q, d) = Lower(t, lo, q, d) /\ Upper(u, h2, q, d) = Upper(t, hi, q, d)
      BY <2>1 DEF Lower, Upper
    <2>3. \A w \in D : KeyOf(u, w) = KeyOf(t, w)
      BY <1>9 DEF Alike
    <2>. QED BY <1>9, <2>2, <2>3 DEF Toward, Firsts
  <1>. QED BY <1>3, <1>4, <1>9, <1>10, <1>11, <1>12, LinkedNames DEF AfterSingle, Heading

(* After a double rotation the helpers are such that the next turn needs   *)
(* no rotation.                                                            *)
LEMMA DoubleThen ==
  ASSUME NEW t, NEW lo, NEW hi, Linked(t, lo, hi), NEW k \in Int, NEW m \in Int,
         NEW h \in DOMAIN t.n, NEW d2 \in Side, NEW last \in Side, NEW dir, dir = 1 - last,
         NEW g, g = Child(t, h, d2), g # NULL, NEW p, p = Child(t, g, last), p # NULL,
         NEW q, q = Child(t, p, dir), q # NULL, RedOf(t, p),
         NEW u, NEW l2, NEW h2, Turn2(t, u, lo, hi, l2, h2, h, d2, g, p, q, dir),
         Lower(t, lo, p, dir) < k, k < Upper(t, hi, p, dir),
         NEW d, d = Bit(KeyOf(t, q) < k), Calm(t, Child(t, q, d)),
         NEW y, y.t = u, y.g = p, y.p = q, y.q = Child(u, q, d), y.last = dir, y.dir = d, y.lefts = FALSE,
         Toward(t, lo, hi, q, d, k, m - 1), Firsts(t, FALSE, lo, q, d, k)
  PROVE  AfterDouble(y, l2, h2, k, m)
  <1>. DEFINE D == DOMAIN t.n
              z == Child(t, q, d)
  <1>0. \A w \in D : lo[w] \in Int /\ hi[w] \in Int /\ KeyOf(t, w) \in Int
    BY NodeFacts
  <1>1. /\ dir \in Side /\ dir # last /\ 1 - dir = last /\ \A e \in Side : e = dir \/ e = last
        /\ ((last = 0 /\ dir = 1) \/ (last = 1 /\ dir = 0))
    BY SideFlip DEF Side
  <1>2. g \in D /\ g # FalseRoot /\ hi[g] - lo[g] < hi[h] - lo[h]
    BY ChildOf
  <1>3. p \in D /\ p # FalseRoot /\ hi[p] - lo[p] < hi[g] - lo[g] /\ lo[p] = Lower(t, lo, g, last) /\ hi[p] = Upper(t, hi, g, last)
    BY <1>2, ChildOf
  <1>4. q \in D /\ q # FalseRoot /\ hi[q] - lo[q] < hi[p] - lo[p]
    BY <1>1, <1>3, ChildOf
  <1>5. z # NULL /\ ~RedOf(t, z) /\ ~BothRed(t, z) /\ d \in Side /\ (d = 1 <=> KeyOf(t, q) < k)
    BY DEF Calm, Bit, Side
  <1>6. z \in D /\ z # FalseRoot /\ hi[z] - lo[z] < hi[q] - lo[q] /\ lo[z] = Lower(t, lo, q, d) /\ hi[z] = Upper(t, hi, q, d)
    BY <1>4, <1>5, ChildOf
  <1>7. z # g /\ z # p /\ z # q /\ z # h
    BY <1>0, <1>2, <1>3, <1>4, <1>6
  <1>8. p # g /\ p # h /\ q # g /\ q # p /\ q # h /\ g # h
    BY <1>0, <1>2, <1>3, <1>4
  <1>9. /\ DOMAIN u.n = D /\ Alike(t, u) /\ Linked(u, l2, h2)
        /\ \A x \in D :
             /\ RedOf(u, x) = IF x \in {g, p} THEN TRUE ELSE IF x = q THEN FALSE ELSE RedOf(t, x)
             /\ \A e \in Side : Child(u, x, e) =
                  IF x = h /\ e = d2 THEN q
                  ELSE IF x = g /\ e = last THEN Child(t, q, dir)
                  ELSE IF x = p /\ e = dir THEN Child(t, q, last)
                  ELSE IF x = q THEN IF e = dir THEN g ELSE p
                  ELSE Child(t, x, e)
        /\ \A x \in D \ {g, p, q} : l2[x] = lo[x] /\ h2[x] = hi[x]
    <2>1. ASSUME NEW x \in D, NEW e \in Side
          PROVE  Child(u, x, e) =
                  IF x = h /\ e = d2 THEN q
                  ELSE IF x = g /\ e = last THEN Child(t, q, dir)
                  ELSE IF x = p /\ e = dir THEN Child(t, q, last)
                  ELSE IF x = q THEN IF e = dir THEN g ELSE p
                  ELSE Child(t, x, e)
      <3>1. Child(u, x, e) =
                  IF x = h /\ e = d2 THEN q
                  ELSE IF x = g /\ e = 1 - dir THEN Child(t, q, dir)
                  ELSE IF x = p /\ e = dir THEN Child(t, q, 1 - dir)
                  ELSE IF x = q THEN IF e = dir THEN g ELSE p
                  ELSE Child(t, x, e)
        BY DEF Turn2
      <3>. QED BY <1>1, <3>1
    <2>3. /\ DOMAIN u.n = D /\ Alike(t, u) /\ Linked(u, l2, h2)
          /\ \A x \in D : RedOf(u, x) = IF x \in {g, p} THEN TRUE ELSE IF x = q THEN FALSE ELSE RedOf(t, x)
          /\ \A x \in D \ {g, p, q} : l2[x] = lo[x] /\ h2[x] = hi[x]
      BY DEF Turn2, Alike
    <2>. QED BY <2>1, <2>3
  <1>. DEFINE q2 == IF d = dir THEN g ELSE p
              e2 == 1 - d
  <1>10. Child(u, q, d) = q2 /\ q2 \in D /\ q2 # FalseRoot /\ q2 # NULL /\ RedOf(u, q2)
    <2>1. Child(u, q, d) = q2
      BY <1>1, <1>4, <1>5, <1>8, <1>9
    <2>2. q2 \in {g, p}
      OBVIOUS
    <2>. HIDE DEF q2
    <2>. QED BY <1>2, <1>3, <1>9, <2>1, <2>2
  <1>11. e2 \in Side /\ e2 # d
    BY <1>5, SideFlip
  <1>12. Child(u, q2, e2) = z
    <2>1. CASE d = dir
      <3>1. e2 = last /\ q2 = g
        BY <1>1, <2>1
      <3>. HIDE DEF e2, q2
      <3>. QED BY <1>1, <1>2, <1>8, <1>9, <2>1, <3>1
    <2>2. CASE d # dir
      <3>1. d = last /\ e2 = dir /\ q2 = p
        BY <1>1, <1>5, <2>2
      <3>. HIDE DEF e2, q2
      <3>. QED BY <1>1, <1>3, <1>8, <1>9, <2>2, <3>1
    <2>. QED BY <2>1, <2>2
  <1>13. e2 = Bit(KeyOf(u, q2) < k)
    <2>1. KeyOf(u, g) = KeyOf(t, g) /\ KeyOf(u, p) = KeyOf(t, p)
      BY <1>2, <1>3, <1>9 DEF Alike
    <2>2. KeyOf(t, p) \in Int /\ KeyOf(t, g) \in Int
      BY <1>0, <1>2, <1>3
    <2>3. CASE last = 0
      <3>1. KeyOf(t, p) < k /\ k < KeyOf(t, g) /\ dir = 1
        BY <1>1, <1>3, <2>3 DEF Lower, Upper
      <3>2. CASE d = 1
        BY <2>1, <2>2, <3>1, <3>2 DEF Bit
      <3>3. CASE d = 0
        BY <2>1, <2>2, <3>1, <3>3 DEF Bit
      <3>. QED BY <1>5, <3>2, <3>3 DEF Side
    <2>4. CASE last = 1
      <3>1. KeyOf(t, g) < k /\ k < KeyOf(t, p) /\ dir = 0
        BY <1>1, <1>3, <2>4 DEF Lower, Upper
      <3>2. CASE d = 1
        BY <2>1, <2>2, <3>1, <3>2 DEF Bit
      <3>3. CASE d = 0
        BY <2>1, <2>2, <3>1, <3>3 DEF Bit
      <3>. QED BY <1>5, <3>2, <3>3 DEF Side
    <2>. QED BY <2>3, <2>4 DEF Side
  <1>. HIDE DEF q2, e2
  <1>14. Lower(u, l2, q2, e2) = Lower(t, lo, q, d) /\ Upper(u, h2, q2, e2) = Upper(t, hi, q, d)
    <2>1. l2[z] = Lower(u, l2, q2, e2) /\ h2[z] = Upper(u, h2, q2, e2)
      <3>1. z = Child(u, q2, e2) /\ q2 \in DOMAIN u.n /\ z # NULL
        BY <1>5, <1>9, <1>10, <1>12
      <3>. HIDE DEF z
      <3>. QED BY <1>9, <1>11, <3>1, ChildOf
    <2>2. l2[z] = lo[z] /\ h2[z] = hi[z]
      BY <1>6, <1>7, <1>9
    <2>. QED BY <1>6, <2>1, <2>2
  <1>15. ~RedOf(u, z) /\ z # NULL
    BY <1>5, <1>6, <1>7, <1>9
  <1>16. Calm(u, z)
    <2>1. ASSUME NEW e \in Side PROVE IsRed(u, Child(u, z, e)) => IsRed(t, Child(t, z, e))
      <3>. DEFINE w == Child(t, z, e)
      <3>1. Child(u, z, e) = w /\ Child(t, z, e) = w
        BY <1>6, <1>7, <1>9
      <3>2. w # NULL => w \in D /\ hi[w] - lo[w] < hi[z] - lo[z]
        BY <1>6, ChildOf
      <3>3. w # NULL => w \in D /\ w # g /\ w # p /\ w # q
        BY <1>0, <1>2, <1>3, <1>4, <1>6, <3>2
      <3>. HIDE DEF w, D, z
      <3>4. CASE w = NULL
        BY <3>1, <3>4 DEF IsRed
      <3>5. CASE w # NULL
        <4>1. RedOf(u, w) = RedOf(t, w)
          BY <1>9, <3>3, <3>5
        <4>. QED BY <3>1, <3>5, <4>1, IsRedIs
      <3>. QED BY <3>4, <3>5
    <2>2. ~BothRed(u, z)
      BY <1>5, <2>1 DEF BothRed, Side
    <2>. QED BY <1>15, <2>2 DEF Calm
  <1>17. ~BothRed(u, q2)
    <2>1. ~IsRed(u, Child(u, q2, e2))
      BY <1>12, <1>15, IsRedIs
    <2>. QED BY <1>11, <2>1 DEF BothRed, Side
  <1>18. Heading(y, l2, h2, q2, e2, k, m - 1)
    <2>1. Toward(u, l2, h2, q2, e2, k, m - 1)
      BY <1>9, <1>10, <1>11, <1>14 DEF Toward
    <2>2. \A w \in D : KeyOf(u, w) = KeyOf(t, w)
      BY <1>9 DEF Alike
    <2>3. Firsts(u, y.lefts, l2, q2, e2, k)
      BY <1>9, <2>2 DEF Firsts
    <2>. QED BY <2>1, <2>3 DEF Heading
  <1>19. ~RedOf(u, q) /\ p # NULL
    BY <1>4, <1>8, <1>9
  <1>. QED BY <1>4, <1>5, <1>9, <1>10, <1>12, <1>13, <1>11, <1>16, <1>17, <1>18, <1>19 DEF AfterDouble

(* A red pair shows only under a black grandparent with a black other      *)
(* child, after q was flipped.                                             *)
LEMMA PairShows ==
  ASSUME NEW V, NEW x, Typed(x.t, V), NEW lo, NEW hi, NEW bh, Sound(x.t, lo, hi, bh, NULL),
         NEW k \in Int, NEW m \in Int, BelowRoot(x, lo, hi, k, m) \/ Chained(x, lo, hi, k, m),
         x.q # NULL, NEW t0, t0 = Flip(x.t, x.q),
         RedOf(t0, x.q) /\ RedOf(t0, x.p)
  PROVE  /\ Chained(x, lo, hi, k, m)
         /\ \A e \in Side : Calm(t0, Child(t0, x.q, e))
         /\ ~IsRed(t0, Child(t0, x.g, 1 - x.last))
  <1>0. PICK t, q, p : t = x.t /\ q = x.q /\ p = x.p
    OBVIOUS
  <1>00. Linked(t, lo, hi) /\ FalseRoot \in DOMAIN t.n /\ RedRule(t, NULL)
    BY <1>0 DEF Sound, Linked
  <1>1. /\ x.dir \in Side /\ q = Child(t, p, x.dir) /\ p # NULL /\ q # NULL
        /\ ~BothRed(t, p) /\ Heading(x, lo, hi, p, x.dir, k, m)
    BY <1>0 DEF BelowRoot, Chained
  <1>2. p \in DOMAIN t.n /\ \A w \in DOMAIN t.n : lo[w] \in Int /\ hi[w] \in Int
    BY <1>0, <1>00, <1>1, NodeFacts DEF Heading, Toward
  <1>3. q \in DOMAIN t.n /\ q # FalseRoot /\ q # p /\ hi[q] - lo[q] < hi[p] - lo[p]
    BY <1>00, <1>1, <1>2, ChildOf
  <1>4. /\ \A z \in DOMAIN t.n : \A e \in Side : Child(t0, z, e) = Child(t, z, e)
        /\ ~BothRed(t, q) => t0 = t
        /\ BothRed(t, q) => /\ RedOf(t0, q)
                            /\ \A e \in Side : Calm(t0, Child(t, q, e))
                            /\ \A z \in DOMAIN t.n :
                                 z # q /\ (\A e \in Side : z # Child(t, q, e)) => RedOf(t0, z) = RedOf(t, z)
    BY <1>0, <1>3, FlipIs
  <1>5. p # FalseRoot
    <2>1. CASE BelowRoot(x, lo, hi, k, m)
      BY <1>0, <1>00, <2>1, ChildOf DEF BelowRoot, Side
    <2>2. CASE Chained(x, lo, hi, k, m)
      <3>1. /\ x.h \in DOMAIN t.n /\ \E e \in Side : Child(t, x.h, e) = x.g
            /\ x.g # NULL /\ x.last \in Side /\ p = Child(t, x.g, x.last)
        BY <1>0, <2>2 DEF Chained
      <3>2. x.g \in DOMAIN t.n
        BY <1>00, <3>1, ChildOf
      <3>. QED BY <1>00, <1>1, <3>1, <3>2, ChildOf
    <2>. QED BY <2>1, <2>2
  <1>6. BothRed(t, q)
    <2>. SUFFICES ASSUME ~BothRed(t, q) PROVE FALSE
      OBVIOUS
    <2>1. RedOf(t, q) /\ RedOf(t, p)
      BY <1>0, <1>4
    <2>2. IsRed(t, Child(t, p, x.dir))
      BY <1>1, <2>1, IsRedIs
    <2>. QED BY <1>00, <1>1, <1>2, <1>5, <2>1, <2>2 DEF RedRule
  <1>7. \A e \in Side : /\ Child(t, q, e) # p
                        /\ Child(t, q, e) # NULL => hi[Child(t, q, e)] - lo[Child(t, q, e)] < hi[q] - lo[q]
    <2>. SUFFICES ASSUME NEW e \in Side
                  PROVE  /\ Child(t, q, e) # p
                         /\ Child(t, q, e) # NULL => hi[Child(t, q, e)] - lo[Child(t, q, e)] < hi[q] - lo[q]
      OBVIOUS
    <2>1. PICK z : z = Child(t, q, e)
      OBVIOUS
    <2>2. z # NULL => z \in DOMAIN t.n /\ hi[z] - lo[z] < hi[q] - lo[q]
      BY <1>00, <1>3, <2>1, ChildOf
    <2>3. z # p
      BY <1>1, <1>2, <1>3, <2>2
    <2>. QED BY <2>1, <2>2, <2>3
  <1>8. RedOf(t, p)
    BY <1>0, <1>2, <1>3, <1>4, <1>6, <1>7
  <1>9. ~Calm(t, q)
    BY <1>6 DEF Calm
  <1>10. Chained(x, lo, hi, k, m) /\ ~IsRed(t, Child(t, x.g, 1 - x.last))
    BY <1>0, <1>8, <1>9 DEF BelowRoot, Chained
  <1>11. PICK g, last : g = x.g /\ last = x.last
    OBVIOUS
  <1>12. /\ x.h \in DOMAIN t.n /\ \E e \in Side : Child(t, x.h, e) = g
         /\ g # NULL /\ last \in Side /\ p = Child(t, g, last)
    BY <1>0, <1>10, <1>11 DEF Chained
  <1>13. g \in DOMAIN t.n /\ 1 - last \in Side /\ 1 - last # last
    BY <1>00, <1>12, ChildOf, SideFlip
  <1>14. PICK s : s = Child(t, g, 1 - last)
    OBVIOUS
  <1>15. s # NULL => s \in DOMAIN t.n /\ s # q /\ \A e \in Side : s # Child(t, q, e)
    <2>. SUFFICES ASSUME s # NULL PROVE s \in DOMAIN t.n /\ s # q /\ \A e \in Side : s # Child(t, q, e)
      OBVIOUS
    <2>1. s \in DOMAIN t.n
      BY <1>00, <1>13, <1>14, ChildOf
    <2>2. g # p /\ g # q
      <3>1. hi[p] - lo[p] < hi[g] - lo[g]
        BY <1>00, <1>1, <1>12, <1>13, ChildOf
      <3>. QED BY <1>2, <1>3, <1>13, <3>1
    <2>3. s # q
      BY <1>00, <1>1, <1>2, <1>13, <1>14, <2>2, OnePlace
    <2>4. ASSUME NEW e \in Side PROVE s # Child(t, q, e)
      BY <1>00, <1>3, <1>13, <1>14, <2>2, OnePlace
    <2>. QED BY <2>1, <2>3, <2>4
  <1>16. ~IsRed(t0, s)
    <2>1. CASE s = NULL
      BY <2>1 DEF IsRed
    <2>2. CASE s # NULL
      <3>1. RedOf(t0, s) = RedOf(t, s)
        BY <1>4, <1>6, <1>15, <2>2
      <3>. QED BY <1>10, <1>11, <1>14, <3>1, <2>2, IsRedIs
    <2>. QED BY <2>1, <2>2
  <1>17. \A e \in Side : Calm(t0, Child(t0, q, e))
    BY <1>3, <1>4, <1>6
  <1>18. Child(t0, g, 1 - last) = s
    BY <1>4, <1>13, <1>14
  <1>. QED BY <1>0, <1>10, <1>11, <1>16, <1>17, <1>18

(* A turn that rotates a red pair. *)
LEMMA TurnPair ==
  ASSUME NEW V, NEW x, Typed(x.t, V), NEW lo, NEW hi, NEW bh, Sound(x.t, lo, hi, bh, NULL),
         NEW k \in Int, NEW m \in Int, BelowRoot(x, lo, hi, k, m) \/ Chained(x, lo, hi, k, m),
         x.q # NULL,
         NEW t0, t0 = Flip(x.t, x.q), NEW u, u = FixPair(t0, x, x.q),
         RedOf(t0, x.q) /\ RedOf(t0, x.p),
         NEW d, d = Bit(KeyOf(x.t, x.q) < k), NEW y, Stepped(x, y, u, d)
  PROVE  /\ Typed(u, V) /\ Alike(x.t, u)
         /\ \E l2, h2, b2 : /\ Sound(u, l2, h2, b2, NULL)
                            /\ KeyOf(x.t, x.q) # k => Going(y, l2, h2, k, m - 1)
  <1>0. PICK t, h, g, q, p, last, dir : /\ t = x.t /\ q = x.q /\ p = x.p /\ h = x.h /\ g = x.g
                                        /\ last = x.last /\ dir = x.dir
    OBVIOUS
  <1>00. Linked(t, lo, hi)
    BY <1>0 DEF Sound
  <1>1. /\ Chained(x, lo, hi, k, m)
        /\ \A e \in Side : Calm(t0, Child(t0, q, e))
        /\ ~IsRed(t0, Child(t0, g, 1 - last))
    BY <1>0, PairShows
  <1>2. /\ h \in DOMAIN t.n /\ \E e \in Side : Child(t, h, e) = g
        /\ g # NULL /\ last \in Side /\ p = Child(t, g, last) /\ p # NULL
        /\ dir \in Side /\ q = Child(t, p, dir) /\ q # NULL
        /\ Toward(t, lo, hi, p, dir, k, m) /\ Firsts(t, x.lefts, lo, p, dir, k)
    BY <1>0, <1>1 DEF Chained, Heading
  <1>3. g \in DOMAIN t.n /\ g # FalseRoot
    BY <1>00, <1>2, ChildOf
  <1>4. p \in DOMAIN t.n /\ p # FalseRoot
    BY <1>00, <1>2, <1>3, ChildOf
  <1>5. q \in DOMAIN t.n /\ q # FalseRoot
    BY <1>00, <1>2, <1>4, ChildOf
  <1>6. /\ Typed(t0, V) /\ Alike(t, t0) /\ DOMAIN t0.n = DOMAIN t.n /\ KeyOf(t0, q) = KeyOf(t, q)
        /\ \E b2 : Sound(t0, lo, hi, b2, q)
        /\ \A z \in DOMAIN t.n : \A e \in Side : Child(t0, z, e) = Child(t, z, e)
    <2>1. /\ Typed(t0, V) /\ Alike(t, t0)
          /\ \E b2 : Sound(t0, lo, hi, b2, q)
          /\ \A z \in DOMAIN t.n : \A e \in Side : Child(t0, z, e) = Child(t, z, e)
      BY <1>0, <1>5, FlipIs
    <2>. QED BY <1>5, <2>1 DEF Alike
  <1>7. PICK b0 : Sound(t0, lo, hi, b0, q)
    BY <1>6
  <1>8. /\ h \in DOMAIN t0.n /\ \E e \in Side : Child(t0, h, e) = g
        /\ p = Child(t0, g, last) /\ q = Child(t0, p, dir)
        /\ Toward(t0, lo, hi, p, dir, k, m) /\ Firsts(t0, x.lefts, lo, p, dir, k)
    <2>1. Toward(t0, lo, hi, p, dir, k, m) /\ Firsts(t0, x.lefts, lo, p, dir, k)
      BY <1>2, <1>6, HeadingKept
    <2>. QED BY <1>2, <1>3, <1>4, <1>6, <2>1
  <1>9. Linked(t0, lo, hi) /\ Balanced(t0, b0) /\ RedRule(t0, q)
    BY <1>7 DEF Sound
  <1>10. ~IsRed(t0, Child(t0, q, 0)) /\ ~IsRed(t0, Child(t0, q, 1))
    BY <1>1, IsRedIs DEF Calm, Side
  <1>11. /\ Typed(u, V)
         /\ \E d2 \in Side : \E l2, h2, b2 :
              /\ Linked(u, l2, h2) /\ Balanced(u, b2) /\ RedRule(u, NULL)
              /\ Child(t0, h, d2) = g
              /\ \/ dir = last /\ Turn1(t0, u, lo, hi, l2, h2, h, d2, g, p, Child(t0, p, 1 - last), 1 - last)
                 \/ dir # last /\ Turn2(t0, u, lo, hi, l2, h2, h, d2, g, p, q, 1 - last)
    <2>1. /\ x.h \in DOMAIN t0.n /\ (\E e \in Side : Child(t0, x.h, e) = x.g) /\ x.g # NULL
          /\ x.last \in Side /\ x.p = Child(t0, x.g, x.last) /\ x.p # NULL
          /\ dir \in Side /\ q = Child(t0, x.p, dir) /\ q # NULL
          /\ RedOf(t0, q) /\ RedOf(t0, x.p) /\ ~IsRed(t0, Child(t0, x.g, 1 - x.last))
          /\ u = FixPair(t0, x, q)
      BY <1>0, <1>1, <1>2, <1>8
    <2>2. /\ Typed(u, V)
          /\ \E d2 \in Side : \E l2, h2, b2 :
               /\ Linked(u, l2, h2) /\ Balanced(u, b2) /\ RedRule(u, NULL)
               /\ Child(t0, x.h, d2) = x.g
               /\ \/ dir = x.last /\ Turn1(t0, u, lo, hi, l2, h2, x.h, d2, x.g, x.p, Child(t0, x.p, 1 - x.last), 1 - x.last)
                  \/ dir # x.last /\ Turn2(t0, u, lo, hi, l2, h2, x.h, d2, x.g, x.p, q, 1 - x.last)
      BY ONLY <1>6, <1>9, <1>10, <2>1, PairFixed
    <2>. QED BY <1>0, <2>2
  <1>12. PICK d2 \in Side : \E l2, h2, b2 :
              /\ Linked(u, l2, h2) /\ Balanced(u, b2) /\ RedRule(u, NULL)
              /\ Child(t0, h, d2) = g
              /\ \/ dir = last /\ Turn1(t0, u, lo, hi, l2, h2, h, d2, g, p, Child(t0, p, 1 - last), 1 - last)
                 \/ dir # last /\ Turn2(t0, u, lo, hi, l2, h2, h, d2, g, p, q, 1 - last)
    BY <1>11
  <1>13. PICK l2, h2, b2 :
              /\ Linked(u, l2, h2) /\ Balanced(u, b2) /\ RedRule(u, NULL)
              /\ Child(t0, h, d2) = g
              /\ \/ dir = last /\ Turn1(t0, u, lo, hi, l2, h2, h, d2, g, p, Child(t0, p, 1 - last), 1 - last)
                 \/ dir # last /\ Turn2(t0, u, lo, hi, l2, h2, h, d2, g, p, q, 1 - last)
    BY <1>12
  <1>14. Alike(t, u)
    <2>1. Alike(t0, u)
      BY <1>13 DEF Turn1, Turn2, Rotated
    <2>. QED BY <1>6, <2>1, AlikeTrans
  <1>15. Sound(u, l2, h2, b2, NULL)
    BY <1>13 DEF Sound
  <1>16. ASSUME KeyOf(t, q) # k
         PROVE  Going(y, l2, h2, k, m - 1)
    <2>1. /\ d \in Side /\ Toward(t0, lo, hi, q, d, k, m - 1) /\ Toward(t0, lo, hi, q, d, k, m - 2)
          /\ Firsts(t0, y.lefts, lo, q, d, k) /\ d = Bit(KeyOf(t0, q) < k)
      <3>1. d = Bit(KeyOf(t0, q) < k) /\ KeyOf(t0, q) # k
        BY <1>0, <1>6, <1>16
      <3>2. y.lefts = (x.lefts /\ d = 0)
        BY DEF Stepped
      <3>. QED BY <1>2, <1>8, <1>9, <3>1, <3>2, TowardDown
    <2>2. /\ y.t = u /\ y.g = p /\ y.p = q /\ y.q = Child(u, q, d) /\ y.last = dir /\ y.dir = d
      BY <1>0 DEF Stepped
    <2>3. Calm(t0, Child(t0, q, d))
      BY <1>1, <2>1
    <2>4. CASE dir = last
      <3>1. Turn1(t0, u, lo, hi, l2, h2, h, d2, g, p, Child(t0, p, 1 - last), 1 - last)
        BY <1>13, <2>4
      <3>2. y.last = last /\ q = Child(t0, p, last)
        BY <1>8, <2>2, <2>4
      <3>3. AfterSingle(y, l2, h2, k, m - 1)
        <4>1. /\ m - 1 \in Int /\ k \in Int /\ h \in DOMAIN t0.n /\ d2 \in Side /\ last \in Side
              /\ g = Child(t0, h, d2) /\ g # NULL /\ p = Child(t0, g, last) /\ p # NULL
              /\ q = Child(t0, p, last) /\ q # NULL
              /\ y.t = u /\ y.g = p /\ y.p = q /\ y.q = Child(u, q, d) /\ y.last = last /\ y.dir = d
          BY <1>2, <1>8, <1>13, <2>2, <3>2
        <4>. QED BY ONLY <1>9, <2>1, <2>3, <3>1, <4>1, SingleThen
      <3>. QED BY <3>3 DEF Going
    <2>5. CASE dir # last
      <3>1. Turn2(t0, u, lo, hi, l2, h2, h, d2, g, p, q, dir) /\ dir = 1 - last
        <4>1. dir = 1 - last
          BY <1>2, <2>5 DEF Side
        <4>. QED BY <1>13, <2>5, <4>1
      <3>2. Lower(t0, lo, p, dir) < k /\ k < Upper(t0, hi, p, dir)
        BY <1>8 DEF Toward
      <3>3. x.lefts = FALSE
        <4>1. Lower(t0, lo, p, dir) >= 1
          <5>1. lo[p] = Lower(t0, lo, g, last) /\ g \in DOMAIN t0.n /\ p \in DOMAIN t0.n
            BY <1>2, <1>3, <1>4, <1>6, <1>8, <1>9, ChildOf
          <5>2. KeyOf(t0, p) >= 1 /\ KeyOf(t0, g) >= 1
            BY <1>3, <1>4, <1>6, <1>9, LinkedNames DEF Linked
          <5>3. CASE dir = 1
            BY <5>2, <5>3 DEF Lower
          <5>4. CASE dir = 0
            <6>1. last = 1
              BY <1>2, <3>1, <5>4 DEF Side
            <6>. QED BY <5>1, <5>2, <5>4, <6>1 DEF Lower
          <5>. QED BY <1>2, <5>3, <5>4 DEF Side
        <4>2. x.lefts \in BOOLEAN /\ (x.lefts => Lower(t0, lo, p, dir) = 0)
          BY <1>8 DEF Firsts
        <4>. QED BY <4>1, <4>2
      <3>4. y.lefts = FALSE /\ Firsts(t0, FALSE, lo, q, d, k)
        <4>1. y.lefts = FALSE
          BY <3>3 DEF Stepped
        <4>. QED BY <2>1, <4>1
      <3>5. Toward(t0, lo, hi, q, d, k, m - 1 - 1) /\ RedOf(t0, p)
        BY <1>0, <2>1
      <3>6. AfterDouble(y, l2, h2, k, m - 1)
        <4>1. /\ m - 1 \in Int /\ k \in Int /\ h \in DOMAIN t0.n /\ d2 \in Side /\ last \in Side
              /\ g = Child(t0, h, d2) /\ g # NULL /\ p = Child(t0, g, last) /\ p # NULL
              /\ q = Child(t0, p, dir) /\ q # NULL /\ dir = 1 - last
              /\ y.t = u /\ y.g = p /\ y.p = q /\ y.q = Child(u, q, d) /\ y.last = dir /\ y.dir = d
          BY <1>2, <1>8, <1>13, <2>2, <3>1
        <4>. QED BY ONLY <1>9, <2>1, <2>3, <3>1, <3>2, <3>4, <3>5, <4>1, DoubleThen
      <3>. QED BY <3>6 DEF Going
    <2>. QED BY <2>4, <2>5
  <1>. QED BY <1>0, <1>11, <1>14, <1>15, <1>16

-----------------------------------------------------------------------------
(***************************************************************************)
(* A tree at rest: without the false root, with a black root.              *)
(***************************************************************************)
Hung(t, lo, hi, x, d) ==
  Child(t, x, d) # NULL => /\ lo[Child(t, x, d)] = Lower(t, lo, x, d)
                           /\ hi[Child(t, x, d)] = Upper(t, hi, x, d)
                           /\ ParentOf(t, Child(t, x, d)) = x

Rooted(t, lo, hi) ==
  /\ t.root \in DOMAIN t.n
  /\ lo[t.root] = 0 /\ hi[t.root] = NKey + 1
  /\ ~RedOf(t, t.root) /\ ParentOf(t, t.root) = NULL

Shaped(t, lo, hi, bh) ==
  /\ DOMAIN t.n \subseteq Key
  /\ lo \in [DOMAIN t.n -> Int] /\ hi \in [DOMAIN t.n -> Int] /\ bh \in [DOMAIN t.n -> Nat]
  /\ \A x \in DOMAIN t.n : /\ KeyOf(t, x) \in Key /\ 0 <= lo[x] /\ hi[x] <= NKey + 1
                           /\ lo[x] < KeyOf(t, x) /\ KeyOf(t, x) < hi[x]
  /\ \A x \in DOMAIN t.n : \A d \in Side :
       /\ Child(t, x, d) \in Links(t)
       /\ Hung(t, lo, hi, x, d)
       /\ bh[x] = Tall(bh, Child(t, x, d)) + Bit(~RedOf(t, x))
       /\ ~(RedOf(t, x) /\ IsRed(t, Child(t, x, d)))
  /\ IF t.root = NULL THEN DOMAIN t.n = {} ELSE Rooted(t, lo, hi)
  /\ \A x \in DOMAIN t.n :
       \/ x = t.root
       \/ ParentOf(t, x) \in DOMAIN t.n /\ \E d \in Side : Child(t, ParentOf(t, x), d) = x

(* Putting the false root above a tree makes it sound. *)
LEMMA HeadOn ==
  ASSUME NEW V, NULL \in V, NEW t, Typed(t, V), NEW lo, NEW hi, NEW bh, Shaped(t, lo, hi, bh),
         t.root # NULL, NEW u, u = WithHead(t)
  PROVE  /\ Typed(u, V) /\ DOMAIN u.n = DOMAIN t.n \cup {FalseRoot} /\ FalseRoot \notin DOMAIN t.n
         /\ u.root = t.root /\ u.beg = t.beg /\ u.len = t.len
         /\ \A x \in DOMAIN t.n : KeyOf(u, x) = KeyOf(t, x) /\ ValOf(u, x) = ValOf(t, x)
         /\ Child(u, FalseRoot, 1) = t.root /\ ~RedOf(u, t.root)
         /\ \E l2, h2, b2 : Sound(u, l2, h2, b2, NULL)
  <1>. DEFINE D == DOMAIN t.n
              l2 == [x \in D \cup {FalseRoot} |-> IF x = FalseRoot THEN -1 ELSE lo[x]]
              h2 == [x \in D \cup {FalseRoot} |-> IF x = FalseRoot THEN NKey + 1 ELSE hi[x]]
              b2 == [x \in D \cup {FalseRoot} |-> IF x = FalseRoot THEN 0 ELSE bh[x]]
  <1>1. FalseRoot \notin D /\ NKey \in Nat /\ NULL \notin D /\ FalseRoot # NULL
        /\ \A k \in Key : k \in Int /\ 1 <= k /\ k <= NKey
    BY KeyAssumption DEF Shaped, Key, FalseRoot, NULL
  <1>2. /\ Typed(u, V) /\ DOMAIN u.n = D \cup {FalseRoot}
        /\ u.root = t.root /\ u.beg = t.beg /\ u.len = t.len
        /\ \A y \in D :
              /\ KeyOf(u, y) = KeyOf(t, y) /\ ValOf(u, y) = ValOf(t, y)
              /\ RedOf(u, y) = RedOf(t, y) /\ ParentOf(u, y) = ParentOf(t, y)
              /\ \A e \in Side : Child(u, y, e) = Child(t, y, e)
        /\ KeyOf(u, FalseRoot) = 0
        /\ Child(u, FalseRoot, 0) = NULL /\ Child(u, FalseRoot, 1) = t.root
    BY <1>1, WithHeadIs
  <1>3. Rooted(t, lo, hi)
    BY DEF Shaped
  <1>4. /\ \A x \in D : /\ KeyOf(t, x) \in Key /\ 0 <= lo[x] /\ hi[x] <= NKey + 1
                        /\ lo[x] < KeyOf(t, x) /\ KeyOf(t, x) < hi[x]
                        /\ lo[x] \in Int /\ hi[x] \in Int /\ bh[x] \in Nat
        /\ \A x \in D : \A d \in Side :
             /\ Child(t, x, d) \in D \cup {NULL}
             /\ Hung(t, lo, hi, x, d)
             /\ bh[x] = Tall(bh, Child(t, x, d)) + Bit(~RedOf(t, x))
             /\ ~(RedOf(t, x) /\ IsRed(t, Child(t, x, d)))
        /\ \A x \in D :
             \/ x = t.root
             \/ ParentOf(t, x) \in D /\ \E d \in Side : Child(t, ParentOf(t, x), d) = x
        /\ D \subseteq Key
    BY DEF Shaped, Links
  <1>5. /\ l2 \in [D \cup {FalseRoot} -> Int] /\ h2 \in [D \cup {FalseRoot} -> Int]
        /\ b2 \in [D \cup {FalseRoot} -> Nat]
        /\ l2[FalseRoot] = -1 /\ h2[FalseRoot] = NKey + 1
        /\ \A x \in D : l2[x] = lo[x] /\ h2[x] = hi[x] /\ b2[x] = bh[x]
    BY <1>1, <1>4
  <1>. HIDE DEF l2, h2, b2
  <1>6. \A x \in D \cup {FalseRoot} : \A d \in Side :
          /\ Child(u, x, d) \in Links(u)
          /\ Child(u, x, d) # NULL =>
               /\ l2[Child(u, x, d)] = Lower(u, l2, x, d)
               /\ h2[Child(u, x, d)] = Upper(u, h2, x, d)
               /\ x # FalseRoot => ParentOf(u, Child(u, x, d)) = x
    <2>1. ASSUME NEW x \in D, NEW d \in Side
          PROVE  /\ Child(u, x, d) \in Links(u)
                 /\ Child(u, x, d) # NULL =>
                      /\ l2[Child(u, x, d)] = Lower(u, l2, x, d)
                      /\ h2[Child(u, x, d)] = Upper(u, h2, x, d)
                      /\ x # FalseRoot => ParentOf(u, Child(u, x, d)) = x
      <3>1. PICK c : c = Child(t, x, d)
        OBVIOUS
      <3>2. Child(u, x, d) = c /\ c \in D \cup {NULL}
        BY <1>2, <1>4, <3>1
      <3>3. c \in Links(u)
        BY <1>2, <3>2 DEF Links
      <3>4. ASSUME c # NULL
            PROVE  l2[c] = Lower(u, l2, x, d) /\ h2[c] = Upper(u, h2, x, d) /\ ParentOf(u, c) = x
        <4>1. c \in D /\ lo[c] = Lower(t, lo, x, d) /\ hi[c] = Upper(t, hi, x, d) /\ ParentOf(t, c) = x
          BY <1>4, <3>1, <3>2, <3>4 DEF Hung
        <4>. QED BY <1>2, <1>5, <4>1 DEF Lower, Upper
      <3>. QED BY <3>2, <3>3, <3>4
    <2>2. ASSUME NEW d \in Side
          PROVE  /\ Child(u, FalseRoot, d) \in Links(u)
                 /\ Child(u, FalseRoot, d) # NULL =>
                      /\ l2[Child(u, FalseRoot, d)] = Lower(u, l2, FalseRoot, d)
                      /\ h2[Child(u, FalseRoot, d)] = Upper(u, h2, FalseRoot, d)
      <3>1. CASE d = 0
        BY <1>2, <3>1 DEF Links
      <3>2. CASE d = 1
        BY <1>2, <1>3, <1>5, <3>2 DEF Links, Rooted, Lower, Upper
      <3>. QED BY <3>1, <3>2 DEF Side
    <2>. QED BY <2>1, <2>2
  <1>7. \A x \in DOMAIN u.n \ {FalseRoot} :
          \/ x = Child(u, FalseRoot, 1)
          \/ /\ ParentOf(u, x) \in DOMAIN u.n \ {FalseRoot}
             /\ \E d \in Side : Child(u, ParentOf(u, x), d) = x
    BY <1>1, <1>2, <1>4
  <1>8. Linked(u, l2, h2)
    <2>1. \A x \in DOMAIN u.n : KeyOf(u, x) \in Int /\ l2[x] < KeyOf(u, x) /\ KeyOf(u, x) < h2[x]
      BY <1>1, <1>2, <1>4, <1>5
    <2>2. \A x \in DOMAIN u.n \ {FalseRoot} : KeyOf(u, x) \in Key /\ 0 <= l2[x] /\ h2[x] <= NKey + 1
      BY <1>1, <1>2, <1>4, <1>5
    <2>3. DOMAIN u.n = D \cup {FalseRoot} /\ DOMAIN u.n \subseteq Key \cup {FalseRoot}
      BY <1>2, <1>4
    <2>. QED BY <1>2, <1>5, <1>6, <1>7, <2>1, <2>2, <2>3 DEF Linked
  <1>9. Balanced(u, b2) /\ RedRule(u, NULL)
    <2>1. ASSUME NEW x \in D, NEW d \in Side
          PROVE  /\ b2[x] = Tall(b2, Child(u, x, d)) + Bit(~RedOf(u, x))
                 /\ ~(RedOf(u, x) /\ IsRed(u, Child(u, x, d)))
      <3>1. PICK c : c = Child(t, x, d)
        OBVIOUS
      <3>2. Child(u, x, d) = c /\ c \in D \cup {NULL}
        BY <1>2, <1>4, <3>1
      <3>3. bh[x] = Tall(bh, c) + Bit(~RedOf(t, x)) /\ ~(RedOf(t, x) /\ IsRed(t, c))
        BY <1>4, <3>1
      <3>4. CASE c = NULL
        BY <1>2, <1>5, <3>2, <3>3, <3>4 DEF Tall, IsRed
      <3>5. CASE c # NULL
        <4>1. RedOf(u, c) = RedOf(t, c) /\ b2[c] = bh[c]
          BY <1>2, <1>5, <3>2, <3>5
        <4>. QED BY <1>2, <1>5, <3>2, <3>3, <3>5, <4>1, IsRedIs DEF Tall
      <3>. QED BY <3>4, <3>5
    <2>. QED BY <1>2, <1>5, <2>1 DEF Balanced, RedRule
  <1>10. ~RedOf(u, t.root)
    BY <1>2, <1>3 DEF Rooted
  <1>. QED BY <1>1, <1>2, <1>8, <1>9, <1>10 DEF Sound

(* Taking the false root away from a sound tree leaves a shaped one. *)
LEMMA HeadOff ==
  ASSUME NEW V, NEW t, Typed(t, V), NEW lo, NEW hi, NEW bh, Sound(t, lo, hi, bh, NULL),
         NEW u, u = NewRoot(t)
  PROVE  /\ Typed(u, V) /\ DOMAIN u.n = DOMAIN t.n \ {FalseRoot}
         /\ u.beg = t.beg /\ u.len = t.len
         /\ \A x \in DOMAIN u.n : KeyOf(u, x) = KeyOf(t, x) /\ ValOf(u, x) = ValOf(t, x)
                                  /\ \A e \in Side : Child(u, x, e) = Child(t, x, e)
         /\ u.root = Child(t, FalseRoot, 1)
         /\ \E l2, h2, b2 : Shaped(u, l2, h2, b2)
  <1>. DEFINE D == DOMAIN t.n
              E == DOMAIN t.n \ {FalseRoot}
  <1>1. PICK r : r = Child(t, FalseRoot, 1)
    OBVIOUS
  <1>. DEFINE l2 == [x \in E |-> lo[x]]
              h2 == [x \in E |-> hi[x]]
              b2 == [x \in E |-> IF x = r /\ RedOf(t, r) THEN bh[x] + 1 ELSE bh[x]]
  <1>2. Linked(t, lo, hi) /\ Balanced(t, bh) /\ RedRule(t, NULL) /\ 1 \in Side /\ 0 \in Side
    BY DEF Sound, Side
  <1>3. /\ FalseRoot \in D /\ r \in Links(t) /\ NULL \notin D /\ NKey \in Nat
        /\ \A x \in D : lo[x] \in Int /\ hi[x] \in Int /\ bh[x] \in Nat
        /\ r # NULL => r \in E /\ lo[r] = 0 /\ hi[r] = NKey + 1
    <2>1. /\ FalseRoot \in D /\ r \in Links(t) /\ KeyOf(t, FalseRoot) = 0 /\ hi[FalseRoot] = NKey + 1
          /\ \A x \in D : lo[x] \in Int /\ hi[x] \in Int /\ bh[x] \in Nat
      BY <1>1, <1>2 DEF Linked, Balanced
    <2>2. r # NULL => r \in E /\ lo[r] = Lower(t, lo, FalseRoot, 1) /\ hi[r] = Upper(t, hi, FalseRoot, 1)
      BY <1>1, <1>2, <2>1, ChildOf
    <2>3. NULL \notin D /\ NKey \in Nat
      BY <1>2, LinkedNames
    <2>. QED BY <2>1, <2>2, <2>3 DEF Lower, Upper
  <1>4. /\ Typed(u, V) /\ DOMAIN u.n = E
        /\ u.root = r /\ u.beg = t.beg /\ u.len = t.len
        /\ \A y \in E :
              /\ KeyOf(u, y) = KeyOf(t, y) /\ ValOf(u, y) = ValOf(t, y)
              /\ RedOf(u, y) <=> RedOf(t, y) /\ y # r
              /\ ParentOf(u, y) = IF y = r THEN NULL ELSE ParentOf(t, y)
              /\ \A e \in Side : Child(u, y, e) = Child(t, y, e)
    <2>0. FalseRoot \in DOMAIN t.n /\ r \in Links(t)
      BY <1>3
    <2>1. /\ Typed(u, V) /\ DOMAIN u.n = DOMAIN t.n \ {FalseRoot}
          /\ u.root = r /\ u.beg = t.beg /\ u.len = t.len
          /\ \A y \in DOMAIN u.n :
              /\ KeyOf(u, y) = KeyOf(t, y) /\ ValOf(u, y) = ValOf(t, y)
              /\ RedOf(u, y) <=> RedOf(t, y) /\ y # r
              /\ ParentOf(u, y) = IF y = r THEN NULL ELSE ParentOf(t, y)
              /\ \A e \in Side : Child(u, y, e) = Child(t, y, e)
      BY <1>1, <2>0, NewRootIs
    <2>. QED BY <2>1
  <1>5. /\ l2 \in [E -> Int] /\ h2 \in [E -> Int] /\ b2 \in [E -> Nat]
        /\ \A x \in E : l2[x] = lo[x] /\ h2[x] = hi[x]
                        /\ b2[x] = IF x = r /\ RedOf(t, r) THEN bh[x] + 1 ELSE bh[x]
    BY <1>3
  <1>. HIDE DEF l2, h2, b2
  <1>6. ASSUME NEW x \in E, NEW d \in Side, NEW c, c = Child(t, x, d)
        PROVE  /\ c # NULL => /\ c \in E /\ c # r
                              /\ lo[c] = Lower(t, lo, x, d) /\ hi[c] = Upper(t, hi, x, d)
                              /\ ParentOf(t, c) = x
               /\ c \in Links(u)
               /\ bh[x] = Tall(bh, c) + Bit(~RedOf(t, x))
               /\ ~(RedOf(t, x) /\ IsRed(t, c))
    <2>1. c # NULL => /\ c \in E /\ lo[c] = Lower(t, lo, x, d) /\ hi[c] = Upper(t, hi, x, d)
                      /\ ParentOf(t, c) = x
      BY <1>2, <1>6, ChildOf
    <2>2. c # NULL => c # r
      BY <1>1, <1>2, <1>3, <1>6, OnePlace
    <2>3. c \in Links(u)
      BY <1>4, <2>1 DEF Links
    <2>4. bh[x] = Tall(bh, c) + Bit(~RedOf(t, x))
      BY <1>2, <1>6 DEF Balanced
    <2>5. ~(RedOf(t, x) /\ IsRed(t, c))
      BY <1>2, <1>6, IsRedIs DEF RedRule
    <2>. QED BY <2>1, <2>2, <2>3, <2>4, <2>5
  <1>7. ASSUME NEW x \in E, NEW d \in Side
        PROVE  /\ Child(u, x, d) \in Links(u)
               /\ Hung(u, l2, h2, x, d)
               /\ b2[x] = Tall(b2, Child(u, x, d)) + Bit(~RedOf(u, x))
               /\ ~(RedOf(u, x) /\ IsRed(u, Child(u, x, d)))
    <2>1. PICK c : c = Child(t, x, d)
      OBVIOUS
    <2>2. Child(u, x, d) = c
      BY <1>4, <2>1
    <2>3. /\ c # NULL => /\ c \in E /\ c # r
                         /\ lo[c] = Lower(t, lo, x, d) /\ hi[c] = Upper(t, hi, x, d)
                         /\ ParentOf(t, c) = x
          /\ c \in Links(u)
          /\ bh[x] = Tall(bh, c) + Bit(~RedOf(t, x))
          /\ ~(RedOf(t, x) /\ IsRed(t, c))
      BY <1>6, <2>1
    <2>4. Hung(u, l2, h2, x, d)
      BY <1>4, <1>5, <2>2, <2>3 DEF Hung, Lower, Upper
    <2>5. ~(RedOf(u, x) /\ IsRed(u, c))
      BY <1>4, <2>3, IsRedIs
    <2>6. Tall(b2, c) = Tall(bh, c) /\ Tall(bh, c) \in Nat
      BY <1>3, <1>5, <2>3 DEF Tall
    <2>7. b2[x] = Tall(b2, c) + Bit(~RedOf(u, x))
      <3>1. CASE x = r /\ RedOf(t, r)
        <4>1. ~RedOf(u, x) /\ b2[x] = bh[x] + 1
          BY <1>4, <1>5, <3>1
        <4>. QED BY <2>3, <2>6, <3>1, <4>1 DEF Bit
      <3>2. CASE ~(x = r /\ RedOf(t, r))
        <4>1. RedOf(u, x) <=> RedOf(t, x)
          BY <1>4, <3>2
        <4>2. b2[x] = bh[x]
          BY <1>5, <3>2
        <4>. QED BY <2>3, <2>6, <4>1, <4>2 DEF Bit
      <3>. QED BY <3>1, <3>2
    <2>. QED BY <2>2, <2>3, <2>4, <2>5, <2>7
  <1>8. IF u.root = NULL THEN DOMAIN u.n = {} ELSE Rooted(u, l2, h2)
    <2>1. CASE r = NULL
      <3>. SUFFICES ASSUME NEW x \in E PROVE FALSE
        BY <1>4, <2>1
      <3>1. /\ KeyOf(t, x) \in Key /\ KeyOf(t, FalseRoot) = 0 /\ hi[FalseRoot] = NKey + 1
        BY <1>2 DEF Linked
      <3>2. Lower(t, lo, FalseRoot, 1) < KeyOf(t, x) /\ KeyOf(t, x) < Upper(t, hi, FalseRoot, 1)
        BY <1>2, <3>1, LinkedNames DEF Lower, Upper
      <3>. QED BY <1>1, <1>2, <1>3, <2>1, <3>2, SideHasChild
    <2>2. CASE r # NULL
      BY <1>3, <1>4, <1>5, <2>2 DEF Rooted
    <2>. QED BY <1>4, <2>1, <2>2
  <1>9. \A x \in DOMAIN u.n :
          \/ x = u.root
          \/ ParentOf(u, x) \in DOMAIN u.n /\ \E d \in Side : Child(u, ParentOf(u, x), d) = x
    <2>. SUFFICES ASSUME NEW x \in E, x # r
                  PROVE  ParentOf(u, x) \in E /\ \E d \in Side : Child(u, ParentOf(u, x), d) = x
      BY <1>4
    <2>1. ParentOf(t, x) \in E /\ \E d \in Side : Child(t, ParentOf(t, x), d) = x
      BY <1>1, <1>2 DEF Linked
    <2>. QED BY <1>4, <2>1
  <1>10. /\ E \subseteq Key
         /\ \A x \in E : /\ KeyOf(u, x) \in Key /\ 0 <= l2[x] /\ h2[x] <= NKey + 1
                         /\ l2[x] < KeyOf(u, x) /\ KeyOf(u, x) < h2[x]
    BY <1>2, <1>4, <1>5 DEF Linked
  <1>11. Shaped(u, l2, h2, b2)
    BY <1>4, <1>5, <1>7, <1>8, <1>9, <1>10 DEF Shaped
  <1>. QED BY <1>1, <1>4, <1>11

First(t) == IF DOMAIN t.n = {} THEN t.beg = NULL
            ELSE t.beg \in DOMAIN t.n /\ \A x \in DOMAIN t.n : KeyOf(t, t.beg) <= KeyOf(t, x)

(* A tree between two operations. *)
Whole(t, V) ==
  /\ Typed(t, V)
  /\ \E lo, hi, bh : Shaped(t, lo, hi, bh)
  /\ First(t) /\ t.len = Cardinality(DOMAIN t.n)

(* u is t with v at key k, where Among says whether k was there. *)
Among(t, k) == \E x \in DOMAIN t.n : KeyOf(t, x) = k
Became(t, u, k, v) ==
  /\ \A x \in DOMAIN t.n :
       /\ x \in DOMAIN u.n /\ KeyOf(u, x) = KeyOf(t, x)
       /\ ValOf(u, x) = IF KeyOf(t, x) = k THEN v ELSE ValOf(t, x)
  /\ IF Among(t, k) THEN DOMAIN u.n = DOMAIN t.n
     ELSE \E q \in DOMAIN u.n : /\ DOMAIN u.n = DOMAIN t.n \cup {q} /\ q \notin DOMAIN t.n
                                /\ KeyOf(u, q) = k /\ ValOf(u, q) = v

(* Assigning the value of a node leaves its other fields. *)
LEMMA ValIs ==
  ASSUME NEW V, NEW t, Typed(t, V), NEW q \in DOMAIN t.n, NEW v \in V,
         NEW u, u = [t EXCEPT !.n[q].val = v]
  PROVE  /\ Typed(u, V) /\ DOMAIN u.n = DOMAIN t.n
         /\ u.root = t.root /\ u.beg = t.beg /\ u.len = t.len
         /\ \A x \in DOMAIN t.n :
              /\ KeyOf(u, x) = KeyOf(t, x) /\ ValOf(u, x) = IF x = q THEN v ELSE ValOf(t, x)
              /\ RedOf(u, x) = RedOf(t, x) /\ ParentOf(u, x) = ParentOf(t, x)
              /\ \A e \in Side : Child(u, x, e) = Child(t, x, e)
  <1>0. PICK r : r = [t.n[q] EXCEPT !.val = v]
    OBVIOUS
  <1>1. u = [t EXCEPT !.n[q] = r]
    BY <1>0
  <1>2. t.n[q] \in Field(V)
    BY DEF Typed
  <1>3. /\ r \in Field(V) /\ r.red = t.n[q].red /\ r.parent = t.n[q].parent
        /\ r.key = t.n[q].key /\ r.val = v /\ r.ch = t.n[q].ch
    BY <1>0, <1>2 DEF Field
  <1>4. /\ Typed(u, V) /\ DOMAIN u.n = DOMAIN t.n
        /\ u.root = t.root /\ u.beg = t.beg /\ u.len = t.len
        /\ \A x \in DOMAIN t.n : u.n[x] = IF x = q THEN r ELSE t.n[x]
    <2>1. r \in Field(V)
      BY <1>3
    <2>2. /\ Typed(u, V) /\ DOMAIN u.n = DOMAIN t.n
          /\ u.root = t.root /\ u.beg = t.beg /\ u.len = t.len
          /\ u.n[q] = r /\ \A x \in DOMAIN t.n \ {q} : u.n[x] = t.n[x]
      <3>1. Typed(t, V) /\ q \in DOMAIN t.n
        OBVIOUS
      <3>. QED BY ONLY <1>1, <2>1, <3>1, NodeReplaced
    <2>. QED BY <2>2
  <1>. QED BY <1>3, <1>4 DEF KeyOf, ValOf, RedOf, ParentOf, Child

(* What holds of a sound tree after a change of values or of a node. *)
LEMMA SoundAlso ==
  ASSUME NEW t, NEW lo, NEW hi, NEW bh, NEW q, Sound(t, lo, hi, bh, q), NEW u, DOMAIN u.n = DOMAIN t.n,
         \A x \in DOMAIN t.n : /\ KeyOf(u, x) = KeyOf(t, x) /\ ParentOf(u, x) = ParentOf(t, x)
                               /\ RedOf(u, x) = RedOf(t, x)
                               /\ \A e \in Side : Child(u, x, e) = Child(t, x, e)
  PROVE  Sound(u, lo, hi, bh, q)
  <1>1. Linked(t, lo, hi) /\ Balanced(t, bh) /\ RedRule(t, q)
    BY DEF Sound
  <1>2. Linked(u, lo, hi)
    BY <1>1, SameLinks
  <1>3. ASSUME NEW x \in DOMAIN t.n, NEW d \in Side
        PROVE  /\ Child(u, x, d) = Child(t, x, d)
               /\ IsRed(u, Child(u, x, d)) <=> IsRed(t, Child(t, x, d))
    <2>1. PICK c : c = Child(t, x, d)
      OBVIOUS
    <2>2. c = NULL \/ c \in DOMAIN t.n
      BY <1>1, <2>1 DEF Linked, Links
    <2>3. Child(u, x, d) = c
      BY <2>1
    <2>4. IsRed(u, c) <=> IsRed(t, c)
      <3>1. CASE c = NULL
        BY <3>1, IsRedIs
      <3>2. CASE c # NULL
        <4>1. RedOf(u, c) = RedOf(t, c)
          BY <2>2, <3>2
        <4>. QED BY <4>1, IsRedIs
      <3>. QED BY <3>1, <3>2
    <2>. QED BY <2>1, <2>3, <2>4
  <1>4. Balanced(u, bh)
    BY <1>1 DEF Balanced
  <1>5. RedRule(u, q)
    BY <1>1, <1>3 DEF RedRule
  <1>. QED BY <1>2, <1>4, <1>5 DEF Sound

(* Where the key was present, the end of _insert leaves the tree with the  *)
(* new value at it.                                                        *)
LEMMA InsertedFound ==
  ASSUME NEW V, NEW t, Whole(t, V), FalseRoot \notin DOMAIN t.n,
         NEW x, Typed(x, V), DOMAIN x.n = DOMAIN t.n \cup {FalseRoot}, x.beg = t.beg, x.len = t.len,
         \A y \in DOMAIN t.n : KeyOf(x, y) = KeyOf(t, y) /\ ValOf(x, y) = ValOf(t, y),
         NEW lo, NEW hi, NEW bh, Sound(x, lo, hi, bh, NULL),
         NEW s, NEW k, NEW v \in V, NEW q \in DOMAIN t.n, KeyOf(t, q) = k,
         NEW u, u = Inserted(x, s, q, v, FALSE)
  PROVE  Whole(u, V) /\ Became(t, u, k, v)
  <1>1. PICK w : w = [x EXCEPT !.n[q].val = v]
    OBVIOUS
  <1>2. u = NewRoot(w)
    BY <1>1 DEF Inserted
  <1>3. q \in DOMAIN x.n
    OBVIOUS
  <1>4. /\ Typed(w, V) /\ DOMAIN w.n = DOMAIN x.n /\ w.beg = t.beg /\ w.len = t.len
        /\ \A z \in DOMAIN x.n :
              /\ KeyOf(w, z) = KeyOf(x, z) /\ ValOf(w, z) = IF z = q THEN v ELSE ValOf(x, z)
              /\ RedOf(w, z) = RedOf(x, z) /\ ParentOf(w, z) = ParentOf(x, z)
              /\ \A e \in Side : Child(w, z, e) = Child(x, z, e)
    BY <1>1, <1>3, ValIs
  <1>5. Sound(w, lo, hi, bh, NULL)
    BY <1>4, SoundAlso
  <1>6. /\ Typed(u, V) /\ DOMAIN u.n = DOMAIN w.n \ {FalseRoot}
        /\ u.beg = w.beg /\ u.len = w.len
        /\ \A z \in DOMAIN u.n : KeyOf(u, z) = KeyOf(w, z) /\ ValOf(u, z) = ValOf(w, z)
        /\ \E l2, h2, b2 : Shaped(u, l2, h2, b2)
    <2>1. Typed(w, V)
      BY <1>4
    <2>. QED BY ONLY <1>2, <1>5, <2>1, HeadOff
  <1>7. /\ DOMAIN u.n = DOMAIN t.n /\ u.beg = t.beg /\ u.len = t.len
        /\ \A z \in DOMAIN t.n : KeyOf(u, z) = KeyOf(t, z) /\ ValOf(u, z) = IF z = q THEN v ELSE ValOf(t, z)
    BY <1>4, <1>6
  <1>8. First(u) /\ u.len = Cardinality(DOMAIN u.n)
    BY <1>7 DEF Whole, First
  <1>9. \A z \in DOMAIN t.n : KeyOf(t, z) = k <=> z = q
    <2>. SUFFICES ASSUME NEW z \in DOMAIN t.n, KeyOf(t, z) = k PROVE z = q
      OBVIOUS
    <2>1. Linked(x, lo, hi) /\ KeyOf(x, z) = KeyOf(x, q) /\ z \in DOMAIN x.n
      BY DEF Sound
    <2>. QED BY <1>3, <2>1, KeysDiffer
  <1>10. Became(t, u, k, v)
    BY <1>7, <1>9 DEF Became, Among
  <1>. QED BY <1>6, <1>8, <1>10 DEF Whole

(* The shape of a tree is one of its nodes and its root. *)
LEMMA ShapeOfNodes ==
  ASSUME NEW t, NEW lo, NEW hi, NEW bh, Shaped(t, lo, hi, bh), NEW u, u.n = t.n, u.root = t.root
  PROVE  Shaped(u, lo, hi, bh)
  <1>1. \A x : /\ KeyOf(u, x) = KeyOf(t, x) /\ RedOf(u, x) = RedOf(t, x) /\ ParentOf(u, x) = ParentOf(t, x)
               /\ \A d : Child(u, x, d) = Child(t, x, d)
    BY DEF KeyOf, RedOf, ParentOf, Child
  <1>2. /\ Links(u) = Links(t) /\ \A c : IsRed(u, c) <=> IsRed(t, c)
        /\ \A x, d : Lower(u, lo, x, d) = Lower(t, lo, x, d) /\ Upper(u, hi, x, d) = Upper(t, hi, x, d)
    BY <1>1 DEF Links, IsRed, Lower, Upper
  <1>3. \A x, d : Hung(u, lo, hi, x, d) <=> Hung(t, lo, hi, x, d)
    BY <1>1, <1>2 DEF Hung
  <1>4. Rooted(u, lo, hi) <=> Rooted(t, lo, hi)
    BY <1>1 DEF Rooted
  <1>. QED BY <1>1, <1>2, <1>3, <1>4 DEF Shaped

(* lefts says whether k comes before the nodes N *)
KnowsFirst(t, N, lefts, k) ==
  /\ lefts \in BOOLEAN
  /\ lefts => \A z \in N : k < KeyOf(t, z)
  /\ ~lefts => \E z \in N : KeyOf(t, z) < k

(* Where the key was absent, the end of _insert counts the new node and    *)
(* makes it the first if it lies before all others.                        *)
LEMMA InsertedNew ==
  ASSUME NEW V, NEW t, Whole(t, V), FalseRoot \notin DOMAIN t.n, DOMAIN t.n # {},
         NEW q, q \notin DOMAIN t.n, q # FalseRoot,
         NEW x, Typed(x, V), DOMAIN x.n = (DOMAIN t.n \cup {FalseRoot}) \cup {q},
         x.beg = t.beg, x.len = t.len,
         \A y \in DOMAIN t.n : KeyOf(x, y) = KeyOf(t, y) /\ ValOf(x, y) = ValOf(t, y),
         NEW lo, NEW hi, NEW bh, Sound(x, lo, hi, bh, NULL),
         NEW k \in Int, NEW v, KeyOf(x, q) = k, ValOf(x, q) = v,
         NEW s, KnowsFirst(t, DOMAIN t.n, s.lefts, k),
         NEW u, u = Inserted(x, s, q, v, TRUE)
  PROVE  Whole(u, V) /\ Became(t, u, k, v)
  <1>1. PICK w : w = NewRoot(x)
    OBVIOUS
  <1>2. u = [w EXCEPT !.len = @ + 1, !.beg = IF s.lefts THEN q ELSE @]
    BY <1>1 DEF Inserted
  <1>3. /\ Typed(w, V) /\ DOMAIN w.n = DOMAIN x.n \ {FalseRoot}
        /\ w.beg = x.beg /\ w.len = x.len
        /\ \A z \in DOMAIN w.n : KeyOf(w, z) = KeyOf(x, z) /\ ValOf(w, z) = ValOf(x, z)
        /\ \E l2, h2, b2 : Shaped(w, l2, h2, b2)
    BY <1>1, HeadOff
  <1>4. q \in DOMAIN x.n /\ q \in Int
    BY Names
  <1>5. /\ Typed(u, V) /\ u.n = w.n /\ u.root = w.root
        /\ u.len = t.len + 1 /\ (s.lefts => u.beg = q) /\ (~s.lefts => u.beg = t.beg)
    <2>1. /\ w \in [n : [DOMAIN w.n -> Field(V)], root : Int, beg : Int, len : Int]
          /\ DOMAIN w.n \subseteq Key \cup {FalseRoot} /\ w.len = t.len /\ w.beg = t.beg
      BY <1>3 DEF Typed
    <2>2. PICK b, l : b = (IF s.lefts THEN q ELSE w.beg) /\ l = w.len + 1
      OBVIOUS
    <2>3. b \in Int /\ l \in Int /\ (s.lefts => b = q) /\ (~s.lefts => b = t.beg) /\ l = t.len + 1
      BY <1>4, <2>1, <2>2
    <2>4. u = [w EXCEPT !.len = l, !.beg = b]
      BY <1>2, <2>2
    <2>5. u.n = w.n /\ u.root = w.root /\ u.len = l /\ u.beg = b
      BY <2>1, <2>4
    <2>6. u \in [n : [DOMAIN u.n -> Field(V)], root : Int, beg : Int, len : Int]
      BY <2>1, <2>3, <2>4, <2>5
    <2>. QED BY <2>1, <2>3, <2>5, <2>6 DEF Typed
  <1>6. \E l2, h2, b2 : Shaped(u, l2, h2, b2)
    <2>1. PICK l2, h2, b2 : Shaped(w, l2, h2, b2)
      BY <1>3
    <2>2. Shaped(u, l2, h2, b2)
      BY <1>5, <2>1, ShapeOfNodes
    <2>. QED BY <2>2
  <1>7. /\ DOMAIN u.n = DOMAIN t.n \cup {q}
        /\ \A z \in DOMAIN t.n : KeyOf(u, z) = KeyOf(t, z) /\ ValOf(u, z) = ValOf(t, z)
        /\ KeyOf(u, q) = k /\ ValOf(u, q) = v
    BY <1>3, <1>5 DEF KeyOf, ValOf
  <1>8. /\ t.beg \in DOMAIN t.n /\ (\A z \in DOMAIN t.n : KeyOf(t, t.beg) <= KeyOf(t, z))
        /\ \A z \in DOMAIN t.n : KeyOf(t, z) \in Int
    BY Fields DEF Whole, First
  <1>9. First(u)
    <2>1. CASE s.lefts
      <3>1. u.beg = q
        BY ONLY <1>5, <2>1
      <3>2. \A y \in DOMAIN t.n : k < KeyOf(t, y)
        BY <2>1 DEF KnowsFirst
      <3>3. \A z \in DOMAIN u.n : k <= KeyOf(u, z)
        <4>1. k \in Int
          OBVIOUS
        <4>. QED BY ONLY <1>7, <1>8, <3>2, <4>1
      <3>. QED BY <1>7, <3>1, <3>3 DEF First
    <2>2. CASE ~s.lefts
      <3>1. PICK y \in DOMAIN t.n : KeyOf(t, y) < k
        BY <2>2 DEF KnowsFirst
      <3>0. k \in Int
        OBVIOUS
      <3>2. u.beg = t.beg /\ KeyOf(t, t.beg) < k
        <4>1. u.beg = t.beg
          BY ONLY <1>5, <2>2
        <4>. QED BY ONLY <1>8, <3>0, <3>1, <4>1
      <3>3. \A z \in DOMAIN u.n : KeyOf(u, u.beg) <= KeyOf(u, z)
        <4>1. KeyOf(u, u.beg) = KeyOf(t, t.beg) /\ KeyOf(t, t.beg) \in Int
          BY ONLY <1>7, <1>8, <3>2
        <4>. QED BY ONLY <1>7, <1>8, <3>0, <3>2, <4>1
      <3>. QED BY <1>7, <1>8, <3>2, <3>3 DEF First
    <2>. QED BY <2>1, <2>2
  <1>10. u.len = Cardinality(DOMAIN u.n)
    <2>1. IsFiniteSet(DOMAIN t.n)
      <3>1. IsFiniteSet(Key)
        BY KeyFinite
      <3>2. DOMAIN t.n \subseteq Key
        BY DEF Whole, Typed
      <3>. QED BY <3>1, <3>2, FS_Subset
    <2>2. Cardinality(DOMAIN t.n \cup {q}) = Cardinality(DOMAIN t.n) + 1
      BY <2>1, FS_AddElement
    <2>. QED BY <1>5, <1>7, <2>2 DEF Whole
  <1>11. ~Among(t, k)
    <2>. SUFFICES ASSUME NEW y \in DOMAIN t.n, KeyOf(t, y) = k PROVE FALSE
      BY DEF Among
    <2>1. Linked(x, lo, hi) /\ KeyOf(x, y) = KeyOf(x, q) /\ y \in DOMAIN x.n
      BY DEF Sound
    <2>. QED BY <1>4, <2>1, KeysDiffer
  <1>12. Became(t, u, k, v)
    <2>1. \A z \in DOMAIN t.n : KeyOf(t, z) # k
      BY <1>11 DEF Among
    <2>. QED BY <1>7, <1>11, <2>1 DEF Became
  <1>. QED BY <1>5, <1>6, <1>9, <1>10, <1>12 DEF Whole

(* On its way down, q is a node of the tree. *)
LEMMA GoingNode ==
  ASSUME NEW x, NEW lo, NEW hi, Linked(x.t, lo, hi), NEW k, NEW m, Going(x, lo, hi, k, m), x.q # NULL
  PROVE  x.q \in DOMAIN x.t.n /\ x.q # FalseRoot
  <1>0. PICK t, q : t = x.t /\ q = x.q
    OBVIOUS
  <1>1. \E p \in DOMAIN t.n : \E d \in Side : q = Child(t, p, d)
    <2>1. CASE AtRoot(x, lo, hi, k, m)
      BY <1>0, <2>1 DEF AtRoot, Linked, Side
    <2>2. CASE ~AtRoot(x, lo, hi, k, m)
      <3>1. x.p \in DOMAIN t.n /\ x.dir \in Side /\ q = Child(t, x.p, x.dir)
        BY <1>0, <2>2 DEF Going, BelowRoot, Chained, AfterSingle, AfterDouble, Heading, Toward
      <3>. QED BY <3>1
    <2>. QED BY <2>1, <2>2
  <1>2. PICK p \in DOMAIN t.n : \E d \in Side : q = Child(t, p, d)
    BY <1>1
  <1>3. PICK d \in Side : q = Child(t, p, d)
    BY <1>2
  <1>. QED BY <1>0, <1>3, ChildOf

Onward(x, u, y, V, k, m) ==
  /\ Typed(u, V) /\ Alike(x.t, u)
  /\ \E l2, h2, b2 : /\ Sound(u, l2, h2, b2, NULL)
                     /\ KeyOf(x.t, x.q) # k => Going(y, l2, h2, k, m - 1)

(* One turn of the loop that adds no node keeps the tree sound and goes    *)
(* on.                                                                     *)
LEMMA TurnGoes ==
  ASSUME NEW V, NEW x, Typed(x.t, V), NEW lo, NEW hi, NEW bh, Sound(x.t, lo, hi, bh, NULL),
         NEW k \in Int, NEW m \in Int, Going(x, lo, hi, k, m), x.q # NULL,
         NEW u, u = FixPair(Flip(x.t, x.q), x, x.q),
         NEW d, d = Bit(KeyOf(x.t, x.q) < k), NEW y, Stepped(x, y, u, d)
  PROVE  Onward(x, u, y, V, k, m)
  <1>1. PICK t0 : t0 = Flip(x.t, x.q)
    OBVIOUS
  <1>2. u = FixPair(t0, x, x.q)
    BY <1>1
  <1>3. CASE AtRoot(x, lo, hi, k, m)
    BY <1>1, <1>2, <1>3, TurnAtRoot DEF Onward
  <1>4. CASE BelowRoot(x, lo, hi, k, m) \/ Chained(x, lo, hi, k, m)
    <2>1. CASE RedOf(t0, x.q) /\ RedOf(t0, x.p)
      BY <1>1, <1>2, <1>4, <2>1, TurnPair DEF Onward
    <2>2. CASE ~(RedOf(t0, x.q) /\ RedOf(t0, x.p))
      BY <1>1, <1>2, <1>4, <2>2, TurnNoPair DEF Onward
    <2>. QED BY <2>1, <2>2
  <1>5. CASE AfterSingle(x, lo, hi, k, m) \/ AfterDouble(x, lo, hi, k, m)
    <2>1. /\ u = x.t
          /\ KeyOf(x.t, x.q) # k => Going(y, lo, hi, k, m - 1)
      BY <1>1, <1>2, <1>5, TurnAfter
    <2>2. Alike(x.t, x.t)
      BY DEF Alike
    <2>. QED BY <2>1, <2>2 DEF Onward
  <1>. QED BY <1>3, <1>4, <1>5 DEF Going

Adds(x, q, u, V, k, v) ==
  /\ q \in Key /\ q \notin DOMAIN x.t.n
  /\ Typed(u, V) /\ DOMAIN u.n = DOMAIN x.t.n \cup {q}
  /\ u.beg = x.t.beg /\ u.len = x.t.len
  /\ \A z \in DOMAIN x.t.n : KeyOf(u, z) = KeyOf(x.t, z) /\ ValOf(u, z) = ValOf(x.t, z)
  /\ KeyOf(u, q) = k /\ ValOf(u, q) = v
  /\ \E l2, h2, b2 : Sound(u, l2, h2, b2, NULL)
  /\ KnowsFirst(x.t, DOMAIN x.t.n \ {FalseRoot}, x.lefts, k)

(* The new node goes where the way ends, and a red pair is rotated. *)
LEMMA Made ==
  ASSUME NEW V, NEW x, Typed(x.t, V), NEW lo, NEW hi, NEW bh, Sound(x.t, lo, hi, bh, NULL),
         NEW k \in Key, NEW m \in Int, Going(x, lo, hi, k, m), x.q = NULL, NEW v \in V,
         NEW q, q = Fresh(x.t, k),
         NEW t0, t0 = Link(Allocate(x.t, q, k, v), x.p, x.dir, q), NEW u, u = FixPair(t0, x, q)
  PROVE  Adds(x, q, u, V, k, v)
  <1>0. PICK t, p, d : t = x.t /\ p = x.p /\ d = x.dir
    OBVIOUS
  <1>00. Linked(t, lo, hi) /\ k \in Int /\ 1 <= k /\ k <= NKey
    BY <1>0, LinkedNames DEF Sound
  <1>1. BelowRoot(x, lo, hi, k, m) \/ Chained(x, lo, hi, k, m)
    BY DEF Going, AtRoot, AfterSingle, AfterDouble, Calm
  <1>2. /\ d \in Side /\ p \in DOMAIN t.n /\ Child(t, p, d) = NULL /\ ~Calm(t, NULL)
        /\ Lower(t, lo, p, d) < k /\ k < Upper(t, hi, p, d) /\ Firsts(t, x.lefts, lo, p, d, k)
    BY <1>0, <1>1 DEF BelowRoot, Chained, Heading, Toward, Calm
  <1>3. p # FalseRoot
    <2>1. CASE BelowRoot(x, lo, hi, k, m)
      BY <1>0, <1>00, <2>1, LinkedNames, ChildOf DEF BelowRoot, Side
    <2>2. CASE Chained(x, lo, hi, k, m)
      <3>1. /\ x.h \in DOMAIN t.n /\ \E e \in Side : Child(t, x.h, e) = x.g
            /\ x.g # NULL /\ x.last \in Side /\ p = Child(t, x.g, x.last) /\ p # NULL
        BY <1>0, <2>2 DEF Chained
      <3>2. x.g \in DOMAIN t.n
        BY <1>00, <3>1, ChildOf
      <3>. QED BY <1>00, <3>1, <3>2, ChildOf
    <2>. QED BY <1>1, <2>1, <2>2
  <1>4. ASSUME NEW z \in DOMAIN t.n
        PROVE  ~(Lower(t, lo, p, d) < KeyOf(t, z) /\ KeyOf(t, z) < Upper(t, hi, p, d))
    BY <1>00, <1>2, SideHasChild
  <1>5. \A z \in DOMAIN t.n : KeyOf(t, z) # k
    BY <1>2, <1>4
  <1>6. q \in Key /\ q \notin DOMAIN t.n
    <2>. DEFINE N == DOMAIN t.n \ {FalseRoot}
    <2>1. DOMAIN t.n = N \cup {FalseRoot} /\ FalseRoot \notin N
      BY <1>00 DEF Linked
    <2>2. \A z \in N : KeyOf(t, z) \in Key /\ KeyOf(t, z) # k
      BY <1>00, <1>5 DEF Linked
    <2>3. \A z, y \in N : KeyOf(t, z) = KeyOf(t, y) => z = y
      BY <1>00, KeysDiffer
    <2>. HIDE DEF N
    <2>. QED BY <1>0, <2>1, <2>2, <2>3, FreshIs
  <1>7. t0 = Link(Allocate(t, q, k, v), p, d, q) /\ Typed(t, V) /\ Sound(t, lo, hi, bh, NULL)
    BY <1>0
  <1>8. /\ Typed(t0, V) /\ DOMAIN t0.n = DOMAIN t.n \cup {q}
        /\ t0.root = t.root /\ t0.beg = t.beg /\ t0.len = t.len
        /\ \A z \in DOMAIN t.n : /\ KeyOf(t0, z) = KeyOf(t, z) /\ ValOf(t0, z) = ValOf(t, z)
                                 /\ RedOf(t0, z) = RedOf(t, z)
        /\ KeyOf(t0, q) = k /\ ValOf(t0, q) = v /\ RedOf(t0, q)
        /\ \A e \in Side : Child(t0, q, e) = NULL
        /\ \A z \in DOMAIN t.n : \A e \in Side :
             Child(t0, z, e) = IF z = p /\ e = d THEN q ELSE Child(t, z, e)
        /\ \E l2, h2, b2 : Sound(t0, l2, h2, b2, q)
    BY <1>2, <1>3, <1>6, <1>7, AddedIs
  <1>9. PICK l2, h2, b2 : Sound(t0, l2, h2, b2, q)
    BY <1>8
  <1>10. q # NULL /\ Linked(t0, l2, h2) /\ Balanced(t0, b2) /\ RedRule(t0, q)
    BY <1>6, <1>9 DEF Sound, Key, NULL
  <1>11. /\ Typed(u, V) /\ Alike(t0, u) /\ \E l3, h3, b3 : Sound(u, l3, h3, b3, NULL)
    <2>1. CASE ~RedOf(t, p)
      <3>1. u = t0
        BY <1>0, <1>2, <1>8, <2>1 DEF FixPair, IsRed, RedOf
      <3>2. Child(t0, p, d) = q /\ ~RedOf(t0, p) /\ p \in DOMAIN t0.n
        BY <1>2, <1>8, <2>1
      <3>3. RedRule(t0, NULL)
        BY <1>2, <1>10, <3>2, RuleKept
      <3>4. Alike(t0, t0)
        BY DEF Alike
      <3>. QED BY <1>8, <1>10, <3>1, <3>3, <3>4 DEF Sound
    <2>2. CASE RedOf(t, p)
      <3>1. PICK h, g, last : h = x.h /\ g = x.g /\ last = x.last
        OBVIOUS
      <3>2. /\ h \in DOMAIN t.n /\ (\E e \in Side : Child(t, h, e) = g) /\ g # NULL
            /\ last \in Side /\ p = Child(t, g, last) /\ p # NULL
            /\ ~IsRed(t, Child(t, g, 1 - last))
        <4>1. ~BelowRoot(x, lo, hi, k, m)
          BY <1>0, <1>2, <2>2 DEF BelowRoot
        <4>. QED BY <1>0, <1>1, <1>2, <2>2, <3>1, <4>1 DEF Chained
      <3>3. PICK e \in Side : Child(t, h, e) = g
        BY <3>2
      <3>4. /\ g \in DOMAIN t.n /\ g # FalseRoot /\ hi[g] - lo[g] < hi[h] - lo[h]
            /\ hi[p] - lo[p] < hi[g] - lo[g] /\ 1 - last \in Side
        <4>1. g \in DOMAIN t.n /\ g # FalseRoot /\ hi[g] - lo[g] < hi[h] - lo[h]
          BY <1>00, <3>2, <3>3, ChildOf
        <4>2. hi[p] - lo[p] < hi[g] - lo[g]
          BY <1>00, <3>2, <4>1, ChildOf
        <4>. QED BY <3>2, <4>1, <4>2, SideFlip
      <3>5. g # p /\ h # p /\ \A w \in DOMAIN t.n : lo[w] \in Int /\ hi[w] \in Int
        BY <1>00, <1>2, <3>2, <3>4, NodeFacts
      <3>6. /\ h \in DOMAIN t0.n /\ Child(t0, h, e) = g /\ p = Child(t0, g, last)
            /\ Child(t0, g, 1 - last) = Child(t, g, 1 - last) /\ q = Child(t0, p, d) /\ RedOf(t0, p)
        BY <1>2, <1>8, <2>2, <3>2, <3>3, <3>4, <3>5
      <3>7. ~IsRed(t0, Child(t0, g, 1 - last))
        <4>1. PICK s : s = Child(t, g, 1 - last)
          OBVIOUS
        <4>2. s # NULL => s \in DOMAIN t.n
          BY <1>00, <3>4, <4>1, ChildOf
        <4>3. ~IsRed(t, s)
          BY <3>2, <4>1
        <4>4. ~IsRed(t0, s)
          BY <1>8, <4>2, <4>3, IsRedIs
        <4>. QED BY <3>6, <4>1, <4>4
      <3>8. ~IsRed(t0, Child(t0, q, 0)) /\ ~IsRed(t0, Child(t0, q, 1))
        BY <1>8, IsRedIs DEF Side
      <3>9. /\ x.h \in DOMAIN t0.n /\ (\E e1 \in Side : Child(t0, x.h, e1) = x.g) /\ x.g # NULL
            /\ x.last \in Side /\ x.p = Child(t0, x.g, x.last) /\ x.p # NULL
            /\ d \in Side /\ q = Child(t0, x.p, d) /\ q # NULL
            /\ RedOf(t0, q) /\ RedOf(t0, x.p) /\ ~IsRed(t0, Child(t0, x.g, 1 - x.last))
            /\ u = FixPair(t0, x, q)
        <4>1. /\ h \in DOMAIN t0.n /\ (\E e1 \in Side : Child(t0, h, e1) = g) /\ g # NULL
              /\ last \in Side /\ p = Child(t0, g, last) /\ p # NULL
          BY ONLY <3>2, <3>3, <3>6
        <4>2. /\ d \in Side /\ q = Child(t0, p, d) /\ q # NULL
              /\ RedOf(t0, q) /\ RedOf(t0, p) /\ ~IsRed(t0, Child(t0, g, 1 - last))
          BY ONLY <1>2, <1>8, <1>10, <3>6, <3>7
        <4>3. x.h = h /\ x.g = g /\ x.last = last /\ x.p = p
          BY <1>0, <3>1
        <4>4. u = FixPair(t0, x, q)
          OBVIOUS
        <4>. QED BY ONLY <4>1, <4>2, <4>3, <4>4
      <3>10. Typed(t0, V)
        BY <1>8
      <3>11. /\ Typed(u, V)
             /\ \E d2 \in Side : \E l3, h3, b3 :
                  /\ Linked(u, l3, h3) /\ Balanced(u, b3) /\ RedRule(u, NULL)
                  /\ Child(t0, x.h, d2) = x.g
                  /\ \/ d = x.last /\ Turn1(t0, u, l2, h2, l3, h3, x.h, d2, x.g, x.p, Child(t0, x.p, 1 - x.last), 1 - x.last)
                     \/ d # x.last /\ Turn2(t0, u, l2, h2, l3, h3, x.h, d2, x.g, x.p, q, 1 - x.last)
        BY ONLY <1>10, <3>8, <3>9, <3>10, PairFixed
      <3>12. PICK d2 \in Side : \E l3, h3, b3 :
                  /\ Linked(u, l3, h3) /\ Balanced(u, b3) /\ RedRule(u, NULL)
                  /\ \/ Turn1(t0, u, l2, h2, l3, h3, x.h, d2, x.g, x.p, Child(t0, x.p, 1 - x.last), 1 - x.last)
                     \/ Turn2(t0, u, l2, h2, l3, h3, x.h, d2, x.g, x.p, q, 1 - x.last)
        BY <3>11
      <3>13. PICK l3, h3, b3 :
                  /\ Linked(u, l3, h3) /\ Balanced(u, b3) /\ RedRule(u, NULL)
                  /\ \/ Turn1(t0, u, l2, h2, l3, h3, x.h, d2, x.g, x.p, Child(t0, x.p, 1 - x.last), 1 - x.last)
                     \/ Turn2(t0, u, l2, h2, l3, h3, x.h, d2, x.g, x.p, q, 1 - x.last)
        BY <3>12
      <3>14. Alike(t0, u)
        BY <3>13 DEF Turn1, Turn2, Rotated
      <3>. QED BY <3>11, <3>13, <3>14 DEF Sound
    <2>. QED BY <2>1, <2>2
  <1>12. KnowsFirst(t, DOMAIN t.n \ {FalseRoot}, x.lefts, k)
    <2>1. x.lefts \in BOOLEAN /\ (~x.lefts => \E z \in DOMAIN t.n \ {FalseRoot} : KeyOf(t, z) < k)
      BY <1>2 DEF Firsts
    <2>2. ASSUME x.lefts, NEW z \in DOMAIN t.n \ {FalseRoot}
          PROVE  k < KeyOf(t, z)
      <3>1. Lower(t, lo, p, d) = 0 
        BY <1>2, <2>2 DEF Firsts
      <3>2. KeyOf(t, z) \in Int /\ 1 <= KeyOf(t, z)
        BY <1>00, LinkedNames DEF Linked
      <3>3. KeyOf(t, z) # k /\ ~(KeyOf(t, z) < Upper(t, hi, p, d))
        BY <1>4, <1>5, <3>1, <3>2
      <3>4. Upper(t, hi, p, d) \in Int
        BY <1>00, <1>2, LinkedNames DEF Upper
      <3>. QED BY <1>00, <1>2, <3>2, <3>3, <3>4
    <2>. QED BY <2>1, <2>2 DEF KnowsFirst
  <1>13. /\ DOMAIN u.n = DOMAIN t.n \cup {q} /\ u.beg = t.beg /\ u.len = t.len
         /\ \A z \in DOMAIN t.n : KeyOf(u, z) = KeyOf(t, z) /\ ValOf(u, z) = ValOf(t, z)
         /\ KeyOf(u, q) = k /\ ValOf(u, q) = v
    BY <1>8, <1>11 DEF Alike
  <1>. QED BY <1>0, <1>6, <1>11, <1>12, <1>13 DEF Adds

Start(t) == [t |-> WithHead(t), h |-> FalseRoot, g |-> NULL, p |-> NULL, q |-> t.root,
             last |-> 0, dir |-> 0, lefts |-> TRUE, done |-> FALSE]
Descent(x, k, v) == IF x.done THEN x ELSE InsertTurn(x, k, v)
Descents(f, t, k, v, n) == f = [i \in 0..n |-> IF i = 0 THEN Start(t) ELSE Descent(f[i-1], k, v)]

(* The loop of _insert as a sequence of turns. *)
LEMMA DescendedIs ==
  ASSUME NEW t, NEW k, NEW v
  PROVE  Descended(t, k, v) = (CHOOSE f : Descents(f, t, k, v, MaxTurns))[MaxTurns].t
  BY DEF Descended, Descents, Descent, Start

(* The turns of the loop form a sequence. *)
LEMMA DescentsExist == ASSUME NEW t, NEW k, NEW v PROVE \A n \in Nat : \E f : Descents(f, t, k, v, n)
  <1>. DEFINE All == {n \in Nat : \E f : Descents(f, t, k, v, n)}
  <1>1. 0 \in All
    <2>1. Descents([i \in 0..0 |-> Start(t)], t, k, v, 0)
      BY DEF Descents
    <2>. QED BY <2>1
  <1>2. ASSUME NEW n \in Nat, n \in All PROVE n + 1 \in All
    <2>1. PICK f : Descents(f, t, k, v, n)
      BY <1>2
    <2>. DEFINE g == [i \in 0..n+1 |-> IF i = n + 1 THEN Descent(f[n], k, v) ELSE f[i]]
    <2>2. ASSUME NEW i \in 0..n+1 PROVE g[i] = IF i = 0 THEN Start(t) ELSE Descent(g[i-1], k, v)
      <3>1. CASE i = n + 1
        <4>1. g[n] = f[n] /\ g[n + 1] = Descent(f[n], k, v) /\ i - 1 = n /\ i # 0
          BY <3>1
        <4>. HIDE DEF g
        <4>. QED BY <3>1, <4>1
      <3>2. CASE i = 0
        <4>1. g[0] = f[0] /\ f[0] = Start(t)
          BY <2>1 DEF Descents
        <4>. QED BY <3>2, <4>1
      <3>3. CASE i # 0 /\ i # n + 1
        <4>1. i \in 0..n /\ i - 1 \in 0..n /\ i - 1 \in 0..n+1 /\ i - 1 # n + 1
          BY <3>3
        <4>2. f[i] = Descent(f[i-1], k, v)
          BY <2>1, <3>3, <4>1 DEF Descents
        <4>3. g[i] = f[i] /\ g[i-1] = f[i-1]
          BY <3>3, <4>1
        <4>. HIDE DEF g
        <4>. QED BY <3>3, <4>2, <4>3
      <3>. QED BY <3>1, <3>2, <3>3
    <2>3. g = [i \in 0..n+1 |-> g[i]]
      OBVIOUS
    <2>. HIDE DEF g
    <2>4. Descents(g, t, k, v, n + 1)
      BY <2>2, <2>3 DEF Descents
    <2>. QED BY <2>4
  <1>. HIDE DEF All
  <1>3. \A n \in Nat : n \in All
    BY <1>1, <1>2, Induction
  <1>. QED BY <1>3 DEF All

Looping(x) == x = [t |-> x.t, h |-> x.h, g |-> x.g, p |-> x.p, q |-> x.q,
                   last |-> x.last, dir |-> x.dir, lefts |-> x.lefts, done |-> x.done]
Underway(t, V, k, x, m) ==
  /\ Typed(x.t, V) /\ Alike(WithHead(t), x.t)
  /\ \E lo, hi, bh : Sound(x.t, lo, hi, bh, NULL) /\ Going(x, lo, hi, k, m)
Inserting(t, V, k, v, x, m) ==
  /\ Looping(x) /\ x.done \in BOOLEAN
  /\ x.done => Whole(x.t, V) /\ Became(t, x.t, k, v)
  /\ ~x.done => Underway(t, V, k, x, m)

(* The turn that ends the loop. *)
LEMMA LastTurn ==
  ASSUME NEW x, Looping(x), NEW T, NEW z, z = [x EXCEPT !.t = T, !.done = TRUE]
  PROVE  Looping(z) /\ z.t = T /\ z.done
  BY DEF Looping

(* A turn at a node that is there. *)
LEMMA KnownTurn ==
  ASSUME NEW V, NULL \in V, NEW t, Whole(t, V), t.root # NULL, NEW k \in Key, NEW v \in V,
         NEW m \in Int, NEW x, Looping(x), Underway(t, V, k, x, m), x.q # NULL
  PROVE  Inserting(t, V, k, v, InsertTurn(x, k, v), m - 1)
  <1>1. PICK lo0, hi0, bh0 : Shaped(t, lo0, hi0, bh0)
    BY DEF Whole
  <1>2. Typed(t, V) /\ k \in Int
    BY Names DEF Whole
  <1>3. /\ DOMAIN WithHead(t).n = DOMAIN t.n \cup {FalseRoot} /\ FalseRoot \notin DOMAIN t.n
        /\ WithHead(t).beg = t.beg /\ WithHead(t).len = t.len
        /\ \A z \in DOMAIN t.n : KeyOf(WithHead(t), z) = KeyOf(t, z) /\ ValOf(WithHead(t), z) = ValOf(t, z)
    BY <1>1, <1>2, HeadOn
  <1>4. PICK lo, hi, bh : Sound(x.t, lo, hi, bh, NULL) /\ Going(x, lo, hi, k, m)
    BY DEF Underway
  <1>5. Typed(x.t, V) /\ Alike(WithHead(t), x.t) /\ Linked(x.t, lo, hi)
    BY <1>4 DEF Underway, Sound
  <1>6. PICK q, u, d, y :
          /\ q = x.q /\ u = FixPair(Flip(x.t, x.q), x, x.q) /\ d = Bit(KeyOf(x.t, x.q) < k)
          /\ y = [t |-> u, h |-> IF x.g = NULL THEN x.h ELSE x.g, g |-> x.p, p |-> q,
                  q |-> Child(u, q, d), last |-> x.dir, dir |-> d, lefts |-> x.lefts /\ d = 0,
                  done |-> FALSE]
    OBVIOUS
  <1>7. Stepped(x, y, u, d) /\ Looping(y) /\ y.t = u /\ ~y.done /\ y.done \in BOOLEAN
    BY <1>6 DEF Stepped, Looping
  <1>8. /\ Typed(u, V) /\ Alike(x.t, u)
        /\ \E l2, h2, b2 : /\ Sound(u, l2, h2, b2, NULL)
                           /\ KeyOf(x.t, x.q) # k => Going(y, l2, h2, k, m - 1)
    <2>1. u = FixPair(Flip(x.t, x.q), x, x.q) /\ d = Bit(KeyOf(x.t, x.q) < k) /\ Stepped(x, y, u, d)
      BY <1>6, <1>7
    <2>2. x.q # NULL /\ m \in Int
      OBVIOUS
    <2>3. Typed(x.t, V) /\ Sound(x.t, lo, hi, bh, NULL) /\ Going(x, lo, hi, k, m) /\ k \in Int
      BY <1>2, <1>4, <1>5
    <2>4. Onward(x, u, y, V, k, m)
      BY ONLY <2>1, <2>2, <2>3, TurnGoes
    <2>. QED BY <2>4 DEF Onward
  <1>9. PICK l2, h2, b2 : /\ Sound(u, l2, h2, b2, NULL)
                          /\ KeyOf(x.t, x.q) # k => Going(y, l2, h2, k, m - 1)
    BY <1>8
  <1>10. Alike(WithHead(t), u)
    BY <1>5, <1>8, AlikeTrans
  <1>11. q \in DOMAIN x.t.n /\ q # FalseRoot
    BY <1>4, <1>5, <1>6, GoingNode
  <1>12. q \in DOMAIN t.n /\ KeyOf(x.t, q) = KeyOf(t, q) /\ KeyOf(u, q) = KeyOf(t, q)
    BY <1>3, <1>5, <1>10, <1>11 DEF Alike
  <1>13. CASE KeyOf(t, q) = k
    <2>1. PICK T, z : T = Inserted(u, x, q, v, FALSE) /\ z = [x EXCEPT !.t = T, !.done = TRUE]
      OBVIOUS
    <2>2. InsertTurn(x, k, v) = z
      <3>1. (x.q = NULL) = FALSE
        OBVIOUS
      <3>2. u.n[q].key = k
        BY <1>12, <1>13 DEF KeyOf
      <3>. QED BY <1>6, <2>1, <3>1, <3>2 DEF InsertTurn
    <2>3. Looping(z) /\ z.t = T /\ z.done
      BY <2>1, LastTurn
    <2>4. /\ DOMAIN u.n = DOMAIN t.n \cup {FalseRoot} /\ u.beg = t.beg /\ u.len = t.len
          /\ \A w \in DOMAIN t.n : KeyOf(u, w) = KeyOf(t, w) /\ ValOf(u, w) = ValOf(t, w)
      BY <1>3, <1>10 DEF Alike
    <2>5. Whole(T, V) /\ Became(t, T, k, v)
      BY <1>3, <1>8, <1>9, <1>12, <1>13, <2>1, <2>4, InsertedFound
    <2>6. z.done \in BOOLEAN
      BY <2>1, <2>3
    <2>. QED BY <2>2, <2>3, <2>5, <2>6 DEF Inserting
  <1>14. CASE KeyOf(t, q) # k
    <2>1. InsertTurn(x, k, v) = y
      <3>1. (x.q = NULL) = FALSE
        OBVIOUS
      <3>2. u.n[q].key # k /\ d = Bit(u.n[q].key < k)
        BY <1>6, <1>12, <1>14 DEF KeyOf
      <3>. QED BY <1>6, <3>1, <3>2 DEF InsertTurn
    <2>2. Going(y, l2, h2, k, m - 1)
      BY <1>6, <1>9, <1>12, <1>14
    <2>3. Underway(t, V, k, y, m - 1)
      BY <1>7, <1>8, <1>9, <1>10, <2>2 DEF Underway
    <2>. QED BY <1>7, <2>1, <2>3 DEF Inserting
  <1>. QED BY <1>13, <1>14

(* A turn that hangs the new node. *)
LEMMA MadeTurn ==
  ASSUME NEW V, NULL \in V, NEW t, Whole(t, V), t.root # NULL, NEW k \in Key, NEW v \in V,
         NEW m \in Int, NEW x, Looping(x), Underway(t, V, k, x, m), x.q = NULL
  PROVE  Inserting(t, V, k, v, InsertTurn(x, k, v), m - 1)
  <1>1. PICK lo0, hi0, bh0 : Shaped(t, lo0, hi0, bh0)
    BY DEF Whole
  <1>2. Typed(t, V) /\ k \in Int /\ DOMAIN t.n # {}
    BY <1>1, Names DEF Whole, Shaped, Rooted
  <1>3. /\ DOMAIN WithHead(t).n = DOMAIN t.n \cup {FalseRoot} /\ FalseRoot \notin DOMAIN t.n
        /\ WithHead(t).beg = t.beg /\ WithHead(t).len = t.len
        /\ \A z \in DOMAIN t.n : KeyOf(WithHead(t), z) = KeyOf(t, z) /\ ValOf(WithHead(t), z) = ValOf(t, z)
    BY <1>1, <1>2, HeadOn
  <1>4. PICK lo, hi, bh : Sound(x.t, lo, hi, bh, NULL) /\ Going(x, lo, hi, k, m)
    BY DEF Underway
  <1>5. Typed(x.t, V) /\ Alike(WithHead(t), x.t)
    BY DEF Underway
  <1>6. PICK q, t0, u : /\ q = Fresh(x.t, k) /\ t0 = Link(Allocate(x.t, q, k, v), x.p, x.dir, q)
                        /\ u = FixPair(t0, x, q)
    OBVIOUS
  <1>7. /\ q \in Key /\ q \notin DOMAIN x.t.n
        /\ Typed(u, V) /\ DOMAIN u.n = DOMAIN x.t.n \cup {q}
        /\ u.beg = x.t.beg /\ u.len = x.t.len
        /\ \A z \in DOMAIN x.t.n : KeyOf(u, z) = KeyOf(x.t, z) /\ ValOf(u, z) = ValOf(x.t, z)
        /\ KeyOf(u, q) = k /\ ValOf(u, q) = v
        /\ \E l2, h2, b2 : Sound(u, l2, h2, b2, NULL)
        /\ KnowsFirst(x.t, DOMAIN x.t.n \ {FalseRoot}, x.lefts, k)
    <2>1. x.q = NULL /\ m \in Int /\ k \in Key /\ v \in V
      OBVIOUS
    <2>2. Typed(x.t, V) /\ Sound(x.t, lo, hi, bh, NULL) /\ Going(x, lo, hi, k, m)
      BY <1>4, <1>5
    <2>3. Adds(x, q, u, V, k, v)
      BY ONLY <1>6, <2>1, <2>2, Made
    <2>. QED BY <2>3 DEF Adds
  <1>8. PICK l2, h2, b2 : Sound(u, l2, h2, b2, NULL)
    BY <1>7
  <1>9. /\ DOMAIN x.t.n = DOMAIN t.n \cup {FalseRoot} /\ x.t.beg = t.beg /\ x.t.len = t.len
        /\ \A w \in DOMAIN t.n : KeyOf(x.t, w) = KeyOf(t, w) /\ ValOf(x.t, w) = ValOf(t, w)
    BY <1>3, <1>5 DEF Alike
  <1>10. /\ q \notin DOMAIN t.n /\ q # FalseRoot
         /\ DOMAIN u.n = (DOMAIN t.n \cup {FalseRoot}) \cup {q} /\ u.beg = t.beg /\ u.len = t.len
         /\ \A w \in DOMAIN t.n : KeyOf(u, w) = KeyOf(t, w) /\ ValOf(u, w) = ValOf(t, w)
    BY <1>7, <1>9
  <1>11. KnowsFirst(t, DOMAIN t.n, x.lefts, k)
    <2>1. DOMAIN x.t.n \ {FalseRoot} = DOMAIN t.n
      BY <1>3, <1>9
    <2>2. KnowsFirst(x.t, DOMAIN t.n, x.lefts, k)
      BY <1>7, <2>1
    <2>. QED BY <1>9, <2>2 DEF KnowsFirst
  <1>12. PICK T, z : T = Inserted(u, x, q, v, TRUE) /\ z = [x EXCEPT !.t = T, !.done = TRUE]
    OBVIOUS
  <1>13. InsertTurn(x, k, v) = z
    <2>1. (x.q = NULL) = TRUE
      OBVIOUS
    <2>2. u.n[q].key = k
      BY <1>7 DEF KeyOf
    <2>. QED BY <1>6, <1>12, <2>1, <2>2 DEF InsertTurn
  <1>14. Looping(z) /\ z.t = T /\ z.done /\ z.done \in BOOLEAN
    <2>1. Looping(x)
      OBVIOUS
    <2>2. Looping(z) /\ z.t = T /\ z.done
      BY ONLY <1>12, <2>1, LastTurn
    <2>3. z.done \in BOOLEAN
      BY <1>12, <2>1 DEF Looping
    <2>. QED BY <2>2, <2>3
  <1>15. Whole(T, V) /\ Became(t, T, k, v)
    <2>1. Typed(u, V) /\ KeyOf(u, q) = k /\ ValOf(u, q) = v
      BY <1>7
    <2>2. Whole(t, V)
      OBVIOUS
    <2>. QED BY ONLY <1>2, <1>3, <1>8, <1>10, <1>11, <1>12, <2>1, <2>2, InsertedNew
  <1>. QED BY <1>13, <1>14, <1>15 DEF Inserting

(* The loop starts below the false root. *)
LEMMA StartIs ==
  ASSUME NEW V, NULL \in V, NEW t, Whole(t, V), t.root # NULL, NEW k \in Key, NEW v
  PROVE  Inserting(t, V, k, v, Start(t), 2 * (NKey + 1))
  <1>1. PICK x, m : x = Start(t) /\ m = 2 * (NKey + 1)
    OBVIOUS
  <1>2. /\ x.t = WithHead(t) /\ x.h = FalseRoot /\ x.g = NULL /\ x.p = NULL /\ x.q = t.root
        /\ x.last = 0 /\ x.dir = 0 /\ x.lefts = TRUE /\ x.done = FALSE /\ Looping(x)
    BY <1>1 DEF Start, Looping
  <1>3. PICK lo0, hi0, bh0 : Shaped(t, lo0, hi0, bh0)
    BY DEF Whole
  <1>4. PICK u : u = WithHead(t)
    OBVIOUS
  <1>5. /\ Typed(u, V) /\ DOMAIN u.n = DOMAIN t.n \cup {FalseRoot} /\ FalseRoot \notin DOMAIN t.n
        /\ Child(u, FalseRoot, 1) = t.root /\ ~RedOf(u, t.root)
        /\ \E l2, h2, b2 : Sound(u, l2, h2, b2, NULL)
    BY <1>3, <1>4, HeadOn DEF Whole
  <1>6. PICK lo, hi, bh : Sound(u, lo, hi, bh, NULL)
    BY <1>5
  <1>7. /\ Linked(u, lo, hi) /\ FalseRoot \in DOMAIN u.n /\ KeyOf(u, FalseRoot) = 0
        /\ hi[FalseRoot] = NKey + 1 /\ NKey \in Nat /\ k \in Int /\ 1 <= k /\ k <= NKey
    BY <1>6, LinkedNames DEF Sound, Linked
  <1>8. Lower(u, lo, FalseRoot, 1) = 0 /\ Upper(u, hi, FalseRoot, 1) = NKey + 1
    BY <1>7 DEF Lower, Upper
  <1>9. Toward(u, lo, hi, FalseRoot, 1, k, m)
    BY <1>1, <1>7, <1>8 DEF Toward, Side
  <1>10. Firsts(u, TRUE, lo, FalseRoot, 1, k)
    BY <1>8 DEF Firsts
  <1>11. AtRoot(x, lo, hi, k, m)
    BY <1>2, <1>4, <1>5, <1>9, <1>10 DEF AtRoot, Heading, Side
  <1>12. Alike(u, u)
    BY DEF Alike
  <1>13. Underway(t, V, k, x, m)
    BY <1>2, <1>4, <1>5, <1>6, <1>11, <1>12 DEF Underway, Going
  <1>. QED BY <1>1, <1>2, <1>13 DEF Inserting

(* The interval in which the place of k is sought is never empty. *)
LEMMA GoingEnds ==
  ASSUME NEW x, NEW lo, NEW hi, Linked(x.t, lo, hi), NEW k \in Int, NEW m \in Int, Going(x, lo, hi, k, m)
  PROVE  m > 0
  <1>1. PICK t : t = x.t
    OBVIOUS
  <1>2. ASSUME NEW y, NEW d, NEW n \in Int, Toward(t, lo, hi, y, d, k, n)
        PROVE  n > 0
    <2>1. Lower(t, lo, y, d) \in Int /\ Upper(t, hi, y, d) \in Int
      BY <1>1, <1>2, LinkedNames DEF Toward, Lower, Upper
    <2>. QED BY <1>2, <2>1 DEF Toward
  <1>3. CASE AfterDouble(x, lo, hi, k, m)
    <2>1. \E y, d : Toward(t, lo, hi, y, d, k, m - 1)
      BY <1>1, <1>3 DEF AfterDouble, Heading
    <2>2. m - 1 \in Int
      OBVIOUS
    <2>3. m - 1 > 0
      BY <1>2, <2>1, <2>2
    <2>. QED BY <2>3
  <1>4. CASE ~AfterDouble(x, lo, hi, k, m)
    <2>1. \E y, d : Toward(t, lo, hi, y, d, k, m)
      BY <1>1, <1>4 DEF Going, AtRoot, BelowRoot, Chained, AfterSingle, Heading
    <2>. QED BY <1>2, <2>1
  <1>. QED BY <1>3, <1>4

(* Each turn narrows the interval in which the place of k is sought. *)
LEMMA DescentKept ==
  ASSUME NEW V, NULL \in V, NEW t, Whole(t, V), t.root # NULL, NEW k \in Key, NEW v \in V,
         NEW f, Descents(f, t, k, v, MaxTurns)
  PROVE  \A i \in 0..MaxTurns : Inserting(t, V, k, v, f[i], 2 * (NKey + 1) - i)
  <1>. DEFINE T == {n \in Nat : n \in 0..MaxTurns => Inserting(t, V, k, v, f[n], 2 * (NKey + 1) - n)}
  <1>0. NKey \in Nat /\ MaxTurns \in Nat /\ 0 \in 0..MaxTurns
    BY KeyAssumption DEF MaxTurns
  <1>1. 0 \in T
    <2>1. f[0] = Start(t)
      BY <1>0 DEF Descents
    <2>2. 2 * (NKey + 1) - 0 = 2 * (NKey + 1)
      BY <1>0
    <2>. QED BY <2>1, <2>2, StartIs
  <1>2. ASSUME NEW n \in Nat, n \in T PROVE n + 1 \in T
    <2>. SUFFICES ASSUME n + 1 \in 0..MaxTurns
                  PROVE  Inserting(t, V, k, v, f[n + 1], 2 * (NKey + 1) - (n + 1))
      OBVIOUS
    <2>1. n \in 0..MaxTurns /\ n + 1 # 0 /\ (n + 1) - 1 = n
      BY <1>0
    <2>2. PICK x, m : x = f[n] /\ m = 2 * (NKey + 1) - n
      OBVIOUS
    <2>3. m \in Int /\ m - 1 = 2 * (NKey + 1) - (n + 1)
      BY <1>0, <2>2
    <2>4. f[n + 1] = Descent(x, k, v)
      BY <2>1, <2>2 DEF Descents
    <2>5. Inserting(t, V, k, v, x, m)
      BY <1>2, <2>1, <2>2
    <2>6. CASE x.done
      <3>1. f[n + 1] = x
        BY <2>4, <2>6 DEF Descent
      <3>2. Inserting(t, V, k, v, x, m - 1)
        BY <2>5, <2>6 DEF Inserting
      <3>. QED BY <2>3, <3>1, <3>2
    <2>7. CASE ~x.done
      <3>1. f[n + 1] = InsertTurn(x, k, v)
        BY <2>4, <2>7 DEF Descent
      <3>2. Looping(x) /\ Underway(t, V, k, x, m)
        BY <2>5, <2>7 DEF Inserting
      <3>3. Inserting(t, V, k, v, InsertTurn(x, k, v), m - 1)
        BY <2>3, <3>2, KnownTurn, MadeTurn
      <3>. QED BY <2>3, <3>1, <3>3
    <2>. QED BY <2>6, <2>7
  <1>. HIDE DEF T
  <1>3. \A n \in Nat : n \in T
    BY <1>1, <1>2, Induction
  <1>. QED BY <1>0, <1>3 DEF T

(* The first node of a tree. *)
LEMMA FirstInserted ==
  ASSUME NEW V, NEW t, Whole(t, V), t.root = NULL, NEW k \in Key, NEW v \in V,
         NEW u, u = Insert(t, k, v)
  PROVE  Whole(u, V) /\ Became(t, u, k, v)
  <1>0. NKey \in Nat /\ k \in Int /\ 1 <= k /\ k <= NKey /\ k # NULL /\ k # FalseRoot
    BY KeyAssumption DEF Key, NULL, FalseRoot
  <1>1. DOMAIN t.n = {} /\ Typed(t, V)
    BY DEF Whole, Shaped
  <1>2. Fresh(t, k) = k
    BY <1>1 DEF Fresh
  <1>3. PICK w : w = Allocate(t, k, k, v)
    OBVIOUS
  <1>4. /\ Typed(w, V) /\ DOMAIN w.n = {k}
        /\ KeyOf(w, k) = k /\ ValOf(w, k) = v /\ RedOf(w, k) /\ ParentOf(w, k) = NULL
        /\ \A e \in Side : Child(w, k, e) = NULL
    <2>1. /\ Typed(w, V) /\ DOMAIN w.n = DOMAIN t.n \cup {k}
          /\ KeyOf(w, k) = k /\ ValOf(w, k) = v /\ RedOf(w, k) /\ ParentOf(w, k) = NULL
          /\ \A e \in Side : Child(w, k, e) = NULL
      BY <1>0, <1>1, <1>3, AllocateIs
    <2>. QED BY <1>1, <2>1
  <1>5. PICK s : s = [w EXCEPT !.root = k, !.beg = k, !.len = 1]
    OBVIOUS
  <1>6. /\ Typed(s, V) /\ s.n = w.n /\ s.root = k /\ s.beg = k /\ s.len = 1
    <2>1. /\ w \in [n : [DOMAIN w.n -> Field(V)], root : Int, beg : Int, len : Int]
          /\ DOMAIN w.n \subseteq Key \cup {FalseRoot}
      BY <1>4 DEF Typed
    <2>2. s.n = w.n /\ s.root = k /\ s.beg = k /\ s.len = 1
      BY <1>5, <2>1
    <2>3. s \in [n : [DOMAIN s.n -> Field(V)], root : Int, beg : Int, len : Int]
      <3>1. s = [n |-> w.n, root |-> k, beg |-> k, len |-> 1]
        BY <1>5, <2>1
      <3>2. w.n \in [DOMAIN s.n -> Field(V)] /\ k \in Int
        BY <1>0, <2>1, <2>2
      <3>. QED BY <3>1, <3>2
    <2>. QED BY <2>1, <2>2, <2>3 DEF Typed
  <1>7. u = Paint(s, {}, {k})
    BY <1>2, <1>3, <1>5 DEF Insert
  <1>8. /\ Typed(u, V) /\ Alike(s, u)
        /\ \A x \in DOMAIN s.n :
             /\ RedOf(u, x) = ((RedOf(s, x) \/ x \in {}) /\ x \notin {k})
             /\ ParentOf(u, x) = ParentOf(s, x)
             /\ \A e \in Side : Child(u, x, e) = Child(s, x, e)
    BY <1>6, <1>7, PaintIs
  <1>9. /\ DOMAIN u.n = {k} /\ u.root = k /\ u.beg = k /\ u.len = 1
        /\ KeyOf(u, k) = k /\ ValOf(u, k) = v /\ ~RedOf(u, k) /\ ParentOf(u, k) = NULL
        /\ \A e \in Side : Child(u, k, e) = NULL
    <2>1. /\ KeyOf(s, k) = k /\ ValOf(s, k) = v /\ ParentOf(s, k) = NULL
          /\ (\A e \in Side : Child(s, k, e) = NULL) /\ k \in DOMAIN s.n
      BY <1>4, <1>6 DEF KeyOf, ValOf, ParentOf, Child
    <2>2. DOMAIN u.n = {k} /\ u.root = k /\ u.beg = k /\ u.len = 1 /\ KeyOf(u, k) = k /\ ValOf(u, k) = v
      BY <1>4, <1>6, <1>8, <2>1 DEF Alike
    <2>3. ~RedOf(u, k)
      BY <1>8, <2>1
    <2>. QED BY <1>8, <2>1, <2>2, <2>3
  <1>10. \E lo, hi, bh : Shaped(u, lo, hi, bh)
    <2>1. PICK lo, hi, bh : lo = [x \in {k} |-> 0] /\ hi = [x \in {k} |-> NKey + 1] /\ bh = [x \in {k} |-> 1]
      OBVIOUS
    <2>2. /\ lo \in [{k} -> Int] /\ hi \in [{k} -> Int] /\ bh \in [{k} -> Nat]
          /\ lo[k] = 0 /\ hi[k] = NKey + 1 /\ bh[k] = 1
      BY <1>0, <2>1
    <2>3. \A d \in Side : /\ Child(u, k, d) \in Links(u)
                          /\ Hung(u, lo, hi, k, d)
                          /\ bh[k] = Tall(bh, Child(u, k, d)) + Bit(~RedOf(u, k))
                          /\ ~(RedOf(u, k) /\ IsRed(u, Child(u, k, d)))
      BY <1>9, <2>2 DEF Links, Hung, Tall, Bit
    <2>4. Rooted(u, lo, hi)
      BY <1>9, <2>2 DEF Rooted
    <2>5. Shaped(u, lo, hi, bh)
      BY <1>0, <1>9, <2>2, <2>3, <2>4 DEF Shaped
    <2>. QED BY <2>5
  <1>11. First(u)
    BY <1>0, <1>9 DEF First
  <1>12. Cardinality(DOMAIN u.n) = 1
    BY <1>9, FS_Singleton
  <1>13. Became(t, u, k, v)
    BY <1>1, <1>9 DEF Became, Among
  <1>. QED BY <1>8, <1>9, <1>10, <1>11, <1>12, <1>13 DEF Whole

(* tree.h, _insert: of a tree with ordered keys, red-black colours,        *)
(* parents, first node and length that agree, it makes such a tree again,  *)
(* with v at k and all else as before, and the loop ends within the bound  *)
(* on its turns.                                                           *)
THEOREM InsertKeeps ==
  ASSUME NEW V, NULL \in V, NEW t, Whole(t, V), NEW k \in Key, NEW v \in V
  PROVE  Whole(Insert(t, k, v), V) /\ Became(t, Insert(t, k, v), k, v)
  <1>1. CASE t.root = NULL
    BY <1>1, FirstInserted
  <1>2. CASE t.root # NULL
    <2>1. NKey \in Nat /\ MaxTurns \in Nat
      BY KeyAssumption DEF MaxTurns
    <2>2. \E f : Descents(f, t, k, v, MaxTurns)
      BY <2>1, DescentsExist
    <2>3. PICK f : f = CHOOSE g : Descents(g, t, k, v, MaxTurns)
      OBVIOUS
    <2>4. Descents(f, t, k, v, MaxTurns)
      BY <2>2, <2>3, Zenon
    <2>5. Descended(t, k, v) = f[MaxTurns].t
      BY <2>3, DescendedIs
    <2>6. PICK x, m : x = f[MaxTurns] /\ m = 2 * (NKey + 1) - MaxTurns
      OBVIOUS
    <2>7. Inserting(t, V, k, v, x, m)
      BY <1>2, <2>1, <2>4, <2>6, DescentKept
    <2>8. m \in Int /\ m < 0
      BY <2>1, <2>6 DEF MaxTurns
    <2>9. x.done
      <3>. SUFFICES ASSUME ~x.done PROVE FALSE
        OBVIOUS
      <3>1. Underway(t, V, k, x, m)
        BY <2>7 DEF Inserting
      <3>2. PICK lo, hi, bh : Sound(x.t, lo, hi, bh, NULL) /\ Going(x, lo, hi, k, m)
        BY <3>1 DEF Underway
      <3>3. Linked(x.t, lo, hi) /\ k \in Int
        BY <3>2, LinkedNames DEF Sound
      <3>. QED BY <2>8, <3>2, <3>3, GoingEnds
    <2>10. Whole(x.t, V) /\ Became(t, x.t, k, v)
      BY <2>7, <2>9 DEF Inserting
    <2>11. Insert(t, k, v) = x.t
      BY <1>2, <2>5, <2>6 DEF Insert
    <2>. QED BY <2>10, <2>11
  <1>. QED BY <1>1, <1>2
=============================================================================
