----------------------------- MODULE TreeProofs -----------------------------
(***************************************************************************)
(* The red-black tree of tree.h, continued: _delete, the lookups and the   *)
(* iterators, and the programs on top of them, TreeUse and LiveSites.      *)
(***************************************************************************)
EXTENDS RBTreeProofs, TreeUse, LiveSites, FunctionTheorems

-----------------------------------------------------------------------------
(***************************************************************************)
(* The loop of _delete.  A black node with a red child on the other side   *)
(* is rotated down.                                                        *)
(***************************************************************************)
LEMMA PushColours ==
  ASSUME NEW V, NEW t, Typed(t, V), NEW lo, NEW hi, NEW bh, Sound(t, lo, hi, bh, NULL),
         NEW p \in DOMAIN t.n, NEW last \in Side, NEW d \in Side,
         NEW q, q = Child(t, p, last), q # NULL, ~RedOf(t, q),
         NEW r, r = Child(t, q, 1 - d), r # NULL, RedOf(t, r), ~IsRed(t, Child(t, q, d)),
         NEW c, c = Child(t, r, d),
         NEW u, Rotated(t, u, p, last, q, r, c, d)
  PROVE  RedRule(u, NULL) /\ \E b2 : Balanced(u, b2)
  <1>. DEFINE D == DOMAIN t.n
              N == D \ {FalseRoot}
              s == Child(t, q, d)
              o == Child(t, r, 1 - d)
              b2 == [bh EXCEPT ![q] = bh[r], ![r] = bh[q]]
  <1>0. Linked(t, lo, hi) /\ Balanced(t, bh) /\ RedRule(t, NULL) /\ \A z \in D : lo[z] \in Int /\ hi[z] \in Int
    BY LinkedNames DEF Sound
  <1>1. 1 - d \in Side /\ 1 - d # d /\ 1 - (1 - d) = d /\ \A e \in Side : e # d => e = 1 - d
    BY SideFlip
  <1>2. q \in N /\ q # p
    BY <1>0, ChildOf
  <1>3. r \in N /\ r # q /\ r # p
    <2>1. r \in N /\ r # q /\ hi[r] - lo[r] < hi[q] - lo[q]
      BY <1>0, <1>1, <1>2, ChildOf
    <2>2. hi[q] - lo[q] < hi[p] - lo[p]
      BY <1>0, ChildOf
    <2>. QED BY <1>0, <1>2, <2>1, <2>2
  <1>5. \A e \in Side : Child(t, r, e) # NULL => Child(t, r, e) \in N /\ Child(t, r, e) # r /\ Child(t, r, e) # q
    <2>. SUFFICES ASSUME NEW e \in Side, NEW y, y = Child(t, r, e), y # NULL
                  PROVE  y \in N /\ y # r /\ y # q
      OBVIOUS
    <2>1. y \in N /\ y # r /\ hi[y] - lo[y] < hi[r] - lo[r]
      BY <1>0, <1>3, ChildOf
    <2>2. hi[r] - lo[r] < hi[q] - lo[q]
      BY <1>0, <1>1, <1>2, ChildOf
    <2>. QED BY <1>0, <1>2, <1>3, <2>1, <2>2
  <1>6. s # NULL => s \in N /\ s # q /\ s # r
    <2>. SUFFICES ASSUME s # NULL PROVE s \in N /\ s # q /\ s # r
      OBVIOUS
    <2>1. s \in N /\ s # q
      BY <1>0, <1>2, ChildOf
    <2>2. s # r
      BY <1>0, <1>1, <1>2, OnePlace
    <2>. QED BY <2>1, <2>2
  <1>8. ~IsRed(t, c) /\ ~IsRed(t, o)
    <2>. SUFFICES ASSUME NEW e \in Side PROVE ~IsRed(t, Child(t, r, e))
      BY <1>1
    <2>. QED BY <1>0, <1>3 DEF RedRule, IsRed
  <1>9. /\ DOMAIN u.n = D
        /\ \A x \in D :
             /\ RedOf(u, x) = IF x = q THEN TRUE ELSE IF x = r THEN FALSE ELSE RedOf(t, x)
             /\ \A e \in Side : Child(u, x, e) =
                  IF x = p /\ e = last THEN r ELSE IF x = q /\ e = 1 - d THEN c
                  ELSE IF x = r /\ e = d THEN q ELSE Child(t, x, e)
    BY DEF Rotated, Alike
  <1>10. \A x \in D : bh[x] \in Nat /\ RedOf(t, x) \in BOOLEAN
    BY <1>0, Fields DEF Balanced
  <1>11. /\ b2 \in [D -> Nat] /\ b2[q] = bh[r] /\ b2[r] = bh[q]
         /\ \A x \in D \ {q, r} : b2[x] = bh[x]
    BY <1>0, <1>2, <1>3 DEF Balanced
  <1>12. /\ bh[q] = bh[r] + 1 /\ bh[q] = Tall(bh, s) + 1
         /\ bh[r] = Tall(bh, c) /\ bh[r] = Tall(bh, o)
    <2>1. bh[q] = Tall(bh, r) + 1 /\ bh[q] = Tall(bh, s) + 1
      BY <1>0, <1>1, <1>2 DEF Balanced, Bit
    <2>2. bh[r] = Tall(bh, c) + 0 /\ bh[r] = Tall(bh, o) + 0
      BY <1>0, <1>1, <1>3 DEF Balanced, Bit
    <2>3. Tall(bh, r) = bh[r] /\ Tall(bh, o) \in Int /\ Tall(bh, c) \in Int
      BY <1>1, <1>5, <1>10 DEF Tall
    <2>. HIDE DEF s, o
    <2>. QED BY <1>3, <1>10, <2>1, <2>2, <2>3
  <1>. HIDE DEF b2
  <1>13. \A y : y # NULL /\ y \in D \ {q, r} => Tall(b2, y) = Tall(bh, y)
    BY <1>11 DEF Tall
  <1>14. Tall(b2, c) = Tall(bh, c) /\ Tall(b2, s) = Tall(bh, s) /\ Tall(b2, o) = Tall(bh, o)
    BY <1>1, <1>5, <1>6, <1>13 DEF Tall
  <1>20. /\ bh[q] \in Nat /\ bh[r] \in Nat
         /\ Tall(b2, c) = bh[r] /\ Tall(b2, s) = bh[r] /\ Tall(b2, o) = bh[r]
    <2>1. bh[q] \in Nat /\ bh[r] \in Nat /\ Tall(bh, s) \in Int
      BY <1>2, <1>3, <1>6, <1>10 DEF Tall
    <2>. HIDE DEF s, o
    <2>. QED BY <1>12, <1>14, <2>1
  <1>15. ASSUME NEW x \in N, NEW e \in Side
         PROVE  b2[x] = Tall(b2, Child(u, x, e)) + Bit(~RedOf(u, x))
    <2>0. e = d \/ e = 1 - d
      BY <1>1
    <2>1. CASE x = q
      <3>2. Child(u, x, e) = c \/ Child(u, x, e) = s
        BY <1>1, <1>2, <1>3, <1>9, <2>1, <2>0
      <3>3. Bit(~RedOf(u, x)) = 0
        BY <1>9, <2>1 DEF Bit
      <3>. HIDE DEF s, o
      <3>. QED BY <1>11, <1>20, <2>1, <3>2, <3>3
    <2>2. CASE x = r
      <3>1. Bit(~RedOf(u, x)) = 1
        BY <1>3, <1>9, <2>2 DEF Bit
      <3>2. Child(u, x, e) = o \/ Child(u, x, e) = q
        <4>1. CASE e = d
          BY <1>1, <1>3, <1>9, <2>2, <4>1
        <4>2. CASE e = 1 - d
          BY <1>1, <1>3, <1>9, <2>2, <4>2
        <4>. QED BY <2>0, <4>1, <4>2
      <3>3. Tall(b2, q) = bh[r]
        BY <1>0, <1>2, <1>11, LinkedNames DEF Tall
      <3>. HIDE DEF s, o
      <3>. QED BY <1>11, <1>12, <1>20, <2>2, <3>1, <3>2, <3>3
    <2>3. CASE x = p /\ e = last
      <3>1. Child(u, x, e) = r /\ Child(t, x, e) = q /\ RedOf(u, x) = RedOf(t, x)
        BY <1>2, <1>3, <1>9, <2>3
      <3>2. bh[x] = Tall(bh, q) + Bit(~RedOf(t, x)) /\ b2[x] = bh[x]
        BY <1>0, <1>2, <1>3, <1>11, <2>3, <3>1 DEF Balanced
      <3>3. Tall(b2, r) = bh[q] /\ Tall(bh, q) = bh[q]
        BY <1>0, <1>3, <1>11, LinkedNames DEF Tall
      <3>. QED BY <3>1, <3>2, <3>3
    <2>4. CASE x # q /\ x # r /\ ~(x = p /\ e = last)
      <3>. DEFINE y == Child(t, x, e)
      <3>1. Child(u, x, e) = y /\ RedOf(u, x) = RedOf(t, x)
        BY <1>9, <2>4
      <3>2. bh[x] = Tall(bh, y) + Bit(~RedOf(t, x)) /\ b2[x] = bh[x]
        BY <1>0, <1>11, <2>4 DEF Balanced
      <3>3. y # NULL => y \in D
        BY <1>0, ChildOf
      <3>4. y # q
        BY <1>0, <2>4, OnePlace
      <3>5. y # r
        BY <1>0, <1>1, <1>2, <2>4, OnePlace
      <3>6. Tall(b2, y) = Tall(bh, y)
        <4>. HIDE DEF y
        <4>. QED BY <1>13, <3>3, <3>4, <3>5 DEF Tall
      <3>. QED BY <3>1, <3>2, <3>6
    <2>. QED BY <2>1, <2>2, <2>3, <2>4
  <1>17. Balanced(u, b2)
    BY <1>9, <1>11, <1>15 DEF Balanced
  <1>18. ASSUME NEW x \in N, NEW e \in Side, RedOf(u, x), IsRed(u, Child(u, x, e))
         PROVE  FALSE
    <2>0. \A y : y \in D \ {q} /\ ~IsRed(t, y) => ~IsRed(u, y)
      BY <1>9, IsRedIs
    <2>1. CASE x = q
      <3>1. Child(u, x, e) = c \/ Child(u, x, e) = s
        BY <1>1, <1>2, <1>3, <1>9, <2>1
      <3>2. ~IsRed(u, c) /\ ~IsRed(u, s)
        BY <1>5, <1>6, <1>8, <2>0 DEF IsRed
      <3>. QED BY <1>18, <3>1, <3>2
    <2>2. CASE x = r
      BY <1>3, <1>9, <1>18, <2>2
    <2>3. CASE x = p /\ e = last
      <3>1. Child(u, x, e) = r
        BY <1>9, <2>3
      <3>2. ~IsRed(u, r)
        BY <1>3, <1>9, IsRedIs
      <3>. QED BY <3>1, <3>2, <1>18
    <2>4. CASE x # q /\ x # r /\ ~(x = p /\ e = last)
      <3>. DEFINE y == Child(t, x, e)
      <3>1. Child(u, x, e) = y /\ RedOf(t, x)
        BY <1>9, <1>18, <2>4
      <3>2. y # NULL
        BY <1>18, <3>1 DEF IsRed
      <3>3. y \in D /\ y # q
        <4>1. y # q
          BY <1>0, <2>4, OnePlace
        <4>. QED BY <1>0, <3>2, <4>1, ChildOf
      <3>4. ~IsRed(t, y)
        BY <1>0, <3>1, <3>2 DEF RedRule
      <3>. QED BY <1>18, <2>0, <3>1, <3>3, <3>4
    <2>. QED BY <2>1, <2>2, <2>3, <2>4
  <1>19. RedRule(u, NULL)
    BY <1>9, <1>18 DEF RedRule
  <1>. QED BY <1>17, <1>19

(* Where _delete turns to the sibling s of q: both are black, so are the   *)
(* children of q, and p is red or the root.                                *)
Squeezed(t, g, d2, p, last, q, s) ==
  /\ g \in DOMAIN t.n /\ d2 \in Side /\ p = Child(t, g, d2) /\ p # NULL
  /\ last \in Side /\ q = Child(t, p, last) /\ q # NULL
  /\ s = Child(t, p, 1 - last) /\ s # NULL
  /\ ~RedOf(t, q) /\ ~RedOf(t, s) /\ \A e \in Side : ~IsRed(t, Child(t, q, e))
  /\ RedOf(t, p) \/ g = FalseRoot

(* their places and heights *)
Family(t, bh, g, p, q, s) ==
  /\ g \in DOMAIN t.n /\ {p, q, s} \subseteq DOMAIN t.n \ {FalseRoot}
  /\ g # p /\ g # q /\ g # s /\ p # q /\ p # s /\ q # s
  /\ \A x \in {q, s} : \A e \in Side :
       Child(t, x, e) # NULL =>
         Child(t, x, e) \in DOMAIN t.n \ {FalseRoot} /\ Child(t, x, e) \notin {g, p, q, s}
  /\ bh[q] \in Nat /\ bh[q] >= 1 /\ bh[s] = bh[q] /\ (RedOf(t, p) => bh[p] = bh[q])
  /\ \A x \in {q, s} : \A e \in Side : Tall(bh, Child(t, x, e)) = bh[q] - 1

(* The nodes around a black q whose children are black, while _delete goes *)
(* down.                                                                   *)
LEMMA SqueezedFamily ==
  ASSUME NEW V, NEW t, Typed(t, V), NEW lo, NEW hi, NEW bh, Sound(t, lo, hi, bh, NULL),
         NEW g, NEW d2, NEW p, NEW last, NEW q, NEW s, Squeezed(t, g, d2, p, last, q, s)
  PROVE  Family(t, bh, g, p, q, s)
  <1>. DEFINE D == DOMAIN t.n
              N == D \ {FalseRoot}
  <1>0. Linked(t, lo, hi) /\ Balanced(t, bh) /\ RedRule(t, NULL) /\ \A z \in D : lo[z] \in Int /\ hi[z] \in Int
    BY LinkedNames DEF Sound
  <1>00. /\ g \in D /\ d2 \in Side /\ p = Child(t, g, d2) /\ p # NULL
         /\ last \in Side /\ q = Child(t, p, last) /\ q # NULL
         /\ s = Child(t, p, 1 - last) /\ s # NULL /\ ~RedOf(t, q) /\ ~RedOf(t, s)
    BY DEF Squeezed
  <1>1. 1 - last \in Side /\ 1 - last # last
    BY <1>00, SideFlip
  <1>2. p \in N /\ p # g /\ hi[p] - lo[p] < hi[g] - lo[g]
    BY <1>0, <1>00, ChildOf
  <1>3. ASSUME NEW x \in {q, s} PROVE x \in N /\ x # p /\ x # g /\ hi[x] - lo[x] < hi[p] - lo[p]
    <2>1. PICK e \in Side : x = Child(t, p, e)
      BY <1>00, <1>1
    <2>2. x \in N /\ x # p /\ hi[x] - lo[x] < hi[p] - lo[p]
      BY <1>0, <1>00, <1>2, <2>1, ChildOf
    <2>. QED BY <1>0, <1>00, <1>2, <2>2
  <1>4. q # s
    BY <1>0, <1>00, <1>1, <1>2, OnePlace
  <1>5. ASSUME NEW x \in {q, s}, NEW e \in Side, NEW y, y = Child(t, x, e), y # NULL
        PROVE  y \in N /\ y \notin {g, p, q, s}
    <2>0. x \in N /\ hi[x] - lo[x] < hi[p] - lo[p] /\ x # p
      BY <1>3
    <2>1. y \in N /\ y # x /\ hi[y] - lo[y] < hi[x] - lo[x]
      BY <1>0, <1>5, <2>0, ChildOf
    <2>2. y # g /\ y # p
      BY <1>0, <1>00, <1>2, <2>0, <2>1
    <2>3. y # q /\ y # s
      <3>1. ASSUME NEW f \in Side PROVE y # Child(t, p, f)
        BY <1>0, <1>2, <1>5, <2>0, OnePlace
      <3>. QED BY <1>00, <1>1, <3>1
    <2>. QED BY <2>1, <2>2, <2>3
  <1>6. \A x \in D : bh[x] \in Nat /\ RedOf(t, x) \in BOOLEAN
    BY <1>0, Fields DEF Balanced
  <1>7. ASSUME NEW e \in Side PROVE bh[q] = Tall(bh, Child(t, q, e)) + 1 /\ bh[s] = Tall(bh, Child(t, s, e)) + 1
    BY <1>0, <1>00, <1>3 DEF Balanced, Bit
  <1>8. \A e \in Side : \A x \in {q, s} : Tall(bh, Child(t, x, e)) \in Nat
    BY <1>5, <1>6 DEF Tall
  <1>9. bh[p] = Tall(bh, q) + Bit(~RedOf(t, p)) /\ bh[p] = Tall(bh, s) + Bit(~RedOf(t, p))
    BY <1>0, <1>00, <1>1, <1>2 DEF Balanced
  <1>10. Tall(bh, q) = bh[q] /\ Tall(bh, s) = bh[s] /\ bh[q] \in Nat /\ bh[s] \in Nat
    BY <1>00, <1>3, <1>6 DEF Tall
  <1>11. bh[s] = bh[q] /\ (RedOf(t, p) => bh[p] = bh[q])
    <2>1. CASE RedOf(t, p)
      <3>1. Bit(~RedOf(t, p)) = 0
        BY <2>1 DEF Bit
      <3>. QED BY <1>9, <1>10, <3>1
    <2>2. CASE ~RedOf(t, p)
      <3>1. Bit(~RedOf(t, p)) = 1
        BY <2>2 DEF Bit
      <3>. QED BY <1>9, <1>10, <2>2, <3>1
    <2>. QED BY <2>1, <2>2
  <1>12. ASSUME NEW e \in Side, NEW x \in {q, s} PROVE Tall(bh, Child(t, x, e)) = bh[q] - 1
    <2>1. PICK n : n = Tall(bh, Child(t, x, e))
      OBVIOUS
    <2>2. n \in Nat /\ bh[q] = n + 1
      <3>1. CASE x = q
        BY <1>7, <1>8, <2>1, <3>1
      <3>2. CASE x = s
        BY <1>7, <1>8, <1>11, <2>1, <3>2
      <3>. QED BY <3>1, <3>2
    <2>. QED BY <2>1, <2>2
  <1>13. bh[q] >= 1
    <2>1. PICK n : n = Tall(bh, Child(t, q, 0))
      OBVIOUS
    <2>2. n \in Nat /\ bh[q] = n + 1
      BY <1>7, <1>8, <2>1 DEF Side
    <2>. QED BY <2>2
  <1>. QED BY <1>00, <1>2, <1>3, <1>4, <1>5, <1>10, <1>11, <1>12, <1>13 DEF Family

(* The sibling has no red child: the two give their black to p. *)
LEMMA PaintColours ==
  ASSUME NEW V, NEW t, Typed(t, V), NEW lo, NEW hi, NEW bh, Sound(t, lo, hi, bh, NULL),
         NEW g, NEW d2, NEW p, NEW last, NEW q, NEW s, Squeezed(t, g, d2, p, last, q, s),
         \A e \in Side : ~IsRed(t, Child(t, s, e)),
         NEW u, DOMAIN u.n = DOMAIN t.n,
         \A x \in DOMAIN t.n :
           /\ RedOf(u, x) <=> (RedOf(t, x) \/ x \in {s, q}) /\ x # p
           /\ \A e \in Side : Child(u, x, e) = Child(t, x, e)
  PROVE  RedRule(u, NULL) /\ \E b2 : Balanced(u, b2)
  <1>. DEFINE D == DOMAIN t.n
              N == D \ {FalseRoot}
              b2 == [bh EXCEPT ![q] = bh[q] - 1, ![s] = bh[q] - 1, ![p] = bh[q]]
  <1>0. Linked(t, lo, hi) /\ Balanced(t, bh) /\ RedRule(t, NULL)
    BY DEF Sound
  <1>00. /\ g \in D /\ d2 \in Side /\ p = Child(t, g, d2) /\ p # NULL
         /\ last \in Side /\ q = Child(t, p, last) /\ q # NULL
         /\ s = Child(t, p, 1 - last) /\ s # NULL /\ ~RedOf(t, q) /\ ~RedOf(t, s)
         /\ (\A e \in Side : ~IsRed(t, Child(t, q, e))) /\ (RedOf(t, p) \/ g = FalseRoot)
    BY DEF Squeezed
  <1>1. 1 - last \in Side /\ 1 - last # last /\ \A e \in Side : e # last => e = 1 - last
    BY <1>00, SideFlip
  <1>2. Family(t, bh, g, p, q, s)
    BY SqueezedFamily
  <1>3. /\ {p, q, s} \subseteq N
        /\ g # p /\ g # q /\ g # s /\ p # q /\ p # s /\ q # s
        /\ \A x \in {q, s} : \A e \in Side :
             Child(t, x, e) # NULL => Child(t, x, e) \in N /\ Child(t, x, e) \notin {g, p, q, s}
        /\ bh[q] \in Nat /\ bh[q] >= 1 /\ (RedOf(t, p) => bh[p] = bh[q])
        /\ \A x \in {q, s} : \A e \in Side : Tall(bh, Child(t, x, e)) = bh[q] - 1
    BY <1>2 DEF Family
  <1>4. \A x \in D : bh[x] \in Nat /\ RedOf(t, x) \in BOOLEAN
    BY <1>0, Fields DEF Balanced
  <1>5. /\ b2 \in [D -> Nat] /\ b2[q] = bh[q] - 1 /\ b2[s] = bh[q] - 1 /\ b2[p] = bh[q]
        /\ \A x \in D \ {q, s, p} : b2[x] = bh[x]
    <2>1. bh \in [D -> Nat] /\ bh[q] - 1 \in Nat
      BY <1>0, <1>3 DEF Balanced
    <2>. QED BY <1>3, <2>1
  <1>. HIDE DEF b2
  <1>6. \A y : y # NULL /\ y \in D \ {q, s, p} => Tall(b2, y) = Tall(bh, y)
    BY <1>5 DEF Tall
  <1>7. ASSUME NEW x \in N, NEW e \in Side
        PROVE  b2[x] = Tall(b2, Child(u, x, e)) + Bit(~RedOf(u, x))
    <2>0. PICK y : y = Child(t, x, e)
      OBVIOUS
    <2>00. Child(u, x, e) = y /\ (y # NULL => y \in D)
      BY <1>0, <2>0, ChildOf
    <2>1. CASE x \in {q, s}
      <3>1. Bit(~RedOf(u, x)) = 0 /\ b2[x] = bh[q] - 1
        BY <1>3, <1>5, <2>1 DEF Bit
      <3>2. Tall(b2, y) = Tall(bh, y) /\ Tall(bh, y) = bh[q] - 1
        BY <1>3, <1>6, <2>0, <2>1 DEF Tall
      <3>. QED BY <1>3, <2>00, <3>1, <3>2
    <2>2. CASE x = p
      <3>1. Bit(~RedOf(u, x)) = 1 /\ b2[x] = bh[q]
        BY <1>3, <1>5, <2>2 DEF Bit
      <3>2. y \in {q, s}
        BY <1>00, <1>1, <2>0, <2>2
      <3>3. Tall(b2, y) = bh[q] - 1
        BY <1>00, <1>5, <3>2 DEF Tall
      <3>. QED BY <1>3, <2>00, <3>1, <3>3
    <2>3. CASE x \notin {q, s, p} /\ x = g /\ e = d2
      <3>1. y = p /\ bh[p] = bh[q] /\ Bit(~RedOf(u, x)) = Bit(~RedOf(t, x))
        <4>1. y = p /\ RedOf(t, p) /\ (RedOf(u, x) <=> RedOf(t, x))
          BY <1>00, <2>0, <2>3
        <4>. QED BY <1>3, <4>1 DEF Bit
      <3>2. bh[x] = Tall(bh, y) + Bit(~RedOf(t, x)) /\ b2[x] = bh[x]
        BY <1>0, <1>5, <2>0, <2>3 DEF Balanced
      <3>3. Tall(b2, y) = Tall(bh, y)
        BY <1>5, <3>1 DEF Tall
      <3>. QED BY <2>00, <3>1, <3>2, <3>3
    <2>4. CASE x \notin {q, s, p} /\ ~(x = g /\ e = d2)
      <3>1. RedOf(u, x) <=> RedOf(t, x)
        BY <2>4
      <3>2. bh[x] = Tall(bh, y) + Bit(~RedOf(t, x)) /\ b2[x] = bh[x]
        BY <1>0, <1>5, <2>0, <2>4 DEF Balanced
      <3>3. y # p
        BY <1>0, <1>00, <2>0, <2>4, OnePlace
      <3>4. y # q /\ y # s
        BY <1>0, <1>00, <1>1, <1>3, <2>0, <2>4, OnePlace
      <3>5. Tall(b2, y) = Tall(bh, y)
        BY <1>6, <2>00, <3>3, <3>4 DEF Tall
      <3>6. Bit(~RedOf(u, x)) = Bit(~RedOf(t, x))
        BY <3>1 DEF Bit
      <3>. QED BY <2>00, <3>2, <3>5, <3>6
    <2>. QED BY <2>1, <2>2, <2>3, <2>4
  <1>8. Balanced(u, b2)
    BY <1>5, <1>7 DEF Balanced
  <1>9. ASSUME NEW x \in N, NEW e \in Side, RedOf(u, x), IsRed(u, Child(u, x, e))
        PROVE  FALSE
    <2>0. PICK y : y = Child(t, x, e)
      OBVIOUS
    <2>00. Child(u, x, e) = y /\ y # NULL /\ y \in D /\ RedOf(u, y) /\ x # p
      <3>1. Child(u, x, e) = y /\ x # p
        BY <1>9, <2>0
      <3>2. y # NULL /\ RedOf(u, y)
        BY <1>9, <3>1, IsRedIs
      <3>. QED BY <1>0, <2>0, <3>1, <3>2, ChildOf
    <2>1. CASE x \in {q, s}
      <3>1. ~IsRed(t, y) /\ y \notin {q, s}
        BY <1>00, <1>3, <2>0, <2>00, <2>1
      <3>. QED BY <2>00, <3>1, IsRedIs
    <2>2. CASE x \notin {q, s}
      <3>1. y # q /\ y # s
        BY <1>0, <1>00, <1>1, <1>3, <2>0, <2>00, OnePlace
      <3>2. RedOf(t, x) /\ RedOf(t, y)
        BY <1>9, <2>00, <2>2, <3>1
      <3>. QED BY <1>0, <2>0, <2>00, <3>2, IsRedIs DEF RedRule
    <2>. QED BY <2>1, <2>2
  <1>10. RedRule(u, NULL)
    BY <1>9 DEF RedRule
  <1>. QED BY <1>8, <1>10

(* The outer child of the sibling is red: after a single rotation and a    *)
(* repainting the sibling is the red top over black p and o.               *)
LEMMA OuterColours ==
  ASSUME NEW V, NEW t, Typed(t, V), NEW lo, NEW hi, NEW bh, Sound(t, lo, hi, bh, NULL),
         NEW g, NEW d2, NEW p, NEW last, NEW q, NEW s, Squeezed(t, g, d2, p, last, q, s),
         NEW i, i = Child(t, s, last), ~IsRed(t, i),
         NEW o, o = Child(t, s, 1 - last), IsRed(t, o),
         NEW u, DOMAIN u.n = DOMAIN t.n,
         \A x \in DOMAIN t.n :
           /\ RedOf(u, x) <=> (RedOf(t, x) \/ x \in {s, q}) /\ x \notin {p, o}
           /\ \A e \in Side : Child(u, x, e) =
                IF x = g /\ e = d2 THEN s ELSE IF x = p /\ e = 1 - last THEN i
                ELSE IF x = s /\ e = last THEN p ELSE Child(t, x, e)
  PROVE  RedRule(u, NULL) /\ \E b2 : Balanced(u, b2)
  <1>. DEFINE D == DOMAIN t.n
              N == D \ {FalseRoot}
              b2 == [bh EXCEPT ![q] = bh[q] - 1, ![o] = bh[q], ![p] = bh[q]]
  <1>0. Linked(t, lo, hi) /\ Balanced(t, bh) /\ RedRule(t, NULL)
    BY DEF Sound
  <1>00. /\ g \in D /\ d2 \in Side /\ p = Child(t, g, d2) /\ p # NULL
         /\ last \in Side /\ q = Child(t, p, last) /\ q # NULL
         /\ s = Child(t, p, 1 - last) /\ s # NULL /\ ~RedOf(t, q) /\ ~RedOf(t, s)
         /\ (\A e \in Side : ~IsRed(t, Child(t, q, e))) /\ (RedOf(t, p) \/ g = FalseRoot)
    BY DEF Squeezed
  <1>1. 1 - last \in Side /\ 1 - last # last /\ \A e \in Side : e # last => e = 1 - last
    BY <1>00, SideFlip
  <1>2. Family(t, bh, g, p, q, s)
    BY SqueezedFamily
  <1>3. /\ {p, q, s} \subseteq N
        /\ g # p /\ g # q /\ g # s /\ p # q /\ p # s /\ q # s
        /\ \A x \in {q, s} : \A e \in Side :
             Child(t, x, e) # NULL => Child(t, x, e) \in N /\ Child(t, x, e) \notin {g, p, q, s}
        /\ bh[q] \in Nat /\ bh[q] >= 1 /\ bh[s] = bh[q] /\ (RedOf(t, p) => bh[p] = bh[q])
        /\ \A x \in {q, s} : \A e \in Side : Tall(bh, Child(t, x, e)) = bh[q] - 1
    BY <1>2 DEF Family
  <1>4. /\ o # NULL /\ RedOf(t, o) /\ o \in N /\ o \notin {g, p, q, s}
        /\ (i # NULL => i \in N /\ i \notin {g, p, q, s, o})
        /\ Tall(bh, i) = bh[q] - 1 /\ bh[o] = bh[q] - 1
    <2>1. o # NULL /\ RedOf(t, o)
      BY IsRedIs
    <2>2. i # NULL => i # o
      BY <1>0, <1>1, <1>3, <1>00, OnePlace
    <2>3. Tall(bh, i) = bh[q] - 1 /\ Tall(bh, o) = bh[q] - 1
      BY <1>00, <1>1, <1>3
    <2>4. \A y : y # NULL /\ y \in {i, o} => y \in N /\ y \notin {g, p, q, s}
      BY <1>00, <1>1, <1>3
    <2>. QED BY <2>1, <2>2, <2>3, <2>4 DEF Tall
  <1>40. ASSUME NEW e \in Side, NEW y, y = Child(t, o, e)
         PROVE  /\ ~IsRed(t, y) /\ (y # NULL => y \in D /\ y \notin {p, q, s, o})
                /\ Tall(bh, y) = bh[q] - 1
    <2>1. ~IsRed(t, y)
      BY <1>0, <1>4, <1>40 DEF RedRule, IsRed
    <2>2. y # NULL => y \in D /\ y # o
      BY <1>0, <1>4, <1>40, ChildOf
    <2>3. y # NULL => y \notin {p, q, s}
      BY <1>0, <1>00, <1>1, <1>3, <1>4, <1>40, OnePlace
    <2>4. bh[o] = Tall(bh, y) + 0
      BY <1>0, <1>4, <1>40 DEF Balanced, Bit
    <2>5. Tall(bh, y) \in Int
      BY <1>0, <2>2 DEF Tall, Balanced
    <2>. QED BY <1>4, <2>1, <2>2, <2>3, <2>4, <2>5
  <1>5. \A x \in D : bh[x] \in Nat /\ RedOf(t, x) \in BOOLEAN
    BY <1>0, Fields DEF Balanced
  <1>6. /\ b2 \in [D -> Nat] /\ b2[q] = bh[q] - 1 /\ b2[o] = bh[q] /\ b2[p] = bh[q]
        /\ \A x \in D \ {q, o, p} : b2[x] = bh[x]
    <2>1. bh \in [D -> Nat] /\ bh[q] - 1 \in Nat
      BY <1>0, <1>3 DEF Balanced
    <2>. QED BY <1>3, <1>4, <2>1
  <1>. HIDE DEF b2
  <1>7. \A y : y # NULL /\ y \in D \ {q, o, p} => Tall(b2, y) = Tall(bh, y)
    BY <1>6 DEF Tall
  <1>8. ASSUME NEW x \in N, NEW e \in Side
        PROVE  b2[x] = Tall(b2, Child(u, x, e)) + Bit(~RedOf(u, x))
    <2>. PICK y, z : y = Child(t, x, e) /\ z = Child(u, x, e)
      OBVIOUS
    <2>00. (y # NULL => y \in D) /\ (e = last \/ e = 1 - last)
      BY <1>0, <1>1, ChildOf
    <2>1. CASE x = q
      <3>1. Bit(~RedOf(u, x)) = 0 /\ b2[x] = bh[q] - 1
        BY <1>3, <1>4, <1>6, <2>1 DEF Bit
      <3>2. z = y /\ y # o
        <4>1. z = y
          BY <1>3, <2>1
        <4>2. y # o
          BY <1>0, <1>1, <1>3, <1>4, <2>1, OnePlace
        <4>. QED BY <4>1, <4>2
      <3>3. Tall(b2, y) = Tall(bh, y) /\ Tall(bh, y) = bh[q] - 1
        BY <1>3, <1>7, <2>1, <3>2 DEF Tall
      <3>. QED BY <1>3, <3>1, <3>2, <3>3
    <2>2. CASE x = o
      <3>1. Bit(~RedOf(u, x)) = 1 /\ b2[x] = bh[q]
        BY <1>4, <1>6, <2>2 DEF Bit
      <3>2. z = y
        BY <1>4, <2>2
      <3>3. Tall(b2, y) = Tall(bh, y) /\ Tall(bh, y) = bh[q] - 1
        BY <1>7, <1>40, <2>2 DEF Tall
      <3>. QED BY <1>3, <3>1, <3>2, <3>3
    <2>3. CASE x = s
      <3>1. Bit(~RedOf(u, x)) = 0 /\ b2[x] = bh[q]
        BY <1>3, <1>4, <1>6, <2>3 DEF Bit
      <3>2. z \in {p, o}
        <4>1. CASE e = last
          BY <1>3, <2>3, <4>1
        <4>2. CASE e = 1 - last
          BY <1>1, <1>3, <2>3, <4>2
        <4>. QED BY <2>00, <4>1, <4>2
      <3>3. Tall(b2, z) = bh[q]
        BY <1>00, <1>4, <1>6, <3>2 DEF Tall
      <3>. QED BY <1>3, <3>1, <3>3
    <2>4. CASE x = p
      <3>1. Bit(~RedOf(u, x)) = 1 /\ b2[x] = bh[q]
        BY <1>3, <1>4, <1>6, <2>4 DEF Bit
      <3>2. z = q \/ z = i
        <4>1. CASE e = last
          BY <1>00, <1>1, <1>3, <2>4, <4>1
        <4>2. CASE e = 1 - last
          BY <1>3, <2>4, <4>2
        <4>. QED BY <2>00, <4>1, <4>2
      <3>3. Tall(b2, q) = bh[q] - 1 /\ Tall(b2, i) = bh[q] - 1
        <4>1. Tall(b2, q) = bh[q] - 1
          BY <1>00, <1>6 DEF Tall
        <4>2. Tall(b2, i) = Tall(bh, i)
          BY <1>4, <1>7 DEF Tall
        <4>. QED BY <1>4, <4>1, <4>2
      <3>. QED BY <1>3, <3>1, <3>2, <3>3
    <2>5. CASE x \notin {q, s, p, o} /\ x = g /\ e = d2
      <3>1. y = p /\ z = s /\ bh[p] = bh[q] /\ Bit(~RedOf(u, x)) = Bit(~RedOf(t, x))
        <4>1. y = p /\ z = s /\ RedOf(t, p) /\ (RedOf(u, x) <=> RedOf(t, x))
          BY <1>00, <2>5
        <4>. QED BY <1>3, <4>1 DEF Bit
      <3>2. bh[x] = Tall(bh, y) + Bit(~RedOf(t, x)) /\ b2[x] = bh[x]
        BY <1>0, <1>6, <2>5 DEF Balanced
      <3>3. Tall(b2, z) = Tall(bh, y)
        <4>1. Tall(b2, s) = bh[s]
          BY <1>00, <1>3, <1>4, <1>6 DEF Tall
        <4>2. Tall(bh, p) = bh[p]
          BY <1>00 DEF Tall
        <4>. QED BY <1>3, <3>1, <4>1, <4>2
      <3>. QED BY <3>1, <3>2, <3>3
    <2>6. CASE x \notin {q, s, p, o} /\ ~(x = g /\ e = d2)
      <3>1. (RedOf(u, x) <=> RedOf(t, x)) /\ z = y
        BY <2>6
      <3>2. bh[x] = Tall(bh, y) + Bit(~RedOf(t, x)) /\ b2[x] = bh[x]
        BY <1>0, <1>6, <2>6 DEF Balanced
      <3>3. y # p
        BY <1>0, <1>00, <2>6, OnePlace
      <3>4. y # q
        BY <1>0, <1>00, <1>1, <1>3, <2>6, OnePlace
      <3>5. y # o
        BY <1>0, <1>00, <1>1, <1>3, <1>4, <2>6, OnePlace
      <3>6. Tall(b2, y) = Tall(bh, y)
        BY <1>7, <2>00, <3>3, <3>4, <3>5 DEF Tall
      <3>7. Bit(~RedOf(u, x)) = Bit(~RedOf(t, x))
        BY <3>1 DEF Bit
      <3>. QED BY <3>1, <3>2, <3>6, <3>7
    <2>. QED BY <2>1, <2>2, <2>3, <2>4, <2>5, <2>6
  <1>9. Balanced(u, b2)
    BY <1>6, <1>8 DEF Balanced
  <1>10. ASSUME NEW x \in N, NEW e \in Side, RedOf(u, x), IsRed(u, Child(u, x, e))
         PROVE  FALSE
    <2>. PICK y, z : y = Child(t, x, e) /\ z = Child(u, x, e)
      OBVIOUS
    <2>0. z # NULL /\ RedOf(u, z) /\ x # p /\ x # o
      BY <1>10, <1>4, IsRedIs
    <2>1. CASE x = s
      <3>1. z \in {p, o}
        <4>1. CASE e = last
          BY <1>3, <2>1, <4>1
        <4>2. CASE e = 1 - last
          BY <1>1, <1>3, <2>1, <4>2
        <4>. QED BY <1>1, <4>1, <4>2
      <3>. QED BY <1>3, <1>4, <2>0, <3>1
    <2>2. CASE x # s /\ x = g /\ e = d2
      <3>1. z = s /\ RedOf(t, g) /\ RedOf(t, p)
        BY <1>00, <1>3, <1>10, <2>0, <2>2
      <3>. QED BY <1>0, <1>00, <1>3, <2>2, <3>1, IsRedIs DEF RedRule
    <2>3. CASE x # s /\ ~(x = g /\ e = d2)
      <3>1. z = y
        BY <2>0, <2>3
      <3>2. y \in D
        BY <1>0, <2>0, <3>1, ChildOf
      <3>3. y # q /\ y # s
        BY <1>0, <1>00, <1>1, <1>3, <2>0, <3>2, OnePlace, <3>1
      <3>4. RedOf(t, y)
        BY <2>0, <3>1, <3>2, <3>3
      <3>5. CASE x = q
        BY <1>00, <2>0, <3>1, <3>4, <3>5, IsRedIs
      <3>6. CASE x # q
        <4>1. RedOf(t, x)
          BY <1>10, <2>3, <3>6
        <4>. QED BY <1>0, <2>0, <3>1, <3>4, <4>1, IsRedIs DEF RedRule
      <3>. QED BY <3>5, <3>6
    <2>. QED BY <2>1, <2>2, <2>3
  <1>11. RedRule(u, NULL)
    BY <1>10 DEF RedRule
  <1>. QED BY <1>9, <1>11

(* The inner child i of the sibling is red: after a double rotation and a  *)
(* repainting it is the red top over black p and s.                        *)
LEMMA InnerColours ==
  ASSUME NEW V, NEW t, Typed(t, V), NEW lo, NEW hi, NEW bh, Sound(t, lo, hi, bh, NULL),
         NEW g, NEW d2, NEW p, NEW last, NEW q, NEW s, Squeezed(t, g, d2, p, last, q, s),
         NEW i, i = Child(t, s, last), IsRed(t, i),
         NEW u, DOMAIN u.n = DOMAIN t.n,
         \A x \in DOMAIN t.n :
           /\ RedOf(u, x) <=> (RedOf(t, x) \/ x \in {i, q}) /\ x \notin {p, s}
           /\ \A e \in Side : Child(u, x, e) =
                IF x = g /\ e = d2 THEN i
                ELSE IF x = p /\ e = 1 - last THEN Child(t, i, last)
                ELSE IF x = s /\ e = last THEN Child(t, i, 1 - last)
                ELSE IF x = i THEN IF e = last THEN p ELSE s
                ELSE Child(t, x, e)
  PROVE  RedRule(u, NULL) /\ \E b2 : Balanced(u, b2)
  <1>. DEFINE D == DOMAIN t.n
              N == D \ {FalseRoot}
              b2 == [bh EXCEPT ![q] = bh[q] - 1, ![i] = bh[q], ![p] = bh[q]]
  <1>0. Linked(t, lo, hi) /\ Balanced(t, bh) /\ RedRule(t, NULL)
    BY DEF Sound
  <1>00. /\ g \in D /\ d2 \in Side /\ p = Child(t, g, d2) /\ p # NULL
         /\ last \in Side /\ q = Child(t, p, last) /\ q # NULL
         /\ s = Child(t, p, 1 - last) /\ s # NULL /\ ~RedOf(t, q) /\ ~RedOf(t, s)
         /\ (\A e \in Side : ~IsRed(t, Child(t, q, e))) /\ (RedOf(t, p) \/ g = FalseRoot)
    BY DEF Squeezed
  <1>1. 1 - last \in Side /\ 1 - last # last /\ \A e \in Side : e # last => e = 1 - last
    BY <1>00, SideFlip
  <1>2. Family(t, bh, g, p, q, s)
    BY SqueezedFamily
  <1>3. /\ {p, q, s} \subseteq N
        /\ g # p /\ g # q /\ g # s /\ p # q /\ p # s /\ q # s
        /\ \A x \in {q, s} : \A e \in Side :
             Child(t, x, e) # NULL => Child(t, x, e) \in N /\ Child(t, x, e) \notin {g, p, q, s}
        /\ bh[q] \in Nat /\ bh[q] >= 1 /\ bh[s] = bh[q] /\ (RedOf(t, p) => bh[p] = bh[q])
        /\ \A x \in {q, s} : \A e \in Side : Tall(bh, Child(t, x, e)) = bh[q] - 1
    BY <1>2 DEF Family
  <1>4. i # NULL /\ RedOf(t, i) /\ i \in N /\ i \notin {g, p, q, s} /\ bh[i] = bh[q] - 1
    <2>1. i # NULL /\ RedOf(t, i)
      BY IsRedIs
    <2>2. Tall(bh, i) = bh[q] - 1
      BY <1>00, <1>3
    <2>3. i \in N /\ i \notin {g, p, q, s}
      BY <1>00, <1>3, <2>1
    <2>. QED BY <2>1, <2>2, <2>3 DEF Tall
  <1>40. ASSUME NEW e \in Side, NEW y, y = Child(t, i, e)
         PROVE  /\ ~IsRed(t, y) /\ (y # NULL => y \in D /\ y \notin {p, q, s, i})
                /\ Tall(bh, y) = bh[q] - 1
    <2>1. ~IsRed(t, y)
      BY <1>0, <1>4, <1>40 DEF RedRule, IsRed
    <2>2. y # NULL => y \in D /\ y # i
      BY <1>0, <1>4, <1>40, ChildOf
    <2>3. y # NULL => y \notin {p, q, s}
      BY <1>0, <1>00, <1>1, <1>3, <1>4, <1>40, OnePlace
    <2>4. bh[i] = Tall(bh, y) + 0
      BY <1>0, <1>4, <1>40 DEF Balanced, Bit
    <2>5. Tall(bh, y) \in Int
      BY <1>0, <2>2 DEF Tall, Balanced
    <2>. QED BY <1>4, <2>1, <2>2, <2>3, <2>4, <2>5
  <1>5. \A x \in D : bh[x] \in Nat /\ RedOf(t, x) \in BOOLEAN
    BY <1>0, Fields DEF Balanced
  <1>6. /\ b2 \in [D -> Nat] /\ b2[q] = bh[q] - 1 /\ b2[i] = bh[q] /\ b2[p] = bh[q]
        /\ \A x \in D \ {q, i, p} : b2[x] = bh[x]
    <2>1. bh \in [D -> Nat] /\ bh[q] - 1 \in Nat
      BY <1>0, <1>3 DEF Balanced
    <2>. QED BY <1>3, <1>4, <2>1
  <1>. HIDE DEF b2
  <1>7. \A y : y # NULL /\ y \in D \ {q, i, p} => Tall(b2, y) = Tall(bh, y)
    BY <1>6 DEF Tall
  <1>71. \A e \in Side : Tall(b2, Child(t, i, e)) = bh[q] - 1
    BY <1>7, <1>40 DEF Tall
  <1>72. Tall(b2, q) = bh[q] - 1 /\ Tall(b2, p) = bh[q] /\ Tall(b2, s) = bh[q] /\ Tall(b2, i) = bh[q]
    BY <1>00, <1>3, <1>4, <1>6 DEF Tall
  <1>8. ASSUME NEW x \in N, NEW e \in Side
        PROVE  b2[x] = Tall(b2, Child(u, x, e)) + Bit(~RedOf(u, x))
    <2>. PICK y, z : y = Child(t, x, e) /\ z = Child(u, x, e)
      OBVIOUS
    <2>00. (y # NULL => y \in D) /\ (e = last \/ e = 1 - last)
      BY <1>0, <1>1, ChildOf
    <2>1. CASE x = q
      <3>1. Bit(~RedOf(u, x)) = 0 /\ b2[x] = bh[q] - 1
        BY <1>3, <1>4, <1>6, <2>1 DEF Bit
      <3>2. z = y /\ y # i
        <4>1. z = y
          BY <1>3, <1>4, <2>1
        <4>2. y # i
          BY <1>0, <1>1, <1>3, <1>00, <1>4, <2>1, OnePlace
        <4>. QED BY <4>1, <4>2
      <3>3. Tall(b2, y) = Tall(bh, y) /\ Tall(bh, y) = bh[q] - 1
        BY <1>3, <1>7, <2>1, <3>2 DEF Tall
      <3>. QED BY <1>3, <3>1, <3>2, <3>3
    <2>2. CASE x = i
      <3>1. Bit(~RedOf(u, x)) = 0 /\ b2[x] = bh[q]
        BY <1>4, <1>6, <2>2 DEF Bit
      <3>2. z \in {p, s}
        BY <1>4, <2>2
      <3>. QED BY <1>3, <1>72, <3>1, <3>2
    <2>3. CASE x = s
      <3>1. Bit(~RedOf(u, x)) = 1 /\ b2[x] = bh[q]
        BY <1>3, <1>4, <1>6, <2>3 DEF Bit
      <3>2. Tall(b2, z) = bh[q] - 1
        <4>1. CASE e = last
          <5>1. z = Child(t, i, 1 - last)
            BY <1>3, <1>4, <2>3, <4>1
          <5>. QED BY <1>1, <1>71, <5>1
        <4>2. CASE e = 1 - last
          <5>1. z = y
            BY <1>1, <1>3, <1>4, <2>3, <4>2
          <5>2. y # i
            BY <1>0, <1>00, <1>1, <1>3, <1>4, <2>3, <4>2, OnePlace
          <5>3. Tall(b2, y) = Tall(bh, y) /\ Tall(bh, y) = bh[q] - 1
            BY <1>3, <1>7, <2>3, <5>2 DEF Tall
          <5>. QED BY <5>1, <5>3
        <4>. QED BY <2>00, <4>1, <4>2
      <3>. QED BY <1>3, <3>1, <3>2
    <2>4. CASE x = p
      <3>1. Bit(~RedOf(u, x)) = 1 /\ b2[x] = bh[q]
        BY <1>3, <1>4, <1>6, <2>4 DEF Bit
      <3>2. Tall(b2, z) = bh[q] - 1
        <4>1. CASE e = last
          <5>1. z = q
            BY <1>00, <1>1, <1>3, <1>4, <2>4, <4>1
          <5>. QED BY <1>72, <5>1
        <4>2. CASE e = 1 - last
          <5>1. z = Child(t, i, last)
            BY <1>3, <1>4, <2>4, <4>2
          <5>. QED BY <1>00, <1>71, <5>1
        <4>. QED BY <2>00, <4>1, <4>2
      <3>. QED BY <1>3, <3>1, <3>2
    <2>5. CASE x \notin {q, s, p, i} /\ x = g /\ e = d2
      <3>1. y = p /\ z = i /\ bh[p] = bh[q] /\ Bit(~RedOf(u, x)) = Bit(~RedOf(t, x))
        <4>1. y = p /\ z = i /\ RedOf(t, p) /\ (RedOf(u, x) <=> RedOf(t, x))
          BY <1>00, <2>5
        <4>. QED BY <1>3, <4>1 DEF Bit
      <3>2. bh[x] = Tall(bh, y) + Bit(~RedOf(t, x)) /\ b2[x] = bh[x]
        BY <1>0, <1>6, <2>5 DEF Balanced
      <3>3. Tall(b2, z) = Tall(bh, y)
        BY <1>00, <1>72, <3>1 DEF Tall
      <3>. QED BY <3>1, <3>2, <3>3
    <2>6. CASE x \notin {q, s, p, i} /\ ~(x = g /\ e = d2)
      <3>1. (RedOf(u, x) <=> RedOf(t, x)) /\ z = y
        BY <2>6
      <3>2. bh[x] = Tall(bh, y) + Bit(~RedOf(t, x)) /\ b2[x] = bh[x]
        BY <1>0, <1>6, <2>6 DEF Balanced
      <3>3. y # p
        BY <1>0, <1>00, <2>6, OnePlace
      <3>4. y # q
        BY <1>0, <1>00, <1>1, <1>3, <2>6, OnePlace
      <3>5. y # i
        BY <1>0, <1>00, <1>1, <1>3, <1>4, <2>6, OnePlace
      <3>6. Tall(b2, y) = Tall(bh, y)
        BY <1>7, <2>00, <3>3, <3>4, <3>5 DEF Tall
      <3>7. Bit(~RedOf(u, x)) = Bit(~RedOf(t, x))
        BY <3>1 DEF Bit
      <3>. QED BY <3>1, <3>2, <3>6, <3>7
    <2>. QED BY <2>1, <2>2, <2>3, <2>4, <2>5, <2>6
  <1>9. Balanced(u, b2)
    BY <1>6, <1>8 DEF Balanced
  <1>10. ASSUME NEW x \in N, NEW e \in Side, RedOf(u, x), IsRed(u, Child(u, x, e))
         PROVE  FALSE
    <2>. PICK y, z : y = Child(t, x, e) /\ z = Child(u, x, e)
      OBVIOUS
    <2>0. z # NULL /\ RedOf(u, z) /\ x # p /\ x # s
      BY <1>10, <1>3, IsRedIs
    <2>1. CASE x = i
      <3>1. z \in {p, s}
        BY <1>4, <2>1
      <3>. QED BY <1>3, <2>0, <3>1
    <2>2. CASE x # i /\ x = g /\ e = d2
      <3>1. RedOf(t, g) /\ RedOf(t, p)
        BY <1>00, <1>3, <1>10, <2>0, <2>2
      <3>. QED BY <1>0, <1>00, <1>3, <2>2, <3>1, IsRedIs DEF RedRule
    <2>3. CASE x # i /\ ~(x = g /\ e = d2)
      <3>1. z = y
        BY <2>0, <2>3
      <3>2. y \in D
        BY <1>0, <2>0, <3>1, ChildOf
      <3>3. y # q /\ y # i
        BY <1>0, <1>00, <1>1, <1>3, <1>4, <2>0, <3>2, OnePlace, <3>1
      <3>4. RedOf(t, y)
        BY <2>0, <3>1, <3>2, <3>3
      <3>5. CASE x = q
        BY <1>00, <2>0, <3>1, <3>4, <3>5, IsRedIs
      <3>6. CASE x # q
        <4>1. RedOf(t, x)
          BY <1>10, <2>3, <3>6
        <4>. QED BY <1>0, <2>0, <3>1, <3>4, <4>1, IsRedIs DEF RedRule
      <3>. QED BY <3>5, <3>6
    <2>. QED BY <2>1, <2>2, <2>3
  <1>11. RedRule(u, NULL)
    BY <1>10 DEF RedRule
  <1>. QED BY <1>9, <1>11

(* q has become red, where it is and with its children *)
Sunk(t, u, V, lo, hi, p, last, q) ==
  /\ Typed(u, V) /\ Alike(t, u)
  /\ \E l2, h2, b2 : Sound(u, l2, h2, b2, NULL) /\ l2[q] = lo[q] /\ h2[q] = hi[q]
  /\ RedOf(u, q) /\ Child(u, p, last) = q
  /\ \A e \in Side : Child(u, q, e) = Child(t, q, e)

(* A sibling without red children: the colours of the three are flipped. *)
LEMMA SunkByPaint ==
  ASSUME NEW V, NEW t, Typed(t, V), NEW lo, NEW hi, NEW bh, Sound(t, lo, hi, bh, NULL),
         NEW g, NEW d2, NEW p, NEW last, NEW q, NEW s, Squeezed(t, g, d2, p, last, q, s),
         \A e \in Side : ~IsRed(t, Child(t, s, e)), NEW u, u = Paint(t, {s, q}, {p})
  PROVE  Sunk(t, u, V, lo, hi, p, last, q)
  <1>1. /\ Typed(u, V) /\ Alike(t, u)
        /\ \A x \in DOMAIN t.n :
              /\ RedOf(u, x) = ((RedOf(t, x) \/ x \in {s, q}) /\ x \notin {p})
              /\ ParentOf(u, x) = ParentOf(t, x)
              /\ \A e \in Side : Child(u, x, e) = Child(t, x, e)
    BY PaintIs
  <1>2. DOMAIN u.n = DOMAIN t.n /\ \A x \in DOMAIN t.n : KeyOf(u, x) = KeyOf(t, x)
    BY <1>1 DEF Alike
  <1>3. \A x \in DOMAIN t.n :
           /\ RedOf(u, x) <=> (RedOf(t, x) \/ x \in {s, q}) /\ x # p
           /\ \A e \in Side : Child(u, x, e) = Child(t, x, e)
    BY <1>1
  <1>4. RedRule(u, NULL) /\ \E b2 : Balanced(u, b2)
    <2>1. Typed(t, V) /\ Sound(t, lo, hi, bh, NULL) /\ Squeezed(t, g, d2, p, last, q, s)
      OBVIOUS
    <2>2. \A e \in Side : ~IsRed(t, Child(t, s, e))
      OBVIOUS
    <2>3. DOMAIN u.n = DOMAIN t.n
      BY <1>2
    <2>. QED BY ONLY <1>3, <2>1, <2>2, <2>3, PaintColours
  <1>5. Linked(u, lo, hi)
    BY <1>1, <1>2, SameLinks DEF Sound
  <1>6. Family(t, bh, g, p, q, s)
    BY SqueezedFamily
  <1>7. p \in DOMAIN t.n /\ q \in DOMAIN t.n /\ p # q
    BY <1>6 DEF Family
  <1>8. last \in Side /\ q = Child(t, p, last)
    BY DEF Squeezed
  <1>9. RedOf(u, q) /\ Child(u, p, last) = q /\ \A e \in Side : Child(u, q, e) = Child(t, q, e)
    BY <1>3, <1>7, <1>8
  <1>. QED BY <1>1, <1>4, <1>5, <1>9 DEF Sunk, Sound

(* A sibling with an outer red child: a single rotation and new colours. *)
LEMMA SunkByRotate ==
  ASSUME NEW V, NEW t, Typed(t, V), NEW lo, NEW hi, NEW bh, Sound(t, lo, hi, bh, NULL),
         NEW g, NEW d2, NEW p, NEW last, NEW q, NEW s, Squeezed(t, g, d2, p, last, q, s),
         ~IsRed(t, Child(t, s, last)), IsRed(t, Child(t, s, 1 - last)),
         NEW t1, t1 = Rotate(t, g, d2, p, last), NEW top, top = Child(t1, g, d2),
         NEW u, u = Paint(t1, {q, top}, {Child(t1, top, 0), Child(t1, top, 1)})
  PROVE  Sunk(t, u, V, lo, hi, p, last, q)
  <1>. DEFINE D == DOMAIN t.n
  <1>0. Linked(t, lo, hi)
    BY DEF Sound
  <1>00. /\ g \in D /\ d2 \in Side /\ p = Child(t, g, d2) /\ p # NULL
         /\ last \in Side /\ q = Child(t, p, last) /\ q # NULL
         /\ s = Child(t, p, 1 - last) /\ s # NULL
    BY DEF Squeezed
  <1>1. 1 - last \in Side /\ 1 - last # last /\ \A e \in Side : e # last => e = 1 - last
    BY <1>00, SideFlip
  <1>2. Family(t, bh, g, p, q, s)
    BY SqueezedFamily
  <1>3. /\ {p, q, s} \subseteq D
        /\ g # p /\ g # q /\ g # s /\ p # q /\ p # s /\ q # s
        /\ \A e \in Side : Child(t, s, e) # NULL => Child(t, s, e) \in D /\ Child(t, s, e) \notin {g, p, q, s}
    BY <1>2 DEF Family
  <1>. PICK i, o : i = Child(t, s, last) /\ o = Child(t, s, 1 - last)
    OBVIOUS
  <1>4. Typed(t1, V) /\ \E l2, h2 : Turn1(t, t1, lo, hi, l2, h2, g, d2, p, s, i, last)
    BY <1>0, <1>00, RotateTurns
  <1>5. PICK l2, h2 : Turn1(t, t1, lo, hi, l2, h2, g, d2, p, s, i, last)
    BY <1>4
  <1>6. /\ Alike(t, t1) /\ Linked(t1, l2, h2) /\ l2[q] = lo[q] /\ h2[q] = hi[q]
        /\ \A x \in D :
             /\ RedOf(t1, x) = IF x = p THEN TRUE ELSE IF x = s THEN FALSE ELSE RedOf(t, x)
             /\ \A e \in Side : Child(t1, x, e) =
                  IF x = g /\ e = d2 THEN s ELSE IF x = p /\ e = 1 - last THEN i
                  ELSE IF x = s /\ e = last THEN p ELSE Child(t, x, e)
    BY <1>3, <1>5 DEF Turn1, Rotated
  <1>7. DOMAIN t1.n = D
    BY <1>6 DEF Alike
  <1>8. top = s
    BY <1>00, <1>6
  <1>9. Child(t1, s, last) = p /\ Child(t1, s, 1 - last) = o
    <2>1. Child(t1, s, last) = p
      BY <1>00, <1>3, <1>6
    <2>2. Child(t1, s, 1 - last) = o
      BY <1>1, <1>3, <1>6
    <2>. QED BY <2>1, <2>2
  <1>10. {Child(t1, top, 0), Child(t1, top, 1)} = {p, o}
    <2>1. last = 0 \/ last = 1
      BY <1>00 DEF Side
    <2>2. CASE last = 0
      <3>1. Child(t1, s, 0) = p /\ Child(t1, s, 1) = o
        BY <1>9, <2>2
      <3>. QED BY <1>8, <3>1
    <2>3. CASE last = 1
      <3>1. Child(t1, s, 1) = p /\ Child(t1, s, 0) = o
        BY <1>9, <2>3
      <3>. QED BY <1>8, <3>1
    <2>. QED BY <2>1, <2>2, <2>3
  <1>11. /\ Typed(u, V) /\ Alike(t1, u)
         /\ \A x \in D :
              /\ RedOf(u, x) = ((RedOf(t1, x) \/ x \in {q, s}) /\ x \notin {p, o})
              /\ ParentOf(u, x) = ParentOf(t1, x)
              /\ \A e \in Side : Child(u, x, e) = Child(t1, x, e)
    <2>1. u = Paint(t1, {q, s}, {p, o})
      BY <1>8, <1>10
    <2>2. /\ Typed(u, V) /\ Alike(t1, u)
          /\ \A x \in DOMAIN t1.n :
               /\ RedOf(u, x) = ((RedOf(t1, x) \/ x \in {q, s}) /\ x \notin {p, o})
               /\ ParentOf(u, x) = ParentOf(t1, x)
               /\ \A e \in Side : Child(u, x, e) = Child(t1, x, e)
      BY ONLY <1>4, <2>1, PaintIs
    <2>. QED BY <1>7, <2>2
  <1>12. Alike(t, u) /\ DOMAIN u.n = D
    <2>1. Alike(t, u)
      BY <1>6, <1>11, AlikeTrans
    <2>. QED BY <2>1 DEF Alike
  <1>13. Linked(u, l2, h2)
    <2>1. \A x \in DOMAIN t1.n : KeyOf(u, x) = KeyOf(t1, x)
      BY <1>11 DEF Alike
    <2>2. \A x \in DOMAIN t1.n : /\ KeyOf(u, x) = KeyOf(t1, x) /\ ParentOf(u, x) = ParentOf(t1, x)
                               /\ \A e \in Side : Child(u, x, e) = Child(t1, x, e)
      BY <1>7, <1>11, <2>1
    <2>3. DOMAIN u.n = DOMAIN t1.n /\ Linked(t1, l2, h2)
      BY <1>6, <1>7, <1>12
    <2>. QED BY ONLY <2>2, <2>3, SameLinks
  <1>14. \A x \in D : RedOf(u, x) <=> (RedOf(t, x) \/ x \in {s, q}) /\ x \notin {p, o}
    BY <1>3, <1>6, <1>11
  <1>15. \A x \in D : \A e \in Side : Child(u, x, e) =
                  IF x = g /\ e = d2 THEN s ELSE IF x = p /\ e = 1 - last THEN i
                  ELSE IF x = s /\ e = last THEN p ELSE Child(t, x, e)
    <2>. SUFFICES ASSUME NEW x \in D, NEW e \in Side PROVE Child(u, x, e) =
                  IF x = g /\ e = d2 THEN s ELSE IF x = p /\ e = 1 - last THEN i
                  ELSE IF x = s /\ e = last THEN p ELSE Child(t, x, e)
      OBVIOUS
    <2>1. Child(u, x, e) = Child(t1, x, e)
      BY <1>11
    <2>2. Child(t1, x, e) =
                  IF x = g /\ e = d2 THEN s ELSE IF x = p /\ e = 1 - last THEN i
                  ELSE IF x = s /\ e = last THEN p ELSE Child(t, x, e)
      BY ONLY <1>6, x \in D, e \in Side
    <2>. QED BY ONLY <2>1, <2>2
  <1>16. RedRule(u, NULL) /\ \E b2 : Balanced(u, b2)
    <2>1. Typed(t, V) /\ Sound(t, lo, hi, bh, NULL) /\ Squeezed(t, g, d2, p, last, q, s)
      OBVIOUS
    <2>2. ~IsRed(t, i) /\ IsRed(t, o) /\ i = Child(t, s, last) /\ o = Child(t, s, 1 - last)
      OBVIOUS
    <2>3. DOMAIN u.n = DOMAIN t.n
      BY <1>12
    <2>4. \A x \in DOMAIN t.n :
           /\ RedOf(u, x) <=> (RedOf(t, x) \/ x \in {s, q}) /\ x \notin {p, o}
           /\ \A e \in Side : Child(u, x, e) =
                IF x = g /\ e = d2 THEN s ELSE IF x = p /\ e = 1 - last THEN i
                ELSE IF x = s /\ e = last THEN p ELSE Child(t, x, e)
      BY <1>14, <1>15
    <2>. QED BY ONLY <2>1, <2>2, <2>3, <2>4, OuterColours
  <1>17. q # o
    <2>1. o # NULL
      BY IsRedIs
    <2>. QED BY <1>1, <1>3, <2>1
  <1>18. RedOf(u, q)
    BY <1>3, <1>14, <1>17
  <1>19. Child(u, p, last) = q
    BY <1>00, <1>1, <1>3, <1>15
  <1>20. \A e \in Side : Child(u, q, e) = Child(t, q, e)
    BY <1>3, <1>15
  <1>. QED BY <1>6, <1>11, <1>12, <1>13, <1>16, <1>18, <1>19, <1>20 DEF Sunk, Sound

(* A sibling with an inner red child: a double rotation and new colours. *)
LEMMA SunkByRotate2 ==
  ASSUME NEW V, NEW t, Typed(t, V), NEW lo, NEW hi, NEW bh, Sound(t, lo, hi, bh, NULL),
         NEW g, NEW d2, NEW p, NEW last, NEW q, NEW s, Squeezed(t, g, d2, p, last, q, s),
         IsRed(t, Child(t, s, last)),
         NEW t1, t1 = Rotate2(t, g, d2, p, last), NEW top, top = Child(t1, g, d2),
         NEW u, u = Paint(t1, {q, top}, {Child(t1, top, 0), Child(t1, top, 1)})
  PROVE  Sunk(t, u, V, lo, hi, p, last, q)
  <1>. DEFINE D == DOMAIN t.n
  <1>0. Linked(t, lo, hi)
    BY DEF Sound
  <1>00. /\ g \in D /\ d2 \in Side /\ p = Child(t, g, d2) /\ p # NULL
         /\ last \in Side /\ q = Child(t, p, last) /\ q # NULL
         /\ s = Child(t, p, 1 - last) /\ s # NULL
    BY DEF Squeezed
  <1>1. 1 - last \in Side /\ 1 - last # last /\ \A e \in Side : e # last => e = 1 - last
    BY <1>00, SideFlip
  <1>2. Family(t, bh, g, p, q, s)
    BY SqueezedFamily
  <1>3. /\ {p, q, s} \subseteq D
        /\ g # p /\ g # q /\ g # s /\ p # q /\ p # s /\ q # s
        /\ \A e \in Side : Child(t, s, e) # NULL => Child(t, s, e) \in D /\ Child(t, s, e) \notin {g, p, q, s}
    BY <1>2 DEF Family
  <1>. PICK i : i = Child(t, s, last)
    OBVIOUS
  <1>30. i # NULL /\ i \in D /\ i \notin {g, p, q, s} /\ IsRed(t, i)
    <2>1. i # NULL /\ IsRed(t, i)
      BY IsRedIs
    <2>. QED BY <1>00, <1>3, <2>1
  <1>4. Typed(t1, V) /\ \E l2, h2 : Turn2(t, t1, lo, hi, l2, h2, g, d2, p, s, i, last)
    BY <1>0, <1>00, <1>30, Rotate2Turns
  <1>5. PICK l2, h2 : Turn2(t, t1, lo, hi, l2, h2, g, d2, p, s, i, last)
    BY <1>4
  <1>6. /\ Alike(t, t1) /\ Linked(t1, l2, h2) /\ l2[q] = lo[q] /\ h2[q] = hi[q]
        /\ \A x \in D :
             /\ RedOf(t1, x) = IF x \in {p, s} THEN TRUE ELSE IF x = i THEN FALSE ELSE RedOf(t, x)
             /\ \A e \in Side : Child(t1, x, e) =
                  IF x = g /\ e = d2 THEN i
                  ELSE IF x = p /\ e = 1 - last THEN Child(t, i, last)
                  ELSE IF x = s /\ e = last THEN Child(t, i, 1 - last)
                  ELSE IF x = i THEN IF e = last THEN p ELSE s
                  ELSE Child(t, x, e)
    BY <1>3, <1>30, <1>5 DEF Turn2
  <1>7. DOMAIN t1.n = D
    BY <1>6 DEF Alike
  <1>8. top = i
    BY <1>00, <1>6
  <1>9. Child(t1, i, last) = p /\ Child(t1, i, 1 - last) = s
    <2>1. Child(t1, i, last) = p
      BY <1>00, <1>30, <1>6
    <2>2. Child(t1, i, 1 - last) = s
      BY <1>1, <1>30, <1>6
    <2>. QED BY <2>1, <2>2
  <1>10. {Child(t1, top, 0), Child(t1, top, 1)} = {p, s}
    <2>1. last = 0 \/ last = 1
      BY <1>00 DEF Side
    <2>2. CASE last = 0
      <3>1. Child(t1, i, 0) = p /\ Child(t1, i, 1) = s
        BY <1>9, <2>2
      <3>. QED BY <1>8, <3>1
    <2>3. CASE last = 1
      <3>1. Child(t1, i, 1) = p /\ Child(t1, i, 0) = s
        BY <1>9, <2>3
      <3>. QED BY <1>8, <3>1
    <2>. QED BY <2>1, <2>2, <2>3
  <1>11. /\ Typed(u, V) /\ Alike(t1, u)
         /\ \A x \in D :
              /\ RedOf(u, x) = ((RedOf(t1, x) \/ x \in {q, i}) /\ x \notin {p, s})
              /\ ParentOf(u, x) = ParentOf(t1, x)
              /\ \A e \in Side : Child(u, x, e) = Child(t1, x, e)
    <2>1. u = Paint(t1, {q, i}, {p, s})
      BY <1>8, <1>10
    <2>2. /\ Typed(u, V) /\ Alike(t1, u)
          /\ \A x \in DOMAIN t1.n :
               /\ RedOf(u, x) = ((RedOf(t1, x) \/ x \in {q, i}) /\ x \notin {p, s})
               /\ ParentOf(u, x) = ParentOf(t1, x)
               /\ \A e \in Side : Child(u, x, e) = Child(t1, x, e)
      BY ONLY <1>4, <2>1, PaintIs
    <2>. QED BY <1>7, <2>2
  <1>12. Alike(t, u) /\ DOMAIN u.n = D
    <2>1. Alike(t, u)
      BY <1>6, <1>11, AlikeTrans
    <2>. QED BY <2>1 DEF Alike
  <1>13. Linked(u, l2, h2)
    <2>1. \A x \in DOMAIN t1.n : KeyOf(u, x) = KeyOf(t1, x)
      BY <1>11 DEF Alike
    <2>2. \A x \in DOMAIN t1.n : /\ KeyOf(u, x) = KeyOf(t1, x) /\ ParentOf(u, x) = ParentOf(t1, x)
                               /\ \A e \in Side : Child(u, x, e) = Child(t1, x, e)
      BY <1>7, <1>11, <2>1
    <2>3. DOMAIN u.n = DOMAIN t1.n /\ Linked(t1, l2, h2)
      BY <1>6, <1>7, <1>12
    <2>. QED BY ONLY <2>2, <2>3, SameLinks
  <1>14. \A x \in D : RedOf(u, x) <=> (RedOf(t, x) \/ x \in {i, q}) /\ x \notin {p, s}
    BY <1>3, <1>30, <1>6, <1>11
  <1>15. \A x \in D : \A e \in Side : Child(u, x, e) =
                  IF x = g /\ e = d2 THEN i
                  ELSE IF x = p /\ e = 1 - last THEN Child(t, i, last)
                  ELSE IF x = s /\ e = last THEN Child(t, i, 1 - last)
                  ELSE IF x = i THEN IF e = last THEN p ELSE s
                  ELSE Child(t, x, e)
    <2>. SUFFICES ASSUME NEW x \in D, NEW e \in Side PROVE Child(u, x, e) =
                  IF x = g /\ e = d2 THEN i
                  ELSE IF x = p /\ e = 1 - last THEN Child(t, i, last)
                  ELSE IF x = s /\ e = last THEN Child(t, i, 1 - last)
                  ELSE IF x = i THEN IF e = last THEN p ELSE s
                  ELSE Child(t, x, e)
      OBVIOUS
    <2>1. Child(u, x, e) = Child(t1, x, e)
      BY <1>11
    <2>2. Child(t1, x, e) =
                  IF x = g /\ e = d2 THEN i
                  ELSE IF x = p /\ e = 1 - last THEN Child(t, i, last)
                  ELSE IF x = s /\ e = last THEN Child(t, i, 1 - last)
                  ELSE IF x = i THEN IF e = last THEN p ELSE s
                  ELSE Child(t, x, e)
      BY ONLY <1>6, x \in D, e \in Side
    <2>. QED BY ONLY <2>1, <2>2
  <1>16. RedRule(u, NULL) /\ \E b2 : Balanced(u, b2)
    <2>1. Typed(t, V) /\ Sound(t, lo, hi, bh, NULL) /\ Squeezed(t, g, d2, p, last, q, s)
      OBVIOUS
    <2>2. IsRed(t, i) /\ i = Child(t, s, last)
      BY <1>30
    <2>3. DOMAIN u.n = DOMAIN t.n
      BY <1>12
    <2>4. \A x \in DOMAIN t.n :
           /\ RedOf(u, x) <=> (RedOf(t, x) \/ x \in {i, q}) /\ x \notin {p, s}
           /\ \A e \in Side : Child(u, x, e) =
                IF x = g /\ e = d2 THEN i
                ELSE IF x = p /\ e = 1 - last THEN Child(t, i, last)
                ELSE IF x = s /\ e = last THEN Child(t, i, 1 - last)
                ELSE IF x = i THEN IF e = last THEN p ELSE s
                ELSE Child(t, x, e)
      BY <1>14, <1>15
    <2>. QED BY ONLY <2>1, <2>2, <2>3, <2>4, InnerColours
  <1>18. RedOf(u, q)
    BY <1>3, <1>14
  <1>19. Child(u, p, last) = q
    BY <1>00, <1>1, <1>3, <1>30, <1>15
  <1>20. \A e \in Side : Child(u, q, e) = Child(t, q, e)
    BY <1>3, <1>30, <1>15
  <1>. QED BY <1>6, <1>11, <1>12, <1>13, <1>16, <1>18, <1>19, <1>20 DEF Sunk, Sound

(* In each case q is red afterwards, in a sound tree. *)
LEMMA SiblingSunk ==
  ASSUME NEW V, NEW t, Typed(t, V), NEW lo, NEW hi, NEW bh, Sound(t, lo, hi, bh, NULL),
         NEW g, NEW d2, NEW p, NEW last, NEW q, NEW s, Squeezed(t, g, d2, p, last, q, s),
         NEW u, u = RedSibling(t, p, q, g, last)
  PROVE  Sunk(t, u, V, lo, hi, p, last, q)
  <1>1. /\ g \in DOMAIN t.n /\ d2 \in Side /\ p = Child(t, g, d2) /\ p # NULL
        /\ last \in Side /\ s = Child(t, p, 1 - last)
    BY DEF Squeezed
  <1>2. Bit(Child(t, g, 1) = p) = d2
    <2>1. Bit(Child(t, g, 1) = p) \in Side /\ Child(t, g, Bit(Child(t, g, 1) = p)) = p
      BY <1>1, WhichSide
    <2>. QED BY <1>1, <2>1, OnePlace DEF Sound
  <1>3. CASE ~IsRed(t, Child(t, s, 0)) /\ ~IsRed(t, Child(t, s, 1))
    <2>1. u = Paint(t, {s, q}, {p})
      BY <1>1, <1>3 DEF RedSibling
    <2>2. \A e \in Side : ~IsRed(t, Child(t, s, e))
      BY <1>3 DEF Side
    <2>. QED BY <2>1, <2>2, SunkByPaint
  <1>4. CASE ~(~IsRed(t, Child(t, s, 0)) /\ ~IsRed(t, Child(t, s, 1))) /\ IsRed(t, Child(t, s, last))
    <2>1. PICK t1 : t1 = Rotate2(t, g, d2, p, last)
      OBVIOUS
    <2>2. PICK top : top = Child(t1, g, d2)
      OBVIOUS
    <2>3. u = Paint(t1, {q, top}, {Child(t1, top, 0), Child(t1, top, 1)})
      BY <1>1, <1>2, <1>4, <2>1, <2>2 DEF RedSibling
    <2>. QED BY <1>4, <2>1, <2>2, <2>3, SunkByRotate2
  <1>5. CASE ~(~IsRed(t, Child(t, s, 0)) /\ ~IsRed(t, Child(t, s, 1))) /\ ~IsRed(t, Child(t, s, last))
    <2>1. PICK t1 : t1 = Rotate(t, g, d2, p, last)
      OBVIOUS
    <2>2. PICK top : top = Child(t1, g, d2)
      OBVIOUS
    <2>3. u = Paint(t1, {q, top}, {Child(t1, top, 0), Child(t1, top, 1)})
      BY <1>1, <1>2, <1>5, <2>1, <2>2 DEF RedSibling
    <2>4. IsRed(t, Child(t, s, 1 - last))
      <3>1. CASE last = 0
        BY <1>5, <3>1
      <3>2. CASE last = 1
        BY <1>5, <3>2
      <3>. QED BY <1>1, <3>1, <3>2 DEF Side
    <2>. QED BY <1>5, <2>1, <2>2, <2>3, <2>4, SunkByRotate
  <1>. QED BY <1>3, <1>4, <1>5

(* k belongs on side d of y, or is its upper end, where f has it; that     *)
(* side is no wider than m.                                                *)
Slot(t, lo, hi, y, d, k, m, f) ==
  /\ y \in DOMAIN t.n /\ d \in Side
  /\ Lower(t, lo, y, d) < k /\ k <= Upper(t, hi, y, d)
  /\ Upper(t, hi, y, d) - Lower(t, lo, y, d) <= m
  /\ f = NULL => k < Upper(t, hi, y, d)
  /\ f # NULL => f \in DOMAIN t.n \ {FalseRoot} /\ KeyOf(t, f) = k /\ Upper(t, hi, y, d) = k

(* q is a node above the slot, which can give up its red child or itself   *)
Above(t, p, q, d) ==
  \/ q = FalseRoot /\ d = 1
  \/ /\ q # FalseRoot /\ p \in DOMAIN t.n /\ \E e \in Side : Child(t, p, e) = q
     /\ \/ RedOf(t, q)
        \/ IsRed(t, Child(t, q, d))
        \/ p = FalseRoot /\ ~IsRed(t, Child(t, q, 1 - d))

Sinks(x, lo, hi, k, m) == Slot(x.t, lo, hi, x.q, x.dir, k, m, x.f) /\ Above(x.t, x.p, x.q, x.dir)

(* One level down, the slot in which the search ends is smaller. *)
LEMMA SlotDown ==
  ASSUME NEW t, NEW lo, NEW hi, Linked(t, lo, hi), NEW y, NEW e, NEW k \in Int, NEW m \in Int, NEW f,
         Slot(t, lo, hi, y, e, k, m, f), NEW q, q = Child(t, y, e), q # NULL,
         NEW d, d = Bit(KeyOf(t, q) < k), NEW f2, f2 = IF KeyOf(t, q) = k THEN q ELSE f
  PROVE  Slot(t, lo, hi, q, d, k, m - 1, f2)
  <1>1. /\ y \in DOMAIN t.n /\ e \in Side
        /\ Lower(t, lo, y, e) < k /\ k <= Upper(t, hi, y, e)
        /\ Upper(t, hi, y, e) - Lower(t, lo, y, e) <= m
        /\ f = NULL => k < Upper(t, hi, y, e)
        /\ f # NULL => f \in DOMAIN t.n \ {FalseRoot} /\ KeyOf(t, f) = k /\ Upper(t, hi, y, e) = k
    BY DEF Slot
  <1>2. /\ q \in DOMAIN t.n /\ q # FalseRoot /\ lo[q] = Lower(t, lo, y, e) /\ hi[q] = Upper(t, hi, y, e)
    BY <1>1, ChildOf
  <1>3. /\ lo[q] \in Int /\ hi[q] \in Int /\ KeyOf(t, q) \in Int
        /\ lo[q] < KeyOf(t, q) /\ KeyOf(t, q) < hi[q]
    BY <1>2, NodeFacts
  <1>. PICK a, l, h : a = KeyOf(t, q) /\ l = lo[q] /\ h = hi[q]
    OBVIOUS
  <1>4. a \in Int /\ l \in Int /\ h \in Int /\ l < a /\ a < h /\ l < k /\ k <= h /\ h - l <= m
    BY <1>1, <1>2, <1>3
  <1>5. d = IF a < k THEN 1 ELSE 0
    BY DEF Bit
  <1>6. f = NULL => k < h
    BY <1>1, <1>2
  <1>7. f # NULL => f \in DOMAIN t.n \ {FalseRoot} /\ KeyOf(t, f) = k /\ h = k
    BY <1>1, <1>2
  <1>8. CASE a < k
    <2>1. d = 1 /\ Lower(t, lo, q, d) = a /\ Upper(t, hi, q, d) = h /\ f2 = f
      BY <1>4, <1>5, <1>8 DEF Lower, Upper
    <2>. QED BY <1>2, <1>4, <1>6, <1>7, <1>8, <2>1 DEF Slot, Side
  <1>9. CASE ~(a < k)
    <2>1. d = 0 /\ Lower(t, lo, q, d) = l /\ Upper(t, hi, q, d) = a
      BY <1>5, <1>9 DEF Lower, Upper
    <2>2. f = NULL
      BY <1>4, <1>7, <1>9
    <2>3. CASE a = k
      <3>1. f2 = q /\ q # NULL /\ KeyOf(t, q) = k
        BY <2>3
      <3>. QED BY <1>2, <1>4, <2>1, <2>3, <3>1 DEF Slot, Side
    <2>4. CASE a # k
      <3>1. f2 = NULL
        BY <2>2, <2>4
      <3>. QED BY <1>2, <1>4, <1>9, <2>1, <2>4, <3>1 DEF Slot, Side
    <2>. QED BY <2>3, <2>4
  <1>. QED BY <1>8, <1>9

(* A step that leaves keys and bounds leaves the slot. *)
LEMMA SlotKept ==
  ASSUME NEW t, NEW lo, NEW hi, NEW y, NEW d, NEW k, NEW m, NEW f, Slot(t, lo, hi, y, d, k, m, f),
         NEW u, Alike(t, u), NEW l2, NEW h2,
         Lower(u, l2, y, d) = Lower(t, lo, y, d), Upper(u, h2, y, d) = Upper(t, hi, y, d)
  PROVE  Slot(u, l2, h2, y, d, k, m, f)
  <1>1. DOMAIN u.n = DOMAIN t.n /\ \A x \in DOMAIN t.n : KeyOf(u, x) = KeyOf(t, x)
    BY DEF Alike
  <1>. QED BY <1>1 DEF Slot

(* A turn of the loop leaves the tree u, and leads to the child q. *)
Sunken(x, u, y, V, k, m) ==
  /\ Typed(u, V) /\ Alike(x.t, u)
  /\ \E l2, h2, b2 : Sound(u, l2, h2, b2, NULL) /\ Sinks(y, l2, h2, k, m - 1)

Goes(x, y, u, q, d, k, up) ==
  /\ y.t = u /\ y.q = q /\ y.dir = d /\ y.f = (IF KeyOf(x.t, q) = k THEN q ELSE x.f) /\ y.p = up

(* The node or the child on the way is red: nothing is to be done. *)
LEMMA TurnRed ==
  ASSUME NEW V, NEW x, Typed(x.t, V), NEW lo, NEW hi, NEW bh, Sound(x.t, lo, hi, bh, NULL),
         NEW k \in Int, NEW m \in Int, Sinks(x, lo, hi, k, m),
         NEW q, q = Child(x.t, x.q, x.dir), q # NULL, NEW d, d = Bit(KeyOf(x.t, q) < k),
         \/ IsRed(x.t, q) \/ IsRed(x.t, Child(x.t, q, d))
         \/ x.q = FalseRoot /\ ~IsRed(x.t, Child(x.t, q, 1 - d)),
         NEW y, Goes(x, y, x.t, q, d, k, x.q)
  PROVE  Sunken(x, x.t, y, V, k, m)
  <1>1. PICK t, f2, z : t = x.t /\ f2 = y.f /\ z = x.q
    OBVIOUS
  <1>2. Linked(t, lo, hi)
    BY <1>1 DEF Sound
  <1>3. Slot(t, lo, hi, q, d, k, m - 1, f2)
    <2>1. PICK e, f : e = x.dir /\ f = x.f
      OBVIOUS
    <2>2. Slot(t, lo, hi, z, e, k, m, f) /\ q = Child(t, z, e) /\ d = Bit(KeyOf(t, q) < k)
      BY <1>1, <2>1 DEF Sinks
    <2>3. f2 = IF KeyOf(t, q) = k THEN q ELSE f
      BY <1>1, <2>1 DEF Goes
    <2>4. q # NULL
      OBVIOUS
    <2>5. k \in Int /\ m \in Int
      OBVIOUS
    <2>. QED BY ONLY <1>2, <2>2, <2>3, <2>4, <2>5, SlotDown
  <1>4. z \in DOMAIN t.n /\ x.dir \in Side
    BY <1>1 DEF Sinks, Slot
  <1>5. q # FalseRoot /\ q \in DOMAIN t.n
    BY <1>1, <1>2, <1>4, ChildOf
  <1>6. Above(t, z, q, d)
    <2>1. \E e \in Side : Child(t, z, e) = q
      BY <1>1, <1>4
    <2>2. RedOf(t, q) \/ IsRed(t, Child(t, q, d)) \/ (z = FalseRoot /\ ~IsRed(t, Child(t, q, 1 - d)))
      BY <1>1, IsRedIs
    <2>. QED BY <1>4, <1>5, <2>1, <2>2 DEF Above
  <1>7. Sinks(y, lo, hi, k, m - 1)
    <2>1. y.t = t /\ y.q = q /\ y.dir = d /\ y.f = f2 /\ y.p = z
      BY <1>1 DEF Goes
    <2>. QED BY <1>3, <1>6, <2>1 DEF Sinks
  <1>8. Alike(t, t)
    BY DEF Alike
  <1>. QED BY <1>1, <1>7, <1>8 DEF Sunken

(* The other child is red: it comes up between p and q. *)
LEMMA TurnRotate ==
  ASSUME NEW V, NEW x, Typed(x.t, V), NEW lo, NEW hi, NEW bh, Sound(x.t, lo, hi, bh, NULL),
         NEW k \in Int, NEW m \in Int, Sinks(x, lo, hi, k, m),
         NEW q, q = Child(x.t, x.q, x.dir), q # NULL, NEW d, d = Bit(KeyOf(x.t, q) < k),
         ~IsRed(x.t, q), ~IsRed(x.t, Child(x.t, q, d)), IsRed(x.t, Child(x.t, q, 1 - d)),
         NEW u, u = Rotate(x.t, x.q, x.dir, q, d),
         NEW y, Goes(x, y, u, q, d, k, Child(u, x.q, x.dir))
  PROVE  Sunken(x, u, y, V, k, m)
  <1>1. PICK t, f2, p, last, r, f :
          t = x.t /\ f2 = y.f /\ p = x.q /\ last = x.dir /\ r = Child(x.t, q, 1 - d) /\ f = x.f
    OBVIOUS
  <1>2. Linked(t, lo, hi) /\ Sound(t, lo, hi, bh, NULL) /\ Typed(t, V)
    BY <1>1 DEF Sound
  <1>3. Slot(t, lo, hi, q, d, k, m - 1, f2)
    <2>2. Slot(t, lo, hi, p, last, k, m, f) /\ q = Child(t, p, last) /\ d = Bit(KeyOf(t, q) < k)
      BY <1>1 DEF Sinks
    <2>3. f2 = IF KeyOf(t, q) = k THEN q ELSE f
      BY <1>1 DEF Goes
    <2>4. q # NULL
      OBVIOUS
    <2>5. k \in Int /\ m \in Int
      OBVIOUS
    <2>. QED BY ONLY <1>2, <2>2, <2>3, <2>4, <2>5, SlotDown
  <1>4. p \in DOMAIN t.n /\ last \in Side /\ q = Child(t, p, last) /\ d \in Side /\ q # NULL
    BY <1>1, <1>3 DEF Sinks, Slot
  <1>5. /\ r = Child(t, q, 1 - d) /\ r # NULL /\ RedOf(t, r) /\ ~RedOf(t, q) /\ ~IsRed(t, Child(t, q, d))
    BY <1>1, IsRedIs
  <1>6. PICK c : c = Child(t, r, d)
    OBVIOUS
  <1>7. Typed(u, V) /\ \E l2, h2 : Turn1(t, u, lo, hi, l2, h2, p, last, q, r, c, d)
    <2>1. u = Rotate(t, p, last, q, d)
      BY <1>1
    <2>. QED BY ONLY <1>2, <1>4, <1>5, <1>6, <2>1, RotateTurns
  <1>8. PICK l2, h2 : Turn1(t, u, lo, hi, l2, h2, p, last, q, r, c, d)
    BY <1>7
  <1>9. Rotated(t, u, p, last, q, r, c, d) /\ Linked(u, l2, h2) /\ l2[r] = lo[q] /\ h2[r] = hi[q]
    BY <1>8 DEF Turn1
  <1>10. RedRule(u, NULL) /\ \E b2 : Balanced(u, b2)
    BY ONLY <1>2, <1>4, <1>5, <1>6, <1>9, PushColours
  <1>11. PICK b2 : Sound(u, l2, h2, b2, NULL)
    BY <1>9, <1>10 DEF Sound
  <1>12. 1 - d \in Side /\ 1 - d # d
    BY <1>4, SideFlip
  <1>13. q \in DOMAIN t.n /\ r \in DOMAIN t.n /\ q # FalseRoot /\ r # q /\ p # q /\ r # p
    <2>1. q \in DOMAIN t.n /\ q # FalseRoot /\ q # p /\ hi[q] - lo[q] < hi[p] - lo[p]
      BY <1>2, <1>4, ChildOf
    <2>2. r \in DOMAIN t.n /\ r # q /\ hi[r] - lo[r] < hi[q] - lo[q]
      BY <1>2, <1>5, <1>12, <2>1, ChildOf
    <2>3. \A z \in DOMAIN t.n : lo[z] \in Int /\ hi[z] \in Int
      BY <1>2, LinkedNames
    <2>. QED BY <1>4, <2>1, <2>2, <2>3
  <1>14. Alike(t, u) /\ DOMAIN u.n = DOMAIN t.n /\ KeyOf(u, q) = KeyOf(t, q)
    BY <1>9, <1>13 DEF Rotated, Alike
  <1>15. Child(u, r, d) = q /\ Child(u, p, last) = r /\ RedOf(u, q)
    <2>1. Child(u, r, d) = q
      BY <1>4, <1>9, <1>13 DEF Rotated
    <2>2. Child(u, p, last) = r
      BY <1>4, <1>9 DEF Rotated
    <2>3. RedOf(u, q)
      BY <1>9, <1>13 DEF Rotated
    <2>. QED BY <2>1, <2>2, <2>3
  <1>16. Lower(u, l2, q, d) = Lower(t, lo, q, d) /\ Upper(u, h2, q, d) = Upper(t, hi, q, d)
    <2>1. l2[q] = Lower(u, l2, r, d) /\ h2[q] = Upper(u, h2, r, d)
      BY <1>4, <1>9, <1>13, <1>14, <1>15, ChildOf
    <2>2. CASE d = 0
      <3>1. l2[q] = lo[q]
        BY <1>9, <2>1, <2>2 DEF Lower
      <3>. QED BY <1>14, <2>2, <3>1 DEF Lower, Upper
    <2>3. CASE d = 1
      <3>1. h2[q] = hi[q]
        BY <1>9, <2>1, <2>3 DEF Upper
      <3>. QED BY <1>14, <2>3, <3>1 DEF Lower, Upper
    <2>. QED BY <1>4, <2>2, <2>3 DEF Side
  <1>17. Slot(u, l2, h2, q, d, k, m - 1, f2)
    BY <1>3, <1>14, <1>16, SlotKept
  <1>18. Above(u, r, q, d)
    BY <1>4, <1>13, <1>14, <1>15 DEF Above
  <1>19. Sinks(y, l2, h2, k, m - 1)
    <2>1. y.t = u /\ y.q = q /\ y.dir = d /\ y.f = f2 /\ y.p = r
      BY <1>1, <1>15 DEF Goes
    <2>. QED BY <1>17, <1>18, <2>1 DEF Sinks
  <1>. QED BY <1>1, <1>7, <1>11, <1>14, <1>19 DEF Sunken

(* Everything around is black: the sibling gives its black or a child.     *)
LEMMA TurnSibling ==
  ASSUME NEW V, NEW x, Typed(x.t, V), NEW lo, NEW hi, NEW bh, Sound(x.t, lo, hi, bh, NULL),
         NEW k \in Int, NEW m \in Int, Sinks(x, lo, hi, k, m),
         NEW q, q = Child(x.t, x.q, x.dir), q # NULL, NEW d, d = Bit(KeyOf(x.t, q) < k),
         ~IsRed(x.t, q), ~IsRed(x.t, Child(x.t, q, d)), ~IsRed(x.t, Child(x.t, q, 1 - d)),
         Child(x.t, x.q, 1 - x.dir) # NULL,
         NEW u, u = RedSibling(x.t, x.q, q, x.p, x.dir),
         NEW y, Goes(x, y, u, q, d, k, x.q)
  PROVE  Sunken(x, u, y, V, k, m)
  <1>1. PICK t, f2, p, g, last, s, f :
          t = x.t /\ f2 = y.f /\ p = x.q /\ g = x.p /\ last = x.dir /\ s = Child(x.t, x.q, 1 - x.dir) /\ f = x.f
    OBVIOUS
  <1>2. Linked(t, lo, hi) /\ Balanced(t, bh) /\ RedRule(t, NULL) /\ Sound(t, lo, hi, bh, NULL) /\ Typed(t, V)
    BY <1>1 DEF Sound
  <1>3. Slot(t, lo, hi, q, d, k, m - 1, f2)
    <2>2. Slot(t, lo, hi, p, last, k, m, f) /\ q = Child(t, p, last) /\ d = Bit(KeyOf(t, q) < k)
      BY <1>1 DEF Sinks
    <2>3. f2 = IF KeyOf(t, q) = k THEN q ELSE f
      BY <1>1 DEF Goes
    <2>4. q # NULL
      OBVIOUS
    <2>5. k \in Int /\ m \in Int
      OBVIOUS
    <2>. QED BY ONLY <1>2, <2>2, <2>3, <2>4, <2>5, SlotDown
  <1>4. p \in DOMAIN t.n /\ last \in Side /\ q = Child(t, p, last) /\ d \in Side /\ q # NULL
        /\ s = Child(t, p, 1 - last) /\ s # NULL
    BY <1>1, <1>3 DEF Sinks, Slot
  <1>5. Above(t, g, p, last)
    BY <1>1 DEF Sinks
  <1>6. ~RedOf(t, q) /\ ~IsRed(t, q) /\ \A e \in Side : ~IsRed(t, Child(t, q, e))
    <2>1. \A e \in Side : e = d \/ e = 1 - d
      BY <1>4, SideFlip
    <2>2. ~IsRed(t, q) /\ ~IsRed(t, Child(t, q, d)) /\ ~IsRed(t, Child(t, q, 1 - d))
      BY <1>1
    <2>. QED BY <1>4, <2>1, <2>2, IsRedIs
  <1>7. 1 - last \in Side /\ 1 - last # last /\ (last = 1 => 1 - last = 0)
    BY <1>4, SideFlip
  <1>8. p # FalseRoot
    <2>. SUFFICES ASSUME p = FalseRoot PROVE FALSE
      OBVIOUS
    <2>1. last = 1
      BY <1>5 DEF Above
    <2>2. s = Child(t, FalseRoot, 0)
      BY <1>4, <1>7, <2>1
    <2>3. s \in DOMAIN t.n /\ s # FalseRoot /\ lo[s] = Lower(t, lo, FalseRoot, 0)
      BY <1>2, <1>4, <2>2, ChildOf DEF Side
    <2>. QED BY <1>2, <2>3 DEF Linked, Lower
  <1>9. g \in DOMAIN t.n /\ \E e \in Side : Child(t, g, e) = p
    BY <1>5, <1>8 DEF Above
  <1>10. PICK d2 \in Side : Child(t, g, d2) = p
    BY <1>9
  <1>11. RedOf(t, p) \/ (g = FalseRoot /\ ~IsRed(t, s))
    BY <1>4, <1>5, <1>6, <1>8 DEF Above
  <1>12. ~RedOf(t, s) /\ p # NULL
    <2>1. p # NULL
      BY <1>2, <1>4, LinkedNames
    <2>2. CASE RedOf(t, p)
      <3>1. ~(IsRed(t, Child(t, p, 1 - last)) /\ Child(t, p, 1 - last) # NULL)
        BY <1>2, <1>4, <1>7, <1>8, <2>2 DEF RedRule
      <3>. QED BY <1>4, <2>1, <3>1, IsRedIs
    <2>3. CASE ~RedOf(t, p)
      BY <1>4, <1>11, <2>1, <2>3, IsRedIs
    <2>. QED BY <2>2, <2>3
  <1>13. Squeezed(t, g, d2, p, last, q, s)
    BY <1>4, <1>6, <1>9, <1>10, <1>11, <1>12 DEF Squeezed
  <1>14. Sunk(t, u, V, lo, hi, p, last, q)
    <2>1. u = RedSibling(t, p, q, g, last)
      BY <1>1
    <2>. QED BY ONLY <1>2, <1>13, <2>1, SiblingSunk
  <1>15. PICK l2, h2, b2 : Sound(u, l2, h2, b2, NULL) /\ l2[q] = lo[q] /\ h2[q] = hi[q]
    BY <1>14 DEF Sunk
  <1>16. /\ Typed(u, V) /\ Alike(t, u) /\ RedOf(u, q) /\ Child(u, p, last) = q
    BY <1>14 DEF Sunk
  <1>17. q \in DOMAIN t.n /\ q # FalseRoot
    BY <1>2, <1>4, ChildOf
  <1>18. DOMAIN u.n = DOMAIN t.n /\ KeyOf(u, q) = KeyOf(t, q)
    BY <1>16, <1>17 DEF Alike
  <1>19. Slot(u, l2, h2, q, d, k, m - 1, f2)
    <2>1. Lower(u, l2, q, d) = Lower(t, lo, q, d) /\ Upper(u, h2, q, d) = Upper(t, hi, q, d)
      BY <1>15, <1>18 DEF Lower, Upper
    <2>. QED BY <1>3, <1>16, <2>1, SlotKept
  <1>20. Above(u, p, q, d)
    BY <1>4, <1>16, <1>17, <1>18 DEF Above
  <1>21. Sinks(y, l2, h2, k, m - 1)
    <2>1. y.t = u /\ y.q = q /\ y.dir = d /\ y.f = f2 /\ y.p = p
      BY <1>1 DEF Goes
    <2>. QED BY <1>19, <1>20, <2>1 DEF Sinks
  <1>. QED BY <1>1, <1>15, <1>16, <1>21 DEF Sunken

(* Only the false root has no sibling below it while all around is black. *)
LEMMA NoSibling ==
  ASSUME NEW V, NEW t, Typed(t, V), NEW lo, NEW hi, NEW bh, Sound(t, lo, hi, bh, NULL),
         NEW p \in DOMAIN t.n, NEW last \in Side, NEW q, q = Child(t, p, last), q # NULL,
         ~RedOf(t, q), Child(t, p, 1 - last) = NULL
  PROVE  p = FalseRoot
  <1>. SUFFICES ASSUME p # FalseRoot PROVE FALSE
    OBVIOUS
  <1>1. Linked(t, lo, hi) /\ Balanced(t, bh) /\ 1 - last \in Side
    BY SideFlip DEF Sound
  <1>2. q \in DOMAIN t.n /\ q # FalseRoot
    BY <1>1, ChildOf
  <1>3. bh[p] = Tall(bh, q) + Bit(~RedOf(t, p)) /\ bh[p] = 0 + Bit(~RedOf(t, p))
    BY <1>1 DEF Balanced, Tall
  <1>4. \A x \in DOMAIN t.n : bh[x] \in Nat
    BY <1>1 DEF Balanced
  <1>5. bh[q] = 0
    <2>1. Tall(bh, q) = bh[q] /\ bh[q] \in Nat /\ Bit(~RedOf(t, p)) \in Nat
      BY <1>2, <1>4 DEF Tall, Bit
    <2>. QED BY <1>3, <2>1
  <1>6. bh[q] = Tall(bh, Child(t, q, 0)) + 1
    BY <1>1, <1>2 DEF Balanced, Side, Bit
  <1>7. Tall(bh, Child(t, q, 0)) \in Nat
    <2>1. Child(t, q, 0) # NULL => Child(t, q, 0) \in DOMAIN t.n
      BY <1>1, <1>2, ChildOf DEF Side
    <2>. QED BY <1>4, <2>1 DEF Tall
  <1>. QED BY <1>5, <1>6, <1>7

(* One turn of the loop of _delete pushes the red node down and keeps the  *)
(* tree sound.                                                             *)
LEMMA SinkTurn ==
  ASSUME NEW V, NEW x, Typed(x.t, V), NEW lo, NEW hi, NEW bh, Sound(x.t, lo, hi, bh, NULL),
         NEW k \in Int, NEW m \in Int, Sinks(x, lo, hi, k, m), Child(x.t, x.q, x.dir) # NULL,
         NEW y, y = DeleteTurn(x, k)
  PROVE  Sunken(x, y.t, y, V, k, m)
  <1>. PICK q : q = Child(x.t, x.q, x.dir)
    OBVIOUS
  <1>. PICK d : d = Bit(KeyOf(x.t, q) < k)
    OBVIOUS
  <1>. PICK u : u = PushRed(x.t, x.q, q, x.p, x.dir, d)
    OBVIOUS
  <1>. PICK up : up = IF ~IsRed(x.t, q) /\ ~IsRed(x.t, Child(x.t, q, d)) /\ IsRed(x.t, Child(x.t, q, 1 - d))
                      THEN Child(u, x.q, x.dir) ELSE x.q
    OBVIOUS
  <1>1. y = [t |-> u, p |-> up, q |-> q, dir |-> d, f |-> IF KeyOf(x.t, q) = k THEN q ELSE x.f]
    BY DEF DeleteTurn, KeyOf
  <1>2. Goes(x, y, u, q, d, k, up) /\ y.t = u
    BY <1>1 DEF Goes
  <1>. HIDE DEF Goes
  <1>3. CASE IsRed(x.t, q) \/ IsRed(x.t, Child(x.t, q, d))
    <2>1. u = x.t /\ up = x.q
      BY <1>3 DEF PushRed
    <2>. QED BY <1>2, <1>3, <2>1, TurnRed
  <1>4. CASE ~IsRed(x.t, q) /\ ~IsRed(x.t, Child(x.t, q, d)) /\ IsRed(x.t, Child(x.t, q, 1 - d))
    <2>1. u = Rotate(x.t, x.q, x.dir, q, d) /\ up = Child(u, x.q, x.dir)
      BY <1>4 DEF PushRed
    <2>. QED BY <1>2, <1>4, <2>1, TurnRotate
  <1>5. CASE ~IsRed(x.t, q) /\ ~IsRed(x.t, Child(x.t, q, d)) /\ ~IsRed(x.t, Child(x.t, q, 1 - d))
    <2>0. up = x.q
      BY <1>5
    <2>1. CASE Child(x.t, x.q, 1 - x.dir) # NULL
      <3>1. u = RedSibling(x.t, x.q, q, x.p, x.dir)
        BY <1>5, <2>1 DEF PushRed
      <3>. QED BY <1>2, <1>5, <2>0, <2>1, <3>1, TurnSibling
    <2>2. CASE Child(x.t, x.q, 1 - x.dir) = NULL
      <3>1. u = x.t
        BY <1>5, <2>2 DEF PushRed
      <3>2. x.q = FalseRoot
        <4>1. PICK t, p, last : t = x.t /\ p = x.q /\ last = x.dir
          OBVIOUS
        <4>2. /\ Typed(t, V) /\ Sound(t, lo, hi, bh, NULL) /\ p \in DOMAIN t.n /\ last \in Side
              /\ q = Child(t, p, last) /\ q # NULL /\ Child(t, p, 1 - last) = NULL /\ ~RedOf(t, q)
          BY <1>5, <2>2, <4>1, IsRedIs DEF Sinks, Slot
        <4>. QED BY ONLY <4>1, <4>2, NoSibling
      <3>. QED BY <1>2, <1>5, <2>0, <3>1, <3>2, TurnRed
    <2>. QED BY <2>1, <2>2
  <1>. QED BY <1>3, <1>4, <1>5

(***************************************************************************)
(* The whole way down.                                                     *)
(***************************************************************************)
Top(t) == [t |-> WithHead(t), p |-> NULL, q |-> FalseRoot, dir |-> 1, f |-> NULL]
Ended(x) == Child(x.t, x.q, x.dir) = NULL
Push(x, k) == IF Ended(x) THEN x ELSE DeleteTurn(x, k)
Pushes(f, t, k, n) == f = [i \in 0..n |-> IF i = 0 THEN Top(t) ELSE Push(f[i-1], k)]

(* The loop of _delete as a sequence of turns. *)
LEMMA PushedIs ==
  ASSUME NEW t, NEW k
  PROVE  Pushed(t, k) = (CHOOSE f : Pushes(f, t, k, MaxTurns))[MaxTurns]
  BY DEF Pushed, Pushes, Push, Ended, Top

(* The turns of the loop form a sequence. *)
LEMMA PushesExist == ASSUME NEW t, NEW k PROVE \A n \in Nat : \E f : Pushes(f, t, k, n)
  <1>. DEFINE All == {n \in Nat : \E f : Pushes(f, t, k, n)}
  <1>1. 0 \in All
    <2>1. Pushes([i \in 0..0 |-> Top(t)], t, k, 0)
      BY DEF Pushes
    <2>. QED BY <2>1
  <1>2. ASSUME NEW n \in Nat, n \in All PROVE n + 1 \in All
    <2>1. PICK f : Pushes(f, t, k, n)
      BY <1>2
    <2>. DEFINE g == [i \in 0..n+1 |-> IF i = n + 1 THEN Push(f[n], k) ELSE f[i]]
    <2>2. ASSUME NEW i \in 0..n+1 PROVE g[i] = IF i = 0 THEN Top(t) ELSE Push(g[i-1], k)
      <3>1. CASE i = n + 1
        <4>1. g[n] = f[n] /\ g[n + 1] = Push(f[n], k) /\ i - 1 = n /\ i # 0
          BY <3>1
        <4>. HIDE DEF g
        <4>. QED BY <3>1, <4>1
      <3>2. CASE i = 0
        <4>1. g[0] = f[0] /\ f[0] = Top(t)
          BY <2>1 DEF Pushes
        <4>. QED BY <3>2, <4>1
      <3>3. CASE i # 0 /\ i # n + 1
        <4>1. i \in 0..n /\ i - 1 \in 0..n /\ i - 1 \in 0..n+1 /\ i - 1 # n + 1
          BY <3>3
        <4>2. f[i] = Push(f[i-1], k)
          BY <2>1, <3>3, <4>1 DEF Pushes
        <4>3. g[i] = f[i] /\ g[i-1] = f[i-1]
          BY <3>3, <4>1
        <4>. HIDE DEF g
        <4>. QED BY <3>3, <4>2, <4>3
      <3>. QED BY <3>1, <3>2, <3>3
    <2>3. g = [i \in 0..n+1 |-> g[i]]
      OBVIOUS
    <2>. HIDE DEF g
    <2>4. Pushes(g, t, k, n + 1)
      BY <2>2, <2>3 DEF Pushes
    <2>. QED BY <2>4
  <1>. HIDE DEF All
  <1>3. \A n \in Nat : n \in All
    BY <1>1, <1>2, Induction
  <1>. QED BY <1>3 DEF All

Sinking(t, V, k, x, m) ==
  /\ Typed(x.t, V) /\ Alike(WithHead(t), x.t)
  /\ \E lo, hi, bh : Sound(x.t, lo, hi, bh, NULL) /\ Sinks(x, lo, hi, k, m)

(* The loop starts at the false root, which counts as red. *)
LEMMA TopIs ==
  ASSUME NEW V, NULL \in V, NEW t, Whole(t, V), t.root # NULL, NEW k \in Key
  PROVE  Sinking(t, V, k, Top(t), NKey + 1)
  <1>1. PICK x : x = Top(t)
    OBVIOUS
  <1>2. x.t = WithHead(t) /\ x.p = NULL /\ x.q = FalseRoot /\ x.dir = 1 /\ x.f = NULL
    BY <1>1 DEF Top
  <1>3. PICK lo0, hi0, bh0 : Shaped(t, lo0, hi0, bh0)
    BY DEF Whole
  <1>4. PICK u : u = WithHead(t)
    OBVIOUS
  <1>5. Typed(u, V) /\ \E l2, h2, b2 : Sound(u, l2, h2, b2, NULL)
    BY <1>3, <1>4, HeadOn DEF Whole
  <1>6. PICK lo, hi, bh : Sound(u, lo, hi, bh, NULL)
    BY <1>5
  <1>7. /\ Linked(u, lo, hi) /\ FalseRoot \in DOMAIN u.n /\ KeyOf(u, FalseRoot) = 0
        /\ hi[FalseRoot] = NKey + 1 /\ NKey \in Nat /\ k \in Int /\ 1 <= k /\ k <= NKey
    BY <1>6, LinkedNames DEF Sound, Linked
  <1>8. Lower(u, lo, FalseRoot, 1) = 0 /\ Upper(u, hi, FalseRoot, 1) = NKey + 1
    BY <1>7 DEF Lower, Upper
  <1>9. Slot(u, lo, hi, FalseRoot, 1, k, NKey + 1, NULL)
    BY <1>7, <1>8 DEF Slot, Side
  <1>10. Sinks(x, lo, hi, k, NKey + 1)
    BY <1>2, <1>4, <1>9 DEF Sinks, Above
  <1>11. Alike(u, u)
    BY DEF Alike
  <1>. QED BY <1>1, <1>2, <1>4, <1>5, <1>6, <1>10, <1>11 DEF Sinking

(* Each turn keeps the tree sound and narrows the slot. *)
LEMMA PushKept ==
  ASSUME NEW V, NEW t, NEW k \in Int, NEW m \in Int, NEW x, Sinking(t, V, k, x, m), ~Ended(x)
  PROVE  Sinking(t, V, k, DeleteTurn(x, k), m - 1)
  <1>1. Typed(x.t, V) /\ Alike(WithHead(t), x.t)
    BY DEF Sinking
  <1>2. PICK lo, hi, bh : Sound(x.t, lo, hi, bh, NULL) /\ Sinks(x, lo, hi, k, m)
    BY DEF Sinking
  <1>3. PICK y : y = DeleteTurn(x, k)
    OBVIOUS
  <1>4. Sunken(x, y.t, y, V, k, m)
    BY <1>1, <1>2, <1>3, SinkTurn DEF Ended
  <1>5. Alike(WithHead(t), y.t)
    BY <1>1, <1>4, AlikeTrans DEF Sunken
  <1>. QED BY <1>3, <1>4, <1>5 DEF Sunken, Sinking

Pushing(t, V, k, x, n) == \E m \in Int : Sinking(t, V, k, x, m) /\ (Ended(x) \/ m <= n)

(* So do all turns together. *)
LEMMA PushesKept ==
  ASSUME NEW V, NULL \in V, NEW t, Whole(t, V), t.root # NULL, NEW k \in Key,
         NEW f, Pushes(f, t, k, MaxTurns)
  PROVE  \A i \in 0..MaxTurns : Pushing(t, V, k, f[i], NKey + 1 - i)
  <1>. DEFINE T == {n \in Nat : n \in 0..MaxTurns => Pushing(t, V, k, f[n], NKey + 1 - n)}
  <1>0. NKey \in Nat /\ MaxTurns \in Nat /\ 0 \in 0..MaxTurns /\ k \in Int
    BY KeyAssumption DEF MaxTurns, Key
  <1>1. 0 \in T
    <2>1. f[0] = Top(t)
      BY <1>0 DEF Pushes
    <2>2. NKey + 1 - 0 = NKey + 1 /\ NKey + 1 \in Int /\ NKey + 1 <= NKey + 1
      BY <1>0
    <2>3. Sinking(t, V, k, f[0], NKey + 1)
      BY <2>1, TopIs
    <2>. QED BY <2>2, <2>3 DEF Pushing
  <1>2. ASSUME NEW n \in Nat, n \in T PROVE n + 1 \in T
    <2>. SUFFICES ASSUME n + 1 \in 0..MaxTurns
                  PROVE  Pushing(t, V, k, f[n + 1], NKey + 1 - (n + 1))
      OBVIOUS
    <2>1. n \in 0..MaxTurns /\ n + 1 # 0 /\ (n + 1) - 1 = n
      BY <1>0
    <2>2. PICK x : x = f[n]
      OBVIOUS
    <2>3. f[n + 1] = Push(x, k)
      BY <2>1, <2>2 DEF Pushes
    <2>4. Pushing(t, V, k, x, NKey + 1 - n)
      BY <1>2, <2>1, <2>2
    <2>5. PICK m \in Int : Sinking(t, V, k, x, m) /\ (Ended(x) \/ m <= NKey + 1 - n)
      BY <2>4 DEF Pushing
    <2>6. CASE Ended(x)
      <3>1. f[n + 1] = x
        BY <2>3, <2>6 DEF Push
      <3>. QED BY <2>5, <2>6, <3>1 DEF Pushing
    <2>7. CASE ~Ended(x)
      <3>1. f[n + 1] = DeleteTurn(x, k)
        BY <2>3, <2>7 DEF Push
      <3>2. Sinking(t, V, k, f[n + 1], m - 1)
        BY <1>0, <2>5, <2>7, <3>1, PushKept
      <3>3. m - 1 \in Int /\ m - 1 <= NKey + 1 - (n + 1)
        BY <1>0, <2>5, <2>7
      <3>. QED BY <3>2, <3>3 DEF Pushing
    <2>. QED BY <2>6, <2>7
  <1>. HIDE DEF T
  <1>3. \A n \in Nat : n \in T
    BY <1>1, <1>2, Induction
  <1>. QED BY <1>0, <1>3 DEF T

(* The way comes to its end. *)
LEMMA PushedEnds ==
  ASSUME NEW V, NULL \in V, NEW t, Whole(t, V), t.root # NULL, NEW k \in Key,
         NEW x, x = Pushed(t, k)
  PROVE  Ended(x) /\ \E m \in Int : Sinking(t, V, k, x, m)
  <1>1. NKey \in Nat /\ MaxTurns \in Nat /\ MaxTurns \in 0..MaxTurns
    BY KeyAssumption DEF MaxTurns
  <1>2. \E f : Pushes(f, t, k, MaxTurns)
    BY <1>1, PushesExist
  <1>3. PICK f : f = CHOOSE g : Pushes(g, t, k, MaxTurns)
    OBVIOUS
  <1>4. Pushes(f, t, k, MaxTurns)
    BY <1>2, <1>3, Zenon
  <1>5. x = f[MaxTurns]
    BY <1>3, PushedIs
  <1>6. Pushing(t, V, k, x, NKey + 1 - MaxTurns)
    BY <1>1, <1>4, <1>5, PushesKept
  <1>7. PICK m \in Int : Sinking(t, V, k, x, m) /\ (Ended(x) \/ m <= NKey + 1 - MaxTurns)
    BY <1>6 DEF Pushing
  <1>8. Ended(x)
    <2>. SUFFICES ASSUME ~Ended(x) PROVE FALSE
      OBVIOUS
    <2>1. m < 0
      BY <1>1, <1>7 DEF MaxTurns
    <2>2. PICK lo, hi, bh : Sound(x.t, lo, hi, bh, NULL) /\ Sinks(x, lo, hi, k, m)
      BY <1>7 DEF Sinking
    <2>3. Slot(x.t, lo, hi, x.q, x.dir, k, m, x.f) /\ Linked(x.t, lo, hi)
      BY <2>2 DEF Sinks, Sound
    <2>4. PICK l, h : l = Lower(x.t, lo, x.q, x.dir) /\ h = Upper(x.t, hi, x.q, x.dir)
      OBVIOUS
    <2>5. l \in Int /\ h \in Int /\ k \in Int
      BY <2>3, <2>4, LinkedNames DEF Slot, Lower, Upper
    <2>6. l < k /\ k <= h /\ h - l <= m
      BY <2>3, <2>4 DEF Slot
    <2>. QED BY <2>1, <2>5, <2>6
  <1>. QED BY <1>7, <1>8

(* Where the way ends without the key, no node has it. *)
LEMMA EndAbsent ==
  ASSUME NEW t, NEW lo, NEW hi, Linked(t, lo, hi), NEW q, NEW d, NEW k, NEW m,
         Slot(t, lo, hi, q, d, k, m, NULL), Child(t, q, d) = NULL
  PROVE  \A z \in DOMAIN t.n : KeyOf(t, z) # k
  BY SideHasChild DEF Slot

(* Where it ends with the key, q is a red leaf: what is left of q on its   *)
(* side is empty, so it is the node sought or the one just before that.    *)
Loose(t, hi, p, q, f, k) ==
  /\ p \in DOMAIN t.n \ {FalseRoot} /\ q \in DOMAIN t.n \ {FalseRoot}
  /\ f \in DOMAIN t.n \ {FalseRoot} /\ KeyOf(t, f) = k
  /\ RedOf(t, q) /\ \A e \in Side : Child(t, q, e) = NULL
  /\ \E e \in Side : Child(t, p, e) = q
  /\ q = f \/ hi[q] = k

(* At the end of the way, q is a red leaf that can leave. *)
LEMMA EndFound ==
  ASSUME NEW V, NEW t, Typed(t, V), NEW lo, NEW hi, NEW bh, Sound(t, lo, hi, bh, NULL),
         NEW p, NEW q, NEW d, NEW k, NEW m, NEW f, f # NULL, Slot(t, lo, hi, q, d, k, m, f),
         Above(t, p, q, d), Child(t, q, d) = NULL,
         \E z \in DOMAIN t.n \ {FalseRoot} : z # f
  PROVE  Loose(t, hi, p, q, f, k)
  <1>. DEFINE D == DOMAIN t.n
              N == D \ {FalseRoot}
  <1>0. Linked(t, lo, hi) /\ Balanced(t, bh) /\ RedRule(t, NULL)
    BY DEF Sound
  <1>1. q \in D /\ d \in Side /\ f \in N /\ KeyOf(t, f) = k /\ Upper(t, hi, q, d) = k
    BY DEF Slot
  <1>2. 1 - d \in Side /\ \A e \in Side : e # d => e = 1 - d
    BY <1>1, SideFlip
  <1>3. /\ KeyOf(t, FalseRoot) = 0 /\ hi[FalseRoot] = NKey + 1 /\ lo[FalseRoot] = -1 /\ FalseRoot \in D
        /\ NKey \in Nat /\ \A x \in N : KeyOf(t, x) \in Int /\ 1 <= KeyOf(t, x) /\ KeyOf(t, x) <= NKey /\ 0 <= lo[x]
    BY <1>0, LinkedNames DEF Linked
  <1>4. q # FalseRoot
    <2>. SUFFICES ASSUME q = FalseRoot PROVE FALSE
      OBVIOUS
    <2>1. d = 1
      BY DEF Above
    <2>2. Lower(t, lo, FalseRoot, 1) < KeyOf(t, f) /\ KeyOf(t, f) < Upper(t, hi, FalseRoot, 1)
      BY <1>1, <1>3 DEF Lower, Upper
    <2>. QED BY <1>0, <1>1, <2>1, <2>2, SideHasChild
  <1>5. /\ p \in D /\ \E e \in Side : Child(t, p, e) = q
        /\ \/ RedOf(t, q)
           \/ IsRed(t, Child(t, q, d))
           \/ p = FalseRoot /\ ~IsRed(t, Child(t, q, 1 - d))
    BY <1>4 DEF Above
  <1>6. ~IsRed(t, Child(t, q, d))
    BY DEF IsRed
  <1>7. Child(t, q, 1 - d) = NULL
    <2>. SUFFICES ASSUME NEW c, c = Child(t, q, 1 - d), c # NULL PROVE FALSE
      OBVIOUS
    <2>1. 1 - (1 - d) = d
      BY <1>1, SideFlip
    <2>2. RedOf(t, c)
      <3>. SUFFICES ASSUME ~RedOf(t, c) PROVE FALSE
        OBVIOUS
      <3>1. Child(t, q, 1 - (1 - d)) = NULL
        BY <2>1
      <3>. QED BY <1>1, <1>2, <1>4, <3>1, NoSibling
    <2>3. IsRed(t, c)
      BY <2>2, IsRedIs
    <2>4. RedOf(t, q)
      BY <1>5, <1>6, <2>3
    <2>. QED BY <1>0, <1>1, <1>2, <1>4, <2>3, <2>4 DEF RedRule
  <1>8. \A e \in Side : Child(t, q, e) = NULL
    BY <1>2, <1>7
  <1>9. p # FalseRoot
    <2>. SUFFICES ASSUME p = FalseRoot PROVE FALSE
      OBVIOUS
    <2>1. PICK e \in Side : Child(t, FalseRoot, e) = q
      BY <1>5
    <2>2. q # NULL
      BY <1>0, <1>1, LinkedNames
    <2>3. lo[q] = Lower(t, lo, FalseRoot, e) /\ hi[q] = Upper(t, hi, FalseRoot, e)
      BY <1>0, <1>3, <2>1, <2>2, ChildOf
    <2>4. e = 1
      BY <1>1, <1>3, <1>4, <2>3 DEF Lower, Side
    <2>5. lo[q] = 0 /\ hi[q] = NKey + 1
      BY <1>3, <2>3, <2>4 DEF Lower, Upper
    <2>6. ASSUME NEW w \in N, w # q PROVE FALSE
      <3>1. KeyOf(t, w) # KeyOf(t, q)
        BY <1>0, <1>1, <2>6, KeysDiffer
      <3>2. CASE KeyOf(t, w) < KeyOf(t, q)
        <4>1. Lower(t, lo, q, 0) < KeyOf(t, w) /\ KeyOf(t, w) < Upper(t, hi, q, 0)
          BY <1>3, <2>5, <3>2 DEF Lower, Upper
        <4>. QED BY <1>0, <1>1, <1>8, <4>1, SideHasChild DEF Side
      <3>3. CASE KeyOf(t, w) > KeyOf(t, q)
        <4>1. Lower(t, lo, q, 1) < KeyOf(t, w) /\ KeyOf(t, w) < Upper(t, hi, q, 1)
          BY <1>3, <2>5, <3>3 DEF Lower, Upper
        <4>. QED BY <1>0, <1>1, <1>8, <4>1, SideHasChild DEF Side
      <3>. QED BY <1>1, <1>3, <1>4, <3>1, <3>2, <3>3
    <2>. QED BY <1>1, <2>6
  <1>10. RedOf(t, q)
    BY <1>5, <1>6, <1>9
  <1>11. q = f \/ hi[q] = k
    <2>1. CASE d = 0
      <3>1. KeyOf(t, q) = KeyOf(t, f)
        BY <1>1, <2>1 DEF Upper
      <3>. QED BY <1>0, <1>1, <3>1, KeysDiffer
    <2>2. CASE d = 1
      BY <1>1, <2>2 DEF Upper
    <2>. QED BY <1>1, <2>1, <2>2 DEF Side
  <1>. QED BY <1>1, <1>4, <1>5, <1>8, <1>9, <1>10, <1>11 DEF Loose

(* the nodes of t with their links and colours, though not what they hold *)
Skeleton(t, u, V) ==
  /\ Typed(u, V) /\ DOMAIN u.n = DOMAIN t.n
  /\ u.root = t.root /\ u.beg = t.beg /\ u.len = t.len
  /\ \A x \in DOMAIN t.n :
       /\ RedOf(u, x) = RedOf(t, x) /\ ParentOf(u, x) = ParentOf(t, x)
       /\ \A e \in Side : Child(u, x, e) = Child(t, x, e)

Keyed(t, u, q, k) ==
  \A x \in DOMAIN t.n : KeyOf(u, x) = (IF x = q THEN k ELSE KeyOf(t, x)) /\ ValOf(u, x) = ValOf(t, x)
Valued(t, u, q, v) ==
  \A x \in DOMAIN t.n : KeyOf(u, x) = KeyOf(t, x) /\ ValOf(u, x) = (IF x = q THEN v ELSE ValOf(t, x))

(* Two changes of what nodes hold are one. *)
LEMMA SkeletonTrans ==
  ASSUME NEW V, NEW t, NEW u, NEW w, Skeleton(t, u, V), Skeleton(u, w, V)
  PROVE  Skeleton(t, w, V)
  BY DEF Skeleton

(* Assigning the key of a node leaves its other fields. *)
LEMMA KeyIs ==
  ASSUME NEW V, NEW t, Typed(t, V), NEW q \in DOMAIN t.n, NEW k \in Int,
         NEW u, u = [t EXCEPT !.n[q].key = k]
  PROVE  Skeleton(t, u, V) /\ Keyed(t, u, q, k)
  <1>1. t.n[q] \in Field(V)
    BY DEF Typed
  <1>2. PICK r : r = [t.n[q] EXCEPT !.key = k]
    OBVIOUS
  <1>3. /\ r \in Field(V) /\ r.key = k /\ r.val = t.n[q].val /\ r.red = t.n[q].red
        /\ r.parent = t.n[q].parent /\ r.ch = t.n[q].ch
    BY <1>1, <1>2 DEF Field
  <1>4. u = [t EXCEPT !.n[q] = r]
    BY <1>2
  <1>5. /\ Typed(u, V) /\ DOMAIN u.n = DOMAIN t.n
        /\ u.root = t.root /\ u.beg = t.beg /\ u.len = t.len
        /\ u.n[q] = r /\ \A x \in DOMAIN t.n \ {q} : u.n[x] = t.n[x]
    <2>1. Typed(t, V) /\ q \in DOMAIN t.n /\ r \in Field(V)
      BY <1>3
    <2>. QED BY ONLY <1>4, <2>1, NodeReplaced
  <1>. QED BY <1>3, <1>5 DEF KeyOf, ValOf, RedOf, ParentOf, Child, Skeleton, Keyed

(* Assigning the value of a node changes nothing else. *)
LEMMA ValOnly ==
  ASSUME NEW V, NEW t, Typed(t, V), NEW q \in DOMAIN t.n, NEW v \in V,
         NEW u, u = [t EXCEPT !.n[q].val = v]
  PROVE  Skeleton(t, u, V) /\ Valued(t, u, q, v)
  <1>1. t.n[q] \in Field(V)
    BY DEF Typed
  <1>2. PICK r : r = [t.n[q] EXCEPT !.val = v]
    OBVIOUS
  <1>3. /\ r \in Field(V) /\ r.val = v /\ r.key = t.n[q].key /\ r.red = t.n[q].red
        /\ r.parent = t.n[q].parent /\ r.ch = t.n[q].ch
    BY <1>1, <1>2 DEF Field
  <1>4. u = [t EXCEPT !.n[q] = r]
    BY <1>2
  <1>5. /\ Typed(u, V) /\ DOMAIN u.n = DOMAIN t.n
        /\ u.root = t.root /\ u.beg = t.beg /\ u.len = t.len
        /\ u.n[q] = r /\ \A x \in DOMAIN t.n \ {q} : u.n[x] = t.n[x]
    <2>1. Typed(t, V) /\ q \in DOMAIN t.n /\ r \in Field(V)
      BY <1>3
    <2>. QED BY ONLY <1>4, <2>1, NodeReplaced
  <1>. QED BY <1>3, <1>5 DEF KeyOf, ValOf, RedOf, ParentOf, Child, Skeleton, Valued

(* f and q exchange what they hold. *)
Exchanged(t, f, q) ==
  [t EXCEPT !.n[f].key = t.n[q].key, !.n[f].val = t.n[q].val,
            !.n[q].key = t.n[f].key, !.n[q].val = t.n[f].val]

Other(f, q, x) == IF x = f THEN q ELSE IF x = q THEN f ELSE x

(* The exchange of keys and values between f and q. *)
LEMMA ExchangedIs ==
  ASSUME NEW V, NEW t, Typed(t, V), NEW f \in DOMAIN t.n, NEW q \in DOMAIN t.n,
         NEW u, u = Exchanged(t, f, q)
  PROVE  /\ Skeleton(t, u, V)
         /\ \A x \in DOMAIN t.n :
              KeyOf(u, x) = KeyOf(t, Other(f, q, x)) /\ ValOf(u, x) = ValOf(t, Other(f, q, x))
  <1>. PICK kf, vf, kq, vq : kf = t.n[f].key /\ vf = t.n[f].val /\ kq = t.n[q].key /\ vq = t.n[q].val
    OBVIOUS
  <1>1. kf \in Int /\ kq \in Int /\ vf \in V /\ vq \in V
    BY Fields DEF KeyOf, ValOf
  <1>2. PICK a : a = [t EXCEPT !.n[f].key = kq]
    OBVIOUS
  <1>3. PICK b : b = [a EXCEPT !.n[f].val = vq]
    OBVIOUS
  <1>4. PICK c : c = [b EXCEPT !.n[q].key = kf]
    OBVIOUS
  <1>5. u = [c EXCEPT !.n[q].val = vf]
    BY <1>2, <1>3, <1>4 DEF Exchanged
  <1>6. Skeleton(t, a, V) /\ Keyed(t, a, f, kq)
    BY ONLY Typed(t, V), f \in DOMAIN t.n, <1>1, <1>2, KeyIs
  <1>7. Skeleton(a, b, V) /\ Valued(a, b, f, vq)
    <2>1. Typed(a, V) /\ f \in DOMAIN a.n
      BY <1>6 DEF Skeleton
    <2>. QED BY ONLY <1>1, <1>3, <2>1, ValOnly
  <1>8. Skeleton(b, c, V) /\ Keyed(b, c, q, kf)
    <2>1. Typed(b, V) /\ q \in DOMAIN b.n
      BY <1>6, <1>7 DEF Skeleton
    <2>. QED BY ONLY <1>1, <1>4, <2>1, KeyIs
  <1>9. Skeleton(c, u, V) /\ Valued(c, u, q, vf)
    <2>1. Typed(c, V) /\ q \in DOMAIN c.n
      BY <1>6, <1>7, <1>8 DEF Skeleton
    <2>. QED BY ONLY <1>1, <1>5, <2>1, ValOnly
  <1>10. Skeleton(t, u, V)
    BY ONLY <1>6, <1>7, <1>8, <1>9, SkeletonTrans
  <1>11. ASSUME NEW x \in DOMAIN t.n
         PROVE  KeyOf(u, x) = KeyOf(t, Other(f, q, x)) /\ ValOf(u, x) = ValOf(t, Other(f, q, x))
    <2>1. x \in DOMAIN a.n /\ x \in DOMAIN b.n /\ x \in DOMAIN c.n
      BY <1>6, <1>7, <1>8 DEF Skeleton
    <2>2. /\ KeyOf(a, x) = (IF x = f THEN kq ELSE KeyOf(t, x)) /\ ValOf(a, x) = ValOf(t, x)
          /\ KeyOf(b, x) = KeyOf(a, x) /\ ValOf(b, x) = (IF x = f THEN vq ELSE ValOf(a, x))
          /\ KeyOf(c, x) = (IF x = q THEN kf ELSE KeyOf(b, x)) /\ ValOf(c, x) = ValOf(b, x)
          /\ KeyOf(u, x) = KeyOf(c, x) /\ ValOf(u, x) = (IF x = q THEN vf ELSE ValOf(c, x))
      BY ONLY <1>6, <1>7, <1>8, <1>9, <2>1, x \in DOMAIN t.n DEF Keyed, Valued
    <2>3. KeyOf(t, f) = kf /\ KeyOf(t, q) = kq /\ ValOf(t, f) = vf /\ ValOf(t, q) = vq
      BY DEF KeyOf, ValOf
    <2>. QED BY ONLY <2>2, <2>3 DEF Other
  <1>. QED BY <1>10, <1>11

(* The leaf q leaves p, and the first node may change. *)
Parted(t, u, V, p, q, f) ==
  /\ Typed(u, V) /\ DOMAIN u.n = DOMAIN t.n
  /\ u.beg = (IF t.beg = q THEN p ELSE t.beg) /\ u.len = t.len - 1
  /\ \A x \in DOMAIN t.n :
       /\ KeyOf(u, x) = KeyOf(t, Other(f, q, x)) /\ ValOf(u, x) = ValOf(t, Other(f, q, x))
       /\ RedOf(u, x) = RedOf(t, x) /\ ParentOf(u, x) = ParentOf(t, x)
       /\ \A e \in Side : Child(u, x, e) = IF Child(t, x, e) = q THEN NULL ELSE Child(t, x, e)

Rehung(t, p, q) == SetParent(t, Child(t, p, Bit(Child(t, p, 1) = q)), p)
Shorter(t, p, q) == [t EXCEPT !.beg = IF @ = q THEN p ELSE @, !.len = @ - 1]

(* Unlink takes the leaf q from its parent, and f has its contents. *)
LEMMA UnlinkIs ==
  ASSUME NEW V, NEW t, Typed(t, V), NEW lo, NEW hi, Linked(t, lo, hi),
         NEW p, NEW q, NEW f, NEW k, Loose(t, hi, p, q, f, k), NEW u, u = Unlink(t, p, q, f)
  PROVE  Parted(t, u, V, p, q, f)
  <1>. DEFINE D == DOMAIN t.n
  <1>1. /\ p \in D /\ p # FalseRoot /\ q \in D /\ q # FalseRoot /\ f \in D
        /\ Child(t, q, 0) = NULL /\ Child(t, q, 1) = NULL /\ \E e \in Side : Child(t, p, e) = q
    BY DEF Loose, Side
  <1>2. q # NULL /\ NULL \in Int /\ t.beg \in Int /\ t.len \in Int /\ p \in Int
    BY <1>1, LinkedNames, Names DEF Typed, NULL
  <1>3. PICK d : d = Bit(Child(t, p, 1) = q)
    OBVIOUS
  <1>4. d \in Side /\ Child(t, p, d) = q
    BY <1>1, <1>2, <1>3, WhichSide
  <1>5. PICK t1 : t1 = Exchanged(t, f, q)
    OBVIOUS
  <1>6. PICK t2 : t2 = SetChild(t1, p, d, NULL)
    OBVIOUS
  <1>7. PICK c : c = Child(t2, p, Bit(Child(t2, p, 1) = q))
    OBVIOUS
  <1>8. PICK t3 : t3 = SetParent(t2, c, p)
    OBVIOUS
  <1>9. u = [t3 EXCEPT !.beg = IF @ = q THEN p ELSE @, !.len = @ - 1]
    <2>1. Child(t, q, Bit(Child(t, q, 0) = NULL)) = NULL
      BY SMTT(30), <1>1 DEF Bit
    <2>2. Unlink(t, p, q, f) =
            Shorter(Rehung(SetChild(Exchanged(t, f, q), p, Bit(Child(t, p, 1) = q),
                                  Child(t, q, Bit(Child(t, q, 0) = NULL))), p, q), p, q)
      BY ZenonT(60) DEF Unlink, Exchanged, Shorter, Rehung
    <2>3. u = Shorter(Rehung(t2, p, q), p, q)
      BY ONLY <1>3, <1>5, <1>6, <2>1, <2>2, u = Unlink(t, p, q, f)
    <2>4. Rehung(t2, p, q) = SetParent(t2, Child(t2, p, Bit(Child(t2, p, 1) = q)), p)
      BY ONLY DEF Rehung
    <2>5. u = Shorter(t3, p, q)
      BY ONLY <1>7, <1>8, <2>3, <2>4
    <2>. QED BY ONLY <2>5 DEF Shorter
  <1>10. /\ Skeleton(t, t1, V)
         /\ \A x \in D :
              KeyOf(t1, x) = KeyOf(t, Other(f, q, x)) /\ ValOf(t1, x) = ValOf(t, Other(f, q, x))
    BY <1>1, <1>5, ExchangedIs
  <1>11. Typed(t1, V) /\ DOMAIN t1.n = D /\ t1.root = t.root /\ t1.beg = t.beg /\ t1.len = t.len
    BY <1>10 DEF Skeleton
  <1>12. /\ Typed(t2, V) /\ Alike(t1, t2)
         /\ \A x \in DOMAIN t1.n :
              /\ RedOf(t2, x) = RedOf(t1, x) /\ ParentOf(t2, x) = ParentOf(t1, x)
              /\ \A e \in Side : Child(t2, x, e) = IF x = p /\ e = d THEN NULL ELSE Child(t1, x, e)
    <2>1. p \in DOMAIN t1.n /\ NULL \in Int
      BY <1>1, <1>2, <1>11
    <2>. QED BY ONLY <1>4, <1>6, <1>11, <2>1, SetChildIs
  <1>13. DOMAIN t2.n = D
    BY <1>11, <1>12 DEF Alike
  <1>14. \A x \in D : \A e \in Side : Child(t2, x, e) = IF Child(t, x, e) = q THEN NULL ELSE Child(t, x, e)
    <2>. SUFFICES ASSUME NEW x \in D, NEW e \in Side
                  PROVE  Child(t2, x, e) = IF Child(t, x, e) = q THEN NULL ELSE Child(t, x, e)
      OBVIOUS
    <2>1. Child(t2, x, e) = IF x = p /\ e = d THEN NULL ELSE Child(t1, x, e)
      BY <1>11, <1>12
    <2>2. Child(t1, x, e) = Child(t, x, e)
      BY <1>10 DEF Skeleton
    <2>3. Child(t, x, e) = q <=> x = p /\ e = d
      BY <1>1, <1>2, <1>4, OnePlace
    <2>. QED BY <2>1, <2>2, <2>3
  <1>15. c = Child(t2, p, 0)
    <2>1. Child(t2, p, 1) # q
      BY <1>1, <1>2, <1>14 DEF Side
    <2>. QED BY <1>7, <2>1 DEF Bit
  <1>16. c = NULL \/ (c \in D /\ ParentOf(t2, c) = p)
    <2>1. CASE c # NULL
      <3>1. Child(t, p, 0) = c
        BY <1>1, <1>14, <1>15, <2>1 DEF Side
      <3>2. c \in D /\ ParentOf(t, c) = p
        BY <1>1, <2>1, <3>1, ChildOf DEF Side
      <3>3. ParentOf(t2, c) = ParentOf(t1, c) /\ ParentOf(t1, c) = ParentOf(t, c)
        BY <1>10, <1>11, <1>12, <3>2 DEF Skeleton
      <3>. QED BY <3>2, <3>3
    <2>. QED BY <2>1
  <1>17. /\ Typed(t3, V) /\ Alike(t2, t3)
         /\ \A x \in DOMAIN t2.n :
              /\ RedOf(t3, x) = RedOf(t2, x) /\ ParentOf(t3, x) = IF x = c THEN p ELSE ParentOf(t2, x)
              /\ \A e \in Side : Child(t3, x, e) = Child(t2, x, e)
    <2>1. c \in Links(t2) /\ p \in Int
      BY <1>2, <1>13, <1>16 DEF Links
    <2>. QED BY ONLY <1>8, <1>12, <2>1, SetParentIs
  <1>18. /\ u.n = t3.n /\ u.root = t3.root /\ u.beg = (IF t3.beg = q THEN p ELSE t3.beg)
         /\ u.len = t3.len - 1 /\ Typed(u, V)
    <2>1. /\ t3 \in [n : [DOMAIN t3.n -> Field(V)], root : Int, beg : Int, len : Int]
          /\ DOMAIN t3.n \subseteq Key \cup {FalseRoot}
      BY <1>17 DEF Typed
    <2>2. u.n = t3.n /\ u.root = t3.root /\ u.beg = (IF t3.beg = q THEN p ELSE t3.beg) /\ u.len = t3.len - 1
      BY <1>9, <2>1
    <2>3. u = [n |-> t3.n, root |-> t3.root, beg |-> (IF t3.beg = q THEN p ELSE t3.beg), len |-> t3.len - 1]
      BY <1>9, <2>1
    <2>4. t3.n \in [DOMAIN t3.n -> Field(V)] /\ t3.root \in Int /\ t3.beg \in Int /\ t3.len \in Int
      BY <2>1
    <2>5. u \in [n : [DOMAIN u.n -> Field(V)], root : Int, beg : Int, len : Int]
      BY <1>2, <2>2, <2>3, <2>4
    <2>. QED BY <2>1, <2>2, <2>5 DEF Typed
  <1>19. DOMAIN u.n = D /\ t3.beg = t.beg /\ t3.len = t.len
    BY <1>11, <1>12, <1>13, <1>17, <1>18 DEF Alike
  <1>20. ASSUME NEW x \in D
         PROVE  /\ KeyOf(u, x) = KeyOf(t, Other(f, q, x)) /\ ValOf(u, x) = ValOf(t, Other(f, q, x))
                /\ RedOf(u, x) = RedOf(t, x) /\ ParentOf(u, x) = ParentOf(t, x)
    <2>1. KeyOf(u, x) = KeyOf(t3, x) /\ ValOf(u, x) = ValOf(t3, x) /\ RedOf(u, x) = RedOf(t3, x) /\ ParentOf(u, x) = ParentOf(t3, x)
      BY <1>18 DEF KeyOf, ValOf, RedOf, ParentOf
    <2>2. KeyOf(t3, x) = KeyOf(t2, x) /\ ValOf(t3, x) = ValOf(t2, x)
      BY <1>13, <1>17 DEF Alike
    <2>3. KeyOf(t2, x) = KeyOf(t1, x) /\ ValOf(t2, x) = ValOf(t1, x)
      BY <1>11, <1>12 DEF Alike
    <2>4. RedOf(t3, x) = RedOf(t2, x) /\ ParentOf(t3, x) = IF x = c THEN p ELSE ParentOf(t2, x)
      BY <1>13, <1>17
    <2>5. RedOf(t2, x) = RedOf(t1, x) /\ ParentOf(t2, x) = ParentOf(t1, x)
      BY <1>11, <1>12
    <2>6. RedOf(t1, x) = RedOf(t, x) /\ ParentOf(t1, x) = ParentOf(t, x)
      BY <1>10 DEF Skeleton
    <2>7. ParentOf(t3, x) = ParentOf(t2, x)
      BY <1>16, <2>4, LinkedNames
    <2>. QED BY <1>10, <2>1, <2>2, <2>3, <2>4, <2>5, <2>6, <2>7
  <1>21. \A x \in D : \A e \in Side : Child(u, x, e) = IF Child(t, x, e) = q THEN NULL ELSE Child(t, x, e)
    <2>. SUFFICES ASSUME NEW x \in D, NEW e \in Side
                  PROVE  Child(u, x, e) = Child(t2, x, e)
      BY <1>14
    <2>1. Child(u, x, e) = Child(t3, x, e)
      BY <1>18 DEF Child
    <2>. QED BY <1>13, <1>17, <2>1
  <1>. QED BY <1>18, <1>19, <1>20, <1>21 DEF Parted

(* w is t without the leaf q, whose contents f has now *)
Pruned(t, w, V, q, f) ==
  /\ Typed(w, V) /\ DOMAIN w.n = DOMAIN t.n \ {q}
  /\ \A x \in DOMAIN t.n \ {q} :
       /\ KeyOf(w, x) = KeyOf(t, IF x = f THEN q ELSE x)
       /\ ValOf(w, x) = ValOf(t, IF x = f THEN q ELSE x)
       /\ RedOf(w, x) = RedOf(t, x) /\ ParentOf(w, x) = ParentOf(t, x)
       /\ \A e \in Side : Child(w, x, e) = IF Child(t, x, e) = q THEN NULL ELSE Child(t, x, e)

(* The key of q takes the place of k, also as a bound. *)
Instead(t, q, k, i) == IF i = k THEN KeyOf(t, q) ELSE i

(* No other key lies between that of q and k. *)
LEMMA NoneBetween ==
  ASSUME NEW t, NEW lo, NEW hi, Linked(t, lo, hi), NEW p, NEW q, NEW f, NEW k,
         Loose(t, hi, p, q, f, k)
  PROVE  /\ KeyOf(t, q) <= k
         /\ \A x \in DOMAIN t.n \ {q} : KeyOf(t, x) < KeyOf(t, q) \/ KeyOf(t, x) >= hi[q]
         /\ f # q => lo[f] < KeyOf(t, q) /\ hi[q] = k
  <1>1. /\ q \in DOMAIN t.n /\ f \in DOMAIN t.n /\ KeyOf(t, f) = k /\ Child(t, q, 1) = NULL
        /\ q = f \/ hi[q] = k
    BY DEF Loose, Side
  <1>2. \A x \in DOMAIN t.n : /\ lo[x] \in Int /\ hi[x] \in Int /\ KeyOf(t, x) \in Int
                              /\ lo[x] < KeyOf(t, x) /\ KeyOf(t, x) < hi[x]
    BY NodeFacts
  <1>3. KeyOf(t, q) <= k
    BY <1>1, <1>2
  <1>4. ASSUME NEW x \in DOMAIN t.n \ {q}
        PROVE  KeyOf(t, x) < KeyOf(t, q) \/ KeyOf(t, x) >= hi[q]
    <2>1. KeyOf(t, x) # KeyOf(t, q)
      BY <1>1, KeysDiffer
    <2>2. ~(KeyOf(t, q) < KeyOf(t, x) /\ KeyOf(t, x) < hi[q])
      <3>1. Lower(t, lo, q, 1) = KeyOf(t, q) /\ Upper(t, hi, q, 1) = hi[q] /\ 1 \in Side
        BY DEF Lower, Upper, Side
      <3>. QED BY <1>1, <3>1, SideHasChild
    <2>. QED BY <1>1, <1>2, <2>1, <2>2
  <1>5. ASSUME f # q PROVE lo[f] < KeyOf(t, q)
    <2>1. Placed(t, lo, hi, f, q) /\ hi[q] = k
      BY <1>1, <1>5, Apart
    <2>2. CASE \E d \in Side : Within(t, lo, hi, f, d, q)
      <3>1. PICK d \in Side : Lower(t, lo, f, d) <= lo[q]
        BY <2>2 DEF Within
      <3>2. Lower(t, lo, f, d) = lo[f] \/ Lower(t, lo, f, d) = KeyOf(t, f)
        BY DEF Lower
      <3>. QED BY <1>1, <1>2, <3>1, <3>2
    <2>3. CASE \E d \in Side : Within(t, lo, hi, q, d, f)
      <3>1. PICK d \in Side : hi[f] <= Upper(t, hi, q, d)
        BY <2>3 DEF Within
      <3>2. Upper(t, hi, q, d) = hi[q] \/ Upper(t, hi, q, d) = KeyOf(t, q)
        BY DEF Upper
      <3>. QED BY <1>1, <1>2, <2>1, <3>1, <3>2
    <2>4. CASE Clear(lo, hi, f, q)
      BY <1>1, <1>2, <2>1, <2>4 DEF Clear
    <2>. QED BY <1>5, <2>1, <2>2, <2>3, <2>4 DEF Placed
  <1>. QED BY <1>1, <1>3, <1>4, <1>5

(* Without the leaf the tree is linked: no key lies between those          *)
(* exchanged.                                                              *)
LEMMA PrunedLinked ==
  ASSUME NEW V, NEW t, Typed(t, V), NEW lo, NEW hi, Linked(t, lo, hi), NEW p, NEW q, NEW f, NEW k,
         Loose(t, hi, p, q, f, k), NEW w, Pruned(t, w, V, q, f)
  PROVE  \E l2, h2 : Linked(w, l2, h2)
  <1>. DEFINE D == DOMAIN t.n \ {q}
  <1>1. /\ q \in DOMAIN t.n /\ q # FalseRoot /\ f \in DOMAIN t.n /\ f # FalseRoot /\ KeyOf(t, f) = k
        /\ \A e \in Side : Child(t, q, e) = NULL
    BY DEF Loose
  <1>2. /\ NULL \notin DOMAIN t.n /\ FalseRoot \in D /\ NKey \in Nat
        /\ \A x \in DOMAIN t.n : /\ lo[x] \in Int /\ hi[x] \in Int /\ KeyOf(t, x) \in Int
                                 /\ lo[x] < KeyOf(t, x) /\ KeyOf(t, x) < hi[x]
    BY <1>1, LinkedNames, NodeFacts
  <1>3. /\ KeyOf(t, q) \in Key /\ k \in Key /\ KeyOf(t, q) >= 1 /\ KeyOf(t, q) <= NKey /\ k >= 1 /\ k <= NKey
        /\ KeyOf(t, q) \in Int /\ k \in Int
    BY <1>1, LinkedNames DEF Linked
  <1>4. PICK S : S = [i \in Int |-> Instead(t, q, k, i)]
    OBVIOUS
  <1>5. /\ \A i \in Int : S[i] \in Int /\ (i # k => S[i] = i) /\ (i = k => S[i] = KeyOf(t, q))
    BY <1>3, <1>4 DEF Instead
  <1>6. PICK l2, h2 : l2 = [x \in D |-> S[lo[x]]] /\ h2 = [x \in D |-> S[hi[x]]]
    OBVIOUS
  <1>7. \A x \in D : /\ l2[x] = S[lo[x]] /\ h2[x] = S[hi[x]] /\ KeyOf(w, x) = S[KeyOf(t, x)]
    <2>. SUFFICES ASSUME NEW x \in D PROVE KeyOf(w, x) = S[KeyOf(t, x)]
      BY <1>6
    <2>1. CASE x = f
      BY <1>1, <1>2, <1>3, <1>5, <2>1 DEF Pruned
    <2>2. CASE x # f
      <3>1. KeyOf(t, x) # k
        BY <1>1, <2>2, KeysDiffer
      <3>. QED BY <1>2, <1>5, <2>2, <3>1 DEF Pruned
    <2>. QED BY <2>1, <2>2
  <1>8. /\ KeyOf(t, q) <= k
        /\ \A x \in D : KeyOf(t, x) < KeyOf(t, q) \/ KeyOf(t, x) >= hi[q]
        /\ f # q => lo[f] < KeyOf(t, q) /\ hi[q] = k
    BY NoneBetween
  <1>9. ASSUME NEW x \in D
        PROVE  KeyOf(w, x) \in Int /\ l2[x] < KeyOf(w, x) /\ KeyOf(w, x) < h2[x]
    <2>1. /\ l2[x] = S[lo[x]] /\ h2[x] = S[hi[x]] /\ KeyOf(w, x) = S[KeyOf(t, x)]
      BY <1>7
    <2>2. /\ lo[x] \in Int /\ hi[x] \in Int /\ KeyOf(t, x) \in Int
          /\ lo[x] < KeyOf(t, x) /\ KeyOf(t, x) < hi[x]
      BY <1>2
    <2>3. CASE x = f
      <3>1. KeyOf(t, x) = k /\ f # q /\ lo[x] < KeyOf(t, q) /\ lo[x] # k /\ hi[x] # k
        BY <1>1, <1>3, <1>8, <2>2, <2>3
      <3>. QED BY <1>3, <1>5, <1>8, <2>1, <2>2, <3>1
    <2>4. CASE x # f
      <3>1. KeyOf(t, x) # k /\ S[KeyOf(t, x)] = KeyOf(t, x)
        <4>1. KeyOf(t, x) # k
          BY <1>1, <2>4, KeysDiffer
        <4>. QED BY <1>5, <2>2, <4>1
      <3>2. S[lo[x]] <= lo[x]
        BY <1>3, <1>5, <1>8, <2>2
      <3>3. S[lo[x]] \in Int /\ S[hi[x]] \in Int
        BY <1>5, <2>2
      <3>4. KeyOf(t, x) < S[hi[x]]
        <4>1. CASE hi[x] # k
          BY <1>5, <2>2, <4>1
        <4>2. CASE hi[x] = k
          <5>1. S[hi[x]] = KeyOf(t, q)
            BY <1>3, <1>5, <4>2
          <5>2. hi[q] >= k
            <6>1. f = q => hi[q] > k
              BY <1>1, <1>2
            <6>. QED BY <1>1, <1>2, <1>3, <1>8, <6>1
          <5>3. ~(KeyOf(t, x) >= hi[q])
            BY <1>1, <1>2, <1>3, <2>2, <4>2, <5>2
          <5>. QED BY <1>8, <5>1, <5>3
        <4>. QED BY <4>1, <4>2
      <3>. QED BY <2>1, <2>2, <3>1, <3>2, <3>3, <3>4
    <2>. QED BY <2>3, <2>4
  <1>10. /\ KeyOf(w, FalseRoot) = 0 /\ l2[FalseRoot] = -1 /\ h2[FalseRoot] = NKey + 1
    <2>1. KeyOf(t, FalseRoot) = 0 /\ lo[FalseRoot] = -1 /\ hi[FalseRoot] = NKey + 1
      BY DEF Linked
    <2>2. S[0] = 0 /\ S[-1] = -1 /\ S[NKey + 1] = NKey + 1
      BY <1>2, <1>3, <1>5
    <2>. QED BY <1>2, <1>7, <2>1, <2>2
  <1>11. ASSUME NEW x \in D \ {FalseRoot}
         PROVE  KeyOf(w, x) \in Key /\ 0 <= l2[x] /\ h2[x] <= NKey + 1
    <2>1. KeyOf(t, x) \in Key /\ 0 <= lo[x] /\ hi[x] <= NKey + 1
      BY DEF Linked
    <2>2. lo[x] \in Int /\ hi[x] \in Int /\ KeyOf(t, x) \in Int
      BY <1>2
    <2>3. KeyOf(w, x) \in Key
      BY <1>3, <1>5, <1>7, <2>1, <2>2
    <2>4. 0 <= l2[x] /\ h2[x] <= NKey + 1
      BY <1>2, <1>3, <1>5, <1>7, <2>1, <2>2
    <2>. QED BY <2>3, <2>4
  <1>12. ASSUME NEW x \in D, NEW d \in Side
         PROVE  /\ Child(w, x, d) \in Links(w)
                /\ Child(w, x, d) # NULL =>
                     /\ l2[Child(w, x, d)] = Lower(w, l2, x, d)
                     /\ h2[Child(w, x, d)] = Upper(w, h2, x, d)
                     /\ x # FalseRoot => ParentOf(w, Child(w, x, d)) = x
    <2>1. PICK c : c = Child(t, x, d)
      OBVIOUS
    <2>2. Child(w, x, d) = IF c = q THEN NULL ELSE c
      BY <2>1 DEF Pruned
    <2>3. c \in DOMAIN t.n \cup {NULL}
      BY <2>1 DEF Linked, Links
    <2>4. DOMAIN w.n = D
      BY DEF Pruned
    <2>5. Child(w, x, d) \in Links(w)
      BY <2>2, <2>3, <2>4 DEF Links
    <2>6. ASSUME Child(w, x, d) # NULL
          PROVE  /\ l2[c] = Lower(w, l2, x, d) /\ h2[c] = Upper(w, h2, x, d)
                 /\ x # FalseRoot => ParentOf(w, c) = x
      <3>1. c # q /\ c # NULL /\ c \in D
        BY <2>2, <2>3, <2>6
      <3>2. /\ lo[c] = Lower(t, lo, x, d) /\ hi[c] = Upper(t, hi, x, d)
            /\ x # FalseRoot => ParentOf(t, c) = x
        BY <2>1, <3>1, ChildOf
      <3>3. ParentOf(w, c) = ParentOf(t, c)
        BY <3>1 DEF Pruned
      <3>4. l2[c] = S[lo[c]] /\ h2[c] = S[hi[c]] /\ l2[x] = S[lo[x]] /\ h2[x] = S[hi[x]]
            /\ KeyOf(w, x) = S[KeyOf(t, x)]
        BY <1>7, <3>1
      <3>. QED BY <3>2, <3>3, <3>4 DEF Lower, Upper
    <2>7. Child(w, x, d) # NULL => Child(w, x, d) = c
      BY <2>2
    <2>. QED BY <2>5, <2>6, <2>7
  <1>13. ASSUME NEW x \in D \ {FalseRoot}
         PROVE  \/ x = Child(w, FalseRoot, 1)
                \/ /\ ParentOf(w, x) \in D \ {FalseRoot}
                   /\ \E d \in Side : Child(w, ParentOf(w, x), d) = x
    <2>1. CASE x = Child(t, FalseRoot, 1)
      BY <1>2, <2>1 DEF Pruned, Side
    <2>2. CASE /\ ParentOf(t, x) \in DOMAIN t.n \ {FalseRoot}
               /\ \E d \in Side : Child(t, ParentOf(t, x), d) = x
      <3>1. PICK y : y = ParentOf(t, x)
        OBVIOUS
      <3>2. PICK d \in Side : Child(t, y, d) = x
        BY <2>2, <3>1
      <3>3. y # q
        BY <1>1, <1>2, <3>2
      <3>4. y \in D \ {FalseRoot} /\ ParentOf(w, x) = y
        BY <2>2, <3>1, <3>3 DEF Pruned
      <3>5. Child(w, y, d) = x
        BY <3>2, <3>4 DEF Pruned
      <3>. QED BY <3>4, <3>5
    <2>. QED BY <2>1, <2>2 DEF Linked
  <1>14. l2 \in [D -> Int] /\ h2 \in [D -> Int]
    BY <1>2, <1>5, <1>6
  <1>15. DOMAIN w.n = D /\ D \subseteq Key \cup {FalseRoot}
    BY DEF Pruned, Linked
  <1>16. Linked(w, l2, h2)
    <2>. HIDE DEF D
    <2>. QED BY ONLY <1>2, <1>9, <1>10, <1>11, <1>12, <1>13, <1>14, <1>15 DEF Linked
  <1>. QED BY <1>16

(* Without a red leaf the colours are what they were. *)
LEMMA PrunedColours ==
  ASSUME NEW V, NEW t, Typed(t, V), NEW lo, NEW hi, NEW bh, Sound(t, lo, hi, bh, NULL),
         NEW p, NEW q, NEW f, NEW k, Loose(t, hi, p, q, f, k), NEW w, Pruned(t, w, V, q, f)
  PROVE  RedRule(w, NULL) /\ \E b2 : Balanced(w, b2)
  <1>. DEFINE D == DOMAIN t.n \ {q}
  <1>1. q \in DOMAIN t.n /\ q # FalseRoot /\ RedOf(t, q) /\ \A e \in Side : Child(t, q, e) = NULL
    BY DEF Loose
  <1>2. Linked(t, lo, hi) /\ Balanced(t, bh) /\ RedRule(t, NULL)
    BY DEF Sound
  <1>3. NULL \notin DOMAIN t.n /\ DOMAIN w.n = D /\ bh \in [DOMAIN t.n -> Nat]
    BY <1>2, LinkedNames DEF Pruned, Balanced
  <1>4. bh[q] = 0
    <2>1. bh[q] = Tall(bh, Child(t, q, 0)) + Bit(~RedOf(t, q)) /\ Child(t, q, 0) = NULL
      BY <1>1, <1>2 DEF Balanced, Side
    <2>2. Tall(bh, Child(t, q, 0)) = 0 /\ Bit(~RedOf(t, q)) = 0
      BY <1>1, <2>1 DEF Tall, Bit
    <2>. QED BY <2>1, <2>2
  <1>5. PICK b2 : b2 = [x \in D |-> bh[x]]
    OBVIOUS
  <1>6. ASSUME NEW x \in D \ {FalseRoot}, NEW d \in Side
        PROVE  /\ b2[x] = Tall(b2, Child(w, x, d)) + Bit(~RedOf(w, x))
               /\ RedOf(w, x) /\ IsRed(w, Child(w, x, d)) => Child(w, x, d) = NULL
    <2>1. PICK c : c = Child(t, x, d)
      OBVIOUS
    <2>2. Child(w, x, d) = IF c = q THEN NULL ELSE c
      BY <2>1 DEF Pruned
    <2>3. c \in DOMAIN t.n \cup {NULL}
      BY <1>2, <2>1 DEF Linked, Links
    <2>4. RedOf(w, x) = RedOf(t, x)
      BY DEF Pruned
    <2>5. bh[x] = Tall(bh, c) + Bit(~RedOf(t, x)) /\ b2[x] = bh[x]
      BY <1>2, <1>5, <2>1 DEF Balanced
    <2>6. Tall(b2, Child(w, x, d)) = Tall(bh, c)
      BY <1>1, <1>3, <1>4, <1>5, <2>2, <2>3 DEF Tall
    <2>7. RedOf(t, x) /\ IsRed(t, c) => c = NULL
      BY <1>2, <2>1 DEF RedRule
    <2>8. ASSUME IsRed(w, Child(w, x, d)) PROVE IsRed(t, c)
      <3>1. c # q /\ c # NULL /\ RedOf(w, c)
        BY <2>2, <2>8, IsRedIs
      <3>2. RedOf(w, c) = RedOf(t, c)
        BY <2>3, <3>1 DEF Pruned
      <3>. QED BY <3>1, <3>2, IsRedIs
    <2>. QED BY <2>2, <2>4, <2>5, <2>6, <2>7, <2>8
  <1>7. Balanced(w, b2)
    <2>1. b2 \in [D -> Nat]
      BY <1>3, <1>5
    <2>. QED BY <1>3, <1>6, <2>1 DEF Balanced
  <1>8. RedRule(w, NULL)
    BY <1>3, <1>6 DEF RedRule
  <1>. QED BY <1>7, <1>8

(* So that it is sound. *)
LEMMA PrunedSound ==
  ASSUME NEW V, NEW t, Typed(t, V), NEW lo, NEW hi, NEW bh, Sound(t, lo, hi, bh, NULL),
         NEW p, NEW q, NEW f, NEW k, Loose(t, hi, p, q, f, k), NEW w, Pruned(t, w, V, q, f)
  PROVE  \E l2, h2, b2 : Sound(w, l2, h2, b2, NULL)
  <1>1. Linked(t, lo, hi)
    BY DEF Sound
  <1>2. PICK l2, h2 : Linked(w, l2, h2)
    BY <1>1, PrunedLinked
  <1>3. RedRule(w, NULL) /\ \E b2 : Balanced(w, b2)
    BY PrunedColours
  <1>. QED BY <1>2, <1>3 DEF Sound

-----------------------------------------------------------------------------
(***************************************************************************)
(* The nodes below a node: those within its interval.                      *)
(***************************************************************************)
Belows(g, t) ==
  g = [x \in Links(t) |->
         IF x = NULL THEN {} ELSE {x} \cup g[Child(t, x, 0)] \cup g[Child(t, x, 1)]]

(* Below by the function that _free_node computes. *)
LEMMA BelowIs == ASSUME NEW t, NEW q PROVE Below(t, q) = (CHOOSE g : Belows(g, t))[q]
  BY DEF Below, Belows

Span(t, lo, hi, x) ==
  IF x = NULL THEN {} ELSE {y \in DOMAIN t.n : lo[x] <= lo[y] /\ hi[y] <= hi[x]}

(* The nodes within an interval are the node that has it and those within  *)
(* its two sides.                                                          *)
LEMMA SpanSplits ==
  ASSUME NEW t, NEW lo, NEW hi, Linked(t, lo, hi), NEW x \in DOMAIN t.n
  PROVE  Span(t, lo, hi, x) =
           {x} \cup Span(t, lo, hi, Child(t, x, 0)) \cup Span(t, lo, hi, Child(t, x, 1))
  <1>1. /\ NULL \notin DOMAIN t.n
        /\ \A y \in DOMAIN t.n : /\ lo[y] \in Int /\ hi[y] \in Int /\ KeyOf(t, y) \in Int
                                 /\ lo[y] < KeyOf(t, y) /\ KeyOf(t, y) < hi[y]
    BY LinkedNames, NodeFacts
  <1>2. ASSUME NEW d \in Side, NEW y, y \in Span(t, lo, hi, Child(t, x, d))
        PROVE  y \in Span(t, lo, hi, x)
    <2>1. PICK c : c = Child(t, x, d)
      OBVIOUS
    <2>2. c # NULL
      BY <1>2, <2>1 DEF Span
    <2>3. c \in DOMAIN t.n /\ lo[x] <= lo[c] /\ hi[c] <= hi[x]
      BY <2>1, <2>2, ChildOf
    <2>4. y \in DOMAIN t.n /\ lo[c] <= lo[y] /\ hi[y] <= hi[c]
      BY <1>2, <2>1, <2>2 DEF Span
    <2>5. lo[x] <= lo[y] /\ hi[y] <= hi[x]
      <3>1. lo[x] \in Int /\ lo[c] \in Int /\ lo[y] \in Int /\ hi[x] \in Int /\ hi[c] \in Int /\ hi[y] \in Int
        BY <1>1, <2>3, <2>4
      <3>. QED BY <2>3, <2>4, <3>1
    <2>. QED BY <1>1, <2>4, <2>5 DEF Span
  <1>3. x \in Span(t, lo, hi, x)
    BY <1>1 DEF Span
  <1>4. ASSUME NEW y, y \in Span(t, lo, hi, x), y # x
        PROVE  \E d \in Side : y \in Span(t, lo, hi, Child(t, x, d))
    <2>1. y \in DOMAIN t.n /\ lo[x] <= lo[y] /\ hi[y] <= hi[x]
      BY <1>1, <1>4 DEF Span
    <2>2. lo[x] \in Int /\ lo[y] \in Int /\ hi[x] \in Int /\ hi[y] \in Int
          /\ lo[x] < KeyOf(t, x) /\ KeyOf(t, x) < hi[x] /\ lo[y] < KeyOf(t, y) /\ KeyOf(t, y) < hi[y]
          /\ KeyOf(t, x) \in Int /\ KeyOf(t, y) \in Int
      BY <1>1, <2>1
    <2>3. ~Clear(lo, hi, x, y)
      BY <2>1, <2>2 DEF Clear
    <2>4. ~\E d \in Side : Within(t, lo, hi, y, d, x)
      <3>. SUFFICES ASSUME NEW d \in Side, Within(t, lo, hi, y, d, x) PROVE FALSE
        OBVIOUS
      <3>1. Lower(t, lo, y, d) <= lo[x] /\ hi[x] <= Upper(t, hi, y, d)
        BY DEF Within
      <3>2. CASE d = 0
        BY <2>1, <2>2, <3>1, <3>2 DEF Lower, Upper
      <3>3. CASE d = 1
        BY <2>1, <2>2, <3>1, <3>3 DEF Lower, Upper
      <3>. QED BY <3>2, <3>3 DEF Side
    <2>5. PICK d \in Side : Within(t, lo, hi, x, d, y)
      BY <1>4, <2>1, <2>3, <2>4, Apart DEF Placed
    <2>6. Lower(t, lo, x, d) <= lo[y] /\ hi[y] <= Upper(t, hi, x, d)
      BY <2>5 DEF Within
    <2>7. PICK c : c = Child(t, x, d)
      OBVIOUS
    <2>8. Lower(t, lo, x, d) \in Int /\ Upper(t, hi, x, d) \in Int
      BY <2>2 DEF Lower, Upper
    <2>9. c # NULL
      BY <2>1, <2>2, <2>6, <2>7, <2>8, SideHasChild
    <2>10. lo[c] = Lower(t, lo, x, d) /\ hi[c] = Upper(t, hi, x, d)
      BY <2>7, <2>9, ChildOf
    <2>. QED BY <2>1, <2>6, <2>7, <2>9, <2>10 DEF Span
  <1>. QED BY <1>2, <1>3, <1>4 DEF Side

(* t is the tree h without its helper, with some leaves Q besides. *)
Laid(t, h, Q) ==
  /\ DOMAIN t.n = (DOMAIN h.n \ {FalseRoot}) \cup Q
  /\ NULL \notin Q /\ \A x \in Q : x \notin DOMAIN h.n /\ \A e \in Side : Child(t, x, e) = NULL
  /\ \A x \in DOMAIN h.n \ {FalseRoot} : \A e \in Side : Child(t, x, e) = Child(h, x, e)

(* There is such a function: the nodes within the interval of each node. *)
LEMMA BelowsExist ==
  ASSUME NEW h, NEW lo, NEW hi, Linked(h, lo, hi), NEW t, NEW Q, Laid(t, h, Q)
  PROVE  \E g : Belows(g, t)
  <1>. DEFINE g == [x \in Links(t) |-> IF x \in Q THEN {x} ELSE Span(h, lo, hi, x)]
  <1>1. NULL \notin DOMAIN h.n
    BY LinkedNames
  <1>2. ASSUME NEW x \in Links(t)
        PROVE  g[x] = IF x = NULL THEN {} ELSE {x} \cup g[Child(t, x, 0)] \cup g[Child(t, x, 1)]
    <2>1. NULL \in Links(t) /\ g[NULL] = {}
      BY DEF Links, Laid, Span
    <2>2. CASE x \in Q
      <3>1. Child(t, x, 0) = NULL /\ Child(t, x, 1) = NULL /\ x # NULL /\ g[x] = {x}
        BY <2>2 DEF Laid, Side
      <3>. QED BY <2>1, <3>1
    <2>3. CASE x = NULL
      BY <2>1, <2>3
    <2>4. CASE x \notin Q /\ x # NULL
      <3>1. x \in DOMAIN h.n \ {FalseRoot}
        BY <2>4 DEF Laid, Links
      <3>2. PICK c0, c1 : c0 = Child(h, x, 0) /\ c1 = Child(h, x, 1)
        OBVIOUS
      <3>3. Child(t, x, 0) = c0 /\ Child(t, x, 1) = c1
        BY <3>1, <3>2 DEF Laid, Side
      <3>4. ASSUME NEW c, NEW d \in Side, c = Child(h, x, d)
            PROVE  c \in Links(t) /\ c \notin Q
        <4>1. CASE c = NULL
          BY <4>1 DEF Links, Laid
        <4>2. CASE c # NULL
          <5>1. c \in DOMAIN h.n /\ c # FalseRoot
            BY <3>1, <3>4, <4>2, ChildOf
          <5>. QED BY <5>1 DEF Links, Laid
        <4>. QED BY <4>1, <4>2
      <3>5. 0 \in Side /\ 1 \in Side
        BY DEF Side
      <3>6. c0 \in Links(t) /\ c0 \notin Q /\ c1 \in Links(t) /\ c1 \notin Q
        BY <3>2, <3>4, <3>5
      <3>7. g[c0] = Span(h, lo, hi, c0) /\ g[c1] = Span(h, lo, hi, c1) /\ g[x] = Span(h, lo, hi, x)
        BY <2>4, <3>6
      <3>8. Span(h, lo, hi, x) = {x} \cup Span(h, lo, hi, c0) \cup Span(h, lo, hi, c1)
        BY <3>1, <3>2, SpanSplits
      <3>. HIDE DEF g
      <3>. QED BY <2>4, <3>3, <3>7, <3>8
    <2>. QED BY <2>2, <2>3, <2>4
  <1>3. g = [x \in Links(t) |-> g[x]]
    OBVIOUS
  <1>. HIDE DEF g
  <1>4. Belows(g, t)
    BY <1>2, <1>3 DEF Belows
  <1>. QED BY <1>4

(* Below satisfies its recursion. *)
LEMMA BelowSolved ==
  ASSUME NEW h, NEW lo, NEW hi, Linked(h, lo, hi), NEW t, NEW Q, Laid(t, h, Q)
  PROVE  \A x \in Links(t) :
           Below(t, x) = IF x = NULL THEN {} ELSE {x} \cup Below(t, Child(t, x, 0)) \cup Below(t, Child(t, x, 1))
  <1>1. PICK g : g = CHOOSE f : Belows(f, t)
    OBVIOUS
  <1>2. Belows(g, t)
    <2>1. \E f : Belows(f, t)
      BY BelowsExist
    <2>. QED BY <1>1, <2>1, Zenon
  <1>3. \A x : Below(t, x) = g[x]
    BY <1>1, BelowIs
  <1>4. \A x \in Links(t) : g[x] = IF x = NULL THEN {} ELSE {x} \cup g[Child(t, x, 0)] \cup g[Child(t, x, 1)]
    BY <1>2 DEF Belows
  <1>. QED BY ONLY <1>3, <1>4

(* Below a leaf there is only the leaf. *)
LEMMA BelowLeaf ==
  ASSUME NEW h, NEW lo, NEW hi, Linked(h, lo, hi), NEW t, NEW Q, Laid(t, h, Q)
  PROVE  /\ Below(t, NULL) = {}
         /\ \A x \in Q : Below(t, x) = {x}
  <1>1. NULL \in Links(t) /\ \A x \in Q : x \in Links(t) /\ x # NULL /\ Child(t, x, 0) = NULL /\ Child(t, x, 1) = NULL
    BY DEF Links, Laid, Side
  <1>2. Below(t, NULL) = {}
    BY <1>1, BelowSolved
  <1>3. ASSUME NEW x \in Q PROVE Below(t, x) = {x}
    <2>1. Below(t, x) = {x} \cup Below(t, Child(t, x, 0)) \cup Below(t, Child(t, x, 1))
      BY <1>1, BelowSolved
    <2>. QED BY <1>1, <1>2, <2>1
  <1>. QED BY <1>2, <1>3

(* By induction on how wide the interval is. *)
LEMMA BelowSpan ==
  ASSUME NEW h, NEW lo, NEW hi, Linked(h, lo, hi), NEW t, NEW Q, Laid(t, h, Q)
  PROVE  \A x \in DOMAIN h.n \ {FalseRoot} : Below(t, x) = Span(h, lo, hi, x)
  <1>. DEFINE T == {n \in Nat : \A x \in DOMAIN h.n \ {FalseRoot} :
                                  hi[x] - lo[x] <= n => Below(t, x) = Span(h, lo, hi, x)}
  <1>1. /\ NULL \notin DOMAIN h.n
        /\ \A y \in DOMAIN h.n : /\ lo[y] \in Int /\ hi[y] \in Int /\ KeyOf(h, y) \in Int
                                 /\ lo[y] < KeyOf(h, y) /\ KeyOf(h, y) < hi[y]
    BY LinkedNames, NodeFacts
  <1>2. 0 \in T
    <2>. SUFFICES ASSUME NEW x \in DOMAIN h.n \ {FalseRoot}, hi[x] - lo[x] <= 0 PROVE FALSE
      OBVIOUS
    <2>1. lo[x] \in Int /\ hi[x] \in Int /\ KeyOf(h, x) \in Int /\ lo[x] < KeyOf(h, x) /\ KeyOf(h, x) < hi[x]
      BY <1>1
    <2>. QED BY <2>1
  <1>3. ASSUME NEW n \in Nat, n \in T PROVE n + 1 \in T
    <2>. SUFFICES ASSUME NEW x \in DOMAIN h.n \ {FalseRoot}, hi[x] - lo[x] <= n + 1
                  PROVE  Below(t, x) = Span(h, lo, hi, x)
      OBVIOUS
    <2>1. ASSUME NEW d \in Side PROVE Below(t, Child(t, x, d)) = Span(h, lo, hi, Child(h, x, d))
      <3>1. PICK c : c = Child(h, x, d)
        OBVIOUS
      <3>2. Child(t, x, d) = c
        BY <3>1 DEF Laid
      <3>3. CASE c = NULL
        BY <3>1, <3>2, <3>3, BelowLeaf DEF Span
      <3>4. CASE c # NULL
        <4>1. c \in DOMAIN h.n /\ c # FalseRoot /\ hi[c] - lo[c] < hi[x] - lo[x]
          BY <3>1, <3>4, ChildOf
        <4>2. lo[c] \in Int /\ hi[c] \in Int /\ lo[x] \in Int /\ hi[x] \in Int
          BY <1>1, <4>1
        <4>3. hi[c] - lo[c] <= n
          BY <4>1, <4>2
        <4>. QED BY <1>3, <3>1, <3>2, <4>1, <4>3
      <3>. QED BY <3>3, <3>4
    <2>2. x \in Links(t) /\ x # NULL /\ 0 \in Side /\ 1 \in Side
      BY <1>1 DEF Laid, Links, Side
    <2>3. Below(t, x) = {x} \cup Below(t, Child(t, x, 0)) \cup Below(t, Child(t, x, 1))
      BY <2>2, BelowSolved
    <2>4. Span(h, lo, hi, x) = {x} \cup Span(h, lo, hi, Child(h, x, 0)) \cup Span(h, lo, hi, Child(h, x, 1))
      BY SpanSplits
    <2>. QED BY <2>1, <2>2, <2>3, <2>4
  <1>. HIDE DEF T
  <1>4. \A n \in Nat : n \in T
    BY <1>2, <1>3, Induction
  <1>. SUFFICES ASSUME NEW x \in DOMAIN h.n \ {FalseRoot} PROVE Below(t, x) = Span(h, lo, hi, x)
    OBVIOUS
  <1>5. hi[x] - lo[x] \in Nat
    <2>1. lo[x] \in Int /\ hi[x] \in Int /\ KeyOf(h, x) \in Int /\ lo[x] < KeyOf(h, x) /\ KeyOf(h, x) < hi[x]
      BY <1>1
    <2>. QED BY <2>1
  <1>6. PICK m \in Nat : m = hi[x] - lo[x]
    BY <1>5
  <1>7. hi[x] - lo[x] <= m /\ m \in T
    BY <1>4, <1>6
  <1>. QED BY <1>7 DEF T

(* u looks like t, apart from values, the first node and the length. *)
LooksLike(t, u) ==
  /\ DOMAIN u.n = DOMAIN t.n /\ u.root = t.root
  /\ \A x \in DOMAIN t.n :
       /\ KeyOf(u, x) = KeyOf(t, x) /\ ParentOf(u, x) = ParentOf(t, x)
       /\ RedOf(u, x) <=> RedOf(t, x)
       /\ \A e \in Side : Child(u, x, e) = Child(t, x, e)

(* The shape of a tree depends on links, keys and colours only. *)
LEMMA ShapedAlso ==
  ASSUME NEW t, NEW lo, NEW hi, NEW bh, Shaped(t, lo, hi, bh), t.root # NULL, NEW u, LooksLike(t, u)
  PROVE  Shaped(u, lo, hi, bh)
  <1>1. /\ DOMAIN u.n = DOMAIN t.n /\ u.root = t.root /\ Links(u) = Links(t)
        /\ Rooted(t, lo, hi) /\ t.root \in DOMAIN t.n
    BY DEF LooksLike, Links, Shaped, Rooted
  <1>2. ASSUME NEW x \in DOMAIN t.n
        PROVE  /\ KeyOf(u, x) = KeyOf(t, x) /\ ParentOf(u, x) = ParentOf(t, x)
               /\ RedOf(u, x) <=> RedOf(t, x)
               /\ Bit(~RedOf(u, x)) = Bit(~RedOf(t, x))
               /\ \A e \in Side : Child(u, x, e) = Child(t, x, e)
    BY DEF LooksLike, Bit
  <1>3. ASSUME NEW x \in DOMAIN t.n, NEW d \in Side
        PROVE  /\ Child(u, x, d) \in Links(u)
               /\ Hung(u, lo, hi, x, d)
               /\ bh[x] = Tall(bh, Child(u, x, d)) + Bit(~RedOf(u, x))
               /\ ~(RedOf(u, x) /\ IsRed(u, Child(u, x, d)))
    <2>1. PICK c : c = Child(t, x, d)
      OBVIOUS
    <2>2. Child(u, x, d) = c
      BY <1>2, <2>1
    <2>3. /\ c \in Links(t) /\ Hung(t, lo, hi, x, d) /\ bh[x] = Tall(bh, c) + Bit(~RedOf(t, x))
          /\ ~(RedOf(t, x) /\ IsRed(t, c))
      BY <2>1 DEF Shaped
    <2>4. c # NULL => lo[c] = Lower(t, lo, x, d) /\ hi[c] = Upper(t, hi, x, d) /\ ParentOf(t, c) = x
      BY <2>1, <2>3 DEF Hung
    <2>5. c # NULL => ParentOf(u, c) = x
      BY <1>2, <2>3, <2>4 DEF Links
    <2>6. Lower(u, lo, x, d) = Lower(t, lo, x, d) /\ Upper(u, hi, x, d) = Upper(t, hi, x, d)
      BY <1>2 DEF Lower, Upper
    <2>7. Hung(u, lo, hi, x, d)
      BY <2>2, <2>4, <2>5, <2>6 DEF Hung
    <2>8. ~(RedOf(u, x) /\ IsRed(u, c))
      <3>1. CASE c = NULL
        BY <3>1, IsRedIs
      <3>2. CASE c # NULL
        BY <1>2, <2>3, <3>2, IsRedIs DEF Links
      <3>. QED BY <3>1, <3>2
    <2>. QED BY <1>1, <1>2, <2>2, <2>3, <2>7, <2>8
  <1>4. Rooted(u, lo, hi)
    BY <1>1, <1>2 DEF Rooted
  <1>5. ASSUME NEW x \in DOMAIN t.n
        PROVE  \/ x = u.root
               \/ ParentOf(u, x) \in DOMAIN u.n /\ \E d \in Side : Child(u, ParentOf(u, x), d) = x
    <2>1. \/ x = t.root
          \/ ParentOf(t, x) \in DOMAIN t.n /\ \E d \in Side : Child(t, ParentOf(t, x), d) = x
      BY DEF Shaped
    <2>. QED BY <1>1, <1>2, <2>1
  <1>6. /\ DOMAIN t.n \subseteq Key
        /\ lo \in [DOMAIN t.n -> Int] /\ hi \in [DOMAIN t.n -> Int] /\ bh \in [DOMAIN t.n -> Nat]
        /\ \A x \in DOMAIN t.n : /\ KeyOf(t, x) \in Key /\ 0 <= lo[x] /\ hi[x] <= NKey + 1
                                 /\ lo[x] < KeyOf(t, x) /\ KeyOf(t, x) < hi[x]
    BY DEF Shaped
  <1>7. \A x \in DOMAIN t.n : /\ KeyOf(u, x) \in Key /\ 0 <= lo[x] /\ hi[x] <= NKey + 1
                              /\ lo[x] < KeyOf(u, x) /\ KeyOf(u, x) < hi[x]
    BY <1>2, <1>6
  <1>8. u.root # NULL
    BY <1>1
  <1>. QED BY ONLY <1>1, <1>3, <1>4, <1>5, <1>6, <1>7, <1>8 DEF Shaped

(* What is left once q has gone, without the helper. *)
Left(t, z, V, p, q, f) ==
  /\ Typed(z, V) /\ DOMAIN z.n = DOMAIN t.n \ {q, FalseRoot}
  /\ z.beg = (IF t.beg = q THEN p ELSE t.beg) /\ z.len = t.len - 1
  /\ \A x \in DOMAIN z.n : /\ KeyOf(z, x) = KeyOf(t, IF x = f THEN q ELSE x)
                           /\ ValOf(z, x) = ValOf(t, IF x = f THEN q ELSE x)
  /\ \E lo, hi, bh : Shaped(z, lo, hi, bh)

(* Without q, what Unlink leaves is the tree without that leaf. *)
LEMMA PartedIs ==
  ASSUME NEW V, NEW t, Typed(t, V), NEW lo, NEW hi, NEW bh, Sound(t, lo, hi, bh, NULL),
         NEW p, NEW q, NEW f, NEW k, Loose(t, hi, p, q, f, k), NEW u, Parted(t, u, V, p, q, f),
         NEW w, w = Drop(u, {q})
  PROVE  Pruned(t, w, V, q, f) /\ w.beg = u.beg /\ w.len = u.len
  <1>1. /\ Typed(w, V) /\ DOMAIN w.n = DOMAIN u.n \ {q} /\ w.beg = u.beg /\ w.len = u.len
        /\ \A y \in DOMAIN u.n \ {q} :
              /\ KeyOf(w, y) = KeyOf(u, y) /\ ValOf(w, y) = ValOf(u, y)
              /\ RedOf(w, y) = RedOf(u, y) /\ ParentOf(w, y) = ParentOf(u, y)
              /\ \A e \in Side : Child(w, y, e) = Child(u, y, e)
    <2>1. Typed(u, V)
      BY DEF Parted
    <2>2. w = Drop(u, {q})
      OBVIOUS
    <2>. QED BY ONLY <2>1, <2>2, DropIs
  <1>2. DOMAIN u.n = DOMAIN t.n
    BY DEF Parted
  <1>3. ASSUME NEW x \in DOMAIN t.n \ {q}
        PROVE  /\ KeyOf(w, x) = KeyOf(t, IF x = f THEN q ELSE x)
               /\ ValOf(w, x) = ValOf(t, IF x = f THEN q ELSE x)
               /\ RedOf(w, x) = RedOf(t, x) /\ ParentOf(w, x) = ParentOf(t, x)
               /\ \A e \in Side : Child(w, x, e) = IF Child(t, x, e) = q THEN NULL ELSE Child(t, x, e)
    <2>1. Other(f, q, x) = IF x = f THEN q ELSE x
      BY DEF Other
    <2>. QED BY <1>1, <1>2, <2>1 DEF Parted
  <1>. QED BY <1>1, <1>2, <1>3 DEF Pruned

(* And so it is without the false root. *)
LEMMA LeftIs ==
  ASSUME NEW V, NEW t, Typed(t, V), NEW lo, NEW hi, NEW bh, Sound(t, lo, hi, bh, NULL),
         NEW p, NEW q, NEW f, NEW k, Loose(t, hi, p, q, f, k), NEW u, Parted(t, u, V, p, q, f),
         NEW z, z = Drop(NewRoot(u), {q})
  PROVE  Left(t, z, V, p, q, f)
  <1>1. PICK w : w = Drop(u, {q})
    OBVIOUS
  <1>2. Pruned(t, w, V, q, f) /\ w.beg = u.beg /\ w.len = u.len
    BY <1>1, PartedIs
  <1>3. PICK l2, h2, b2 : Sound(w, l2, h2, b2, NULL)
    BY <1>2, PrunedSound
  <1>4. Linked(w, l2, h2) /\ Typed(w, V) /\ DOMAIN w.n = DOMAIN t.n \ {q}
    BY <1>2, <1>3 DEF Sound, Pruned
  <1>5. /\ NULL \notin DOMAIN w.n /\ FalseRoot \in DOMAIN w.n /\ Child(w, FalseRoot, 1) \in Links(w)
    BY <1>4, LinkedNames DEF Linked, Side
  <1>6. /\ p \in DOMAIN t.n \ {FalseRoot} /\ q \in DOMAIN t.n \ {FalseRoot}
        /\ f \in DOMAIN t.n \ {FalseRoot} /\ KeyOf(t, f) = k
    BY DEF Loose
  <1>7. Typed(u, V) /\ DOMAIN u.n = DOMAIN t.n /\ q \in DOMAIN u.n
    BY <1>6 DEF Parted
  <1>8. /\ \A y \in DOMAIN u.n \ {q} :
              /\ KeyOf(w, y) = KeyOf(u, y) /\ ValOf(w, y) = ValOf(u, y)
              /\ RedOf(w, y) = RedOf(u, y) /\ ParentOf(w, y) = ParentOf(u, y)
              /\ \A e \in Side : Child(w, y, e) = Child(u, y, e)
    BY ONLY <1>1, <1>7, DropIs
  <1>9. PICK r : r = Child(u, FalseRoot, 1)
    OBVIOUS
  <1>10. r = Child(w, FalseRoot, 1) /\ r \in Links(u) /\ r \in Links(w) /\ r # q
    <2>1. r = Child(w, FalseRoot, 1)
      BY <1>4, <1>5, <1>7, <1>8, <1>9 DEF Side
    <2>2. r \in DOMAIN w.n \cup {NULL}
      BY <1>5, <2>1 DEF Links
    <2>3. q # NULL
      <3>1. Linked(t, lo, hi)
        BY DEF Sound
      <3>. QED BY <1>6, <3>1, LinkedNames
    <2>4. r # q /\ r \in DOMAIN u.n \cup {NULL}
      BY <1>4, <1>7, <2>2, <2>3
    <2>. QED BY <2>1, <2>2, <2>4 DEF Links
  <1>11. PICK nu, nw : nu = NewRoot(u) /\ nw = NewRoot(w)
    OBVIOUS
  <1>12. /\ Typed(nu, V) /\ DOMAIN nu.n = DOMAIN u.n \ {FalseRoot}
         /\ nu.root = r /\ nu.beg = u.beg /\ nu.len = u.len
         /\ \A y \in DOMAIN nu.n :
              /\ KeyOf(nu, y) = KeyOf(u, y) /\ ValOf(nu, y) = ValOf(u, y)
              /\ RedOf(nu, y) <=> RedOf(u, y) /\ y # r
              /\ ParentOf(nu, y) = IF y = r THEN NULL ELSE ParentOf(u, y)
              /\ \A e \in Side : Child(nu, y, e) = Child(u, y, e)
    <2>1. FalseRoot \in DOMAIN u.n
      BY <1>4, <1>5, <1>7
    <2>. QED BY ONLY <1>7, <1>9, <1>10, <1>11, <2>1, NewRootIs
  <1>13. /\ Typed(nw, V) /\ DOMAIN nw.n = DOMAIN w.n \ {FalseRoot}
         /\ nw.root = r /\ nw.beg = w.beg /\ nw.len = w.len
         /\ \A y \in DOMAIN nw.n :
              /\ KeyOf(nw, y) = KeyOf(w, y) /\ ValOf(nw, y) = ValOf(w, y)
              /\ RedOf(nw, y) <=> RedOf(w, y) /\ y # r
              /\ ParentOf(nw, y) = IF y = r THEN NULL ELSE ParentOf(w, y)
              /\ \A e \in Side : Child(nw, y, e) = Child(w, y, e)
    BY ONLY <1>4, <1>5, <1>10, <1>11, NewRootIs
  <1>14. /\ Typed(z, V) /\ DOMAIN z.n = DOMAIN nu.n \ {q}
         /\ z.root = nu.root /\ z.beg = nu.beg /\ z.len = nu.len
         /\ \A y \in DOMAIN nu.n \ {q} :
              /\ KeyOf(z, y) = KeyOf(nu, y) /\ ValOf(z, y) = ValOf(nu, y)
              /\ RedOf(z, y) = RedOf(nu, y) /\ ParentOf(z, y) = ParentOf(nu, y)
              /\ \A e \in Side : Child(z, y, e) = Child(nu, y, e)
    <2>1. z = Drop(nu, {q}) /\ Typed(nu, V)
      BY <1>11, <1>12
    <2>. QED BY ONLY <2>1, DropIs
  <1>15. DOMAIN z.n = DOMAIN t.n \ {q, FalseRoot} /\ DOMAIN nw.n = DOMAIN z.n
    BY <1>4, <1>7, <1>12, <1>13, <1>14
  <1>16. ASSUME NEW x \in DOMAIN z.n
         PROVE  /\ KeyOf(z, x) = KeyOf(w, x) /\ ValOf(z, x) = ValOf(w, x)
                /\ KeyOf(z, x) = KeyOf(nw, x) /\ ParentOf(z, x) = ParentOf(nw, x)
                /\ RedOf(z, x) <=> RedOf(nw, x)
                /\ \A e \in Side : Child(z, x, e) = Child(nw, x, e)
    <2>1. x \in DOMAIN nw.n /\ x \in DOMAIN nu.n \ {q} /\ x \in DOMAIN u.n \ {q} /\ x \in DOMAIN nu.n
      BY <1>7, <1>12, <1>14, <1>15
    <2>2. /\ KeyOf(z, x) = KeyOf(nu, x) /\ ValOf(z, x) = ValOf(nu, x)
          /\ RedOf(z, x) = RedOf(nu, x) /\ ParentOf(z, x) = ParentOf(nu, x)
          /\ \A e \in Side : Child(z, x, e) = Child(nu, x, e)
      BY <1>14, <2>1
    <2>3. /\ KeyOf(nu, x) = KeyOf(u, x) /\ ValOf(nu, x) = ValOf(u, x)
          /\ RedOf(nu, x) <=> RedOf(u, x) /\ x # r
          /\ ParentOf(nu, x) = IF x = r THEN NULL ELSE ParentOf(u, x)
          /\ \A e \in Side : Child(nu, x, e) = Child(u, x, e)
      BY <1>12, <2>1
    <2>4. /\ KeyOf(w, x) = KeyOf(u, x) /\ ValOf(w, x) = ValOf(u, x)
          /\ RedOf(w, x) = RedOf(u, x) /\ ParentOf(w, x) = ParentOf(u, x)
          /\ \A e \in Side : Child(w, x, e) = Child(u, x, e)
      BY <1>8, <2>1
    <2>5. /\ KeyOf(nw, x) = KeyOf(w, x)
          /\ RedOf(nw, x) <=> RedOf(w, x) /\ x # r
          /\ ParentOf(nw, x) = IF x = r THEN NULL ELSE ParentOf(w, x)
          /\ \A e \in Side : Child(nw, x, e) = Child(w, x, e)
      BY <1>13, <2>1
    <2>. QED BY ONLY <2>2, <2>3, <2>4, <2>5
  <1>17. \E l3, h3, b3 : Shaped(nw, l3, h3, b3)
    <2>1. nw = NewRoot(w)
      BY <1>11
    <2>. QED BY ONLY <1>3, <1>4, <2>1, HeadOff
  <1>18. nw.root # NULL
    <2>1. PICK l3, h3, b3 : Shaped(nw, l3, h3, b3)
      BY <1>17
    <2>2. p \in DOMAIN nw.n
      <3>1. p # q
        <4>1. Linked(t, lo, hi) /\ q # NULL
          BY <1>6, LinkedNames DEF Sound
        <4>. QED BY <1>6, <4>1, ChildOf DEF Loose
      <3>. QED BY <1>6, <1>15, <3>1
    <2>. QED BY <2>1, <2>2 DEF Shaped
  <1>19. \E l3, h3, b3 : Shaped(z, l3, h3, b3)
    <2>1. PICK l3, h3, b3 : Shaped(nw, l3, h3, b3)
      BY <1>17
    <2>2. LooksLike(nw, z)
      BY <1>12, <1>13, <1>14, <1>15, <1>16 DEF LooksLike
    <2>3. Shaped(z, l3, h3, b3)
      BY <1>18, <2>1, <2>2, ShapedAlso
    <2>. QED BY <2>3
  <1>20. z.beg = (IF t.beg = q THEN p ELSE t.beg) /\ z.len = t.len - 1
    BY <1>12, <1>14 DEF Parted
  <1>21. \A x \in DOMAIN z.n : /\ KeyOf(z, x) = KeyOf(t, IF x = f THEN q ELSE x)
                               /\ ValOf(z, x) = ValOf(t, IF x = f THEN q ELSE x)
    BY <1>2, <1>15, <1>16 DEF Pruned
  <1>. QED BY <1>14, <1>15, <1>19, <1>20, <1>21 DEF Left

AtIn(t, N, a, b) == \E x \in N : KeyOf(t, x) = a /\ ValOf(t, x) = b
At(t, a, b) == AtIn(t, DOMAIN t.n, a, b)
(* u is t without the key k *)
Lost(t, u, k) == \A a, b : At(u, a, b) <=> At(t, a, b) /\ a # k

(* What _free_node frees is one node. *)
LEMMA FreedOne ==
  ASSUME NEW V, NEW t, Typed(t, V), NEW lo, NEW hi, NEW bh, Sound(t, lo, hi, bh, NULL),
         NEW p, NEW q, NEW f, NEW k, Loose(t, hi, p, q, f, k), NEW u, Parted(t, u, V, p, q, f)
  PROVE  Below(NewRoot(u), q) = {q}
  <1>1. PICK w : w = Drop(u, {q})
    OBVIOUS
  <1>2. Pruned(t, w, V, q, f)
    BY <1>1, PartedIs
  <1>3. PICK l2, h2, b2 : Sound(w, l2, h2, b2, NULL)
    BY <1>2, PrunedSound
  <1>4. Linked(w, l2, h2) /\ DOMAIN w.n = DOMAIN t.n \ {q}
    BY <1>2, <1>3 DEF Sound, Pruned
  <1>5. /\ q \in DOMAIN t.n \ {FalseRoot} /\ (\A e \in Side : Child(t, q, e) = NULL)
    BY DEF Loose
  <1>6. FalseRoot \in DOMAIN w.n /\ Linked(t, lo, hi) /\ q # NULL
    <2>1. Linked(t, lo, hi)
      BY DEF Sound
    <2>. QED BY <1>4, <1>5, <2>1, LinkedNames
  <1>7. Typed(u, V) /\ DOMAIN u.n = DOMAIN t.n
    BY DEF Parted
  <1>8. \A y \in DOMAIN u.n \ {q} : \A e \in Side : Child(w, y, e) = Child(u, y, e)
    BY ONLY <1>1, <1>7, DropIs
  <1>9. PICK r, nu : r = Child(u, FalseRoot, 1) /\ nu = NewRoot(u)
    OBVIOUS
  <1>10. r \in Links(u)
    <2>1. r = Child(w, FalseRoot, 1)
      BY <1>4, <1>6, <1>7, <1>8, <1>9 DEF Side
    <2>2. r \in Links(w)
      BY <1>4, <1>6, <2>1 DEF Linked, Side
    <2>. QED BY <1>4, <1>7, <2>2 DEF Links
  <1>11. /\ DOMAIN nu.n = DOMAIN u.n \ {FalseRoot}
         /\ \A y \in DOMAIN nu.n : \A e \in Side : Child(nu, y, e) = Child(u, y, e)
    <2>1. FalseRoot \in DOMAIN u.n
      BY <1>4, <1>6, <1>7
    <2>. QED BY ONLY <1>7, <1>9, <1>10, <2>1, NewRootIs
  <1>12. \A e \in Side : Child(nu, q, e) = NULL
    BY <1>5, <1>7, <1>11 DEF Parted
  <1>13. Laid(nu, w, {q})
    <2>1. DOMAIN nu.n = (DOMAIN w.n \ {FalseRoot}) \cup {q}
      BY <1>4, <1>5, <1>7, <1>11
    <2>2. \A x \in DOMAIN w.n \ {FalseRoot} : \A e \in Side : Child(nu, x, e) = Child(w, x, e)
      BY <1>4, <1>7, <1>8, <1>11
    <2>. QED BY <1>4, <1>6, <1>12, <2>1, <2>2 DEF Laid
  <1>. QED BY <1>4, <1>9, <1>13, BelowLeaf

(* What comes first stays so: where q was the first, p hangs right of it. *)
LEMMA LeftFirst ==
  ASSUME NEW V, NEW t, Typed(t, V), NEW lo, NEW hi, NEW bh, Sound(t, lo, hi, bh, NULL),
         NEW p, NEW q, NEW f, NEW k, Loose(t, hi, p, q, f, k),
         t.beg \in DOMAIN t.n \ {FalseRoot},
         \A x \in DOMAIN t.n \ {FalseRoot} : KeyOf(t, t.beg) <= KeyOf(t, x),
         NEW z, Left(t, z, V, p, q, f)
  PROVE  z.beg \in DOMAIN z.n /\ \A x \in DOMAIN z.n : KeyOf(z, z.beg) <= KeyOf(z, x)
  <1>1. Linked(t, lo, hi)
    BY DEF Sound
  <1>2. /\ p \in DOMAIN t.n \ {FalseRoot} /\ q \in DOMAIN t.n \ {FalseRoot}
        /\ f \in DOMAIN t.n \ {FalseRoot} /\ KeyOf(t, f) = k
        /\ \E e \in Side : Child(t, p, e) = q
    BY DEF Loose
  <1>3. /\ NULL \notin DOMAIN t.n
        /\ \A x \in DOMAIN t.n : /\ lo[x] \in Int /\ hi[x] \in Int /\ KeyOf(t, x) \in Int
                                 /\ lo[x] < KeyOf(t, x) /\ KeyOf(t, x) < hi[x]
    BY <1>1, LinkedNames, NodeFacts
  <1>4. /\ KeyOf(t, q) <= k
        /\ \A x \in DOMAIN t.n \ {q} : KeyOf(t, x) < KeyOf(t, q) \/ KeyOf(t, x) >= hi[q]
        /\ f # q => lo[f] < KeyOf(t, q) /\ hi[q] = k
    BY <1>1, NoneBetween
  <1>5. /\ DOMAIN z.n = DOMAIN t.n \ {q, FalseRoot}
        /\ z.beg = (IF t.beg = q THEN p ELSE t.beg)
        /\ \A x \in DOMAIN z.n : KeyOf(z, x) = KeyOf(t, IF x = f THEN q ELSE x)
    BY DEF Left
  <1>6. p # q
    BY <1>1, <1>2, <1>3, ChildOf
  <1>7. z.beg \in DOMAIN z.n
    BY <1>2, <1>5, <1>6
  <1>8. ASSUME NEW x \in DOMAIN z.n PROVE KeyOf(z, z.beg) <= KeyOf(z, x)
    <2>1. x \in DOMAIN t.n \ {FalseRoot} /\ x # q /\ KeyOf(t, t.beg) <= KeyOf(t, x) /\ KeyOf(t, t.beg) <= KeyOf(t, q)
          /\ KeyOf(t, x) \in Int /\ KeyOf(t, q) \in Int /\ KeyOf(t, t.beg) \in Int /\ KeyOf(t, f) \in Int
          /\ KeyOf(t, p) \in Int
      BY <1>2, <1>3, <1>5
    <2>2. CASE t.beg # q
      <3>1. z.beg = t.beg /\ t.beg \in DOMAIN z.n
        BY <1>5, <1>7, <2>2
      <3>2. KeyOf(z, z.beg) <= KeyOf(t, t.beg)
        BY <1>2, <1>4, <1>5, <2>1, <3>1
      <3>3. KeyOf(t, t.beg) <= KeyOf(z, x)
        BY <1>5, <2>1
      <3>4. KeyOf(z, z.beg) \in Int /\ KeyOf(z, x) \in Int
        BY <1>5, <2>1, <3>1
      <3>. QED BY <2>1, <3>2, <3>3, <3>4
    <2>3. CASE t.beg = q
      <3>1. z.beg = p /\ p \in DOMAIN z.n
        BY <1>5, <1>7, <2>3
      <3>2. Child(t, p, 0) = q
        <4>1. PICK e \in Side : Child(t, p, e) = q
          BY <1>2
        <4>2. CASE e = 1
          <5>1. KeyOf(t, p) < KeyOf(t, q)
            BY <1>1, <1>2, <1>3, <4>1, <4>2, ChildOf
          <5>2. KeyOf(t, q) <= KeyOf(t, p)
            BY <1>2, <2>3
          <5>. QED BY <2>1, <5>1, <5>2
        <4>. QED BY <4>1, <4>2 DEF Side
      <3>3. hi[q] = KeyOf(t, p)
        <4>1. 0 \in Side /\ Upper(t, hi, p, 0) = KeyOf(t, p)
          BY DEF Side, Upper
        <4>. QED BY <1>1, <1>2, <1>3, <3>2, <4>1, ChildOf
      <3>4. \A y \in DOMAIN t.n \ {q, FalseRoot} : KeyOf(t, y) >= KeyOf(t, p)
        <4>. SUFFICES ASSUME NEW y \in DOMAIN t.n \ {q, FalseRoot} PROVE KeyOf(t, y) >= KeyOf(t, p)
          OBVIOUS
        <4>1. KeyOf(t, y) < KeyOf(t, q) \/ KeyOf(t, y) >= KeyOf(t, p)
          BY <1>4, <3>3
        <4>2. KeyOf(t, q) <= KeyOf(t, y) /\ KeyOf(t, y) \in Int
          BY <1>3, <2>3
        <4>. QED BY <2>1, <4>1, <4>2
      <3>5. CASE f = q
        <4>1. KeyOf(z, z.beg) = KeyOf(t, p) /\ KeyOf(z, x) = KeyOf(t, x)
          BY <1>5, <1>6, <2>1, <3>1, <3>5
        <4>2. KeyOf(t, x) >= KeyOf(t, p)
          BY <1>5, <3>4
        <4>. QED BY <2>1, <4>1, <4>2
      <3>6. CASE f # q
        <4>1. p = f
          <5>1. KeyOf(t, p) = KeyOf(t, f)
            BY <1>2, <1>4, <3>3, <3>6
          <5>. QED BY <1>1, <1>2, <5>1, KeysDiffer
        <4>2. KeyOf(z, z.beg) = KeyOf(t, q)
          BY <1>5, <3>1, <4>1
        <4>3. KeyOf(z, x) = KeyOf(t, q) \/ KeyOf(z, x) = KeyOf(t, x)
          BY <1>5
        <4>4. KeyOf(t, q) <= KeyOf(t, x)
          BY <2>1, <2>3
        <4>. QED BY <2>1, <4>2, <4>3, <4>4
      <3>. QED BY <3>5, <3>6
    <2>. QED BY <2>2, <2>3
  <1>. QED BY <1>7, <1>8

(* What is left holds all keys but k, with their values. *)
LEMMA LeftHolds ==
  ASSUME NEW V, NEW t, Typed(t, V), NEW lo, NEW hi, NEW bh, Sound(t, lo, hi, bh, NULL),
         NEW p, NEW q, NEW f, NEW k, Loose(t, hi, p, q, f, k), NEW z, Left(t, z, V, p, q, f)
  PROVE  \A a, b : At(z, a, b) <=> AtIn(t, DOMAIN t.n \ {FalseRoot}, a, b) /\ a # k
  <1>1. Linked(t, lo, hi)
    BY DEF Sound
  <1>2. /\ q \in DOMAIN t.n \ {FalseRoot} /\ f \in DOMAIN t.n \ {FalseRoot} /\ KeyOf(t, f) = k
    BY DEF Loose
  <1>3. /\ DOMAIN z.n = DOMAIN t.n \ {q, FalseRoot}
        /\ \A x \in DOMAIN z.n : /\ KeyOf(z, x) = KeyOf(t, IF x = f THEN q ELSE x)
                                 /\ ValOf(z, x) = ValOf(t, IF x = f THEN q ELSE x)
    BY DEF Left
  <1>4. \A x \in DOMAIN t.n : KeyOf(t, x) = k => x = f
    BY <1>1, <1>2, KeysDiffer
  <1>. TAKE a, b
  <1>5. ASSUME At(z, a, b) PROVE AtIn(t, DOMAIN t.n \ {FalseRoot}, a, b) /\ a # k
    <2>1. PICK x \in DOMAIN z.n : KeyOf(z, x) = a /\ ValOf(z, x) = b
      BY <1>5 DEF At, AtIn
    <2>2. PICK y : y = IF x = f THEN q ELSE x
      OBVIOUS
    <2>3. y \in DOMAIN t.n \ {FalseRoot} /\ y # f /\ KeyOf(t, y) = a /\ ValOf(t, y) = b
      BY <1>2, <1>3, <2>1, <2>2
    <2>. QED BY <1>4, <2>3 DEF AtIn
  <1>6. ASSUME AtIn(t, DOMAIN t.n \ {FalseRoot}, a, b), a # k PROVE At(z, a, b)
    <2>1. PICK x \in DOMAIN t.n \ {FalseRoot} : KeyOf(t, x) = a /\ ValOf(t, x) = b
      BY <1>6 DEF AtIn
    <2>2. x # f
      BY <1>2, <1>6, <2>1
    <2>3. PICK y : y = IF x = q THEN f ELSE x
      OBVIOUS
    <2>4. y \in DOMAIN z.n /\ KeyOf(z, y) = a /\ ValOf(z, y) = b
      BY <1>2, <1>3, <2>1, <2>2, <2>3
    <2>. QED BY <2>4 DEF At, AtIn
  <1>. QED BY <1>5, <1>6

(* Deleting from an empty tree. *)
LEMMA DeleteEmpty ==
  ASSUME NEW V, NEW t, Whole(t, V), t.root = NULL, NEW k, NEW z, z = Delete(t, k)
  PROVE  Whole(z, V) /\ Lost(t, z, k)
  <1>1. Typed(t, V) /\ DOMAIN t.n = {} /\ t.beg = NULL /\ t.len = Cardinality(DOMAIN t.n)
    BY DEF Whole, Shaped, First
  <1>2. PICK X : X = Below(t, NULL)
    OBVIOUS
  <1>3. z = Drop(t, X)
    BY <1>2 DEF Delete, Removed, Free
  <1>4. /\ Typed(z, V) /\ DOMAIN z.n = DOMAIN t.n \ X
        /\ z.root = t.root /\ z.beg = t.beg /\ z.len = t.len
    BY ONLY <1>1, <1>3, DropIs
  <1>5. DOMAIN z.n = {}
    BY <1>1, <1>4
  <1>6. PICK lo, hi, bh : Shaped(t, lo, hi, bh)
    BY DEF Whole
  <1>7. Shaped(z, lo, hi, bh)
    BY <1>1, <1>4, <1>5, <1>6 DEF Shaped
  <1>8. First(z) /\ z.len = Cardinality(DOMAIN z.n)
    BY <1>1, <1>4, <1>5 DEF First
  <1>9. Lost(t, z, k)
    BY <1>1, <1>5 DEF Lost, At, AtIn
  <1>. QED BY <1>4, <1>7, <1>8, <1>9 DEF Whole

(* the tree with its helper *)
LEMMA HeadLaid ==
  ASSUME NEW V, NULL \in V, NEW t, Whole(t, V), t.root # NULL
  PROVE  \E h, lo, hi, bh : h = WithHead(t) /\ Sound(h, lo, hi, bh, NULL) /\ Laid(t, h, {})
  <1>1. PICK l0, h0, b0 : Shaped(t, l0, h0, b0)
    BY DEF Whole
  <1>2. PICK h : h = WithHead(t)
    OBVIOUS
  <1>3. Typed(t, V) /\ FalseRoot \notin DOMAIN t.n
    BY <1>1, HeadOn DEF Whole
  <1>4. \E lo, hi, bh : Sound(h, lo, hi, bh, NULL)
    BY <1>1, <1>2, <1>3, HeadOn
  <1>5. /\ DOMAIN h.n = DOMAIN t.n \cup {FalseRoot}
        /\ \A y \in DOMAIN t.n : \A e \in Side : Child(h, y, e) = Child(t, y, e)
    BY <1>2, <1>3, WithHeadIs
  <1>6. Laid(t, h, {})
    BY <1>3, <1>5 DEF Laid
  <1>. QED BY <1>2, <1>4, <1>6

(* A tree of length 1 is its root. *)
LEMMA AloneIs ==
  ASSUME NEW t, NEW lo, NEW hi, NEW bh, Shaped(t, lo, hi, bh), t.root # NULL,
         t.len = 1, t.len = Cardinality(DOMAIN t.n)
  PROVE  DOMAIN t.n = {t.root}
  <1>1. t.root \in DOMAIN t.n
    BY DEF Shaped, Rooted
  <1>2. IsFiniteSet(DOMAIN t.n)
    <2>1. IsFiniteSet(Key)
      BY KeyFinite
    <2>. QED BY <2>1, FS_Subset DEF Shaped
  <1>3. Cardinality(DOMAIN t.n \ {t.root}) = 0
    <2>1. Cardinality(DOMAIN t.n \ {t.root}) = Cardinality(DOMAIN t.n) - 1
      BY <1>1, <1>2, FS_RemoveElement
    <2>. QED BY <2>1
  <1>4. DOMAIN t.n \ {t.root} = {}
    <2>1. IsFiniteSet(DOMAIN t.n \ {t.root})
      BY <1>2, FS_Difference
    <2>. QED BY <1>3, <2>1, FS_EmptySet
  <1>. QED BY <1>1, <1>4

(* Deleting the only node. *)
LEMMA DeleteLast ==
  ASSUME NEW V, NULL \in V, NEW t, Whole(t, V), NEW k, t.root # NULL, t.len = 1, t.n[t.root].key = k,
         NEW z, z = Delete(t, k)
  PROVE  Whole(z, V) /\ Lost(t, z, k)
  <1>1. PICK lo, hi, bh : Shaped(t, lo, hi, bh)
    BY DEF Whole
  <1>2. Typed(t, V) /\ DOMAIN t.n = {t.root} /\ t.root # NULL
    BY <1>1, AloneIs DEF Whole
  <1>3. PICK s : s = [t EXCEPT !.root = NULL, !.beg = NULL, !.len = 0]
    OBVIOUS
  <1>4. Typed(s, V) /\ s.n = t.n /\ s.root = NULL /\ s.beg = NULL /\ s.len = 0
    <2>1. /\ t \in [n : [DOMAIN t.n -> Field(V)], root : Int, beg : Int, len : Int]
          /\ DOMAIN t.n \subseteq Key \cup {FalseRoot}
      BY <1>2 DEF Typed
    <2>2. s.n = t.n /\ s.root = NULL /\ s.beg = NULL /\ s.len = 0
      BY <1>3, <2>1
    <2>3. s = [n |-> t.n, root |-> NULL, beg |-> NULL, len |-> 0]
      BY <1>3, <2>1
    <2>4. t.n \in [DOMAIN s.n -> Field(V)] /\ NULL \in Int
      BY <2>1, <2>2 DEF NULL
    <2>5. s \in [n : [DOMAIN s.n -> Field(V)], root : Int, beg : Int, len : Int]
      BY <2>3, <2>4
    <2>. QED BY <2>1, <2>2, <2>5 DEF Typed
  <1>5. Removed(t, k) = [t |-> s, q |-> t.root]
    BY <1>3 DEF Removed
  <1>6. z = Drop(s, Below(s, t.root))
    BY <1>5 DEF Delete, Free
  <1>7. t.root \in Below(s, t.root)
    <2>1. PICK h, l2, h2, b2 : h = WithHead(t) /\ Sound(h, l2, h2, b2, NULL) /\ Laid(t, h, {})
      BY HeadLaid
    <2>2. \A x, e : Child(s, x, e) = Child(t, x, e)
      BY <1>4 DEF Child
    <2>3. Laid(s, h, {}) /\ Linked(h, l2, h2)
      BY <1>4, <2>1, <2>2 DEF Laid, Sound
    <2>4. t.root \in Links(s)
      BY <1>2, <1>4 DEF Links
    <2>5. Below(s, t.root) = {t.root} \cup Below(s, Child(s, t.root, 0)) \cup Below(s, Child(s, t.root, 1))
      BY <1>2, <2>3, <2>4, BelowSolved
    <2>. QED BY <2>5
  <1>8. PICK X : X = Below(s, t.root)
    OBVIOUS
  <1>9. /\ Typed(z, V) /\ DOMAIN z.n = DOMAIN s.n \ X
        /\ z.root = s.root /\ z.beg = s.beg /\ z.len = s.len
    <2>1. z = Drop(s, X) /\ Typed(s, V)
      BY <1>4, <1>6, <1>8
    <2>. QED BY ONLY <2>1, DropIs
  <1>10. DOMAIN z.n = {} /\ z.root = NULL /\ z.beg = NULL /\ z.len = 0
    BY <1>2, <1>4, <1>7, <1>8, <1>9
  <1>11. \E l2, h2, b2 : Shaped(z, l2, h2, b2)
    <2>1. PICK e : e = [x \in {} |-> 0]
      OBVIOUS
    <2>2. e \in [{} -> Int] /\ e \in [{} -> Nat]
      BY <2>1
    <2>3. Shaped(z, e, e, e)
      BY <1>10, <2>2 DEF Shaped
    <2>. QED BY <2>3
  <1>12. First(z) /\ z.len = Cardinality(DOMAIN z.n)
    BY <1>10, FS_EmptySet DEF First
  <1>13. Lost(t, z, k)
    BY <1>2, <1>10 DEF Lost, At, AtIn, KeyOf
  <1>. QED BY <1>9, <1>11, <1>12, <1>13 DEF Whole

(* the descent of _delete, seen from the tree before it *)
LEMMA PushedSees ==
  ASSUME NEW V, NULL \in V, NEW t, Whole(t, V), t.root # NULL, NEW k \in Key,
         NEW x, x = Pushed(t, k)
  PROVE  /\ Ended(x) /\ Typed(x.t, V)
         /\ DOMAIN t.n = DOMAIN x.t.n \ {FalseRoot} /\ FalseRoot \in DOMAIN x.t.n
         /\ x.t.beg = t.beg /\ x.t.len = t.len
         /\ \A y \in DOMAIN t.n : KeyOf(x.t, y) = KeyOf(t, y) /\ ValOf(x.t, y) = ValOf(t, y)
         /\ \E m \in Int : \E lo, hi, bh : Sound(x.t, lo, hi, bh, NULL) /\ Sinks(x, lo, hi, k, m)
  <1>1. Ended(x) /\ \E m \in Int : Sinking(t, V, k, x, m)
    BY PushedEnds
  <1>2. PICK m \in Int : Sinking(t, V, k, x, m)
    BY <1>1
  <1>3. PICK l0, h0, b0 : Shaped(t, l0, h0, b0)
    BY DEF Whole
  <1>4. PICK h : h = WithHead(t)
    OBVIOUS
  <1>5. /\ DOMAIN h.n = DOMAIN t.n \cup {FalseRoot} /\ FalseRoot \notin DOMAIN t.n
        /\ h.beg = t.beg /\ h.len = t.len
        /\ \A z \in DOMAIN t.n : KeyOf(h, z) = KeyOf(t, z) /\ ValOf(h, z) = ValOf(t, z)
    BY <1>3, <1>4, HeadOn DEF Whole
  <1>6. Alike(h, x.t)
    BY <1>2, <1>4 DEF Sinking
  <1>7. /\ DOMAIN x.t.n = DOMAIN h.n /\ x.t.beg = h.beg /\ x.t.len = h.len
        /\ \A y \in DOMAIN h.n : KeyOf(x.t, y) = KeyOf(h, y) /\ ValOf(x.t, y) = ValOf(h, y)
    BY <1>6 DEF Alike
  <1>8. Typed(x.t, V) /\ \E lo, hi, bh : Sound(x.t, lo, hi, bh, NULL) /\ Sinks(x, lo, hi, k, m)
    BY <1>2 DEF Sinking
  <1>. QED BY <1>1, <1>5, <1>7, <1>8

(* Deleting a key that is absent restructures the tree and removes         *)
(* nothing.                                                                *)
LEMMA DeleteAbsent ==
  ASSUME NEW V, NULL \in V, NEW t, Whole(t, V), t.root # NULL, NEW k \in Key,
         ~(t.len = 1 /\ t.n[t.root].key = k), NEW x, x = Pushed(t, k), x.f = NULL,
         NEW z, z = Delete(t, k)
  PROVE  Whole(z, V) /\ Lost(t, z, k)
  <1>1. /\ Ended(x) /\ Typed(x.t, V)
        /\ DOMAIN t.n = DOMAIN x.t.n \ {FalseRoot} /\ FalseRoot \in DOMAIN x.t.n
        /\ x.t.beg = t.beg /\ x.t.len = t.len
        /\ \A y \in DOMAIN t.n : KeyOf(x.t, y) = KeyOf(t, y) /\ ValOf(x.t, y) = ValOf(t, y)
    BY PushedSees
  <1>2. PICK m \in Int : \E lo, hi, bh : Sound(x.t, lo, hi, bh, NULL) /\ Sinks(x, lo, hi, k, m)
    BY PushedSees
  <1>3. PICK lo, hi, bh : Sound(x.t, lo, hi, bh, NULL) /\ Sinks(x, lo, hi, k, m)
    BY <1>2
  <1>4. \A y \in DOMAIN x.t.n : KeyOf(x.t, y) # k
    BY <1>1, <1>3, EndAbsent DEF Sinks, Sound, Ended
  <1>5. PICK u : u = NewRoot(x.t)
    OBVIOUS
  <1>6. /\ Typed(u, V) /\ DOMAIN u.n = DOMAIN x.t.n \ {FalseRoot}
        /\ u.beg = x.t.beg /\ u.len = x.t.len
        /\ \A y \in DOMAIN u.n : KeyOf(u, y) = KeyOf(x.t, y) /\ ValOf(u, y) = ValOf(x.t, y)
                                 /\ \A e \in Side : Child(u, y, e) = Child(x.t, y, e)
        /\ \E l2, h2, b2 : Shaped(u, l2, h2, b2)
    BY <1>1, <1>3, <1>5, HeadOff
  <1>7. z = Drop(u, Below(u, NULL))
    <2>1. Removed(t, k) = [t |-> u, q |-> NULL]
      BY <1>5 DEF Removed
    <2>. QED BY <2>1 DEF Delete, Free
  <1>8. Below(u, NULL) = {}
    <2>1. Laid(u, x.t, {}) /\ Linked(x.t, lo, hi)
      BY <1>3, <1>6 DEF Laid, Sound
    <2>. QED BY <2>1, BelowLeaf
  <1>. PICK E : E = {}
    OBVIOUS
  <1>9. /\ Typed(z, V) /\ DOMAIN z.n = DOMAIN u.n \ E
        /\ z.root = u.root /\ z.beg = u.beg /\ z.len = u.len
        /\ \A y \in DOMAIN u.n \ E :
              /\ KeyOf(z, y) = KeyOf(u, y) /\ ValOf(z, y) = ValOf(u, y)
              /\ RedOf(z, y) = RedOf(u, y) /\ ParentOf(z, y) = ParentOf(u, y)
              /\ \A e \in Side : Child(z, y, e) = Child(u, y, e)
    <2>1. z = Drop(u, E) /\ Typed(u, V)
      BY <1>6, <1>7, <1>8
    <2>. QED BY ONLY <2>1, DropIs
  <1>10. /\ DOMAIN z.n = DOMAIN t.n /\ z.beg = t.beg /\ z.len = t.len
         /\ \A y \in DOMAIN t.n : KeyOf(z, y) = KeyOf(t, y) /\ ValOf(z, y) = ValOf(t, y)
    BY <1>1, <1>6, <1>9
  <1>11. \E l2, h2, b2 : Shaped(z, l2, h2, b2)
    <2>1. PICK l2, h2, b2 : Shaped(u, l2, h2, b2)
      BY <1>6
    <2>2. u.root # NULL
      <3>1. PICK l3, h3, b3 : Shaped(t, l3, h3, b3)
        BY DEF Whole
      <3>2. t.root \in DOMAIN t.n
        BY <3>1 DEF Shaped, Rooted
      <3>3. DOMAIN u.n # {}
        BY <1>1, <1>6, <3>2
      <3>. QED BY <2>1, <3>3 DEF Shaped
    <2>3. LooksLike(u, z)
      BY <1>9 DEF LooksLike
    <2>. QED BY <2>1, <2>2, <2>3, ShapedAlso
  <1>12. First(z) /\ z.len = Cardinality(DOMAIN z.n)
    BY <1>10 DEF Whole, First
  <1>13. Lost(t, z, k)
    <2>1. \A y \in DOMAIN t.n : KeyOf(t, y) # k
      BY <1>1, <1>4
    <2>. QED BY <1>10, <2>1 DEF Lost, At, AtIn
  <1>. QED BY <1>9, <1>11, <1>12, <1>13 DEF Whole

(* Deleting one key of several. *)
LEMMA DeleteFound ==
  ASSUME NEW V, NULL \in V, NEW t, Whole(t, V), t.root # NULL, NEW k \in Key,
         ~(t.len = 1 /\ t.n[t.root].key = k), NEW x, x = Pushed(t, k), x.f # NULL,
         NEW z, z = Delete(t, k)
  PROVE  Whole(z, V) /\ Lost(t, z, k)
  <1>1. PICK s, p, q, f : s = x.t /\ p = x.p /\ q = x.q /\ f = x.f
    OBVIOUS
  <1>2. /\ Ended(x) /\ Typed(s, V)
        /\ DOMAIN t.n = DOMAIN s.n \ {FalseRoot} /\ FalseRoot \in DOMAIN s.n
        /\ s.beg = t.beg /\ s.len = t.len
        /\ \A y \in DOMAIN t.n : KeyOf(s, y) = KeyOf(t, y) /\ ValOf(s, y) = ValOf(t, y)
    BY <1>1, PushedSees
  <1>3. PICK m \in Int : \E lo, hi, bh : Sound(s, lo, hi, bh, NULL) /\ Sinks(x, lo, hi, k, m)
    BY <1>1, PushedSees
  <1>4. PICK lo, hi, bh : Sound(s, lo, hi, bh, NULL) /\ Sinks(x, lo, hi, k, m)
    BY <1>3
  <1>5. /\ Slot(s, lo, hi, q, x.dir, k, m, f) /\ Above(s, p, q, x.dir) /\ Child(s, q, x.dir) = NULL
        /\ f # NULL
    BY <1>1, <1>2, <1>4 DEF Sinks, Ended
  <1>6. f \in DOMAIN t.n /\ KeyOf(t, f) = k
    BY <1>2, <1>5 DEF Slot
  <1>7. PICK l3, h3, b3 : Shaped(t, l3, h3, b3)
    BY DEF Whole
  <1>8. IsFiniteSet(DOMAIN t.n) /\ t.root \in DOMAIN t.n /\ t.len = Cardinality(DOMAIN t.n)
    <2>1. IsFiniteSet(Key)
      BY KeyFinite
    <2>. QED BY <1>7, <2>1, FS_Subset DEF Shaped, Rooted, Whole
  <1>9. \E y \in DOMAIN s.n \ {FalseRoot} : y # f
    <2>. SUFFICES ASSUME \A y \in DOMAIN t.n : y = f PROVE FALSE
      BY <1>2
    <2>1. DOMAIN t.n = {f} /\ t.root = f
      BY <1>6, <1>8
    <2>2. t.len = 1
      BY <1>8, <2>1, FS_Singleton
    <2>. QED BY <1>6, <2>1, <2>2 DEF KeyOf
  <1>10. Loose(s, hi, p, q, f, k)
    BY <1>2, <1>4, <1>5, <1>9, EndFound
  <1>11. PICK u : u = Unlink(s, p, q, f)
    OBVIOUS
  <1>12. Parted(s, u, V, p, q, f)
    <2>1. Linked(s, lo, hi) /\ Typed(s, V)
      BY <1>2, <1>4 DEF Sound
    <2>. QED BY ONLY <1>10, <1>11, <2>1, UnlinkIs
  <1>13. Below(NewRoot(u), q) = {q}
    BY <1>2, <1>4, <1>10, <1>12, FreedOne
  <1>14. z = Drop(NewRoot(u), {q})
    <2>1. Removed(t, k) = [t |-> NewRoot(u), q |-> q]
      BY <1>1, <1>11 DEF Removed
    <2>. QED BY <1>13, <2>1 DEF Delete, Free
  <1>15. Left(s, z, V, p, q, f)
    BY <1>2, <1>4, <1>10, <1>12, <1>14, LeftIs
  <1>16. \A a, b : At(z, a, b) <=> AtIn(s, DOMAIN s.n \ {FalseRoot}, a, b) /\ a # k
    BY <1>2, <1>4, <1>10, <1>15, LeftHolds
  <1>17. z.beg \in DOMAIN z.n /\ \A y \in DOMAIN z.n : KeyOf(z, z.beg) <= KeyOf(z, y)
    <2>1. t.beg \in DOMAIN t.n /\ \A y \in DOMAIN t.n : KeyOf(t, t.beg) <= KeyOf(t, y)
      BY <1>6 DEF Whole, First
    <2>2. s.beg \in DOMAIN s.n \ {FalseRoot} /\ \A y \in DOMAIN s.n \ {FalseRoot} : KeyOf(s, s.beg) <= KeyOf(s, y)
      BY <1>2, <2>1
    <2>. QED BY <1>2, <1>4, <1>10, <1>15, <2>2, LeftFirst
  <1>18. First(z)
    BY <1>17 DEF First
  <1>19. z.len = Cardinality(DOMAIN z.n)
    <2>1. DOMAIN z.n = DOMAIN t.n \ {q} /\ z.len = t.len - 1
      BY <1>2, <1>15 DEF Left
    <2>2. q \in DOMAIN t.n
      BY <1>2, <1>10 DEF Loose
    <2>3. Cardinality(DOMAIN t.n \ {q}) = Cardinality(DOMAIN t.n) - 1
      BY <1>8, <2>2, FS_RemoveElement
    <2>. QED BY <1>8, <2>1, <2>3
  <1>20. Lost(t, z, k)
    <2>1. \A a, b : AtIn(s, DOMAIN s.n \ {FalseRoot}, a, b) <=> At(t, a, b)
      BY <1>2 DEF At, AtIn
    <2>. QED BY <1>16, <2>1 DEF Lost
  <1>. QED BY <1>15, <1>18, <1>19, <1>20 DEF Whole, Left

(* tree.h, _delete: of a tree with ordered keys, red-black colours,        *)
(* parents, first node and length that agree, it makes such a tree again,  *)
(* without k and with all else as before, whether k was there or not.      *)
THEOREM DeleteKeeps ==
  ASSUME NEW V, NULL \in V, NEW t, Whole(t, V), NEW k \in Key
  PROVE  Whole(Delete(t, k), V) /\ Lost(t, Delete(t, k), k)
  <1>1. CASE t.root = NULL
    BY <1>1, DeleteEmpty
  <1>2. CASE t.root # NULL /\ t.len = 1 /\ t.n[t.root].key = k
    BY <1>2, DeleteLast
  <1>3. CASE t.root # NULL /\ ~(t.len = 1 /\ t.n[t.root].key = k)
    <2>1. PICK x : x = Pushed(t, k)
      OBVIOUS
    <2>. QED BY <1>3, <2>1, DeleteAbsent, DeleteFound
  <1>. QED BY <1>1, <1>2, <1>3

-----------------------------------------------------------------------------
(***************************************************************************)
(* Nodes named after their keys.                                           *)
(***************************************************************************)
To(t, q) == IF q = NULL THEN NULL ELSE t.n[q].key
Called(t, k) == CHOOSE q \in DOMAIN t.n : To(t, q) = k
NodeOf(t, q) == [t.n[q] EXCEPT !.parent = To(t, @), !.ch = <<To(t, @[1]), To(t, @[2])>>]

(* Renamed in terms of the names. *)
LEMMA RenamedIs ==
  ASSUME NEW t
  PROVE  Renamed(t) = [t EXCEPT !.n = [k \in {To(t, q) : q \in DOMAIN t.n} |-> NodeOf(t, Called(t, k))],
                                !.root = To(t, @), !.beg = To(t, @)]
  BY DEF Renamed, To, Called, NodeOf

(* what is known of a tree's links, once it is at rest *)
LEMMA ShapedLinks ==
  ASSUME NEW V, NEW t, Whole(t, V)
  PROVE  /\ NULL \notin DOMAIN t.n /\ FalseRoot \notin DOMAIN t.n
         /\ t.root \in Links(t) /\ t.beg \in Links(t)
         /\ \A x \in DOMAIN t.n : KeyOf(t, x) \in Key /\ ParentOf(t, x) \in Links(t)
                                  /\ \A e \in Side : Child(t, x, e) \in Links(t)
  <1>1. PICK lo, hi, bh : Shaped(t, lo, hi, bh)
    BY DEF Whole
  <1>2. DOMAIN t.n \subseteq Key /\ NULL \notin Key /\ FalseRoot \notin Key
    BY <1>1, KeyAssumption DEF Shaped, Key, NULL, FalseRoot
  <1>3. t.root \in Links(t)
    BY <1>1 DEF Shaped, Rooted, Links
  <1>4. t.beg \in Links(t)
    BY DEF Whole, First, Links
  <1>5. \A x \in DOMAIN t.n : KeyOf(t, x) \in Key /\ \A e \in Side : Child(t, x, e) \in Links(t)
    BY <1>1 DEF Shaped
  <1>6. ASSUME NEW x \in DOMAIN t.n PROVE ParentOf(t, x) \in Links(t)
    <2>1. CASE x = t.root
      <3>1. t.root # NULL
        BY <1>2, <2>1
      <3>2. Rooted(t, lo, hi)
        BY <1>1, <3>1 DEF Shaped
      <3>. QED BY <2>1, <3>2 DEF Rooted, Links
    <2>2. CASE x # t.root
      BY <1>1, <2>2 DEF Shaped, Links
    <2>. QED BY <2>1, <2>2
  <1>. QED BY <1>2, <1>3, <1>4, <1>5, <1>6

(* No two nodes have one key. *)
LEMMA WholeKeys ==
  ASSUME NEW V, NULL \in V, NEW t, Whole(t, V), NEW x \in DOMAIN t.n, NEW y \in DOMAIN t.n,
         KeyOf(t, x) = KeyOf(t, y)
  PROVE  x = y
  <1>1. PICK lo, hi, bh : Shaped(t, lo, hi, bh)
    BY DEF Whole
  <1>2. t.root # NULL
    BY <1>1 DEF Shaped
  <1>3. PICK h : h = WithHead(t)
    OBVIOUS
  <1>4. /\ DOMAIN h.n = DOMAIN t.n \cup {FalseRoot}
        /\ (\A z \in DOMAIN t.n : KeyOf(h, z) = KeyOf(t, z))
        /\ \E l2, h2, b2 : Sound(h, l2, h2, b2, NULL)
    BY <1>1, <1>2, <1>3, HeadOn DEF Whole
  <1>5. PICK l2, h2, b2 : Sound(h, l2, h2, b2, NULL)
    BY <1>4
  <1>6. Linked(h, l2, h2) /\ x \in DOMAIN h.n /\ y \in DOMAIN h.n /\ KeyOf(h, x) = KeyOf(h, y)
    BY <1>4, <1>5 DEF Sound
  <1>. QED BY <1>6, KeysDiffer

(* The two children of a node. *)
LEMMA PairIs ==
  ASSUME NEW a \in Int, NEW b \in Int
  PROVE  <<a, b>> \in [1..2 -> Int] /\ <<a, b>>[1] = a /\ <<a, b>>[2] = b
  OBVIOUS

(* u is t, each node x under the name of its key *)
Named(t, u, V) ==
  /\ Typed(u, V) /\ DOMAIN u.n = {KeyOf(t, x) : x \in DOMAIN t.n}
  /\ u.root = To(t, t.root) /\ u.beg = To(t, t.beg) /\ u.len = t.len
  /\ \A x \in DOMAIN t.n :
       /\ KeyOf(u, KeyOf(t, x)) = KeyOf(t, x) /\ ValOf(u, KeyOf(t, x)) = ValOf(t, x)
       /\ RedOf(u, KeyOf(t, x)) = RedOf(t, x) /\ ParentOf(u, KeyOf(t, x)) = To(t, ParentOf(t, x))
       /\ \A e \in Side : Child(u, KeyOf(t, x), e) = To(t, Child(t, x, e))

(* Renaming keeps all fields and renames the links. *)
LEMMA NamedIs ==
  ASSUME NEW V, NULL \in V, NEW t, Whole(t, V), NEW u, u = Renamed(t)
  PROVE  Named(t, u, V)
  <1>. DEFINE D == DOMAIN t.n
              K == {KeyOf(t, x) : x \in D}
  <1>1. /\ NULL \notin D /\ t.root \in Links(t) /\ t.beg \in Links(t) /\ Typed(t, V)
        /\ \A x \in D : KeyOf(t, x) \in Key /\ ParentOf(t, x) \in Links(t)
                        /\ \A e \in Side : Child(t, x, e) \in Links(t)
    BY ShapedLinks DEF Whole
  <1>2. ASSUME NEW x \in Links(t) PROVE To(t, x) \in Int
    BY <1>1, Names DEF To, Links, KeyOf, NULL
  <1>3. \A x \in D : To(t, x) = KeyOf(t, x)
    BY <1>1 DEF To, KeyOf
  <1>4. ASSUME NEW x \in D PROVE Called(t, KeyOf(t, x)) = x
    <2>1. PICK q : q = Called(t, KeyOf(t, x))
      OBVIOUS
    <2>2. q \in D /\ To(t, q) = KeyOf(t, x)
      BY <1>3, <2>1 DEF Called
    <2>. QED BY <1>3, <2>1, <2>2, WholeKeys
  <1>5. ASSUME NEW x \in D
        PROVE  /\ NodeOf(t, x) \in Field(V)
               /\ NodeOf(t, x).key = KeyOf(t, x) /\ NodeOf(t, x).val = ValOf(t, x)
               /\ NodeOf(t, x).red = RedOf(t, x) /\ NodeOf(t, x).parent = To(t, ParentOf(t, x))
               /\ \A e \in Side : NodeOf(t, x).ch[e + 1] = To(t, Child(t, x, e))
    <2>1. t.n[x] \in Field(V)
      BY <1>1, Fields
    <2>2. PICK a, b, p : a = To(t, t.n[x].ch[1]) /\ b = To(t, t.n[x].ch[2]) /\ p = To(t, t.n[x].parent)
      OBVIOUS
    <2>3. 0 + 1 = 1 /\ 1 + 1 = 2 /\ 0 \in Side /\ 1 \in Side
      BY DEF Side
    <2>4. a = To(t, Child(t, x, 0)) /\ b = To(t, Child(t, x, 1)) /\ p = To(t, ParentOf(t, x))
      BY <2>2, <2>3 DEF Child, ParentOf
    <2>5. a \in Int /\ b \in Int /\ p \in Int
      BY <1>1, <1>2, <2>3, <2>4
    <2>6. NodeOf(t, x) = [t.n[x] EXCEPT !.parent = p, !.ch = <<a, b>>]
      BY <2>1, <2>2 DEF NodeOf, Field
    <2>7. PICK w : w = <<a, b>>
      OBVIOUS
    <2>8. w \in [1..2 -> Int] /\ w[1] = a /\ w[2] = b
      BY <2>5, <2>7, PairIs
    <2>9. /\ NodeOf(t, x) \in Field(V)
          /\ NodeOf(t, x).key = t.n[x].key /\ NodeOf(t, x).val = t.n[x].val
          /\ NodeOf(t, x).red = t.n[x].red /\ NodeOf(t, x).parent = p /\ NodeOf(t, x).ch = w
      BY <2>1, <2>5, <2>6, <2>7, <2>8 DEF Field
    <2>10. \A e \in Side : NodeOf(t, x).ch[e + 1] = To(t, Child(t, x, e))
      BY <2>3, <2>4, <2>8, <2>9 DEF Side
    <2>. QED BY <2>4, <2>9, <2>10 DEF KeyOf, ValOf, RedOf
  <1>6. {To(t, q) : q \in D} = K
    BY <1>3
  <1>7. PICK n : n = [k \in K |-> NodeOf(t, Called(t, k))]
    OBVIOUS
  <1>8. u = [t EXCEPT !.n = n, !.root = To(t, @), !.beg = To(t, @)]
    BY <1>6, <1>7, RenamedIs
  <1>9. \A x \in D : n[KeyOf(t, x)] = NodeOf(t, x)
    BY <1>4, <1>7
  <1>10. n \in [K -> Field(V)]
    BY <1>4, <1>5, <1>7
  <1>11. /\ t \in [n : [DOMAIN t.n -> Field(V)], root : Int, beg : Int, len : Int]
    BY <1>1 DEF Typed
  <1>12. u = [n |-> n, root |-> To(t, t.root), beg |-> To(t, t.beg), len |-> t.len]
    BY <1>8, <1>11
  <1>13. u.n = n /\ u.root = To(t, t.root) /\ u.beg = To(t, t.beg) /\ u.len = t.len /\ DOMAIN u.n = K
    BY <1>10, <1>12
  <1>14. Typed(u, V)
    <2>1. To(t, t.root) \in Int /\ To(t, t.beg) \in Int /\ t.len \in Int /\ n \in [DOMAIN n -> Field(V)]
      BY <1>1, <1>2, <1>10, <1>11
    <2>2. K \subseteq Key
      BY <1>1
    <2>3. u \in [n : [DOMAIN u.n -> Field(V)], root : Int, beg : Int, len : Int]
      <3>. HIDE DEF K
      <3>. QED BY <1>12, <1>13, <2>1
    <2>. QED BY <1>13, <2>2, <2>3 DEF Typed
  <1>15. ASSUME NEW x \in D
         PROVE  /\ KeyOf(u, KeyOf(t, x)) = KeyOf(t, x) /\ ValOf(u, KeyOf(t, x)) = ValOf(t, x)
                /\ RedOf(u, KeyOf(t, x)) = RedOf(t, x) /\ ParentOf(u, KeyOf(t, x)) = To(t, ParentOf(t, x))
                /\ \A e \in Side : Child(u, KeyOf(t, x), e) = To(t, Child(t, x, e))
    <2>1. PICK k : k = KeyOf(t, x)
      OBVIOUS
    <2>2. u.n[k] = NodeOf(t, x)
      BY <1>9, <1>13, <2>1
    <2>3. /\ KeyOf(u, k) = KeyOf(t, x) /\ ValOf(u, k) = ValOf(t, x)
          /\ RedOf(u, k) = RedOf(t, x) /\ ParentOf(u, k) = To(t, ParentOf(t, x))
          /\ \A e \in Side : Child(u, k, e) = To(t, Child(t, x, e))
      <3>1. /\ KeyOf(u, k) = NodeOf(t, x).key /\ ValOf(u, k) = NodeOf(t, x).val
            /\ RedOf(u, k) = NodeOf(t, x).red /\ ParentOf(u, k) = NodeOf(t, x).parent
            /\ \A e \in Side : Child(u, k, e) = NodeOf(t, x).ch[e + 1]
        BY <2>2 DEF KeyOf, ValOf, RedOf, ParentOf, Child
      <3>. QED BY <1>5, <3>1
    <2>. QED BY <2>1, <2>3
  <1>. QED BY <1>13, <1>14, <1>15 DEF Named

(* The node called after its key. *)
LEMMA CalledIs ==
  ASSUME NEW V, NULL \in V, NEW t, Whole(t, V), NEW x \in DOMAIN t.n
  PROVE  Called(t, KeyOf(t, x)) = x /\ To(t, x) = KeyOf(t, x)
  <1>1. \A y \in DOMAIN t.n : To(t, y) = KeyOf(t, y)
    BY ShapedLinks DEF To, KeyOf
  <1>2. PICK q : q = Called(t, KeyOf(t, x))
    OBVIOUS
  <1>3. q \in DOMAIN t.n /\ To(t, q) = KeyOf(t, x)
    BY <1>1, <1>2 DEF Called
  <1>. QED BY <1>1, <1>2, <1>3, WholeKeys

(* Renaming keeps the shape. *)
LEMMA NamedShaped ==
  ASSUME NEW V, NULL \in V, NEW t, Whole(t, V), NEW u, Named(t, u, V)
  PROVE  \E l2, h2, b2 : Shaped(u, l2, h2, b2)
  <1>. DEFINE D == DOMAIN t.n
              K == {KeyOf(t, x) : x \in D}
  <1>1. PICK lo, hi, bh : Shaped(t, lo, hi, bh)
    BY DEF Whole
  <1>2. /\ NULL \notin D /\ t.root \in Links(t)
        /\ \A x \in D : KeyOf(t, x) \in Key /\ ParentOf(t, x) \in Links(t)
                        /\ \A e \in Side : Child(t, x, e) \in Links(t)
    BY ShapedLinks
  <1>3. NULL \notin Key /\ NULL \notin K
    <2>1. NULL \notin Key
      BY KeyAssumption DEF Key, NULL
    <2>. QED BY <1>2, <2>1
  <1>4. \A x \in D : Called(t, KeyOf(t, x)) = x /\ To(t, x) = KeyOf(t, x) /\ KeyOf(t, x) \in K
    BY CalledIs
  <1>5. To(t, NULL) = NULL
    BY DEF To
  <1>6. PICK l2, h2, b2 : /\ l2 = [k \in K |-> lo[Called(t, k)]]
                          /\ h2 = [k \in K |-> hi[Called(t, k)]]
                          /\ b2 = [k \in K |-> bh[Called(t, k)]]
    OBVIOUS
  <1>7. \A x \in D : l2[KeyOf(t, x)] = lo[x] /\ h2[KeyOf(t, x)] = hi[x] /\ b2[KeyOf(t, x)] = bh[x]
    BY <1>4, <1>6
  <1>8. lo \in [D -> Int] /\ hi \in [D -> Int] /\ bh \in [D -> Nat]
    BY <1>1 DEF Shaped
  <1>9. l2 \in [K -> Int] /\ h2 \in [K -> Int] /\ b2 \in [K -> Nat]
    BY <1>4, <1>6, <1>8
  <1>10. /\ DOMAIN u.n = K /\ u.root = To(t, t.root)
         /\ \A x \in D :
              /\ KeyOf(u, KeyOf(t, x)) = KeyOf(t, x)
              /\ RedOf(u, KeyOf(t, x)) = RedOf(t, x) /\ ParentOf(u, KeyOf(t, x)) = To(t, ParentOf(t, x))
              /\ \A e \in Side : Child(u, KeyOf(t, x), e) = To(t, Child(t, x, e))
    BY DEF Named
  <1>11. K \subseteq Key
    BY <1>2
  <1>. HIDE DEF K
  <1>12. ASSUME NEW k \in K PROVE \E x \in D : k = KeyOf(t, x)
    BY DEF K
  <1>13. ASSUME NEW c \in Links(t)
         PROVE  /\ To(t, c) \in Links(u)
                /\ To(t, c) = NULL <=> c = NULL
                /\ c # NULL => c \in D /\ To(t, c) = KeyOf(t, c)
    BY <1>3, <1>4, <1>5, <1>10 DEF Links
  <1>14. ASSUME NEW k \in K
         PROVE  /\ KeyOf(u, k) \in Key /\ 0 <= l2[k] /\ h2[k] <= NKey + 1
                /\ l2[k] < KeyOf(u, k) /\ KeyOf(u, k) < h2[k]
    <2>1. PICK x \in D : k = KeyOf(t, x)
      BY <1>12
    <2>2. /\ KeyOf(t, x) \in Key /\ 0 <= lo[x] /\ hi[x] <= NKey + 1
          /\ lo[x] < KeyOf(t, x) /\ KeyOf(t, x) < hi[x]
      BY <1>1 DEF Shaped
    <2>. QED BY <1>7, <1>10, <2>1, <2>2
  <1>15. ASSUME NEW k \in K, NEW d \in Side
         PROVE  /\ Child(u, k, d) \in Links(u)
                /\ Hung(u, l2, h2, k, d)
                /\ b2[k] = Tall(b2, Child(u, k, d)) + Bit(~RedOf(u, k))
                /\ ~(RedOf(u, k) /\ IsRed(u, Child(u, k, d)))
    <2>1. PICK x \in D : k = KeyOf(t, x)
      BY <1>12
    <2>2. PICK c : c = Child(t, x, d)
      OBVIOUS
    <2>3. /\ c \in Links(t) /\ Hung(t, lo, hi, x, d) /\ bh[x] = Tall(bh, c) + Bit(~RedOf(t, x))
          /\ ~(RedOf(t, x) /\ IsRed(t, c))
      BY <1>1, <2>2 DEF Shaped
    <2>4. Child(u, k, d) = To(t, c) /\ RedOf(u, k) = RedOf(t, x) /\ KeyOf(u, k) = KeyOf(t, x)
      BY <1>10, <2>1, <2>2
    <2>5. l2[k] = lo[x] /\ h2[k] = hi[x] /\ b2[k] = bh[x]
      BY <1>7, <2>1
    <2>6. Tall(b2, To(t, c)) = Tall(bh, c)
      BY <1>7, <1>13, <2>3 DEF Tall
    <2>7. c # NULL => lo[c] = Lower(t, lo, x, d) /\ hi[c] = Upper(t, hi, x, d) /\ ParentOf(t, c) = x
      BY <2>2, <2>3 DEF Hung
    <2>8. Lower(u, l2, k, d) = Lower(t, lo, x, d) /\ Upper(u, h2, k, d) = Upper(t, hi, x, d)
      BY <2>4, <2>5 DEF Lower, Upper
    <2>9. ASSUME c # NULL PROVE ParentOf(u, To(t, c)) = k
      <3>1. c \in D /\ To(t, c) = KeyOf(t, c) /\ ParentOf(t, c) = x
        BY <1>13, <2>3, <2>7, <2>9
      <3>. QED BY <1>4, <1>10, <2>1, <3>1
    <2>10. Hung(u, l2, h2, k, d)
      BY <1>7, <1>13, <2>3, <2>4, <2>7, <2>8, <2>9 DEF Hung
    <2>11. ~(RedOf(u, k) /\ IsRed(u, To(t, c)))
      <3>1. CASE c = NULL
        BY <1>5, <3>1, IsRedIs
      <3>2. CASE c # NULL
        <4>1. RedOf(u, To(t, c)) = RedOf(t, c)
          BY <1>10, <1>13, <2>3, <3>2
        <4>. QED BY <2>3, <2>4, <3>2, <4>1, IsRedIs
      <3>. QED BY <3>1, <3>2
    <2>12. Child(u, k, d) \in Links(u)
      BY <1>13, <2>3, <2>4
    <2>. QED BY <2>3, <2>4, <2>5, <2>6, <2>10, <2>11, <2>12
  <1>16. IF u.root = NULL THEN K = {} ELSE Rooted(u, l2, h2)
    <2>1. CASE t.root = NULL
      <3>1. D = {} /\ u.root = NULL
        BY <1>1, <1>5, <1>10, <2>1 DEF Shaped
      <3>. QED BY <1>12, <3>1
    <2>2. CASE t.root # NULL
      <3>1. /\ t.root \in D /\ lo[t.root] = 0 /\ hi[t.root] = NKey + 1
            /\ ~RedOf(t, t.root) /\ ParentOf(t, t.root) = NULL
        BY <1>1, <2>2 DEF Shaped, Rooted
      <3>2. u.root = KeyOf(t, t.root) /\ u.root # NULL /\ u.root \in K
        BY <1>2, <1>3, <1>4, <1>10, <1>13, <3>1
      <3>3. /\ l2[u.root] = 0 /\ h2[u.root] = NKey + 1 /\ ~RedOf(u, u.root) /\ ParentOf(u, u.root) = NULL
        BY <1>5, <1>7, <1>10, <3>1, <3>2
      <3>. QED BY <1>10, <3>2, <3>3 DEF Rooted
    <2>. QED BY <2>1, <2>2
  <1>17. ASSUME NEW k \in K
         PROVE  \/ k = u.root
                \/ ParentOf(u, k) \in K /\ \E d \in Side : Child(u, ParentOf(u, k), d) = k
    <2>1. PICK x \in D : k = KeyOf(t, x)
      BY <1>12
    <2>2. CASE x = t.root
      BY <1>4, <1>10, <2>1, <2>2
    <2>3. CASE x # t.root
      <3>1. PICK y : y = ParentOf(t, x)
        OBVIOUS
      <3>2. y \in D /\ \E d \in Side : Child(t, y, d) = x
        BY <1>1, <2>3, <3>1 DEF Shaped
      <3>3. PICK d \in Side : Child(t, y, d) = x
        BY <3>2
      <3>4. ParentOf(u, k) = KeyOf(t, y) /\ KeyOf(t, y) \in K
        BY <1>4, <1>10, <2>1, <3>1, <3>2
      <3>5. Child(u, KeyOf(t, y), d) = k
        BY <1>4, <1>10, <2>1, <3>2, <3>3
      <3>. QED BY <3>4, <3>5
    <2>. QED BY <2>2, <2>3
  <1>18. Shaped(u, l2, h2, b2)
    BY ONLY <1>9, <1>10, <1>11, <1>14, <1>15, <1>16, <1>17 DEF Shaped
  <1>. QED BY <1>18

(* A tree has finitely many nodes. *)
LEMMA ShapedFinite ==
  ASSUME NEW V, NEW t, Whole(t, V)
  PROVE  IsFiniteSet(DOMAIN t.n)
  <1>1. IsFiniteSet(Key)
    BY KeyFinite
  <1>. QED BY <1>1, FS_Subset DEF Whole, Shaped

(* As many names as nodes. *)
LEMMA NamedCount ==
  ASSUME NEW V, NULL \in V, NEW t, Whole(t, V)
  PROVE  Cardinality({KeyOf(t, x) : x \in DOMAIN t.n}) = Cardinality(DOMAIN t.n)
  <1>. DEFINE D == DOMAIN t.n
              K == {KeyOf(t, x) : x \in D}
              F == [x \in D |-> KeyOf(t, x)]
  <1>1. F \in Bijection(D, K)
    <2>1. F \in [D -> K]
      OBVIOUS
    <2>2. \A a, b \in D : F[a] = F[b] => a = b
      BY WholeKeys
    <2>3. \A k \in K : \E s \in D : F[s] = k
      OBVIOUS
    <2>. HIDE DEF F, K
    <2>. QED BY ONLY <2>1, <2>2, <2>3, Fun_IsBij
  <1>2. ExistsBijection(D, K)
    BY <1>1 DEF ExistsBijection
  <1>3. IsFiniteSet(D)
    BY ShapedFinite
  <1>. HIDE DEF D, K
  <1>4. Cardinality(K) = Cardinality(D)
    BY <1>2, <1>3, FS_Bijection
  <1>. QED BY <1>4 DEF D, K

(* Renaming keeps the tree and what it holds. *)
LEMMA NamedKeeps ==
  ASSUME NEW V, NULL \in V, NEW t, Whole(t, V), NEW u, u = Renamed(t)
  PROVE  /\ Whole(u, V) /\ \A a, b : At(u, a, b) <=> At(t, a, b)
         /\ \A x \in DOMAIN u.n : KeyOf(u, x) = x
  <1>. DEFINE D == DOMAIN t.n
  <1>1. Named(t, u, V)
    BY NamedIs
  <1>2. /\ Typed(u, V) /\ DOMAIN u.n = {KeyOf(t, x) : x \in D} /\ u.beg = To(t, t.beg) /\ u.len = t.len
        /\ \A x \in D : KeyOf(u, KeyOf(t, x)) = KeyOf(t, x) /\ ValOf(u, KeyOf(t, x)) = ValOf(t, x)
    BY <1>1 DEF Named
  <1>3. \E l2, h2, b2 : Shaped(u, l2, h2, b2)
    BY <1>1, NamedShaped
  <1>4. u.len = Cardinality(DOMAIN u.n)
    BY <1>2, NamedCount DEF Whole
  <1>5. First(u)
    <2>1. CASE D = {}
      BY <1>2, <2>1 DEF Whole, First, To
    <2>2. CASE D # {}
      <3>1. t.beg \in D /\ \A x \in D : KeyOf(t, t.beg) <= KeyOf(t, x)
        BY <2>2 DEF Whole, First
      <3>2. u.beg = KeyOf(t, t.beg)
        BY <1>2, <3>1, CalledIs
      <3>3. u.beg \in DOMAIN u.n /\ DOMAIN u.n # {}
        BY <1>2, <3>1, <3>2
      <3>4. \A y \in DOMAIN u.n : KeyOf(u, u.beg) <= KeyOf(u, y)
        BY <1>2, <3>1, <3>2
      <3>. QED BY <3>3, <3>4 DEF First
    <2>. QED BY <2>1, <2>2
  <1>6. \A a, b : At(u, a, b) <=> At(t, a, b)
    BY <1>2 DEF At, AtIn
  <1>7. \A x \in DOMAIN u.n : KeyOf(u, x) = x
    BY <1>2
  <1>. QED BY <1>2, <1>3, <1>4, <1>5, <1>6, <1>7 DEF Whole

-----------------------------------------------------------------------------
(***************************************************************************)
(* A tree at rest, for the operations that only read.                      *)
(***************************************************************************)
Empty(t, lo, hi, x, d) == \A y \in DOMAIN t.n : ~(Lower(t, lo, x, d) < KeyOf(t, y) /\ KeyOf(t, y) < Upper(t, hi, x, d))

Held(t, lo, hi, x, d) ==
  IF Child(t, x, d) = NULL THEN Empty(t, lo, hi, x, d)
  ELSE /\ Child(t, x, d) \in DOMAIN t.n /\ ParentOf(t, Child(t, x, d)) = x
       /\ lo[Child(t, x, d)] = Lower(t, lo, x, d) /\ hi[Child(t, x, d)] = Upper(t, hi, x, d)

Atop(t, lo, hi, x) == lo[x] = 0 /\ hi[x] = NKey + 1 /\ ParentOf(t, x) = NULL

Under(t, x) == ParentOf(t, x) \in DOMAIN t.n /\ \E d \in Side : Child(t, ParentOf(t, x), d) = x

Fits(t, lo, hi) ==
  /\ NULL \notin DOMAIN t.n /\ NKey \in Nat
  /\ \A x \in DOMAIN t.n :
       /\ lo[x] \in Int /\ hi[x] \in Int /\ KeyOf(t, x) \in Int
       /\ 0 <= lo[x] /\ lo[x] < KeyOf(t, x) /\ KeyOf(t, x) < hi[x] /\ hi[x] <= NKey + 1
  /\ \A x \in DOMAIN t.n : \A d \in Side : Held(t, lo, hi, x, d)
  /\ IF t.root = NULL THEN DOMAIN t.n = {} ELSE t.root \in DOMAIN t.n /\ Atop(t, lo, hi, t.root)
  /\ \A x \in DOMAIN t.n : x = t.root \/ Under(t, x)
  /\ \A x, y \in DOMAIN t.n : KeyOf(t, x) = KeyOf(t, y) => x = y

(* An empty tree, for the operations that read. *)
LEMMA FitsEmpty ==
  ASSUME NEW V, NEW t, Whole(t, V), t.root = NULL, NEW lo, NEW hi
  PROVE  Fits(t, lo, hi)
  <1>1. DOMAIN t.n = {} /\ NKey \in Nat
    BY KeyAssumption DEF Whole, Shaped
  <1>. QED BY <1>1 DEF Fits

(* A tree without its false root, for the operations that read. *)
LEMMA FitsHead ==
  ASSUME NEW V, NULL \in V, NEW t, Whole(t, V), t.root # NULL,
         NEW h, h = WithHead(t), NEW lo, NEW hi, Linked(h, lo, hi)
  PROVE  Fits(t, lo, hi)
  <1>. DEFINE D == DOMAIN t.n
  <1>1. PICK l0, h0, b0 : Shaped(t, l0, h0, b0)
    BY DEF Whole
  <1>2. Typed(t, V) /\ FalseRoot \notin D
    BY <1>1, HeadOn DEF Whole
  <1>3. /\ DOMAIN h.n = D \cup {FalseRoot}
        /\ \A y \in D : /\ KeyOf(h, y) = KeyOf(t, y) /\ ParentOf(h, y) = ParentOf(t, y)
                        /\ \A e \in Side : Child(h, y, e) = Child(t, y, e)
        /\ Child(h, FalseRoot, 1) = t.root
    BY <1>2, WithHeadIs
  <1>4. NULL \notin DOMAIN h.n /\ FalseRoot \in DOMAIN h.n /\ NKey \in Nat
    BY LinkedNames
  <1>5. ASSUME NEW x \in D
        PROVE  /\ lo[x] \in Int /\ hi[x] \in Int /\ KeyOf(t, x) \in Int
               /\ 0 <= lo[x] /\ lo[x] < KeyOf(t, x) /\ KeyOf(t, x) < hi[x] /\ hi[x] <= NKey + 1
    <2>1. x \in DOMAIN h.n \ {FalseRoot} /\ KeyOf(h, x) = KeyOf(t, x)
      BY <1>2, <1>3
    <2>2. lo[x] \in Int /\ hi[x] \in Int /\ KeyOf(h, x) \in Int
      BY <2>1, LinkedNames
    <2>3. lo[x] < KeyOf(h, x) /\ KeyOf(h, x) < hi[x] /\ 0 <= lo[x] /\ hi[x] <= NKey + 1
      BY <2>1 DEF Linked
    <2>. QED BY <2>1, <2>2, <2>3
  <1>6. ASSUME NEW x \in D, NEW d \in Side
        PROVE  Held(t, lo, hi, x, d)
    <2>1. PICK c : c = Child(t, x, d)
      OBVIOUS
    <2>2. x \in DOMAIN h.n /\ x # FalseRoot /\ Child(h, x, d) = c /\ KeyOf(h, x) = KeyOf(t, x)
      BY <1>2, <1>3, <2>1
    <2>3. Lower(h, lo, x, d) = Lower(t, lo, x, d) /\ Upper(h, hi, x, d) = Upper(t, hi, x, d)
      BY <2>2 DEF Lower, Upper
    <2>4. CASE c = NULL
      <3>1. ASSUME NEW y \in D, Lower(t, lo, x, d) < KeyOf(t, y), KeyOf(t, y) < Upper(t, hi, x, d)
            PROVE  FALSE
        <4>1. y \in DOMAIN h.n /\ KeyOf(h, y) = KeyOf(t, y)
          BY <1>3
        <4>. QED BY <2>2, <2>3, <2>4, <3>1, <4>1, SideHasChild
      <3>2. Empty(t, lo, hi, x, d)
        BY <3>1 DEF Empty
      <3>. QED BY <2>1, <2>4, <3>2 DEF Held
    <2>5. CASE c # NULL
      <3>1. /\ c \in DOMAIN h.n /\ c # FalseRoot /\ ParentOf(h, c) = x
            /\ lo[c] = Lower(h, lo, x, d) /\ hi[c] = Upper(h, hi, x, d)
        BY <2>2, <2>5, ChildOf
      <3>2. c \in D
        BY <1>3, <3>1
      <3>3. ParentOf(t, c) = x
        BY <1>3, <3>1, <3>2
      <3>. QED BY <2>1, <2>3, <2>5, <3>1, <3>2, <3>3 DEF Held
    <2>. QED BY <2>4, <2>5
  <1>7. t.root \in D /\ Atop(t, lo, hi, t.root)
    <2>1. t.root \in D /\ ParentOf(t, t.root) = NULL
      BY <1>1 DEF Shaped, Rooted
    <2>2. /\ KeyOf(h, FalseRoot) = 0 /\ hi[FalseRoot] = NKey + 1
      BY DEF Linked
    <2>3. lo[t.root] = Lower(h, lo, FalseRoot, 1) /\ hi[t.root] = Upper(h, hi, FalseRoot, 1)
      BY <1>3, <1>4, ChildOf DEF Side
    <2>. QED BY <2>1, <2>2, <2>3 DEF Atop, Lower, Upper
  <1>8. \A x \in D : x = t.root \/ Under(t, x)
    BY <1>1 DEF Shaped, Under
  <1>9. \A x, y \in D : KeyOf(t, x) = KeyOf(t, y) => x = y
    BY WholeKeys
  <1>. QED BY <1>3, <1>4, <1>5, <1>6, <1>7, <1>8, <1>9 DEF Fits

(* Every tree between two operations can be read. *)
LEMMA FitsExist ==
  ASSUME NEW V, NULL \in V, NEW t, Whole(t, V)
  PROVE  \E lo, hi : Fits(t, lo, hi)
  <1>1. CASE t.root = NULL
    BY <1>1, FitsEmpty
  <1>2. CASE t.root # NULL
    <2>1. PICK h, lo, hi, bh : h = WithHead(t) /\ Sound(h, lo, hi, bh, NULL) /\ Laid(t, h, {})
      BY <1>2, HeadLaid
    <2>2. Fits(t, lo, hi)
      BY <1>2, <2>1, FitsHead DEF Sound
    <2>. QED BY <2>2
  <1>. QED BY <1>1, <1>2

(* The key of a node lies between its bounds. *)
LEMMA FitsNode ==
  ASSUME NEW t, NEW lo, NEW hi, Fits(t, lo, hi), NEW x \in DOMAIN t.n
  PROVE  /\ x # NULL /\ lo[x] \in Int /\ hi[x] \in Int /\ KeyOf(t, x) \in Int /\ NKey \in Nat
         /\ 0 <= lo[x] /\ lo[x] < KeyOf(t, x) /\ KeyOf(t, x) < hi[x] /\ hi[x] <= NKey + 1
  BY DEF Fits

(* The interval of a child is one side of that of its parent. *)
LEMMA FitsChild ==
  ASSUME NEW t, NEW lo, NEW hi, Fits(t, lo, hi), NEW x \in DOMAIN t.n, NEW d \in Side,
         NEW c, c = Child(t, x, d), c # NULL
  PROVE  /\ c \in DOMAIN t.n /\ ParentOf(t, c) = x
         /\ lo[c] = Lower(t, lo, x, d) /\ hi[c] = Upper(t, hi, x, d)
         /\ lo[x] <= lo[c] /\ hi[c] <= hi[x] /\ hi[c] - lo[c] < hi[x] - lo[x]
  <1>1. /\ c \in DOMAIN t.n /\ ParentOf(t, c) = x
        /\ lo[c] = Lower(t, lo, x, d) /\ hi[c] = Upper(t, hi, x, d)
    BY DEF Fits, Held
  <1>2. d = 0 \/ d = 1
    BY DEF Side
  <1>3. lo[x] <= lo[c] /\ hi[c] <= hi[x] /\ hi[c] - lo[c] < hi[x] - lo[x]
    BY <1>1, <1>2, FitsNode DEF Lower, Upper
  <1>. QED BY <1>1, <1>3

(* Where there is no child, no key lies. *)
LEMMA FitsNoChild ==
  ASSUME NEW t, NEW lo, NEW hi, Fits(t, lo, hi), NEW x \in DOMAIN t.n, NEW d \in Side,
         Child(t, x, d) = NULL
  PROVE  Empty(t, lo, hi, x, d)
  BY DEF Fits, Held

(* A child is a node or NULL. *)
LEMMA FitsLink ==
  ASSUME NEW t, NEW lo, NEW hi, Fits(t, lo, hi), NEW x \in DOMAIN t.n, NEW d \in Side
  PROVE  Child(t, x, d) \in Links(t)
  BY FitsChild DEF Links

(* What holds of a node when it holds of its children, holds of all. *)
LEMMA FromBelow ==
  ASSUME NEW t, NEW lo, NEW hi, Fits(t, lo, hi), NEW T,
         \A x \in DOMAIN t.n : (\A d \in Side : Child(t, x, d) \in T \cup {NULL}) => x \in T
  PROVE  \A x \in DOMAIN t.n : x \in T
  <1>. DEFINE N == {n \in Nat : \A x \in DOMAIN t.n : hi[x] - lo[x] <= n => x \in T}
  <1>1. 0 \in N
    <2>1. \A x \in DOMAIN t.n : ~(hi[x] - lo[x] <= 0)
      BY FitsNode
    <2>. QED BY <2>1
  <1>2. ASSUME NEW n \in Nat, n \in N PROVE n + 1 \in N
    <2>. SUFFICES ASSUME NEW x \in DOMAIN t.n, hi[x] - lo[x] <= n + 1 PROVE x \in T
      OBVIOUS
    <2>1. ASSUME NEW d \in Side PROVE Child(t, x, d) \in T \cup {NULL}
      <3>1. PICK c : c = Child(t, x, d)
        OBVIOUS
      <3>2. CASE c # NULL
        <4>1. c \in DOMAIN t.n /\ hi[c] - lo[c] < hi[x] - lo[x]
          BY <3>1, <3>2, FitsChild
        <4>2. hi[c] \in Int /\ lo[c] \in Int /\ hi[x] \in Int /\ lo[x] \in Int
          BY <4>1, FitsNode
        <4>3. hi[c] - lo[c] <= n
          BY <4>1, <4>2
        <4>. QED BY <1>2, <3>1, <4>1, <4>3
      <3>. QED BY <3>1, <3>2
    <2>. QED BY <2>1
  <1>3. \A n \in Nat : n \in N
    <2>. HIDE DEF N
    <2>. QED BY <1>1, <1>2, Induction
  <1>4. ASSUME NEW x \in DOMAIN t.n PROVE x \in T
    <2>1. hi[x] - lo[x] \in Nat
      BY FitsNode
    <2>. QED BY <1>3, <2>1
  <1>. QED BY <1>4

(* What holds of a node when it holds of its parent, holds of all. *)
LEMMA FromAbove ==
  ASSUME NEW t, NEW lo, NEW hi, Fits(t, lo, hi), NEW T,
         \A x \in DOMAIN t.n : (x # t.root => ParentOf(t, x) \in T) => x \in T
  PROVE  \A x \in DOMAIN t.n : x \in T
  <1>. DEFINE N == {n \in Nat : \A x \in DOMAIN t.n : NKey + 1 - (hi[x] - lo[x]) < n => x \in T}
  <1>1. 0 \in N
    <2>1. \A x \in DOMAIN t.n : ~(NKey + 1 - (hi[x] - lo[x]) < 0)
      BY FitsNode
    <2>. QED BY <2>1
  <1>2. ASSUME NEW n \in Nat, n \in N PROVE n + 1 \in N
    <2>. SUFFICES ASSUME NEW x \in DOMAIN t.n, NKey + 1 - (hi[x] - lo[x]) < n + 1 PROVE x \in T
      OBVIOUS
    <2>1. ASSUME x # t.root PROVE ParentOf(t, x) \in T
      <3>1. PICK p : p = ParentOf(t, x)
        OBVIOUS
      <3>2. p \in DOMAIN t.n /\ \E d \in Side : Child(t, p, d) = x
        BY <2>1, <3>1 DEF Fits, Under
      <3>3. hi[x] - lo[x] < hi[p] - lo[p]
        BY <3>2, FitsNode, FitsChild
      <3>4. hi[p] \in Int /\ lo[p] \in Int /\ hi[x] \in Int /\ lo[x] \in Int /\ NKey \in Nat
        BY <3>2, FitsNode
      <3>5. NKey + 1 - (hi[p] - lo[p]) < n
        BY <3>3, <3>4
      <3>. QED BY <1>2, <3>1, <3>2, <3>5
    <2>. QED BY <2>1
  <1>3. \A n \in Nat : n \in N
    <2>. HIDE DEF N
    <2>. QED BY <1>1, <1>2, Induction
  <1>4. ASSUME NEW x \in DOMAIN t.n PROVE x \in T
    <2>1. PICK m : m = NKey + 2 - (hi[x] - lo[x])
      OBVIOUS
    <2>2. m \in Nat /\ NKey + 1 - (hi[x] - lo[x]) < m
      BY <2>1, FitsNode
    <2>. QED BY <1>3, <2>2
  <1>. QED BY <1>4

(* y is at x or below it. *)
In(t, lo, hi, x, y) == y \in DOMAIN t.n /\ lo[x] < KeyOf(t, y) /\ KeyOf(t, y) < hi[x]

(* y comes no later than z in direction d *)
Before(t, d, y, z) == IF d = 0 THEN KeyOf(t, y) <= KeyOf(t, z) ELSE KeyOf(t, z) <= KeyOf(t, y)

(* A node is below itself. *)
LEMMA InSelf ==
  ASSUME NEW t, NEW lo, NEW hi, Fits(t, lo, hi), NEW x \in DOMAIN t.n
  PROVE  In(t, lo, hi, x, x)
  BY FitsNode DEF In

(* All nodes are below the root. *)
LEMMA InRoot ==
  ASSUME NEW t, NEW lo, NEW hi, Fits(t, lo, hi), NEW y \in DOMAIN t.n
  PROVE  t.root \in DOMAIN t.n /\ t.root # NULL /\ In(t, lo, hi, t.root, y)
  <1>1. t.root # NULL /\ t.root \in DOMAIN t.n /\ Atop(t, lo, hi, t.root)
    BY DEF Fits
  <1>2. 0 <= lo[y] /\ lo[y] < KeyOf(t, y) /\ KeyOf(t, y) < hi[y] /\ hi[y] <= NKey + 1
        /\ lo[y] \in Int /\ hi[y] \in Int /\ KeyOf(t, y) \in Int /\ NKey \in Nat
    BY FitsNode
  <1>3. 0 < KeyOf(t, y) /\ KeyOf(t, y) < NKey + 1
    BY <1>2
  <1>. QED BY <1>1, <1>3 DEF In, Atop

(* Below a child is what lies on its side below the node. *)
LEMMA InChild ==
  ASSUME NEW t, NEW lo, NEW hi, Fits(t, lo, hi), NEW x \in DOMAIN t.n, NEW d \in Side,
         NEW c, c = Child(t, x, d), c # NULL, NEW y
  PROVE  In(t, lo, hi, c, y) <=> In(t, lo, hi, x, y) /\ ~Before(t, d, x, y)
  <1>1. /\ lo[c] = Lower(t, lo, x, d) /\ hi[c] = Upper(t, hi, x, d)
    BY FitsChild
  <1>2. lo[x] < KeyOf(t, x) /\ KeyOf(t, x) < hi[x] /\ lo[x] \in Int /\ hi[x] \in Int /\ KeyOf(t, x) \in Int
    BY FitsNode
  <1>3. y \in DOMAIN t.n => KeyOf(t, y) \in Int
    BY FitsNode
  <1>4. d = 0 \/ d = 1
    BY DEF Side
  <1>. QED BY <1>1, <1>2, <1>3, <1>4 DEF In, Before, Lower, Upper

(* Without a child, nothing below the node lies on that side. *)
LEMMA InNone ==
  ASSUME NEW t, NEW lo, NEW hi, Fits(t, lo, hi), NEW x \in DOMAIN t.n, NEW d \in Side,
         Child(t, x, d) = NULL, NEW y, In(t, lo, hi, x, y)
  PROVE  Before(t, d, x, y)
  <1>1. y \in DOMAIN t.n /\ lo[x] < KeyOf(t, y) /\ KeyOf(t, y) < hi[x]
    BY DEF In
  <1>2. ~(Lower(t, lo, x, d) < KeyOf(t, y) /\ KeyOf(t, y) < Upper(t, hi, x, d))
    BY <1>1, FitsNoChild DEF Empty
  <1>3. KeyOf(t, x) \in Int /\ KeyOf(t, y) \in Int
    BY <1>1, FitsNode
  <1>4. d = 0 \/ d = 1
    BY DEF Side
  <1>. QED BY <1>1, <1>2, <1>3, <1>4 DEF Before, Lower, Upper

(* The order of the nodes is strict. *)
LEMMA SameNode ==
  ASSUME NEW t, NEW lo, NEW hi, Fits(t, lo, hi), NEW x \in DOMAIN t.n, NEW y \in DOMAIN t.n,
         NEW d \in Side, Before(t, d, x, y), Before(t, d, y, x)
  PROVE  x = y
  <1>1. KeyOf(t, x) \in Int /\ KeyOf(t, y) \in Int
    BY FitsNode
  <1>2. KeyOf(t, x) = KeyOf(t, y)
    BY <1>1 DEF Before
  <1>. QED BY <1>2 DEF Fits

(***************************************************************************)
(* A walk in one direction ends at the node that comes first that way.     *)
(***************************************************************************)
Outs(g, t, d) == g = [x \in DOMAIN t.n |-> IF Child(t, x, d) = NULL THEN x ELSE g[Child(t, x, d)]]

(* Outermost by the function that the loop of _it_next computes. *)
LEMMA OutermostIs == ASSUME NEW t, NEW q, NEW d PROVE Outermost(t, q, d) = (CHOOSE g : Outs(g, t, d))[q]
  BY DEF Outermost, Outs

Extreme(t, lo, hi, d, x, y) ==
  /\ In(t, lo, hi, x, y)
  /\ \A z \in DOMAIN t.n : In(t, lo, hi, x, z) => Before(t, d, y, z)

(* Without a child on a side, the node is the outermost. *)
LEMMA ExtremeHere ==
  ASSUME NEW t, NEW lo, NEW hi, Fits(t, lo, hi), NEW x \in DOMAIN t.n, NEW d \in Side, Child(t, x, d) = NULL
  PROVE  Extreme(t, lo, hi, d, x, x)
  BY InSelf, InNone DEF Extreme

(* With one, it is the outermost below that. *)
LEMMA ExtremeThere ==
  ASSUME NEW t, NEW lo, NEW hi, Fits(t, lo, hi), NEW x \in DOMAIN t.n, NEW d \in Side,
         NEW c, c = Child(t, x, d), c # NULL, NEW y, Extreme(t, lo, hi, d, c, y)
  PROVE  Extreme(t, lo, hi, d, x, y)
  <1>1. In(t, lo, hi, x, y) /\ ~Before(t, d, x, y)
    BY InChild DEF Extreme
  <1>2. ASSUME NEW z \in DOMAIN t.n, In(t, lo, hi, x, z) PROVE Before(t, d, y, z)
    <2>1. CASE Before(t, d, x, z)
      <3>1. y \in DOMAIN t.n
        BY <1>1 DEF In
      <3>2. KeyOf(t, x) \in Int /\ KeyOf(t, y) \in Int /\ KeyOf(t, z) \in Int
        BY <3>1, FitsNode
      <3>. QED BY <1>1, <2>1, <3>2 DEF Before
    <2>2. CASE ~Before(t, d, x, z)
      <3>1. In(t, lo, hi, c, z)
        BY <1>2, <2>2, InChild
      <3>. QED BY <3>1 DEF Extreme
    <2>. QED BY <2>1, <2>2
  <1>. QED BY <1>1, <1>2 DEF Extreme

(* There is one outermost node at the most, *)
LEMMA ExtremeOne ==
  ASSUME NEW t, NEW lo, NEW hi, Fits(t, lo, hi), NEW x \in DOMAIN t.n, NEW d \in Side,
         NEW y, NEW z, Extreme(t, lo, hi, d, x, y), Extreme(t, lo, hi, d, x, z)
  PROVE  y = z
  <1>1. y \in DOMAIN t.n /\ z \in DOMAIN t.n /\ In(t, lo, hi, x, y) /\ In(t, lo, hi, x, z)
    BY DEF Extreme, In
  <1>2. Before(t, d, y, z) /\ Before(t, d, z, y)
    BY <1>1 DEF Extreme
  <1>. QED BY <1>1, <1>2, SameNode

(* and there is one, *)
LEMMA ExtremeExists ==
  ASSUME NEW t, NEW lo, NEW hi, Fits(t, lo, hi), NEW d \in Side
  PROVE  \A x \in DOMAIN t.n : \E y : Extreme(t, lo, hi, d, x, y)
  <1>. DEFINE T == {x \in DOMAIN t.n : \E y : Extreme(t, lo, hi, d, x, y)}
  <1>1. ASSUME NEW x \in DOMAIN t.n, \A e \in Side : Child(t, x, e) \in T \cup {NULL}
        PROVE  x \in T
    <2>1. CASE Child(t, x, d) = NULL
      BY <2>1, ExtremeHere
    <2>2. CASE Child(t, x, d) # NULL
      <3>1. PICK c : c = Child(t, x, d)
        OBVIOUS
      <3>2. c \in T
        BY <1>1, <2>2, <3>1
      <3>3. PICK y : Extreme(t, lo, hi, d, c, y)
        BY <3>2
      <3>4. Extreme(t, lo, hi, d, x, y)
        BY <2>2, <3>1, <3>3, ExtremeThere
      <3>. QED BY <3>4
    <2>. QED BY <2>1, <2>2
  <1>2. \A x \in DOMAIN t.n : x \in T
    <2>. HIDE DEF T
    <2>. QED BY <1>1, FromBelow
  <1>. QED BY <1>2

(* so that the function exists. *)
LEMMA OutsExist ==
  ASSUME NEW t, NEW lo, NEW hi, Fits(t, lo, hi), NEW d \in Side
  PROVE  \E g : Outs(g, t, d)
  <1>. DEFINE g == [x \in DOMAIN t.n |-> CHOOSE y : Extreme(t, lo, hi, d, x, y)]
  <1>1. ASSUME NEW x \in DOMAIN t.n PROVE Extreme(t, lo, hi, d, x, g[x])
    <2>1. \E y : Extreme(t, lo, hi, d, x, y)
      BY ExtremeExists
    <2>2. g[x] = CHOOSE y : Extreme(t, lo, hi, d, x, y)
      OBVIOUS
    <2>. QED BY ONLY <2>1, <2>2, Zenon
  <1>2. g = [x \in DOMAIN t.n |-> g[x]]
    OBVIOUS
  <1>. HIDE DEF g
  <1>3. ASSUME NEW x \in DOMAIN t.n
        PROVE  g[x] = IF Child(t, x, d) = NULL THEN x ELSE g[Child(t, x, d)]
    <2>1. CASE Child(t, x, d) = NULL
      BY <1>1, <2>1, ExtremeHere, ExtremeOne
    <2>2. CASE Child(t, x, d) # NULL
      <3>1. PICK c : c = Child(t, x, d)
        OBVIOUS
      <3>2. c \in DOMAIN t.n
        BY <2>2, <3>1, FitsChild
      <3>3. Extreme(t, lo, hi, d, x, g[c])
        BY <1>1, <2>2, <3>1, <3>2, ExtremeThere
      <3>. QED BY <1>1, <2>2, <3>1, <3>3, ExtremeOne
    <2>. QED BY <2>1, <2>2
  <1>4. Outs(g, t, d)
    BY <1>2, <1>3 DEF Outs
  <1>. QED BY <1>4

(* _it_next, _it_prev, _last: the walk to a side ends at the node whose    *)
(* key comes first that way.                                               *)
LEMMA OutermostFinds ==
  ASSUME NEW t, NEW lo, NEW hi, Fits(t, lo, hi), NEW d \in Side
  PROVE  \A x \in DOMAIN t.n : Extreme(t, lo, hi, d, x, Outermost(t, x, d))
  <1>1. PICK g : g = CHOOSE f : Outs(f, t, d)
    OBVIOUS
  <1>2. Outs(g, t, d)
    <2>1. \E f : Outs(f, t, d)
      BY OutsExist
    <2>. QED BY <1>1, <2>1, Zenon
  <1>3. \A x : Outermost(t, x, d) = g[x]
    BY <1>1, OutermostIs
  <1>4. \A x \in DOMAIN t.n : g[x] = IF Child(t, x, d) = NULL THEN x ELSE g[Child(t, x, d)]
    BY <1>2 DEF Outs
  <1>. DEFINE T == {x \in DOMAIN t.n : Extreme(t, lo, hi, d, x, g[x])}
  <1>5. ASSUME NEW x \in DOMAIN t.n, \A e \in Side : Child(t, x, e) \in T \cup {NULL}
        PROVE  x \in T
    <2>1. CASE Child(t, x, d) = NULL
      BY <1>4, <2>1, ExtremeHere
    <2>2. CASE Child(t, x, d) # NULL
      <3>1. PICK c : c = Child(t, x, d)
        OBVIOUS
      <3>2. Extreme(t, lo, hi, d, c, g[c])
        BY <1>5, <2>2, <3>1
      <3>3. Extreme(t, lo, hi, d, x, g[c])
        BY <2>2, <3>1, <3>2, ExtremeThere
      <3>. QED BY <1>4, <2>2, <3>1, <3>3
    <2>. QED BY <2>1, <2>2
  <1>6. \A x \in DOMAIN t.n : x \in T
    <2>. HIDE DEF T
    <2>. QED BY <1>5, FromBelow
  <1>. QED BY <1>3, <1>6

(* The side on which a key is sought. *)
LEMMA KeySide ==
  ASSUME NEW t, NEW x, NEW k
  PROVE  /\ Bit(KeyOf(t, x) < k) \in Side
         /\ Bit(KeyOf(t, x) < k) = 0 <=> ~(KeyOf(t, x) < k)
  BY DEF Bit, Side

(***************************************************************************)
(* The search for a key.                                                   *)
(***************************************************************************)
Finds(g, t, k) ==
  g = [x \in Links(t) |-> IF x = NULL \/ t.n[x].key = k THEN x ELSE g[Child(t, x, Bit(t.n[x].key < k))]]

(* Lookup by the function that the loop of _lookup computes. *)
LEMMA LookupIs == ASSUME NEW t, NEW k PROVE Lookup(t, k) = (CHOOSE g : Finds(g, t, k))[t.root]
  BY DEF Lookup, Finds

(* y is what has key k at or below x, or NULL *)
Hit(t, lo, hi, k, x, y) ==
  IF y = NULL THEN x # NULL => \A z \in DOMAIN t.n : In(t, lo, hi, x, z) => KeyOf(t, z) # k
  ELSE x # NULL /\ In(t, lo, hi, x, y) /\ KeyOf(t, y) = k

(* The search ends at the key or at NULL. *)
LEMMA HitHere ==
  ASSUME NEW t, NEW lo, NEW hi, Fits(t, lo, hi), NEW k \in Int,
         NEW x \in Links(t), x = NULL \/ KeyOf(t, x) = k
  PROVE  Hit(t, lo, hi, k, x, x)
  <1>1. CASE x = NULL
    BY <1>1 DEF Hit
  <1>2. CASE x # NULL
    <2>1. x \in DOMAIN t.n /\ In(t, lo, hi, x, x)
      BY <1>2, InSelf DEF Links
    <2>. QED BY <1>2, <2>1 DEF Hit
  <1>. QED BY <1>1, <1>2

(* Otherwise the key lies on the side the comparison gives. *)
LEMMA HitThere ==
  ASSUME NEW t, NEW lo, NEW hi, Fits(t, lo, hi), NEW k \in Int,
         NEW x \in DOMAIN t.n, KeyOf(t, x) # k, NEW c, c = Child(t, x, Bit(KeyOf(t, x) < k)),
         NEW y, Hit(t, lo, hi, k, c, y)
  PROVE  Hit(t, lo, hi, k, x, y)
  <1>. DEFINE d == Bit(KeyOf(t, x) < k)
  <1>1. x # NULL /\ KeyOf(t, x) \in Int /\ d \in Side /\ (d = 0 <=> ~(KeyOf(t, x) < k))
    BY FitsNode, KeySide
  <1>2. ASSUME NEW z \in DOMAIN t.n, KeyOf(t, z) = k PROVE ~Before(t, d, x, z)
    BY <1>1, <1>2 DEF Before
  <1>. HIDE DEF d
  <1>3. c = Child(t, x, d)
    BY DEF d
  <1>4. CASE y # NULL
    <2>1. c # NULL /\ In(t, lo, hi, c, y) /\ KeyOf(t, y) = k
      BY <1>4 DEF Hit
    <2>2. In(t, lo, hi, x, y)
      BY <1>1, <1>3, <2>1, InChild
    <2>. QED BY <1>1, <1>4, <2>1, <2>2 DEF Hit
  <1>5. CASE y = NULL
    <2>1. ASSUME NEW z \in DOMAIN t.n, In(t, lo, hi, x, z), KeyOf(t, z) = k PROVE FALSE
      <3>1. ~Before(t, d, x, z)
        BY <1>2, <2>1
      <3>2. c # NULL
        BY <1>1, <1>3, <2>1, <3>1, InNone
      <3>3. In(t, lo, hi, c, z)
        BY <1>1, <1>3, <2>1, <3>1, <3>2, InChild
      <3>. QED BY <1>5, <2>1, <3>2, <3>3 DEF Hit
    <2>. QED BY <1>5, <2>1 DEF Hit
  <1>. QED BY <1>4, <1>5

(* There is one result at the most, *)
LEMMA HitOne ==
  ASSUME NEW t, NEW lo, NEW hi, Fits(t, lo, hi), NEW k \in Int, NEW x \in Links(t),
         NEW y, NEW z, Hit(t, lo, hi, k, x, y), Hit(t, lo, hi, k, x, z)
  PROVE  y = z
  <1>1. CASE y = NULL \/ z = NULL
    BY <1>1 DEF Hit, In
  <1>2. CASE y # NULL /\ z # NULL
    <2>1. y \in DOMAIN t.n /\ z \in DOMAIN t.n /\ KeyOf(t, y) = k /\ KeyOf(t, z) = k
      BY <1>2 DEF Hit, In
    <2>. QED BY <2>1 DEF Fits
  <1>. QED BY <1>1, <1>2

(* and there is one, *)
LEMMA HitExists ==
  ASSUME NEW t, NEW lo, NEW hi, Fits(t, lo, hi), NEW k, NEW x \in Links(t)
  PROVE  \E y : Hit(t, lo, hi, k, x, y)
  <1>1. CASE \E z \in DOMAIN t.n : x # NULL /\ In(t, lo, hi, x, z) /\ KeyOf(t, z) = k
    <2>1. PICK z \in DOMAIN t.n : x # NULL /\ In(t, lo, hi, x, z) /\ KeyOf(t, z) = k
      BY <1>1
    <2>2. z # NULL
      BY FitsNode
    <2>. QED BY <2>1, <2>2 DEF Hit
  <1>2. CASE ~\E z \in DOMAIN t.n : x # NULL /\ In(t, lo, hi, x, z) /\ KeyOf(t, z) = k
    <2>1. Hit(t, lo, hi, k, x, NULL)
      BY <1>2 DEF Hit
    <2>. QED BY <2>1
  <1>. QED BY <1>1, <1>2

(* so that the function exists, *)
LEMMA FindsExist ==
  ASSUME NEW t, NEW lo, NEW hi, Fits(t, lo, hi), NEW k \in Int
  PROVE  \E g : Finds(g, t, k)
  <1>. DEFINE g == [x \in Links(t) |-> CHOOSE y : Hit(t, lo, hi, k, x, y)]
  <1>1. ASSUME NEW x \in Links(t) PROVE Hit(t, lo, hi, k, x, g[x])
    <2>1. \E y : Hit(t, lo, hi, k, x, y)
      BY HitExists
    <2>2. g[x] = CHOOSE y : Hit(t, lo, hi, k, x, y)
      OBVIOUS
    <2>. QED BY ONLY <2>1, <2>2, Zenon
  <1>2. g = [x \in Links(t) |-> g[x]]
    OBVIOUS
  <1>. HIDE DEF g
  <1>3. ASSUME NEW x \in Links(t)
        PROVE  g[x] = IF x = NULL \/ t.n[x].key = k THEN x ELSE g[Child(t, x, Bit(t.n[x].key < k))]
    <2>1. CASE x = NULL \/ t.n[x].key = k
      <3>1. Hit(t, lo, hi, k, x, x)
        BY <2>1, HitHere DEF KeyOf
      <3>2. g[x] = x
        BY <1>1, <3>1, HitOne
      <3>. QED BY <2>1, <3>2
    <2>2. CASE ~(x = NULL \/ t.n[x].key = k)
      <3>1. PICK c : c = Child(t, x, Bit(t.n[x].key < k))
        OBVIOUS
      <3>2. x \in DOMAIN t.n /\ KeyOf(t, x) # k /\ c = Child(t, x, Bit(KeyOf(t, x) < k))
        BY <2>2, <3>1 DEF KeyOf, Links
      <3>3. c \in Links(t)
        BY <3>2, FitsLink, KeySide
      <3>4. Hit(t, lo, hi, k, x, g[c])
        BY <1>1, <3>2, <3>3, HitThere
      <3>5. g[x] = g[c]
        BY <1>1, <3>4, HitOne
      <3>. QED BY <2>2, <3>1, <3>5
    <2>. QED BY <2>1, <2>2
  <1>4. Finds(g, t, k)
    BY <1>2, <1>3 DEF Finds
  <1>. QED BY <1>4

(* and has that result. *)
LEMMA FindsHit ==
  ASSUME NEW t, NEW lo, NEW hi, Fits(t, lo, hi), NEW k \in Int, NEW g, Finds(g, t, k)
  PROVE  \A x \in Links(t) : Hit(t, lo, hi, k, x, g[x])
  <1>1. \A x \in Links(t) : g[x] = IF x = NULL \/ t.n[x].key = k THEN x ELSE g[Child(t, x, Bit(t.n[x].key < k))]
    BY DEF Finds
  <1>. DEFINE T == {x \in DOMAIN t.n : Hit(t, lo, hi, k, x, g[x])}
  <1>2. NULL \in Links(t) /\ Hit(t, lo, hi, k, NULL, g[NULL])
    <2>1. NULL \in Links(t)
      BY DEF Links
    <2>2. g[NULL] = NULL
      BY <1>1, <2>1
    <2>. QED BY <2>1, <2>2, HitHere
  <1>3. ASSUME NEW x \in DOMAIN t.n, \A e \in Side : Child(t, x, e) \in T \cup {NULL}
        PROVE  x \in T
    <2>1. x \in Links(t) /\ x # NULL
      BY FitsNode DEF Links
    <2>2. CASE t.n[x].key = k
      <3>1. g[x] = x
        BY <1>1, <2>1, <2>2
      <3>2. Hit(t, lo, hi, k, x, x)
        BY <2>1, <2>2, HitHere DEF KeyOf
      <3>. QED BY <3>1, <3>2
    <2>3. CASE t.n[x].key # k
      <3>1. PICK c : c = Child(t, x, Bit(t.n[x].key < k))
        OBVIOUS
      <3>2. KeyOf(t, x) # k /\ c = Child(t, x, Bit(KeyOf(t, x) < k))
        BY <2>3, <3>1 DEF KeyOf
      <3>3. Bit(KeyOf(t, x) < k) \in Side
        BY KeySide
      <3>4. Hit(t, lo, hi, k, c, g[c])
        BY <1>2, <1>3, <3>2, <3>3
      <3>5. Hit(t, lo, hi, k, x, g[c])
        BY <3>2, <3>4, HitThere
      <3>6. g[x] = g[c]
        BY <1>1, <2>1, <2>3, <3>1
      <3>. QED BY <3>5, <3>6
    <2>. QED BY <2>2, <2>3
  <1>4. \A x \in DOMAIN t.n : x \in T
    <2>. HIDE DEF T
    <2>. QED BY <1>3, FromBelow
  <1>. QED BY <1>2, <1>4 DEF Links

(* Lookup finds the node with the key, or NULL where there is none. *)
LEMMA LookupFinds ==
  ASSUME NEW t, NEW lo, NEW hi, Fits(t, lo, hi), NEW k \in Int
  PROVE  IF Lookup(t, k) = NULL THEN \A x \in DOMAIN t.n : KeyOf(t, x) # k
         ELSE Lookup(t, k) \in DOMAIN t.n /\ KeyOf(t, Lookup(t, k)) = k
  <1>1. PICK g : g = CHOOSE f : Finds(f, t, k)
    OBVIOUS
  <1>2. Finds(g, t, k)
    <2>1. \E f : Finds(f, t, k)
      BY FindsExist
    <2>. QED BY <1>1, <2>1, Zenon
  <1>3. Lookup(t, k) = g[t.root]
    BY <1>1, LookupIs
  <1>4. t.root \in Links(t)
    BY DEF Fits, Links
  <1>5. Hit(t, lo, hi, k, t.root, Lookup(t, k))
    BY <1>2, <1>3, <1>4, FindsHit
  <1>6. CASE Lookup(t, k) = NULL
    BY <1>5, <1>6, InRoot DEF Hit
  <1>7. CASE Lookup(t, k) # NULL
    BY <1>5, <1>7 DEF Hit, In
  <1>. QED BY <1>6, <1>7

-----------------------------------------------------------------------------
(***************************************************************************)
(* The first key from k on.                                                *)
(***************************************************************************)
Bounds(g, t, k) ==
  g = [x \in Links(t) |->
         IF x = NULL THEN NULL
         ELSE IF t.n[x].key < k THEN g[Child(t, x, 1)]
         ELSE IF g[Child(t, x, 0)] = NULL THEN x ELSE g[Child(t, x, 0)]]

(* Bound by the function that the loops of _geq and _gtr compute. *)
LEMMA BoundIs == ASSUME NEW t, NEW k PROVE Bound(t, k) = (CHOOSE g : Bounds(g, t, k))[t.root]
  BY DEF Bound, Bounds

(* y is the first from k on, of what is at or below x, or NULL *)
Ceiling(t, lo, hi, k, x, y) ==
  IF y = NULL THEN x # NULL => \A z \in DOMAIN t.n : In(t, lo, hi, x, z) => KeyOf(t, z) < k
  ELSE /\ x # NULL /\ In(t, lo, hi, x, y) /\ k <= KeyOf(t, y)
       /\ \A z \in DOMAIN t.n : In(t, lo, hi, x, z) /\ k <= KeyOf(t, z) => KeyOf(t, y) <= KeyOf(t, z)

(* A node with a smaller key: what is sought lies on its right. *)
LEMMA CeilingLow ==
  ASSUME NEW t, NEW lo, NEW hi, Fits(t, lo, hi), NEW k \in Int,
         NEW x \in DOMAIN t.n, KeyOf(t, x) < k, NEW c, c = Child(t, x, 1),
         NEW y, Ceiling(t, lo, hi, k, c, y)
  PROVE  Ceiling(t, lo, hi, k, x, y)
  <1>1. x # NULL /\ KeyOf(t, x) \in Int /\ 1 \in Side
    BY FitsNode DEF Side
  <1>2. ASSUME NEW z \in DOMAIN t.n, In(t, lo, hi, x, z), k <= KeyOf(t, z)
        PROVE  c # NULL /\ In(t, lo, hi, c, z)
    <2>1. ~Before(t, 1, x, z)
      BY <1>1, <1>2, FitsNode DEF Before
    <2>2. c # NULL
      BY <1>1, <1>2, <2>1, InNone
    <2>. QED BY <1>1, <1>2, <2>1, <2>2, InChild
  <1>3. CASE y # NULL
    <2>1. c # NULL /\ In(t, lo, hi, c, y) /\ k <= KeyOf(t, y)
      BY <1>3 DEF Ceiling
    <2>2. In(t, lo, hi, x, y)
      BY <1>1, <2>1, InChild
    <2>. QED BY <1>1, <1>2, <1>3, <2>1, <2>2 DEF Ceiling
  <1>4. CASE y = NULL
    <2>1. ASSUME NEW z \in DOMAIN t.n, In(t, lo, hi, x, z) PROVE KeyOf(t, z) < k
      <3>1. KeyOf(t, z) \in Int
        BY FitsNode
      <3>2. k <= KeyOf(t, z) => KeyOf(t, z) < k
        BY <1>2, <1>4, <2>1 DEF Ceiling
      <3>. QED BY <3>1, <3>2
    <2>. QED BY <1>4, <2>1 DEF Ceiling
  <1>. QED BY <1>3, <1>4

(* Another node: what is sought lies on its left, or is the node. *)
LEMMA CeilingHigh ==
  ASSUME NEW t, NEW lo, NEW hi, Fits(t, lo, hi), NEW k \in Int,
         NEW x \in DOMAIN t.n, k <= KeyOf(t, x), NEW c, c = Child(t, x, 0),
         NEW y, Ceiling(t, lo, hi, k, c, y)
  PROVE  Ceiling(t, lo, hi, k, x, IF y = NULL THEN x ELSE y)
  <1>1. x # NULL /\ KeyOf(t, x) \in Int /\ 0 \in Side /\ In(t, lo, hi, x, x)
    BY FitsNode, InSelf DEF Side
  <1>2. ASSUME NEW z \in DOMAIN t.n, In(t, lo, hi, x, z), KeyOf(t, z) < KeyOf(t, x)
        PROVE  c # NULL /\ In(t, lo, hi, c, z)
    <2>1. ~Before(t, 0, x, z)
      BY <1>1, <1>2, FitsNode DEF Before
    <2>2. c # NULL
      BY <1>1, <1>2, <2>1, InNone
    <2>. QED BY <1>1, <1>2, <2>1, <2>2, InChild
  <1>3. CASE y # NULL
    <2>1. c # NULL /\ In(t, lo, hi, c, y) /\ k <= KeyOf(t, y)
      BY <1>3 DEF Ceiling
    <2>2. In(t, lo, hi, x, y) /\ ~Before(t, 0, x, y) /\ y \in DOMAIN t.n
      BY <1>1, <2>1, InChild DEF In
    <2>3. KeyOf(t, y) < KeyOf(t, x) /\ KeyOf(t, y) \in Int
      BY <1>1, <2>2, FitsNode DEF Before
    <2>4. ASSUME NEW z \in DOMAIN t.n, In(t, lo, hi, x, z), k <= KeyOf(t, z)
          PROVE  KeyOf(t, y) <= KeyOf(t, z)
      <3>1. KeyOf(t, z) \in Int
        BY FitsNode
      <3>2. CASE KeyOf(t, z) < KeyOf(t, x)
        BY <1>2, <1>3, <2>4, <3>2 DEF Ceiling
      <3>3. CASE ~(KeyOf(t, z) < KeyOf(t, x))
        BY <1>1, <2>3, <3>1, <3>3
      <3>. QED BY <3>2, <3>3
    <2>. QED BY <1>1, <1>3, <2>1, <2>2, <2>4 DEF Ceiling
  <1>4. CASE y = NULL
    <2>1. ASSUME NEW z \in DOMAIN t.n, In(t, lo, hi, x, z), k <= KeyOf(t, z)
          PROVE  KeyOf(t, x) <= KeyOf(t, z)
      <3>1. KeyOf(t, z) \in Int
        BY FitsNode
      <3>2. KeyOf(t, z) < KeyOf(t, x) => KeyOf(t, z) < k
        BY <1>2, <1>4, <2>1 DEF Ceiling
      <3>. QED BY <1>1, <2>1, <3>1, <3>2
    <2>. QED BY <1>1, <1>4, <2>1 DEF Ceiling
  <1>. QED BY <1>3, <1>4

(* There is one result at the most, *)
LEMMA CeilingOne ==
  ASSUME NEW t, NEW lo, NEW hi, Fits(t, lo, hi), NEW k \in Int, NEW x \in Links(t),
         NEW y, NEW z, Ceiling(t, lo, hi, k, x, y), Ceiling(t, lo, hi, k, x, z)
  PROVE  y = z
  <1>1. ASSUME NEW a, NEW b, Ceiling(t, lo, hi, k, x, a), Ceiling(t, lo, hi, k, x, b), a = NULL
        PROVE  b = NULL
    <2>1. SUFFICES ASSUME b # NULL PROVE FALSE
      OBVIOUS
    <2>2. x # NULL /\ In(t, lo, hi, x, b) /\ k <= KeyOf(t, b) /\ b \in DOMAIN t.n
      BY <1>1, <2>1 DEF Ceiling, In
    <2>3. KeyOf(t, b) < k
      BY <1>1, <2>2 DEF Ceiling
    <2>. QED BY <2>2, <2>3, FitsNode
  <1>2. CASE y # NULL /\ z # NULL
    <2>1. /\ y \in DOMAIN t.n /\ z \in DOMAIN t.n /\ In(t, lo, hi, x, y) /\ In(t, lo, hi, x, z)
          /\ k <= KeyOf(t, y) /\ k <= KeyOf(t, z)
      BY <1>2 DEF Ceiling, In
    <2>2. KeyOf(t, y) <= KeyOf(t, z) /\ KeyOf(t, z) <= KeyOf(t, y)
      BY <1>2, <2>1 DEF Ceiling
    <2>3. Before(t, 0, y, z) /\ Before(t, 0, z, y)
      BY <2>2 DEF Before
    <2>. QED BY <2>1, <2>3, SameNode DEF Side
  <1>. QED BY <1>1, <1>2

(* and there is one, *)
LEMMA CeilingExists ==
  ASSUME NEW t, NEW lo, NEW hi, Fits(t, lo, hi), NEW k \in Int
  PROVE  \A x \in Links(t) : \E y : Ceiling(t, lo, hi, k, x, y)
  <1>. DEFINE T == {x \in DOMAIN t.n : \E y : Ceiling(t, lo, hi, k, x, y)}
  <1>1. Ceiling(t, lo, hi, k, NULL, NULL)
    BY DEF Ceiling
  <1>2. ASSUME NEW x \in DOMAIN t.n, \A e \in Side : Child(t, x, e) \in T \cup {NULL}
        PROVE  x \in T
    <2>1. \A e \in Side : \E y : Ceiling(t, lo, hi, k, Child(t, x, e), y)
      BY <1>1, <1>2
    <2>2. PICK c0, c1 : c0 = Child(t, x, 0) /\ c1 = Child(t, x, 1)
      OBVIOUS
    <2>3. PICK y0 : Ceiling(t, lo, hi, k, c0, y0)
      BY <2>1, <2>2 DEF Side
    <2>4. PICK y1 : Ceiling(t, lo, hi, k, c1, y1)
      BY <2>1, <2>2 DEF Side
    <2>5. KeyOf(t, x) \in Int
      BY FitsNode
    <2>6. CASE KeyOf(t, x) < k
      BY <2>2, <2>4, <2>6, CeilingLow
    <2>7. CASE k <= KeyOf(t, x)
      BY <2>2, <2>3, <2>7, CeilingHigh
    <2>. QED BY <2>5, <2>6, <2>7
  <1>3. \A x \in DOMAIN t.n : x \in T
    <2>. HIDE DEF T
    <2>. QED BY <1>2, FromBelow
  <1>. QED BY <1>1, <1>3 DEF Links

(* so that the function exists, *)
LEMMA BoundsExist ==
  ASSUME NEW t, NEW lo, NEW hi, Fits(t, lo, hi), NEW k \in Int
  PROVE  \E g : Bounds(g, t, k)
  <1>. DEFINE g == [x \in Links(t) |-> CHOOSE y : Ceiling(t, lo, hi, k, x, y)]
  <1>1. ASSUME NEW x \in Links(t) PROVE Ceiling(t, lo, hi, k, x, g[x])
    <2>1. \E y : Ceiling(t, lo, hi, k, x, y)
      BY CeilingExists
    <2>2. g[x] = CHOOSE y : Ceiling(t, lo, hi, k, x, y)
      OBVIOUS
    <2>. QED BY ONLY <2>1, <2>2, Zenon
  <1>2. g = [x \in Links(t) |-> g[x]]
    OBVIOUS
  <1>. HIDE DEF g
  <1>3. ASSUME NEW x \in Links(t)
        PROVE  g[x] = IF x = NULL THEN NULL
                      ELSE IF t.n[x].key < k THEN g[Child(t, x, 1)]
                      ELSE IF g[Child(t, x, 0)] = NULL THEN x ELSE g[Child(t, x, 0)]
    <2>1. CASE x = NULL
      <3>1. Ceiling(t, lo, hi, k, x, NULL)
        BY <2>1 DEF Ceiling
      <3>. QED BY <1>1, <2>1, <3>1, CeilingOne
    <2>2. CASE x # NULL
      <3>1. PICK c0, c1 : c0 = Child(t, x, 0) /\ c1 = Child(t, x, 1)
        OBVIOUS
      <3>2. x \in DOMAIN t.n /\ KeyOf(t, x) \in Int
        BY <2>2, FitsNode DEF Links
      <3>3. c0 \in Links(t) /\ c1 \in Links(t)
        BY <3>1, <3>2, FitsLink DEF Side
      <3>4. Ceiling(t, lo, hi, k, c0, g[c0]) /\ Ceiling(t, lo, hi, k, c1, g[c1]) /\ Ceiling(t, lo, hi, k, x, g[x])
        BY <1>1, <3>3
      <3>5. CASE KeyOf(t, x) < k
        <4>1. Ceiling(t, lo, hi, k, x, g[c1])
          BY <3>1, <3>2, <3>4, <3>5, CeilingLow
        <4>2. g[x] = g[c1]
          BY <3>4, <4>1, CeilingOne
        <4>. QED BY <2>2, <3>1, <3>5, <4>2 DEF KeyOf
      <3>6. CASE k <= KeyOf(t, x)
        <4>1. Ceiling(t, lo, hi, k, x, IF g[c0] = NULL THEN x ELSE g[c0])
          BY <3>1, <3>2, <3>4, <3>6, CeilingHigh
        <4>2. g[x] = IF g[c0] = NULL THEN x ELSE g[c0]
          BY <3>4, <4>1, CeilingOne
        <4>3. ~(t.n[x].key < k)
          BY <3>2, <3>6 DEF KeyOf
        <4>. QED BY <2>2, <3>1, <4>2, <4>3
      <3>. QED BY <3>2, <3>5, <3>6
    <2>. QED BY <2>1, <2>2
  <1>4. Bounds(g, t, k)
    BY <1>2, <1>3 DEF Bounds
  <1>. QED BY <1>4

(* and has that result. *)
LEMMA BoundsCeil ==
  ASSUME NEW t, NEW lo, NEW hi, Fits(t, lo, hi), NEW k \in Int, NEW g, Bounds(g, t, k)
  PROVE  \A x \in Links(t) : Ceiling(t, lo, hi, k, x, g[x])
  <1>1. \A x \in Links(t) : g[x] = IF x = NULL THEN NULL
                                   ELSE IF t.n[x].key < k THEN g[Child(t, x, 1)]
                                   ELSE IF g[Child(t, x, 0)] = NULL THEN x ELSE g[Child(t, x, 0)]
    BY DEF Bounds
  <1>. DEFINE T == {x \in DOMAIN t.n : Ceiling(t, lo, hi, k, x, g[x])}
  <1>2. NULL \in Links(t) /\ Ceiling(t, lo, hi, k, NULL, g[NULL])
    <2>1. NULL \in Links(t)
      BY DEF Links
    <2>2. g[NULL] = NULL
      BY <1>1, <2>1
    <2>. QED BY <2>1, <2>2 DEF Ceiling
  <1>3. ASSUME NEW x \in DOMAIN t.n, \A e \in Side : Child(t, x, e) \in T \cup {NULL}
        PROVE  x \in T
    <2>1. x \in Links(t) /\ x # NULL /\ KeyOf(t, x) \in Int
      BY FitsNode DEF Links
    <2>2. PICK c0, c1 : c0 = Child(t, x, 0) /\ c1 = Child(t, x, 1)
      OBVIOUS
    <2>3. Ceiling(t, lo, hi, k, c0, g[c0]) /\ Ceiling(t, lo, hi, k, c1, g[c1])
      BY <1>2, <1>3, <2>2 DEF Side
    <2>4. CASE KeyOf(t, x) < k
      <3>1. g[x] = g[c1]
        BY <1>1, <2>1, <2>2, <2>4 DEF KeyOf
      <3>. QED BY <2>2, <2>3, <2>4, <3>1, CeilingLow
    <2>5. CASE k <= KeyOf(t, x)
      <3>1. ~(t.n[x].key < k)
        BY <2>1, <2>5 DEF KeyOf
      <3>2. g[x] = IF g[c0] = NULL THEN x ELSE g[c0]
        BY <1>1, <2>1, <2>2, <3>1
      <3>. QED BY <2>2, <2>3, <2>5, <3>2, CeilingHigh
    <2>. QED BY <2>1, <2>4, <2>5
  <1>4. \A x \in DOMAIN t.n : x \in T
    <2>. HIDE DEF T
    <2>. QED BY <1>3, FromBelow
  <1>. QED BY <1>2, <1>4 DEF Links

(* Bound finds the node with the first key from k on, or NULL where there is none. *)
LEMMA BoundFinds ==
  ASSUME NEW t, NEW lo, NEW hi, Fits(t, lo, hi), NEW k \in Int
  PROVE  IF Bound(t, k) = NULL THEN \A x \in DOMAIN t.n : KeyOf(t, x) < k
         ELSE /\ Bound(t, k) \in DOMAIN t.n /\ k <= KeyOf(t, Bound(t, k))
              /\ \A x \in DOMAIN t.n : k <= KeyOf(t, x) => KeyOf(t, Bound(t, k)) <= KeyOf(t, x)
  <1>1. PICK g : g = CHOOSE f : Bounds(f, t, k)
    OBVIOUS
  <1>2. Bounds(g, t, k)
    <2>1. \E f : Bounds(f, t, k)
      BY BoundsExist
    <2>. QED BY <1>1, <2>1, Zenon
  <1>3. Bound(t, k) = g[t.root]
    BY <1>1, BoundIs
  <1>4. t.root \in Links(t)
    BY DEF Fits, Links
  <1>5. Ceiling(t, lo, hi, k, t.root, Bound(t, k))
    BY <1>2, <1>3, <1>4, BoundsCeil
  <1>6. CASE Bound(t, k) = NULL
    BY <1>5, <1>6, InRoot DEF Ceiling
  <1>7. CASE Bound(t, k) # NULL
    <2>1. \A x \in DOMAIN t.n : In(t, lo, hi, t.root, x)
      BY InRoot
    <2>. QED BY <1>5, <1>7, <2>1 DEF Ceiling, In
  <1>. QED BY <1>6, <1>7

-----------------------------------------------------------------------------
(***************************************************************************)
(* The way up from the last node on a side.                                *)
(***************************************************************************)
Climbs(p, t, x, d) == p # NULL /\ x = Child(t, p, d)
Ups(g, t, d) ==
  g = [x \in DOMAIN t.n |-> IF Climbs(t.n[x].parent, t, x, d) THEN g[t.n[x].parent] ELSE t.n[x].parent]

(* Ascend by the function that the loop upwards computes. *)
LEMMA AscendIs == ASSUME NEW t, NEW q, NEW d PROVE Ascend(t, q, d) = (CHOOSE g : Ups(g, t, d))[q]
  BY DEF Ascend, Ups, Climbs

(* y is the node whose key bounds x on side d, or NULL *)
Beyond(t, lo, hi, d, x, y) ==
  IF y = NULL THEN IF d = 0 THEN lo[x] = 0 ELSE hi[x] = NKey + 1
  ELSE y \in DOMAIN t.n /\ KeyOf(t, y) = IF d = 0 THEN lo[x] ELSE hi[x]

(* The parent from whose other side the way comes is the neighbour. *)
LEMMA BeyondHere ==
  ASSUME NEW t, NEW lo, NEW hi, Fits(t, lo, hi), NEW d \in Side, NEW x \in DOMAIN t.n,
         NEW p, p = ParentOf(t, x), ~Climbs(p, t, x, d)
  PROVE  Beyond(t, lo, hi, d, x, p)
  <1>1. CASE x = t.root
    BY <1>1 DEF Fits, Atop, Beyond
  <1>2. CASE x # t.root
    <2>1. p \in DOMAIN t.n /\ p # NULL /\ x # NULL
      BY <1>2, FitsNode DEF Fits, Under
    <2>2. PICK e \in Side : Child(t, p, e) = x
      BY <1>2 DEF Fits, Under
    <2>3. e # d
      BY <2>1, <2>2 DEF Climbs
    <2>4. lo[x] = Lower(t, lo, p, e) /\ hi[x] = Upper(t, hi, p, e)
      BY <2>1, <2>2, FitsChild
    <2>5. (d = 0 /\ e = 1) \/ (d = 1 /\ e = 0)
      BY <2>3 DEF Side
    <2>. QED BY <2>1, <2>4, <2>5 DEF Beyond, Lower, Upper
  <1>. QED BY <1>1, <1>2

(* Where the way goes on, it goes to a node. *)
LEMMA ClimbsTo ==
  ASSUME NEW t, NEW lo, NEW hi, Fits(t, lo, hi), NEW d \in Side, NEW x \in DOMAIN t.n,
         NEW p, p = ParentOf(t, x), Climbs(p, t, x, d)
  PROVE  p \in DOMAIN t.n /\ x # t.root
  BY DEF Fits, Atop, Under, Climbs

(* Then the neighbour is that of the parent. *)
LEMMA BeyondThere ==
  ASSUME NEW t, NEW lo, NEW hi, Fits(t, lo, hi), NEW d \in Side, NEW x \in DOMAIN t.n,
         NEW p, p = ParentOf(t, x), Climbs(p, t, x, d), NEW y, Beyond(t, lo, hi, d, p, y)
  PROVE  Beyond(t, lo, hi, d, x, y)
  <1>1. p \in DOMAIN t.n /\ x # NULL
    BY ClimbsTo, FitsNode
  <1>2. lo[x] = Lower(t, lo, p, d) /\ hi[x] = Upper(t, hi, p, d)
    BY <1>1, FitsChild DEF Climbs
  <1>3. d = 0 \/ d = 1
    BY DEF Side
  <1>. QED BY <1>2, <1>3 DEF Beyond, Lower, Upper

(* There is one neighbour at the most, *)
LEMMA BeyondOne ==
  ASSUME NEW t, NEW lo, NEW hi, Fits(t, lo, hi), NEW d \in Side, NEW x \in DOMAIN t.n,
         NEW y, NEW z, Beyond(t, lo, hi, d, x, y), Beyond(t, lo, hi, d, x, z)
  PROVE  y = z
  <1>1. ASSUME NEW a, NEW b, Beyond(t, lo, hi, d, x, a), Beyond(t, lo, hi, d, x, b), a = NULL
        PROVE  b = NULL
    <2>1. SUFFICES ASSUME b # NULL PROVE FALSE
      OBVIOUS
    <2>2. b \in DOMAIN t.n /\ KeyOf(t, b) = IF d = 0 THEN lo[x] ELSE hi[x]
      BY <1>1, <2>1 DEF Beyond
    <2>3. KeyOf(t, b) = IF d = 0 THEN 0 ELSE NKey + 1
      BY <1>1, <2>2 DEF Beyond
    <2>4. /\ 0 <= lo[b] /\ lo[b] < KeyOf(t, b) /\ KeyOf(t, b) < hi[b] /\ hi[b] <= NKey + 1
          /\ lo[b] \in Int /\ hi[b] \in Int /\ KeyOf(t, b) \in Int /\ NKey \in Nat
      BY <2>2, FitsNode
    <2>. QED BY <2>3, <2>4
  <1>2. CASE y # NULL /\ z # NULL
    BY <1>2 DEF Beyond, Fits
  <1>. QED BY <1>1, <1>2

(* and there is one or the end, *)
LEMMA BeyondExists ==
  ASSUME NEW t, NEW lo, NEW hi, Fits(t, lo, hi), NEW d \in Side
  PROVE  \A x \in DOMAIN t.n : \E y : Beyond(t, lo, hi, d, x, y)
  <1>. DEFINE T == {x \in DOMAIN t.n : \E y : Beyond(t, lo, hi, d, x, y)}
  <1>1. ASSUME NEW x \in DOMAIN t.n, x # t.root => ParentOf(t, x) \in T
        PROVE  x \in T
    <2>1. PICK p : p = ParentOf(t, x)
      OBVIOUS
    <2>2. CASE Climbs(p, t, x, d)
      <3>1. PICK y : Beyond(t, lo, hi, d, p, y)
        BY <1>1, <2>1, <2>2, ClimbsTo
      <3>2. Beyond(t, lo, hi, d, x, y)
        BY <2>1, <2>2, <3>1, BeyondThere
      <3>. QED BY <3>2
    <2>3. CASE ~Climbs(p, t, x, d)
      BY <2>1, <2>3, BeyondHere
    <2>. QED BY <2>2, <2>3
  <1>2. \A x \in DOMAIN t.n : x \in T
    <2>. HIDE DEF T
    <2>. QED BY <1>1, FromAbove
  <1>. QED BY <1>2

(* so that the function exists. *)
LEMMA UpsExist ==
  ASSUME NEW t, NEW lo, NEW hi, Fits(t, lo, hi), NEW d \in Side
  PROVE  \E g : Ups(g, t, d)
  <1>. DEFINE g == [x \in DOMAIN t.n |-> CHOOSE y : Beyond(t, lo, hi, d, x, y)]
  <1>1. ASSUME NEW x \in DOMAIN t.n PROVE Beyond(t, lo, hi, d, x, g[x])
    <2>1. \E y : Beyond(t, lo, hi, d, x, y)
      BY BeyondExists
    <2>2. g[x] = CHOOSE y : Beyond(t, lo, hi, d, x, y)
      OBVIOUS
    <2>. QED BY ONLY <2>1, <2>2, Zenon
  <1>2. g = [x \in DOMAIN t.n |-> g[x]]
    OBVIOUS
  <1>. HIDE DEF g
  <1>3. ASSUME NEW x \in DOMAIN t.n
        PROVE  g[x] = IF Climbs(t.n[x].parent, t, x, d) THEN g[t.n[x].parent] ELSE t.n[x].parent
    <2>1. PICK p : p = t.n[x].parent
      OBVIOUS
    <2>2. p = ParentOf(t, x)
      BY <2>1 DEF ParentOf
    <2>3. CASE Climbs(p, t, x, d)
      <3>1. p \in DOMAIN t.n
        BY <2>2, <2>3, ClimbsTo
      <3>2. Beyond(t, lo, hi, d, x, g[p])
        BY <1>1, <2>2, <2>3, <3>1, BeyondThere
      <3>3. g[x] = g[p]
        BY <1>1, <3>2, BeyondOne
      <3>. QED BY <2>1, <2>3, <3>3
    <2>4. CASE ~Climbs(p, t, x, d)
      <3>1. Beyond(t, lo, hi, d, x, p)
        BY <2>2, <2>4, BeyondHere
      <3>2. g[x] = p
        BY <1>1, <3>1, BeyondOne
      <3>. QED BY <2>1, <2>4, <3>2
    <2>. QED BY <2>3, <2>4
  <1>4. Ups(g, t, d)
    BY <1>2, <1>3 DEF Ups
  <1>. QED BY <1>4

(* The way up ends at the next node beyond what lies below, or at the end. *)
LEMMA AscendFinds ==
  ASSUME NEW t, NEW lo, NEW hi, Fits(t, lo, hi), NEW d \in Side
  PROVE  \A x \in DOMAIN t.n : Beyond(t, lo, hi, d, x, Ascend(t, x, d))
  <1>1. PICK g : g = CHOOSE f : Ups(f, t, d)
    OBVIOUS
  <1>2. Ups(g, t, d)
    <2>1. \E f : Ups(f, t, d)
      BY UpsExist
    <2>. QED BY <1>1, <2>1, Zenon
  <1>3. \A x : Ascend(t, x, d) = g[x]
    BY <1>1, AscendIs
  <1>4. \A x \in DOMAIN t.n : g[x] = IF Climbs(t.n[x].parent, t, x, d) THEN g[t.n[x].parent] ELSE t.n[x].parent
    BY <1>2 DEF Ups
  <1>. DEFINE T == {x \in DOMAIN t.n : Beyond(t, lo, hi, d, x, g[x])}
  <1>5. ASSUME NEW x \in DOMAIN t.n, x # t.root => ParentOf(t, x) \in T
        PROVE  x \in T
    <2>1. PICK p : p = t.n[x].parent
      OBVIOUS
    <2>2. p = ParentOf(t, x)
      BY <2>1 DEF ParentOf
    <2>3. CASE Climbs(p, t, x, d)
      <3>1. Beyond(t, lo, hi, d, p, g[p])
        BY <1>5, <2>2, <2>3, ClimbsTo
      <3>2. Beyond(t, lo, hi, d, x, g[p])
        BY <2>2, <2>3, <3>1, BeyondThere
      <3>. QED BY <1>4, <2>1, <2>3, <3>2
    <2>4. CASE ~Climbs(p, t, x, d)
      <3>1. Beyond(t, lo, hi, d, x, p)
        BY <2>2, <2>4, BeyondHere
      <3>. QED BY <1>4, <2>1, <2>4, <3>1
    <2>. QED BY <2>3, <2>4
  <1>6. \A x \in DOMAIN t.n : x \in T
    <2>. HIDE DEF T
    <2>. QED BY <1>5, FromAbove
  <1>. QED BY <1>3, <1>6

(***************************************************************************)
(* The steps of an iterator.                                               *)
(***************************************************************************)
(* y is what comes next after x in direction d, or NULL *)
Follows(t, d, x, y) ==
  IF y = NULL THEN \A z \in DOMAIN t.n : Before(t, d, x, z)
  ELSE /\ y \in DOMAIN t.n /\ ~Before(t, d, x, y)
       /\ \A z \in DOMAIN t.n : ~Before(t, d, x, z) => Before(t, 1 - d, y, z)

(* A step of an iterator goes to the next node in its direction. *)
LEMMA StepFollows ==
  ASSUME NEW t, NEW lo, NEW hi, Fits(t, lo, hi), NEW x \in DOMAIN t.n, NEW d \in Side
  PROVE  Follows(t, d, x, Step(t, x, d))
  <1>1. /\ 0 <= lo[x] /\ lo[x] < KeyOf(t, x) /\ KeyOf(t, x) < hi[x] /\ hi[x] <= NKey + 1
        /\ lo[x] \in Int /\ hi[x] \in Int /\ KeyOf(t, x) \in Int /\ NKey \in Nat /\ x # NULL
    BY FitsNode
  <1>2. (d = 0 \/ d = 1) /\ 1 - d \in Side
    BY DEF Side
  <1>3. PICK y : y = Step(t, x, d)
    OBVIOUS
  <1>4. ASSUME NEW z \in DOMAIN t.n, ~Before(t, d, x, z), ~In(t, lo, hi, x, z)
        PROVE  IF d = 0 THEN KeyOf(t, z) <= lo[x] ELSE hi[x] <= KeyOf(t, z)
    BY <1>1, <1>2, <1>4, FitsNode DEF Before, In
  <1>5. CASE Child(t, x, d) # NULL
    <2>1. PICK c : c = Child(t, x, d)
      OBVIOUS
    <2>2. c \in DOMAIN t.n /\ c # NULL /\ y = Outermost(t, c, 1 - d)
      BY <1>3, <1>5, <2>1, FitsChild DEF Step
    <2>3. Extreme(t, lo, hi, 1 - d, c, y)
      BY <1>2, <2>2, OutermostFinds
    <2>4. y \in DOMAIN t.n /\ In(t, lo, hi, x, y) /\ ~Before(t, d, x, y)
      <3>1. In(t, lo, hi, c, y)
        BY <2>3 DEF Extreme
      <3>. QED BY <2>1, <2>2, <3>1, InChild DEF In
    <2>5. ASSUME NEW z \in DOMAIN t.n, ~Before(t, d, x, z) PROVE Before(t, 1 - d, y, z)
      <3>1. CASE In(t, lo, hi, x, z)
        <4>1. In(t, lo, hi, c, z)
          BY <2>1, <2>2, <2>5, <3>1, InChild
        <4>. QED BY <2>3, <4>1 DEF Extreme
      <3>2. CASE ~In(t, lo, hi, x, z)
        <4>1. IF d = 0 THEN KeyOf(t, z) <= lo[x] ELSE hi[x] <= KeyOf(t, z)
          BY <1>4, <2>5, <3>2
        <4>2. lo[x] < KeyOf(t, y) /\ KeyOf(t, y) < hi[x] /\ KeyOf(t, y) \in Int /\ KeyOf(t, z) \in Int
          BY <2>4, FitsNode DEF In
        <4>. QED BY <1>1, <1>2, <4>1, <4>2 DEF Before
      <3>. QED BY <3>1, <3>2
    <2>6. y # NULL
      BY <2>4, FitsNode
    <2>. QED BY <1>3, <2>4, <2>5, <2>6 DEF Follows
  <1>6. CASE Child(t, x, d) = NULL
    <2>1. Beyond(t, lo, hi, d, x, y)
      BY <1>3, <1>6, AscendFinds DEF Step
    <2>2. ASSUME NEW z \in DOMAIN t.n, ~Before(t, d, x, z)
          PROVE  IF d = 0 THEN KeyOf(t, z) <= lo[x] ELSE hi[x] <= KeyOf(t, z)
      <3>1. ~In(t, lo, hi, x, z)
        BY <1>6, <2>2, InNone
      <3>. QED BY <1>4, <2>2, <3>1
    <2>3. CASE y = NULL
      <3>1. ASSUME NEW z \in DOMAIN t.n, ~Before(t, d, x, z) PROVE FALSE
        <4>1. IF d = 0 THEN KeyOf(t, z) <= lo[x] ELSE hi[x] <= KeyOf(t, z)
          BY <2>2, <3>1
        <4>2. /\ 0 <= lo[z] /\ lo[z] < KeyOf(t, z) /\ KeyOf(t, z) < hi[z] /\ hi[z] <= NKey + 1
              /\ lo[z] \in Int /\ hi[z] \in Int /\ KeyOf(t, z) \in Int
          BY FitsNode
        <4>3. IF d = 0 THEN lo[x] = 0 ELSE hi[x] = NKey + 1
          BY <2>1, <2>3 DEF Beyond
        <4>. QED BY <1>1, <4>1, <4>2, <4>3
      <3>. QED BY <1>3, <2>3, <3>1 DEF Follows
    <2>4. CASE y # NULL
      <3>1. y \in DOMAIN t.n /\ KeyOf(t, y) = IF d = 0 THEN lo[x] ELSE hi[x]
        BY <2>1, <2>4 DEF Beyond
      <3>2. ~Before(t, d, x, y)
        BY <1>1, <1>2, <3>1 DEF Before
      <3>3. ASSUME NEW z \in DOMAIN t.n, ~Before(t, d, x, z) PROVE Before(t, 1 - d, y, z)
        BY <1>2, <2>2, <3>1, <3>3 DEF Before
      <3>. QED BY <1>3, <2>4, <3>1, <3>2, <3>3 DEF Follows
    <2>. QED BY <2>3, <2>4
  <1>. QED BY <1>5, <1>6

(* There is one next node. *)
LEMMA FollowsOne ==
  ASSUME NEW t, NEW lo, NEW hi, Fits(t, lo, hi), NEW d \in Side, NEW x \in DOMAIN t.n,
         NEW y, NEW z, Follows(t, d, x, y), Follows(t, d, x, z)
  PROVE  y = z
  <1>1. CASE y = NULL \/ z = NULL
    BY <1>1 DEF Follows
  <1>2. CASE y # NULL /\ z # NULL
    <2>1. y \in DOMAIN t.n /\ z \in DOMAIN t.n /\ Before(t, 1 - d, y, z) /\ Before(t, 1 - d, z, y)
      BY <1>2 DEF Follows
    <2>2. 1 - d \in Side
      BY DEF Side
    <2>. QED BY <2>1, <2>2, SameNode
  <1>. QED BY <1>1, <1>2

(* tree_it_next goes to the next key, and from the last one to the end. *)
LEMMA ItNextFollows ==
  ASSUME NEW t, NEW lo, NEW hi, Fits(t, lo, hi), NEW x \in DOMAIN t.n
  PROVE  Follows(t, 1, x, ItNext(t, x))
  <1>1. x # NULL
    BY FitsNode
  <1>2. ItNext(t, x) = Step(t, x, 1)
    BY <1>1 DEF ItNext
  <1>. QED BY <1>2, StepFollows DEF Side

(* tree_it_prev goes to the key before, and from the first one to the end. *)
LEMMA ItPrevFollows ==
  ASSUME NEW t, NEW lo, NEW hi, Fits(t, lo, hi), First(t), NEW x \in DOMAIN t.n
  PROVE  Follows(t, 0, x, ItPrev(t, x))
  <1>1. x # NULL /\ 0 \in Side /\ DOMAIN t.n # {}
    BY FitsNode DEF Side
  <1>2. t.beg \in DOMAIN t.n /\ \A z \in DOMAIN t.n : KeyOf(t, t.beg) <= KeyOf(t, z)
    BY <1>1 DEF First
  <1>3. CASE x = t.beg
    <2>1. ItPrev(t, x) = NULL
      BY <1>3 DEF ItPrev
    <2>. QED BY <1>2, <1>3, <2>1 DEF Follows, Before
  <1>4. CASE x # t.beg
    <2>1. ~(Child(t, x, 0) = NULL /\ t.n[x].parent = NULL)
      <3>. SUFFICES ASSUME Child(t, x, 0) = NULL, ParentOf(t, x) = NULL PROVE FALSE
        BY DEF ParentOf
      <3>1. x = t.root
        BY DEF Fits, Under
      <3>2. In(t, lo, hi, x, t.beg)
        BY <1>2, <3>1, InRoot
      <3>3. Before(t, 0, x, t.beg)
        BY <1>1, <3>2, InNone
      <3>4. Before(t, 0, t.beg, x)
        BY <1>2 DEF Before
      <3>. QED BY <1>1, <1>2, <1>4, <3>3, <3>4, SameNode
    <2>2. ItPrev(t, x) = Step(t, x, 0)
      BY <1>1, <1>4, <2>1 DEF ItPrev
    <2>. QED BY <1>1, <2>2, StepFollows
  <1>. QED BY <1>3, <1>4

(* and before the end comes the last one. *)
LEMMA LastIs ==
  ASSUME NEW t, NEW lo, NEW hi, Fits(t, lo, hi)
  PROVE  IF Last(t) = NULL THEN DOMAIN t.n = {}
         ELSE Last(t) \in DOMAIN t.n /\ \A x \in DOMAIN t.n : KeyOf(t, x) <= KeyOf(t, Last(t))
  <1>1. CASE t.root = NULL
    BY <1>1 DEF Fits, Last
  <1>2. CASE t.root # NULL
    <2>1. t.root \in DOMAIN t.n /\ 1 \in Side
      BY <1>2 DEF Fits, Side
    <2>2. Extreme(t, lo, hi, 1, t.root, Last(t))
      BY <1>2, <2>1, OutermostFinds DEF Last
    <2>3. Last(t) \in DOMAIN t.n /\ Last(t) # NULL
      BY <2>2, FitsNode DEF Extreme, In
    <2>4. \A x \in DOMAIN t.n : KeyOf(t, x) <= KeyOf(t, Last(t))
      BY <2>2, InRoot DEF Extreme, Before
    <2>. QED BY <2>3, <2>4
  <1>. QED BY <1>1, <1>2

(* From the end tree_it_prev goes to the last node. *)
LEMMA ItPrevEnd ==
  ASSUME NEW t, NEW lo, NEW hi, Fits(t, lo, hi), First(t)
  PROVE  IF ItPrev(t, NULL) = NULL THEN DOMAIN t.n = {}
         ELSE ItPrev(t, NULL) \in DOMAIN t.n /\ \A x \in DOMAIN t.n : KeyOf(t, x) <= KeyOf(t, ItPrev(t, NULL))
  <1>1. CASE t.beg = NULL
    <2>1. DOMAIN t.n = {}
      BY <1>1, FitsNode DEF First
    <2>2. ItPrev(t, NULL) = NULL
      BY <1>1 DEF ItPrev
    <2>. QED BY <2>1, <2>2
  <1>2. CASE t.beg # NULL
    <2>1. ItPrev(t, NULL) = Last(t)
      BY <1>2 DEF ItPrev
    <2>. QED BY <2>1, LastIs
  <1>. QED BY <1>1, <1>2

-----------------------------------------------------------------------------
(***************************************************************************)
(* A program that uses one tree.                                           *)
(***************************************************************************)
Vals == {Plain, Marked, NULL}

(* Each node has the name of its key, and no value of the helper is left. *)
Plainly(t) == \A x \in DOMAIN t.n : KeyOf(t, x) = x /\ ValOf(t, x) \in {Plain, Marked}

TreeInv == Whole(tree, Vals) /\ Plainly(tree)

(* A tree made is a tree, of whatever values. *)
LEMMA MakeWhole ==
  ASSUME NEW V
  PROVE  Whole(TreeMake, V) /\ DOMAIN TreeMake.n = {}
  <1>. DEFINE e == [x \in {} |-> 0]
  <1>1. PICK t : t = TreeMake
    OBVIOUS
  <1>2. /\ t = [n |-> <<>>, root |-> NULL, beg |-> NULL, len |-> 0]
        /\ DOMAIN t.n = {} /\ t.root = NULL /\ t.beg = NULL /\ t.len = 0
    BY <1>1 DEF TreeMake
  <1>3. t.n \in [DOMAIN t.n -> Field(V)]
    BY <1>2
  <1>4. Typed(t, V)
    BY <1>2, <1>3 DEF Typed, NULL
  <1>5. Shaped(t, e, e, e)
    <2>1. e \in [DOMAIN t.n -> Int] /\ e \in [DOMAIN t.n -> Nat]
      BY <1>2
    <2>. HIDE DEF e
    <2>. QED BY <1>2, <2>1 DEF Shaped
  <1>6. First(t)
    BY <1>2 DEF First
  <1>7. t.len = Cardinality(DOMAIN t.n)
    BY <1>2, FS_EmptySet
  <1>8. Whole(t, V)
    BY <1>4, <1>5, <1>6, <1>7 DEF Whole
  <1>. QED BY <1>1, <1>2, <1>8

(* A tree made holds nothing. *)
LEMMA MadeWhole == Whole(TreeMake, Vals) /\ Plainly(TreeMake) /\ DOMAIN TreeMake.n = {}
  BY MakeWhole DEF Plainly

(* After an insertion the values are the program's. *)
LEMMA PutPlainly ==
  ASSUME NEW t, Whole(t, Vals), Plainly(t), NEW k \in Key, NEW v \in {Plain, Marked},
         NEW u, Became(t, u, k, v), NEW x \in DOMAIN u.n
  PROVE  ValOf(u, x) \in {Plain, Marked}
  <1>1. CASE x \in DOMAIN t.n
    BY <1>1 DEF Became, Plainly
  <1>2. CASE x \notin DOMAIN t.n
    BY <1>2 DEF Became
  <1>. QED BY <1>1, <1>2

(* A renamed tree has the names of its keys. *)
LEMMA RenamedPlainly ==
  ASSUME NEW t, Whole(t, Vals), \A x \in DOMAIN t.n : ValOf(t, x) \in {Plain, Marked}
  PROVE  Whole(Renamed(t), Vals) /\ Plainly(Renamed(t)) /\ \A a, b : At(Renamed(t), a, b) <=> At(t, a, b)
  <1>1. PICK u : u = Renamed(t)
    OBVIOUS
  <1>2. NULL \in Vals
    BY DEF Vals
  <1>3. /\ Whole(u, Vals) /\ \A a, b : At(u, a, b) <=> At(t, a, b)
        /\ \A x \in DOMAIN u.n : KeyOf(u, x) = x
    BY <1>1, <1>2, NamedKeeps
  <1>4. ASSUME NEW x \in DOMAIN u.n PROVE ValOf(u, x) \in {Plain, Marked}
    <2>1. At(u, KeyOf(u, x), ValOf(u, x))
      BY DEF At, AtIn
    <2>2. At(t, KeyOf(u, x), ValOf(u, x))
      BY <1>3, <2>1
    <2>. QED BY <2>2 DEF At, AtIn
  <1>. QED BY <1>1, <1>3, <1>4 DEF Plainly

(* An insertion keeps TreeInv. *)
LEMMA PutKept ==
  ASSUME TreeInv, NEW k \in Key, NEW v \in {Plain, Marked}, PutKey(k, v)
  PROVE  TreeInv' /\ Became(tree, Insert(tree, k, v), k, v)
         /\ \A a, b : At(tree', a, b) <=> At(Insert(tree, k, v), a, b)
  <1>1. PICK u : u = Insert(tree, k, v)
    OBVIOUS
  <1>2. NULL \in Vals /\ v \in Vals /\ Whole(tree, Vals) /\ Plainly(tree)
    BY DEF Vals, TreeInv
  <1>3. Whole(u, Vals) /\ Became(tree, u, k, v)
    BY <1>1, <1>2, InsertKeeps
  <1>4. tree' = Renamed(u)
    BY <1>1 DEF PutKey
  <1>5. \A x \in DOMAIN u.n : ValOf(u, x) \in {Plain, Marked}
    BY <1>2, <1>3, PutPlainly
  <1>6. Whole(tree', Vals) /\ Plainly(tree') /\ \A a, b : At(tree', a, b) <=> At(u, a, b)
    BY <1>3, <1>4, <1>5, RenamedPlainly
  <1>7. TreeInv'
    BY <1>6 DEF TreeInv, Vals, Whole, Typed, Plainly, Shaped, First
  <1>. QED BY <1>1, <1>3, <1>6, <1>7

(* A deletion keeps TreeInv. *)
LEMMA RemoveKept ==
  ASSUME TreeInv, NEW k \in Key, RemoveKey(k)
  PROVE  TreeInv' /\ Lost(tree, Delete(tree, k), k)
         /\ \A a, b : At(tree', a, b) <=> At(Delete(tree, k), a, b)
  <1>1. PICK u : u = Delete(tree, k)
    OBVIOUS
  <1>2. NULL \in Vals /\ Whole(tree, Vals) /\ Plainly(tree)
    BY DEF Vals, TreeInv
  <1>3. Whole(u, Vals) /\ Lost(tree, u, k)
    BY <1>1, <1>2, DeleteKeeps
  <1>4. tree' = Renamed(u)
    BY <1>1 DEF RemoveKey
  <1>5. ASSUME NEW x \in DOMAIN u.n PROVE ValOf(u, x) \in {Plain, Marked}
    <2>1. At(u, KeyOf(u, x), ValOf(u, x))
      BY DEF At, AtIn
    <2>2. At(tree, KeyOf(u, x), ValOf(u, x))
      BY <1>3, <2>1 DEF Lost
    <2>. QED BY <1>2, <2>2 DEF At, AtIn, Plainly
  <1>6. Whole(tree', Vals) /\ Plainly(tree') /\ \A a, b : At(tree', a, b) <=> At(u, a, b)
    BY <1>3, <1>4, <1>5, RenamedPlainly
  <1>7. TreeInv'
    BY <1>6 DEF TreeInv
  <1>. QED BY <1>1, <1>3, <1>6, <1>7

(* TreeInv is an inductive invariant: whatever is inserted and deleted,    *)
(* the tree is whole between two operations.                               *)
THEOREM TreeWhole == TreeSpec => []TreeInv
  <1>1. TreeInit => TreeInv
    BY MadeWhole DEF TreeInit, TreeInv
  <1>2. TreeInv /\ [TreeNext]_tree => TreeInv'
    <2>. SUFFICES ASSUME TreeInv, [TreeNext]_tree PROVE TreeInv'
      OBVIOUS
    <2>1. CASE \E k \in Key, v \in {Plain, Marked} : PutKey(k, v)
      BY <2>1, PutKept
    <2>2. CASE \E k \in Key : RemoveKey(k)
      BY <2>2, RemoveKept
    <2>3. CASE Remake
      BY <2>3, MadeWhole DEF Remake, TreeInv
    <2>4. CASE UNCHANGED tree
      BY <2>4 DEF TreeInv
    <2>. QED BY <2>1, <2>2, <2>3, <2>4 DEF TreeNext
  <1>. QED BY <1>1, <1>2, PTL DEF TreeSpec

-----------------------------------------------------------------------------
(***************************************************************************)
(* The shape of the tree, as TreeUse states it.                            *)
(***************************************************************************)
LEMMA BelowNone ==
  ASSUME NEW t, DOMAIN t.n = {}
  PROVE  Below(t, NULL) = {}
  <1>. DEFINE e == [x \in {NULL} |-> {}]
  <1>1. Links(t) = {NULL}
    BY DEF Links
  <1>2. e = [x \in Links(t) |-> IF x = NULL THEN {} ELSE {x} \cup e[Child(t, x, 0)] \cup e[Child(t, x, 1)]]
    BY <1>1
  <1>3. PICK g : g = CHOOSE f : Belows(f, t)
    OBVIOUS
  <1>4. Belows(g, t)
    <2>. HIDE DEF e
    <2>1. \E f : Belows(f, t)
      BY <1>2 DEF Belows
    <2>. QED BY <1>3, <2>1, Zenon
  <1>5. g[NULL] = {}
    BY <1>1, <1>4 DEF Belows
  <1>. QED BY <1>3, <1>5, BelowIs

(* Below of a node: the nodes within its interval. *)
LEMMA BelowHeld ==
  ASSUME NEW V, NULL \in V, NEW t, Whole(t, V)
  PROVE  \E lo, hi : /\ Fits(t, lo, hi) /\ Below(t, NULL) = {}
                     /\ \A x \in DOMAIN t.n :
                          Below(t, x) = {y \in DOMAIN t.n : lo[x] <= lo[y] /\ hi[y] <= hi[x]}
  <1>1. CASE t.root = NULL
    <2>1. DOMAIN t.n = {} /\ Fits(t, 0, 0)
      BY <1>1, FitsEmpty DEF Fits
    <2>. QED BY <2>1, BelowNone
  <1>2. CASE t.root # NULL
    <2>1. PICK h, lo, hi, bh : h = WithHead(t) /\ Sound(h, lo, hi, bh, NULL) /\ Laid(t, h, {})
      BY <1>2, HeadLaid
    <2>2. Linked(h, lo, hi)
      BY <2>1 DEF Sound
    <2>3. Fits(t, lo, hi)
      BY <1>2, <2>1, <2>2, FitsHead
    <2>4. Below(t, NULL) = {}
      BY <2>1, <2>2, BelowLeaf
    <2>5. DOMAIN t.n = DOMAIN h.n \ {FalseRoot} /\ FalseRoot \in DOMAIN h.n
      BY <2>1, <2>2, LinkedNames DEF Laid
    <2>6. ASSUME NEW x \in DOMAIN t.n
          PROVE  Below(t, x) = {y \in DOMAIN t.n : lo[x] <= lo[y] /\ hi[y] <= hi[x]}
      <3>1. Below(t, x) = Span(h, lo, hi, x)
        BY <2>1, <2>2, <2>5, BelowSpan
      <3>2. x # NULL /\ 0 <= lo[x] /\ lo[x] \in Int
        BY <2>3, FitsNode
      <3>3. Below(t, x) = {y \in DOMAIN h.n : lo[x] <= lo[y] /\ hi[y] <= hi[x]}
        BY <3>1, <3>2 DEF Span
      <3>4. ~(lo[x] <= lo[FalseRoot])
        <4>1. lo[FalseRoot] = -1
          BY <2>2 DEF Linked
        <4>. QED BY <3>2, <4>1
      <3>. QED BY <2>5, <3>3, <3>4
    <2>. QED BY <2>3, <2>4, <2>6
  <1>. QED BY <1>1, <1>2

(* All allocated nodes are reached from the root: none is lost or freed    *)
(* too early.                                                              *)
LEMMA ReachAll ==
  ASSUME NEW V, NULL \in V, NEW t, Whole(t, V)
  PROVE  Below(t, t.root) = DOMAIN t.n
  <1>1. PICK lo, hi : /\ Fits(t, lo, hi) /\ Below(t, NULL) = {}
                      /\ \A x \in DOMAIN t.n :
                           Below(t, x) = {y \in DOMAIN t.n : lo[x] <= lo[y] /\ hi[y] <= hi[x]}
    BY BelowHeld
  <1>2. CASE t.root = NULL
    BY <1>1, <1>2 DEF Fits
  <1>3. CASE t.root # NULL
    <2>1. t.root \in DOMAIN t.n /\ lo[t.root] = 0 /\ hi[t.root] = NKey + 1
      BY <1>1, <1>3 DEF Fits, Atop
    <2>2. \A y \in DOMAIN t.n : 0 <= lo[y] /\ hi[y] <= NKey + 1
      BY <1>1, FitsNode
    <2>. QED BY <1>1, <2>1, <2>2
  <1>. QED BY <1>2, <1>3

(* What is below a child lies on its side of the node. *)
LEMMA BelowSide ==
  ASSUME NEW V, NULL \in V, NEW t, Whole(t, V), NEW x \in DOMAIN t.n, NEW d \in Side,
         NEW y \in Below(t, Child(t, x, d))
  PROVE  y \in DOMAIN t.n /\ IF d = 0 THEN KeyOf(t, y) < KeyOf(t, x) ELSE KeyOf(t, x) < KeyOf(t, y)
  <1>1. PICK lo, hi : /\ Fits(t, lo, hi) /\ Below(t, NULL) = {}
                      /\ \A z \in DOMAIN t.n :
                           Below(t, z) = {w \in DOMAIN t.n : lo[z] <= lo[w] /\ hi[w] <= hi[z]}
    BY BelowHeld
  <1>2. PICK c : c = Child(t, x, d)
    OBVIOUS
  <1>3. c # NULL
    BY <1>1, <1>2
  <1>4. c \in DOMAIN t.n /\ lo[c] = Lower(t, lo, x, d) /\ hi[c] = Upper(t, hi, x, d)
    BY <1>1, <1>2, <1>3, FitsChild
  <1>5. y \in DOMAIN t.n /\ lo[c] <= lo[y] /\ hi[y] <= hi[c]
    BY <1>1, <1>2, <1>4
  <1>6. /\ lo[y] < KeyOf(t, y) /\ KeyOf(t, y) < hi[y] /\ lo[y] \in Int /\ hi[y] \in Int
        /\ KeyOf(t, y) \in Int /\ KeyOf(t, x) \in Int /\ lo[c] \in Int /\ hi[c] \in Int
    BY <1>1, <1>4, <1>5, FitsNode
  <1>7. d = 0 \/ d = 1
    BY DEF Side
  <1>. QED BY <1>4, <1>5, <1>6, <1>7 DEF Lower, Upper

Heights(g, t) ==
  g = [x \in Links(t) |-> IF x = NULL THEN 0 ELSE g[Child(t, x, 0)] + Bit(~t.n[x].red)]

(* BlackHeight by its function. *)
LEMMA HeightIs == ASSUME NEW q PROVE BlackHeight(q) = (CHOOSE g : Heights(g, tree))[q]
  BY DEF BlackHeight, Heights

(* The black height on the left is that of every way down. *)
LEMMA HeightTall ==
  ASSUME NEW V, NULL \in V, Whole(tree, V), NEW l0, NEW h0, NEW bh, Shaped(tree, l0, h0, bh)
  PROVE  \A x \in Links(tree) : BlackHeight(x) = Tall(bh, x)
  <1>1. PICK lo, hi : Fits(tree, lo, hi)
    BY FitsExist
  <1>2. /\ NULL \in Links(tree) /\ NULL \notin DOMAIN tree.n
        /\ \A x \in DOMAIN tree.n : x \in Links(tree) /\ x # NULL /\ Child(tree, x, 0) \in Links(tree)
    <2>1. 0 \in Side
      BY DEF Side
    <2>2. \A x \in DOMAIN tree.n : x # NULL /\ Child(tree, x, 0) \in Links(tree)
      BY <1>1, <2>1, FitsLink, FitsNode
    <2>. QED BY <2>2 DEF Links
  <1>3. \A x \in DOMAIN tree.n : Tall(bh, x) = Tall(bh, Child(tree, x, 0)) + Bit(~tree.n[x].red)
    <2>1. \A x \in DOMAIN tree.n : bh[x] = Tall(bh, Child(tree, x, 0)) + Bit(~RedOf(tree, x))
      BY DEF Shaped, Side
    <2>. QED BY <1>2, <2>1 DEF Tall, RedOf
  <1>4. \E g : Heights(g, tree)
    <2>1. PICK g : g = [x \in Links(tree) |-> Tall(bh, x)]
      OBVIOUS
    <2>2. ASSUME NEW x \in Links(tree)
          PROVE  Tall(bh, x) = IF x = NULL THEN 0 ELSE g[Child(tree, x, 0)] + Bit(~tree.n[x].red)
      <3>1. CASE x = NULL
        BY <3>1 DEF Tall
      <3>2. CASE x # NULL
        <4>1. x \in DOMAIN tree.n /\ g[Child(tree, x, 0)] = Tall(bh, Child(tree, x, 0))
          BY <1>2, <2>1, <3>2 DEF Links
        <4>. QED BY <1>3, <3>2, <4>1
      <3>. QED BY <3>1, <3>2
    <2>3. Heights(g, tree)
      BY <2>1, <2>2 DEF Heights
    <2>. QED BY <2>3
  <1>5. PICK g : g = CHOOSE f : Heights(f, tree)
    OBVIOUS
  <1>6. Heights(g, tree)
    BY <1>4, <1>5, Zenon
  <1>7. \A x : BlackHeight(x) = g[x]
    BY <1>5, HeightIs
  <1>8. \A x \in Links(tree) : g[x] = IF x = NULL THEN 0 ELSE g[Child(tree, x, 0)] + Bit(~tree.n[x].red)
    BY <1>6 DEF Heights
  <1>9. g[NULL] = Tall(bh, NULL)
    BY <1>2, <1>8 DEF Tall
  <1>. DEFINE T == {x \in DOMAIN tree.n : g[x] = Tall(bh, x)}
  <1>10. ASSUME NEW x \in DOMAIN tree.n, \A e \in Side : Child(tree, x, e) \in T \cup {NULL}
         PROVE  x \in T
    <2>1. PICK c : c = Child(tree, x, 0)
      OBVIOUS
    <2>2. g[c] = Tall(bh, c)
      BY <1>9, <1>10, <2>1 DEF Side
    <2>3. g[x] = g[c] + Bit(~tree.n[x].red)
      BY <1>2, <1>8, <2>1
    <2>. QED BY <1>3, <2>1, <2>2, <2>3
  <1>11. \A x \in DOMAIN tree.n : x \in T
    <2>. HIDE DEF T
    <2>. QED BY <1>1, <1>10, FromBelow
  <1>. QED BY <1>7, <1>9, <1>11 DEF Links

(* Both sides of a node have the same black height. *)
LEMMA HeightsAgree ==
  ASSUME NEW V, NULL \in V, Whole(tree, V), NEW x \in DOMAIN tree.n
  PROVE  BlackHeight(Child(tree, x, 0)) = BlackHeight(Child(tree, x, 1))
  <1>1. PICK lo, hi, bh : Shaped(tree, lo, hi, bh)
    BY DEF Whole
  <1>2. PICK c0, c1 : c0 = Child(tree, x, 0) /\ c1 = Child(tree, x, 1)
    OBVIOUS
  <1>3. /\ c0 \in Links(tree) /\ bh[x] = Tall(bh, c0) + Bit(~RedOf(tree, x))
        /\ c1 \in Links(tree) /\ bh[x] = Tall(bh, c1) + Bit(~RedOf(tree, x))
    BY <1>1, <1>2 DEF Shaped, Side
  <1>4. ASSUME NEW c \in Links(tree) PROVE Tall(bh, c) \in Nat
    BY <1>1 DEF Tall, Links, Shaped
  <1>5. Bit(~RedOf(tree, x)) \in Nat
    BY DEF Bit
  <1>6. Tall(bh, c0) = Tall(bh, c1)
    BY <1>3, <1>4, <1>5
  <1>. QED BY <1>1, <1>2, <1>3, <1>6, HeightTall

(* The first node is the leftmost. *)
LEMMA FirstOutermost ==
  ASSUME NEW V, NULL \in V, NEW t, Whole(t, V)
  PROVE  t.beg = IF t.root = NULL THEN NULL ELSE Outermost(t, t.root, 0)
  <1>1. PICK lo, hi : Fits(t, lo, hi)
    BY FitsExist
  <1>2. First(t)
    BY DEF Whole
  <1>3. CASE t.root = NULL
    BY <1>1, <1>2, <1>3 DEF Fits, First
  <1>4. CASE t.root # NULL
    <2>1. t.root \in DOMAIN t.n /\ 0 \in Side
      BY <1>1, <1>4 DEF Fits, Side
    <2>2. PICK y : y = Outermost(t, t.root, 0)
      OBVIOUS
    <2>3. Extreme(t, lo, hi, 0, t.root, y)
      BY <1>1, <2>1, <2>2, OutermostFinds
    <2>4. t.beg \in DOMAIN t.n /\ \A x \in DOMAIN t.n : Before(t, 0, t.beg, x)
      BY <1>2, <2>1 DEF First, Before
    <2>5. y \in DOMAIN t.n /\ Before(t, 0, y, t.beg)
      BY <1>1, <2>3, <2>4, InRoot DEF Extreme, In
    <2>6. t.beg = y
      BY <1>1, <2>1, <2>4, <2>5, SameNode
    <2>. QED BY <1>4, <2>2, <2>6
  <1>. QED BY <1>3, <1>4

(* The keys are the names of the nodes. *)
LEMMA KeysAre ==
  ASSUME TreeInv
  PROVE  Keys = DOMAIN tree.n /\ Reach = DOMAIN tree.n
  <1>1. NULL \in Vals /\ Whole(tree, Vals) /\ Plainly(tree)
    BY DEF TreeInv, Vals
  <1>2. Reach = DOMAIN tree.n
    BY <1>1, ReachAll DEF Reach
  <1>3. \A x \in DOMAIN tree.n : tree.n[x].key = x
    BY <1>1 DEF Plainly, KeyOf
  <1>. QED BY <1>2, <1>3 DEF Keys

(* TreeInv is enough for Shape. *)
LEMMA ShapeHolds == TreeInv => Shape
  <1>. SUFFICES ASSUME TreeInv PROVE Shape
    OBVIOUS
  <1>1. NULL \in Vals /\ Whole(tree, Vals) /\ Plainly(tree)
    BY DEF TreeInv, Vals
  <1>2. Keys = DOMAIN tree.n /\ Reach = DOMAIN tree.n
    BY KeysAre
  <1>3. tree.len = Cardinality(Reach) /\ tree.len = Cardinality(Keys)
    BY <1>1, <1>2 DEF Whole
  <1>4. PICK lo, hi, bh : Shaped(tree, lo, hi, bh)
    BY <1>1 DEF Whole
  <1>5. tree.root # NULL => ~IsRed(tree, tree.root) /\ tree.n[tree.root].parent = NULL
    BY <1>4, IsRedIs DEF Shaped, Rooted, ParentOf
  <1>6. tree.beg = IF tree.root = NULL THEN NULL ELSE Outermost(tree, tree.root, 0)
    BY <1>1, FirstOutermost
  <1>7. ASSUME NEW x \in Reach, NEW d \in {0, 1}
        PROVE  /\ Child(tree, x, d) # NULL => tree.n[Child(tree, x, d)].parent = x
               /\ IsRed(tree, x) => ~IsRed(tree, Child(tree, x, d))
               /\ \A y \in Below(tree, Child(tree, x, d)) :
                    IF d = 0 THEN tree.n[y].key < tree.n[x].key ELSE tree.n[y].key > tree.n[x].key
    <2>1. x \in DOMAIN tree.n /\ d \in Side
      BY <1>2 DEF Side
    <2>2. Child(tree, x, d) # NULL => ParentOf(tree, Child(tree, x, d)) = x
      BY <1>4, <2>1 DEF Shaped, Hung
    <2>3. ~(RedOf(tree, x) /\ IsRed(tree, Child(tree, x, d)))
      BY <1>4, <2>1 DEF Shaped
    <2>4. IsRed(tree, x) => ~IsRed(tree, Child(tree, x, d))
      BY <2>3, IsRedIs
    <2>5. ASSUME NEW y \in Below(tree, Child(tree, x, d))
          PROVE  IF d = 0 THEN tree.n[y].key < tree.n[x].key ELSE tree.n[y].key > tree.n[x].key
      <3>1. /\ y \in DOMAIN tree.n
            /\ IF d = 0 THEN KeyOf(tree, y) < KeyOf(tree, x) ELSE KeyOf(tree, x) < KeyOf(tree, y)
        BY <1>1, <2>1, BelowSide
      <3>2. KeyOf(tree, x) = tree.n[x].key /\ KeyOf(tree, y) = tree.n[y].key
        BY DEF KeyOf
      <3>3. KeyOf(tree, x) \in Int /\ KeyOf(tree, y) \in Int
        BY <1>4, <2>1, <3>1 DEF Shaped, Key
      <3>. QED BY <3>1, <3>2, <3>3
    <2>. QED BY <2>2, <2>4, <2>5 DEF ParentOf
  <1>8. \A x \in Reach : BlackHeight(Child(tree, x, 0)) = BlackHeight(Child(tree, x, 1))
    BY <1>1, <1>2, HeightsAgree
  <1>. QED BY <1>2, <1>3, <1>5, <1>6, <1>7, <1>8 DEF Shape

(* tree.h: after any operations the red-black invariants hold, and         *)
(* parents, first node, length and allocated nodes agree with the links.   *)
THEOREM ShapeAlways == TreeSpec => []Shape
  BY TreeWhole, ShapeHolds, PTL

-----------------------------------------------------------------------------
(***************************************************************************)
(* The tree is an ordered map.                                             *)
(***************************************************************************)
MapOf(t) == [k \in {t.n[x].key : x \in Below(t, t.root)} |-> t.n[Lookup(t, k)].val]

(* _lookup finds the node of every key there is. *)
LEMMA LookupHere ==
  ASSUME NEW V, NULL \in V, NEW t, Whole(t, V), NEW x \in DOMAIN t.n
  PROVE  Lookup(t, KeyOf(t, x)) = x
  <1>1. PICK lo, hi : Fits(t, lo, hi)
    BY FitsExist
  <1>2. PICK k : k = KeyOf(t, x)
    OBVIOUS
  <1>3. k \in Int
    BY <1>1, <1>2, FitsNode
  <1>4. IF Lookup(t, k) = NULL THEN \A y \in DOMAIN t.n : KeyOf(t, y) # k
        ELSE Lookup(t, k) \in DOMAIN t.n /\ KeyOf(t, Lookup(t, k)) = k
    BY <1>1, <1>3, LookupFinds
  <1>5. Lookup(t, k) \in DOMAIN t.n /\ KeyOf(t, Lookup(t, k)) = KeyOf(t, x)
    BY <1>2, <1>4
  <1>6. Lookup(t, k) = x
    BY <1>1, <1>5 DEF Fits
  <1>. QED BY <1>2, <1>6

(* The map a tree stands for. *)
LEMMA MapOfIs ==
  ASSUME NEW t, Whole(t, Vals), Plainly(t)
  PROVE  MapOf(t) = [k \in DOMAIN t.n |-> ValOf(t, k)]
  <1>1. NULL \in Vals
    BY DEF Vals
  <1>2. Below(t, t.root) = DOMAIN t.n
    BY <1>1, ReachAll
  <1>3. \A x \in DOMAIN t.n : t.n[x].key = x
    BY DEF Plainly, KeyOf
  <1>4. {t.n[x].key : x \in Below(t, t.root)} = DOMAIN t.n
    BY <1>2, <1>3
  <1>5. \A k \in DOMAIN t.n : t.n[Lookup(t, k)].val = ValOf(t, k)
    <2>1. \A k \in DOMAIN t.n : Lookup(t, KeyOf(t, k)) = k /\ KeyOf(t, k) = k
      BY <1>1, LookupHere DEF Plainly
    <2>. QED BY <2>1 DEF ValOf
  <1>. QED BY <1>4, <1>5 DEF MapOf

(* It is the one TreeUse maps to. *)
LEMMA MapIs == [k \in Keys |-> tree.n[Lookup(tree, k)].val] = MapOf(tree)
  BY DEF MapOf, Keys, Reach

(* What is at a key of a tree of a program. *)
LEMMA AtIs ==
  ASSUME NEW t, Plainly(t), NEW a, NEW b
  PROVE  At(t, a, b) <=> a \in DOMAIN t.n /\ ValOf(t, a) = b
  BY DEF At, AtIn, Plainly

(* What is at a key after an insertion. *)
LEMMA AtPut ==
  ASSUME NEW t, Plainly(t), NEW k, NEW v, NEW u, Became(t, u, k, v), NEW a, NEW b
  PROVE  At(u, a, b) <=> IF a = k THEN b = v ELSE At(t, a, b)
  <1>1. \A x \in DOMAIN t.n : KeyOf(t, x) = x
    BY DEF Plainly
  <1>2. \A x \in DOMAIN t.n : /\ x \in DOMAIN u.n /\ KeyOf(u, x) = x
                              /\ ValOf(u, x) = IF x = k THEN v ELSE ValOf(t, x)
    BY <1>1 DEF Became
  <1>3. Among(t, k) <=> k \in DOMAIN t.n
    BY <1>1 DEF Among
  <1>4. CASE k \in DOMAIN t.n
    <2>1. DOMAIN u.n = DOMAIN t.n
      BY <1>3, <1>4 DEF Became
    <2>2. At(u, a, b) <=> a \in DOMAIN t.n /\ b = IF a = k THEN v ELSE ValOf(t, a)
      BY <1>2, <2>1 DEF At, AtIn
    <2>. QED BY <1>4, <2>2, AtIs
  <1>5. CASE k \notin DOMAIN t.n
    <2>1. PICK q \in DOMAIN u.n : /\ DOMAIN u.n = DOMAIN t.n \cup {q} /\ q \notin DOMAIN t.n
                                  /\ KeyOf(u, q) = k /\ ValOf(u, q) = v
      BY <1>3, <1>5 DEF Became
    <2>2. At(u, a, b) <=> (a = k /\ b = v) \/ (a \in DOMAIN t.n /\ b = IF a = k THEN v ELSE ValOf(t, a))
      BY <1>2, <2>1 DEF At, AtIn
    <2>. QED BY <1>5, <2>2, AtIs
  <1>. QED BY <1>4, <1>5

With(m, k, v) == [x \in DOMAIN m \cup {k} |-> IF x = k THEN v ELSE m[x]]
Without(m, k) == [x \in DOMAIN m \ {k} |-> m[x]]

(* An insertion puts the value into the map. *)
LEMMA PutMap ==
  ASSUME NEW t, Whole(t, Vals), Plainly(t), NEW u, Whole(u, Vals), Plainly(u), NEW k, NEW v,
         \A a, b : At(u, a, b) <=> IF a = k THEN b = v ELSE At(t, a, b)
  PROVE  MapOf(u) = With(MapOf(t), k, v)
  <1>1. /\ MapOf(t) = [x \in DOMAIN t.n |-> ValOf(t, x)]
        /\ MapOf(u) = [x \in DOMAIN u.n |-> ValOf(u, x)]
    BY MapOfIs
  <1>2. \A a : a \in DOMAIN u.n <=> a \in DOMAIN t.n \cup {k}
    <2>. SUFFICES ASSUME NEW a PROVE a \in DOMAIN u.n <=> a \in DOMAIN t.n \cup {k}
      OBVIOUS
    <2>1. a \in DOMAIN u.n <=> At(u, a, ValOf(u, a))
      BY AtIs
    <2>2. a \in DOMAIN t.n <=> At(t, a, ValOf(t, a))
      BY AtIs
    <2>3. a # k => (At(u, a, ValOf(u, a)) <=> At(t, a, ValOf(u, a)))
      OBVIOUS
    <2>4. a # k => (At(u, a, ValOf(t, a)) <=> At(t, a, ValOf(t, a)))
      OBVIOUS
    <2>5. At(u, k, v)
      OBVIOUS
    <2>. QED BY <2>1, <2>2, <2>3, <2>4, <2>5, AtIs
  <1>3. ASSUME NEW a \in DOMAIN u.n PROVE ValOf(u, a) = IF a = k THEN v ELSE ValOf(t, a)
    <2>1. At(u, a, ValOf(u, a))
      BY AtIs
    <2>2. IF a = k THEN ValOf(u, a) = v ELSE At(t, a, ValOf(u, a))
      BY <2>1
    <2>. QED BY <2>2, AtIs
  <1>. QED BY <1>1, <1>2, <1>3 DEF With

(* A deletion takes the key out of the map. *)
LEMMA RemoveMap ==
  ASSUME NEW t, Whole(t, Vals), Plainly(t), NEW u, Whole(u, Vals), Plainly(u), NEW k,
         Lost(t, u, k)
  PROVE  MapOf(u) = Without(MapOf(t), k)
  <1>1. /\ MapOf(t) = [x \in DOMAIN t.n |-> ValOf(t, x)]
        /\ MapOf(u) = [x \in DOMAIN u.n |-> ValOf(u, x)]
    BY MapOfIs
  <1>2. ASSUME NEW a
        PROVE  /\ a \in DOMAIN u.n <=> a \in DOMAIN t.n \ {k}
               /\ a \in DOMAIN u.n => ValOf(u, a) = ValOf(t, a)
    <2>1. \A b : (a \in DOMAIN u.n /\ ValOf(u, a) = b) <=> (a \in DOMAIN t.n /\ ValOf(t, a) = b /\ a # k)
      BY AtIs DEF Lost
    <2>. QED BY <2>1
  <1>. QED BY <1>1, <1>2 DEF Without

(* tree.h: every operation does to the map what OrderedMap says, also      *)
(* where it restructures the tree without need.                            *)
THEOREM TreeImplements == TreeSpec => Implements
  <1>. DEFINE map == [k \in Keys |-> tree.n[Lookup(tree, k)].val]
  <1>1. TreeInit => Map!Init
    <2>. SUFFICES ASSUME TreeInit PROVE map = [k \in {} |-> {}]
      BY DEF Map!Init
    <2>1. map = MapOf(tree)
      BY MapIs
    <2>2. MapOf(tree) = [k \in DOMAIN tree.n |-> ValOf(tree, k)] /\ DOMAIN tree.n = {}
      BY MadeWhole, MapOfIs DEF TreeInit
    <2>. HIDE DEF map
    <2>. QED BY <2>1, <2>2
  <1>2. TreeInv /\ [TreeNext]_tree => [Map!Next]_map
    <2>. SUFFICES ASSUME TreeInv, [TreeNext]_tree PROVE Map!Next \/ map' = map
      OBVIOUS
    <2>1. map = MapOf(tree) /\ map' = MapOf(tree')
      BY MapIs DEF MapOf, Keys, Reach
    <2>2. Whole(tree, Vals) /\ Plainly(tree)
      BY DEF TreeInv
    <2>3. ASSUME NEW k \in Key, NEW v \in {Plain, Marked}, PutKey(k, v)
          PROVE  map' = [x \in DOMAIN map \cup {k} |-> IF x = k THEN v ELSE map[x]]
      <3>1. TreeInv' /\ Became(tree, Insert(tree, k, v), k, v)
            /\ \A a, b : At(tree', a, b) <=> At(Insert(tree, k, v), a, b)
        BY <2>3, PutKept
      <3>2. Whole(tree', Vals) /\ Plainly(tree')
        BY <3>1 DEF TreeInv
      <3>3. \A a, b : At(tree', a, b) <=> IF a = k THEN b = v ELSE At(tree, a, b)
        BY <2>2, <3>1, AtPut
      <3>4. MapOf(tree') = With(MapOf(tree), k, v)
        <4>1. PICK t, u : t = tree /\ u = tree'
          OBVIOUS
        <4>2. /\ Whole(t, Vals) /\ Plainly(t) /\ Whole(u, Vals) /\ Plainly(u)
              /\ \A a, b : At(u, a, b) <=> IF a = k THEN b = v ELSE At(t, a, b)
          BY <2>2, <3>2, <3>3, <4>1
        <4>3. MapOf(u) = With(MapOf(t), k, v)
          BY ONLY <4>2, PutMap
        <4>. QED BY <4>1, <4>3
      <3>. HIDE DEF map
      <3>. QED BY <2>1, <3>4 DEF With
    <2>4. ASSUME NEW k \in Key, RemoveKey(k)
          PROVE  map' = [x \in DOMAIN map \ {k} |-> map[x]]
      <3>1. TreeInv' /\ Lost(tree, Delete(tree, k), k)
            /\ \A a, b : At(tree', a, b) <=> At(Delete(tree, k), a, b)
        BY <2>4, RemoveKept
      <3>2. Whole(tree', Vals) /\ Plainly(tree')
        BY <3>1 DEF TreeInv
      <3>3. \A a, b : At(tree', a, b) <=> At(tree, a, b) /\ a # k
        BY <3>1 DEF Lost
      <3>4. MapOf(tree') = Without(MapOf(tree), k)
        <4>1. PICK t, u : t = tree /\ u = tree'
          OBVIOUS
        <4>2. /\ Whole(t, Vals) /\ Plainly(t) /\ Whole(u, Vals) /\ Plainly(u)
              /\ Lost(t, u, k)
          BY <2>2, <3>2, <3>3, <4>1 DEF Lost
        <4>3. MapOf(u) = Without(MapOf(t), k)
          BY ONLY <4>2, RemoveMap
        <4>. QED BY <4>1, <4>3
      <3>. HIDE DEF map
      <3>. QED BY <2>1, <3>4 DEF Without
    <2>5. ASSUME Remake PROVE map' = [x \in {} |-> {}]
      <3>1. MapOf(tree') = [k \in DOMAIN (tree').n |-> ValOf(tree', k)] /\ DOMAIN (tree').n = {}
        BY <2>5, MadeWhole, MapOfIs DEF Remake
      <3>. HIDE DEF map
      <3>. QED BY <2>1, <3>1
    <2>6. ASSUME UNCHANGED tree PROVE map' = map
      <3>. HIDE DEF map
      <3>. QED BY <2>1, <2>6
    <2>. QED BY <2>3, <2>4, <2>5, <2>6 DEF TreeNext, Map!Next, Map!Put, Map!Remove, Map!Clear
  <1>. QED BY <1>1, <1>2, TreeWhole, PTL DEF TreeSpec, Implements, Map!Spec

-----------------------------------------------------------------------------
(***************************************************************************)
(* Range lookups.                                                          *)
(***************************************************************************)
LeastOf(S) == IF S = {} THEN NULL ELSE CHOOSE x \in S : \A y \in S : x <= y
MostOf(S)  == IF S = {} THEN NULL ELSE CHOOSE x \in S : \A y \in S : x >= y

(* The least of a set of keys. *)
LEMMA LeastIs ==
  ASSUME NEW S, S \subseteq Int, NEW x \in S, \A y \in S : x <= y
  PROVE  LeastOf(S) = x
  <1>1. PICK z : z = CHOOSE w \in S : \A y \in S : w <= y
    OBVIOUS
  <1>2. z \in S /\ \A y \in S : z <= y
    BY <1>1
  <1>3. z = x
    BY <1>2
  <1>. QED BY <1>1, <1>3 DEF LeastOf

(* The greatest of a set of keys. *)
LEMMA MostIs ==
  ASSUME NEW S, S \subseteq Int, NEW x \in S, \A y \in S : x >= y
  PROVE  MostOf(S) = x
  <1>1. PICK z : z = CHOOSE w \in S : \A y \in S : w >= y
    OBVIOUS
  <1>2. z \in S /\ \A y \in S : z >= y
    BY <1>1
  <1>3. z = x
    BY <1>2
  <1>. QED BY <1>1, <1>3 DEF MostOf

(* LookupsRight in terms of these. *)
LEMMA LookupsAre ==
  LookupsRight <=>
    \A k \in Key \cup {0} :
      /\ To(tree, Lookup(tree, k)) = IF k \in Keys THEN k ELSE NULL
      /\ To(tree, Geq(tree, k)) = LeastOf({x \in Keys : x >= k})
      /\ To(tree, Gtr(tree, k)) = LeastOf({x \in Keys : x > k})
      /\ To(tree, Floor(k)) = MostOf({x \in Keys : x <= k})
  BY DEF LookupsRight, To, LeastOf, MostOf

(* a node of a tree of a program *)
LEMMA NodeIs ==
  ASSUME NEW t, Whole(t, Vals), Plainly(t)
  PROVE  /\ NULL \notin DOMAIN t.n /\ To(t, NULL) = NULL
         /\ \A x \in DOMAIN t.n : x \in Int /\ x # NULL /\ KeyOf(t, x) = x /\ To(t, x) = x
  <1>1. NULL \notin DOMAIN t.n /\ \A x \in DOMAIN t.n : KeyOf(t, x) \in Key
    <2>1. NULL \in Vals
      BY DEF Vals
    <2>. QED BY <2>1, ShapedLinks
  <1>2. \A x \in DOMAIN t.n : KeyOf(t, x) = x
    BY DEF Plainly
  <1>3. \A x \in DOMAIN t.n : x \in Int
    BY <1>1, <1>2 DEF Key
  <1>. QED BY <1>1, <1>2, <1>3 DEF To, KeyOf

(* _geq and _gtr find the least key from k on. *)
LEMMA BoundIsLeast ==
  ASSUME NEW t, Whole(t, Vals), Plainly(t), NEW k \in Int
  PROVE  To(t, Bound(t, k)) = LeastOf({x \in DOMAIN t.n : x >= k})
  <1>. DEFINE S == {x \in DOMAIN t.n : x >= k}
  <1>1. PICK lo, hi : Fits(t, lo, hi)
    BY FitsExist DEF Vals
  <1>2. PICK b : b = Bound(t, k)
    OBVIOUS
  <1>3. IF b = NULL THEN \A x \in DOMAIN t.n : KeyOf(t, x) < k
        ELSE /\ b \in DOMAIN t.n /\ k <= KeyOf(t, b)
             /\ \A x \in DOMAIN t.n : k <= KeyOf(t, x) => KeyOf(t, b) <= KeyOf(t, x)
    BY <1>1, <1>2, BoundFinds
  <1>4. CASE b = NULL
    <2>1. S = {}
      BY <1>3, <1>4, NodeIs
    <2>. QED BY <1>2, <1>4, <2>1, NodeIs DEF LeastOf
  <1>5. CASE b # NULL
    <2>1. S \subseteq Int /\ b \in S /\ \A y \in S : b <= y
      BY <1>3, <1>5, NodeIs
    <2>2. LeastOf(S) = b
      <3>. HIDE DEF S
      <3>. QED BY <2>1, LeastIs
    <2>. QED BY <1>2, <1>3, <1>5, <2>2, NodeIs
  <1>. QED BY <1>4, <1>5

(* One step back from there is the greatest key up to k. *)
LEMMA FloorIsMost ==
  ASSUME NEW t, Whole(t, Vals), Plainly(t), NEW k \in Int
  PROVE  To(t, ItPrev(t, Gtr(t, k))) = MostOf({x \in DOMAIN t.n : x <= k})
  <1>. DEFINE S == {x \in DOMAIN t.n : x <= k}
  <1>1. PICK lo, hi : Fits(t, lo, hi)
    BY FitsExist DEF Vals
  <1>2. PICK b : b = Bound(t, k + 1)
    OBVIOUS
  <1>3. IF b = NULL THEN \A x \in DOMAIN t.n : KeyOf(t, x) < k + 1
        ELSE /\ b \in DOMAIN t.n /\ k + 1 <= KeyOf(t, b)
             /\ \A x \in DOMAIN t.n : k + 1 <= KeyOf(t, x) => KeyOf(t, b) <= KeyOf(t, x)
    BY <1>1, <1>2, BoundFinds
  <1>4. PICK p : p = ItPrev(t, b)
    OBVIOUS
  <1>5. Gtr(t, k) = b /\ First(t)
    BY <1>2 DEF Gtr, Whole
  <1>6. p = NULL \/ p \in DOMAIN t.n
    <2>1. CASE b = NULL
      BY <1>1, <1>4, <1>5, <2>1, ItPrevEnd
    <2>2. CASE b # NULL
      <3>1. Follows(t, 0, b, p)
        BY <1>1, <1>3, <1>4, <1>5, <2>2, ItPrevFollows
      <3>. QED BY <3>1 DEF Follows
    <2>. QED BY <2>1, <2>2
  <1>7. (p = NULL => S = {}) /\ (p # NULL => p \in S /\ \A y \in S : p >= y)
    <2>1. CASE b = NULL
      <3>1. IF p = NULL THEN DOMAIN t.n = {} ELSE p \in DOMAIN t.n /\ \A x \in DOMAIN t.n : KeyOf(t, x) <= KeyOf(t, p)
        BY <1>1, <1>4, <1>5, <2>1, ItPrevEnd
      <3>2. \A x \in DOMAIN t.n : x <= k /\ x \in Int /\ KeyOf(t, x) = x
        BY <1>3, <2>1, NodeIs
      <3>. QED BY <3>1, <3>2
    <2>2. CASE b # NULL
      <3>1. Follows(t, 0, b, p)
        BY <1>1, <1>3, <1>4, <1>5, <2>2, ItPrevFollows
      <3>2. \A x \in DOMAIN t.n : x \in Int /\ KeyOf(t, x) = x
        BY NodeIs
      <3>3. b \in DOMAIN t.n /\ k + 1 <= b /\ \A x \in DOMAIN t.n : k + 1 <= x => b <= x
        BY <1>3, <2>2, <3>2
      <3>4. \A x \in DOMAIN t.n : x <= k <=> x < b
        BY <3>2, <3>3
      <3>5. \A x \in DOMAIN t.n : Before(t, 0, b, x) <=> b <= x
        BY <3>2, <3>3 DEF Before
      <3>6. \A x, y \in DOMAIN t.n : Before(t, 1, x, y) <=> y <= x
        BY <3>2 DEF Before
      <3>7. CASE p = NULL
        <4>1. \A z \in DOMAIN t.n : Before(t, 0, b, z)
          BY <3>1, <3>7 DEF Follows
        <4>. QED BY <3>2, <3>3, <3>4, <3>5, <3>7, <4>1
      <3>8. CASE p # NULL
        <4>1. p \in DOMAIN t.n /\ ~Before(t, 0, b, p)
              /\ \A z \in DOMAIN t.n : ~Before(t, 0, b, z) => Before(t, 1 - 0, p, z)
          BY <3>1, <3>8 DEF Follows
        <4>2. 1 - 0 = 1
          OBVIOUS
        <4>3. p < b /\ \A z \in DOMAIN t.n : z < b => z <= p
          BY <3>2, <3>3, <3>5, <3>6, <4>1, <4>2
        <4>. QED BY <3>2, <3>4, <3>8, <4>1, <4>3
      <3>. QED BY <3>7, <3>8
    <2>. QED BY <2>1, <2>2
  <1>8. CASE p = NULL
    BY <1>4, <1>5, <1>7, <1>8, NodeIs DEF MostOf
  <1>9. CASE p # NULL
    <2>1. S \subseteq Int
      BY NodeIs
    <2>2. MostOf(S) = p
      <3>. HIDE DEF S
      <3>. QED BY <1>7, <1>9, <2>1, MostIs
    <2>. QED BY <1>4, <1>5, <1>6, <1>9, <2>2, NodeIs
  <1>. QED BY <1>8, <1>9

(* _lookup finds k or nothing. *)
LEMMA LookupIsKey ==
  ASSUME NEW t, Whole(t, Vals), Plainly(t), NEW k \in Int
  PROVE  To(t, Lookup(t, k)) = IF k \in DOMAIN t.n THEN k ELSE NULL
  <1>1. PICK lo, hi : Fits(t, lo, hi)
    BY FitsExist DEF Vals
  <1>2. PICK b : b = Lookup(t, k)
    OBVIOUS
  <1>3. IF b = NULL THEN \A x \in DOMAIN t.n : KeyOf(t, x) # k
        ELSE b \in DOMAIN t.n /\ KeyOf(t, b) = k
    BY <1>1, <1>2, LookupFinds
  <1>. QED BY <1>2, <1>3, NodeIs

(* TreeInv is enough for LookupsRight. *)
LEMMA LookupsHold == TreeInv => LookupsRight
  <1>. SUFFICES ASSUME TreeInv PROVE LookupsRight
    OBVIOUS
  <1>1. Whole(tree, Vals) /\ Plainly(tree)
    BY DEF TreeInv
  <1>2. Keys = DOMAIN tree.n
    BY KeysAre
  <1>3. ASSUME NEW k \in Key \cup {0}
        PROVE  /\ To(tree, Lookup(tree, k)) = IF k \in Keys THEN k ELSE NULL
               /\ To(tree, Geq(tree, k)) = LeastOf({x \in Keys : x >= k})
               /\ To(tree, Gtr(tree, k)) = LeastOf({x \in Keys : x > k})
               /\ To(tree, Floor(k)) = MostOf({x \in Keys : x <= k})
    <2>1. k \in Int
      BY DEF Key
    <2>2. \A x \in DOMAIN tree.n : x > k <=> x >= k + 1
      BY <1>1, <2>1, NodeIs
    <2>3. {x \in Keys : x > k} = {x \in DOMAIN tree.n : x >= k + 1}
      BY <1>2, <2>2
    <2>4. To(tree, Lookup(tree, k)) = IF k \in Keys THEN k ELSE NULL
      BY <1>1, <1>2, <2>1, LookupIsKey
    <2>5. To(tree, Bound(tree, k)) = LeastOf({x \in Keys : x >= k})
      BY <1>1, <1>2, <2>1, BoundIsLeast
    <2>6. To(tree, Bound(tree, k + 1)) = LeastOf({x \in DOMAIN tree.n : x >= k + 1})
      <3>1. k + 1 \in Int
        BY <2>1
      <3>. QED BY <1>1, <3>1, BoundIsLeast
    <2>7. To(tree, Floor(k)) = MostOf({x \in Keys : x <= k})
      BY <1>1, <1>2, <2>1, FloorIsMost DEF Floor
    <2>. QED BY <2>3, <2>4, <2>5, <2>6, <2>7 DEF Geq, Gtr
  <1>. QED BY <1>3, LookupsAre

(* tree.h: for every key, present or absent, each range lookup finds what  *)
(* a search of the whole key set finds.                                    *)
THEOREM LookupsAlways == TreeSpec => []LookupsRight
  BY TreeWhole, LookupsHold, PTL

-----------------------------------------------------------------------------
(***************************************************************************)
(* Traversals.  w gives the nodes their order: the keys, or on the way     *)
(* back their opposites.                                                   *)
(***************************************************************************)
Ranked(D, w, x) == {z \in D : w[z] < w[x]}
Passed(D, w, x) == {z \in D : w[z] <= w[x]}

(* y comes next after x *)
Nexts(D, w, x, y) ==
  IF y = NULL THEN \A z \in D : w[z] <= w[x]
  ELSE y \in D /\ w[x] < w[y] /\ \A z \in D : w[x] < w[z] => w[y] <= w[z]

Starts(D, w, x) == IF x = NULL THEN D = {} ELSE x \in D /\ \A z \in D : w[x] <= w[z]

(* at is where an iterator is, one step after the other *)
Visits(D, w, at, L) ==
  /\ Starts(D, w, at[1])
  /\ \A i \in 1..L : IF at[i] = NULL THEN at[i+1] = NULL ELSE Nexts(D, w, at[i], at[i+1])

Ordered(D, w) ==
  /\ IsFiniteSet(D) /\ NULL \notin D
  /\ \A x \in D : w[x] \in Int
  /\ \A x, y \in D : w[x] = w[y] => x = y

(* An iterator stays within the nodes until it ends. *)
LEMMA VisitsWithin ==
  ASSUME NEW D, NEW w, Ordered(D, w), NEW L \in Nat, NEW at, Visits(D, w, at, L)
  PROVE  \A i \in 1..L+1 : at[i] \in D \cup {NULL}
  <1>. DEFINE T == {n \in Nat : n + 1 \in 1..L+1 => at[n+1] \in D \cup {NULL}}
  <1>1. 0 \in T
    BY DEF Visits, Starts
  <1>2. ASSUME NEW n \in Nat, n \in T PROVE n + 1 \in T
    <2>. SUFFICES ASSUME n + 2 \in 1..L+1 PROVE at[n + 2] \in D \cup {NULL}
      OBVIOUS
    <2>1. n + 1 \in 1..L /\ (n + 1) + 1 = n + 2
      OBVIOUS
    <2>2. IF at[n + 1] = NULL THEN at[n + 2] = NULL ELSE Nexts(D, w, at[n + 1], at[n + 2])
      BY <2>1 DEF Visits
    <2>. QED BY <2>2 DEF Nexts
  <1>3. \A n \in Nat : n \in T
    <2>. HIDE DEF T
    <2>. QED BY <1>1, <1>2, Induction
  <1>4. ASSUME NEW i \in 1..L+1 PROVE at[i] \in D \cup {NULL}
    <2>1. i - 1 \in Nat /\ (i - 1) + 1 = i
      OBVIOUS
    <2>2. i - 1 \in T
      BY <1>3, <2>1
    <2>. QED BY <2>1, <2>2
  <1>. QED BY <1>4

(* the nodes passed once x has been *)
LEMMA RankNext ==
  ASSUME NEW D, NEW w, Ordered(D, w), NEW x \in D
  PROVE  /\ IsFiniteSet(Ranked(D, w, x)) /\ x \notin Ranked(D, w, x)
         /\ Cardinality(Ranked(D, w, x) \cup {x}) = Cardinality(Ranked(D, w, x)) + 1
         /\ Cardinality(Ranked(D, w, x)) \in Nat
         /\ Ranked(D, w, x) \cup {x} = Passed(D, w, x)
  <1>1. IsFiniteSet(Ranked(D, w, x))
    BY FS_Subset DEF Ordered, Ranked
  <1>2. x \notin Ranked(D, w, x)
    BY DEF Ranked, Ordered
  <1>3. /\ Cardinality(Ranked(D, w, x) \cup {x}) = Cardinality(Ranked(D, w, x)) + 1
        /\ Cardinality(Ranked(D, w, x)) \in Nat
    BY <1>1, <1>2, FS_AddElement, FS_CardinalityType
  <1>4. Ranked(D, w, x) \cup {x} = Passed(D, w, x)
    BY DEF Ranked, Passed, Ordered
  <1>. QED BY <1>1, <1>2, <1>3, <1>4

(* The i-th node visited has i - 1 nodes before it. *)
LEMMA VisitsRank ==
  ASSUME NEW D, NEW w, Ordered(D, w), NEW L, L = Cardinality(D), NEW at, Visits(D, w, at, L)
  PROVE  \A i \in 1..L+1 : IF at[i] = NULL THEN L <= i - 1 ELSE Cardinality(Ranked(D, w, at[i])) = i - 1
  <1>0. L \in Nat
    BY FS_CardinalityType DEF Ordered
  <1>. DEFINE T == {n \in Nat : n + 1 \in 1..L+1 =>
                       IF at[n+1] = NULL THEN L <= n ELSE Cardinality(Ranked(D, w, at[n+1])) = n}
  <1>1. 0 \in T
    <2>1. 0 + 1 = 1
      OBVIOUS
    <2>2. CASE at[1] = NULL
      <3>1. D = {}
        BY <2>2 DEF Visits, Starts
      <3>. QED BY <2>2, <3>1, FS_EmptySet
    <2>3. CASE at[1] # NULL
      <3>1. at[1] \in D /\ \A z \in D : w[at[1]] <= w[z]
        BY <2>3 DEF Visits, Starts
      <3>2. Ranked(D, w, at[1]) = {}
        BY <3>1 DEF Ranked, Ordered
      <3>. QED BY <2>3, <3>2, FS_EmptySet
    <2>. QED BY <2>2, <2>3
  <1>2. ASSUME NEW n \in Nat, n \in T PROVE n + 1 \in T
    <2>. SUFFICES ASSUME n + 2 \in 1..L+1
                  PROVE IF at[n+2] = NULL THEN L <= n + 1 ELSE Cardinality(Ranked(D, w, at[n+2])) = n + 1
      OBVIOUS
    <2>1. n + 1 \in 1..L /\ (n + 1) + 1 = n + 2 /\ n + 1 \in 1..L+1
      BY <1>0
    <2>2. PICK x, y : x = at[n+1] /\ y = at[n+2]
      OBVIOUS
    <2>3. IF x = NULL THEN y = NULL ELSE Nexts(D, w, x, y)
      BY <2>1, <2>2 DEF Visits
    <2>4. IF x = NULL THEN L <= n ELSE Cardinality(Ranked(D, w, x)) = n
      BY <1>2, <2>1, <2>2
    <2>5. CASE x = NULL
      BY <1>0, <2>2, <2>3, <2>4, <2>5
    <2>6. CASE x # NULL
      <3>1. x \in D
        BY <1>0, <2>1, <2>2, <2>6, VisitsWithin
      <3>2. Cardinality(Passed(D, w, x)) = n + 1
        <4>1. Cardinality(Ranked(D, w, x) \cup {x}) = n + 1
          BY <2>4, <2>6, <3>1, RankNext
        <4>2. Ranked(D, w, x) \cup {x} = Passed(D, w, x)
          BY <3>1, RankNext
        <4>. QED BY <4>1, <4>2
      <3>3. CASE y = NULL
        <4>1. Passed(D, w, x) = D
          BY <2>3, <2>6, <3>3 DEF Nexts, Passed
        <4>2. Cardinality(D) = n + 1
          BY <3>2, <4>1
        <4>. QED BY <1>0, <2>2, <3>3, <4>2
      <3>4. CASE y # NULL
        <4>1. y \in D /\ w[x] < w[y] /\ \A z \in D : w[x] < w[z] => w[y] <= w[z]
          BY <2>3, <2>6, <3>4 DEF Nexts
        <4>2. \A z \in D : w[z] \in Int
          BY DEF Ordered
        <4>3. \A z \in D : w[z] < w[y] <=> w[z] <= w[x]
          BY <3>1, <4>1, <4>2
        <4>4. Ranked(D, w, y) = Passed(D, w, x)
          BY <4>3 DEF Ranked, Passed
        <4>. QED BY <2>2, <3>2, <3>4, <4>4
      <3>. QED BY <3>3, <3>4
    <2>. QED BY <2>5, <2>6
  <1>3. \A n \in Nat : n \in T
    <2>. HIDE DEF T
    <2>. QED BY <1>1, <1>2, Induction
  <1>4. ASSUME NEW i \in 1..L+1
        PROVE  IF at[i] = NULL THEN L <= i - 1 ELSE Cardinality(Ranked(D, w, at[i])) = i - 1
    <2>1. i - 1 \in Nat /\ (i - 1) + 1 = i
      BY <1>0
    <2>2. i - 1 \in T
      BY <1>3, <2>1
    <2>. QED BY <2>1, <2>2
  <1>. QED BY <1>4

(* Every node is visited. *)
LEMMA VisitsAll ==
  ASSUME NEW D, NEW w, Ordered(D, w), NEW L \in Nat, NEW at, Visits(D, w, at, L), at[L+1] = NULL,
         NEW z \in D
  PROVE  \E i \in 1..L : at[i] = z
  <1>. SUFFICES ASSUME \A i \in 1..L : at[i] # z PROVE FALSE
    OBVIOUS
  <1>1. z # NULL /\ w[z] \in Int
    BY DEF Ordered
  <1>2. \A i \in 1..L+1 : at[i] # z
    BY <1>1
  <1>. DEFINE T == {n \in Nat : n + 1 \in 1..L+1 => at[n+1] \in D /\ w[at[n+1]] < w[z]}
  <1>3. 0 \in T
    <2>1. 1 \in 1..L+1 /\ 0 + 1 = 1
      OBVIOUS
    <2>2. PICK x : x = at[1]
      OBVIOUS
    <2>3. x \in D /\ w[x] <= w[z]
      BY <2>2 DEF Visits, Starts
    <2>4. w[x] # w[z] /\ w[x] \in Int
      BY <1>2, <2>1, <2>2, <2>3 DEF Ordered
    <2>. QED BY <1>1, <2>2, <2>3, <2>4
  <1>4. ASSUME NEW n \in Nat, n \in T PROVE n + 1 \in T
    <2>. SUFFICES ASSUME n + 2 \in 1..L+1 PROVE at[n+2] \in D /\ w[at[n+2]] < w[z]
      OBVIOUS
    <2>1. n + 1 \in 1..L /\ (n + 1) + 1 = n + 2 /\ n + 1 \in 1..L+1
      OBVIOUS
    <2>2. PICK x, y : x = at[n+1] /\ y = at[n+2]
      OBVIOUS
    <2>3. x \in D /\ w[x] < w[z] /\ x # NULL
      BY <1>4, <2>1, <2>2 DEF Ordered
    <2>4. Nexts(D, w, x, y)
      BY <2>1, <2>2, <2>3 DEF Visits
    <2>5. w[x] \in Int
      BY <2>3 DEF Ordered
    <2>6. y # NULL
      BY <1>1, <2>3, <2>4, <2>5 DEF Nexts
    <2>7. y \in D /\ w[y] <= w[z]
      BY <2>3, <2>4, <2>6 DEF Nexts
    <2>8. w[y] # w[z] /\ w[y] \in Int
      BY <1>2, <2>2, <2>7 DEF Ordered
    <2>. QED BY <1>1, <2>2, <2>7, <2>8
  <1>5. \A n \in Nat : n \in T
    <2>. HIDE DEF T
    <2>. QED BY <1>3, <1>4, Induction
  <1>6. L \in T
    BY <1>5
  <1>7. at[L+1] \in D
    BY <1>6
  <1>. QED BY <1>7 DEF Ordered

(* It visits each node once, in order, and ends. *)
LEMMA VisitsExact ==
  ASSUME NEW D, NEW w, Ordered(D, w), NEW L, L = Cardinality(D), NEW at, Visits(D, w, at, L)
  PROVE  /\ L \in Nat /\ at[L+1] = NULL
         /\ \A i \in 1..L : at[i] \in D
         /\ \A z \in D : \E i \in 1..L : at[i] = z
         /\ \A i \in 1..L-1 : w[at[i]] < w[at[i+1]]
  <1>0. L \in Nat
    BY FS_CardinalityType DEF Ordered
  <1>1. ASSUME NEW i \in 1..L PROVE at[i] \in D
    <2>1. i \in 1..L+1 /\ ~(L <= i - 1)
      BY <1>0
    <2>2. at[i] # NULL
      BY <2>1, VisitsRank
    <2>. QED BY <1>0, <2>1, <2>2, VisitsWithin
  <1>2. at[L+1] = NULL
    <2>. SUFFICES ASSUME at[L+1] # NULL PROVE FALSE
      OBVIOUS
    <2>1. PICK x : x = at[L+1]
      OBVIOUS
    <2>2. L + 1 \in 1..L+1
      BY <1>0
    <2>3. x \in D /\ Cardinality(Ranked(D, w, x)) = L
      <3>1. x \in D
        BY <1>0, <2>1, <2>2, VisitsWithin
      <3>2. Cardinality(Ranked(D, w, x)) = (L + 1) - 1
        BY <2>1, <2>2, VisitsRank
      <3>. QED BY <1>0, <3>1, <3>2
    <2>4. Cardinality(Ranked(D, w, x) \cup {x}) = L + 1
      BY <2>3, RankNext
    <2>5. Ranked(D, w, x) \cup {x} \subseteq D /\ IsFiniteSet(D)
      BY <2>3 DEF Ranked, Ordered
    <2>6. Cardinality(Ranked(D, w, x) \cup {x}) <= Cardinality(D)
      BY <2>5, FS_Subset
    <2>. QED BY <1>0, <2>4, <2>6
  <1>3. \A z \in D : \E i \in 1..L : at[i] = z
    BY <1>0, <1>2, VisitsAll
  <1>4. ASSUME NEW i \in 1..L-1 PROVE w[at[i]] < w[at[i+1]]
    <2>1. i \in 1..L /\ i + 1 \in 1..L
      BY <1>0
    <2>2. at[i] \in D /\ at[i+1] \in D
      BY <1>1, <2>1
    <2>3. at[i] # NULL /\ at[i+1] # NULL
      BY <2>2 DEF Ordered
    <2>4. Nexts(D, w, at[i], at[i+1])
      BY <2>1, <2>3 DEF Visits
    <2>. QED BY <2>3, <2>4 DEF Nexts
  <1>. QED BY <1>0, <1>1, <1>2, <1>3, <1>4

Moved(x, up) == IF x = NULL THEN x ELSE IF up THEN ItNext(tree, x) ELSE ItPrev(tree, x)
Turns(f, q, up, n) == f = [i \in 1..n |-> IF i = 1 THEN q ELSE Moved(f[i-1], up)]
Stops(f, n) == {i \in 1..n : f[i] = NULL}
Shown(f, n) ==
  [i \in 1..(IF Stops(f, n) = {} THEN n ELSE (CHOOSE j \in Stops(f, n) : \A m \in Stops(f, n) : j <= m) - 1)
     |-> tree.n[f[i]].key]

(* Walk by its function. *)
LEMMA WalkIs ==
  ASSUME NEW q, NEW up, NEW n
  PROVE  Walk(q, up, n) = Shown(CHOOSE f : Turns(f, q, up, n), n)
  BY DEF Walk, Shown, Stops, Turns, Moved

(* The steps of a walk form a sequence. *)
LEMMA TurnsExist ==
  ASSUME NEW q, NEW up
  PROVE  \A n \in Nat : \E f : Turns(f, q, up, n + 1)
  <1>. DEFINE All == {n \in Nat : \E f : Turns(f, q, up, n + 1)}
  <1>1. 0 \in All
    <2>1. Turns([i \in 1..0+1 |-> q], q, up, 0 + 1)
      BY DEF Turns
    <2>. QED BY <2>1
  <1>2. ASSUME NEW n \in Nat, n \in All PROVE n + 1 \in All
    <2>1. PICK f : Turns(f, q, up, n + 1)
      BY <1>2
    <2>. DEFINE g == [i \in 1..n+2 |-> IF i = n + 2 THEN Moved(f[n+1], up) ELSE f[i]]
    <2>2. ASSUME NEW i \in 1..n+2 PROVE g[i] = IF i = 1 THEN q ELSE Moved(g[i-1], up)
      <3>1. CASE i = n + 2
        <4>1. g[n+1] = f[n+1] /\ g[n + 2] = Moved(f[n+1], up) /\ i - 1 = n + 1 /\ i # 1
          BY <3>1
        <4>. HIDE DEF g
        <4>. QED BY <3>1, <4>1
      <3>2. CASE i = 1
        <4>1. g[1] = f[1] /\ f[1] = q
          BY <2>1 DEF Turns
        <4>. QED BY <3>2, <4>1
      <3>3. CASE i # 1 /\ i # n + 2
        <4>1. i \in 1..n+1 /\ i - 1 \in 1..n+1 /\ i - 1 \in 1..n+2 /\ i - 1 # n + 2
          BY <3>3
        <4>2. f[i] = Moved(f[i-1], up)
          BY <2>1, <3>3, <4>1 DEF Turns
        <4>3. g[i] = f[i] /\ g[i-1] = f[i-1]
          BY <3>3, <4>1
        <4>. HIDE DEF g
        <4>. QED BY <3>3, <4>2, <4>3
      <3>. QED BY <3>1, <3>2, <3>3
    <2>3. g = [i \in 1..n+2 |-> g[i]]
      OBVIOUS
    <2>. HIDE DEF g
    <2>4. Turns(g, q, up, n + 2)
      BY <2>2, <2>3 DEF Turns
    <2>5. (n + 1) + 1 = n + 2
      OBVIOUS
    <2>. QED BY <2>4, <2>5
  <1>3. \A n \in Nat : n \in All
    <2>. HIDE DEF All
    <2>. QED BY <1>1, <1>2, Induction
  <1>. QED BY <1>3

(* the order of the nodes on the way up, or down *)
Way(D, up) == [x \in D |-> IF up THEN x ELSE -x]

(* The keys, and their opposites, order the nodes. *)
LEMMA WayOrdered ==
  ASSUME NEW t, Whole(t, Vals), Plainly(t), NEW up \in BOOLEAN
  PROVE  Ordered(DOMAIN t.n, Way(DOMAIN t.n, up))
  <1>1. IsFiniteSet(DOMAIN t.n)
    BY ShapedFinite
  <1>2. NULL \notin DOMAIN t.n /\ \A x \in DOMAIN t.n : x \in Int
    BY NodeIs
  <1>. QED BY <1>1, <1>2 DEF Ordered, Way

(* An iterator goes to the next node, in either direction. *)
LEMMA GoesNext ==
  ASSUME Whole(tree, Vals), Plainly(tree), NEW up \in BOOLEAN, NEW x \in DOMAIN tree.n
  PROVE  Nexts(DOMAIN tree.n, Way(DOMAIN tree.n, up), x, Moved(x, up))
  <1>. DEFINE D == DOMAIN tree.n
  <1>1. PICK lo, hi : Fits(tree, lo, hi)
    BY FitsExist DEF Vals
  <1>2. NULL \notin D /\ \A z \in D : z \in Int /\ KeyOf(tree, z) = z
    BY NodeIs
  <1>3. PICK y : y = Moved(x, up)
    OBVIOUS
  <1>4. CASE up
    <2>1. Follows(tree, 1, x, y)
      BY <1>1, <1>2, <1>3, <1>4, ItNextFollows DEF Moved
    <2>2. \A z \in D : Way(D, up)[z] = z
      BY <1>4 DEF Way
    <2>3. \A a, b \in D : Before(tree, 1, a, b) <=> b <= a
      BY <1>2 DEF Before
    <2>4. \A a, b \in D : Before(tree, 0, a, b) <=> a <= b
      BY <1>2 DEF Before
    <2>5. CASE y = NULL
      <3>1. \A z \in D : Before(tree, 1, x, z)
        BY <2>1, <2>5 DEF Follows
      <3>. QED BY <1>3, <2>2, <2>3, <2>5, <3>1 DEF Nexts
    <2>6. CASE y # NULL
      <3>1. 1 - 1 = 0
        OBVIOUS
      <3>2. y \in D /\ ~Before(tree, 1, x, y) /\ \A z \in D : ~Before(tree, 1, x, z) => Before(tree, 0, y, z)
        BY <2>1, <2>6, <3>1 DEF Follows
      <3>3. y \in D /\ x < y /\ \A z \in D : x < z => y <= z
        BY <1>2, <2>3, <2>4, <3>2
      <3>. QED BY <1>3, <2>2, <2>6, <3>3 DEF Nexts
    <2>. QED BY <2>5, <2>6
  <1>5. CASE ~up
    <2>1. Follows(tree, 0, x, y)
      BY <1>1, <1>2, <1>3, <1>5, ItPrevFollows DEF Moved, Whole
    <2>2. \A z \in D : Way(D, up)[z] = -z
      BY <1>5 DEF Way
    <2>3. \A a, b \in D : Before(tree, 0, a, b) <=> a <= b
      BY <1>2 DEF Before
    <2>4. \A a, b \in D : Before(tree, 1, a, b) <=> b <= a
      BY <1>2 DEF Before
    <2>5. CASE y = NULL
      <3>1. \A z \in D : Before(tree, 0, x, z)
        BY <2>1, <2>5 DEF Follows
      <3>2. \A z \in D : -z <= -x
        BY <1>2, <2>3, <3>1
      <3>. QED BY <1>3, <2>2, <2>5, <3>2 DEF Nexts
    <2>6. CASE y # NULL
      <3>1. 1 - 0 = 1
        OBVIOUS
      <3>2. y \in D /\ ~Before(tree, 0, x, y) /\ \A z \in D : ~Before(tree, 0, x, z) => Before(tree, 1, y, z)
        BY <2>1, <2>6, <3>1 DEF Follows
      <3>3. y \in D /\ -x < -y /\ \A z \in D : -x < -z => -y <= -z
        BY <1>2, <2>3, <2>4, <3>2
      <3>. QED BY <1>3, <2>2, <2>6, <3>3 DEF Nexts
    <2>. QED BY <2>5, <2>6
  <1>. QED BY <1>4, <1>5

(* An iterator that starts at the end visits every node in its order. *)
Tour(s, up) ==
  /\ s \in [1..tree.len -> DOMAIN tree.n] /\ tree.len \in Nat
  /\ \A z \in DOMAIN tree.n : \E i \in 1..tree.len : s[i] = z
  /\ \A i \in 1..tree.len-1 : IF up THEN s[i] < s[i+1] ELSE s[i] > s[i+1]

(* A walk from the first node that way visits all nodes in order. *)
LEMMA WalkTours ==
  ASSUME Whole(tree, Vals), Plainly(tree), NEW up \in BOOLEAN, NEW q,
         Starts(DOMAIN tree.n, Way(DOMAIN tree.n, up), q)
  PROVE  Tour(Walk(q, up, tree.len + 1), up)
  <1>. DEFINE D == DOMAIN tree.n
              L == tree.len
              w == Way(DOMAIN tree.n, up)
  <1>1. Ordered(D, w) /\ L = Cardinality(D)
    BY WayOrdered DEF Whole
  <1>2. L \in Nat
    BY <1>1, FS_CardinalityType DEF Ordered
  <1>3. PICK f : f = CHOOSE g : Turns(g, q, up, L + 1)
    OBVIOUS
  <1>4. Turns(f, q, up, L + 1)
    <2>1. \E g : Turns(g, q, up, L + 1)
      BY <1>2, TurnsExist
    <2>. HIDE DEF L
    <2>. QED BY <1>3, <2>1, Zenon
  <1>. HIDE DEF w
  <1>5. Visits(D, w, f, L)
    <2>1. f[1] = q
      BY <1>2, <1>4 DEF Turns
    <2>2. ASSUME NEW i \in 1..L PROVE f[i+1] = Moved(f[i], up)
      <3>1. i + 1 \in 1..L+1 /\ i + 1 # 1 /\ (i + 1) - 1 = i
        BY <1>2
      <3>. QED BY <1>4, <3>1 DEF Turns
    <2>3. Starts(D, w, f[1])
      BY <2>1 DEF w
    <2>. DEFINE T == {n \in Nat : n + 1 \in 1..L+1 => f[n+1] \in D \cup {NULL}}
    <2>4. ASSUME NEW i \in 1..L, f[i] \in D \cup {NULL}
          PROVE  /\ IF f[i] = NULL THEN f[i+1] = NULL ELSE Nexts(D, w, f[i], f[i+1])
                 /\ f[i+1] \in D \cup {NULL}
      <3>1. CASE f[i] = NULL
        BY <2>2, <3>1 DEF Moved
      <3>2. CASE f[i] # NULL
        <4>1. PICK x : x = f[i]
          OBVIOUS
        <4>2. x \in D
          BY <2>4, <3>2, <4>1
        <4>3. Nexts(D, w, x, Moved(x, up))
          BY <4>2, GoesNext DEF w
        <4>4. Nexts(D, w, f[i], f[i+1])
          BY <2>2, <4>1, <4>3
        <4>. QED BY <3>2, <4>4 DEF Nexts
      <3>. QED BY <3>1, <3>2
    <2>5. 0 \in T
      BY <2>3 DEF Starts
    <2>6. ASSUME NEW n \in Nat, n \in T PROVE n + 1 \in T
      <3>. SUFFICES ASSUME n + 2 \in 1..L+1 PROVE f[n + 2] \in D \cup {NULL}
        OBVIOUS
      <3>1. n + 1 \in 1..L /\ (n + 1) + 1 = n + 2 /\ n + 1 \in 1..L+1
        BY <1>2
      <3>2. f[n+1] \in D \cup {NULL}
        BY <2>6, <3>1
      <3>. QED BY <2>4, <3>1, <3>2
    <2>7. \A n \in Nat : n \in T
      <3>. HIDE DEF T
      <3>. QED BY <2>5, <2>6, Induction
    <2>8. ASSUME NEW i \in 1..L PROVE f[i] \in D \cup {NULL}
      <3>1. i - 1 \in Nat /\ (i - 1) + 1 = i /\ i \in 1..L+1
        BY <1>2
      <3>2. i - 1 \in T
        BY <2>7, <3>1
      <3>. QED BY <3>1, <3>2
    <2>. QED BY <2>3, <2>4, <2>8 DEF Visits
  <1>6. /\ f[L+1] = NULL
        /\ \A i \in 1..L : f[i] \in D
        /\ \A z \in D : \E i \in 1..L : f[i] = z
        /\ \A i \in 1..L-1 : w[f[i]] < w[f[i+1]]
    BY <1>1, <1>5, VisitsExact
  <1>7. \A z \in D : z \in Int /\ z # NULL /\ tree.n[z].key = z
    BY NodeIs DEF KeyOf
  <1>8. Stops(f, L + 1) = {L + 1}
    BY <1>2, <1>6, <1>7 DEF Stops
  <1>9. Shown(f, L + 1) = [i \in 1..L |-> f[i]]
    <2>1. (CHOOSE j \in {L + 1} : \A m \in {L + 1} : j <= m) = L + 1
      BY <1>2
    <2>2. PICK n : n = L + 1
      OBVIOUS
    <2>3. n - 1 = L
      BY <1>2, <2>2
    <2>4. Shown(f, n) = [i \in 1..(n - 1) |-> tree.n[f[i]].key]
      BY <1>8, <2>1, <2>2 DEF Shown
    <2>5. \A i \in 1..L : tree.n[f[i]].key = f[i]
      BY <1>6, <1>7
    <2>. HIDE DEF L
    <2>. QED BY <2>2, <2>3, <2>4, <2>5
  <1>10. Walk(q, up, L + 1) = [i \in 1..L |-> f[i]]
    BY <1>3, <1>9, WalkIs
  <1>11. PICK s : s = [i \in 1..L |-> f[i]]
    OBVIOUS
  <1>12. Tour(s, up)
    <2>1. s \in [1..L -> D] /\ \A i \in 1..L : s[i] = f[i]
      BY <1>6, <1>11
    <2>2. \A z \in D : \E i \in 1..L : s[i] = z
      BY <1>6, <2>1
    <2>3. ASSUME NEW i \in 1..L-1 PROVE IF up THEN s[i] < s[i+1] ELSE s[i] > s[i+1]
      <3>1. i \in 1..L /\ i + 1 \in 1..L
        BY <1>2
      <3>2. s[i] = f[i] /\ s[i+1] = f[i+1] /\ f[i] \in D /\ f[i+1] \in D /\ f[i] \in Int /\ f[i+1] \in Int
        BY <1>6, <1>7, <2>1, <3>1
      <3>3. w[f[i]] < w[f[i+1]]
        BY <1>6
      <3>4. w[f[i]] = (IF up THEN f[i] ELSE -f[i]) /\ w[f[i+1]] = IF up THEN f[i+1] ELSE -f[i+1]
        BY <3>2 DEF w, Way
      <3>5. IF up THEN f[i] < f[i+1] ELSE f[i] > f[i+1]
        BY <3>2, <3>3, <3>4
      <3>. QED BY <3>2, <3>5
    <2>. QED BY <1>2, <2>1, <2>2, <2>3 DEF Tour
  <1>. QED BY <1>10, <1>11, <1>12

(* Such a walk is what Traversed says of it. *)
LEMMA TourIs ==
  ASSUME Keys = DOMAIN tree.n, NEW up \in BOOLEAN, NEW s, Tour(s, up)
  PROVE  Len(s) = tree.len /\ Keys = {s[i] : i \in DOMAIN s} /\ Sorted(s, up)
  <1>1. s \in [1..tree.len -> DOMAIN tree.n] /\ tree.len \in Nat
    BY DEF Tour
  <1>2. s \in Seq(DOMAIN tree.n)
    BY <1>1
  <1>3. Len(s) = tree.len
    BY <1>1, <1>2
  <1>. QED BY <1>1, <1>3 DEF Tour, Sorted

(* TreeInv is enough for Traversed. *)
LEMMA TraversedHolds == TreeInv => Traversed
  <1>. SUFFICES ASSUME TreeInv PROVE Traversed
    OBVIOUS
  <1>. DEFINE D == DOMAIN tree.n
  <1>1. Whole(tree, Vals) /\ Plainly(tree)
    BY DEF TreeInv
  <1>2. Keys = D
    BY KeysAre
  <1>3. PICK lo, hi : Fits(tree, lo, hi)
    BY <1>1, FitsExist DEF Vals
  <1>4. NULL \notin D /\ \A z \in D : z \in Int /\ KeyOf(tree, z) = z
    BY <1>1, NodeIs
  <1>5. Starts(D, Way(D, TRUE), tree.beg)
    <2>1. First(tree)
      BY <1>1 DEF Whole
    <2>. QED BY <1>4, <2>1 DEF First, Starts, Way
  <1>6. Starts(D, Way(D, FALSE), Last(tree))
    <2>1. IF Last(tree) = NULL THEN D = {}
          ELSE Last(tree) \in D /\ \A x \in D : KeyOf(tree, x) <= KeyOf(tree, Last(tree))
      BY <1>3, LastIs
    <2>2. Last(tree) # NULL => \A x \in D : -Last(tree) <= -x
      BY <1>4, <2>1
    <2>. QED BY <1>4, <2>1, <2>2 DEF Starts, Way
  <1>7. Tour(Walk(tree.beg, TRUE, tree.len + 1), TRUE)
    BY <1>1, <1>5, WalkTours
  <1>8. Tour(Walk(Last(tree), FALSE, tree.len + 1), FALSE)
    BY <1>1, <1>6, WalkTours
  <1>9. PICK a, b : a = Walk(tree.beg, TRUE, tree.len + 1) /\ b = Walk(Last(tree), FALSE, tree.len + 1)
    OBVIOUS
  <1>10. /\ Len(a) = tree.len /\ Keys = {a[i] : i \in DOMAIN a} /\ Sorted(a, TRUE)
         /\ Len(b) = tree.len /\ Keys = {b[i] : i \in DOMAIN b} /\ Sorted(b, FALSE)
    <2>1. Tour(a, TRUE) /\ Tour(b, FALSE)
      BY <1>7, <1>8, <1>9
    <2>2. Len(a) = tree.len /\ Keys = {a[i] : i \in DOMAIN a} /\ Sorted(a, TRUE)
      BY ONLY <1>2, <2>1, TourIs
    <2>3. Len(b) = tree.len /\ Keys = {b[i] : i \in DOMAIN b} /\ Sorted(b, FALSE)
      BY ONLY <1>2, <2>1, TourIs
    <2>. QED BY <2>2, <2>3
  <1>. QED BY <1>9, <1>10 DEF Traversed

(* tree.h: after any operations both traversals visit every key once, in   *)
(* order, and end.                                                         *)
THEOREM TraversedAlways == TreeSpec => []Traversed
  BY TreeWhole, TraversedHolds, PTL

-----------------------------------------------------------------------------
(***************************************************************************)
(* What LiveSites does to the tree: add to the value of a site, and free   *)
(* the first node under an iterator.                                       *)
(***************************************************************************)
(* What is at a key once a value has been put at k. *)
LEMMA AtBecame ==
  ASSUME NEW t, NEW k, NEW v, NEW u, Became(t, u, k, v), NEW a, NEW b
  PROVE  At(u, a, b) <=> IF a = k THEN b = v ELSE At(t, a, b)
  <1>1. CASE Among(t, k)
    <2>1. DOMAIN u.n = DOMAIN t.n
      BY <1>1 DEF Became
    <2>2. \A x \in DOMAIN t.n : KeyOf(u, x) = KeyOf(t, x) /\ ValOf(u, x) = IF KeyOf(t, x) = k THEN v ELSE ValOf(t, x)
      BY DEF Became
    <2>3. PICK y \in DOMAIN t.n : KeyOf(t, y) = k
      BY <1>1 DEF Among
    <2>. QED BY <2>1, <2>2, <2>3 DEF At, AtIn
  <1>2. CASE ~Among(t, k)
    <2>1. PICK q \in DOMAIN u.n : /\ DOMAIN u.n = DOMAIN t.n \cup {q} /\ q \notin DOMAIN t.n
                                  /\ KeyOf(u, q) = k /\ ValOf(u, q) = v
      BY <1>2 DEF Became
    <2>2. \A x \in DOMAIN t.n : KeyOf(u, x) = KeyOf(t, x) /\ ValOf(u, x) = ValOf(t, x) /\ KeyOf(t, x) # k
      BY <1>2 DEF Became, Among
    <2>. QED BY <2>1, <2>2 DEF At, AtIn
  <1>. QED BY <1>1, <1>2

(* A value of a node assigned leaves the tree what it is. *)
LEMMA ValueAssigned ==
  ASSUME NEW V, NULL \in V, NEW t, Whole(t, V), NEW q \in DOMAIN t.n, NEW v \in V,
         NEW u, u = [t EXCEPT !.n[q].val = v]
  PROVE  Whole(u, V) /\ \A a, b : At(u, a, b) <=> IF a = KeyOf(t, q) THEN b = v ELSE At(t, a, b)
  <1>1. /\ Typed(u, V) /\ DOMAIN u.n = DOMAIN t.n
        /\ u.root = t.root /\ u.beg = t.beg /\ u.len = t.len
        /\ \A x \in DOMAIN t.n :
             /\ KeyOf(u, x) = KeyOf(t, x) /\ ValOf(u, x) = IF x = q THEN v ELSE ValOf(t, x)
             /\ RedOf(u, x) = RedOf(t, x) /\ ParentOf(u, x) = ParentOf(t, x)
             /\ \A e \in Side : Child(u, x, e) = Child(t, x, e)
    <2>1. Typed(t, V)
      BY DEF Whole
    <2>. QED BY ONLY <2>1, u = [t EXCEPT !.n[q].val = v], q \in DOMAIN t.n, v \in V, ValIs
  <1>2. PICK lo, hi, bh : Shaped(t, lo, hi, bh)
    BY DEF Whole
  <1>3. t.root # NULL
    BY <1>2 DEF Shaped
  <1>4. LooksLike(t, u)
    BY <1>1 DEF LooksLike
  <1>5. Shaped(u, lo, hi, bh)
    BY <1>2, <1>3, <1>4, ShapedAlso
  <1>6. First(u) /\ u.len = Cardinality(DOMAIN u.n)
    BY <1>1 DEF Whole, First
  <1>7. \A x \in DOMAIN t.n : KeyOf(t, x) = KeyOf(t, q) => x = q
    BY WholeKeys
  <1>8. ASSUME NEW a, NEW b
        PROVE  At(u, a, b) <=> IF a = KeyOf(t, q) THEN b = v ELSE At(t, a, b)
    BY <1>1, <1>7 DEF At, AtIn
  <1>. QED BY <1>1, <1>5, <1>6, <1>8 DEF Whole

(* The pages already at a site, or none, and then n more. *)
LEMMA AddIs ==
  ASSUME NEW t, Whole(t, Int), NEW s \in Key, NEW n \in Int, NEW m \in Int,
         IF Among(t, s) THEN At(t, s, m) ELSE m = 0
  PROVE  Whole(Add(t, s, n), Int) /\ \A a, b : At(Add(t, s, n), a, b) <=> IF a = s THEN b = m + n ELSE At(t, a, b)
  <1>1. NULL \in Int /\ s \in Int /\ 0 \in Int
    BY DEF NULL, Key
  <1>2. IF Lookup(t, s) = NULL THEN ~Among(t, s) ELSE Among(t, s)
    <2>1. PICK lo, hi : Fits(t, lo, hi)
      BY <1>1, FitsExist
    <2>2. IF Lookup(t, s) = NULL THEN \A x \in DOMAIN t.n : KeyOf(t, x) # s
          ELSE Lookup(t, s) \in DOMAIN t.n /\ KeyOf(t, Lookup(t, s)) = s
      BY <1>1, <2>1, LookupFinds
    <2>. QED BY <2>2 DEF Among
  <1>3. PICK t1 : t1 = IF Lookup(t, s) = NULL THEN Insert(t, s, 0) ELSE t
    OBVIOUS
  <1>4. Whole(t1, Int) /\ At(t1, s, m) /\ \A a, b : a # s => (At(t1, a, b) <=> At(t, a, b))
    <2>1. CASE Among(t, s)
      BY <1>2, <1>3, <2>1
    <2>2. CASE ~Among(t, s)
      <3>1. t1 = Insert(t, s, 0) /\ m = 0
        BY <1>2, <1>3, <2>2
      <3>2. Whole(t1, Int) /\ Became(t, t1, s, 0)
        BY <1>1, <3>1, InsertKeeps
      <3>3. \A a, b : At(t1, a, b) <=> IF a = s THEN b = 0 ELSE At(t, a, b)
        BY <3>2, AtBecame
      <3>. QED BY <3>1, <3>2, <3>3
    <2>. QED BY <2>1, <2>2
  <1>5. PICK q : q = Lookup(t1, s)
    OBVIOUS
  <1>6. q \in DOMAIN t1.n /\ KeyOf(t1, q) = s /\ ValOf(t1, q) = m
    <2>1. PICK x \in DOMAIN t1.n : KeyOf(t1, x) = s /\ ValOf(t1, x) = m
      BY <1>4 DEF At, AtIn
    <2>2. Lookup(t1, KeyOf(t1, x)) = x
      BY <1>1, <1>4, LookupHere
    <2>. QED BY <1>5, <2>1, <2>2
  <1>7. Add(t, s, n) = [t1 EXCEPT !.n[q].val = @ + n]
    BY <1>3, <1>5 DEF Add
  <1>8. Add(t, s, n) = [t1 EXCEPT !.n[q].val = m + n]
    BY <1>6, <1>7 DEF ValOf
  <1>9. PICK w, u : w = m + n /\ u = Add(t, s, n)
    OBVIOUS
  <1>10. w \in Int /\ Whole(t1, Int) /\ q \in DOMAIN t1.n /\ u = [t1 EXCEPT !.n[q].val = w]
    BY <1>4, <1>6, <1>8, <1>9
  <1>11. Whole(u, Int) /\ \A a, b : At(u, a, b) <=> IF a = KeyOf(t1, q) THEN b = w ELSE At(t1, a, b)
    BY ONLY <1>1, <1>10, ValueAssigned
  <1>. QED BY <1>4, <1>6, <1>9, <1>11

(* r is the tree before the node q is freed and that node; z is the tree   *)
(* after.  q is a node without a child on the right, and its parent, or    *)
(* NULL, comes first in z.                                                 *)
Departs(r, z, V, q) ==
  /\ r.q = q /\ q \notin DOMAIN z.n
  /\ r.t.n[q] \in Field(V) /\ Child(r.t, q, 1) = NULL /\ ParentOf(r.t, q) = z.beg

(* The only node is the root. *)
LEMMA OnlyDeparts ==
  ASSUME NEW V, NULL \in V, NEW t, Whole(t, V), t.root # NULL,
         NEW k \in Key, t.len = 1, t.n[t.root].key = k,
         NEW r, r = Removed(t, k), NEW z, z = Free(r.t, r.q)
  PROVE  t.beg = t.root /\ Departs(r, z, V, t.root)
  <1>1. PICK lo, hi, bh : Shaped(t, lo, hi, bh)
    BY DEF Whole
  <1>2. Typed(t, V) /\ DOMAIN t.n = {t.root}
    BY <1>1, AloneIs DEF Whole
  <1>3. t.beg = t.root
    BY <1>2 DEF Whole, First
  <1>4. PICK s : s = [t EXCEPT !.root = NULL, !.beg = NULL, !.len = 0]
    OBVIOUS
  <1>5. r = [t |-> s, q |-> t.root]
    BY <1>4 DEF Removed
  <1>6. s.n = t.n /\ r.t = s /\ r.q = t.root
    <2>1. t \in [n : [DOMAIN t.n -> Field(V)], root : Int, beg : Int, len : Int]
      BY <1>2 DEF Typed
    <2>. QED BY <1>4, <1>5, <2>1
  <1>7. t.n[t.root] \in Field(V)
    BY <1>2, Fields
  <1>8. Child(t, t.root, 1) = NULL /\ ParentOf(t, t.root) = NULL
    <2>1. PICK l2, h2 : Fits(t, l2, h2)
      BY FitsExist
    <2>2. SUFFICES ASSUME Child(t, t.root, 1) # NULL PROVE FALSE
      BY <2>1 DEF Fits, Atop
    <2>3. 1 \in Side /\ t.root \in DOMAIN t.n
      BY <1>2 DEF Side
    <2>4. PICK c : c = Child(t, t.root, 1)
      OBVIOUS
    <2>5. c \in DOMAIN t.n /\ h2[c] - l2[c] < h2[t.root] - l2[t.root]
      BY <2>1, <2>2, <2>3, <2>4, FitsChild
    <2>6. h2[t.root] \in Int /\ l2[t.root] \in Int
      BY <2>1, <2>3, FitsNode
    <2>. QED BY <1>2, <2>5, <2>6
  <1>9. Whole(z, V) /\ Lost(t, z, k)
    <2>1. z = Delete(t, k)
      BY DEF Delete
    <2>. QED BY <2>1, DeleteKeeps
  <1>10. DOMAIN z.n = {}
    <2>. SUFFICES ASSUME NEW x \in DOMAIN z.n PROVE FALSE
      OBVIOUS
    <2>1. At(z, KeyOf(z, x), ValOf(z, x))
      BY DEF At, AtIn
    <2>2. At(t, KeyOf(z, x), ValOf(z, x)) /\ KeyOf(z, x) # k
      BY <1>9, <2>1 DEF Lost
    <2>. QED BY <1>2, <2>2 DEF At, AtIn, KeyOf
  <1>11. z.beg = NULL
    BY <1>9, <1>10 DEF Whole, First
  <1>. QED BY <1>3, <1>6, <1>7, <1>8, <1>10, <1>11 DEF Departs, Child, ParentOf

(* The first of several nodes leaves the tree itself: no key lies before   *)
(* its own that could take its place.                                      *)
LEMMA FirstDeparts ==
  ASSUME NEW V, NULL \in V, NEW t, Whole(t, V), t.root # NULL, NEW k \in Key,
         t.beg \in DOMAIN t.n, k = KeyOf(t, t.beg),
         ~(t.len = 1 /\ t.n[t.root].key = k),
         NEW r, r = Removed(t, k), NEW z, z = Free(r.t, r.q)
  PROVE  Departs(r, z, V, t.beg)
  <1>0. PICK x : x = Pushed(t, k)
    OBVIOUS
  <1>1. PICK s, p, q, f : s = x.t /\ p = x.p /\ q = x.q /\ f = x.f
    OBVIOUS
  <1>2. /\ Ended(x) /\ Typed(s, V)
        /\ DOMAIN t.n = DOMAIN s.n \ {FalseRoot} /\ FalseRoot \in DOMAIN s.n
        /\ s.beg = t.beg /\ s.len = t.len
        /\ \A y \in DOMAIN t.n : KeyOf(s, y) = KeyOf(t, y) /\ ValOf(s, y) = ValOf(t, y)
    BY <1>0, <1>1, PushedSees
  <1>3. PICK m \in Int : \E lo, hi, bh : Sound(s, lo, hi, bh, NULL) /\ Sinks(x, lo, hi, k, m)
    BY <1>0, <1>1, PushedSees
  <1>4. PICK lo, hi, bh : Sound(s, lo, hi, bh, NULL) /\ Sinks(x, lo, hi, k, m)
    BY <1>3
  <1>5. /\ Slot(s, lo, hi, q, x.dir, k, m, f) /\ Above(s, p, q, x.dir) /\ Child(s, q, x.dir) = NULL
    BY <1>1, <1>2, <1>4 DEF Sinks, Ended
  <1>6. Linked(s, lo, hi)
    BY <1>4 DEF Sound
  <1>7. f # NULL
    <2>. SUFFICES ASSUME f = NULL PROVE FALSE
      OBVIOUS
    <2>1. \A y \in DOMAIN s.n : KeyOf(s, y) # k
      BY <1>5, <1>6, EndAbsent
    <2>. QED BY <1>2, <2>1
  <1>8. f \in DOMAIN t.n /\ KeyOf(t, f) = k
    BY <1>2, <1>5, <1>7 DEF Slot
  <1>9. PICK l3, h3, b3 : Shaped(t, l3, h3, b3)
    BY DEF Whole
  <1>10. \E y \in DOMAIN s.n \ {FalseRoot} : y # f
    <2>. SUFFICES ASSUME \A y \in DOMAIN t.n : y = f PROVE FALSE
      BY <1>2
    <2>1. DOMAIN t.n = {f} /\ t.root = f
      BY <1>8, <1>9 DEF Shaped, Rooted
    <2>2. t.len = 1
      BY <2>1, FS_Singleton DEF Whole
    <2>. QED BY <1>8, <2>1, <2>2 DEF KeyOf
  <1>11. Loose(s, hi, p, q, f, k)
    BY <1>2, <1>4, <1>5, <1>7, <1>10, EndFound
  <1>12. q = t.beg /\ q \in DOMAIN s.n \ {FalseRoot}
    <2>1. KeyOf(s, q) <= k /\ q \in DOMAIN s.n \ {FalseRoot}
      BY <1>6, <1>11, NoneBetween DEF Loose
    <2>2. k <= KeyOf(s, q)
      BY <1>2, <2>1 DEF Whole, First
    <2>3. KeyOf(t, q) = KeyOf(t, t.beg) /\ q \in DOMAIN t.n
      <3>1. k \in Int /\ KeyOf(s, q) \in Int
        BY <1>2, <2>1, Fields DEF Key
      <3>. QED BY <1>2, <2>1, <2>2, <3>1
    <2>. QED BY <2>1, <2>3, WholeKeys
  <1>13. PICK u : u = Unlink(s, p, q, f)
    OBVIOUS
  <1>14. Parted(s, u, V, p, q, f)
    BY ONLY <1>2, <1>6, <1>11, <1>13, UnlinkIs
  <1>15. r = [t |-> NewRoot(u), q |-> q]
    BY <1>0, <1>1, <1>7, <1>13 DEF Removed
  <1>16. PICK w : w = NewRoot(u)
    OBVIOUS
  <1>17. Below(w, q) = {q}
    BY <1>2, <1>4, <1>11, <1>14, <1>16, FreedOne
  <1>18. z = Drop(w, {q}) /\ r.t = w /\ r.q = q
    BY <1>15, <1>16, <1>17 DEF Free
  <1>19. Left(s, z, V, p, q, f)
    BY <1>2, <1>4, <1>11, <1>14, <1>16, <1>18, LeftIs
  <1>20. z.beg = p /\ q \notin DOMAIN z.n
    BY <1>2, <1>12, <1>19 DEF Left
  <1>21. ParentOf(s, q) = p /\ \A e \in Side : Child(s, q, e) = NULL
    <2>1. PICK e \in Side : Child(s, p, e) = q
      BY <1>11 DEF Loose
    <2>2. p \in DOMAIN s.n \ {FalseRoot} /\ q # NULL
      BY <1>6, <1>11, <1>12, LinkedNames DEF Loose
    <2>3. ParentOf(s, q) = p
      BY <1>6, <2>1, <2>2, ChildOf
    <2>. QED BY <1>11, <2>3 DEF Loose
  <1>22. w.n[q] \in Field(V) /\ Child(w, q, 1) = NULL /\ ParentOf(w, q) = p
    <2>1. Typed(u, V) /\ DOMAIN u.n = DOMAIN s.n
      BY <1>14 DEF Parted
    <2>2. q # NULL /\ 1 \in Side
      BY <1>6, <1>12, LinkedNames DEF Side
    <2>3. Child(u, q, 1) = NULL /\ ParentOf(u, q) = p
      BY <1>12, <1>14, <1>21, <2>2 DEF Parted
    <2>4. PICK c : c = Child(u, FalseRoot, 1)
      OBVIOUS
    <2>5. c # q /\ c \in Links(u)
      <3>1. c = IF Child(s, FalseRoot, 1) = q THEN NULL ELSE Child(s, FalseRoot, 1)
        BY <1>2, <1>14, <2>2, <2>4 DEF Parted
      <3>2. Child(s, FalseRoot, 1) \in Links(s)
        BY <1>2, <1>6, <2>2 DEF Linked
      <3>. QED BY <2>1, <2>2, <3>1, <3>2 DEF Links
    <2>6. /\ Typed(w, V) /\ DOMAIN w.n = DOMAIN u.n \ {FalseRoot}
          /\ \A y \in DOMAIN w.n :
               /\ ParentOf(w, y) = IF y = c THEN NULL ELSE ParentOf(u, y)
               /\ \A e \in Side : Child(w, y, e) = Child(u, y, e)
      BY <1>2, <1>16, <2>1, <2>4, <2>5, NewRootIs
    <2>7. q \in DOMAIN w.n
      BY <1>12, <2>1, <2>6
    <2>8. w.n[q] \in Field(V)
      BY <2>6, <2>7, Fields
    <2>. QED BY <2>2, <2>3, <2>5, <2>6, <2>7, <2>8
  <1>. QED BY <1>12, <1>18, <1>20, <1>22 DEF Departs

(* So it is in either case, and the tree without it is whole. *)
LEMMA BegDeparts ==
  ASSUME NEW V, NULL \in V, NEW t, Whole(t, V), t.beg # NULL,
         NEW r, r = Removed(t, KeyOf(t, t.beg)), NEW z, z = Free(r.t, r.q)
  PROVE  /\ t.beg \in DOMAIN t.n /\ KeyOf(t, t.beg) \in Key
         /\ Departs(r, z, V, t.beg)
         /\ Whole(z, V) /\ Lost(t, z, KeyOf(t, t.beg))
  <1>1. PICK k : k = KeyOf(t, t.beg)
    OBVIOUS
  <1>2. t.beg \in DOMAIN t.n
    BY DEF Whole, First
  <1>3. k \in Key
    BY <1>1, <1>2, ShapedLinks
  <1>4. Whole(z, V) /\ Lost(t, z, k)
    <2>1. z = Delete(t, k)
      BY <1>1 DEF Delete
    <2>. QED BY <1>3, <2>1, DeleteKeeps
  <1>5. t.root # NULL
    <2>1. PICK lo, hi, bh : Shaped(t, lo, hi, bh)
      BY DEF Whole
    <2>. QED BY <1>2, <2>1 DEF Shaped
  <1>6. CASE t.len = 1 /\ t.n[t.root].key = k
    <2>1. t.beg = t.root /\ Departs(r, z, V, t.root)
      BY <1>1, <1>3, <1>5, <1>6, OnlyDeparts
    <2>. QED BY <1>1, <1>2, <1>3, <1>4, <2>1
  <1>7. CASE ~(t.len = 1 /\ t.n[t.root].key = k)
    <2>1. Departs(r, z, V, t.beg)
      BY <1>1, <1>2, <1>3, <1>5, <1>7, FirstDeparts
    <2>. QED BY <1>1, <1>2, <1>3, <1>4, <2>1
  <1>. QED BY <1>6, <1>7

(* the tree z with the freed node q as it still reads in memory, c *)
Haunted(z, q, c) == [z EXCEPT !.n = [x \in {q} \cup DOMAIN z.n |-> IF x = q THEN c ELSE z.n[x]]]

(* From a freed node without a right child, tree_it_next goes to what the  *)
(* node remembers as its parent.                                           *)
LEMMA HauntedNext ==
  ASSUME NEW V, NULL \in V, NEW z, Whole(z, V), NEW q \in Key, q \notin DOMAIN z.n,
         NEW c, c.ch[2] = NULL, c.parent = z.beg, NEW u, u = Haunted(z, q, c)
  PROVE  ItNext(u, q) = z.beg
  <1>1. PICK b : b = z.beg
    OBVIOUS
  <1>2. z \in [n : [DOMAIN z.n -> Field(V)], root : Int, beg : Int, len : Int] /\ q # NULL
    BY Names DEF Whole, Typed
  <1>3. u.n = [x \in {q} \cup DOMAIN z.n |-> IF x = q THEN c ELSE z.n[x]]
    BY <1>2 DEF Haunted
  <1>4. DOMAIN u.n = {q} \cup DOMAIN z.n /\ u.n[q] = c /\ \A x \in DOMAIN z.n : u.n[x] = z.n[x]
    BY <1>3
  <1>5. /\ b \in Links(z) /\ NULL \notin DOMAIN z.n
        /\ \A x \in DOMAIN z.n : z.n[x].parent \in Links(z) /\ Child(z, x, 1) \in Links(z)
    <2>1. 1 \in Side
      BY DEF Side
    <2>. QED BY <1>1, <2>1, ShapedLinks DEF ParentOf
  <1>6. \A x \in DOMAIN z.n : Child(u, x, 1) = Child(z, x, 1)
    BY <1>4 DEF Child
  <1>7. Child(u, q, 1) = NULL
    <2>1. 1 + 1 = 2
      OBVIOUS
    <2>. QED BY <1>4, <2>1 DEF Child
  <1>8. \A x : Climbs(b, u, q, 1) = FALSE
    BY <1>2, <1>5, <1>6 DEF Climbs, Links
  <1>9. \E g : Ups(g, u, 1)
    <2>1. PICK lo, hi : Fits(z, lo, hi)
      BY FitsExist
    <2>2. PICK g0 : Ups(g0, z, 1)
      <3>1. 1 \in Side
        BY DEF Side
      <3>. QED BY <2>1, <3>1, UpsExist
    <2>3. \A x \in DOMAIN z.n :
            g0[x] = IF Climbs(z.n[x].parent, z, x, 1) THEN g0[z.n[x].parent] ELSE z.n[x].parent
      BY <2>2 DEF Ups
    <2>4. PICK g : g = [x \in DOMAIN u.n |-> IF x = q THEN b ELSE g0[x]]
      OBVIOUS
    <2>5. g[q] = b /\ \A x \in DOMAIN z.n : g[x] = g0[x]
      BY <1>4, <2>4
    <2>6. ASSUME NEW x \in DOMAIN u.n
          PROVE  g[x] = IF Climbs(u.n[x].parent, u, x, 1) THEN g[u.n[x].parent] ELSE u.n[x].parent
      <3>1. CASE x = q
        BY <1>1, <1>4, <1>8, <2>5, <3>1
      <3>2. CASE x # q
        <4>1. x \in DOMAIN z.n
          BY <1>4, <3>2
        <4>2. PICK p : p = z.n[x].parent
          OBVIOUS
        <4>3. p = u.n[x].parent /\ (p = NULL \/ p \in DOMAIN z.n)
          BY <1>4, <1>5, <4>1, <4>2 DEF Links
        <4>4. Climbs(p, u, x, 1) <=> Climbs(p, z, x, 1)
          BY <1>6, <4>3 DEF Climbs
        <4>5. Climbs(p, z, x, 1) => p \in DOMAIN z.n
          BY <4>3 DEF Climbs
        <4>6. g0[x] = IF Climbs(p, z, x, 1) THEN g0[p] ELSE p
          BY <2>3, <4>1, <4>2
        <4>7. g[x] = g0[x] /\ (p \in DOMAIN z.n => g[p] = g0[p])
          BY <2>5, <4>1
        <4>8. g[x] = IF Climbs(p, u, x, 1) THEN g[p] ELSE p
          BY <4>4, <4>5, <4>6, <4>7
        <4>. QED BY <4>3, <4>8
      <3>. QED BY <3>1, <3>2
    <2>7. g = [x \in DOMAIN u.n |-> g[x]]
      BY <2>4
    <2>. QED BY <2>6, <2>7 DEF Ups
  <1>10. PICK g : g = CHOOSE f : Ups(f, u, 1)
    OBVIOUS
  <1>11. Ups(g, u, 1)
    BY <1>9, <1>10, Zenon
  <1>12. g[q] = b
    <2>1. g[q] = IF Climbs(u.n[q].parent, u, q, 1) THEN g[u.n[q].parent] ELSE u.n[q].parent
      BY <1>4, <1>11 DEF Ups
    <2>. QED BY <1>1, <1>4, <1>8, <2>1
  <1>13. ItNext(u, q) = Ascend(u, q, 1)
    BY <1>2, <1>7 DEF ItNext, Step
  <1>. QED BY <1>1, <1>10, <1>12, <1>13, AscendIs

(* A tree without nodes is a tree made. *)
LEMMA BareTree ==
  ASSUME NEW V, NEW t, Whole(t, V), DOMAIN t.n = {}
  PROVE  t = TreeMake
  <1>1. t \in [n : [DOMAIN t.n -> Field(V)], root : Int, beg : Int, len : Int]
    BY DEF Whole, Typed
  <1>2. t.root = NULL
    <2>1. PICK lo, hi, bh : Shaped(t, lo, hi, bh)
      BY DEF Whole
    <2>. QED BY <2>1 DEF Shaped, Rooted
  <1>3. t.beg = NULL /\ t.len = 0
    BY FS_EmptySet DEF Whole, First
  <1>4. t.n = <<>>
    BY <1>1
  <1>5. t = [n |-> t.n, root |-> t.root, beg |-> t.beg, len |-> t.len]
    BY <1>1
  <1>. QED BY <1>2, <1>3, <1>4, <1>5 DEF TreeMake

-----------------------------------------------------------------------------
(***************************************************************************)
(* The books of an interval: the sites found, those printed, and what the  *)
(* tree still holds.                                                       *)
(***************************************************************************)
Line == [site : Key, pages : Int]
Found(c) == {SiteOf[o] : o \in c}
Listed(p) == {p[i].site : i \in DOMAIN p}

(* The tree holds the sites found and not yet listed, with their pages. *)
Holds(t, c, tot, p) ==
  /\ Whole(t, Int)
  /\ \A a, b : At(t, a, b) <=> a \in Found(c) /\ a \notin Listed(p) /\ b = tot[a]

Tallied(c, tot) ==
  /\ c \subseteq {o \in Object : SiteOf[o] # NoSite}
  /\ tot \in [Key -> Int] /\ \A s \in Key : s \notin Found(c) => tot[s] = 0

(* The lines are in order, say what was found, and come before what is     *)
(* still in the tree.                                                      *)
LinesRight(t, c, tot, p) ==
  /\ p \in Seq(Line) /\ Listed(p) \subseteq Found(c)
  /\ \A i, j \in DOMAIN p : i < j => p[i].site < p[j].site
  /\ \A i \in DOMAIN p : p[i].pages = tot[p[i].site]
  /\ \A i \in DOMAIN p : \A a, b : At(t, a, b) => p[i].site < a

(* the freed node of the iterator, while it is still read *)
Remembered(t, q, g) ==
  /\ q \in Key /\ q \notin DOMAIN t.n
  /\ \E c : g = [x \in {q} |-> c] /\ c.ch[2] = NULL /\ c.parent = t.beg

Phases ==
  /\ pc \in {"open", "scan", "print", "next", "sleep", "done"}
  /\ pc \in {"open", "scan", "done"} => printed = <<>>
  /\ pc \in {"open", "done"} => counted = {}
  /\ pc \in {"open", "sleep", "done"} => DOMAIN sites.n = {}
  /\ pc = "print" => it = sites.beg
  /\ pc = "next" => Remembered(sites, it, ghost)

SitesInv ==
  /\ Holds(sites, counted, total, printed)
  /\ Tallied(counted, total)
  /\ LinesRight(sites, counted, total, printed)
  /\ Phases

(* Adding the pages of an object of site s. *)
LEMMA CountHolds ==
  ASSUME NEW t, NEW c, NEW tot, Holds(t, c, tot, <<>>), Tallied(c, tot),
         NEW o \in Object, SiteOf[o] # NoSite, NEW n \in Int,
         NEW c2, c2 = c \cup {o}, NEW tot2, tot2 = [tot EXCEPT ![SiteOf[o]] = @ + n]
  PROVE  Holds(Add(t, SiteOf[o], n), c2, tot2, <<>>) /\ Tallied(c2, tot2)
  <1>1. PICK s : s = SiteOf[o]
    OBVIOUS
  <1>2. s \in Key
    BY <1>1, SiteAssumption
  <1>3. Found(c2) = Found(c) \cup {s}
    BY <1>1 DEF Found
  <1>4. /\ tot2 \in [Key -> Int] /\ tot2[s] = tot[s] + n /\ tot[s] \in Int
        /\ \A a \in Key : a # s => tot2[a] = tot[a]
    BY <1>1, <1>2 DEF Tallied
  <1>5. Listed(<<>>) = {}
    BY DEF Listed
  <1>6. Found(c) \subseteq Key
    BY SiteAssumption DEF Found, Tallied
  <1>7. IF Among(t, s) THEN At(t, s, tot[s]) ELSE tot[s] = 0
    <2>1. CASE s \in Found(c)
      <3>1. At(t, s, tot[s])
        BY <1>5, <2>1 DEF Holds
      <3>. QED BY <3>1 DEF At, AtIn, Among
    <2>2. CASE s \notin Found(c)
      <3>1. tot[s] = 0
        BY <1>2, <2>2 DEF Tallied
      <3>2. ~Among(t, s)
        <4>. SUFFICES ASSUME Among(t, s) PROVE FALSE
          OBVIOUS
        <4>1. PICK x \in DOMAIN t.n : KeyOf(t, x) = s
          BY DEF Among
        <4>2. At(t, s, ValOf(t, x))
          BY <4>1 DEF At, AtIn
        <4>. QED BY <2>2, <4>2 DEF Holds
      <3>. QED BY <3>1, <3>2
    <2>. QED BY <2>1, <2>2
  <1>8. PICK u : u = Add(t, s, n)
    OBVIOUS
  <1>9. Whole(u, Int) /\ \A a, b : At(u, a, b) <=> IF a = s THEN b = tot[s] + n ELSE At(t, a, b)
    <2>1. Whole(t, Int)
      BY DEF Holds
    <2>. QED BY <1>2, <1>4, <1>7, <1>8, <2>1, AddIs
  <1>10. ASSUME NEW a, NEW b
         PROVE  At(u, a, b) <=> a \in Found(c2) /\ a \notin Listed(<<>>) /\ b = tot2[a]
    <2>1. CASE a = s
      BY <1>3, <1>4, <1>5, <1>9, <2>1
    <2>2. CASE a # s
      <3>1. At(t, a, b) <=> a \in Found(c) /\ b = tot[a]
        BY <1>5 DEF Holds
      <3>2. a \in Found(c) => tot2[a] = tot[a]
        BY <1>4, <1>6, <2>2
      <3>. QED BY <1>3, <1>5, <1>9, <2>2, <3>1, <3>2
    <2>. QED BY <2>1, <2>2
  <1>11. Tallied(c2, tot2)
    BY <1>1, <1>3, <1>4 DEF Tallied
  <1>. QED BY <1>1, <1>8, <1>9, <1>10, <1>11 DEF Holds

(* The first site of the tree printed and deleted. *)
LEMMA PrintHolds ==
  ASSUME NEW t, NEW c, NEW tot, NEW p, Holds(t, c, tot, p), Tallied(c, tot), LinesRight(t, c, tot, p),
         t.beg # NULL, NEW r, r = Removed(t, KeyOf(t, t.beg)), NEW z, z = Free(r.t, r.q),
         NEW p2, p2 = Append(p, [site |-> KeyOf(t, t.beg), pages |-> ValOf(t, t.beg)])
  PROVE  Holds(z, c, tot, p2) /\ LinesRight(z, c, tot, p2)
  <1>1. Whole(t, Int) /\ NULL \in Int
    BY DEF Holds, NULL
  <1>2. PICK k, v, e : k = KeyOf(t, t.beg) /\ v = ValOf(t, t.beg) /\ e = [site |-> k, pages |-> v]
    OBVIOUS
  <1>3. t.beg \in DOMAIN t.n /\ k \in Key /\ Whole(z, Int) /\ Lost(t, z, k)
    BY <1>1, <1>2, BegDeparts
  <1>4. At(t, k, v)
    BY <1>2, <1>3 DEF At, AtIn
  <1>5. k \in Found(c) /\ k \notin Listed(p) /\ v = tot[k] /\ v \in Int
    BY <1>3, <1>4 DEF Holds, Tallied
  <1>6. p \in Seq(Line) /\ e \in Line /\ e.site = k /\ e.pages = v
    BY <1>2, <1>3, <1>5 DEF LinesRight, Line
  <1>7. /\ p2 \in Seq(Line) /\ Len(p) \in Nat /\ DOMAIN p = 1..Len(p) /\ DOMAIN p2 = 1..Len(p)+1
        /\ p2[Len(p)+1] = e /\ \A i \in 1..Len(p) : p2[i] = p[i]
    BY <1>2, <1>6
  <1>8. Listed(p2) = Listed(p) \cup {k}
    BY <1>6, <1>7 DEF Listed
  <1>9. \A i \in DOMAIN p : p[i].site < k
    BY <1>4 DEF LinesRight
  <1>10. ASSUME NEW a, NEW b, At(z, a, b) PROVE k < a
    <2>1. At(t, a, b) /\ a # k
      BY <1>3, <1>10 DEF Lost
    <2>2. PICK x \in DOMAIN t.n : KeyOf(t, x) = a
      BY <2>1 DEF At, AtIn
    <2>3. k <= a
      BY <1>1, <1>2, <2>2 DEF Whole, First
    <2>4. k \in Int /\ a \in Int
      BY <1>1, <1>3, <2>2, ShapedLinks DEF Key
    <2>. QED BY <2>1, <2>3, <2>4
  <1>11. Holds(z, c, tot, p2)
    <2>1. ASSUME NEW a, NEW b
          PROVE  At(z, a, b) <=> a \in Found(c) /\ a \notin Listed(p2) /\ b = tot[a]
      <3>1. At(z, a, b) <=> At(t, a, b) /\ a # k
        BY <1>3 DEF Lost
      <3>2. At(t, a, b) <=> a \in Found(c) /\ a \notin Listed(p) /\ b = tot[a]
        BY DEF Holds
      <3>. QED BY <1>8, <3>1, <3>2
    <2>. QED BY <1>3, <2>1 DEF Holds
  <1>12. LinesRight(z, c, tot, p2)
    <2>1. Listed(p2) \subseteq Found(c)
      BY <1>5, <1>8 DEF LinesRight
    <2>2. \A i, j \in DOMAIN p2 : i < j => p2[i].site < p2[j].site
      <3>. SUFFICES ASSUME NEW i \in DOMAIN p2, NEW j \in DOMAIN p2, i < j
                    PROVE  p2[i].site < p2[j].site
        OBVIOUS
      <3>1. i \in DOMAIN p /\ p2[i] = p[i]
        BY <1>7
      <3>2. CASE j \in DOMAIN p
        BY <1>7, <3>1, <3>2 DEF LinesRight
      <3>3. CASE j \notin DOMAIN p
        <4>1. p2[j] = e
          BY <1>7, <3>3
        <4>. QED BY <1>6, <1>9, <3>1, <4>1
      <3>. QED BY <3>2, <3>3
    <2>3. \A i \in DOMAIN p2 : p2[i].pages = tot[p2[i].site]
      <3>. SUFFICES ASSUME NEW i \in DOMAIN p2 PROVE p2[i].pages = tot[p2[i].site]
        OBVIOUS
      <3>1. CASE i \in DOMAIN p
        BY <1>7, <3>1 DEF LinesRight
      <3>2. CASE i \notin DOMAIN p
        BY <1>5, <1>6, <1>7, <3>2
      <3>. QED BY <3>1, <3>2
    <2>4. ASSUME NEW i \in DOMAIN p2, NEW a, NEW b, At(z, a, b) PROVE p2[i].site < a
      <3>1. CASE i \in DOMAIN p
        <4>1. At(t, a, b)
          BY <1>3, <2>4 DEF Lost
        <4>. QED BY <1>7, <3>1, <4>1 DEF LinesRight
      <3>2. CASE i \notin DOMAIN p
        BY <1>6, <1>7, <1>10, <2>4, <3>2
      <3>. QED BY <3>1, <3>2
    <2>. QED BY <1>7, <2>1, <2>2, <2>3, <2>4 DEF LinesRight
  <1>. QED BY <1>11, <1>12

(* Before the first line. *)
LEMMA Nothing ==
  /\ Listed(<<>>) = {} /\ Found({}) = {} /\ <<>> \in Seq(Line)
  /\ \A t, c, tot : LinesRight(t, c, tot, <<>>)
  BY DEF Listed, Found, LinesRight

(* At the start, and after each sleep, the books are empty. *)
LEMMA BooksOpen ==
  ASSUME NEW t, Whole(t, Int), DOMAIN t.n = {}, NEW tot, tot = [s \in Key |-> 0]
  PROVE  Holds(t, {}, tot, <<>>) /\ Tallied({}, tot)
  BY Nothing DEF Holds, Tallied, At, AtIn

(* main starts with an empty tree and empty books. *)
LEMMA SitesInit == Init => SitesInv
  <1>. SUFFICES ASSUME Init PROVE SitesInv
    OBVIOUS
  <1>1. sites = TreeMake /\ Whole(sites, Int) /\ DOMAIN sites.n = {}
    BY MakeWhole DEF Init
  <1>2. Holds(sites, counted, total, printed) /\ Tallied(counted, total)
    BY <1>1, BooksOpen DEF Init
  <1>3. LinesRight(sites, counted, total, printed)
    BY Nothing DEF Init
  <1>4. Phases
    BY <1>1 DEF Init, Phases
  <1>. QED BY <1>2, <1>3, <1>4 DEF SitesInv

(* An action that leaves the tree and the books alone. *)
Rested == UNCHANGED <<sites, hist>>

(* Such an action keeps the invariant if the control is right. *)
LEMMA RestedKeeps ==
  ASSUME SitesInv, Rested, Phases'
  PROVE  SitesInv'
  BY DEF SitesInv, Rested, hist, Holds, Tallied, LinesRight, Whole

(* An object counted: its pages are added in the tree and in the books. *)
LEMMA CountKeeps ==
  ASSUME SitesInv, NEW o \in Object, NEW n \in Pages, Count(o, n)
  PROVE  SitesInv'
  <1>1. pc = "scan" /\ printed = <<>> /\ pc' = pc /\ printed' = printed
    BY DEF SitesInv, Phases, Count, Scanning
  <1>2. SiteOf[o] # NoSite /\ n \in Int
    BY PageAssumption DEF Count
  <1>3. /\ sites' = Add(sites, SiteOf[o], n) /\ counted' = counted \cup {o}
        /\ total' = [total EXCEPT ![SiteOf[o]] = @ + n]
    BY DEF Count
  <1>4. Holds(sites, counted, total, <<>>) /\ Tallied(counted, total)
    BY <1>1 DEF SitesInv
  <1>5. PICK z, c2, tot2 : /\ z = Add(sites, SiteOf[o], n) /\ c2 = counted \cup {o}
                           /\ tot2 = [total EXCEPT ![SiteOf[o]] = @ + n]
    OBVIOUS
  <1>6. Holds(z, c2, tot2, <<>>) /\ Tallied(c2, tot2)
    BY <1>2, <1>4, <1>5, CountHolds
  <1>7. LinesRight(z, c2, tot2, <<>>)
    BY Nothing
  <1>8. z = sites' /\ c2 = counted' /\ tot2 = total' /\ printed' = <<>>
    BY <1>1, <1>3, <1>5
  <1>9. Holds(sites, counted, total, printed)' /\ Tallied(counted, total)' /\ LinesRight(sites, counted, total, printed)'
    BY ONLY <1>6, <1>7, <1>8 DEF Holds, Tallied, LinesRight
  <1>10. Phases'
    BY <1>1, <1>8 DEF Phases
  <1>. QED BY <1>9, <1>10 DEF SitesInv

(* What is printed is the first node of the tree. *)
LEMMA PrintKeeps ==
  ASSUME SitesInv, PrintSite
  PROVE  SitesInv'
  <1>1. pc = "print" /\ pc' = "next" /\ it = sites.beg /\ it # NULL /\ it' = it
    BY SMTT(30) DEF SitesInv, Phases, PrintSite, Goto
  <1>2. PICK r : r = Removed(sites, KeyOf(sites, sites.beg))
    BY ZenonT(30)
  <1>3. sites' = Free(r.t, r.q) /\ ghost' = [x \in {r.q} |-> Garbage(r.t.n[x])]
    BY ZenonT(60), <1>1, <1>2 DEF PrintSite, KeyOf
  <1>4. /\ counted' = counted /\ total' = total
        /\ printed' = Append(printed, [site |-> KeyOf(sites, sites.beg), pages |-> ValOf(sites, sites.beg)])
    BY <1>1 DEF PrintSite, PrintLine, KeyOf, ValOf
  <1>5. PICK z, p2 : /\ z = Free(r.t, r.q)
                     /\ p2 = Append(printed, [site |-> KeyOf(sites, sites.beg), pages |-> ValOf(sites, sites.beg)])
    OBVIOUS
  <1>6. z = sites' /\ p2 = printed'
    BY <1>3, <1>4, <1>5
  <1>7. Holds(z, counted, total, p2) /\ LinesRight(z, counted, total, p2)
    BY <1>1, <1>2, <1>5, PrintHolds DEF SitesInv
  <1>8. Whole(sites, Int) /\ NULL \in Int
    BY DEF SitesInv, Holds, NULL
  <1>9. it \in DOMAIN sites.n /\ Departs(r, z, Int, it)
    BY <1>1, <1>2, <1>5, <1>8, BegDeparts
  <1>10. Remembered(z, it, ghost')
    <2>1. it \in Key
      BY <1>8, <1>9, Names, ShapedLinks DEF Whole, Typed
    <2>2. PICK c, g : c = r.t.n[it] /\ g = Garbage(c)
      OBVIOUS
    <2>3. c \in Field(Int) /\ c.ch[2] = NULL /\ c.parent = z.beg
      <3>1. 1 + 1 = 2
        OBVIOUS
      <3>. QED BY <1>9, <2>2, <3>1 DEF Departs, Child, ParentOf
    <2>4. g.ch[2] = NULL /\ g.parent = z.beg
      BY <2>2, <2>3 DEF Garbage, Field
    <2>5. ghost' = [x \in {it} |-> g]
      BY <1>3, <1>9, <2>2 DEF Departs
    <2>6. it \notin DOMAIN z.n
      BY <1>9 DEF Departs
    <2>. QED BY <2>1, <2>4, <2>5, <2>6 DEF Remembered
  <1>11. (Holds(sites, counted, total, printed) /\ Tallied(counted, total) /\ LinesRight(sites, counted, total, printed))'
    <2>1. Tallied(counted, total)
      BY DEF SitesInv
    <2>. QED BY ONLY <1>4, <1>6, <1>7, <2>1 DEF Holds, Tallied, LinesRight
  <1>12. Phases'
    BY <1>1, <1>6, <1>10 DEF Phases, Remembered
  <1>. QED BY <1>11, <1>12 DEF SitesInv

(* What comes next is the first node that is left, though it is sought     *)
(* from a node that is freed.                                              *)
LEMMA NextKeeps ==
  ASSUME SitesInv, NextSite
  PROVE  SitesInv'
  <1>1. pc = "next" /\ pc' = "print" /\ it' = ItNext(Recalled, it) /\ Rested
    BY DEF NextSite, Goto, Rested
  <1>2. Remembered(sites, it, ghost)
    BY <1>1 DEF SitesInv, Phases
  <1>3. PICK c : ghost = [x \in {it} |-> c] /\ c.ch[2] = NULL /\ c.parent = sites.beg
    BY <1>2 DEF Remembered
  <1>4. it \in Key /\ it \notin DOMAIN sites.n
    BY <1>2 DEF Remembered
  <1>5. Whole(sites, Int) /\ NULL \in Int
    BY DEF SitesInv, Holds, NULL
  <1>6. Recalled = Haunted(sites, it, c)
    <2>1. DOMAIN ghost = {it} /\ ghost[it] = c
      BY <1>3
    <2>2. sites \in [n : [DOMAIN sites.n -> Field(Int)], root : Int, beg : Int, len : Int]
      BY <1>5 DEF Whole, Typed
    <2>3. [x \in DOMAIN ghost \cup DOMAIN sites.n |-> IF x \in DOMAIN ghost THEN ghost[x] ELSE sites.n[x]]
            = [x \in {it} \cup DOMAIN sites.n |-> IF x = it THEN c ELSE sites.n[x]]
      BY <2>1
    <2>. QED BY <2>2, <2>3 DEF Recalled, Haunted
  <1>7. ItNext(Haunted(sites, it, c), it) = sites.beg
    <2>1. PICK u : u = Haunted(sites, it, c)
      OBVIOUS
    <2>. QED BY <1>3, <1>4, <1>5, <2>1, HauntedNext
  <1>8. it' = sites.beg
    BY <1>1, <1>6, <1>7
  <1>9. Phases'
    BY <1>1, <1>8 DEF Phases, Rested
  <1>. QED BY <1>1, <1>9, RestedKeeps

(* After the sleep a new interval begins with empty books. *)
LEMMA SleepKeeps ==
  ASSUME SitesInv, Sleep
  PROVE  SitesInv'
  <1>1. /\ pc = "sleep" /\ pc' = "open" /\ sites' = sites
        /\ counted' = {} /\ total' = [s \in Key |-> 0] /\ printed' = <<>>
    BY DEF Sleep, Goto
  <1>2. Whole(sites, Int) /\ DOMAIN sites.n = {}
    BY <1>1 DEF SitesInv, Holds, Phases
  <1>3. PICK tot : tot = [s \in Key |-> 0]
    OBVIOUS
  <1>4. Holds(sites, {}, tot, <<>>) /\ Tallied({}, tot) /\ LinesRight(sites, {}, tot, <<>>)
    BY <1>2, <1>3, BooksOpen, Nothing
  <1>5. (Holds(sites, counted, total, printed) /\ Tallied(counted, total) /\ LinesRight(sites, counted, total, printed))'
    BY ONLY <1>1, <1>3, <1>4 DEF Holds, Tallied, LinesRight
  <1>6. Phases'
    BY <1>1, <1>2 DEF Phases
  <1>. QED BY <1>5, <1>6 DEF SitesInv

(* The rest touches neither the tree nor the books. *)
LEMMA OthersKeep ==
  ASSUME SitesInv,
         \/ \E o \in Object : Create(o) \/ Destroy(o) \/ Vanished(o) \/ NotCounted(o)
         \/ Exit \/ Done \/ Open \/ OpenFails \/ EndOfDir \/ EndOfPrint \/ UNCHANGED vars
  PROVE  SitesInv'
  <1>1. Rested
    BY DEF Rested, Create, Destroy, Vanished, NotCounted, Exit, Done, Open, OpenFails, EndOfDir, EndOfPrint,
           vars, hist, env
  <1>2. CASE \/ \E o \in Object : Create(o) \/ Destroy(o) \/ Vanished(o) \/ NotCounted(o)
             \/ Exit \/ Done \/ UNCHANGED vars
    <2>1. UNCHANGED <<pc, it, ghost>>
      BY <1>2 DEF Create, Destroy, Vanished, NotCounted, Scanning, Exit, Done, vars
    <2>2. Phases'
      BY <1>1, <2>1 DEF Phases, Rested, hist, SitesInv, Remembered
    <2>. QED BY <1>1, <2>2, RestedKeeps
  <1>3. CASE Open \/ OpenFails
    <2>1. pc = "open" /\ pc' \in {"scan", "done"}
      BY <1>3 DEF Open, OpenFails, Goto
    <2>2. Phases'
      BY <1>1, <2>1 DEF Phases, Rested, hist, SitesInv
    <2>. QED BY <1>1, <2>2, RestedKeeps
  <1>4. CASE EndOfDir
    <2>1. pc' = "print" /\ it' = sites.beg
      BY <1>4 DEF EndOfDir, Goto
    <2>2. Phases'
      BY <1>1, <2>1 DEF Phases, Rested
    <2>. QED BY <1>1, <2>2, RestedKeeps
  <1>5. CASE EndOfPrint
    <2>1. pc = "print" /\ pc' = "sleep" /\ it = NULL
      BY <1>5 DEF EndOfPrint, Goto
    <2>2. sites.beg = NULL /\ Whole(sites, Int)
      BY <2>1 DEF SitesInv, Phases, Holds
    <2>3. DOMAIN sites.n = {}
      BY <2>2, Names DEF Whole, First
    <2>4. Phases'
      BY <1>1, <2>1, <2>3 DEF Phases, Rested
    <2>. QED BY <1>1, <2>4, RestedKeeps
  <1>. QED BY <1>2, <1>3, <1>4, <1>5

(* SitesInv is an inductive invariant of LiveSites. *)
THEOREM SitesKept == Spec => []SitesInv
  <1>1. SitesInv /\ [Next]_vars => SitesInv'
    <2>. SUFFICES ASSUME SitesInv, [Next]_vars PROVE SitesInv'
      OBVIOUS
    <2>1. CASE \E o \in Object : \E n \in Pages : Count(o, n)
      BY <2>1, CountKeeps
    <2>2. CASE PrintSite
      BY <2>2, PrintKeeps
    <2>3. CASE NextSite
      BY <2>3, NextKeeps
    <2>4. CASE Sleep
      BY <2>4, SleepKeeps
    <2>5. CASE \/ \E o \in Object : Create(o) \/ Destroy(o) \/ Vanished(o) \/ NotCounted(o)
               \/ Exit \/ Done \/ Open \/ OpenFails \/ EndOfDir \/ EndOfPrint \/ UNCHANGED vars
      BY <2>5, OthersKeep
    <2>. QED BY <2>1, <2>2, <2>3, <2>4, <2>5 DEF Next, DoLoop
  <1>. QED BY <1>1, SitesInit, PTL DEF Spec

(* After the print the tree is empty, so that all that was found is        *)
(* listed.                                                                 *)
LEMMA ListedAll ==
  ASSUME SitesInv, pc = "sleep"
  PROVE  Listed(printed) = Found(counted) /\ sites = TreeMake
  <1>1. DOMAIN sites.n = {} /\ Holds(sites, counted, total, printed) /\ Listed(printed) \subseteq Found(counted)
    BY DEF SitesInv, Phases, LinesRight
  <1>2. ASSUME NEW s \in Found(counted) PROVE s \in Listed(printed)
    <2>. SUFFICES ASSUME s \notin Listed(printed) PROVE FALSE
      OBVIOUS
    <2>1. At(sites, s, total[s])
      BY <1>1, <1>2 DEF Holds
    <2>. QED BY <1>1, <2>1 DEF At, AtIn
  <1>3. sites = TreeMake
    BY <1>1, BareTree DEF Holds
  <1>. QED BY <1>1, <1>2, <1>3

(* live_largest_sites.c: the lines of every interval are exact.            *)
THEOREM IntervalAlways == Spec => []IntervalExact
  <1>1. SitesInv => IntervalExact
    <2>. SUFFICES ASSUME SitesInv, pc = "sleep"
                  PROVE  /\ \A i, j \in DOMAIN printed : i < j => printed[i].site < printed[j].site
                         /\ {printed[i].site : i \in DOMAIN printed} = {SiteOf[o] : o \in counted}
                         /\ \A i \in DOMAIN printed : printed[i].pages = total[printed[i].site]
                         /\ sites = TreeMake
      BY DEF IntervalExact
    <2>1. LinesRight(sites, counted, total, printed)
      BY DEF SitesInv
    <2>2. Listed(printed) = Found(counted) /\ sites = TreeMake
      BY ListedAll
    <2>. QED BY <2>1, <2>2 DEF LinesRight, Listed, Found
  <1>. QED BY <1>1, SitesKept, PTL

-----------------------------------------------------------------------------
(* Unless the stray close hits the directory, what is there all along is   *)
(* counted or will be.                                                     *)
ScanInv ==
  /\ steady \subseteq present
  /\ pc # "scan" => ~closed
  /\ pc = "scan" /\ fd # "dir" =>
       ~closed /\ \A o \in steady : SiteOf[o] # NoSite => o \in counted \/ o \in todo

(* ScanInv is inductive. *)
LEMMA ScanKept == Spec => []ScanInv
  <1>1. Init => ScanInv
    BY DEF Init, ScanInv
  <1>2. ScanInv /\ [Next]_vars => ScanInv'
    <2>. SUFFICES ASSUME ScanInv, [Next]_vars PROVE ScanInv'
      OBVIOUS
    <2>. USE DEF ScanInv
    <2>1. ASSUME NEW o \in Object, Create(o) PROVE ScanInv'
      BY <2>1 DEF Create, hist
    <2>2. ASSUME NEW o \in Object, Destroy(o) PROVE ScanInv'
      BY <2>2 DEF Destroy, hist
    <2>3. CASE Exit
      BY <2>3 DEF Exit, hist
    <2>4. CASE Open
      BY <2>4 DEF Open, Goto, hist
    <2>5. CASE OpenFails
      BY <2>5 DEF OpenFails, Goto, env, hist
    <2>6. ASSUME NEW o \in Object, Vanished(o) PROVE ScanInv'
      BY <2>6 DEF Vanished, Scanning, env, hist
    <2>7. ASSUME NEW o \in Object, NotCounted(o) PROVE ScanInv'
      BY <2>7 DEF NotCounted, Scanning, CloseFd, env, hist
    <2>8. ASSUME NEW o \in Object, NEW n \in Pages, Count(o, n) PROVE ScanInv'
      BY <2>8 DEF Count, Scanning, CloseFd, env, hist
    <2>9. CASE EndOfDir
      BY <2>9 DEF EndOfDir, Goto, hist
    <2>10. CASE PrintSite \/ NextSite \/ EndOfPrint \/ Sleep
      BY <2>10 DEF PrintSite, NextSite, EndOfPrint, Sleep, Goto, env, hist
    <2>11. CASE Done \/ UNCHANGED vars
      BY <2>11 DEF Done, vars, env, hist
    <2>. QED BY <2>1, <2>2, <2>3, <2>4, <2>5, <2>6, <2>7, <2>8, <2>9, <2>10, <2>11 DEF Next, DoLoop
  <1>. QED BY <1>1, <1>2, PTL DEF Spec

(* live_largest_sites.c: at the end of the scan no steady object is missed. *)
THEOREM SteadyAlways == Spec => []SteadyCounted
  <1>1. ScanInv => SteadyCounted
    BY DEF ScanInv, SteadyCounted
  <1>. QED BY <1>1, ScanKept, PTL
=============================================================================
