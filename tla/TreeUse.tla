------------------------------ MODULE TreeUse ------------------------------
(***************************************************************************)
(* A program that inserts into, overwrites in, deletes from and makes anew *)
(* a tree of tree.h, as the two example tools do.                          *)
(***************************************************************************)
EXTENDS RBTree

CONSTANTS Plain, Marked   \* the values; see PutKey

VARIABLE tree

TreeInit == tree = TreeMake

(* Nobody keeps a pointer to a node here, so that after each operation a   *)
(* node can be named after its key: equal trees become one state.          *)
Renamed(t) ==
  LET to(q) == IF q = NULL THEN NULL ELSE t.n[q].key
      at(k) == CHOOSE q \in DOMAIN t.n : to(q) = k
      node(q) == [t.n[q] EXCEPT !.parent = to(@), !.ch = <<to(@[1]), to(@[2])>>]
  IN  [t EXCEPT !.n = [k \in {to(q) : q \in DOMAIN t.n} |-> node(at(k))],
                !.root = to(@), !.beg = to(@)]

(* The tree only copies values, so one entry with a value of its own is    *)
(* enough to see where values go; that bounds the states.                  *)
PutKey(k, v) ==
  /\ v = Marked => \A x \in DOMAIN tree.n : tree.n[x].key # k => tree.n[x].val = Plain
  /\ tree' = Renamed(Insert(tree, k, v))

RemoveKey(k) == tree' = Renamed(Delete(tree, k))
Remake == tree' = TreeMake

TreeNext ==
  \/ \E k \in Key, v \in {Plain, Marked} : PutKey(k, v)
  \/ \E k \in Key : RemoveKey(k)
  \/ Remake

TreeSpec == TreeInit /\ [][TreeNext]_tree
-----------------------------------------------------------------------------
Reach == Below(tree, tree.root)
Keys  == {tree.n[x].key : x \in Reach}

BlackHeight(q) ==
  LET height[x \in Links(tree)] ==
        IF x = NULL THEN 0 ELSE height[Child(tree, x, 0)] + Bit(~tree.n[x].red)
  IN  height[q]

(* The red-black invariants, and that parents, the first node, the length  *)
(* and the allocated nodes agree with the links: a node freed too early or *)
(* never, or a stale parent, would only show in a later iteration.         *)
Shape ==
  /\ DOMAIN tree.n = Reach
  /\ tree.len = Cardinality(Reach) /\ tree.len = Cardinality(Keys)
  /\ tree.root # NULL => ~IsRed(tree, tree.root) /\ tree.n[tree.root].parent = NULL
  /\ tree.beg = IF tree.root = NULL THEN NULL ELSE Outermost(tree, tree.root, 0)
  /\ \A x \in Reach : \A d \in {0, 1} :
       LET c == Child(tree, x, d)
       IN  /\ c # NULL => tree.n[c].parent = x
           /\ IsRed(tree, x) => ~IsRed(tree, c)
           /\ \A y \in Below(tree, c) :
                IF d = 0 THEN tree.n[y].key < tree.n[x].key ELSE tree.n[y].key > tree.n[x].key
  /\ \A x \in Reach : BlackHeight(Child(tree, x, 0)) = BlackHeight(Child(tree, x, 1))

(* The nodes an iterator visits, cut off when it does not come to an end. *)
Walk(q, up, fuel) ==
  LET at[i \in 1..fuel] ==
        IF i = 1 THEN q
        ELSE LET x == at[i-1]
             IN  IF x = NULL THEN x ELSE IF up THEN ItNext(tree, x) ELSE ItPrev(tree, x)
      ends == {i \in 1..fuel : at[i] = NULL}
      n == IF ends = {} THEN fuel ELSE (CHOOSE i \in ends : \A j \in ends : i <= j) - 1
  IN  [i \in 1..n |-> tree.n[at[i]].key]

Sorted(s, up) == \A i \in 1..Len(s)-1 : IF up THEN s[i] < s[i+1] ELSE s[i] > s[i+1]

(* Both traversals visit every key once, in order, and end. *)
Traversed ==
  LET up == Walk(tree.beg, TRUE, tree.len + 1)
      down == Walk(Last(tree), FALSE, tree.len + 1)
      all(s) == Len(s) = tree.len /\ Keys = {s[i] : i \in DOMAIN s}
  IN  all(up) /\ all(down) /\ Sorted(up, TRUE) /\ Sorted(down, FALSE)

Floor(k) == ItPrev(tree, Gtr(tree, k))

(* For present and absent keys, each range lookup finds what a search of   *)
(* the whole key set finds; Floor is how the accesses tool looks for the   *)
(* object that may contain an address.                                     *)
LookupsRight ==
  LET least(S) == IF S = {} THEN NULL ELSE CHOOSE x \in S : \A y \in S : x <= y
      most(S)  == IF S = {} THEN NULL ELSE CHOOSE x \in S : \A y \in S : x >= y
      keyOf(q) == IF q = NULL THEN NULL ELSE tree.n[q].key
  IN  \A k \in Key \cup {0} :
        /\ keyOf(Lookup(tree, k)) = IF k \in Keys THEN k ELSE NULL
        /\ keyOf(Geq(tree, k)) = least({x \in Keys : x >= k})
        /\ keyOf(Gtr(tree, k)) = least({x \in Keys : x > k})
        /\ keyOf(Floor(k)) = most({x \in Keys : x <= k})

Map == INSTANCE OrderedMap WITH
         Val <- {Plain, Marked},
         map <- [k \in Keys |-> tree.n[Lookup(tree, k)].val]

(* Every operation does to the map what it says, and nothing else; also    *)
(* deleting an absent key, which restructures the tree.                    *)
Implements == Map!Spec
=============================================================================
