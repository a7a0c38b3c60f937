------------------------------- MODULE RBTree -------------------------------
(***************************************************************************)
(* The red-black tree of tree.h, as operators on a record                  *)
(*   [n, root, beg, len]                                                   *)
(* n maps the allocated nodes to their fields, and while an operation runs *)
(* FalseRoot to the false root.  A node has children 0 and 1.              *)
(***************************************************************************)
EXTENDS Integers, Sequences, FiniteSets

CONSTANT NKey
ASSUME KeyAssumption == NKey \in Nat

Key  == 1..NKey    \* the keys, in their order
NULL == 0
FalseRoot == -1
Bit(b) == IF b THEN 1 ELSE 0

Make(k, v) == [red |-> TRUE, ch |-> <<NULL, NULL>>, parent |-> NULL, key |-> k, val |-> v]
TreeMake == [n |-> <<>>, root |-> NULL, beg |-> NULL, len |-> 0]

Child(t, p, d) == t.n[p].ch[d + 1]
IsRed(t, q) == q # NULL /\ t.n[q].red

SetChild(t, p, d, q) == [t EXCEPT !.n[p].ch[d + 1] = q]
SetParent(t, q, p)   == IF q = NULL THEN t ELSE [t EXCEPT !.n[q].parent = p]
Link(t, p, d, q)     == SetParent(SetChild(t, p, d, q), q, p)
Paint(t, reds, blacks) ==
  [t EXCEPT !.n = [x \in DOMAIN t.n |-> [t.n[x] EXCEPT !.red = (@ \/ x \in reds) /\ x \notin blacks]]]

(* malloc; the name of a node means nothing *)
Fresh(t, k) == IF k \notin DOMAIN t.n THEN k ELSE CHOOSE x \in Key : x \notin DOMAIN t.n
Allocate(t, x, k, v) ==
  [t EXCEPT !.n = [y \in DOMAIN t.n \cup {x} |-> IF y = x THEN Make(k, v) ELSE t.n[y]]]

Links(t) == DOMAIN t.n \cup {NULL}

Below(t, q) ==
  LET below[x \in Links(t)] ==
        IF x = NULL THEN {} ELSE {x} \cup below[Child(t, x, 0)] \cup below[Child(t, x, 1)]
  IN  below[q]

Drop(t, X) == [t EXCEPT !.n = [x \in DOMAIN t.n \ X |-> t.n[x]]]
Free(t, q) == Drop(t, Below(t, q))

(***************************************************************************)
(* Rotations.  The caller hangs the result in place of node, as child d    *)
(* of p.                                                                   *)
(***************************************************************************)
Turned(t, node, dir) ==
  LET result == Child(t, node, 1 - dir)
      t1     == Link(t, node, 1 - dir, Child(t, result, dir))
  IN  Paint(Link(t1, result, dir, node), {node}, {result})

(* mutant of Rotate: the new top keeps its old parent *)
RotateOrphan(t, p, d, node, dir) ==
  SetChild(Turned(t, node, dir), p, d, Child(t, node, 1 - dir))

Rotate(t, p, d, node, dir) ==
  Link(Turned(t, node, dir), p, d, Child(t, node, 1 - dir))

Rotate2(t, p, d, node, dir) ==
  Rotate(Rotate(t, node, 1 - dir, Child(t, node, 1 - dir), 1 - dir), p, d, node, dir)

(* update the root, which may be different, and make it black *)
WithHead(t) == SetChild(Allocate(t, FalseRoot, NULL, NULL), FalseRoot, 1, t.root)

NewRoot(t) ==
  LET r == Child(t, FalseRoot, 1)
  IN  Drop(Paint(SetParent([t EXCEPT !.root = r], r, NULL), {}, {r}), {FalseRoot})

(***************************************************************************)
(* _insert: q goes down with its ancestors p, g and h.  A node with two    *)
(* red children is flipped, a red pair rotated.                            *)
(***************************************************************************)
Flip(t, q) == IF IsRed(t, Child(t, q, 0)) /\ IsRed(t, Child(t, q, 1))
              THEN Paint(t, {q}, {Child(t, q, 0), Child(t, q, 1)}) ELSE t

FixPair(t, s, q) ==
  LET d2 == Bit(Child(t, s.h, 1) = s.g)
  IN  IF ~(IsRed(t, q) /\ IsRed(t, s.p)) THEN t
      ELSE IF q = Child(t, s.p, s.last) THEN Rotate(t, s.h, d2, s.g, 1 - s.last)
      ELSE Rotate2(t, s.h, d2, s.g, 1 - s.last)

Inserted(t, s, q, v, made) ==
  LET t1 == NewRoot(IF made THEN t ELSE [t EXCEPT !.n[q].val = v])
  IN  IF made THEN [t1 EXCEPT !.len = @ + 1, !.beg = IF s.lefts THEN q ELSE @]
              ELSE t1

(* one turn of the loop: x is the tree with the helpers *)
InsertTurn(x, k, v) ==
  LET made == x.q = NULL
      q    == IF made THEN Fresh(x.t, k) ELSE x.q
      t1   == FixPair(IF made THEN Link(Allocate(x.t, q, k, v), x.p, x.dir, q) ELSE Flip(x.t, q), x, q)
      d    == Bit(t1.n[q].key < k)
  IN  IF t1.n[q].key = k
      THEN [x EXCEPT !.t = Inserted(t1, x, q, v, made), !.done = TRUE]
      ELSE [t |-> t1, h |-> IF x.g = NULL THEN x.h ELSE x.g, g |-> x.p, p |-> q,
            q |-> Child(t1, q, d), last |-> x.dir, dir |-> d, lefts |-> x.lefts /\ d = 0,
            done |-> FALSE]

(* The loops end by themselves; that this bound is never met is part of    *)
(* what is shown of them.                                                  *)
MaxTurns == 3 * NKey + 9

Descended(t, k, v) ==
  LET turn[i \in 0..MaxTurns] ==
        IF i = 0 THEN [t |-> WithHead(t), h |-> FalseRoot, g |-> NULL, p |-> NULL, q |-> t.root,
                       last |-> 0, dir |-> 0, lefts |-> TRUE, done |-> FALSE]
        ELSE LET x == turn[i-1] IN IF x.done THEN x ELSE InsertTurn(x, k, v)
  IN  turn[MaxTurns].t

Insert(t, k, v) ==
  IF t.root = NULL
  THEN LET x == Fresh(t, k)
       IN  Paint([Allocate(t, x, k, v) EXCEPT !.root = x, !.beg = x, !.len = 1], {}, {x})
  ELSE Descended(t, k, v)

(***************************************************************************)
(* _delete: q goes down as a red node, f is the node with the key.         *)
(***************************************************************************)
RedSibling(t, p, q, g, last) ==
  LET s  == Child(t, p, 1 - last)
      d2 == Bit(Child(t, g, 1) = p)
      t1 == IF IsRed(t, Child(t, s, last)) THEN Rotate2(t, g, d2, p, last)
                                           ELSE Rotate(t, g, d2, p, last)
      top == Child(t1, g, d2)
  IN  IF ~IsRed(t, Child(t, s, 0)) /\ ~IsRed(t, Child(t, s, 1))
      THEN Paint(t, {s, q}, {p})
      ELSE Paint(t1, {q, top}, {Child(t1, top, 0), Child(t1, top, 1)})

(* mutant of PushRed: a black sibling is left alone *)
PushRedLazy(t, p, q, g, last, dir) ==
  IF IsRed(t, q) \/ IsRed(t, Child(t, q, dir)) THEN t
  ELSE IF IsRed(t, Child(t, q, 1 - dir)) THEN Rotate(t, p, last, q, dir)
  ELSE t

PushRed(t, p, q, g, last, dir) ==
  IF IsRed(t, q) \/ IsRed(t, Child(t, q, dir)) THEN t
  ELSE IF IsRed(t, Child(t, q, 1 - dir)) THEN Rotate(t, p, last, q, dir)
  ELSE IF Child(t, p, 1 - last) # NULL THEN RedSibling(t, p, q, g, last)
  ELSE t

(* mutant of Unlink: the values are not exchanged *)
UnlinkKeyOnly(t, p, q, f) ==
  LET t1 == [t EXCEPT !.n[f].key = t.n[q].key, !.n[q].key = t.n[f].key]
      t2 == SetChild(t1, p, Bit(Child(t, p, 1) = q), Child(t, q, Bit(Child(t, q, 0) = NULL)))
  IN  [t2 EXCEPT !.beg = IF @ = q THEN p ELSE @, !.len = @ - 1]

(* f and q exchange key and value; q leaves the tree *)
Unlink(t, p, q, f) ==
  LET t1 == [t EXCEPT !.n[f].key = t.n[q].key, !.n[f].val = t.n[q].val,
                      !.n[q].key = t.n[f].key, !.n[q].val = t.n[f].val]
      t2 == SetChild(t1, p, Bit(Child(t, p, 1) = q), Child(t, q, Bit(Child(t, q, 0) = NULL)))
      t3 == SetParent(t2, Child(t2, p, Bit(Child(t2, p, 1) = q)), p)
  IN  [t3 EXCEPT !.beg = IF @ = q THEN p ELSE @, !.len = @ - 1]

(* one turn of the loop, which ends where there is no child *)
DeleteTurn(x, k) ==
  LET q    == Child(x.t, x.q, x.dir)
      d    == Bit(x.t.n[q].key < k)
      t1   == PushRed(x.t, x.q, q, x.p, x.dir, d)
      turn == ~IsRed(x.t, q) /\ ~IsRed(x.t, Child(x.t, q, d)) /\ IsRed(x.t, Child(x.t, q, 1 - d))
  IN  [t |-> t1, p |-> IF turn THEN Child(t1, x.q, x.dir) ELSE x.q, q |-> q, dir |-> d,
       f |-> IF x.t.n[q].key = k THEN q ELSE x.f]

Pushed(t, k) ==
  LET turn[i \in 0..MaxTurns] ==
        IF i = 0 THEN [t |-> WithHead(t), p |-> NULL, q |-> FalseRoot, dir |-> 1, f |-> NULL]
        ELSE LET x == turn[i-1]
             IN  IF Child(x.t, x.q, x.dir) = NULL THEN x ELSE DeleteTurn(x, k)
  IN  turn[MaxTurns]

(* the tree before the node is freed, and that node *)
Removed(t, k) ==
  IF t.root = NULL THEN [t |-> t, q |-> NULL]
  ELSE IF t.len = 1 /\ t.n[t.root].key = k
       THEN [t |-> [t EXCEPT !.root = NULL, !.beg = NULL, !.len = 0], q |-> t.root]
       ELSE LET x == Pushed(t, k)
            IN  IF x.f = NULL THEN [t |-> NewRoot(x.t), q |-> NULL]
                ELSE [t |-> NewRoot(Unlink(x.t, x.p, x.q, x.f)), q |-> x.q]

Delete(t, k) == LET r == Removed(t, k) IN Free(r.t, r.q)

(***************************************************************************)
(* Reading: descents that keep the last node where they went left, and     *)
(* steps of an iterator.                                                   *)
(***************************************************************************)
Lookup(t, k) ==
  LET find[x \in Links(t)] ==
        IF x = NULL \/ t.n[x].key = k THEN x ELSE find[Child(t, x, Bit(t.n[x].key < k))]
  IN  find[t.root]

(* the last node with a key from k on where the way went left, or NULL *)
Bound(t, k) ==
  LET bound[x \in Links(t)] ==
        IF x = NULL THEN NULL
        ELSE IF t.n[x].key < k THEN bound[Child(t, x, 1)]
        ELSE LET y == bound[Child(t, x, 0)] IN IF y = NULL THEN x ELSE y
  IN  bound[t.root]
Geq(t, k) == Bound(t, k)
Gtr(t, k) == Bound(t, k + 1)

(* the last node that a walk from q in direction d reaches *)
Outermost(t, q, d) ==
  LET last[x \in DOMAIN t.n] == IF Child(t, x, d) = NULL THEN x ELSE last[Child(t, x, d)]
  IN  last[q]
Last(t) == IF t.root = NULL THEN NULL ELSE Outermost(t, t.root, 1)

(* up from q while q is child d *)
Ascend(t, q, d) ==
  LET up[x \in DOMAIN t.n] ==
        LET p == t.n[x].parent IN IF p # NULL /\ x = Child(t, p, d) THEN up[p] ELSE p
  IN  up[q]

Step(t, q, d) == IF Child(t, q, d) # NULL THEN Outermost(t, Child(t, q, d), 1 - d)
                                          ELSE Ascend(t, q, d)

ItNext(t, q) == IF q = NULL THEN NULL ELSE Step(t, q, 1)

(* mutant of ItPrev: the end has no predecessor *)
ItPrevOfEnd(t, q) == IF q = t.beg \/ q = NULL THEN NULL ELSE Step(t, q, 0)

(* tree_it_prev: before the first node is the end, before the end the last *)
ItPrev(t, q) == IF q = t.beg THEN NULL
                ELSE IF q = NULL THEN Last(t)
                ELSE IF Child(t, q, 0) = NULL /\ t.n[q].parent = NULL THEN q
                ELSE Step(t, q, 0)
=============================================================================
