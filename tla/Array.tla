-------------------------------- MODULE Array --------------------------------
(***************************************************************************)
(* The growable array of mat-daemon/src/array.c: the dead pids of the      *)
(* discovery thread and collected_profile are such arrays.  An index is    *)
(* one more than in C.  A cell of the block at or past `used' holds Junk:  *)
(* what is left there may be anything, and nothing may read it.            *)
(***************************************************************************)
EXTENDS Naturals, Sequences

CONSTANTS
  Elem,
  Junk,        \* what a cell holds in which no element was stored
  DefaultCap,  \* ARRAY_DEFAULT_CAP
  Caps,        \* capacities that array_make_with_cap is asked for
  MaxUsed      \* bound: elements in an array

(* With a capacity of 0 the first growth allocates no cell at all. *)
ASSUME CapAssumption ==
  /\ DefaultCap \in Nat \ {0} /\ Caps \subseteq Nat \ {0}
  /\ MaxUsed \in Nat
  /\ Junk \notin Elem

VARIABLES
  block,     \* the block data points to, cell by cell; NoBlock if data is NULL
  used, capacity,
  held       \* blocks the array's operations have allocated and not freed

arrayVars == <<block, used, capacity, held>>

NoBlock == <<>>
Cells(n) == [i \in 1..n |-> Junk]

(* whatever the width, the least power of two that is not less than x *)
NextPowerOf2(x) ==
  LET twoTo[k \in 0..x] == IF k = 0 THEN 1 ELSE 2 * twoTo[k-1]
      enough == {k \in 0..x : twoTo[k] >= x}
  IN  IF x = 0 THEN 2 ELSE twoTo[CHOOSE k \in enough : \A j \in enough : k <= j]

(* malloc, memcpy of the elements, free of the old block; after it the     *)
(* block has c cells                                                       *)
MovedShort(c) ==   \* mutant of Moved: one element too few is copied
  [i \in 1..c |-> IF i < used THEN block[i] ELSE Junk]
Moved(c) == [i \in 1..c |-> IF i <= used THEN block[i] ELSE Junk]

(* the loop of both _array_grow_if_needed: used reached c *)
Doubled(c) == IF used >= c THEN NextPowerOf2(used + 1) ELSE c

(* _array_grow_if_needed_to, from a capacity to the block and capacity the *)
(* operation works in; b is the block, h the blocks then held              *)
Grown(c) ==
  IF block = NoBlock THEN [b |-> Cells(c), c |-> c, h |-> held + 1]
  ELSE LET d == Doubled(c)
       IN  [b |-> IF d > capacity THEN Moved(d) ELSE block, c |-> d, h |-> held]

GrowOverfull ==   \* mutant of GrowIfNeeded: the block grows when it is over-full
  IF block # NoBlock /\ used = capacity
    THEN [b |-> block, c |-> capacity, h |-> held] ELSE Grown(capacity)

GrowIfNeeded == Grown(capacity)

GrowIfNeededTo(n) ==
  Grown(IF n > capacity THEN NextPowerOf2(n) ELSE capacity)

(* store elements es from cell i on *)
Stored(b, i, es) == [j \in DOMAIN b |-> IF j \in i..i+Len(es)-1 THEN es[j - i + 1] ELSE b[j]]

Becomes(g, b, n) ==
  block' = b /\ used' = n /\ capacity' = g.c /\ held' = g.h

array_push(e) ==
  LET g == GrowIfNeeded IN Becomes(g, Stored(g.b, used + 1, <<e>>), used + 1)

array_push_n(es) ==
  /\ es # <<>>
  /\ LET g == GrowIfNeededTo(used + Len(es))
     IN  Becomes(g, Stored(g.b, used + 1, es), used + Len(es))

(* memmove of the cells from i on, one cell up *)
Opened(b, i) == [j \in DOMAIN b |-> IF j > i /\ j <= used + 1 THEN b[j - 1] ELSE b[j]]

array_insert(i, e) ==
  /\ i \in 1..used+1   \* the assertion
  /\ IF i = used + 1 THEN array_push(e)
       ELSE LET g == GrowIfNeeded
            IN  Becomes(g, Stored(Opened(g.b, i), i, <<e>>), used + 1)

ClosedShort(i) ==   \* mutant of Closed: the last element is not moved
  [j \in DOMAIN block |-> IF j >= used THEN Junk
                           ELSE IF j >= i /\ j < used - 1 THEN block[j + 1] ELSE block[j]]

(* memmove of the cells past i, one cell down *)
Closed(i) == [j \in DOMAIN block |-> IF j >= used THEN Junk
                                      ELSE IF j >= i THEN block[j + 1] ELSE block[j]]

(* The assertion is only idx < used: array_pop of an empty array passes it *)
(* and leaves used at -1.  A caller has to have an element.                *)
array_delete(i) ==
  /\ i \in 1..used
  /\ block' = Closed(i) /\ used' = used - 1
  /\ UNCHANGED <<capacity, held>>

array_pop == array_delete(used)

array_clear == /\ block' = Cells(Len(block)) /\ used' = 0
               /\ UNCHANGED <<capacity, held>>

(* The cell past the last element is zeroed; it stays no element. *)
array_zero_term == LET g == GrowIfNeeded IN Becomes(g, g.b, used)

(* dst is this array; src is another one that holds the elements es *)
array_copy(es) ==
  LET g == GrowIfNeededTo(Len(es))
  IN  Becomes(g, Stored(Cells(Len(g.b)), 1, es), Len(es))

Make(c) == block' = NoBlock /\ used' = 0 /\ capacity' = c

(* array_free, then array_make or array_make_with_cap *)
array_free ==
  /\ \E c \in {DefaultCap} \cup Caps : Make(c)
  /\ held' = IF block = NoBlock THEN held ELSE held - 1

ArrayInit == /\ block = NoBlock /\ used = 0
             /\ capacity \in {DefaultCap} \cup Caps
             /\ held = 0

ArrayNext ==
  \/ /\ used < MaxUsed
     /\ \E e \in Elem : array_push(e) \/ \E i \in 1..used : array_insert(i, e)
  \/ /\ used + 2 <= MaxUsed
     /\ \E e1, e2 \in Elem : array_push_n(<<e1, e2>>)
  \/ \E i \in 1..used : array_delete(i)
  \/ used > 0 /\ array_pop
  \/ array_clear \/ array_zero_term \/ array_free
  \/ \E n \in 0..2 : \E es \in [1..n -> Elem] : array_copy(es)
-----------------------------------------------------------------------------
(* What is used fits in the block, the block is as large as the capacity   *)
(* says, and the array owns one block at the most: growth frees the old    *)
(* one, array_free the last.                                               *)
Fits ==
  /\ used \in Nat /\ capacity \in Nat \ {0}
  /\ \A i \in DOMAIN block : block[i] \in Elem \cup {Junk}
  /\ block # NoBlock => Len(block) = capacity
  /\ used <= Len(block)
  /\ held = IF block = NoBlock THEN 0 ELSE 1

(* The first `used' cells are the list the callers stored, through every   *)
(* growth and shift.                                                       *)
AsList == INSTANCE ElementList WITH list <- SubSeq(block, 1, used)
IsList == AsList!Spec
=============================================================================
