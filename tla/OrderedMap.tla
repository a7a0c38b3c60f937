----------------------------- MODULE OrderedMap -----------------------------
(***************************************************************************)
(* What the red-black tree promises the tools that use it: a finite map    *)
(* from keys to values.  Abstract; it models no code.                      *)
(***************************************************************************)
CONSTANTS Key, Val

VARIABLE map

Init == map = [k \in {} |-> {}]

Put(k, v) ==
  map' = [x \in DOMAIN map \cup {k} |-> IF x = k THEN v ELSE map[x]]

Remove(k) ==
  map' = [x \in DOMAIN map \ {k} |-> map[x]]

Clear == map' = [x \in {} |-> {}]

Next == Clear \/ \E k \in Key : Remove(k) \/ \E v \in Val : Put(k, v)

Spec == Init /\ [][Next]_map
=============================================================================
