----------------------------- MODULE Dictionary -----------------------------
(***************************************************************************)
(* What hash_table.h promises: a map from keys to slots that hold a value  *)
(* and stay where they are, at one address, until their key is deleted or  *)
(* the table freed.                                                        *)
(***************************************************************************)
CONSTANTS Key, Val, Addr, None

VARIABLE map   \* for each key None, or its slot's [val, addr]

Init == map = [k \in Key |-> None]

Present == {k \in Key : map[k] # None}

Put(k, v) ==
  \E a \in Addr :
    /\ IF k \in Present THEN a = map[k].addr
         ELSE \A j \in Present : map[j].addr # a
    /\ map' = [map EXCEPT ![k] = [val |-> v, addr |-> a]]

Remove(k) == map' = [map EXCEPT ![k] = None]

Clear == map' = [k \in Key |-> None]

Next == Clear \/ \E k \in Key : Remove(k) \/ \E v \in Val : Put(k, v)

Spec == Init /\ [][Next]_map
=============================================================================
