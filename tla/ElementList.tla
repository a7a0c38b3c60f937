----------------------------- MODULE ElementList -----------------------------
(***************************************************************************)
(* What the growable array of mat-daemon promises: a list, with no block,  *)
(* capacity or growth.                                                     *)
(***************************************************************************)
EXTENDS Naturals, Sequences

CONSTANT Elem

VARIABLE list

(* Elements es come to stand before position i. *)
Splice(i, es) == list' = SubSeq(list, 1, i - 1) \o es \o SubSeq(list, i, Len(list))

Drop(i) == list' = SubSeq(list, 1, i - 1) \o SubSeq(list, i + 1, Len(list))

Replace(es) == list' = es

Next == \/ \E i \in 1..Len(list)+1, e \in Elem : Splice(i, <<e>>)
        \/ \E e1, e2 \in Elem : Splice(Len(list) + 1, <<e1, e2>>)
        \/ \E i \in DOMAIN list : Drop(i)
        \/ \E es \in {<<>>} \cup UNION {[1..n -> Elem] : n \in 1..2} : Replace(es)

Spec == list = <<>> /\ [][Next]_list
=============================================================================
