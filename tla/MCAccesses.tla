---------------------------- MODULE MCAccesses ----------------------------
(* Model-checking values for Accesses: ranges that share a start, that     *)
(* overlap and that leave a gap, with and without a cooperative buffer.    *)
EXTENDS Accesses

Range(from, to, c) == [start |-> from, end |-> to, coop |-> c]
MCObject == {Range(1, 3, TRUE), Range(3, 4, TRUE), Range(1, 2, FALSE), Range(2, 4, FALSE),
             Range(1, 3, FALSE)}
=============================================================================
