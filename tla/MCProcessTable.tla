--------------------------- MODULE MCProcessTable ---------------------------
(* Model-checking values for ProcessTable. *)
EXTENDS ProcessTable, TLC

CONSTANTS p1, p2, r1

Pids    == {p1, p2}
Readers == {r1}
NoFault == {}
AllFaults == {"proc", "objmap"}

Symm == Permutations(Pids)
=============================================================================
