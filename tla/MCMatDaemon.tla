----------------------------- MODULE MCMatDaemon -----------------------------
(* Model-checking values for MatDaemon. *)
EXTENDS MatDaemon

CONSTANTS p1, p2

OnePid    == {p1}
TwoPids   == {p1, p2}
Profilers == {Profiling}
ProcFault == {"proc"}
=============================================================================
