----------------------------- MODULE MCProfiler -----------------------------
(* Model-checking values for Profiler. *)
EXTENDS Profiler

CONSTANTS a, b

OnePid  == {a}
TwoPids == {a, b}
=============================================================================
