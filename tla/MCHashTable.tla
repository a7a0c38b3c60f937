----------------------------- MODULE MCHashTable -----------------------------
(* Model-checking values for TableSweep: small primes, hashes that collide *)
(* under some of them, arrays that start at one or two cells.              *)
EXTENDS TableSweep, TLC

CONSTANTS a1, a2, a3, a4, a5

Keys    == {1, 4, 6, 9, 11}
Addrs   == {a1, a2, a3, a4, a5}
PidHash == [k \in Keys |-> k]
Sizes   == <<3, 5, 7, 11>>
Symm    == Permutations(Addrs)
=============================================================================
