----------------------------- MODULE TableSweep -----------------------------
(***************************************************************************)
(* The hash table and the array at work together, as in the discovery      *)
(* thread (mat-daemon/src/process.c:113-127): the keys of the dead entries *)
(* are pushed to an array while the table is traversed, then deleted from  *)
(* the table one by one.  ProcessTable takes this for two steps on sets.   *)
(* Apart from a sweep the array is worked on while the table is as made,   *)
(* and the table while the array is: neither can tell.                     *)
(***************************************************************************)
EXTENDS HashTable, Array

(* What is pushed is a key; the value of an entry is its alive flag. *)
ASSUME SweepAssumption == Key \subseteq Elem /\ Val = {0, 1}

VARIABLES
  spc,   \* "rest", "collect", or "sweep"
  at,    \* the position of the traversal of the table, or of the array
  due    \* history: the entries that are to stay

sweepVars == <<spc, at, due>>
tableVars == <<data, size_idx, load_thresh, len>>

Entries == {<<s.key, s.val>> : s \in {Traverse(data)[i] : i \in 1..len}}

BeginSweep ==
  /\ spc = "rest"
  /\ array_clear
  /\ spc' = "collect" /\ at' = 1
  /\ due' = {e \in Entries : e[2] = 1}
  /\ UNCHANGED tableVars

(* one entry of the traversal *)
Collect ==
  LET s == Traverse(data)[at]
  IN  /\ spc = "collect" /\ at <= len
      /\ IF s.val = 0 THEN array_push(s.key) ELSE UNCHANGED arrayVars
      /\ at' = at + 1
      /\ UNCHANGED <<tableVars, spc, due>>

Collected ==
  /\ spc = "collect" /\ at > len
  /\ spc' = "sweep" /\ at' = 1
  /\ UNCHANGED <<tableVars, arrayVars, due>>

(* hash_table_delete of what is no key in the table changes nothing *)
InTable(k) == k \in Key /\ Find(k) # {}

SweepOne ==
  /\ spc = "sweep" /\ at <= used
  /\ IF InTable(block[at]) THEN Delete(block[at]) ELSE UNCHANGED tableVars
  /\ at' = at + 1
  /\ UNCHANGED <<arrayVars, spc, due>>

Swept ==
  /\ spc = "sweep" /\ at > used
  /\ spc' = "rest" /\ at' = 1
  /\ UNCHANGED <<tableVars, arrayVars, due>>

-----------------------------------------------------------------------------
SweepInit == Init /\ ArrayInit /\ spc = "rest" /\ at = 1 /\ due = {}

SweepNext ==
  \/ /\ spc = "rest" /\ used = 0
     /\ Next
     /\ due' = {} /\ UNCHANGED <<arrayVars, spc, at>>
  \/ /\ spc = "rest" /\ tableVars = <<Empty(1), 1, Thresh(1), 0>>
     /\ ArrayNext
     /\ due' = {} /\ UNCHANGED <<tableVars, spc, at>>
  \/ BeginSweep \/ Collect \/ Collected \/ SweepOne \/ Swept

SweepSpec == SweepInit /\ [][SweepNext]_<<tableVars, arrayVars, sweepVars>>
-----------------------------------------------------------------------------
(* A sweep deletes the entries found dead, all of them and nothing else,   *)
(* though chains close up, len falls and the array grows on the way.       *)
SweepExact == spc = "sweep" /\ at > used => Entries = due
=============================================================================
