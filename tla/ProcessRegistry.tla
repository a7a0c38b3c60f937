--------------------------- MODULE ProcessRegistry ---------------------------
(***************************************************************************)
(* What the process table of mat-daemon promises the threads that use it,  *)
(* with neither locks, /proc nor marks (process.h:25-28).  Rounds of        *)
(* observation follow one another; a round ends by forgetting, in one      *)
(* step, every process it did not observe.  A client that holds a process  *)
(* keeps it registered until it lets go.                                   *)
(***************************************************************************)
CONSTANTS Pid, Client

VARIABLES
  tab,     \* the registered processes
  found,   \* those observed since the last round began
  open,    \* a round is in progress
  held     \* for each client, the set of the process it holds, if any

vars == <<tab, found, open, held>>

Init == /\ tab = {} /\ found = {}
        /\ open = FALSE
        /\ held = [c \in Client |-> {}]

NewRound == /\ ~open
            /\ open' = TRUE
            /\ found' = {}
            /\ UNCHANGED <<tab, held>>

Observe(p) == /\ open
              /\ tab' = tab \cup {p}
              /\ found' = found \cup {p}
              /\ UNCHANGED <<open, held>>

Retire == /\ open
          /\ \A c \in Client : held[c] \subseteq found
          /\ open' = FALSE
          /\ tab' = found
          /\ UNCHANGED <<found, held>>

Hold(c, p) == /\ held[c] = {}
              /\ p \in tab
              /\ held' = [held EXCEPT ![c] = {p}]
              /\ UNCHANGED <<tab, found, open>>

LetGo(c) == /\ held[c] # {}
            /\ held' = [held EXCEPT ![c] = {}]
            /\ UNCHANGED <<tab, found, open>>

Next == \/ NewRound \/ Retire
        \/ \E p \in Pid : Observe(p)
        \/ \E c \in Client, p \in Pid : Hold(c, p)
        \/ \E c \in Client : LetGo(c)

Spec == Init /\ [][Next]_vars
=============================================================================
