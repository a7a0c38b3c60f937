---------------------------- MODULE ProcessTable ----------------------------
(***************************************************************************)
(* The process table of mat-daemon (mat-daemon/src/process.c, process.h):  *)
(* the hash table process_table, the reader/writer lock that guards it,    *)
(* the discovery thread that rescans /proc and sweeps out what it did not  *)
(* see, and the threads that look processes up with acquire_proccess and   *)
(* release_proccess.                                                       *)
(*                                                                         *)
(* One action is one lock acquisition, one critical section (it ends with  *)
(* its UNLOCK), or one call into the kernel.  A critical section is atomic *)
(* because the lock is held from the step before it.                       *)
(***************************************************************************)
EXTENDS Naturals

CONSTANTS
  Pid,        \* process ids
  Reader,     \* threads that call acquire_proccess / release_proccess
  Faults,     \* which opendir calls may fail: "proc" for /proc, "objmap" for
              \* a /proc/<pid>/object_map that exists
  MaxEvents   \* bound: process births, exits and object map changes

Discovery == "discovery"

ASSUME ThreadAssumption == Discovery \notin Reader
ASSUME FaultAssumption  == Faults \subseteq {"proc", "objmap"}
ASSUME EventAssumption  == MaxEvents \in Nat

VARIABLES
  proc,     \* the kernel: "gone", "bare" (running, no object) or "objects"
  events,   \* kernel events so far
  todo,     \* the open /proc stream: entries readdir has not returned yet,
  must,     \*   and those of them that existed all along and must be returned
  table,    \* pids with an entry in process_table
  alive,    \* pids whose md_proc has alive = 1
  readers,  \* threads that hold process_table_rwlock for reading
  writers,  \* threads that hold it for writing
  dpc,      \* control of process_discovery_thread
  cur,      \* its local pid
  dead,     \* its array of pids to delete
  rpc,      \* control of each reader
  arg,      \* the pid each reader passed to acquire_proccess
  seen,     \* history: pids found with an object since the last marking
  low       \* history: the least state of each process since opendir("/proc")

kernel    == <<proc, events, low>>
stream    == <<todo, must>>
tableVars == <<table, alive>>
lock      == <<readers, writers>>
disc      == <<cur, dead>>
readVars  == <<rpc, arg>>
vars == <<kernel, stream, tableVars, lock, dpc, disc, readVars, seen>>

Running(p) == proc[p] # "gone"

(***************************************************************************)
(* process_table_rwlock, a default pthread rwlock: a reader may pass a     *)
(* waiting writer.                                                         *)
(***************************************************************************)
WLOCK(t) == /\ writers = {} /\ readers = {}
            /\ writers' = {t}
            /\ UNCHANGED readers

RLOCK(t) == /\ writers = {}
            /\ readers' = readers \cup {t}
            /\ UNCHANGED writers

UNLOCK(t) == /\ readers' = readers \ {t}
             /\ writers' = writers \ {t}

(***************************************************************************)
(* The kernel: processes come and go, their object maps fill and empty.    *)
(***************************************************************************)
Becomes(p, from, to) ==
  /\ events < MaxEvents
  /\ proc[p] \in from
  /\ proc' = [proc EXCEPT ![p] = to]
  /\ events' = events + 1
  /\ UNCHANGED <<todo, tableVars, lock, dpc, disc, readVars, seen>>

Spawn(p) == /\ Becomes(p, {"gone"}, "bare")
            /\ UNCHANGED <<must, low>>

FirstObject(p) == /\ Becomes(p, {"bare"}, "objects")
                  /\ UNCHANGED <<must, low>>

LastObjectFreed(p) ==
  /\ Becomes(p, {"objects"}, "bare")
  /\ low' = [low EXCEPT ![p] = IF @ = "gone" THEN "gone" ELSE "bare"]
  /\ UNCHANGED must

Exit(p) == /\ Becomes(p, {"bare", "objects"}, "gone")
           /\ low' = [low EXCEPT ![p] = "gone"]
           /\ must' = must \ {p}

Kernel == \E p \in Pid : Spawn(p) \/ FirstObject(p) \/ LastObjectFreed(p) \/ Exit(p)

(***************************************************************************)
(* process_discovery_thread                                                *)
(***************************************************************************)
Goto(from, to) == dpc = from /\ dpc' = to

BeginKeepingDead ==   \* mutant of BeginRound: dead is not cleared
  /\ Goto("begin", "mark")
  /\ RLOCK(Discovery)
  /\ UNCHANGED <<kernel, stream, tableVars, disc, readVars, seen>>

(* array_clear(dead), and the RLOCK of the first PROCESS_FOR *)
BeginRound ==
  /\ Goto("begin", "mark")
  /\ dead' = {}
  /\ RLOCK(Discovery)
  /\ UNCHANGED <<kernel, stream, tableVars, cur, readVars, seen>>

MarkNone ==   \* mutant of MarkDead: the marks of the last round stay
  /\ Goto("mark", "opendir")
  /\ seen' = {}
  /\ UNLOCK(Discovery)
  /\ UNCHANGED <<kernel, stream, tableVars, disc, readVars>>

MarkDead ==
  /\ Goto("mark", "opendir")
  /\ alive' = {}
  /\ seen' = {}
  /\ UNLOCK(Discovery)
  /\ UNCHANGED <<kernel, stream, table, disc, readVars>>

OpenProc ==
  /\ Goto("opendir", "scan")
  /\ todo' = Pid
  /\ must' = {p \in Pid : Running(p)}
  /\ low' = proc
  /\ UNCHANGED <<proc, events, tableVars, lock, disc, readVars, seen>>

(* "goto out": the thread returns *)
OpenProcFails ==
  /\ "proc" \in Faults
  /\ Goto("opendir", "exited")
  /\ UNCHANGED <<kernel, stream, tableVars, lock, disc, readVars, seen>>

(* readdir buffers entries: the process may be gone when its entry returns *)
ReadDir(p) ==
  /\ Goto("scan", "probe")
  /\ p \in todo
  /\ todo' = todo \ {p}
  /\ must' = must \ {p}
  /\ cur' = p
  /\ UNCHANGED <<kernel, tableVars, lock, dead, readVars, seen>>

EndOfDir ==
  /\ Goto("scan", "collectlock")
  /\ must = {}
  /\ UNCHANGED <<kernel, stream, tableVars, lock, disc, readVars, seen>>

(* opendir and readdir of object_map: an entry that is not "controller" *)
ObjectSeen ==
  /\ Goto("probe", "recordlock")
  /\ proc[cur] = "objects"
  /\ seen' = seen \cup {cur}
  /\ UNCHANGED <<kernel, stream, tableVars, lock, disc, readVars>>

NoObjectSeen ==
  /\ Goto("probe", "scan")
  /\ "objmap" \notin Faults => proc[cur] # "objects"
  /\ UNCHANGED <<kernel, stream, tableVars, lock, disc, readVars, seen>>

RecordLock ==
  /\ Goto("recordlock", "record")
  /\ WLOCK(Discovery)
  /\ UNCHANGED <<kernel, stream, tableVars, disc, readVars, seen>>

KeepUnmarked ==   \* mutant of KeepProcess: alive stays 0
  /\ Goto("record", "scan")
  /\ cur \in table
  /\ UNLOCK(Discovery)
  /\ UNCHANGED <<kernel, stream, tableVars, disc, readVars, seen>>

KeepProcess ==
  /\ Goto("record", "scan")
  /\ cur \in table
  /\ alive' = alive \cup {cur}
  /\ UNLOCK(Discovery)
  /\ UNCHANGED <<kernel, stream, table, disc, readVars, seen>>

AddUnmarked ==   \* mutant of AddProcess: the new entry has alive = 0
  /\ Goto("record", "scan")
  /\ cur \notin table
  /\ table' = table \cup {cur}
  /\ UNLOCK(Discovery)
  /\ UNCHANGED <<kernel, stream, alive, disc, readVars, seen>>

AddProcess ==
  /\ Goto("record", "scan")
  /\ cur \notin table
  /\ table' = table \cup {cur}
  /\ alive' = alive \cup {cur}
  /\ UNLOCK(Discovery)
  /\ UNCHANGED <<kernel, stream, disc, readVars, seen>>

CollectLock ==
  /\ Goto("collectlock", "collect")
  /\ RLOCK(Discovery)
  /\ UNCHANGED <<kernel, stream, tableVars, disc, readVars, seen>>

CollectAlive ==   \* mutant of CollectDead: the test of alive is inverted
  /\ dpc = "collect"
  /\ dead' = dead \cup (table \cap alive)
  /\ dpc' = IF dead' = {} THEN "sleep" ELSE "sweeplock"
  /\ UNLOCK(Discovery)
  /\ UNCHANGED <<kernel, stream, tableVars, cur, readVars, seen>>

(* the second PROCESS_FOR, and the test of array_len(dead) *)
CollectDead ==
  /\ dpc = "collect"
  /\ dead' = dead \cup (table \ alive)
  /\ dpc' = IF dead' = {} THEN "sleep" ELSE "sweeplock"
  /\ UNLOCK(Discovery)
  /\ UNCHANGED <<kernel, stream, tableVars, cur, readVars, seen>>

SweepUnlocked ==   \* mutant of SweepLock: no WLOCK
  /\ Goto("sweeplock", "sweep")
  /\ UNCHANGED <<kernel, stream, tableVars, lock, disc, readVars, seen>>

SweepLock ==
  /\ Goto("sweeplock", "sweep")
  /\ WLOCK(Discovery)
  /\ UNCHANGED <<kernel, stream, tableVars, disc, readVars, seen>>

Sweep ==
  /\ Goto("sweep", "sleep")
  /\ table' = table \ dead
  /\ alive' = alive \ dead
  /\ UNLOCK(Discovery)
  /\ UNCHANGED <<kernel, stream, disc, readVars, seen>>

Sleep ==
  /\ Goto("sleep", "begin")
  /\ UNCHANGED <<kernel, stream, tableVars, lock, disc, readVars, seen>>

Discover ==
  \/ BeginRound \/ MarkDead \/ OpenProc \/ OpenProcFails
  \/ \E p \in Pid : ReadDir(p)
  \/ EndOfDir \/ ObjectSeen \/ NoObjectSeen
  \/ RecordLock \/ KeepProcess \/ AddProcess
  \/ CollectLock \/ CollectDead \/ SweepLock \/ Sweep \/ Sleep

(***************************************************************************)
(* acquire_proccess returns with the lock held when it finds the process;  *)
(* release_proccess gives it back.                                         *)
(***************************************************************************)
Acquire(r, p) ==
  /\ rpc[r] = "idle"
  /\ rpc' = [rpc EXCEPT ![r] = "lookup"]
  /\ arg' = [arg EXCEPT ![r] = p]
  /\ RLOCK(r)
  /\ UNCHANGED <<kernel, stream, tableVars, dpc, disc, seen>>

FoundUnlocked(r) ==   \* mutant of LookupFound: the entry is returned unlocked
  /\ rpc[r] = "lookup"
  /\ arg[r] \in table
  /\ rpc' = [rpc EXCEPT ![r] = "holding"]
  /\ UNLOCK(r)
  /\ UNCHANGED <<kernel, stream, tableVars, dpc, disc, arg, seen>>

LookupFound(r) ==
  /\ rpc[r] = "lookup"
  /\ arg[r] \in table
  /\ rpc' = [rpc EXCEPT ![r] = "holding"]
  /\ UNCHANGED <<kernel, stream, tableVars, lock, dpc, disc, arg, seen>>

NullLocked(r) ==   \* mutant of LookupNull: NULL is returned with the lock held
  /\ rpc[r] = "lookup"
  /\ arg[r] \notin table
  /\ rpc' = [rpc EXCEPT ![r] = "idle"]
  /\ UNCHANGED <<kernel, stream, tableVars, lock, dpc, disc, arg, seen>>

LookupNull(r) ==
  /\ rpc[r] = "lookup"
  /\ arg[r] \notin table
  /\ rpc' = [rpc EXCEPT ![r] = "idle"]
  /\ UNLOCK(r)
  /\ UNCHANGED <<kernel, stream, tableVars, dpc, disc, arg, seen>>

Release(r) ==
  /\ rpc[r] = "holding"
  /\ rpc' = [rpc EXCEPT ![r] = "idle"]
  /\ UNLOCK(r)
  /\ UNCHANGED <<kernel, stream, tableVars, dpc, disc, arg, seen>>

Read(r) == (\E p \in Pid : Acquire(r, p)) \/ LookupFound(r) \/ LookupNull(r) \/ Release(r)

-----------------------------------------------------------------------------
(* main calls init_process_table before it starts the discovery thread *)
Init ==
  /\ proc \in [Pid -> {"gone", "bare", "objects"}]
  /\ events = 0
  /\ low = proc
  /\ todo = {} /\ must = {}
  /\ table = {} /\ alive = {}
  /\ readers = {} /\ writers = {}
  /\ dpc = "begin"
  /\ cur \in Pid
  /\ dead = {}
  /\ rpc = [r \in Reader |-> "idle"]
  /\ arg \in [Reader -> Pid]
  /\ seen = {}

Next == Kernel \/ Discover \/ \E r \in Reader : Read(r)

Spec == Init /\ [][Next]_vars

(***************************************************************************)
(* The scheduler runs both threads, so each step that stays enabled is     *)
(* taken.  A WLOCK is only enabled between two critical sections of the    *)
(* readers: strong fairness says that the last reader to leave hands the   *)
(* lock over, as the pthread lock does when one writer waits.  Opening a   *)
(* directory is not fair: success or failure is the kernel's choice.       *)
(***************************************************************************)
Fairness ==
  /\ WF_vars(Discover)
  /\ SF_vars(RecordLock) /\ SF_vars(SweepLock)
  /\ \A r \in Reader : WF_vars(LookupFound(r) \/ LookupNull(r) \/ Release(r))

FairSpec == Spec /\ Fairness
-----------------------------------------------------------------------------
ReaderPc == {"idle", "lookup", "holding"}
DiscoveryPc ==
  {"begin", "mark", "opendir", "scan", "probe", "recordlock", "record",
   "collectlock", "collect", "sweeplock", "sweep", "sleep", "exited"}

(* Every variable stays in its domain. *)
TypeOK ==
  /\ proc \in [Pid -> {"gone", "bare", "objects"}]
  /\ low \in [Pid -> {"gone", "bare", "objects"}]
  /\ events \in 0..MaxEvents
  /\ todo \subseteq Pid /\ must \subseteq Pid
  /\ table \subseteq Pid /\ alive \subseteq Pid
  /\ readers \subseteq Reader \cup {Discovery}
  /\ writers \subseteq {Discovery}
  /\ dpc \in DiscoveryPc
  /\ cur \in Pid
  /\ dead \subseteq Pid
  /\ rpc \in [Reader -> ReaderPc]
  /\ arg \in [Reader -> Pid]
  /\ seen \subseteq Pid

(* The lock is held by exactly the threads whose code is between RLOCK or  *)
(* WLOCK and UNLOCK: acquire_proccess leaks it on no path, and no section  *)
(* of the discovery thread runs without it.                                *)
LockInv ==
  /\ readers = {r \in Reader : rpc[r] # "idle"}
               \cup {t \in {Discovery} : dpc \in {"mark", "collect"}}
  /\ writers = {t \in {Discovery} : dpc \in {"record", "sweep"}}
  /\ writers # {} => readers = {}

(* The md_proc that acquire_proccess returned stays in the table until     *)
(* release_proccess: the sweep never frees an entry somebody still holds.  *)
HeldEntryStays ==
  \A r \in Reader : rpc[r] = "holding" => arg[r] \in table

(* When a round is over the table holds exactly the processes in which     *)
(* this round found an object: nothing stale stays, nothing found is lost. *)
RoundExact == dpc = "sleep" => table = seen

(* A process that has had objects since the scan opened /proc is in the    *)
(* table when the round ends, however the other processes came and went.   *)
SteadyKept ==
  "objmap" \notin Faults /\ dpc = "sleep" =>
    {p \in Pid : low[p] = "objects"} \subseteq table

(* No thread sees the table change under it: entries are added and deleted *)
(* only while the discovery thread alone holds the lock.                   *)
ExclusiveUpdate ==
  [][table' # table => writers = {Discovery} /\ readers = {}]_vars

(* A process that is gone for good leaves the table for good. *)
DeadEvicted ==
  \A p \in Pid : <>[](proc[p] = "gone") => <>[](p \notin table)

(* A process that keeps objects for good enters the table for good. *)
LiveFound ==
  \A p \in Pid : <>[](proc[p] = "objects") => <>[](p \in table)

(* The inductive invariant behind the properties above. *)
InRound == dpc \in {"opendir", "scan", "probe", "recordlock", "record",
                    "collectlock", "collect", "sweeplock", "sweep", "exited"}
Settled    == dpc \in {"sleep", "begin", "mark"} => table = alive
DeadArray  == IF dpc \in {"sweeplock", "sweep"} THEN dead = table \ alive
                ELSE dpc \notin {"sleep", "begin"} => dead = {}
AliveFound == IF dpc \in {"recordlock", "record"} THEN seen = alive \cup {cur}
                ELSE seen = alive
LowSteady  == \A p \in Pid : low[p] = "objects" => proc[p] = "objects"
SteadyRead ==
  "objmap" \notin Faults /\ InRound /\ dpc \notin {"opendir", "exited"} =>
    \A p \in Pid : low[p] = "objects" =>
      p \in seen \cup (IF dpc = "probe" THEN {cur} ELSE {})
           \cup (IF dpc \in {"scan", "probe", "recordlock", "record"} THEN must ELSE {})

IInv == /\ TypeOK /\ LockInv /\ HeldEntryStays
        /\ alive \subseteq table
        /\ Settled /\ DeadArray /\ AliveFound
        /\ LowSteady /\ SteadyRead /\ SteadyKept

(* The table behaves as the registry its clients rely on: the marking, the *)
(* scan and the two-phase sweep under the lock act as one NewRound, one    *)
(* Observe for each process found and one Retire.                          *)
Registry == INSTANCE ProcessRegistry WITH
              Client <- Reader,
              tab <- table, found <- alive, open <- InRound,
              held <- [r \in Reader |-> IF rpc[r] = "holding" THEN {arg[r]} ELSE {}]

Implements == Registry!Spec
=============================================================================
