------------------------------ MODULE MatDaemon ------------------------------
(***************************************************************************)
(* The mat daemon as a whole (mat-daemon/src/mat_daemon.c): main starts    *)
(* one part after the other and may fail at each; the discovery thread of  *)
(* ProcessTable runs as soon as it is started, and the profiling thread    *)
(* looks the process of each sample up in the table, between the discovery *)
(* thread's steps.  When main returns the whole process ends.              *)
(*                                                                         *)
(* Of a ring there is left what Profiler shows of one: a sequence of       *)
(* samples, of which a pass reads all it found at its start or none.       *)
(***************************************************************************)
EXTENDS ProcessTable, Sequences

CONSTANTS MaxCpu,    \* cpus for which the kernel opens an event
          RingSize   \* samples that fit in a ring

Profiling == "profiling"

ASSUME ProfilingAssumption == Reader = {Profiling}
ASSUME DaemonAssumption == MaxCpu \in Nat /\ RingSize \in Nat \ {0}

VARIABLES
  mpc,      \* control of main
  period,   \* profile-period-ms: "zero" or "set"
  event,    \* profile-event-string: "known" to libpfm or "unknown"
  ncpu,     \* n_cpus
  started,  \* threads that were created
  ppc,      \* control of profiling_thread
  cpu,      \* its local cpu
  ring,     \* the samples between tail and head of each ring
  due, at,  \* the samples up to the head it read, and the next to read
  profile,  \* pids in collected_profile
  ignored,  \* history: pids not found in the table, in this period
  tabled    \* history: pids that were in the table at some time in it

main      == <<mpc, period, event, ncpu, started>>
profiling == <<ppc, cpu, due, at, profile, ignored>>
dvars == <<vars, main, profiling, ring, tabled>>

Up == mpc # "exited"

(***************************************************************************)
(* main                                                                    *)
(***************************************************************************)
MainGoto(from, to) == mpc = from /\ mpc' = to

(* init_config: the file may be missing or wrong *)
InitConfig ==
  /\ MainGoto("config", "table")
  /\ period' \in {"zero", "set"} /\ event' \in {"known", "unknown"}
  /\ UNCHANGED <<ncpu, started>>

InitConfigFails ==
  /\ MainGoto("config", "exited")
  /\ UNCHANGED <<period, event, ncpu, started>>

InitTable ==
  /\ MainGoto("table", "discovery")
  /\ UNCHANGED <<period, event, ncpu, started>>

Create(t, from, to) ==
  /\ MainGoto(from, to)
  /\ started' = started \cup {t}
  /\ UNCHANGED <<period, event, ncpu>>

CreateFails(from) ==
  /\ MainGoto(from, "exited")
  /\ UNCHANGED <<period, event, ncpu, started>>

(* profile_get_event: an unknown event is only reported, before the period *)
(* is divided by                                                           *)
Divides == event = "known" /\ period = "zero"

DivisionByZero ==
  /\ MainGoto("rings", "exited")
  /\ Divides
  /\ UNCHANGED <<period, event, ncpu, started>>

OpenRing ==
  /\ MainGoto("rings", "rings")
  /\ ~Divides
  /\ ncpu < MaxCpu /\ ncpu' = ncpu + 1
  /\ UNCHANGED <<period, event, started>>

(* EINVAL ends the loop, also at the first cpu; any other error, and one   *)
(* of mmap, ends the program                                               *)
OpenEnds(to) ==
  /\ MainGoto("rings", to)
  /\ ~Divides
  /\ UNCHANGED <<period, event, ncpu, started>>

MainStep ==
  \/ InitConfig \/ InitConfigFails \/ InitTable
  \/ Create(Discovery, "discovery", "rings") \/ CreateFails("discovery")
  \/ DivisionByZero \/ OpenRing \/ OpenEnds("thread") \/ OpenEnds("exited")
  \/ Create(Profiling, "thread", "loop") \/ CreateFails("thread")

Main == MainStep /\ UNCHANGED <<vars, profiling, ring, tabled>>

(***************************************************************************)
(* The kernel, and the discovery thread                                    *)
(***************************************************************************)
KernelStep == Kernel /\ UNCHANGED <<main, profiling, ring, tabled>>

(* Rings count as soon as they are opened.  With an unknown event what is  *)
(* opened is a counter that takes no samples.                              *)
Sample(c, p) ==
  /\ Up /\ c <= ncpu /\ event = "known"
  /\ Running(p)
  /\ Len(ring[c]) < RingSize
  /\ ring' = [ring EXCEPT ![c] = Append(@, p)]
  /\ UNCHANGED <<vars, main, profiling, tabled>>

Own(step) ==
  /\ Up /\ Discovery \in started
  /\ step
  /\ tabled' = tabled \cup table'
  /\ UNCHANGED <<main, profiling, ring>>

DiscoveryStep == Own(Discover)

(***************************************************************************)
(* profiling_thread; acquire_proccess and release_proccess are those of    *)
(* ProcessTable                                                            *)
(***************************************************************************)
ProfGoto(from, to) == Up /\ ppc = from /\ ppc' = to

ClearForgotten ==   \* mutant of Clear: collected_profile is kept
  /\ Profiling \in started
  /\ ProfGoto("clear", IF ncpu = 0 THEN "wait" ELSE "snapshot")
  /\ ignored' = {}
  /\ tabled' = table
  /\ cpu' = 1
  /\ UNCHANGED <<vars, main, ring, due, at, profile>>

Clear ==
  /\ Profiling \in started
  /\ ProfGoto("clear", IF ncpu = 0 THEN "wait" ELSE "snapshot")
  /\ profile' = {} /\ ignored' = {}
  /\ tabled' = table
  /\ cpu' = 1
  /\ UNCHANGED <<vars, main, ring, due, at>>

(* A range that wraps looks empty: the loop has nothing to read. *)
Snapshot ==
  /\ ProfGoto("snapshot", "read")
  /\ due' = Len(ring[cpu])
  /\ at' \in {1, due' + 1}
  /\ UNCHANGED <<vars, main, ring, cpu, profile, ignored, tabled>>

StartLookup ==
  /\ ProfGoto("read", "lookup")
  /\ at <= due
  /\ Acquire(Profiling, ring[cpu][at])
  /\ UNCHANGED <<main, ring, cpu, due, at, profile, ignored, tabled>>

CountNull ==   \* mutant of Ignore: the result is not compared with NULL
  /\ ProfGoto("lookup", "count")
  /\ LookupNull(Profiling)
  /\ UNCHANGED <<main, ring, cpu, due, at, profile, ignored, tabled>>

Ignore ==
  /\ ProfGoto("lookup", "read")
  /\ LookupNull(Profiling)
  /\ ignored' = ignored \cup {arg[Profiling]}
  /\ at' = at + 1
  /\ UNCHANGED <<main, ring, cpu, due, profile, tabled>>

Hold ==
  /\ ProfGoto("lookup", "lookup")
  /\ LookupFound(Profiling)
  /\ UNCHANGED <<main, ring, cpu, due, at, profile, ignored, tabled>>

GiveBack ==
  /\ ProfGoto("lookup", "count")
  /\ Release(Profiling)
  /\ UNCHANGED <<main, ring, cpu, due, at, profile, ignored, tabled>>

(* get_or_make_info_for_pid, after the process was released *)
Count ==
  /\ ProfGoto("count", "read")
  /\ profile' = profile \cup {ring[cpu][at]}
  /\ at' = at + 1
  /\ UNCHANGED <<vars, main, ring, cpu, due, ignored, tabled>>

CommitNothing ==   \* mutant of Commit: data_tail is not stored
  /\ ProfGoto("read", IF cpu = ncpu THEN "wait" ELSE "snapshot")
  /\ at > due
  /\ cpu' = cpu + 1
  /\ due' = 0 /\ at' = 1
  /\ UNCHANGED <<vars, main, ring, profile, ignored, tabled>>

Commit ==
  /\ ProfGoto("read", IF cpu = ncpu THEN "wait" ELSE "snapshot")
  /\ at > due
  /\ ring' = [ring EXCEPT ![cpu] = SubSeq(@, due + 1, Len(@))]
  /\ cpu' = cpu + 1
  /\ due' = 0 /\ at' = 1
  /\ UNCHANGED <<vars, main, profile, ignored, tabled>>

Wait ==
  /\ ProfGoto("wait", "clear")
  /\ UNCHANGED <<vars, main, ring, cpu, due, at, profile, ignored, tabled>>

ProfilingStep ==
  \/ Clear \/ Snapshot \/ StartLookup \/ Ignore \/ Hold \/ GiveBack
  \/ Count \/ Commit \/ Wait
-----------------------------------------------------------------------------
DaemonInit ==
  /\ Init
  /\ mpc = "config" /\ period = "set" /\ event = "known"
  /\ ncpu = 0 /\ started = {}
  /\ ppc = "clear" /\ cpu = 1 /\ due = 0 /\ at = 1
  /\ ring = [c \in 1..MaxCpu |-> <<>>]
  /\ profile = {} /\ ignored = {} /\ tabled = {}

DaemonNext ==
  \/ Main \/ KernelStep
  \/ \E c \in 1..MaxCpu, p \in Pid : Sample(c, p)
  \/ DiscoveryStep \/ ProfilingStep

DaemonSpec == DaemonInit /\ [][DaemonNext]_dvars

(***************************************************************************)
(* All three threads are scheduled.  The lock is a default pthread rwlock, *)
(* with one reader and one writer: each waits for the other only, and gets *)
(* the lock when the other has released it often enough.  The kernel owes  *)
(* no sample and no process.                                               *)
(***************************************************************************)
DaemonFairness ==
  /\ WF_dvars(Main)
  /\ WF_dvars(DiscoveryStep) /\ SF_dvars(Own(RecordLock)) /\ SF_dvars(Own(SweepLock))
  /\ WF_dvars(ProfilingStep) /\ SF_dvars(StartLookup)

FairDaemon == DaemonSpec /\ DaemonFairness
-----------------------------------------------------------------------------
(* The profile of a period names only processes that were in the table at  *)
(* some time in this period, though each is counted after it was released  *)
(* and may have been swept by then (profile.c:180-186).                    *)
ProfileKnown == profile \subseteq tabled

(* The inductive invariant behind it: where the profiling thread stands in *)
(* a ring, and what it knows of the process it has looked up.              *)
Within == {"snapshot", "read", "lookup", "count"}

RingInv ==
  /\ ncpu \in 0..MaxCpu /\ cpu \in Nat
  /\ ring \in [1..MaxCpu -> Seq(Pid)]
  /\ due \in Nat /\ at \in Nat \ {0}
  /\ ppc \in Within \cup {"clear", "wait"}
  /\ ppc \in Within => cpu \in 1..ncpu
  /\ ppc \in {"read", "lookup", "count"} => due <= Len(ring[cpu])
  /\ ppc \in {"lookup", "count"} => at <= due

KnownInv ==
  /\ table \subseteq tabled
  /\ ppc = "lookup" => arg[Profiling] = ring[cpu][at]
  /\ ppc = "count" => ring[cpu][at] \in tabled
  /\ ProfileKnown

(* The daemon or its discovery thread has ended. *)
Down == ~Up \/ dpc = "exited"

(* A ring that is full, and loses samples, gets room again, whether the    *)
(* discovery thread runs, competes for the lock or has given up.           *)
RoomAgain ==
  \A c \in 1..MaxCpu :
    (Profiling \in started /\ Len(ring[c]) = RingSize) ~> (Len(ring[c]) < RingSize \/ ~Up)

(* While discovery runs, a process that keeps objects for good has its     *)
(* samples ignored for some time only: some period is the last that finds  *)
(* it missing.                                                             *)
SteadyKnown ==
  \A p \in Pid : <>[](proc[p] = "objects") => <>[](p \notin ignored) \/ <>Down

(* While discovery runs, a process that has no object any more leaves the  *)
(* profile for good, though it goes on running and being sampled.  Once    *)
(* discovery has ended it may be counted for ever.                         *)
BareUncounted ==
  \A p \in Pid : <>[](proc[p] # "objects") => <>[](p \notin profile) \/ <>Down
=============================================================================
