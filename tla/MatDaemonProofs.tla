--------------------------- MODULE MatDaemonProofs ---------------------------
(***************************************************************************)
(* The daemon as a whole, for any processes, faults, number of cpus and    *)
(* size of the rings: putting main and the profiling thread around the     *)
(* process table adds nothing to what the table does, so that all that is  *)
(* proved of the table holds in the daemon, and the profile names only     *)
(* processes that were in the table in its period.                         *)
(***************************************************************************)
EXTENDS MatDaemon, SequenceTheorems, TLAPS

-----------------------------------------------------------------------------
(***************************************************************************)
(* The safety of the process table for every set of processes and readers, *)
(* every choice of failing opendir calls and every bound on kernel events. *)
(* IInv is inductive; the properties are projections of it.                *)
(***************************************************************************)

PidState == {"gone", "bare", "objects"}

(* process.c starts with an empty table, a free lock and no mark. *)
LEMMA InitIInv == Init => IInv
  BY ThreadAssumption, EventAssumption
  DEF Init, IInv, TypeOK, LockInv, HeldEntryStays, Settled, DeadArray,
      AliveFound, LowSteady, SteadyRead, SteadyKept, InRound, DiscoveryPc, ReaderPc, Discovery

(* The kernel touches only what the discovery thread reads later. *)
LEMMA KernelIInv == IInv /\ Kernel => IInv'
  <1> SUFFICES ASSUME IInv, NEW p \in Pid,
                      Spawn(p) \/ FirstObject(p) \/ LastObjectFreed(p) \/ Exit(p)
               PROVE  IInv'
    BY DEF Kernel
  <1> USE DEF Spawn, FirstObject, LastObjectFreed, Exit, Becomes,
              tableVars, lock, disc, readVars
  <1>1. TypeOK'
    BY EventAssumption DEF IInv, TypeOK
  <1>2. LockInv' /\ HeldEntryStays' /\ (alive \subseteq table)'
        /\ Settled' /\ DeadArray' /\ AliveFound'
    BY DEF IInv, LockInv, HeldEntryStays, Settled, DeadArray, AliveFound
  <1>3. LowSteady'
    BY DEF IInv, TypeOK, LowSteady
  <1>4. \A q \in Pid : low'[q] = "objects" => low[q] = "objects" /\ (q \in must => q \in must')
    BY DEF IInv, TypeOK, LowSteady
  <1>5. SteadyRead'
    BY <1>4 DEF IInv, SteadyRead, InRound
  <1>6. SteadyKept'
    BY <1>4 DEF IInv, SteadyKept
  <1>. QED BY <1>1, <1>2, <1>3, <1>5, <1>6 DEF IInv

(* Each step of the discovery thread. *)
LEMMA DiscoverIInv == IInv /\ Discover => IInv'
  <1> SUFFICES ASSUME IInv, Discover PROVE IInv'
    OBVIOUS
  <1> USE ThreadAssumption
  <1> USE DEF IInv, Goto, kernel, stream, tableVars, lock, disc, readVars,
              RLOCK, WLOCK, UNLOCK
  <1> DEFINE Parts == /\ HeldEntryStays /\ alive \subseteq table
                      /\ Settled /\ DeadArray /\ AliveFound
                      /\ LowSteady /\ SteadyRead /\ SteadyKept
  <1>a. ASSUME BeginRound PROVE IInv'
    <2>1. TypeOK' BY <1>a DEF BeginRound, TypeOK, DiscoveryPc
    <2>2. LockInv' BY <1>a DEF BeginRound, LockInv, TypeOK
    <2>3. Parts' BY <1>a DEF BeginRound, HeldEntryStays, Settled, DeadArray, AliveFound,
            LowSteady, SteadyRead, SteadyKept, InRound
    <2>. QED BY <2>1, <2>2, <2>3
  <1>b. ASSUME MarkDead PROVE IInv'
    <2>1. TypeOK' BY <1>b DEF MarkDead, TypeOK, DiscoveryPc
    <2>2. LockInv' BY <1>b DEF MarkDead, LockInv, TypeOK
    <2>3. Parts' BY <1>b DEF MarkDead, HeldEntryStays, Settled, DeadArray, AliveFound,
            LowSteady, SteadyRead, SteadyKept, InRound
    <2>. QED BY <2>1, <2>2, <2>3
  <1>c. ASSUME OpenProc PROVE IInv'
    <2>1. TypeOK' BY <1>c DEF OpenProc, TypeOK, DiscoveryPc, Running
    <2>2. LockInv' BY <1>c DEF OpenProc, LockInv, TypeOK
    <2>3. Parts' BY <1>c DEF OpenProc, HeldEntryStays, Settled, DeadArray, AliveFound,
            LowSteady, SteadyRead, SteadyKept, InRound, Running
    <2>. QED BY <2>1, <2>2, <2>3
  <1>d. ASSUME OpenProcFails PROVE IInv'
    <2>1. TypeOK' BY <1>d DEF OpenProcFails, TypeOK, DiscoveryPc
    <2>2. LockInv' BY <1>d DEF OpenProcFails, LockInv, TypeOK
    <2>3. Parts' BY <1>d DEF OpenProcFails, HeldEntryStays, Settled, DeadArray, AliveFound,
            LowSteady, SteadyRead, SteadyKept, InRound
    <2>. QED BY <2>1, <2>2, <2>3
  <1>e. ASSUME NEW p \in Pid, ReadDir(p) PROVE IInv'
    <2>1. TypeOK' BY <1>e DEF ReadDir, TypeOK, DiscoveryPc
    <2>2. LockInv' BY <1>e DEF ReadDir, LockInv, TypeOK
    <2>3. Parts' BY <1>e DEF ReadDir, HeldEntryStays, Settled, DeadArray, AliveFound,
            LowSteady, SteadyRead, SteadyKept, InRound
    <2>. QED BY <2>1, <2>2, <2>3
  <1>f. ASSUME EndOfDir PROVE IInv'
    <2>1. TypeOK' BY <1>f DEF EndOfDir, TypeOK, DiscoveryPc
    <2>2. LockInv' BY <1>f DEF EndOfDir, LockInv, TypeOK
    <2>3. Parts' BY <1>f DEF EndOfDir, HeldEntryStays, Settled, DeadArray, AliveFound,
            LowSteady, SteadyRead, SteadyKept, InRound
    <2>. QED BY <2>1, <2>2, <2>3
  <1>g. ASSUME ObjectSeen PROVE IInv'
    <2>1. TypeOK' BY <1>g DEF ObjectSeen, TypeOK, DiscoveryPc
    <2>2. LockInv' BY <1>g DEF ObjectSeen, LockInv, TypeOK
    <2>3. Parts' BY <1>g DEF ObjectSeen, HeldEntryStays, Settled, DeadArray, AliveFound,
            LowSteady, SteadyRead, SteadyKept, InRound
    <2>. QED BY <2>1, <2>2, <2>3
  <1>h. ASSUME NoObjectSeen PROVE IInv'
    <2>1. TypeOK' BY <1>h DEF NoObjectSeen, TypeOK, DiscoveryPc
    <2>2. LockInv' BY <1>h DEF NoObjectSeen, LockInv, TypeOK
    <2>3. Parts' BY <1>h DEF NoObjectSeen, HeldEntryStays, Settled, DeadArray, AliveFound,
            LowSteady, SteadyRead, SteadyKept, InRound
    <2>. QED BY <2>1, <2>2, <2>3
  <1>i. ASSUME RecordLock PROVE IInv'
    <2>1. TypeOK' BY <1>i DEF RecordLock, TypeOK, DiscoveryPc
    <2>2. LockInv' BY <1>i DEF RecordLock, LockInv, TypeOK
    <2>3. Parts' BY <1>i DEF RecordLock, HeldEntryStays, Settled, DeadArray, AliveFound,
            LowSteady, SteadyRead, SteadyKept, InRound
    <2>. QED BY <2>1, <2>2, <2>3
  <1>j. ASSUME KeepProcess \/ AddProcess PROVE IInv'
    <2>1. TypeOK' BY <1>j DEF KeepProcess, AddProcess, TypeOK, DiscoveryPc
    <2>2. LockInv' BY <1>j DEF KeepProcess, AddProcess, LockInv, TypeOK
    <2>3. Parts' BY <1>j DEF KeepProcess, AddProcess, HeldEntryStays, Settled, DeadArray,
            AliveFound, LowSteady, SteadyRead, SteadyKept, InRound
    <2>. QED BY <2>1, <2>2, <2>3
  <1>k. ASSUME CollectLock PROVE IInv'
    <2>1. TypeOK' BY <1>k DEF CollectLock, TypeOK, DiscoveryPc
    <2>2. LockInv' BY <1>k DEF CollectLock, LockInv, TypeOK
    <2>3. Parts' BY <1>k DEF CollectLock, HeldEntryStays, Settled, DeadArray, AliveFound,
            LowSteady, SteadyRead, SteadyKept, InRound
    <2>. QED BY <2>1, <2>2, <2>3
  <1>l. ASSUME CollectDead PROVE IInv'
    <2>1. TypeOK' BY <1>l DEF CollectDead, TypeOK, DiscoveryPc
    <2>2. LockInv' BY <1>l DEF CollectDead, LockInv, TypeOK
    <2>3. Parts' BY <1>l DEF CollectDead, HeldEntryStays, Settled, DeadArray, AliveFound,
            LowSteady, SteadyRead, SteadyKept, InRound
    <2>. QED BY <2>1, <2>2, <2>3
  <1>m. ASSUME SweepLock PROVE IInv'
    <2>1. TypeOK' BY <1>m DEF SweepLock, TypeOK, DiscoveryPc
    <2>2. LockInv' BY <1>m DEF SweepLock, LockInv, TypeOK
    <2>3. Parts' BY <1>m DEF SweepLock, HeldEntryStays, Settled, DeadArray, AliveFound,
            LowSteady, SteadyRead, SteadyKept, InRound
    <2>. QED BY <2>1, <2>2, <2>3
  (* the writer excludes every reader, so no held entry is swept *)
  <1>n. ASSUME Sweep PROVE IInv'
    <2>1. TypeOK' BY <1>n DEF Sweep, TypeOK, DiscoveryPc
    <2>2. LockInv' BY <1>n DEF Sweep, LockInv, TypeOK
    <2>3. \A r \in Reader : rpc[r] = "idle"
      BY <1>n DEF Sweep, LockInv
    <2>4. Parts' BY <1>n, <2>3 DEF Sweep, HeldEntryStays, Settled, DeadArray, AliveFound,
            LowSteady, SteadyRead, SteadyKept, InRound
    <2>. QED BY <2>1, <2>2, <2>4
  <1>o. ASSUME Sleep PROVE IInv'
    <2>1. TypeOK' BY <1>o DEF Sleep, TypeOK, DiscoveryPc
    <2>2. LockInv' BY <1>o DEF Sleep, LockInv, TypeOK
    <2>3. Parts' BY <1>o DEF Sleep, HeldEntryStays, Settled, DeadArray, AliveFound,
            LowSteady, SteadyRead, SteadyKept, InRound
    <2>. QED BY <2>1, <2>2, <2>3
  <1>. QED BY <1>a, <1>b, <1>c, <1>d, <1>e, <1>f, <1>g, <1>h, <1>i, <1>j, <1>k, <1>l,
              <1>m, <1>n, <1>o DEF Discover

(* A reader moves only itself and its own hold on the lock. *)
LEMMA ReadIInv == ASSUME IInv, NEW r \in Reader, Read(r) PROVE IInv'
  <1> USE ThreadAssumption
  <1> USE DEF IInv, kernel, stream, tableVars, lock, disc, readVars, RLOCK, UNLOCK
  <1>1. UNCHANGED <<kernel, stream, tableVars, dpc, disc, seen>>
    BY DEF Read, Acquire, LookupFound, LookupNull, Release
  <1>2. TypeOK'
    BY <1>1 DEF Read, Acquire, LookupFound, LookupNull, Release, TypeOK, ReaderPc
  <1>3. LockInv'
    BY <1>1 DEF Read, Acquire, LookupFound, LookupNull, Release, LockInv, TypeOK, Discovery
  <1>4. HeldEntryStays'
    BY <1>1 DEF Read, Acquire, LookupFound, LookupNull, Release, HeldEntryStays, TypeOK
  <1>5. Settled' /\ DeadArray' /\ AliveFound' /\ LowSteady' /\ SteadyRead' /\ SteadyKept'
    BY <1>1 DEF Settled, DeadArray, AliveFound, LowSteady, SteadyRead, SteadyKept, InRound
  <1>. QED BY <1>1, <1>2, <1>3, <1>4, <1>5

LEMMA StutterIInv == IInv /\ UNCHANGED vars => IInv'
  BY DEF IInv, vars, kernel, stream, tableVars, lock, disc, readVars, TypeOK, LockInv,
         HeldEntryStays, Settled, DeadArray, AliveFound, LowSteady, SteadyRead,
         SteadyKept, InRound

(* IInv holds in every reachable state of the discovery thread, its        *)
(* readers and the kernel.                                                 *)
THEOREM Inductive == Spec => []IInv
  <1>1. IInv /\ [Next]_vars => IInv'
    BY KernelIInv, DiscoverIInv, ReadIInv, StutterIInv DEF Next
  <1>. QED BY InitIInv, <1>1, PTL DEF Spec

(* Every variable of the process table keeps its type. *)
THEOREM Typing == Spec => []TypeOK
  <1>1. IInv => TypeOK
    BY DEF IInv
  <1>. QED BY Inductive, <1>1, PTL

(* The lock is held by exactly the threads inside a critical section. *)
THEOREM LockDiscipline == Spec => []LockInv
  <1>1. IInv => LockInv
    BY DEF IInv
  <1>. QED BY Inductive, <1>1, PTL

(* acquire_proccess hands out entries that outlive their use. *)
THEOREM NoUseAfterSweep == Spec => []HeldEntryStays
  <1>1. IInv => HeldEntryStays
    BY DEF IInv
  <1>. QED BY Inductive, <1>1, PTL

(* After each round the table is what that round found. *)
THEOREM Exactness == Spec => []RoundExact
  <1>1. IInv => RoundExact
    BY DEF IInv, Settled, AliveFound, RoundExact
  <1>. QED BY Inductive, <1>1, PTL

(* A process with objects throughout a scan survives it, unless opening    *)
(* its object map can fail.                                                *)
THEOREM SteadyProcesses == Spec => []SteadyKept
  <1>1. IInv => SteadyKept
    BY DEF IInv
  <1>. QED BY Inductive, <1>1, PTL

(* process_table changes only under the write lock. *)
THEOREM Exclusion == Spec => ExclusiveUpdate
  <1>1. IInv /\ [Next]_vars => [table' # table => writers = {Discovery} /\ readers = {}]_vars
    <2> SUFFICES ASSUME IInv, Next, table' # table
                 PROVE  writers = {Discovery} /\ readers = {}
      OBVIOUS
    <2>1. dpc \in {"record", "sweep"}
      BY DEF Next, Kernel, Spawn, FirstObject, LastObjectFreed, Exit, Becomes, Read,
             Acquire, LookupFound, LookupNull, Release, Discover, BeginRound, MarkDead,
             OpenProc, OpenProcFails, ReadDir, EndOfDir, ObjectSeen, NoObjectSeen,
             RecordLock, KeepProcess, AddProcess, CollectLock, CollectDead, SweepLock,
             Sweep, Sleep, Goto, tableVars
    <2>. QED BY <2>1 DEF IInv, LockInv
  <1>. QED BY Inductive, <1>1, PTL DEF Spec, ExclusiveUpdate

-----------------------------------------------------------------------------
(* The refinement: each step is a step of the registry or changes nothing  *)
(* that its clients see.                                                   *)
LEMMA RegistryInit == Init => Registry!Init
  BY DEF Init, Registry!Init, InRound

LEMMA KernelStutters == IInv /\ Kernel => UNCHANGED Registry!vars
  BY DEF Kernel, Spawn, FirstObject, LastObjectFreed, Exit, Becomes, Registry!vars,
         tableVars, readVars, InRound

LEMMA DiscoverImplements == IInv /\ Discover => Registry!Next \/ UNCHANGED Registry!vars
  <1> SUFFICES ASSUME IInv, Discover
               PROVE  Registry!Next \/ UNCHANGED Registry!vars
    OBVIOUS
  <1> USE DEF tableVars, readVars, disc, Goto, InRound
  <1>1. CASE MarkDead
    <2>1. Registry!NewRound
      BY <1>1 DEF MarkDead, Registry!NewRound
    <2>. QED BY <2>1 DEF Registry!Next
  <1>2. CASE KeepProcess \/ AddProcess
    <2>1. cur \in Pid /\ alive' = alive \cup {cur} /\ table' = table \cup {cur}
      BY <1>2 DEF KeepProcess, AddProcess, IInv, TypeOK
    <2>2. Registry!Observe(cur)
      BY <1>2, <2>1 DEF KeepProcess, AddProcess, Registry!Observe
    <2>. QED BY <2>1, <2>2 DEF Registry!Next
  <1>3. CASE CollectDead
    <2>1. CASE dead' = {}
      (* nothing unseen, so the readers inside hold only found processes *)
      <3>1. table = alive
        BY <1>3, <2>1 DEF CollectDead, IInv, DeadArray
      <3>2. Registry!Retire
        BY <1>3, <2>1, <3>1 DEF CollectDead, IInv, HeldEntryStays, Registry!Retire
      <3>. QED BY <3>2 DEF Registry!Next
    <2>2. CASE dead' # {}
      BY <1>3, <2>2 DEF CollectDead, Registry!vars
    <2>. QED BY <2>1, <2>2
  <1>4. CASE Sweep
    <2>1. \A r \in Reader : rpc[r] = "idle"
      BY <1>4, ThreadAssumption DEF Sweep, IInv, LockInv, Discovery
    <2>2. table' = alive /\ alive' = alive
      BY <1>4 DEF Sweep, IInv, DeadArray
    <2>3. Registry!Retire
      BY <1>4, <2>1, <2>2 DEF Sweep, Registry!Retire
    <2>. QED BY <2>3 DEF Registry!Next
  <1>5. CASE ~(MarkDead \/ KeepProcess \/ AddProcess \/ CollectDead \/ Sweep)
    BY <1>5 DEF Discover, BeginRound, OpenProc, OpenProcFails, ReadDir, EndOfDir,
           ObjectSeen, NoObjectSeen, RecordLock, CollectLock, SweepLock, Sleep, Registry!vars
  <1>. QED BY <1>1, <1>2, <1>3, <1>4, <1>5

LEMMA ReadImplements ==
  ASSUME IInv, NEW r \in Reader, Read(r)
  PROVE  Registry!Next \/ UNCHANGED Registry!vars
  <1> USE DEF tableVars, readVars, InRound
  <1>1. CASE LookupFound(r)
    <2>1. PICK p \in Pid : p = arg[r]
      BY DEF IInv, TypeOK
    <2>2. Registry!Hold(r, p)
      BY <1>1, <2>1 DEF LookupFound, Registry!Hold, IInv, TypeOK
    <2>. QED BY <2>1, <2>2 DEF Registry!Next
  <1>2. CASE Release(r)
    <2>1. Registry!LetGo(r)
      BY <1>2 DEF Release, Registry!LetGo, IInv, TypeOK
    <2>. QED BY <2>1 DEF Registry!Next
  <1>3. CASE LookupNull(r) \/ \E p \in Pid : Acquire(r, p)
    BY <1>3 DEF LookupNull, Acquire, Registry!vars, IInv, TypeOK
  <1>. QED BY <1>1, <1>2, <1>3 DEF Read

(* The process table implements the registry. *)
THEOREM Refinement == Spec => Implements
  <1>1. IInv /\ [Next]_vars => [Registry!Next]_Registry!vars
    <2>1. IInv /\ UNCHANGED vars => UNCHANGED Registry!vars
      BY DEF vars, tableVars, readVars, Registry!vars, InRound
    <2>. QED BY <2>1, KernelStutters, DiscoverImplements, ReadImplements DEF Next
  <1>. QED BY Inductive, RegistryInit, <1>1, PTL DEF Spec, Implements, Registry!Spec

-----------------------------------------------------------------------------
(***************************************************************************)
(* The daemon around the table.                                            *)
(***************************************************************************)

LEMMA ProfilerAlone == Profiling \in Reader /\ Profiling # Discovery
  BY ProfilingAssumption, ThreadAssumption

LEMMA RingInit == DaemonInit => RingInv
  BY DaemonAssumption DEF DaemonInit, RingInv, Within

(* The kernel appends behind what the profiling thread reads. *)
LEMMA SampleAppends ==
  ASSUME RingInv, NEW c \in 1..MaxCpu, NEW p \in Pid, Sample(c, p)
  PROVE  /\ ring' \in [1..MaxCpu -> Seq(Pid)]
         /\ \A d \in 1..MaxCpu :
              /\ Len(ring[d]) <= Len(ring'[d])
              /\ \A i \in 1..Len(ring[d]) : ring'[d][i] = ring[d][i]
  <1>1. ring \in [1..MaxCpu -> Seq(Pid)] /\ ring' = [ring EXCEPT ![c] = Append(@, p)]
    BY DEF RingInv, Sample
  <1>2. Append(ring[c], p) \in Seq(Pid) /\ Len(Append(ring[c], p)) = Len(ring[c]) + 1
        /\ \A i \in 1..Len(ring[c]) : Append(ring[c], p)[i] = ring[c][i]
    BY <1>1
  <1>3. ring' \in [1..MaxCpu -> Seq(Pid)]
    BY <1>1, <1>2
  <1>4. ASSUME NEW d \in 1..MaxCpu
        PROVE  Len(ring[d]) <= Len(ring'[d]) /\ \A i \in 1..Len(ring[d]) : ring'[d][i] = ring[d][i]
    <2>1. CASE d = c
      BY <1>1, <1>2, <2>1
    <2>2. CASE d # c
      BY <1>1, <2>2
    <2>. QED BY <2>1, <2>2
  <1>. QED BY <1>3, <1>4

LEMMA MainRing == RingInv /\ Main => RingInv'
  BY DaemonAssumption
  DEF Main, MainStep, InitConfig, InitConfigFails, InitTable, Create, CreateFails,
      DivisionByZero, OpenRing, OpenEnds, MainGoto, profiling, RingInv, Within

LEMMA SampleRing == ASSUME RingInv, NEW c \in 1..MaxCpu, NEW p \in Pid, Sample(c, p)
                    PROVE  RingInv'
  <1>1. /\ ring' \in [1..MaxCpu -> Seq(Pid)]
        /\ \A d \in 1..MaxCpu : Len(ring[d]) <= Len(ring'[d])
    BY SampleAppends
  <1>2. UNCHANGED <<ncpu, cpu, due, at, ppc>>
    BY DEF Sample, main, profiling
  <1>3. ppc \in Within => cpu \in 1..MaxCpu
    BY DaemonAssumption DEF RingInv
  <1>4. ASSUME ppc \in {"read", "lookup", "count"} PROVE due <= Len(ring'[cpu])
    <2>1. cpu \in 1..MaxCpu /\ due <= Len(ring[cpu]) /\ due \in Nat
      BY <1>3, <1>4 DEF RingInv, Within
    <2>2. Len(ring[cpu]) \in Nat /\ Len(ring'[cpu]) \in Nat
      BY <1>1, <2>1 DEF RingInv
    <2>. QED BY <1>1, <2>1, <2>2
  <1>. QED BY <1>1, <1>2, <1>4 DEF RingInv

(* Each step of the profiling thread keeps it within a ring. *)
LEMMA ProfilingRing == RingInv /\ ProfilingStep => RingInv'
  <1> SUFFICES ASSUME RingInv, ProfilingStep PROVE RingInv'
    OBVIOUS
  <1> USE DaemonAssumption DEF RingInv, Within, ProfGoto, main
  <1>1. CASE Clear
    BY <1>1 DEF Clear
  <1>2. CASE Snapshot
    <2>1. cpu \in 1..MaxCpu /\ Len(ring[cpu]) \in Nat
      BY <1>2 DEF Snapshot
    <2>. QED BY <1>2, <2>1 DEF Snapshot
  <1>3. CASE StartLookup
    BY <1>3 DEF StartLookup
  <1>4. CASE Ignore
    BY <1>4 DEF Ignore
  <1>5. CASE Hold
    BY <1>5 DEF Hold
  <1>6. CASE GiveBack
    BY <1>6 DEF GiveBack
  <1>7. CASE Count
    BY <1>7 DEF Count
  <1>8. CASE Commit
    <2>1. cpu \in 1..MaxCpu /\ ring[cpu] \in Seq(Pid) /\ due <= Len(ring[cpu])
      BY <1>8 DEF Commit
    <2>2. SubSeq(ring[cpu], due + 1, Len(ring[cpu])) \in Seq(Pid)
      <3>1. \A i \in (due + 1)..Len(ring[cpu]) : i \in 1..Len(ring[cpu])
        BY <2>1
      <3>2. \A i \in 1..Len(ring[cpu]) : ring[cpu][i] \in Pid
        BY <2>1
      <3>. QED BY <2>1, <3>1, <3>2, SubSeqProperties
    <2>3. ring' \in [1..MaxCpu -> Seq(Pid)]
      BY <1>8, <2>2 DEF Commit
    <2>. QED BY <1>8, <2>1, <2>3 DEF Commit
  <1>9. CASE Wait
    BY <1>9 DEF Wait
  <1>. QED BY <1>1, <1>2, <1>3, <1>4, <1>5, <1>6, <1>7, <1>8, <1>9 DEF ProfilingStep

LEMMA RingStep == RingInv /\ [DaemonNext]_dvars => RingInv'
  <1> SUFFICES ASSUME RingInv, [DaemonNext]_dvars PROVE RingInv'
    OBVIOUS
  <1>1. CASE UNCHANGED dvars \/ KernelStep \/ DiscoveryStep
    BY <1>1 DEF dvars, KernelStep, DiscoveryStep, Own, main, profiling, RingInv
  <1>. QED BY <1>1, MainRing, SampleRing, ProfilingRing DEF DaemonNext

(* The profiling thread stays inside the rings that were opened, on a      *)
(* sample that was there when the pass began.                              *)
THEOREM ReadsWithin == DaemonSpec => []RingInv
  <1>. QED BY RingInit, RingStep, PTL DEF DaemonSpec

-----------------------------------------------------------------------------
(* A lookup is one of ProcessTable's, by a thread it knows and for a       *)
(* process it knows.                                                       *)
LEMMA LookupIsRead == ASSUME RingInv, ProfilingStep
                      PROVE  Read(Profiling) \/ UNCHANGED vars
  <1>1. CASE StartLookup
    <2>1. cpu \in 1..MaxCpu /\ at \in 1..Len(ring[cpu]) /\ ring[cpu] \in Seq(Pid)
      BY <1>1, DaemonAssumption DEF StartLookup, ProfGoto, RingInv, Within
    <2>2. ring[cpu][at] \in Pid
      BY <2>1
    <2>. QED BY <1>1, <2>2 DEF StartLookup, Read
  <1>2. CASE Ignore \/ Hold \/ GiveBack
    BY <1>2 DEF Ignore, Hold, GiveBack, Read
  <1>3. CASE Clear \/ Snapshot \/ Count \/ Commit \/ Wait
    BY <1>3 DEF Clear, Snapshot, Count, Commit, Wait
  <1>. QED BY <1>1, <1>2, <1>3 DEF ProfilingStep

LEMMA DaemonStep == RingInv /\ [DaemonNext]_dvars => [Next]_vars
  <1> SUFFICES ASSUME RingInv, [DaemonNext]_dvars PROVE [Next]_vars
    OBVIOUS
  <1>1. CASE UNCHANGED dvars
    BY <1>1 DEF dvars
  <1>2. CASE Main \/ \E c \in 1..MaxCpu, p \in Pid : Sample(c, p)
    BY <1>2 DEF Main, Sample
  <1>3. CASE KernelStep \/ DiscoveryStep
    BY <1>3 DEF KernelStep, DiscoveryStep, Own, Next
  <1>4. CASE ProfilingStep
    BY <1>4, LookupIsRead, ProfilerAlone DEF Next
  <1>. QED BY <1>1, <1>2, <1>3, <1>4 DEF DaemonNext

(* Inside the daemon the process table behaves as ProcessTable says: no    *)
(* order of start-up, failure or end of the program shows it a step of its *)
(* own.                                                                    *)
THEOREM DaemonKeepsTable == DaemonSpec => Spec
  <1>1. DaemonInit => Init
    BY DEF DaemonInit
  <1>. QED BY <1>1, DaemonStep, ReadsWithin, PTL DEF DaemonSpec, Spec

(* So no process that the profiler holds is swept while it holds it. *)
THEOREM DaemonHoldsLive == DaemonSpec => []HeldEntryStays
  <1>. QED BY DaemonKeepsTable, NoUseAfterSweep, PTL

(* And the profiler's clients see the registry.                            *)
THEOREM DaemonRefines == DaemonSpec => Implements
  <1>. QED BY DaemonKeepsTable, Refinement, PTL

-----------------------------------------------------------------------------
LEMMA KnownInit == DaemonInit => KnownInv
  BY DEF DaemonInit, Init, KnownInv, ProfileKnown

(* Main, the kernel and the discovery thread leave the lookup alone. *)
LEMMA OthersKnown ==
  ASSUME RingInv, KnownInv,
         Main \/ KernelStep \/ DiscoveryStep \/ UNCHANGED dvars
  PROVE  KnownInv'
  <1>1. UNCHANGED <<ppc, cpu, at, ring, profile, arg>>
    <2>1. Discover => UNCHANGED arg
      BY DEF Discover, BeginRound, MarkDead, OpenProc, OpenProcFails, ReadDir, EndOfDir,
             ObjectSeen, NoObjectSeen, RecordLock, KeepProcess, AddProcess, CollectLock,
             CollectDead, SweepLock, Sweep, Sleep, readVars
    <2>2. Kernel => UNCHANGED arg
      BY DEF Kernel, Spawn, FirstObject, LastObjectFreed, Exit, Becomes, readVars
    <2>. QED BY <2>1, <2>2
      DEF Main, KernelStep, DiscoveryStep, Own, dvars, vars, readVars, profiling
  <1>2. table' \subseteq tabled' /\ tabled \subseteq tabled'
    <2>1. Kernel => UNCHANGED table
      BY DEF Kernel, Spawn, FirstObject, LastObjectFreed, Exit, Becomes, tableVars
    <2>. QED BY <2>1 DEF Main, KernelStep, DiscoveryStep, Own, dvars, vars, tableVars, KnownInv
  <1>. QED BY <1>1, <1>2 DEF KnownInv, ProfileKnown

LEMMA SampleKnown == ASSUME RingInv, KnownInv, NEW c \in 1..MaxCpu, NEW p \in Pid, Sample(c, p)
                     PROVE  KnownInv'
  <1>1. UNCHANGED <<ppc, cpu, at, profile, arg, table, tabled>>
    BY DEF Sample, vars, readVars, tableVars, profiling
  <1>2. ASSUME ppc \in {"lookup", "count"} PROVE ring'[cpu][at] = ring[cpu][at]
    <2>1. cpu \in 1..MaxCpu /\ at \in 1..Len(ring[cpu])
      BY <1>2, DaemonAssumption DEF RingInv, Within
    <2>. QED BY <2>1, SampleAppends
  <1>. QED BY <1>1, <1>2 DEF KnownInv, ProfileKnown

(* What was found was in the table; what is counted was found. *)
LEMMA ProfilingKnown == ASSUME RingInv, KnownInv, IInv, ProfilingStep PROVE KnownInv'
  <1> USE ProfilerAlone DEF KnownInv, ProfileKnown, ProfGoto
  <1>1. CASE Clear
    BY <1>1 DEF Clear, vars, tableVars
  <1>2. CASE Snapshot \/ Commit \/ Wait
    BY <1>2 DEF Snapshot, Commit, Wait, vars, tableVars
  <1>3. CASE StartLookup
    BY <1>3 DEF StartLookup, Acquire, tableVars, IInv, TypeOK
  <1>4. CASE Ignore
    BY <1>4 DEF Ignore, LookupNull, tableVars
  <1>5. CASE Hold
    BY <1>5 DEF Hold, LookupFound, tableVars
  <1>6. CASE GiveBack
    <2>1. arg[Profiling] \in table
      BY <1>6 DEF GiveBack, Release, IInv, HeldEntryStays
    <2>. QED BY <1>6, <2>1 DEF GiveBack, Release, tableVars
  <1>7. CASE Count
    BY <1>7 DEF Count, vars, tableVars
  <1>. QED BY <1>1, <1>2, <1>3, <1>4, <1>5, <1>6, <1>7 DEF ProfilingStep

(* The profile names only processes that were in the table in its period:  *)
(* the lock held from lookup to release is what this rests on.             *)
THEOREM CountsKnown == DaemonSpec => []ProfileKnown
  <1>1. RingInv /\ IInv /\ KnownInv /\ [DaemonNext]_dvars => KnownInv'
    BY OthersKnown, SampleKnown, ProfilingKnown DEF DaemonNext
  <1>2. KnownInv => ProfileKnown
    BY DEF KnownInv
  <1>. QED BY <1>1, <1>2, KnownInit, ReadsWithin, DaemonKeepsTable, Inductive, PTL
       DEF DaemonSpec
==============================================================================
