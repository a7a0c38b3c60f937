------------------------------ MODULE Profiler ------------------------------
(***************************************************************************)
(* The sampling profiler of mat-daemon (mat-daemon/src/profile.c): one     *)
(* perf ring per cpu, filled by the kernel, and the profiling thread that  *)
(* empties them once per period and counts the samples of each process     *)
(* that is in the process table.                                           *)
(*                                                                         *)
(* data_head and data_tail run freely and are reduced modulo the ring size *)
(* when the data area is addressed.  The unit is the 8-byte word: records  *)
(* are whole words, and a record the ring's end cuts goes on at its start. *)
(***************************************************************************)
EXTENDS Naturals, Sequences, FiniteSets

CONSTANTS
  Pid,
  NCpu,        \* rings that init_profiling opened; it may have opened none
  N,           \* words in a ring: PAGE_SIZE * profile_max_sample_pages / 8
  SampleSize,  \* words of a PERF_RECORD_SAMPLE
  OtherSize,   \* words of another record (mmap, fork, exit, lost)
  MaxRecords   \* bound: records the kernel writes, all rings together

ASSUME SizeAssumption ==
  /\ NCpu \in Nat /\ MaxRecords \in Nat
  /\ N \in Nat \ {0} /\ SampleSize \in 1..N /\ OtherSize \in 1..N

Cpu == 1..NCpu
Record == [kind : {"sample"}, pid : Pid] \cup [kind : {"other"}]
Size(rec) == IF rec.kind = "sample" THEN SampleSize ELSE OtherSize

VARIABLES
  head, tail,  \* metadata->data_head, data_tail of each ring
  mem,         \* the words of each ring: <<i, o>> is word o of its i-th record
  log,         \* the records written to each ring so far
  known,       \* the pids in process_table, which discovery changes at will
  pc, cpu,     \* control of profiling_thread
  h, begin, end,  \* locals of do_profiling_for_cpu: head, begin - base, end - base
  profile,     \* collected_profile: a sequence of md_profile_info
  exam,        \* history: records of cpu's ring examined in this pass
  tally, old   \* history: records counted in this period, and before it

ring   == <<head, mem, log>>
locals == <<h, begin, end>>
hist   == <<exam, tally, old>>
vars   == <<ring, tail, known, pc, cpu, locals, profile, hist>>

Blank == <<0, 0>>   \* a word never written

(***************************************************************************)
(* The kernel drops a record that does not fit in the space the reader has *)
(* given back, and never fills the last word.                              *)
(***************************************************************************)
Total == Cardinality(UNION {{c} \X DOMAIN log[c] : c \in Cpu})

Emit(c, rec) ==
  /\ Total < MaxRecords
  /\ head[c] + Size(rec) < tail[c] + N
  /\ log' = [log EXCEPT ![c] = Append(@, rec)]
  /\ mem' = [mem EXCEPT ![c] =
               [w \in 0..N-1 |->
                  LET o == (w + N - (head[c] % N)) % N
                  IN  IF o < Size(rec) THEN <<Len(log'[c]), o>> ELSE @[w]]]
  /\ head' = [head EXCEPT ![c] = @ + Size(rec)]
  /\ UNCHANGED <<tail, known, pc, cpu, locals, profile, hist>>

(* The discovery thread, between two lookups. *)
TableChanges ==
  /\ \E p \in Pid : known' \in {known \cup {p}, known \ {p}}
  /\ UNCHANGED <<ring, tail, pc, cpu, locals, profile, hist>>

(***************************************************************************)
(* profiling_thread and do_profiling_for_cpu                               *)
(***************************************************************************)
Goto(from, to) == pc = from /\ pc' = to

ClearForgotten ==   \* mutant of Clear: collected_profile is kept
  /\ Goto("clear", IF NCpu = 0 THEN "sleep" ELSE "snapshot")
  /\ cpu' = 1
  /\ old' = old \cup tally
  /\ tally' = {}
  /\ UNCHANGED <<ring, tail, known, locals, profile, exam>>

(* clear_profiling_info, and the start of the loop over the rings *)
Clear ==
  /\ Goto("clear", IF NCpu = 0 THEN "sleep" ELSE "snapshot")
  /\ profile' = <<>>
  /\ cpu' = 1
  /\ old' = old \cup tally
  /\ tally' = {}
  /\ UNCHANGED <<ring, tail, known, locals, exam>>

SnapshotCommits ==   \* mutant of Snapshot: data_tail is stored before the read
  /\ Goto("snapshot", "read")
  /\ h' = head[cpu]
  /\ begin' = tail[cpu] % N
  /\ end' = head[cpu] % N
  /\ exam' = {}
  /\ tail' = [tail EXCEPT ![cpu] = head[cpu]]
  /\ UNCHANGED <<ring, known, cpu, profile, tally, old>>

Snapshot ==
  /\ Goto("snapshot", "read")
  /\ h' = head[cpu]
  /\ begin' = tail[cpu] % N
  /\ end' = head[cpu] % N
  /\ exam' = {}
  /\ UNCHANGED <<ring, tail, known, cpu, profile, tally, old>>

AtHeader   == mem[cpu][begin] # Blank /\ mem[cpu][begin][2] = 0
TheRecord  == log[cpu][mem[cpu][begin][1]]
HeaderSize == IF AtHeader THEN Size(TheRecord) ELSE 0
IsSample   == TheRecord.kind = "sample"

(* the label inc *)
Inc == /\ begin' = IF begin + HeaderSize = N THEN 0 ELSE begin + HeaderSize
       /\ exam' = exam \cup {mem[cpu][begin][1]}

ReadDone ==
  /\ Goto("read", "commit")
  /\ ~(begin < end) \/ HeaderSize = 0
  /\ UNCHANGED <<ring, tail, known, cpu, locals, profile, hist>>

BreakOnOther ==   \* mutant of SkipOther: break where the code jumps to inc
  /\ Goto("read", "commit")
  /\ begin < end /\ HeaderSize # 0 /\ ~IsSample
  /\ UNCHANGED <<ring, tail, known, cpu, locals, profile, hist>>

SkipOther ==
  /\ Goto("read", "read")
  /\ begin < end /\ HeaderSize # 0 /\ ~IsSample
  /\ Inc
  /\ UNCHANGED <<ring, tail, known, cpu, h, end, profile, tally, old>>

ReadSample ==
  /\ Goto("read", "lookup")
  /\ begin < end /\ HeaderSize # 0 /\ IsSample
  /\ UNCHANGED <<ring, tail, known, cpu, locals, profile, hist>>

(* acquire_proccess returned NULL *)
UnknownProcess ==
  /\ Goto("lookup", "read")
  /\ TheRecord.pid \notin known
  /\ Inc
  /\ UNCHANGED <<ring, tail, known, cpu, h, end, profile, tally, old>>

(* get_or_make_info_for_pid, and the increment *)
Counted(infos, p) ==
  IF \E i \in DOMAIN infos : infos[i].pid = p
    THEN LET first == CHOOSE i \in DOMAIN infos :
                        infos[i].pid = p /\ \A j \in 1..i-1 : infos[j].pid # p
         IN  [infos EXCEPT ![first].accesses = @ + 1]
    ELSE Append(infos, [pid |-> p, accesses |-> 1])

(* the process is released before its sample is counted *)
KnownProcess ==
  /\ Goto("lookup", "count")
  /\ TheRecord.pid \in known
  /\ UNCHANGED <<ring, tail, known, cpu, locals, profile, hist>>

CountSample ==
  /\ Goto("count", "read")
  /\ profile' = Counted(profile, TheRecord.pid)
  /\ tally' = tally \cup {<<cpu, mem[cpu][begin][1]>>}
  /\ Inc
  /\ UNCHANGED <<ring, tail, known, cpu, h, end, old>>

CommitNothing ==   \* mutant of Commit: data_tail is not stored
  /\ Goto("commit", IF cpu = NCpu THEN "sleep" ELSE "snapshot")
  /\ cpu' = cpu + 1
  /\ UNCHANGED <<ring, tail, known, locals, profile, hist>>

Commit ==
  /\ Goto("commit", IF cpu = NCpu THEN "sleep" ELSE "snapshot")
  /\ tail' = [tail EXCEPT ![cpu] = h]
  /\ cpu' = cpu + 1
  /\ UNCHANGED <<ring, known, locals, profile, hist>>

Sleep ==
  /\ Goto("sleep", "clear")
  /\ UNCHANGED <<ring, tail, known, cpu, locals, profile, hist>>

Profile == Clear \/ Snapshot \/ ReadDone \/ SkipOther \/ ReadSample
           \/ UnknownProcess \/ KnownProcess \/ CountSample \/ Commit \/ Sleep
-----------------------------------------------------------------------------
Init ==
  /\ head = [c \in Cpu |-> 0] /\ tail = head
  /\ mem = [c \in Cpu |-> [w \in 0..N-1 |-> Blank]]
  /\ log = [c \in Cpu |-> <<>>]
  /\ known \in SUBSET Pid
  /\ pc = "clear" /\ cpu = 1
  /\ h = 0 /\ begin = 0 /\ end = 0
  /\ profile = <<>>
  /\ exam = {} /\ tally = {} /\ old = {}

Next == (\E c \in Cpu, rec \in Record : Emit(c, rec)) \/ TableChanges \/ Profile

Spec == Init /\ [][Next]_vars

(* The thread is scheduled; neither the kernel nor discovery owes a step.  *)
FairSpec == Spec /\ WF_vars(Profile)
-----------------------------------------------------------------------------
(* Every variable stays in its domain. *)
TypeOK ==
  /\ head \in [Cpu -> Nat] /\ tail \in [Cpu -> Nat]
  /\ \A c \in Cpu : /\ log[c] \in Seq(Record)
                    /\ \A w \in 0..N-1 :
                         mem[c][w] = Blank \/ /\ mem[c][w][1] \in DOMAIN log[c]
                                              /\ mem[c][w][2] < Size(log[c][mem[c][w][1]])
  /\ known \subseteq Pid
  /\ pc \in {"clear", "snapshot", "read", "lookup", "count", "commit", "sleep"}
  /\ cpu \in 1..NCpu+1
  /\ h \in Nat /\ begin \in 0..N-1 /\ end \in 0..N-1
  /\ profile \in Seq([pid : Pid, accesses : Nat])

(* What the kernel wrote stays in place until the reader gives it back:    *)
(* whenever the loop dereferences begin it stands on the first word of one *)
(* whole record that lies before end.  So the size-0 break and the jump    *)
(* back to base (profile.c:170, 190) are never taken.                      *)
WholeRecord ==
  /\ TypeOK
  /\ pc \in {"read", "lookup", "count"} /\ begin < end =>
       /\ AtHeader
       /\ begin + HeaderSize <= end
       /\ \A o \in 0..HeaderSize-1 : mem[cpu][begin + o] = <<mem[cpu][begin][1], o>>

(* Where record i of ring c starts in the free-running count, for any i up *)
(* to one past the last record.                                            *)
Samples(c, i) == Cardinality({j \in 1..i-1 : log[c][j].kind = "sample"})
Start(c, i) == Samples(c, i) * SampleSize + (i - 1 - Samples(c, i)) * OtherSize

(* The records a pass owes: those between the tail and the head it read. *)
Due == {i \in DOMAIN log[cpu] : tail[cpu] <= Start(cpu, i) /\ Start(cpu, i) < h}

(* A pass reads every record between tail and head or, when the range      *)
(* wraps, none: it never leaves a batch half read.                         *)
AllOrNothing ==
  pc = "commit" => exam = IF tail[cpu] % N <= h % N THEN Due ELSE {}

(* A sample is counted in at most one period. *)
CountedOnce == tally \cap old = {}

(* The profile has one entry for each process sampled in this period, and  *)
(* it counts each of the period's samples once.                            *)
ProfileExact ==
  /\ \A i, j \in DOMAIN profile : profile[i].pid = profile[j].pid => i = j
  /\ \A p \in Pid :
       LET counted == Cardinality({x \in tally : log[x[1]][x[2]].pid = p})
           entries == {i \in DOMAIN profile : profile[i].pid = p}
       IN  IF counted = 0 THEN entries = {}
             ELSE \E i \in entries : profile[i].accesses = counted

(* "Read all of the samples" (profile.c:167). *)
ReadsAll == pc = "commit" => exam = Due

(* A ring without room for a record gets room again, whether the unread    *)
(* range is wrapped or not: the kernel does not lose samples for good.     *)
Full(c) == head[c] + OtherSize >= tail[c] + N
Drained == \A c \in Cpu : Full(c) ~> ~Full(c)
=============================================================================
