--------------------------- MODULE ObjectProfiler ---------------------------
(***************************************************************************)
(* The object profiler of examples/accesses/profile.c: the threads of the  *)
(* allocator register blocks when they hand them out and retire them when  *)
(* they are freed, a profiling thread credits access samples to the        *)
(* registered objects, and profile_fini writes all objects out.            *)
(*                                                                         *)
(* One action is one mutex acquisition with what is done up to the next    *)
(* one, or one step outside the mutexes.  A section that takes no second   *)
(* mutex is a single action, enabled when its mutex is free.               *)
(***************************************************************************)
EXTENDS Naturals, Sequences, FiniteSets, Functions

CONSTANTS
  NThread,    \* allocator threads, HMALLOC_MAX_THREADS
  Block,      \* the blocks of DEFAULT_BLOCK_SIZE, by number
  Quiet,      \* TRUE if the other threads are at rest when profile_fini runs
  MaxObj,     \* bound: objects ever created
  MaxSample   \* bound: accesses the hardware samples

ASSUME BoundAssumption ==
  /\ NThread \in Nat \ {0} /\ MaxObj \in Nat /\ MaxSample \in Nat
  /\ Block \subseteq Nat \ {0} /\ IsFiniteSet(Block)
  /\ Quiet \in BOOLEAN

Thread == 1..NThread
Prof   == NThread + 1   \* holders of a mutex besides the threads
Fini   == NThread + 2
Nobody == 0
None   == 0             \* no object

VARIABLES
  objs,     \* every profile_obj_entry, in order of creation
  live,     \* the allocator: the object that occupies each block
  clock,    \* CLOCK_MONOTONIC, one tick per allocation or sample
  mtx,      \* prof_thread_mutices: the holder of each
  bufmtx,   \* obj_buff_mtx: its holder
  inited,   \* threads with is_initialized
  blocks,   \* the blocks table of each thread
  obj_buff, \* prof_data.obj_buff
  out,      \* the objects written to hmalloc.profile
  apc, aobj,           \* control of each thread, and the object it works on
  ring,     \* samples not yet read
  todo,     \* samples of this pass
  ppc, it, final,      \* control of profile_fn
  counted,  \* the samples credited to an object: its write and read buckets
  should_stop,
  stopmtx,  \* prof_data.mtx is free: the signal to stop
  fpc, fit  \* control of profile_fini

heap == <<objs, live, clock>>
tabs == <<inited, blocks>>
bufs == <<obj_buff, out, bufmtx>>
app  == <<apc, aobj>>
prof == <<todo, ppc, it, final, counted>>
stop == <<should_stop, stopmtx>>
fini == <<fpc, fit>>
vars == <<heap, mtx, tabs, bufs, app, ring, prof, stop, fini>>

Awake   == Quiet => fpc = "idle"
Busy(o) == \E t \in Thread : apc[t] # "idle" /\ aobj[t] = o
Span(o) == objs[o].span

(***************************************************************************)
(* Allocator threads.  A block is handed out after profile_add_block and   *)
(* given back after profile_delete_block; any thread may free it.          *)
(***************************************************************************)
Spans == {B \in SUBSET Block : B # {} /\ \A i, j \in B : i..j \subseteq B}

(* the entry is made, and stamped, before the mutex is taken *)
AddBlock(t, B) ==
  /\ Awake /\ apc[t] = "idle"
  /\ Len(objs) < MaxObj
  /\ \A b \in B : live[b] = None
  /\ clock' = clock + 1
  /\ objs' = Append(objs, [tid |-> t, span |-> B, m_ns |-> clock'])
  /\ live' = [b \in Block |-> IF b \in B THEN Len(objs') ELSE live[b]]
  /\ apc' = [apc EXCEPT ![t] = "add"]
  /\ aobj' = [aobj EXCEPT ![t] = Len(objs')]
  /\ UNCHANGED <<mtx, tabs, bufs, ring, prof, stop, fini>>

(* profile_thr_init included *)
AddInsert(t) ==
  /\ apc[t] = "add" /\ mtx[t] = Nobody
  /\ inited' = inited \cup {t}
  /\ blocks' = [blocks EXCEPT ![t] =
                  [b \in Block |-> IF b \in Span(aobj[t]) THEN aobj[t] ELSE @[b]]]
  /\ apc' = [apc EXCEPT ![t] = "idle"]
  /\ UNCHANGED <<heap, mtx, bufs, aobj, ring, prof, stop, fini>>

DeleteBlock(t, o) ==
  /\ Awake /\ apc[t] = "idle"
  /\ \E b \in Block : live[b] = o
  /\ ~Busy(o)
  /\ apc' = [apc EXCEPT ![t] = "delete"]
  /\ aobj' = [aobj EXCEPT ![t] = o]
  /\ UNCHANGED <<heap, mtx, tabs, bufs, ring, prof, stop, fini>>

DeleteRemove(t) ==
  LET u == objs[aobj[t]].tid
  IN  /\ apc[t] = "delete" /\ mtx[u] = Nobody
      /\ mtx' = [mtx EXCEPT ![u] = t]
      /\ blocks' = [blocks EXCEPT ![u] =
                      [b \in Block |-> IF b \in Span(aobj[t]) THEN None ELSE @[b]]]
      /\ apc' = [apc EXCEPT ![t] = "push"]
      /\ UNCHANGED <<heap, inited, bufs, aobj, ring, prof, stop, fini>>

(* mutant of DeletePush: the entry is dropped *)
DeleteForget(t) ==
  /\ apc[t] = "push" /\ bufmtx = Nobody
  /\ mtx' = [mtx EXCEPT ![objs[aobj[t]].tid] = Nobody]
  /\ live' = [b \in Block |-> IF live[b] = aobj[t] THEN None ELSE live[b]]
  /\ apc' = [apc EXCEPT ![t] = "idle"]
  /\ UNCHANGED <<objs, clock, tabs, bufs, aobj, ring, prof, stop, fini>>

(* obj_buff_mtx is taken with the thread's mutex held *)
DeletePush(t) ==
  /\ apc[t] = "push" /\ bufmtx = Nobody
  /\ obj_buff' = Append(obj_buff, aobj[t])
  /\ mtx' = [mtx EXCEPT ![objs[aobj[t]].tid] = Nobody]
  /\ live' = [b \in Block |-> IF live[b] = aobj[t] THEN None ELSE live[b]]
  /\ apc' = [apc EXCEPT ![t] = "idle"]
  /\ UNCHANGED <<objs, clock, tabs, out, bufmtx, aobj, ring, prof, stop, fini>>

(* profile_set_site: the slot is found under the mutex and read after it   *)
(* has been given back.  The caller has the object, and does not free it.  *)
LookSite(t, o) ==
  /\ Awake /\ apc[t] = "idle"
  /\ \E b \in Block : live[b] = o
  /\ ~Busy(o)
  /\ mtx[objs[o].tid] = Nobody
  /\ apc' = [apc EXCEPT ![t] = "site"]
  /\ aobj' = [aobj EXCEPT ![t] = o]
  /\ UNCHANGED <<heap, mtx, tabs, bufs, ring, prof, stop, fini>>

(* the entry in the slot gets its name, which is only printed *)
SetSite(t) ==
  /\ apc[t] = "site"
  /\ apc' = [apc EXCEPT ![t] = "idle"]
  /\ UNCHANGED <<heap, mtx, tabs, bufs, aobj, ring, prof, stop, fini>>

(* The hardware samples an access of thread t to a block that is in use.   *)
(* "of" is the object really accessed, which the sample does not say.      *)
Samples == clock - Len(objs)

Access(t, b) ==
  /\ Awake /\ apc[t] = "idle"
  /\ live[b] # None /\ ~Busy(live[b])
  /\ fpc \in {"idle", "signal"}   \* the events are enabled
  /\ Samples < MaxSample
  /\ clock' = clock + 1
  /\ ring' = Append(ring, [tid |-> t, block |-> b, time |-> clock', of |-> live[b]])
  /\ UNCHANGED <<objs, live, mtx, tabs, bufs, app, prof, stop, fini>>

(***************************************************************************)
(* profile_fn                                                              *)
(***************************************************************************)
Goto(from, to) == ppc = from /\ ppc' = to
Sample == Head(todo)
NextSample == todo' = Tail(todo)

(* profile_should_stop *)
Check ==
  /\ Goto("check", "pass")
  /\ final' = stopmtx
  /\ UNCHANGED <<heap, mtx, tabs, bufs, app, ring, todo, it, counted, stop, fini>>

(* A pass takes what the ring holds; it reads nothing when the range wraps *)
(* (Profiler shows that it reads all or nothing).                          *)
BeginPass ==
  /\ Goto("pass", "next")
  /\ todo' \in {ring, <<>>}
  /\ ring' = <<>>
  /\ UNCHANGED <<heap, mtx, tabs, bufs, app, it, final, counted, stop, fini>>

EndPass ==
  /\ Goto("next", IF final THEN "done" ELSE "check")
  /\ todo = <<>>
  /\ UNCHANGED <<heap, mtx, tabs, bufs, app, ring, todo, it, final, counted, stop, fini>>

(* A lookup takes the mutex of thread u and keeps it if the block is there.*)
Finds(u) == u \in inited /\ blocks[u][Sample.block] # None

(* mutant of FoundIn: the mutex is given back *)
FoundUnlocked(u) ==
  /\ mtx[u] = Nobody /\ Finds(u)
  /\ it' = u
  /\ ppc' = "found"
  /\ UNCHANGED mtx

FoundIn(u) ==
  /\ mtx[u] = Nobody /\ Finds(u)
  /\ mtx' = [mtx EXCEPT ![u] = Prof]
  /\ it' = u
  /\ ppc' = "found"

LookFirst ==
  /\ ppc = "next" /\ todo # <<>>
  /\ \/ FoundIn(Sample.tid)
     \/ /\ mtx[Sample.tid] = Nobody /\ ~Finds(Sample.tid)
        /\ ppc' = "search" /\ it' = 1
        /\ UNCHANGED mtx
  /\ UNCHANGED <<heap, tabs, bufs, app, ring, todo, final, counted, stop, fini>>

(* mutant of Search: a thread that is skipped stays locked *)
SearchLeaves ==
  /\ ppc = "search" /\ it <= NThread
  /\ \/ it # Sample.tid /\ FoundIn(it)
     \/ /\ mtx[it] = Nobody /\ (it = Sample.tid \/ ~Finds(it))
        /\ mtx' = [mtx EXCEPT ![it] = Prof]
        /\ it' = it + 1 /\ UNCHANGED ppc
  /\ UNCHANGED <<heap, tabs, bufs, app, ring, todo, final, counted, stop, fini>>

(* LOCKING_THREAD_TRAVERSE: "continue" and the end of the body both unlock *)
Search ==
  /\ ppc = "search" /\ it <= NThread
  /\ \/ it # Sample.tid /\ FoundIn(it)
     \/ /\ mtx[it] = Nobody /\ (it = Sample.tid \/ ~Finds(it))
        /\ it' = it + 1 /\ UNCHANGED <<ppc, mtx>>
  /\ UNCHANGED <<heap, tabs, bufs, app, ring, todo, final, counted, stop, fini>>

NotFound ==
  /\ Goto("search", "next")
  /\ it > NThread
  /\ NextSample
  /\ UNCHANGED <<heap, mtx, tabs, bufs, app, ring, it, final, counted, stop, fini>>

Target == blocks[it][Sample.block]
Stale  == Sample.time < objs[Target].m_ns

(* mutant of Ignore: the sample's time is not looked at *)
NeverIgnore == FALSE

Ignore == Stale /\ ~should_stop

Update ==
  /\ Goto("found", "next")
  /\ counted' = IF Ignore THEN counted
                  ELSE counted \cup {[obj |-> Target, time |-> Sample.time,
                                      of |-> Sample.of, late |-> should_stop]}
  /\ mtx' = [mtx EXCEPT ![it] = Nobody]
  /\ NextSample
  /\ UNCHANGED <<heap, tabs, bufs, app, ring, it, final, stop, fini>>

(***************************************************************************)
(* profile_fini                                                            *)
(***************************************************************************)
FGoto(from, to) == fpc = from /\ fpc' = to

FiniStart ==
  /\ FGoto("idle", "signal")
  /\ Quiet => \A t \in Thread : apc[t] = "idle"
  /\ should_stop' = TRUE
  /\ UNCHANGED <<heap, mtx, tabs, bufs, app, ring, prof, stopmtx, fit>>

(* stop_profile_thread *)
FiniSignal ==
  /\ FGoto("signal", "join")
  /\ stopmtx' = TRUE
  /\ UNCHANGED <<heap, mtx, tabs, bufs, app, ring, prof, should_stop, fit>>

FiniJoin ==
  /\ FGoto("join", "lock")
  /\ ppc = "done"
  /\ UNCHANGED <<heap, mtx, tabs, bufs, app, ring, prof, stop, fit>>

FiniLock ==
  /\ FGoto("lock", "gather")
  /\ bufmtx = Nobody
  /\ bufmtx' = Fini
  /\ fit' = 1
  /\ UNCHANGED <<heap, mtx, tabs, obj_buff, out, app, ring, prof, stop>>

(* An object is pushed once for each of its blocks, in any order. *)
Entries(u) == IF u \in inited THEN {b \in Block : blocks[u][b] # None} ELSE {}

Orders(u) == Bijection(1..Cardinality(Entries(u)), Entries(u))

Gather ==
  /\ fpc = "gather" /\ fit <= NThread
  /\ mtx[fit] = Nobody
  /\ \E s \in Orders(fit) : obj_buff' = obj_buff \o [i \in DOMAIN s |-> blocks[fit][s[i]]]
  /\ fit' = fit + 1
  /\ UNCHANGED <<heap, mtx, tabs, out, bufmtx, app, ring, prof, stop, fpc>>

Write ==
  /\ FGoto("gather", "done")
  /\ fit > NThread
  /\ out' = obj_buff
  /\ bufmtx' = Nobody
  /\ UNCHANGED <<heap, mtx, tabs, obj_buff, app, ring, prof, stop, fit>>

Terminated == fpc = "done" /\ UNCHANGED vars
-----------------------------------------------------------------------------
Allocate(t) == \/ \E B \in Spans : AddBlock(t, B)
               \/ AddInsert(t)
               \/ \E o \in DOMAIN objs : DeleteBlock(t, o)
               \/ DeleteRemove(t) \/ DeletePush(t)
               \/ \E o \in DOMAIN objs : LookSite(t, o)
               \/ SetSite(t)
               \/ \E b \in Block : Access(t, b)

Profile == \/ Check \/ BeginPass \/ EndPass
           \/ LookFirst \/ Search \/ NotFound \/ Update

Finish == FiniStart \/ FiniSignal \/ FiniJoin \/ FiniLock \/ Gather \/ Write

(* after profile_init *)
Init ==
  /\ objs = <<>> /\ live = [b \in Block |-> None] /\ clock = 0
  /\ mtx = [t \in Thread |-> Nobody] /\ bufmtx = Nobody
  /\ inited = {} /\ blocks = [t \in Thread |-> [b \in Block |-> None]]
  /\ obj_buff = <<>> /\ out = <<>>
  /\ apc = [t \in Thread |-> "idle"] /\ aobj = [t \in Thread |-> None]
  /\ ring = <<>> /\ todo = <<>>
  /\ ppc = "check" /\ it = 1 /\ final = FALSE
  /\ counted = {}
  /\ should_stop = FALSE /\ stopmtx = FALSE
  /\ fpc = "idle" /\ fit = 1

Next == (\E t \in Thread : Allocate(t)) \/ Profile \/ Finish \/ Terminated

Spec == Init /\ [][Next]_vars

(* Threads that can run do.  A mutex is released again and again by the    *)
(* other threads, and the one that waits gets it in the end.               *)
FairSpec ==
  /\ Spec
  /\ WF_vars(Profile) /\ SF_vars(LookFirst) /\ SF_vars(Search)
  /\ WF_vars(Finish /\ fpc # "idle")
  /\ \A t \in Thread : WF_vars(AddInsert(t) \/ DeleteRemove(t) \/ DeletePush(t) \/ SetSite(t))
-----------------------------------------------------------------------------
Object   == [tid : Thread, span : Spans, m_ns : Nat]
SampleOf == [tid : Thread, block : Block, time : Nat, of : Nat]

(* Every variable stays in its domain. *)
TypeOK ==
  /\ objs \in Seq(Object) /\ clock \in Nat
  /\ live \in [Block -> {None} \cup DOMAIN objs]
  /\ mtx \in [Thread -> {Nobody, Prof, Fini} \cup Thread]
  /\ bufmtx \in {Nobody, Fini}
  /\ inited \subseteq Thread
  /\ blocks \in [Thread -> [Block -> {None} \cup DOMAIN objs]]
  /\ obj_buff \in Seq(DOMAIN objs) /\ out \in Seq(DOMAIN objs)
  /\ apc \in [Thread -> {"idle", "add", "delete", "push", "site"}]
  /\ aobj \in [Thread -> {None} \cup DOMAIN objs]
  /\ ring \in Seq(SampleOf) /\ todo \in Seq(SampleOf)
  /\ ppc \in {"check", "pass", "next", "search", "found", "done"}
  /\ it \in 1..NThread+1 /\ fit \in 1..NThread+1
  /\ final \in BOOLEAN /\ should_stop \in BOOLEAN /\ stopmtx \in BOOLEAN
  /\ fpc \in {"idle", "signal", "join", "lock", "gather", "done"}

Slot(o) == blocks[objs[o].tid]

(* What a lookup found stays good while it is used.  The search hands its  *)
(* mutex over to the update: while an object is credited, its thread's     *)
(* mutex is held and nobody can retire the object.  profile_set_site reads *)
(* the slot after it has given the mutex back.                             *)
HandOff ==
  /\ TypeOK
  /\ ppc = "found" =>
       /\ mtx[it] = Prof
       /\ Target # None
       /\ \A i \in DOMAIN obj_buff : obj_buff[i] # Target
  /\ \A t \in Thread : apc[t] = "site" =>
       \A b \in Span(aobj[t]) : Slot(aobj[t])[b] = aobj[t]

(* Until profile_fini gathers, each object is in one place: on its way     *)
(* into its thread's table, there under all of its blocks, on its way out, *)
(* or once in the buffer.                                                  *)
Conserved ==
  fpc \notin {"gather", "done"} =>
    \A o \in DOMAIN objs :
      LET at(u)     == {b \in Block : blocks[u][b] = o}
          moving    == \E t \in Thread : apc[t] \in {"add", "push"} /\ aobj[t] = o
          inBuffer  == Cardinality({i \in DOMAIN obj_buff : obj_buff[i] = o})
      IN  /\ \A u \in Thread \ {objs[o].tid} : at(u) = {}
          /\ at(objs[o].tid) \in {{}, Span(o)}
          /\ inBuffer = IF at(objs[o].tid) = {} /\ ~moving THEN 1 ELSE 0

(* When the threads are at rest at the end, every object is written. *)
AllWritten ==
  Quiet /\ fpc = "done" => \A o \in DOMAIN objs : \E i \in DOMAIN out : out[i] = o

(* Until shutdown a sample is credited to the object that was accessed,    *)
(* even when its block has been freed and handed out again since.          *)
Attributed == \A c \in counted : c.of = c.obj \/ c.late

(* profile_fini returns: neither its join nor its mutexes block for good.  *)
(* Its comment says "We're going away anyways." (profile.c:951)            *)
FiniEnds == fpc = "signal" ~> fpc = "done"
=============================================================================
