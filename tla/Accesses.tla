------------------------------ MODULE Accesses ------------------------------
(***************************************************************************)
(* examples/accesses: once per interval the tool reads the object map of a *)
(* process into a tree of address ranges and a table of counters, credits  *)
(* the sampled accesses, prints the counters and frees everything.         *)
(*                                                                         *)
(* A counter's key is compared byte by byte (the table is made without an  *)
(* equality), so that two cooperative buffers are different keys even when *)
(* their bytes are equal.  The tree is taken for the ordered map that      *)
(* TreeUse shows it to be: a function on the addresses where ranges start. *)
(***************************************************************************)
EXTENDS Integers, Sequences, FiniteSets

CONSTANTS
  Address,     \* the addresses of the process
  Object,      \* what an object map may list: records [start, end, coop]
  Pages,       \* resident page counts a record may show
  MaxSample    \* bound: samples taken in one interval

ASSUME ObjectAssumption ==
  /\ Address \subseteq Nat
  /\ \A o \in Object : /\ o.start \in Address /\ o.end \in Nat /\ o.end > o.start
                      /\ o.coop \in BOOLEAN
ASSUME PageAssumption == Pages \subseteq Nat

VARIABLES
  counters,   \* the slots of the table, which do not move: [key, rss, accesses]
  addr_tree,  \* by start address, object_t: [end, look], look a slot's number
  heap,       \* the cooperative buffers that are allocated
  key,        \* the local key of get_objects
  pc,
  present,    \* kernel: the objects of the process
  gone,       \* kernel: the process has ended
  todo,       \* entries readdir has still to return
  ring,       \* addresses sampled and not read
  batch,      \* samples of this pass not yet handled
  seen,       \* history: objects read in this interval, in order: [obj, pages]
  handled,    \* history: samples of this interval, [addr, slots, nth]
  failed      \* history: a cooperative buffer could not be read

kernel == <<present, gone>>
tables == <<counters, addr_tree, heap, key>>
hist   == <<seen, handled, failed>>
vars   == <<tables, pc, kernel, todo, ring, batch, hist>>

Overlap(o, x) == o.start < x.end /\ x.start < o.end

(***************************************************************************)
(* The process and the hardware.                                           *)
(***************************************************************************)
Create(o) ==
  /\ ~gone
  /\ \A x \in present : ~Overlap(o, x)
  /\ present' = present \cup {o}
  /\ todo' \in {todo} \cup IF pc = "scan" /\ \A i \in DOMAIN seen : seen[i].obj # o
                             THEN {todo \cup {o}} ELSE {}
  /\ UNCHANGED <<tables, pc, gone, ring, batch, hist>>

Destroy(o) ==
  /\ o \in present
  /\ present' = present \ {o}
  /\ UNCHANGED <<tables, pc, gone, todo, ring, batch, hist>>

Exit ==
  /\ ~gone
  /\ gone' = TRUE /\ present' = {}
  /\ UNCHANGED <<tables, pc, todo, ring, batch, hist>>

Access(a) ==
  /\ ~gone
  /\ Len(ring) + Len(batch) + Cardinality(handled) < MaxSample
  /\ ring' = Append(ring, a)
  /\ UNCHANGED <<tables, pc, kernel, todo, batch, hist>>

(***************************************************************************)
(* get_objects                                                             *)
(***************************************************************************)
Goto(from, to) == pc = from /\ pc' = to
NoKey == [kind |-> "none", at |-> 0]

Open ==
  /\ Goto("open", "scan")
  /\ ~gone
  /\ todo' = present
  /\ key' = NoKey
  /\ UNCHANGED <<counters, addr_tree, heap, kernel, ring, batch, hist>>

OpenFails ==
  /\ Goto("open", "done")
  /\ gone
  /\ UNCHANGED <<tables, kernel, todo, ring, batch, hist>>

Scanning(o) == pc = "scan" /\ o \in todo /\ todo' = todo \ {o}

Vanished(o) ==
  /\ Scanning(o)
  /\ o \notin present
  /\ UNCHANGED <<tables, pc, kernel, ring, batch, hist>>

Slot(table, k) == {i \in DOMAIN table : table[i].key = k}

(* hash_table_get_val, and the insertion when it finds nothing *)
WithObject(k, n) ==
  IF Slot(counters, k) = {}
    THEN Append(counters, [key |-> k, rss |-> n, accesses |-> 0])
    ELSE [i \in DOMAIN counters |->
            IF counters[i].key = k THEN [counters[i] EXCEPT !.rss = @ + n] ELSE counters[i]]

(* tree_insert: a range read at a start takes the place of one before it *)
Insert(start, obj) ==
  [s \in DOMAIN addr_tree \cup {start} |-> IF s = start THEN obj ELSE addr_tree[s]]

Record(o, k, n) ==
  /\ key' = k
  /\ counters' = WithObject(k, n)
  /\ addr_tree' = Insert(o.start, [end |-> o.end, look |-> CHOOSE i \in Slot(counters', k) : TRUE])
  /\ seen' = Append(seen, [obj |-> o, pages |-> n])

(* malloc: any block that is free, the first will do *)
NewBlock == CHOOSE b \in 1..Cardinality(heap)+1 : b \notin heap

ReadObject(o, n) ==
  /\ Scanning(o)
  /\ o \in present
  /\ IF o.coop THEN /\ heap' = heap \cup {NewBlock}
                    /\ Record(o, [kind |-> "bytes", at |-> NewBlock], n)
               ELSE /\ heap' = heap
                    /\ Record(o, [kind |-> "addr", at |-> o.start], n)
  /\ UNCHANGED <<pc, kernel, ring, batch, handled, failed>>

(* The object goes before its cooperative buffer is read.  The buffer is   *)
(* freed and the loop goes on with the key of the object before: that is   *)
(* found, and the buffer freed again, on which glibc aborts.  The first    *)
(* key of a scan is not initialised, and anything may follow.              *)
ReadFails(o) ==
  /\ Scanning(o)
  /\ o \in present /\ o.coop
  /\ present' = present \ {o}
  /\ pc' = IF key = NoKey THEN "undefined" ELSE "aborted"
  /\ failed' = TRUE
  /\ UNCHANGED <<tables, gone, ring, batch, seen, handled>>

(***************************************************************************)
(* get_accesses.  A pass takes what the ring holds, or nothing when the    *)
(* range wraps: the loop is that of Profiler.                              *)
(***************************************************************************)
BeginPass ==
  /\ Goto("scan", "samples")
  /\ todo = {}
  /\ batch' \in {ring, <<>>}
  /\ ring' = <<>>
  /\ UNCHANGED <<tables, kernel, todo, hist>>

(* tree_gtr, then tree_it_prev: the greatest start that is not past a *)
Greatest(S) == {s \in S : \A x \in S : x <= s}

(* mutant of Nearest: the object that starts at the address is missed *)
NearestBelow(a) == Greatest({s \in DOMAIN addr_tree : s < a})

Nearest(a) == Greatest({s \in DOMAIN addr_tree : s <= a})

(* the slots, one or none, of the object that holds the address *)
Holders(a) == {addr_tree[s].look : s \in {x \in Nearest(a) : a < addr_tree[x].end}}

CountSample ==
  /\ pc = "samples" /\ batch # <<>>
  /\ LET slots == Holders(batch[1])
     IN  /\ counters' = [i \in DOMAIN counters |->
                           IF i \in slots THEN [counters[i] EXCEPT !.accesses = @ + 1] ELSE counters[i]]
         /\ handled' = handled \cup {[addr |-> batch[1], slots |-> slots, nth |-> Len(batch)]}
  /\ batch' = Tail(batch)
  /\ UNCHANGED <<addr_tree, heap, key, pc, kernel, todo, ring, seen, failed>>

Report ==
  /\ Goto("samples", "report")
  /\ batch = <<>>
  /\ UNCHANGED <<tables, kernel, todo, ring, batch, hist>>

(* mutant of Reset: the keys' buffers are left *)
ResetLeaks ==
  /\ Goto("report", "open")
  /\ addr_tree' = <<>> /\ counters' = <<>>
  /\ seen' = <<>> /\ handled' = {}
  /\ UNCHANGED <<heap, key, kernel, todo, ring, batch, failed>>

(* The interval stores are reset.  A buffer that is not allocated any more *)
(* would abort the tool.                                                   *)
Reset ==
  LET freed == [i \in {j \in DOMAIN counters : counters[j].key.kind = "bytes"} |-> counters[i].key.at]
      sound == /\ \A i \in DOMAIN freed : freed[i] \in heap
               /\ \A i, j \in DOMAIN freed : freed[i] = freed[j] => i = j
  IN  /\ pc = "report" /\ pc' = IF sound THEN "open" ELSE "aborted"
      /\ heap' = heap \ {freed[i] : i \in DOMAIN freed}
      /\ addr_tree' = <<>> /\ counters' = <<>>
      /\ seen' = <<>> /\ handled' = {}
      /\ UNCHANGED <<key, kernel, todo, ring, batch, failed>>

Stopped == pc \in {"done", "undefined", "aborted"} /\ UNCHANGED vars

DoLoop ==
  \/ Open \/ OpenFails
  \/ \E o \in Object : Vanished(o) \/ ReadFails(o) \/ \E n \in Pages : ReadObject(o, n)
  \/ BeginPass \/ CountSample \/ Report \/ Reset
-----------------------------------------------------------------------------
Init ==
  /\ counters = <<>> /\ addr_tree = <<>> /\ heap = {} /\ key = NoKey
  /\ pc = "open"
  /\ present = {} /\ gone = FALSE
  /\ todo = {} /\ ring = <<>> /\ batch = <<>>
  /\ seen = <<>> /\ handled = {} /\ failed = FALSE

Next == \/ \E o \in Object : Create(o) \/ Destroy(o)
        \/ Exit \/ (\E a \in Address : Access(a))
        \/ DoLoop \/ Stopped

Spec == Init /\ [][Next]_vars
-----------------------------------------------------------------------------
(* Of the ranges read in this interval, the last one read at the greatest  *)
(* start up to a; they may overlap, as the process goes on during a scan.  *)
Latest(a) ==
  {i \in DOMAIN seen :
     LET s(j) == seen[j].obj.start
     IN  /\ s(i) <= a
         /\ \A j \in DOMAIN seen : s(j) <= a => s(j) < s(i) \/ (s(j) = s(i) /\ j <= i)}

PagesAt(start) ==
  LET here(i) == ~seen[i].obj.coop /\ seen[i].obj.start = start
      sum[i \in 0..Len(seen)] ==
        IF i = 0 THEN 0 ELSE sum[i-1] + (IF here(i) THEN seen[i].pages ELSE 0)
  IN  sum[Len(seen)]

(* get_objects and get_accesses_for_cpu: a sample is credited to the       *)
(* counter of the nearest range at or below its address, as it was last    *)
(* read, when that reaches over the address, and to no counter otherwise.  *)
(* That counter holds the pages of this range alone when it has a buffer,  *)
(* and of all that were read with its start when it has none.              *)
Attributed ==
  \A c \in handled :
    LET over == {i \in Latest(c.addr) : c.addr < seen[i].obj.end}
    IN  /\ Cardinality(c.slots) = Cardinality(over)
        /\ \A i \in over, slot \in c.slots :
             LET o == seen[i].obj
                 k == counters[slot]
             IN  /\ k.key.kind = IF o.coop THEN "bytes" ELSE "addr"
                 /\ k.rss = IF o.coop THEN seen[i].pages ELSE PagesAt(o.start)
                 /\ k.accesses = Cardinality({e \in handled : slot \in e.slots})

(* get_objects and the end of do_loop: each cooperative buffer is freed    *)
(* with its interval, once.  None is left when the next scan opens, and as *)
(* long as every buffer can be read the tool neither frees one twice nor   *)
(* uses a key that is not set.                                             *)
BuffersFreedOnce ==
  /\ pc = "open" => heap = {}
  /\ pc \in {"aborted", "undefined"} => failed
=============================================================================
