# A TLA+ verification of objmap-testing

This directory holds TLA+ models of the programs of this repository, the TLC
configurations that check them and TLAPS proofs about them.

## The system

The repository holds tools around a patched kernel that exposes, for each
process, a directory `/proc/<pid>/object_map` with one entry per memory object.

| component | state | operations | interacts with |
|---|---|---|---|
| process table (`mat-daemon/src/process.c`) | hash table pid -> `md_proc`, rwlock, `alive` marks, array of dead pids | one endless discovery thread (mark, scan `/proc`, add, collect, sweep), `acquire_proccess`, `release_proccess` | kernel (`/proc`), hash table, array; the profiler looks processes up |
| profiler (`mat-daemon/src/profile.c`) | one perf ring per cpu (shared with the kernel), the profile of the period | `init_profiling`, one pass over each ring per period, per-pid counting | kernel (rings), process table, array |
| start-up (`mat_daemon.c`) | none of its own | `init_config`, `init_process_table`, start the threads | all of the above; a failure returns from `main` and ends the threads |
| configuration (`config.c`, `simple_config.h`) | entries with kinds, defaults, validators, the error record | register, parse a line, apply defaults | start-up |
| hash table (`hash_table.h`) | buckets of chained slots, size index, threshold, length | make, free, insert (with rehash), delete, lookups, traverse | process table, accesses tool, object profiler |
| array (`array.c`) | data, capacity, length | push, pop, insert, delete, grow, clear | daemon, object profiler |
| red-black tree (`tree.h`) | nodes, colours, length | insert, delete, lookup, iterate, range lookups | both example tools |
| accesses tool (`examples/accesses/src/accesses.c`) | counters by key, tree of address ranges, rings | rescan objects, attribute samples, report, periodic reset | object map, rings, tree, hash table |
| live_largest_sites tool | tree of sites | rescan, print, reset while traversing | object map, tree |
| object profiler (`examples/accesses/profile.c`) | per-thread block tables with a lock each, object buffer with its lock, stop flag, rings | add, delete, set site, profile thread, fini | allocator threads, rings |
| benchmark runner, build wrappers (`env/scripts`) | processes, side files `.bc`/`.args`, a lock file | run with a tool and clean up; compile, archive, link and transform | each other through files, signals |

What is hard in it:

* **concurrency**: discovery and lookups share a table; kernel and profiler
  share rings without a lock; allocator threads and the object profiler take
  several mutexes in different orders;
* **staleness**: `/proc` is read one entry at a time while processes come and
  go; dead entries are collected under one lock and deleted under another;
* **edges**: free-running offsets reduced modulo a ring, a growth test that is
  an equality, zero periods and capacities;
* **partial failure**: a failed `opendir`, a failed event set-up, a failed
  record read in the middle of a scan.

What makes each part correct: lookups return entries that stay valid until they
are released, and each round leaves exactly what it saw (process table); every
record is read whole and counted once, and a full ring drains (profiler); it
behaves as a map and slots do not move (hash table); it behaves as an ordered
set, also while iterated (tree); no lock stays held, no object is lost and a
sample goes to the object that was accessed (object profiler).

## Modules

| module | models |
|---|---|
| `ProcessTable` | `process.c`, `process.h` |
| `ProcessRegistry` | what the process table promises its clients; abstract |
| `Profiler` | `profile.c`: the kernel's ring, the reading loop, the counting |
| `ProfilerProofs` | theorems about `Profiler` |
| `MatDaemon` | `mat_daemon.c`, and both threads composed: extends `ProcessTable` |
| `MatDaemonProofs` | theorems about `ProcessTable`, and on those about `MatDaemon` |
| `HashTable` | `hash_table.h` |
| `Dictionary` | what the hash table promises; abstract |
| `Array` | `array.c` |
| `ElementList` | what the array promises; abstract |
| `TableSweep` | hash table and array composed as in the sweep of `process.c` |
| `TableSweepProofs` | theorems about `HashTable`, `Array` and, on those, `TableSweep` |
| `ShSplit` | `sh_split` of `simple_config.h`, as operators |
| `SimpleConfig` | `simple_config.h`, on `ShSplit`; `config.c` is a client of it |
| `SimpleConfigProofs` | theorems about `ShSplit` and `SimpleConfig` |
| `ObjectProfiler` | `examples/accesses/profile.c` |
| `ObjectProfilerProofs` | theorems about `ObjectProfiler` |
| `RBTree` | `tree.h`, as operators |
| `TreeUse` | a program that uses one tree |
| `OrderedMap` | what the tree promises; abstract |
| `LiveSites` | `live_largest_sites.c`, on `RBTree` |
| `RBTreeProofs` | lemmas about the steps on nodes; what `_insert` does |
| `TreeProofs` | what `_delete`, lookups and iterators do; theorems about `TreeUse` and `LiveSites` |
| `Accesses` | `accesses.c`, on the ordered map that `TreeUse` shows the tree to be |
| `AccessesProofs` | theorems about `Accesses` |
| `MC...` | values for TLC |

An operator whose comment starts with "mutant of" is not part of a model: it is
a faulty variant of the definition after it. Replacing that definition by the
variant must break a property; this shows that the property depends on the code.

### ProcessTable

One action is one lock acquisition, one critical section (which ends with its
unlock) or one kernel call of `process_discovery_thread`, `acquire_proccess` or
`release_proccess`; `dpc` and `rpc` are their program counters. `table` and
`alive` are the keys of `process_table` and the entries with `alive = 1`, `dead`
the array of that name, `readers` and `writers` the lock.

The kernel is external. A process is `"gone"`, `"bare"` (no object, or only the
`controller` entry) or has `"objects"`. `todo` is the open `/proc` stream: it
must return what exists from `opendir` to its end (`must`), may return what came
or went meanwhile, and may return an entry of a process that has just gone.
`Faults` says which `opendir` may fail. `seen` and `low` are history variables:
what the round found an object in, and the least state of a process since
`opendir("/proc")`. The length of the sleep, messages and `objmap_path` (which
no code reads) are left out.

`Registry` maps the table to `ProcessRegistry`, where a round is `NewRound`, one
`Observe` per process found and one atomic `Retire` that may not drop a process
some client holds. The sweep, or the collection when it finds nothing dead, is
the `Retire`.

### Profiler

The unit is the 8-byte word. `head` and `tail` run freely, as in the perf
metadata page; `mem` is the data area, where a word is named by the record and
the offset it belongs to, so that a torn or overwritten record can be told from
a whole one. The kernel writes a record only where the tail leaves space, and
never fills the last word. The reader is `do_profiling_for_cpu`, one action per
access to shared state: the snapshot of head and tail, each record, each lookup
in the process table, the count, the store of the tail. Lookup and count are two
steps, as the process is released before its sample is counted. Reading a word
that starts no record stands for reading a garbage header; the model then stops,
and `WholeRecord` says it never happens. Records of two sizes stand for samples
(24 bytes) and for the mmap, fork and exit records the event also asks for.
`known` is the content of the process table and changes at any time. `exam`,
`tally` and `old` are history variables.

### MatDaemon

`mpc` is the control of `main`: configuration, table, discovery thread, rings,
profiling thread, and the endless wait. Every call may fail where the code tests
for it, and then `main` returns and both threads stop where they are (`Up`).
`ProcessTable`'s steps are the discovery thread's, and the profiling thread is
its one reader, `Profiling`. What is left of a ring is what `Profiler` shows of
one: a sequence of samples, of which a pass reads all that it found or none.
`init_profiling` ignores what `profile_get_event` returns: an unknown event is
reported with "Aborting.", then opened as a counter that takes no samples, and
the daemon comes up and counts nothing. With a known event and no period it
divides by zero (`profile.c:67`). `ignored` and `tabled` are history variables.
The number of cpus is whatever the loop that opens them reaches, 0 included. The
period's length, what the messages say and what libpfm encodes are left out.

### HashTable

A chain is a sequence of slots, a slot a key, a value and its address. Since
callers hold a lock, an operation is one step. The addresses are there because
callers keep pointers into the table (`acquire_proccess`; `look` in the accesses
tool): the abstract `Dictionary` says that an entry keeps its address while it
exists. `Primes` stands for `ht_prime_sizes` from the start size on.

### Array and TableSweep

The block of an array is modelled cell by cell; a cell in which nothing was
stored holds `Junk`, so that an element read from beyond what was stored, or
lost in a move, is seen. `held` counts the blocks that were allocated and not
freed. The abstract `ElementList` has neither block nor capacity. The index is
one more than in C. `CapAssumption` excludes a capacity of 0, with which the
first growth allocates no cell at all and the first push writes past it
(`array.c:42-43`), and `array_pop` is called only on an array with an element,
since it would leave `used` at -1: the daemon does neither. `should_free` is 1
throughout.

`TableSweep` runs `process.c:113-127` on both: the traversal pushes the keys of
the entries whose `alive` is 0, and then each is deleted. `ProcessTable` takes
this for two steps on sets, which `SweepExact` justifies. Between sweeps the
table and the array are worked on one at a time, each while the other is as
made.

### ShSplit and SimpleConfig

A line is a sequence of characters, since the cutting of words by quotes,
backslashes and comments is what could be wrong. Each line of a run comes with
what its author means by it (`Meaning`): an option and a value, a comment, a
mistake. `Outcome` compares this with what is stored, so it checks `sh_split`
too. A value is stored before it is validated; a number that is blank is taken
for read and counts as set but stores nothing (`Keep`: `sscanf` returns `EOF`,
not 0); the error of a parse stays, so that a later parse stores its first line
and stops. A line longer than the buffer is taken for two; what that leads to is
modelled, but `Outcome` and `Verdict` speak only of files in which it did not
happen (`cut`). A string default is a copy with a number: the first parse that
needs it hands it to the client, the next one hands out NULL, and a second
registration of a default leaks the first. Left out: `words[64]`, which a line
of more words overruns; the other spellings of a bool; signs and ranges of
numbers; the texts of messages.

### ObjectProfiler

The threads `1..NThread` of the allocator, the profiling thread and the thread
that runs `profile_fini` share one mutex per allocator thread (`mtx`), the mutex
of the object buffer (`bufmtx`) and the stop mutex, which is held from the start
until `stop_profile_thread` gives it up. `objs` are all entries ever made, named
by their number; a block is handed out after `profile_add_block` and free for
reuse after `profile_delete_block`, which any thread may run; a thread works on
one block at a time. hmalloc and the sampling hardware are external. A sample
carries, as a history, the object really accessed (`of`), which the code has to
infer from address and time. The read and the write ring, and their two copies
of the loop, are one ring; that a pass may read nothing is what `Profiler` shows
of the same loop. `profile_set_site` reads the slot it looked up after it gave
the mutex back (`LookSite`, `SetSite`); slots keep their address when the table
grows (`HashTable`), and the name is only printed. Left out: the phase counters,
the buckets an age falls into, free stamps, and everything `profile_init` does
before it starts the thread.

### RBTree and TreeUse

The three copies of `tree.h` are identical. An operation runs without
interruption, so it is an operator from a tree to a tree; the nodes, colours,
parent links, the cached first node and the false root of `_insert` and
`_delete` are all there, since what could be wrong is exactly their agreement
after rotations on the way down. `_delete` exchanges keys and frees another node
than the one found; `Removed` is the state just before that free, which
`LiveSites` needs. A node is named by its key where that name is free; names
mean nothing, and `TreeUse` renames after each operation. Values are only
copied, so one entry with a value of its own shows where they go.

The two loops that go down the tree are sequences of turns (`InsertTurn`,
`DeleteTurn`) of `MaxTurns` members that stop changing when the loop is over.
The bound is no assumption: that the loops end before it is part of what is
proved. Keys are the numbers up to `NKey`; the code only compares them.

### LiveSites

One action is one turn of the scan (`readdir` and the two reads of a record), or
one half of a turn of the printing loop: `PrintSite` deletes the node under the
iterator and `NextSite` steps from it, after it was freed. `ghost` is that node
as glibc's `free` leaves it, with the first two words overwritten: `_red` and
`_children[0]`, which `_it_next` does not read in that node. With another
allocator the step would be undefined. `fd` is never assigned before
`close(fd)`; it may be any descriptor, and `"dir"` when it is that of the
directory. Sites are the tree's keys; the object map is the environment. Left
out: errors other than an object's or a process's end, the width of the printed
number (`%d` for a u64), and the formats.

### Accesses

The scan is `get_objects`, one action per object; `seen` is a history of what it
read. `counters` is the hash table as a sequence of slots, which stay in place
(`HashTable`); `addr_tree` maps a start address to the end of the range and its
slot. The tool uses the tree by its operations only, so the tree is taken for
the ordered map that `Implements` and `LookupsRight` of `TreeUse` show it to be:
`Insert` is `tree_insert`, `Nearest` is `tree_gtr` and a step back. `heap` holds
the allocated cooperative buffers: the table has no equality, so keys are
compared as bytes and a buffer is its own address. Two objects of one site
therefore have two counters. When a buffer cannot be read the code frees it and
goes on with the key of the object before, finds that and frees the buffer
again: glibc aborts (`"aborted"`); before the first key is set the behaviour is
undefined (`"undefined"`). `ring` and `batch` hold the sampled addresses of one
cpu; that a pass may read none of them is what `Profiler` shows of the same
loop. Samples of other processes are skipped and left out.

## Runs

| run | what it asks | bounds | result |
|---|---|---|---|
| `process_table` | lock discipline, held entries stay, rounds exact, inductive invariant, exclusive updates, refinement | 2 processes, 1 reader, 4 kernel events, both `opendir` may fail | holds |
| `process_table_fair` | steady processes kept, dead ones evicted, live ones found | the same, 3 events, no failures, fair | holds |
| `mat_daemon` | what the profile names, rings get room again, who counts follows who has objects | 1 process, 3 kernel events, up to 2 cpus with rings of 1 sample, `opendir("/proc")` may fail | holds |
| `perf_ring` | whole records, all or nothing, counted once, profile exact, drained | 2 rings of 8 words, 2 processes, 4 records | holds |
| `wrapped_batch_dropped` | "Read all of the samples" | 1 ring, 4 records | violated |
| `hash_table` | placement, threshold, refinement of `Dictionary`; the array fits its block and refines `ElementList`; a sweep deletes exactly the dead | 5 keys, 2 values, sizes 3, 5, 7, 11; first capacities 1, 2, 3, up to 5 elements | holds |
| `simple_config` | what each option holds after a parse, what the parse reports, who owns the string defaults | 2 options, 3 kinds, 4 registering calls, 2 lines out of 29, 2 parses, buffer of 13 | holds |
| `object_profiler` | what a lookup found stays, objects conserved and written, attribution, `profile_fini` ends | 2 threads, 2 blocks, 2 objects, 1 sample, threads at rest at the end | holds |
| `fini_deadlock` | "We're going away anyways" | 2 threads, 1 object, no samples, threads still running at the end | violated |
| `tree` | red-black shape, traversals, range lookups, refinement of `OrderedMap` | 7 keys | holds |
| `live_sites` | each interval prints what was found, steady objects are counted | 3 sites, 5 objects, page counts 1 and 2 | holds |
| `accesses` | samples go to the right counter, buffers freed once | 5 ranges over 3 addresses, 2 samples an interval | holds |

Why the bounds are enough. Two processes let one change while the other is
probed, marked or swept; the daemon has one thread that calls
`acquire_proccess`; four events let a process appear, fill, empty and leave, or
two processes interfere, at any point of any of an unbounded number of rounds. A
ring of 8 words with records of 3 and 4 is filled by two records, and four
records take it through ends that fall before, on and inside a record; two rings
and two processes let a pass over one ring overlap what the kernel puts in the
other. In `mat_daemon` one process is enough because nothing relates two of them
but the lock, which the discovery thread takes anyway; rings of one sample are
full at once, and two let one fill while the other is read. The five keys
collide under some sizes and not under others, and fill the table past two
thresholds; five elements make an array of any of the three capacities grow at
least once, by doubling and to what was asked for. Two options let one be given,
required or refused while the other takes its default; four calls register both
with two qualities, or one again with its kind changed; two parses show what an
error, a set option or a handed-out default leaves to the next; the lines put a
quote, a backslash and a `#` inside and outside quotes of both sorts. Two
objects and two blocks let a block be freed and handed out again to either
thread between a sample and its lookup, and an object span two blocks; one
sample is enough because samples are handled one after the other and share only
the mutexes. Seven keys make every case of insertion and deletion fire, the
double rotations at both ends included, and trees of three black levels. The
objects of `live_sites` share a site, have one of their own, or none; those of
`accesses` share starts and overlap, with and without a buffer, and leave
addresses that only the end of a range excludes. `MaxEvents`, `MaxRecords`,
`MaxObj`, `MaxSample`, `MaxUsed`, `MaxCalls`, `MaxLines` and `MaxParses` cut
behaviours off; they bound what the environment does, never what the code does.

Fairness. The discovery thread and the reader get weak fairness: both are
threads of a running process and none of their steps waits except on the lock.
`RecordLock` and `SweepLock` get strong fairness: with one reader the write lock
is free again and again and glibc hands it to the waiting writer when the last
reader leaves. With several overlapping readers, a default rwlock prefers
readers and this would not be justified. In `Profiler` the thread gets weak
fairness, the kernel and the process table none.

In `MatDaemon` all three threads get weak fairness, and the two steps that take
the write lock and the one that takes the read lock strong fairness: there is
one reader and one writer, each waits only for the other, and the lock is free
again and again. The kernel owes no sample and no process. `RoomAgain` holds
while the process runs, also once discovery has given up; `SteadyKnown` and
`BareUncounted` except when discovery has ended, which the code does not notice.
TLC's deadlock check is off there, since the process may end.

In `ObjectProfiler` the profiling thread and, once started, `profile_fini` get
weak fairness, and so does each allocator thread inside the profiler's calls;
nothing makes a thread allocate or free, and nothing makes `profile_fini` start.
The two lookups get strong fairness: the allocator's threads may take and
release the same mutex over and over, and the waiting thread gets it in the end.
`Quiet` says that the other threads are at rest when `profile_fini` runs, as
when a program joins its threads before it exits. `exit` does not ask for that,
hence the run `fini_deadlock`, which drops it. TLC's deadlock check is off in
that run, since what it looks for is that the system stops.

`TableSweep`, `SimpleConfig`, `TreeUse`, `LiveSites` and `Accesses` state safety
only: table, array and configuration are called and return. The tools are single
threads whose loops end with their input, and nothing waits for another actor.

### What the violated properties show

* `ReadsAll`: the loop of `do_profiling_for_cpu` compares offsets that were
  reduced modulo the ring size (`profile.c:164-168`). When the unread range
  wraps, or ends at the ring's end, the pass reads none of its samples and still
  stores the head as the new tail (`profile.c:198`). `AllOrNothing` says that
  this is the only loss, and `WholeRecord` that the branch written for the
  wrap (`profile.c:190-191`) is never taken.
* `FiniEnds` without `Quiet`: `profile_fini` takes the buffer's mutex and then
  the threads' (`profile.c:931-932`), `profile_delete_block` the other way round
  (`profile.c:865-884`); a thread that is freeing a block as another one exits
  can stop both for good.

More that the models contain and no run turns into a violation. A running
process is collected when its object map is empty at the one instant it is
probed (`process.c:83-118`), though the comments call the collected processes
not alive. One failed `opendir("/proc")` ends the discovery thread after the
entries were marked (`process.c:71-75`); they stay and lookups keep returning
them (`Down` in `BareUncounted`). A parse that failed makes every later one
fail, and a file without mistakes leaves at most its first line stored
(`was.err` in `Verdict`). An option may hold a value that its validator refused
(`Outcome` does not ask whether the parse succeeded).
`examples/accesses/profile.c:360` stops ignoring samples older than the object
once `should_stop` is set, so that such a sample is credited to an object that
did not exist (`late` in `Attributed`). And a cooperative buffer of the accesses
tool that cannot be read ends the tool (`failed` in `BuffersFreedOnce`).

## Proofs

Eight modules hold proofs; nothing in them is assumed beyond what is named. The
assumptions on constants are those of the modules they are about, and the runs
evaluate them on their values.

What a model computes along a sequence or a chain (a rehash, the words of a
line, the sum of some pages) is a function defined by recursion on numbers. Such
a definition is a CHOOSE, so the proofs show first that a function with these
equations exists and that any two agree, and then what it computes. The
induction they use is not the library's, which takes an operator as a parameter,
but that a set of numbers has a least member (`LeastPlace`), which follows from
the well-foundedness of finite sets under inclusion.

Of the process table, `MatDaemonProofs` proves, for every set of processes and
readers, every `Faults` and every bound, from `ThreadAssumption` (the discovery
thread is not a reader) and `EventAssumption`: `TypeOK`, `LockInv`, `HeldEntryStays`,
`RoundExact`, `SteadyKept`, `ExclusiveUpdate`, and that the table implements
`ProcessRegistry` (`Refinement`).

All of them follow from `IInv`. `HeldEntryStays` is not inductive alone: that
`Sweep` removes nothing held needs `LockInv`, by which no reader is inside while
the writer is. `RoundExact` needs to know what the marks and the array mean in
the middle of a round: `AliveFound` (an entry is alive exactly when this round
found it, but for the one about to be recorded), `DeadArray` (between collection
and sweep the array holds exactly the unmarked entries; nobody can mark one in
between, as only this thread marks) and `Settled` (between rounds every entry is
alive). `SteadyKept` needs `SteadyRead`: a process with objects since `opendir`
is found already, is being probed, or is still owed by readdir. The refinement
uses the same facts: in `CollectDead` with nothing dead, and in `Sweep`, the
table becomes the marked entries and holders hold only those.

It carries these results to the daemon, from
`ProfilingAssumption` (the profiling thread is the one reader) and
`DaemonAssumption`. Every step of `MatDaemon` is a step of `ProcessTable` or
leaves the table alone (`DaemonKeepsTable`), whatever `main` does and wherever
it fails; so what holds of the table holds in the daemon, `HeldEntryStays` and
the refinement of `ProcessRegistry` among it. The lemma needed for that is that
a lookup is always of a process: the position read lies within the samples found
at the start of the pass (`RingInv`), for every number of cpus and every ring
size. `CountsKnown` proves `ProfileKnown`; by `KnownInv`, the process to be
counted was in the table in this period, though it need not be any more.

`ProfilerProofs` proves `TypeOK`, `WholeRecord`, `AllOrNothing`, `CountedOnce`
and `ProfileExact`, for every number of rings, every size of rings and records
and any number of records, from `SizeAssumption`. The runs see rings of a few
words; the argument is about the kernel's free-running count, in which record
`i` starts at `Start(c, i)` and no two records overlap. The tail, and the head
that a pass has read, are starts of records, and the head is less than one ring
ahead of the tail, so no two words between them share a place (`Ring`). `begin`
is the place of a record, what lies before that record was examined, and a range
that wraps is never entered, since the loop compares positions already taken
modulo the ring (`Pass`). What was counted lies before the tail, or was examined
in the pass that goes on; so what the loop comes to next was not counted before
(`Counts`). Without the bound on the head none of this is inductive: a record
written meanwhile could lie over one not yet read. The facts about positions
modulo the ring are lemmas.

`TableSweepProofs` proves `BelowThreshold`, `Placed` and that the hash table
implements `Dictionary`, for every set of keys, values and addresses, every hash
function and every list of growing sizes of which the largest has room for the
keys, from `SizesAssumption`, `RoomAssumption` and `NullAssumption`. The
invariant: each slot sits in the bucket that its hash selects under the size in
force, no key and no address occurs twice, `len` is the number of slots, and it
is below the threshold. The last two need each other: `len` grows by one at a
time, so it meets the threshold, which is tested by equality, before it could
pass it, and the rehash that follows raises the threshold. That a rehash loses
and doubles nothing is shown along the order in which it moves the slots.

It carries this to the sweep of `process.c`, from
`SweepAssumption`: the sweep uses the table by its operations only
(`SweepTable`), and the invariant says which entries met so far are in the array
and which of those in the array are still in the table. `SweepExact` follows for
every table. Of the array, from `CapAssumption`, `Fits` and the refinement of
`ElementList` are proved, for every capacity and every number of elements; the
cells, the capacity and `used` say together which list is stored, and a growth
copies exactly that list.

`SimpleConfigProofs` proves `Ownership`, `Outcome` and `Verdict` for every set
of options, lines and rejected values and every bound, from `KindAssumption`,
`OrderAssumption`, `LineAssumption` and `CharAssumption`. `Ownership` is
inductive once the types are part of it: a default is handed over only when no
variable of the client holds it, because the entry gives it up in the same step.
For `Outcome`, `ParseInv` says of a parse that goes on what the lines read so
far meant, and that the entries, the client's variables and the error say just
that. It needs to know of each line what `sh_split` makes of it. The run finds
that out for its lines; the theorem takes it from `LinesWritten`: each line that
fits in the buffer is blank or a comment, or a name alone, a name and a bare
value, a name and a value in quotes, or a name and too much, with any blanks
between and a comment after it. `WordsOfLines` proves that `sh_split` makes of
such a line exactly the words meant, whatever its length. These are the lines a
user can write down and mean something by; all of `MCSimpleConfig` are of these
forms. A quoted value that ends in a backslash is not among them, as no line
says it.

`RBTreeProofs` and `TreeProofs` prove `Shape`, `Traversed`, `LookupsRight` and
the refinement of `OrderedMap` for every number of keys (`KeyAssumption` asks no
more of `NKey` than that it is a number), and `IntervalExact` and
`SteadyCounted` from `SiteAssumption` and `PageAssumption`.

A tree is a matter of whole paths: what a rotation near the root does to the
order of the keys or to the number of black nodes concerns every node below it.
The proofs avoid paths. Beside the tree `t` there are three functions on its
nodes: `lo[x]` and `hi[x]`, the open interval of the keys that belong below `x`,
and `bh[x]`, its black height. Then order and balance are equations between a
node and its children (`Linked`, `Balanced`, and `Shaped` for both), which a
rotation or a change of colours disturbs at two or three nodes, and the lemmas
say which functions serve afterwards. The functions are only said to exist; the
models do not have them. Two nodes whose intervals meet lie one below the other
(`Placed`), so no node has two parents and nothing is linked twice.

Each loop keeps such functions for the tree in the state it is in, with the
false root. On the way down of `_insert` the node just reached may be red under
a red parent, which the same turn mends. After a rotation the helpers `g` and
`h` no longer stand above each other; the invariant says what the next turns can
meet until they do again (`Chained`, `AfterSingle`, `AfterDouble`), and that
they do not rotate before. On the way down of `_delete` the node reached is red,
or has a red child on the side the loop goes to, or is the top (`Above`), so
that the node unlinked in the end has no child and can go. Both loops end since
the interval that the key belongs to gets smaller (`Toward`, `Slot`).
`InsertKeeps` and `DeleteKeeps` say that a whole tree (`Whole`: shape, first
node, length, parents) becomes a whole tree with exactly the entries there
should be, and that `_delete` frees one node.

`TreeInv` is then inductive at once, since each operation of `TreeUse` is one of
these, followed by the renaming (`Named`). The lookups and both directions of
the iterator are functions on the nodes: what each returns is shown along the
interval of a node downwards, and upwards along its parents, which are the
nodes whose interval is wider (`Extreme`, `Beyond`, `Follows`). `Traversed`
follows by counting: a walk that goes from each node to the next larger one, and
starts at the least, has as many members as there are nodes.

`SitesInv` says of an interval that the tree holds the sites found and not yet
printed, with their pages (`Holds`), that the lines are in order and before
everything in the tree (`LinesRight`), and where the iterator stands (`Phases`).
The printing loop reads a freed node, and is right only by what `tree_delete`
happens to do with it. `_delete` frees the node of the key's predecessor in the
tree, after the two have exchanged their entries, if it finds one on the way
down. The loop deletes the first entry each time, which has no predecessor. So
the node freed is the iterator's own, it has no children, and it remembers as
its parent the node that is first from now on (`FirstDeparts`, `Remembered`).
`tree_it_next` reads just the right child and the parent in it, and goes to the
next site (`HauntedNext`), whatever `free` wrote in the other fields. For
another node than the first this would not hold. `SteadyCounted` is the smaller
part, by `ScanInv`: what is there all along is counted or still in the directory
stream.

`ObjectProfilerProofs` proves `HandOff`, `Conserved`, `AllWritten` and
`Attributed`, for every number of threads, every finite set of blocks, every
bound, and with the other threads at rest at the end or not, from
`BoundAssumption`. `IInv` says where an object may be: in a thread's hands, and
then in its hands alone and at all its blocks; in the table of its own thread
under exactly its blocks, while it lives; or retired, and then in the buffer
exactly once (`Control`, `Places`, `Buffer`). A block that is handed out is
free, and an entry of a table is a living object's, hence two threads never work
on one object, and an object is pushed once. With `Mutexes`, a thread that
retires an object holds the mutex of the table it was in; the profiling thread
holds that mutex from its lookup to its credit, which gives `HandOff`. For
`Attributed`, `Sampled` says what can have happened to the block of a sample
since it was taken: its occupant is the object accessed, or was made later, and
then its time stamp is later too and the comparison rejects it.

Only model-checked:

* the liveness properties (`DeadEvicted`, `LiveFound`, `RoomAgain`,
  `SteadyKnown`, `BareUncounted`, `Drained`, `FiniEnds`): they rest on fairness,
  which is beyond this prover.

## Not modelled, and the plan

Not modelled:

* `bench_run.sh`: the life of benchmark and tool with signals and polling. The
  script is short; what it waits for are processes of other repositories, and
  their behaviour would have to be invented.
* the build wrappers: mostly the handling of arguments. Parallel links
  transform shared bitcode in place under a lock file; this would be worth a
  model of its own.
* in the object profiler, the phase counters, the buckets and the opening of
  the events; in the accesses tool, the set-up of the events and more cpus than
  one. Both open rings as `MatDaemon` does and read each as `Profiler` does.
* time and the width of numbers: sleeps are steps that end, and a period that is
  negative, a clock that steps back or a count that wraps are not there.
* failing allocations, which the code does not test for.

Every safety property and every refinement that a run checks is proved.
`AccessesProofs` takes the tree for an ordered map; that it is one is
`TreeImplements` and `LookupsAlways`, but the two are not composed in one module.

What is left of the plan, in this order: `Accesses` on `RBTree` itself; the link
lock of the build wrappers; the set-up of the events in the two tools.

The installation scripts are straight-line and stay out. The kernel's side
(`/proc`, rings, scheduling) is modelled only from how the code uses it.
