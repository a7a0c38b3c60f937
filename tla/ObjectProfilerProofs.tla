------------------------ MODULE ObjectProfilerProofs ------------------------
(***************************************************************************)
(* The object profiler for any number of threads, blocks, objects and      *)
(* samples: objects are neither lost nor duplicated, the lookup keeps the  *)
(* object it found alive, and samples go to the object accessed.           *)
(***************************************************************************)
EXTENDS ObjectProfiler, FiniteSetTheorems, TLAPS

Works(t) == apc[t] # "idle"
Moves(t) == apc[t] \in {"add", "push"}

(* The control of the two other threads: the profiling thread is done once *)
(* profile_fini has joined it, and it has a sample while it looks it up.   *)
Control ==
  /\ fpc \in {"lock", "gather", "done"} => ppc = "done"
  /\ ppc \in {"search", "found"} => todo # <<>>
  /\ ppc = "found" => it \in Thread

(* A thread works on an object of its own, which occupies all its blocks. *)
Working ==
  \A t \in Thread : Works(t) =>
    /\ aobj[t] \in DOMAIN objs
    /\ \A b \in Span(aobj[t]) : live[b] = aobj[t]
    /\ apc[t] = "add" => objs[aobj[t]].tid = t
    /\ \A v \in Thread \ {t} : Works(v) => aobj[v] # aobj[t]

(* An object that occupies a block occupies all of its blocks. *)
Living ==
  \A b \in Block : live[b] # None => \A c \in Span(live[b]) : live[c] = live[b]

(* An object in a table is there under all of its blocks, which it         *)
(* occupies, and nobody is about to put it in or has just taken it out.    *)
Entered(u, o) ==
  /\ objs[o].tid = u /\ u \in inited
  /\ \A c \in Span(o) : blocks[u][c] = o
  /\ \A t \in Thread : Moves(t) => aobj[t] # o

Tables ==
  \A u \in Thread, b \in Block : blocks[u][b] # None =>
    /\ b \in Span(blocks[u][b])
    /\ live[b] = blocks[u][b]
    /\ Entered(u, blocks[u][b])

(* Who holds the mutex of which thread. *)
Mutexes ==
  /\ \A t \in Thread : apc[t] = "push" => mtx[objs[aobj[t]].tid] = t
  /\ ppc = "found" => mtx[it] = Prof /\ Target # None

(* What is in the buffer is nowhere else, and is there once. *)
Retired(o) ==
  /\ \A t \in Thread : Works(t) => aobj[t] # o
  /\ \A b \in Block : live[b] # o

Buffer ==
  fpc \notin {"gather", "done"} =>
    /\ \A i \in DOMAIN obj_buff : Retired(obj_buff[i])
    /\ \A i, j \in DOMAIN obj_buff : obj_buff[i] = obj_buff[j] => i = j

(* An object that occupies blocks is in its thread's table unless somebody *)
(* moves it; one that does not is in the buffer.                           *)
Tabled(o)   == \A b \in Span(o) : blocks[objs[o].tid][b] = o
Buffered(o) == \E i \in DOMAIN obj_buff : obj_buff[i] = o
Occupies(o) == \E b \in Block : live[b] = o
Moved(o)    == \E t \in Thread : Moves(t) /\ aobj[t] = o

Kept == \A o \in DOMAIN objs : Occupies(o) => Moved(o) \/ Tabled(o)

Present ==
  fpc \notin {"gather", "done"} => \A o \in DOMAIN objs : Occupies(o) \/ Buffered(o)

(* While profile_fini gathers from resting threads, the objects not in the *)
(* buffer are in the tables it has still to visit.                         *)
Ending ==
  Quiet =>
    /\ fpc # "idle" => \A t \in Thread : ~Works(t)
    /\ fpc = "gather" =>
         \A o \in DOMAIN objs : Buffered(o) \/ (fit <= objs[o].tid /\ Tabled(o))

(* The object that occupies a sampled block is the one accessed, or newer. *)
Traced(s) ==
  /\ s.time <= clock
  /\ \/ live[s.block] \in {None, s.of}
     \/ s.time < objs[live[s.block]].m_ns

Sampled ==
  /\ \A i \in DOMAIN ring : Traced(ring[i])
  /\ \A i \in DOMAIN todo : Traced(todo[i])

Places == Working /\ Living /\ Tables /\ Kept
IInv   == /\ TypeOK /\ Control /\ Places /\ Mutexes /\ Buffer /\ Present
          /\ Ending /\ AllWritten /\ Sampled /\ Attributed
-----------------------------------------------------------------------------
(* What each part of the invariant depends on. *)
LEMMA PlacesFrame ==
  ASSUME Places, UNCHANGED <<objs, live, inited, blocks, apc, aobj>>
  PROVE  Places'
  <1>1. Working' BY DEF Places, Working, Works, Span
  <1>2. Living' BY DEF Places, Living, Span
  <1>3. Tables' BY DEF Places, Tables, Entered, Moves, Span
  <1>4. Kept' BY DEF Places, Kept, Occupies, Moved, Moves, Tabled, Span
  <1>. QED BY <1>1, <1>2, <1>3, <1>4 DEF Places

LEMMA BufferFrame ==
  ASSUME Buffer, Present, UNCHANGED <<objs, live, blocks, apc, aobj, obj_buff>>,
         fpc' \notin {"gather", "done"} => fpc \notin {"gather", "done"}
  PROVE  Buffer' /\ Present'
  <1>1. Buffer' BY DEF Buffer, Retired, Works
  <1>2. Present' BY DEF Present, Occupies, Buffered
  <1>. QED BY <1>1, <1>2

LEMMA EndingFrame ==
  ASSUME Ending, AllWritten,
         UNCHANGED <<objs, blocks, apc, obj_buff, out, fpc, fit>>
  PROVE  Ending' /\ AllWritten'
  BY DEF Ending, AllWritten, Works, Buffered, Tabled, Span

LEMMA SampledFrame ==
  ASSUME Sampled, UNCHANGED <<objs, live, clock, ring, todo>>
  PROVE  Sampled'
  BY DEF Sampled, Traced

(* An object spans some blocks. *)
LEMMA SpanBlocks ==
  ASSUME TypeOK, NEW o \in DOMAIN objs
  PROVE  /\ Span(o) \in SUBSET Block /\ Span(o) # {}
         /\ objs[o].tid \in Thread /\ objs[o].m_ns \in Nat
  <1>1. objs[o] \in Object BY DEF TypeOK
  <1>. QED BY <1>1 DEF Object, Span, Spans

LEMMA TableType ==
  ASSUME TypeOK, NEW u \in Thread, NEW b \in Block
  PROVE  blocks[u][b] \in {None} \cup DOMAIN objs
  <1>1. blocks \in [Thread -> [Block -> {None} \cup DOMAIN objs]] BY DEF TypeOK
  <1>. QED BY <1>1

LEMMA InitIInv == ASSUME BoundAssumption, Init PROVE IInv
  <1>. USE DEF Init, None, Nobody
  <1>1. TypeOK
    <2>1. ring \in Seq(SampleOf) /\ todo \in Seq(SampleOf) /\ objs \in Seq(Object)
          /\ obj_buff \in Seq(DOMAIN objs) /\ out \in Seq(DOMAIN objs)
      OBVIOUS
    <2>2. 1 \in 1..NThread+1 BY BoundAssumption
    <2>. QED BY <2>1, <2>2 DEF TypeOK
  <1>2. Control BY DEF Control
  <1>3. Places BY DEF Places, Working, Living, Tables, Kept, Works
  <1>4. Mutexes BY DEF Mutexes
  <1>5. Buffer /\ Present BY DEF Buffer, Present
  <1>6. Ending /\ AllWritten BY DEF Ending, AllWritten
  <1>7. Sampled /\ Attributed BY DEF Sampled, Attributed
  <1>. QED BY <1>1, <1>2, <1>3, <1>4, <1>5, <1>6, <1>7 DEF IInv
-----------------------------------------------------------------------------
(* The threads of the allocator. *)
LEMMA AddBlockKeeps ==
  ASSUME BoundAssumption, IInv, NEW t \in Thread, NEW B \in Spans, AddBlock(t, B)
  PROVE  IInv'
  <1>. USE DEF None
  <1>. DEFINE o == Len(objs) + 1
              e == [tid |-> t, span |-> B, m_ns |-> clock + 1]
  <1>1. /\ objs \in Seq(Object) /\ o \in Nat \ {0} /\ o \notin DOMAIN objs
        /\ e \in Object /\ clock \in Nat
    <2>1. objs \in Seq(Object) /\ clock \in Nat BY DEF IInv, TypeOK
    <2>2. e \in Object BY <2>1 DEF Object
    <2>. QED BY <2>1, <2>2
  <1>2. /\ objs' = Append(objs, e) /\ Len(objs') = o
        /\ DOMAIN objs' = DOMAIN objs \cup {o} /\ objs'[o] = e
        /\ \A p \in DOMAIN objs : objs'[p] = objs[p]
        /\ objs' \in Seq(Object)
    BY <1>1 DEF AddBlock
  <1>3. /\ live' = [b \in Block |-> IF b \in B THEN o ELSE live[b]]
        /\ apc' = [apc EXCEPT ![t] = "add"] /\ aobj' = [aobj EXCEPT ![t] = o]
        /\ clock' = clock + 1
        /\ apc[t] = "idle" /\ B \in SUBSET Block /\ \A b \in B : live[b] = None
        /\ UNCHANGED <<mtx, inited, blocks, obj_buff, out, bufmtx, ring, todo, ppc, it,
                       final, counted, should_stop, stopmtx, fpc, fit>>
    BY <1>2 DEF AddBlock, Spans, tabs, bufs, prof, stop, fini
  <1>4. /\ \A p \in DOMAIN objs : Span(p)' = Span(p) /\ p # o
        /\ objs'[o].span = B
    BY <1>1, <1>2 DEF Span
  <1>5. \A v \in Thread : v # t => apc'[v] = apc[v] /\ aobj'[v] = aobj[v]
    BY <1>3 DEF IInv, TypeOK
  <1>6. apc'[t] = "add" /\ aobj'[t] = o
    BY <1>3 DEF IInv, TypeOK
  <1>7. TypeOK'
    <2>1. obj_buff \in Seq(DOMAIN objs') /\ out \in Seq(DOMAIN objs')
      BY <1>2 DEF IInv, TypeOK
    <2>2. live' \in [Block -> {None} \cup DOMAIN objs']
      BY <1>2, <1>3 DEF IInv, TypeOK
    <2>3. blocks \in [Thread -> [Block -> {None} \cup DOMAIN objs']]
      BY <1>2 DEF IInv, TypeOK
    <2>4. aobj' \in [Thread -> {None} \cup DOMAIN objs']
      BY <1>2, <1>3 DEF IInv, TypeOK
    <2>5. apc' \in [Thread -> {"idle", "add", "delete", "push", "site"}]
      BY <1>3 DEF IInv, TypeOK
    <2>. QED BY <1>1, <1>2, <1>3, <2>1, <2>2, <2>3, <2>4, <2>5 DEF IInv, TypeOK
  <1>8. Control' BY <1>3 DEF IInv, Control
  <1>9. Working'
    <2>. SUFFICES ASSUME NEW v \in Thread, Works(v)'
                  PROVE  /\ aobj'[v] \in DOMAIN objs'
                         /\ \A b \in Span(aobj[v])' : live'[b] = aobj'[v]
                         /\ apc'[v] = "add" => objs'[aobj'[v]].tid = v
                         /\ \A w \in Thread \ {v} : Works(w)' => aobj'[w] # aobj'[v]
      BY DEF Working
    <2>1. CASE v = t
      BY <2>1, <1>1, <1>2, <1>3, <1>4, <1>5, <1>6 DEF IInv, Places, Working, Works, Span
    <2>2. CASE v # t
      <3>1. Works(v) /\ aobj'[v] = aobj[v] /\ aobj[v] \in DOMAIN objs
            /\ \A b \in Span(aobj[v]) : live[b] = aobj[v]
        BY <2>2, <1>5 DEF IInv, Places, Working, Works
      <3>2. Span(aobj[v])' = Span(aobj[v]) BY <3>1, <1>2 DEF Span
      <3>3. \A b \in Span(aobj[v]) : live'[b] = aobj'[v]
        <4>1. Span(aobj[v]) \in SUBSET Block BY <3>1, SpanBlocks DEF IInv
        <4>2. aobj[v] # None BY <3>1, <1>1
        <4>3. \A b \in Span(aobj[v]) : b \notin B BY <3>1, <4>2, <1>3
        <4>. QED BY <4>1, <4>3, <3>1, <1>3
      <3>4. \A w \in Thread \ {v} : Works(w)' => aobj'[w] # aobj'[v]
        BY <3>1, <2>2, <1>1, <1>5, <1>6 DEF IInv, Places, Working, Works
      <3>5. apc'[v] = "add" => objs'[aobj'[v]].tid = v
        BY <3>1, <2>2, <1>2, <1>5 DEF IInv, Places, Working
      <3>. QED BY <3>1, <3>2, <3>3, <3>4, <3>5, <1>2
    <2>. QED BY <2>1, <2>2
  <1>10. Living'
    <2>. SUFFICES ASSUME NEW b \in Block, live'[b] # None, NEW c \in Span(live[b])'
                  PROVE  live'[c] = live'[b]
      BY DEF Living
    <2>1. CASE b \in B BY <2>1, <1>3, <1>4 DEF Span
    <2>2. CASE b \notin B
      <3>1. live'[b] = live[b] /\ live[b] \in DOMAIN objs
        BY <2>2, <1>3 DEF IInv, TypeOK
      <3>2. c \in Span(live[b]) /\ c \in Block /\ live[c] = live[b]
        <4>1. Span(live[b])' = Span(live[b]) BY <3>1, <1>2 DEF Span
        <4>2. Span(live[b]) \in SUBSET Block BY <3>1, SpanBlocks DEF IInv
        <4>3. live[b] # None BY <3>1, <1>1
        <4>. QED BY <4>1, <4>2, <4>3 DEF IInv, Places, Living
      <3>. QED BY <3>1, <3>2, <1>3
    <2>. QED BY <2>1, <2>2
  <1>11. Tables'
    <2>. SUFFICES ASSUME NEW u \in Thread, NEW b \in Block, blocks[u][b] # None
                  PROVE  /\ b \in Span(blocks[u][b])'
                         /\ live'[b] = blocks[u][b]
                         /\ Entered(u, blocks[u][b])'
      BY <1>3 DEF Tables
    <2>1. blocks[u][b] \in DOMAIN objs BY TableType DEF IInv
    <2>2. b \in Span(blocks[u][b]) /\ live[b] = blocks[u][b] /\ Entered(u, blocks[u][b])
      BY DEF IInv, Places, Tables
    <2>3. Span(blocks[u][b])' = Span(blocks[u][b]) BY <2>1, <1>2, <1>3 DEF Span
    <2>4. live'[b] = blocks[u][b] BY <2>2, <1>3
    <2>5. \A v \in Thread : Moves(v)' => aobj'[v] # blocks[u][b]
      BY <2>1, <2>2, <1>1, <1>5, <1>6 DEF Entered, Moves
    <2>6. Entered(u, blocks[u][b])'
      BY <2>1, <2>2, <2>3, <2>5, <1>2, <1>3 DEF Entered
    <2>. QED BY <1>3, <2>2, <2>3, <2>4, <2>6
  <1>12. Mutexes'
    <2>1. \A v \in Thread : apc'[v] = "push" => mtx'[objs'[aobj'[v]].tid] = v
      BY <1>2, <1>3, <1>5, <1>6 DEF IInv, Mutexes, Places, Working, Works
    <2>2. ppc = "found" => mtx'[it] = Prof /\ Target' # None
      BY <1>3 DEF IInv, Mutexes, Target, Sample
    <2>. QED BY <2>1, <2>2, <1>3 DEF Mutexes
  <1>13. Buffer'
    <2>. SUFFICES ASSUME fpc \notin {"gather", "done"}, NEW i \in DOMAIN obj_buff
                  PROVE  Retired(obj_buff[i])'
      BY <1>3 DEF IInv, Buffer
    <2>1. obj_buff[i] \in DOMAIN objs /\ obj_buff[i] # o
      BY <1>1 DEF IInv, TypeOK
    <2>2. Retired(obj_buff[i]) BY DEF IInv, Buffer
    <2>3. \A v \in Thread : Works(v)' => aobj'[v] # obj_buff[i]
      BY <2>1, <2>2, <1>5, <1>6 DEF Retired, Works
    <2>4. \A b \in Block : live'[b] # obj_buff[i]
      BY <2>1, <2>2, <1>3 DEF Retired
    <2>. QED BY <1>3, <2>3, <2>4 DEF Retired
  <1>14. Kept'
    <2>. SUFFICES ASSUME NEW p \in DOMAIN objs', \E b \in Block : live'[b] = p
                  PROVE  Moved(p)' \/ Tabled(p)'
      BY DEF Kept, Occupies
    <2>1. CASE p = o BY <2>1, <1>6 DEF Moved, Moves
    <2>2. CASE p \in DOMAIN objs
      <3>1. Occupies(p) BY <2>2, <1>1, <1>3 DEF Occupies
      <3>2. Tabled(p) => Tabled(p)' BY <2>2, <1>2, <1>3 DEF Tabled, Span
      <3>3. \A v \in Thread : Moves(v) => v # t BY <1>3 DEF Moves
      <3>4. Moved(p) => Moved(p)' BY <3>3, <1>5 DEF Moved, Moves
      <3>. QED BY <2>2, <3>1, <3>2, <3>4 DEF IInv, Places, Kept
    <2>. QED BY <2>1, <2>2, <1>2
  <1>17. Present'
    <2>. SUFFICES ASSUME fpc \notin {"gather", "done"}, NEW p \in DOMAIN objs'
                  PROVE  (\E b \in Block : live'[b] = p) \/ Buffered(p)'
      BY <1>3 DEF Present, Occupies
    <2>1. CASE p = o
      <3>1. B # {} BY DEF Spans
      <3>. QED BY <3>1, <2>1, <1>3
    <2>2. CASE p \in DOMAIN objs
      <3>1. p # None BY <2>2, <1>1
      <3>2. Occupies(p) => \E b \in Block : live'[b] = p BY <3>1, <1>3 DEF Occupies
      <3>. QED BY <2>2, <3>2, <1>3 DEF IInv, Present, Buffered
    <2>. QED BY <2>1, <2>2, <1>2
  <1>15. Ending' /\ AllWritten'
    BY <1>3 DEF IInv, Ending, AllWritten, AddBlock, Awake
  <1>16. Sampled' /\ Attributed'
    <2>1. ASSUME NEW s \in SampleOf, Traced(s) PROVE Traced(s)'
      <3>1. s.time <= clock + 1 /\ s.time < clock + 1 /\ s.block \in Block
        BY <2>1, <1>1 DEF Traced, SampleOf
      <3>2. CASE s.block \in B BY <3>1, <3>2, <1>2, <1>3 DEF Traced
      <3>3. CASE s.block \notin B
        <4>1. live'[s.block] = live[s.block] /\ live[s.block] \in {None} \cup DOMAIN objs
          BY <3>1, <3>3, <1>3 DEF IInv, TypeOK
        <4>. QED BY <4>1, <3>1, <2>1, <1>2, <1>3 DEF Traced
      <3>. QED BY <3>2, <3>3
    <2>2. ring \in Seq(SampleOf) /\ todo \in Seq(SampleOf) BY DEF IInv, TypeOK
    <2>3. (\A i \in DOMAIN ring : Traced(ring[i])') /\ \A i \in DOMAIN todo : Traced(todo[i])'
      <3>1. (\A i \in DOMAIN ring : ring[i] \in SampleOf /\ Traced(ring[i]))
            /\ \A i \in DOMAIN todo : todo[i] \in SampleOf /\ Traced(todo[i])
        BY <2>2 DEF IInv, Sampled
      <3>. QED BY <3>1, <2>1, <1>3 DEF Traced
    <2>. QED BY <2>3, <1>3 DEF IInv, Sampled, Attributed
  <1>. QED BY <1>7, <1>8, <1>9, <1>10, <1>11, <1>12, <1>13, <1>14, <1>15, <1>16,
              <1>17
           DEF IInv, Places

LEMMA AddInsertKeeps ==
  ASSUME BoundAssumption, IInv, NEW t \in Thread, AddInsert(t)
  PROVE  IInv'
  <1>. USE DEF None
  <1>. DEFINE o == aobj[t]
  <1>1. /\ apc[t] = "add" /\ mtx[t] = Nobody
        /\ inited' = inited \cup {t}
        /\ blocks' = [blocks EXCEPT ![t] = [b \in Block |-> IF b \in Span(o) THEN o ELSE @[b]]]
        /\ apc' = [apc EXCEPT ![t] = "idle"]
        /\ UNCHANGED <<objs, live, clock, mtx, obj_buff, out, bufmtx, aobj, ring, todo, ppc,
                       it, final, counted, should_stop, stopmtx, fpc, fit>>
    BY DEF AddInsert, heap, bufs, prof, stop, fini
  <1>2. /\ o \in DOMAIN objs /\ o # 0 /\ objs[o].tid = t
        /\ Span(o) \in SUBSET Block /\ Span(o) # {}
        /\ \A b \in Span(o) : live[b] = o
        /\ \A v \in Thread \ {t} : Works(v) => aobj[v] # o
    <2>1. o \in DOMAIN objs /\ objs \in Seq(Object)
      BY <1>1 DEF IInv, TypeOK, Places, Working, Works
    <2>. QED BY <1>1, <2>1, SpanBlocks DEF IInv, Places, Working, Works
  <1>3. /\ apc'[t] = "idle" /\ ~Works(t)' /\ ~Moves(t)'
        /\ \A v \in Thread \ {t} : /\ apc'[v] = apc[v] /\ blocks'[v] = blocks[v]
                                  /\ (Works(v)' <=> Works(v)) /\ (Moves(v)' <=> Moves(v))
    BY <1>1 DEF IInv, TypeOK, Works, Moves
  <1>4. \A b \in Block : blocks'[t][b] = IF b \in Span(o) THEN o ELSE blocks[t][b]
    BY <1>1 DEF IInv, TypeOK
  (* the blocks it takes over are free in the tables *)
  <1>5. \A u \in Thread : \A b \in Block :
          /\ blocks[u][b] # o
          /\ b \in Span(o) => blocks[u][b] = None
    <2>1. \A u \in Thread : \A b \in Block : blocks[u][b] # o
      BY <1>1, <1>2 DEF IInv, Places, Tables, Entered, Moves
    <2>2. \A u \in Thread : \A b \in Span(o) : blocks[u][b] = None
      <3>. SUFFICES ASSUME NEW u \in Thread, NEW b \in Span(o), blocks[u][b] # None
                    PROVE  FALSE
        OBVIOUS
      <3>1. b \in Block /\ live[b] = o BY <1>2
      <3>2. live[b] = blocks[u][b] BY <3>1 DEF IInv, Places, Tables
      <3>. QED BY <3>1, <3>2, <2>1
    <2>. QED BY <2>1, <2>2
  <1>6. TypeOK'
    <2>1. blocks' \in [Thread -> [Block -> {None} \cup DOMAIN objs]]
      BY <1>1, <1>2 DEF IInv, TypeOK
    <2>2. apc' \in [Thread -> {"idle", "add", "delete", "push", "site"}] BY <1>1 DEF IInv, TypeOK
    <2>. QED BY <1>1, <2>1, <2>2 DEF IInv, TypeOK
  <1>7. Control' BY <1>1 DEF IInv, Control
  <1>8. Working' BY <1>1, <1>3 DEF IInv, Places, Working, Works, Span
  <1>9. Living' BY <1>1 DEF IInv, Places, Living, Span
  <1>10. Tables'
    <2>. SUFFICES ASSUME NEW u \in Thread, NEW b \in Block, blocks'[u][b] # None
                  PROVE  /\ b \in Span(blocks'[u][b])
                         /\ live[b] = blocks'[u][b]
                         /\ objs[blocks'[u][b]].tid = u /\ u \in inited'
                         /\ \A c \in Span(blocks'[u][b]) : blocks'[u][c] = blocks'[u][b]
                         /\ \A v \in Thread : Moves(v)' => aobj[v] # blocks'[u][b]
      BY <1>1 DEF Tables, Entered, Span
    <2>1. CASE u = t /\ b \in Span(o)
      <3>1. blocks'[u][b] = o BY <1>4, <2>1
      <3>2. \A v \in Thread : Moves(v)' => aobj[v] # o
        BY <1>2, <1>3 DEF Moves, Works
      <3>. QED BY <3>1, <3>2, <2>1, <1>1, <1>2, <1>4
    <2>2. CASE ~(u = t /\ b \in Span(o))
      <3>1. blocks'[u][b] = blocks[u][b] BY <1>3, <1>4, <2>2
      <3>2. b \in Span(blocks[u][b]) /\ live[b] = blocks[u][b] /\ Entered(u, blocks[u][b])
        BY <3>1 DEF IInv, Places, Tables
      <3>3. blocks[u][b] \in DOMAIN objs BY <3>1, TableType DEF IInv
      <3>4. \A c \in Span(blocks[u][b]) : blocks'[u][c] = blocks[u][b]
        <4>1. Span(blocks[u][b]) \in SUBSET Block BY <3>3, SpanBlocks DEF IInv
        <4>2. \A c \in Span(blocks[u][b]) : c \in Block /\ blocks[u][c] = blocks[u][b]
          BY <3>2, <4>1 DEF Entered
        <4>3. \A c \in Span(blocks[u][b]) : u = t => c \notin Span(o)
          BY <4>2, <3>1, <1>5
        <4>. QED BY <4>2, <4>3, <1>3, <1>4
      <3>5. \A v \in Thread : Moves(v)' => aobj[v] # blocks[u][b]
        BY <3>2, <1>3 DEF Entered
      <3>. QED BY <3>1, <3>2, <3>4, <3>5, <1>1 DEF Entered
    <2>. QED BY <2>1, <2>2
  <1>11. Mutexes'
    <2>1. \A v \in Thread : apc'[v] = "push" => mtx'[objs'[aobj'[v]].tid] = v
      BY <1>1, <1>3 DEF IInv, Mutexes
    <2>2. ppc = "found" => it # t /\ it \in Thread /\ mtx[it] = Prof /\ Target # None
      BY <1>1, BoundAssumption DEF IInv, Mutexes, Control, Prof, Nobody
    <2>3. ppc = "found" => Target' = Target
      BY <1>1, <1>3, <2>2 DEF Target, Sample
    <2>. QED BY <2>1, <2>2, <2>3, <1>1 DEF Mutexes
  <1>12. Buffer' /\ Present'
    BY <1>1, <1>3 DEF IInv, Buffer, Retired, Present, Occupies, Buffered
  <1>13. Kept'
    <2>. SUFFICES ASSUME NEW p \in DOMAIN objs, Occupies(p)
                  PROVE  (\E v \in Thread : Moves(v)' /\ aobj[v] = p) \/ Tabled(p)'
      <3>1. objs' = objs /\ live' = live /\ aobj' = aobj BY <1>1
      <3>. QED BY <3>1 DEF Kept, Occupies, Moved
    <2>1. CASE p = o BY <2>1, <1>1, <1>2, <1>4 DEF Tabled, Span
    <2>2. CASE p # o
      <3>2. Moved(p) => \E v \in Thread : Moves(v)' /\ aobj[v] = p
        BY <2>2, <1>3 DEF Moved
      <3>3. Tabled(p) => Tabled(p)'
        <4>. SUFFICES ASSUME Tabled(p), NEW b \in Span(p)
                      PROVE  blocks'[objs[p].tid][b] = p
          BY <1>1 DEF Tabled, Span
        <4>1. blocks[objs[p].tid][b] = p /\ b \in Block /\ objs[p].tid \in Thread /\ p # 0
          <5>1. objs \in Seq(Object) BY DEF IInv, TypeOK
          <5>. QED BY <5>1, SpanBlocks DEF Tabled, IInv
        <4>2. b \notin Span(o) BY <4>1, <1>5
        <4>. QED BY <4>1, <4>2, <1>3, <1>4
      <3>. QED BY <3>2, <3>3 DEF IInv, Places, Kept
    <2>. QED BY <2>1, <2>2
  <1>14. Ending' /\ AllWritten'
    BY <1>1 DEF IInv, Ending, AllWritten, AddInsert, Awake, Works
  <1>15. Sampled' /\ Attributed'
    BY <1>1, SampledFrame DEF IInv, Attributed
  <1>. QED BY <1>6, <1>7, <1>8, <1>9, <1>10, <1>11, <1>12, <1>13, <1>14, <1>15
           DEF IInv, Places

(* A thread starts to free an object, or finds it in order to name it. *)
LEMMA ClaimKeeps ==
  ASSUME BoundAssumption, IInv, NEW t \in Thread, NEW o \in DOMAIN objs,
         DeleteBlock(t, o) \/ LookSite(t, o)
  PROVE  IInv'
  <1>. USE DEF None
  <1>1. /\ apc[t] = "idle" /\ ~Busy(o) /\ Awake
        /\ \E b \in Block : live[b] = o
        /\ \E a \in {"delete", "site"} : apc' = [apc EXCEPT ![t] = a]
        /\ aobj' = [aobj EXCEPT ![t] = o]
        /\ UNCHANGED <<objs, live, clock, mtx, inited, blocks, obj_buff, out, bufmtx, ring,
                       todo, ppc, it, final, counted, should_stop, stopmtx, fpc, fit>>
    BY DEF DeleteBlock, LookSite, heap, tabs, bufs, prof, stop, fini
  <1>2. /\ apc'[t] \in {"delete", "site"} /\ aobj'[t] = o /\ ~Moves(t) /\ ~Moves(t)'
        /\ \A v \in Thread \ {t} : /\ apc'[v] = apc[v] /\ aobj'[v] = aobj[v]
                                  /\ (Works(v)' <=> Works(v)) /\ (Moves(v)' <=> Moves(v))
        /\ \A v \in Thread : Works(v) => aobj[v] # o
    BY <1>1 DEF IInv, TypeOK, Works, Moves, Busy
  <1>3. TypeOK'
    <2>1. /\ apc' \in [Thread -> {"idle", "add", "delete", "push", "site"}]
          /\ aobj' \in [Thread -> {None} \cup DOMAIN objs]
      BY <1>1 DEF IInv, TypeOK
    <2>. QED BY <1>1, <2>1 DEF IInv, TypeOK
  <1>4. Control' BY <1>1 DEF IInv, Control
  <1>5. Working'
    <2>1. \A b \in Span(o) : live[b] = o
      <3>1. PICK c \in Block : live[c] = o BY <1>1
      <3>2. o # None BY DEF IInv, TypeOK
      <3>. QED BY <3>1, <3>2 DEF IInv, Places, Living
    <2>. QED BY <1>1, <1>2, <2>1 DEF IInv, Places, Working, Span
  <1>6. Living' BY <1>1 DEF IInv, Places, Living, Span
  <1>7. Tables'
    <2>1. \A v \in Thread : Moves(v)' => Moves(v) /\ aobj'[v] = aobj[v] BY <1>2
    <2>2. \A v \in Thread, p \in DOMAIN objs : Entered(v, p) => Entered(v, p)'
      BY <2>1, <1>1 DEF Entered, Span
    <2>3. \A v \in Thread, b \in Block : blocks[v][b] \in {None} \cup DOMAIN objs
      BY DEF IInv, TypeOK
    <2>. QED BY <2>2, <2>3, <1>1 DEF IInv, Places, Tables, Span
  <1>8. Mutexes'
    <2>1. \A v \in Thread : apc'[v] = "push" => mtx'[objs'[aobj'[v]].tid] = v
      BY <1>1, <1>2 DEF IInv, Mutexes
    <2>. QED BY <2>1, <1>1 DEF IInv, Mutexes, Target, Sample
  <1>9. Buffer' BY <1>1, <1>2 DEF IInv, Buffer, Retired
  <1>10. Present' BY <1>1 DEF IInv, Present, Occupies, Buffered
  <1>13. Kept'
    <2>1. \A p : Moved(p) => Moved(p)' BY <1>2 DEF Moved
    <2>. QED BY <2>1, <1>1 DEF IInv, Places, Kept, Occupies, Tabled, Span
  <1>11. Ending' /\ AllWritten'
    BY <1>1 DEF IInv, Ending, AllWritten, Awake
  <1>12. Sampled' /\ Attributed'
    BY <1>1, SampledFrame DEF IInv, Attributed
  <1>. QED BY <1>3, <1>4, <1>5, <1>6, <1>7, <1>8, <1>9, <1>10, <1>11, <1>12,
              <1>13
           DEF IInv, Places

LEMMA SetSiteKeeps ==
  ASSUME BoundAssumption, IInv, NEW t \in Thread, SetSite(t)
  PROVE  IInv'
  <1>1. /\ apc[t] = "site" /\ apc' = [apc EXCEPT ![t] = "idle"]
        /\ UNCHANGED <<heap, mtx, tabs, bufs, aobj, ring, prof, stop, fini>>
    BY DEF SetSite
  <1>2. /\ objs' = objs /\ live' = live /\ aobj' = aobj /\ blocks' = blocks
        /\ inited' = inited /\ obj_buff' = obj_buff /\ fpc' = fpc
    BY <1>1 DEF heap, tabs, bufs, fini
  <1>3. apc' \in [Thread -> {"idle", "add", "delete", "push", "site"}]
    BY <1>1 DEF IInv, TypeOK
  <1>4. \A v \in Thread : /\ Moves(v)' <=> Moves(v)
                          /\ apc'[v] \in {"add", "push"} => apc'[v] = apc[v]
                          /\ Works(v)' => Works(v)
    BY <1>1 DEF IInv, TypeOK, Moves, Works
  <1>5. TypeOK' BY <1>1, <1>3 DEF IInv, TypeOK, heap, tabs, bufs, prof, stop, fini
  <1>6. Control' BY <1>1 DEF IInv, Control, prof, fini
  <1>7. Working' BY <1>2, <1>4 DEF IInv, Places, Working, Span
  <1>8. Living' BY <1>2 DEF IInv, Places, Living, Span
  <1>9. Tables' BY <1>2, <1>4 DEF IInv, Places, Tables, Entered, Span
  <1>10. Kept'
    <2>1. \A o : Moved(o)' <=> Moved(o) BY <1>2, <1>4 DEF Moved
    <2>. QED BY <2>1, <1>2 DEF IInv, Places, Kept, Occupies, Tabled, Span
  <1>11. Mutexes' BY <1>1, <1>4 DEF IInv, Mutexes, Target, Sample, heap, tabs, prof
  <1>12. Buffer' /\ Present'
    BY <1>2, <1>4 DEF IInv, Buffer, Retired, Present, Occupies, Buffered
  <1>13. Ending' /\ AllWritten'
    BY <1>1, <1>4 DEF IInv, Ending, AllWritten, Buffered, Tabled, Span, heap, tabs, bufs, fini
  <1>14. Sampled' /\ Attributed'
    BY <1>1, SampledFrame DEF IInv, Attributed, heap, prof
  <1>. QED BY <1>5, <1>6, <1>7, <1>8, <1>9, <1>10, <1>11, <1>12, <1>13, <1>14
           DEF IInv, Places

LEMMA DeleteRemoveKeeps ==
  ASSUME BoundAssumption, IInv, NEW t \in Thread, DeleteRemove(t)
  PROVE  IInv'
  <1>. USE DEF None
  <1>. DEFINE o == aobj[t]
              u == objs[o].tid
  <1>1. /\ apc[t] = "delete" /\ mtx[u] = Nobody
        /\ mtx' = [mtx EXCEPT ![u] = t]
        /\ blocks' = [blocks EXCEPT ![u] = [b \in Block |-> IF b \in Span(o) THEN None ELSE @[b]]]
        /\ apc' = [apc EXCEPT ![t] = "push"]
        /\ UNCHANGED <<objs, live, clock, inited, obj_buff, out, bufmtx, aobj, ring, todo, ppc,
                       it, final, counted, should_stop, stopmtx, fpc, fit>>
    BY DEF DeleteRemove, heap, bufs, prof, stop, fini
  <1>2. /\ o \in DOMAIN objs /\ o # 0 /\ u \in Thread
        /\ Span(o) \in SUBSET Block /\ Span(o) # {}
        /\ \A b \in Span(o) : live[b] = o
        /\ \A v \in Thread \ {t} : Works(v) => aobj[v] # o
    <2>1. o \in DOMAIN objs /\ objs \in Seq(Object)
      BY <1>1 DEF IInv, TypeOK, Places, Working, Works
    <2>. QED BY <1>1, <2>1, SpanBlocks DEF IInv, Places, Working, Works
  <1>3. /\ apc'[t] = "push" /\ Works(t) /\ Works(t)' /\ Moves(t)'
        /\ \A v \in Thread \ {t} : /\ apc'[v] = apc[v]
                                  /\ (Works(v)' <=> Works(v)) /\ (Moves(v)' <=> Moves(v))
        /\ \A v \in Thread \ {u} : blocks'[v] = blocks[v] /\ mtx'[v] = mtx[v]
        /\ mtx'[u] = t
    BY <1>1, <1>2 DEF IInv, TypeOK, Works, Moves
  <1>4. \A b \in Block : blocks'[u][b] = IF b \in Span(o) THEN None ELSE blocks[u][b]
    BY <1>1, <1>2 DEF IInv, TypeOK
  (* what stays in the tables is not the object *)
  <1>5. ASSUME NEW v \in Thread, NEW b \in Block, blocks'[v][b] # None
        PROVE  blocks'[v][b] = blocks[v][b] /\ blocks[v][b] # o
    <2>1. blocks'[v][b] = blocks[v][b] /\ (v = u => b \notin Span(o))
      BY <1>3, <1>4, <1>5
    <2>. QED BY <1>5, <2>1 DEF IInv, Places, Tables, Entered
  (* and what is not the object stays *)
  <1>6. ASSUME NEW v \in Thread, NEW b \in Block, blocks[v][b] # None, blocks[v][b] # o
        PROVE  blocks'[v][b] = blocks[v][b]
    <2>1. live[b] = blocks[v][b] BY <1>6 DEF IInv, Places, Tables
    <2>2. b \notin Span(o) BY <1>2, <1>6, <2>1
    <2>. QED BY <1>3, <1>4, <2>2
  <1>7. TypeOK'
    <2>1. blocks' \in [Thread -> [Block -> {None} \cup DOMAIN objs]]
      BY <1>1, <1>2 DEF IInv, TypeOK
    <2>2. apc' \in [Thread -> {"idle", "add", "delete", "push", "site"}] BY <1>1 DEF IInv, TypeOK
    <2>3. mtx' \in [Thread -> {Nobody, Prof, Fini} \cup Thread] BY <1>1 DEF IInv, TypeOK
    <2>. QED BY <1>1, <2>1, <2>2, <2>3 DEF IInv, TypeOK
  <1>8. Control' BY <1>1 DEF IInv, Control
  <1>9. Working' BY <1>1, <1>3 DEF IInv, Places, Working, Span
  <1>10. Living' BY <1>1 DEF IInv, Places, Living, Span
  <1>11. Tables'
    <2>. SUFFICES ASSUME NEW v \in Thread, NEW b \in Block, blocks'[v][b] # None
                  PROVE  /\ b \in Span(blocks'[v][b])
                         /\ live[b] = blocks'[v][b]
                         /\ objs[blocks'[v][b]].tid = v /\ v \in inited'
                         /\ \A c \in Span(blocks'[v][b]) : blocks'[v][c] = blocks'[v][b]
                         /\ \A w \in Thread : Moves(w)' => aobj[w] # blocks'[v][b]
      <3>1. objs' = objs /\ live' = live /\ aobj' = aobj BY <1>1
      <3>. QED BY <3>1 DEF Tables, Entered, Span
    <2>1. blocks'[v][b] = blocks[v][b] /\ blocks[v][b] # o /\ blocks[v][b] # None BY <1>5
    <2>2. b \in Span(blocks[v][b]) /\ live[b] = blocks[v][b] /\ Entered(v, blocks[v][b])
      BY <2>1 DEF IInv, Places, Tables
    <2>3. blocks[v][b] \in DOMAIN objs
      <3>1. blocks[v][b] \in {None} \cup DOMAIN objs BY TableType DEF IInv
      <3>. QED BY <3>1, <2>1
    <2>4. \A c \in Span(blocks[v][b]) : blocks'[v][c] = blocks[v][b]
      <3>1. Span(blocks[v][b]) \in SUBSET Block BY <2>3, SpanBlocks DEF IInv
      <3>2. \A c \in Span(blocks[v][b]) : c \in Block /\ blocks[v][c] = blocks[v][b]
        BY <2>2, <3>1 DEF Entered
      <3>. QED BY <3>2, <2>1, <1>6
    <2>5. \A w \in Thread : Moves(w)' => aobj[w] # blocks[v][b]
      BY <2>1, <2>2, <1>3 DEF Entered
    <2>. QED BY <2>1, <2>2, <2>4, <2>5, <1>1 DEF Entered
  <1>12. Mutexes'
    <2>1. ASSUME NEW v \in Thread, apc'[v] = "push" PROVE mtx'[objs[aobj[v]].tid] = v
      <3>1. CASE v = t BY <3>1, <1>3
      <3>2. CASE v # t
        <4>1. apc[v] = "push" /\ mtx[objs[aobj[v]].tid] = v
          BY <3>2, <2>1, <1>3 DEF IInv, Mutexes
        <4>2. aobj[v] \in DOMAIN objs BY <4>1 DEF IInv, Places, Working, Works
        <4>3. objs[aobj[v]].tid \in Thread BY <4>2, SpanBlocks DEF IInv
        <4>4. objs[aobj[v]].tid # u
          BY <4>1, <1>1, BoundAssumption DEF Nobody, Thread
        <4>. QED BY <4>1, <4>3, <4>4, <1>3
      <3>. QED BY <3>1, <3>2
    <2>2. ppc = "found" => it # u /\ it \in Thread /\ mtx[it] = Prof /\ Target # None
      BY <1>1, BoundAssumption DEF IInv, Mutexes, Control, Prof, Nobody
    <2>3. ppc = "found" => Target' = Target /\ mtx'[it] = Prof
      BY <1>1, <1>3, <2>2 DEF Target, Sample
    <2>. QED BY <2>1, <2>2, <2>3, <1>1 DEF Mutexes
  <1>13. Buffer' /\ Present'
    <2>1. /\ objs' = objs /\ live' = live /\ aobj' = aobj /\ obj_buff' = obj_buff
          /\ fpc' = fpc
      BY <1>1
    <2>. QED BY <2>1, <1>3 DEF IInv, Buffer, Retired, Present, Occupies, Buffered
  <1>14. Kept'
    <2>. SUFFICES ASSUME NEW p \in DOMAIN objs, Occupies(p)
                  PROVE  (\E v \in Thread : Moves(v)' /\ aobj[v] = p) \/ Tabled(p)'
      <3>1. objs' = objs /\ live' = live /\ aobj' = aobj BY <1>1
      <3>. QED BY <3>1 DEF Kept, Occupies, Moved
    <2>1. CASE p = o BY <2>1, <1>3
    <2>2. CASE p # o
      <3>2. Moved(p) => \E v \in Thread : Moves(v)' /\ aobj[v] = p
        BY <2>2, <1>3 DEF Moved
      <3>3. Tabled(p) => Tabled(p)'
        <4>. SUFFICES ASSUME Tabled(p), NEW b \in Span(p)
                      PROVE  blocks'[objs[p].tid][b] = p
          BY <1>1 DEF Tabled, Span
        <4>1. blocks[objs[p].tid][b] = p /\ b \in Block /\ objs[p].tid \in Thread /\ p # 0
          <5>1. objs \in Seq(Object) BY DEF IInv, TypeOK
          <5>. QED BY <5>1, SpanBlocks DEF Tabled, IInv
        <4>. QED BY <4>1, <2>2, <1>6
      <3>. QED BY <3>2, <3>3 DEF IInv, Places, Kept
    <2>. QED BY <2>1, <2>2
  <1>15. Ending' /\ AllWritten'
    BY <1>1 DEF IInv, Ending, AllWritten, Works
  <1>16. Sampled' /\ Attributed'
    BY <1>1, SampledFrame DEF IInv, Attributed
  <1>. QED BY <1>7, <1>8, <1>9, <1>10, <1>11, <1>12, <1>13, <1>14, <1>15, <1>16
           DEF IInv, Places

LEMMA DeletePushKeeps ==
  ASSUME BoundAssumption, IInv, NEW t \in Thread, DeletePush(t)
  PROVE  IInv'
  <1>. USE DEF None
  <1>. DEFINE o == aobj[t]
              u == objs[o].tid
  <1>1. /\ apc[t] = "push"
        /\ obj_buff' = Append(obj_buff, o)
        /\ mtx' = [mtx EXCEPT ![u] = Nobody]
        /\ live' = [b \in Block |-> IF live[b] = o THEN None ELSE live[b]]
        /\ apc' = [apc EXCEPT ![t] = "idle"]
        /\ UNCHANGED <<objs, clock, inited, blocks, out, bufmtx, aobj, ring, todo, ppc,
                       it, final, counted, should_stop, stopmtx, fpc, fit>>
    BY DEF DeletePush, tabs, prof, stop, fini
  <1>2. /\ o \in DOMAIN objs /\ o # 0 /\ u \in Thread /\ mtx[u] = t /\ Works(t) /\ Moves(t)
        /\ \A v \in Thread \ {t} : Works(v) => aobj[v] # o
    <2>1. o \in DOMAIN objs /\ objs \in Seq(Object)
      BY <1>1 DEF IInv, TypeOK, Places, Working, Works
    <2>2. mtx[u] = t BY <1>1 DEF IInv, Mutexes
    <2>. QED BY <1>1, <2>1, <2>2, SpanBlocks DEF IInv, Places, Working, Works, Moves
  <1>3. /\ apc'[t] = "idle" /\ ~Works(t)' /\ ~Moves(t)'
        /\ \A v \in Thread \ {t} : /\ apc'[v] = apc[v]
                                  /\ (Works(v)' <=> Works(v)) /\ (Moves(v)' <=> Moves(v))
        /\ \A v \in Thread \ {u} : mtx'[v] = mtx[v]
    BY <1>1, <1>2 DEF IInv, TypeOK, Works, Moves
  <1>4. /\ obj_buff \in Seq(DOMAIN objs)
        /\ DOMAIN obj_buff' = DOMAIN obj_buff \cup {Len(obj_buff) + 1}
        /\ obj_buff'[Len(obj_buff) + 1] = o
        /\ \A i \in DOMAIN obj_buff : obj_buff'[i] = obj_buff[i]
    BY <1>1, <1>2 DEF IInv, TypeOK
  <1>5. UNCHANGED <<objs, clock, inited, blocks, out, aobj, ring, todo, ppc, it, counted,
                    should_stop, fpc, fit>>
    BY <1>1
  <1>6. TypeOK'
    <2>1. /\ live' \in [Block -> {None} \cup DOMAIN objs]
          /\ apc' \in [Thread -> {"idle", "add", "delete", "push", "site"}]
          /\ mtx' \in [Thread -> {Nobody, Prof, Fini} \cup Thread]
          /\ obj_buff' \in Seq(DOMAIN objs)
      BY <1>1, <1>2 DEF IInv, TypeOK
    <2>. QED BY <1>1, <2>1 DEF IInv, TypeOK
  <1>7. Control' BY <1>5 DEF IInv, Control
  <1>8. Working'
    <2>. SUFFICES ASSUME NEW v \in Thread, Works(v)'
                  PROVE  /\ aobj[v] \in DOMAIN objs
                         /\ \A b \in Span(aobj[v]) : live'[b] = aobj[v]
                         /\ apc'[v] = "add" => objs[aobj[v]].tid = v
                         /\ \A w \in Thread \ {v} : Works(w)' => aobj[w] # aobj[v]
      BY <1>5 DEF Working, Span
    <2>1. v # t /\ Works(v) /\ aobj[v] # o BY <1>2, <1>3
    <2>2. /\ aobj[v] \in DOMAIN objs
          /\ \A b \in Span(aobj[v]) : live[b] = aobj[v]
          /\ apc[v] = "add" => objs[aobj[v]].tid = v
          /\ \A w \in Thread \ {v} : Works(w) => aobj[w] # aobj[v]
      BY <2>1 DEF IInv, Places, Working
    <2>3. Span(aobj[v]) \in SUBSET Block BY <2>2, SpanBlocks DEF IInv
    <2>4. \A b \in Span(aobj[v]) : live'[b] = aobj[v] BY <2>1, <2>2, <2>3, <1>1
    <2>. QED BY <2>1, <2>2, <2>4, <1>3
  <1>9. Living'
    <2>. SUFFICES ASSUME NEW b \in Block, live'[b] # None, NEW c \in Span(live'[b])
                  PROVE  live'[c] = live'[b]
      BY <1>5 DEF Living, Span
    <2>1. live'[b] = live[b] /\ live[b] # o /\ live[b] # None BY <1>1
    <2>2. live[c] = live[b] BY <2>1 DEF IInv, Places, Living
    <2>3. c \in Block
      <3>1. live[b] \in DOMAIN objs BY <2>1 DEF IInv, TypeOK
      <3>. QED BY <3>1, <2>1, SpanBlocks DEF IInv
    <2>. QED BY <2>1, <2>2, <2>3, <1>1
  <1>10. Tables'
    <2>. SUFFICES ASSUME NEW v \in Thread, NEW b \in Block, blocks[v][b] # None
                  PROVE  /\ b \in Span(blocks[v][b])
                         /\ live'[b] = blocks[v][b]
                         /\ objs[blocks[v][b]].tid = v /\ v \in inited
                         /\ \A c \in Span(blocks[v][b]) : blocks[v][c] = blocks[v][b]
                         /\ \A w \in Thread : Moves(w)' => aobj[w] # blocks[v][b]
      BY <1>5 DEF Tables, Entered, Span
    <2>1. b \in Span(blocks[v][b]) /\ live[b] = blocks[v][b] /\ Entered(v, blocks[v][b])
      BY DEF IInv, Places, Tables
    <2>2. o # blocks[v][b] BY <2>1, <1>2 DEF Entered
    <2>3. live'[b] = blocks[v][b] BY <2>1, <2>2, <1>1
    <2>. QED BY <2>1, <2>3, <1>3 DEF Entered
  <1>11. Mutexes'
    <2>1. ASSUME NEW v \in Thread, apc'[v] = "push" PROVE mtx'[objs[aobj[v]].tid] = v
      <3>1. v # t /\ apc[v] = "push" /\ mtx[objs[aobj[v]].tid] = v
        BY <2>1, <1>3 DEF IInv, Mutexes
      <3>2. aobj[v] \in DOMAIN objs BY <3>1 DEF IInv, Places, Working, Works
      <3>3. objs[aobj[v]].tid \in Thread BY <3>2, SpanBlocks DEF IInv
      <3>4. objs[aobj[v]].tid # u BY <3>1, <1>2
      <3>. QED BY <3>1, <3>3, <3>4, <1>3
    <2>2. ppc = "found" => it # u /\ it \in Thread /\ mtx[it] = Prof /\ Target # None
      BY <1>2, BoundAssumption DEF IInv, Mutexes, Control, Prof, Thread
    <2>3. ppc = "found" => Target' = Target /\ mtx'[it] = Prof
      BY <1>5, <1>3, <2>2 DEF Target, Sample
    <2>. QED BY <2>1, <2>2, <2>3, <1>5 DEF Mutexes
  <1>12. Buffer'
    <2>. SUFFICES ASSUME fpc \notin {"gather", "done"}
                  PROVE  /\ \A i \in DOMAIN obj_buff' : \E p : obj_buff'[i] = p /\ Retired(p)'
                         /\ \A i, j \in DOMAIN obj_buff' : obj_buff'[i] = obj_buff'[j] => i = j
      <3>1. fpc' = fpc BY <1>5
      <3>. QED BY <3>1 DEF Buffer, Retired
    <2>1. \A i \in DOMAIN obj_buff : Retired(obj_buff[i]) /\ obj_buff[i] # o /\ obj_buff[i] \in DOMAIN objs
      BY <1>2, <1>4 DEF IInv, Buffer, Retired
    <2>2. \A i, j \in DOMAIN obj_buff' : obj_buff'[i] = obj_buff'[j] => i = j
      BY <2>1, <1>4 DEF IInv, Buffer
    <2>3. ASSUME NEW p, p = o PROVE Retired(p)'
      <3>1. \A v \in Thread : Works(v)' => aobj'[v] # p BY <2>3, <1>2, <1>3, <1>5
      <3>2. \A b \in Block : live'[b] # p BY <2>3, <1>1, <1>2
      <3>. QED BY <3>1, <3>2 DEF Retired
    <2>5. \A p \in DOMAIN objs : Retired(p) => Retired(p)'
      <3>. SUFFICES ASSUME NEW p \in DOMAIN objs, Retired(p) PROVE Retired(p)'
        OBVIOUS
      <3>1. p # 0 BY DEF IInv, TypeOK
      <3>2. \A b \in Block : live'[b] # p BY <3>1, <1>1 DEF Retired
      <3>3. \A v \in Thread : Works(v)' => aobj'[v] # p BY <1>3, <1>5 DEF Retired
      <3>. QED BY <3>2, <3>3 DEF Retired
    <2>6. ASSUME NEW i \in DOMAIN obj_buff' PROVE \E p : obj_buff'[i] = p /\ Retired(p)'
      <3>1. CASE obj_buff'[i] = o BY <3>1, <2>3
      <3>2. CASE i \in DOMAIN obj_buff BY <3>2, <2>1, <2>5, <1>4
      <3>. QED BY <3>1, <3>2, <1>4
    <2>. QED BY <2>2, <2>6
  <1>13. Kept'
    <2>. SUFFICES ASSUME NEW p \in DOMAIN objs, \E b \in Block : live'[b] = p
                  PROVE  (\E v \in Thread : Moves(v)' /\ aobj[v] = p) \/ Tabled(p)
      BY <1>5 DEF Kept, Occupies, Moved, Tabled, Span
    <2>1. p # 0 BY DEF IInv, TypeOK
    <2>2. p # o /\ Occupies(p) BY <2>1, <1>1 DEF Occupies
    <2>3. Moved(p) => \E v \in Thread : Moves(v)' /\ aobj[v] = p BY <2>2, <1>3 DEF Moved
    <2>. QED BY <2>2, <2>3 DEF IInv, Places, Kept
  <1>16. Present'
    <2>. SUFFICES ASSUME fpc \notin {"gather", "done"}, NEW p \in DOMAIN objs
                  PROVE  (\E b \in Block : live'[b] = p) \/ Buffered(p)'
      BY <1>5 DEF Present, Occupies
    <2>1. CASE p = o BY <2>1, <1>4 DEF Buffered
    <2>2. CASE p # o
      <3>1. Buffered(p) => Buffered(p)' BY <1>4 DEF Buffered
      <3>2. Occupies(p) => \E b \in Block : live'[b] = p BY <2>2, <1>1 DEF Occupies
      <3>. QED BY <3>1, <3>2 DEF IInv, Present
    <2>. QED BY <2>1, <2>2
  <1>14. Ending' /\ AllWritten'
    <2>1. Quiet => fpc = "idle" BY <1>2 DEF IInv, Ending
    <2>. QED BY <2>1, <1>5 DEF Ending, AllWritten
  <1>15. Sampled' /\ Attributed'
    <2>1. \A s \in SampleOf : Traced(s) => Traced(s)'
      <3>. SUFFICES ASSUME NEW s \in SampleOf, Traced(s) PROVE Traced(s)'
        OBVIOUS
      <3>1. live'[s.block] \in {None, live[s.block]} BY <1>1 DEF SampleOf
      <3>. QED BY <3>1, <1>5 DEF Traced
    <2>2. (\A i \in DOMAIN ring : ring[i] \in SampleOf /\ Traced(ring[i]))
          /\ \A i \in DOMAIN todo : todo[i] \in SampleOf /\ Traced(todo[i])
      BY DEF IInv, TypeOK, Sampled
    <2>3. Sampled' BY <2>1, <2>2, <1>5 DEF Sampled, Traced
    <2>. QED BY <2>3, <1>5 DEF IInv, Attributed
  <1>. QED BY <1>6, <1>7, <1>8, <1>9, <1>10, <1>11, <1>12, <1>13, <1>14, <1>15, <1>16
           DEF IInv, Places

LEMMA AccessKeeps ==
  ASSUME BoundAssumption, IInv, NEW t \in Thread, NEW b \in Block, Access(t, b)
  PROVE  IInv'
  <1>. DEFINE s == [tid |-> t, block |-> b, time |-> clock + 1, of |-> live[b]]
  <1>1. /\ clock' = clock + 1 /\ ring' = Append(ring, s)
        /\ UNCHANGED <<objs, live, mtx, inited, blocks, obj_buff, out, bufmtx, apc, aobj, todo,
                       ppc, it, final, counted, should_stop, stopmtx, fpc, fit>>
    BY DEF Access, tabs, bufs, app, prof, stop, fini
  <1>2. s \in SampleOf /\ clock \in Nat /\ ring \in Seq(SampleOf) /\ todo \in Seq(SampleOf)
    <2>1. /\ clock \in Nat /\ ring \in Seq(SampleOf) /\ todo \in Seq(SampleOf)
          /\ objs \in Seq(Object) /\ live[b] \in {0} \cup DOMAIN objs
      BY DEF IInv, TypeOK, None
    <2>2. live[b] \in Nat /\ clock + 1 \in Nat BY <2>1
    <2>. QED BY <2>1, <2>2 DEF SampleOf
  <1>3. TypeOK'
    <2>1. ring' \in Seq(SampleOf) /\ clock' \in Nat BY <1>1, <1>2
    <2>. QED BY <2>1, <1>1 DEF IInv, TypeOK
  <1>4. Control' BY <1>1 DEF IInv, Control
  <1>5. Places' BY <1>1, PlacesFrame DEF IInv
  <1>6. Mutexes' BY <1>1 DEF IInv, Mutexes, Target, Sample
  <1>7. Buffer' /\ Present' BY <1>1, BufferFrame DEF IInv
  <1>8. Ending' /\ AllWritten' BY <1>1, EndingFrame DEF IInv
  <1>9. Sampled' /\ Attributed'
    <2>1. \A p \in SampleOf : Traced(p) => Traced(p)'
      BY <1>1, <1>2 DEF Traced, SampleOf
    <2>2. ASSUME NEW p, p = s PROVE Traced(p)' BY <2>2, <1>1, <1>2 DEF Traced
    <2>3. (\A i \in DOMAIN ring : ring[i] \in SampleOf /\ Traced(ring[i]))
          /\ \A i \in DOMAIN todo : todo[i] \in SampleOf /\ Traced(todo[i])
      BY <1>2 DEF IInv, Sampled
    <2>4. \A i \in DOMAIN ring' : ring'[i] = s \/ \E j \in DOMAIN ring : ring'[i] = ring[j]
      BY <1>1, <1>2
    <2>5. Sampled'
      <3>1. \A i \in DOMAIN ring' : \E p : ring'[i] = p /\ Traced(p)'
        BY <2>1, <2>2, <2>3, <2>4
      <3>2. \A i \in DOMAIN todo : \E p : todo'[i] = p /\ Traced(p)' BY <2>1, <2>3, <1>1
      <3>. QED BY <3>1, <3>2, <1>1 DEF Sampled, Traced
    <2>. QED BY <2>5, <1>1 DEF IInv, Attributed
  <1>. QED BY <1>3, <1>4, <1>5, <1>6, <1>7, <1>8, <1>9 DEF IInv
-----------------------------------------------------------------------------
(* The profiling thread. *)
LEMMA ProfileFrame ==
  ASSUME IInv, UNCHANGED <<heap, tabs, bufs, app, stop, fini>>
  PROVE  Places' /\ Buffer' /\ Present' /\ Ending' /\ AllWritten'
  BY PlacesFrame, BufferFrame, EndingFrame DEF IInv, heap, tabs, bufs, app, stop, fini

LEMMA TracedFrame ==
  ASSUME UNCHANGED <<objs, live, clock>>, NEW s PROVE Traced(s)' <=> Traced(s)
  BY DEF Traced

(* The actions that credit nothing and take no mutex. *)
LEMMA WalkKeeps ==
  ASSUME BoundAssumption, IInv, Check \/ BeginPass \/ EndPass \/ NotFound
  PROVE  IInv'
  <1>1. UNCHANGED <<heap, mtx, tabs, bufs, app, stop, fini, counted, it>>
    BY DEF Check, BeginPass, EndPass, NotFound
  <1>2. Places' /\ Buffer' /\ Present' /\ Ending' /\ AllWritten'
    BY <1>1, ProfileFrame
  <1>3. /\ ring \in Seq(SampleOf) /\ todo \in Seq(SampleOf) /\ stopmtx \in BOOLEAN
        /\ final \in BOOLEAN
    BY DEF IInv, TypeOK
  <1>4. /\ ring' \in {ring, <<>>}
        /\ todo' \in {ring, todo, <<>>} \/ (todo # <<>> /\ todo' = Tail(todo))
    <2>1. CASE NotFound
      BY <2>1 DEF NotFound, NextSample, Goto, IInv, Control
    <2>. QED BY <2>1 DEF Check, BeginPass, EndPass
  <1>5. TypeOK'
    <2>1. ring' \in Seq(SampleOf) /\ todo' \in Seq(SampleOf)
      <3>1. <<>> \in Seq(SampleOf) OBVIOUS
      <3>2. todo # <<>> => Tail(todo) \in Seq(SampleOf) BY <1>3
      <3>. QED BY <3>1, <3>2, <1>3, <1>4
    <2>2. ppc' \in {"check", "pass", "next", "search", "found", "done"} /\ final' \in BOOLEAN
      BY <1>3 DEF Check, BeginPass, EndPass, NotFound, Goto
    <2>. QED BY <2>1, <2>2, <1>1 DEF IInv, TypeOK, heap, tabs, bufs, app, stop, fini
  <1>6. ppc # "done" /\ ppc' \notin {"search", "found"}
    BY DEF Check, BeginPass, EndPass, NotFound, Goto
  <1>7. Control'
    <2>1. fpc \notin {"lock", "gather", "done"} BY <1>6 DEF IInv, Control
    <2>. QED BY <2>1, <1>1, <1>6 DEF Control, fini
  <1>8. Mutexes' BY <1>1, <1>6 DEF IInv, Mutexes, heap, app
  <1>9. Sampled'
    <2>2. \A i \in DOMAIN ring' : \E p : ring'[i] = p /\ Traced(p)'
      BY <1>1, <1>4, TracedFrame DEF IInv, Sampled, heap
    <2>3. \A i \in DOMAIN todo' : \E p : todo'[i] = p /\ Traced(p)'
      <3>1. CASE todo' \in {ring, todo, <<>>}
        BY <3>1, <1>1, TracedFrame DEF IInv, Sampled, heap
      <3>2. CASE todo # <<>> /\ todo' = Tail(todo)
        <4>1. \A i \in DOMAIN todo' : i + 1 \in DOMAIN todo /\ todo'[i] = todo[i + 1]
          BY <3>2, <1>3
        <4>. QED BY <4>1, <1>1, TracedFrame DEF IInv, Sampled, heap
      <3>. QED BY <3>1, <3>2, <1>4
    <2>. QED BY <2>2, <2>3 DEF Sampled, Traced
  <1>10. Attributed' BY <1>1 DEF IInv, Attributed
  <1>. QED BY <1>2, <1>5, <1>7, <1>8, <1>9, <1>10 DEF IInv

(* The lookups. *)
LEMMA LookKeeps ==
  ASSUME BoundAssumption, IInv, LookFirst \/ Search
  PROVE  IInv'
  <1>. USE DEF None
  <1>1. UNCHANGED <<heap, tabs, bufs, app, stop, fini, counted, ring, todo, final>>
    BY DEF LookFirst, Search
  <1>2. Places' /\ Buffer' /\ Present' /\ Ending' /\ AllWritten'
    BY <1>1, ProfileFrame
  <1>3. todo \in Seq(SampleOf) /\ todo # <<>> /\ ppc # "done"
    BY DEF IInv, TypeOK, LookFirst, Search, Control
  <1>4. Sample \in SampleOf /\ Sample.tid \in Thread
    <2>1. Sample \in SampleOf BY <1>3 DEF Sample
    <2>. QED BY <2>1 DEF SampleOf
  <1>5. it \in 1..NThread+1 /\ NThread \in Nat \ {0} BY BoundAssumption DEF IInv, TypeOK
  (* either the search goes on, or a mutex was free and is kept *)
  <1>6. \/ ppc' = "search" /\ it' \in 1..NThread+1 /\ mtx' = mtx
        \/ \E u \in Thread : FoundIn(u)
    <2>1. CASE LookFirst
      BY <2>1, <1>4, <1>5 DEF LookFirst
    <2>2. CASE Search
      BY <2>2, <1>5 DEF Search, Thread
    <2>. QED BY <2>1, <2>2
  <1>7. CASE ppc' = "search" /\ it' \in 1..NThread+1 /\ mtx' = mtx
    <2>1. TypeOK' BY <1>1, <1>7 DEF IInv, TypeOK, heap, tabs, bufs, app, stop, fini
    <2>2. Control' BY <1>1, <1>3, <1>7 DEF IInv, Control, fini
    <2>3. Mutexes' BY <1>1, <1>7 DEF IInv, Mutexes, heap, app
    <2>4. Sampled' /\ Attributed' BY <1>1, SampledFrame DEF IInv, Attributed, heap
    <2>. QED BY <1>2, <2>1, <2>2, <2>3, <2>4 DEF IInv
  <1>8. ASSUME NEW u \in Thread, FoundIn(u) PROVE IInv'
    <2>1. /\ mtx[u] = Nobody /\ blocks[u][Sample.block] # None
          /\ mtx' = [mtx EXCEPT ![u] = Prof] /\ it' = u /\ ppc' = "found"
      BY <1>8 DEF FoundIn, Finds
    <2>2. mtx' \in [Thread -> {Nobody, Prof, Fini} \cup Thread] /\ mtx'[u] = Prof
      BY <2>1 DEF IInv, TypeOK
    <2>3. u \in 1..NThread+1 BY <1>5 DEF Thread
    <2>4. TypeOK' BY <1>1, <2>1, <2>2, <2>3 DEF IInv, TypeOK, heap, tabs, bufs, app, stop, fini
    <2>5. Control' BY <1>1, <1>3, <2>1 DEF IInv, Control, fini
    <2>6. Mutexes'
      <3>1. ASSUME NEW v \in Thread, apc[v] = "push" PROVE mtx'[objs[aobj[v]].tid] = v
        <4>1. mtx[objs[aobj[v]].tid] = v BY <3>1 DEF IInv, Mutexes
        <4>2. aobj[v] \in DOMAIN objs BY <3>1 DEF IInv, Places, Working, Works
        <4>3. objs[aobj[v]].tid \in Thread BY <4>2, SpanBlocks DEF IInv
        <4>4. objs[aobj[v]].tid # u BY <4>1, <2>1, BoundAssumption DEF Nobody, Thread
        <4>. QED BY <4>1, <4>3, <4>4, <2>1 DEF IInv, TypeOK
      <3>2. Target' # None BY <1>1, <2>1 DEF Target, Sample, tabs
      <3>. QED BY <3>1, <3>2, <1>1, <2>1, <2>2 DEF Mutexes, heap, app
    <2>7. Sampled' /\ Attributed' BY <1>1, SampledFrame DEF IInv, Attributed, heap
    <2>. QED BY <1>2, <2>4, <2>5, <2>6, <2>7 DEF IInv
  <1>. QED BY <1>6, <1>7, <1>8

(* The credit: what occupies a table's block when a sample is not ignored  *)
(* is the object that was accessed.                                        *)
LEMMA UpdateKeeps ==
  ASSUME BoundAssumption, IInv, Update
  PROVE  IInv'
  <1>. USE DEF None
  <1>1. /\ ppc = "found" /\ ppc' = "next"
        /\ mtx' = [mtx EXCEPT ![it] = Nobody]
        /\ todo' = Tail(todo)
        /\ UNCHANGED <<heap, tabs, bufs, app, ring, it, final, stop, fini>>
    BY DEF Update, Goto, NextSample
  <1>2. Places' /\ Buffer' /\ Present' /\ Ending' /\ AllWritten'
    BY <1>1, ProfileFrame
  <1>3. /\ todo \in Seq(SampleOf) /\ todo # <<>> /\ it \in Thread
        /\ mtx[it] = Prof /\ Target # None
    BY <1>1 DEF IInv, TypeOK, Control, Mutexes
  <1>4. Sample \in SampleOf /\ Sample = todo[1] /\ 1 \in DOMAIN todo BY <1>3 DEF Sample
  <1>5. TypeOK'
    <2>1. mtx' \in [Thread -> {Nobody, Prof, Fini} \cup Thread] /\ todo' \in Seq(SampleOf)
      BY <1>1, <1>3 DEF IInv, TypeOK
    <2>. QED BY <1>1, <2>1 DEF IInv, TypeOK, heap, tabs, bufs, app, stop, fini
  <1>6. Control' BY <1>1 DEF IInv, Control, fini
  <1>7. Mutexes'
    <2>1. ASSUME NEW v \in Thread, apc[v] = "push" PROVE mtx'[objs[aobj[v]].tid] = v
      <3>1. mtx[objs[aobj[v]].tid] = v BY <2>1 DEF IInv, Mutexes
      <3>2. aobj[v] \in DOMAIN objs BY <2>1 DEF IInv, Places, Working, Works
      <3>3. objs[aobj[v]].tid \in Thread BY <3>2, SpanBlocks DEF IInv
      <3>4. objs[aobj[v]].tid # it BY <3>1, <1>3, BoundAssumption DEF Prof, Thread
      <3>. QED BY <3>1, <3>3, <3>4, <1>1 DEF IInv, TypeOK
    <2>. QED BY <2>1, <1>1 DEF Mutexes, heap, app
  <1>8. Sampled'
    <2>1. \A i \in DOMAIN ring' : \E p : ring'[i] = p /\ Traced(p)'
      BY <1>1, TracedFrame DEF IInv, Sampled, heap
    <2>2. \A i \in DOMAIN todo' : i + 1 \in DOMAIN todo /\ todo'[i] = todo[i + 1]
      BY <1>1, <1>3
    <2>3. \A i \in DOMAIN todo' : \E p : todo'[i] = p /\ Traced(p)'
      BY <2>2, <1>1, TracedFrame DEF IInv, Sampled, heap
    <2>. QED BY <2>1, <2>3 DEF Sampled, Traced
  <1>9. Attributed'
    <2>1. Traced(Sample) BY <1>4 DEF IInv, Sampled
    <2>2. Sample.block \in Block /\ Sample.time \in Nat BY <1>4 DEF SampleOf
    <2>3. live[Sample.block] = Target
      BY <1>3, <2>2 DEF IInv, Places, Tables, Target
    <2>4. Target \in DOMAIN objs
      <3>1. blocks \in [Thread -> [Block -> {None} \cup DOMAIN objs]] BY DEF IInv, TypeOK
      <3>2. Target \in {None} \cup DOMAIN objs BY <3>1, <1>3, <2>2 DEF Target
      <3>. QED BY <3>2, <1>3
    <2>5. objs[Target].m_ns \in Nat BY <2>4, SpanBlocks DEF IInv
    <2>6. Sample.of = Target \/ Stale
      BY <1>3, <2>1, <2>2, <2>3, <2>5 DEF Traced, Stale
    <2>7. ~Ignore => Sample.of = Target \/ should_stop BY <2>6 DEF Ignore
    <2>8. CASE Ignore BY <2>8 DEF Update, IInv, Attributed
    <2>9. CASE ~Ignore
      <3>1. counted' = counted \cup {[obj |-> Target, time |-> Sample.time,
                                     of |-> Sample.of, late |-> should_stop]}
        BY <2>9 DEF Update
      <3>. QED BY <3>1, <2>7, <2>9 DEF IInv, Attributed
    <2>. QED BY <2>8, <2>9
  <1>. QED BY <1>2, <1>5, <1>6, <1>7, <1>8, <1>9 DEF IInv
-----------------------------------------------------------------------------
(* profile_fini. *)
LEMMA FiniFrame ==
  ASSUME IInv, UNCHANGED <<heap, mtx, tabs, app, ring, prof>>
  PROVE  Places' /\ Mutexes' /\ Sampled' /\ Attributed'
  <1>1. Places' BY PlacesFrame DEF IInv, heap, tabs, app
  <1>2. Mutexes' BY DEF IInv, Mutexes, Target, Sample, heap, tabs, app, prof
  <1>3. Sampled' /\ Attributed' BY SampledFrame DEF IInv, Attributed, heap, prof
  <1>. QED BY <1>1, <1>2, <1>3

LEMMA FiniWaitsKeeps ==
  ASSUME BoundAssumption, IInv, FiniStart \/ FiniSignal \/ FiniJoin \/ FiniLock
  PROVE  IInv'
  <1>1. UNCHANGED <<heap, mtx, tabs, app, ring, prof, obj_buff, out>>
    BY DEF FiniStart, FiniSignal, FiniJoin, FiniLock, bufs
  <1>2. Places' /\ Mutexes' /\ Sampled' /\ Attributed' BY <1>1, FiniFrame
  <1>3. TypeOK'
    <2>1. 1 \in 1..NThread+1 BY BoundAssumption
    <2>2. /\ bufmtx' \in {Nobody, Fini} /\ fit' \in 1..NThread+1
          /\ should_stop' \in BOOLEAN /\ stopmtx' \in BOOLEAN
          /\ fpc' \in {"idle", "signal", "join", "lock", "gather", "done"}
      BY <2>1 DEF IInv, TypeOK, FiniStart, FiniSignal, FiniJoin, FiniLock, FGoto, bufs, stop
    <2>. QED BY <1>1, <2>2 DEF IInv, TypeOK, heap, tabs, app, prof
  <1>4. Control'
    <2>1. CASE FiniStart \/ FiniSignal
      BY <2>1, <1>1 DEF IInv, Control, FiniStart, FiniSignal, FGoto, prof
    <2>2. CASE FiniJoin
      BY <2>2, <1>1 DEF IInv, Control, FiniJoin, FGoto, prof
    <2>3. CASE FiniLock
      BY <2>3, <1>1 DEF IInv, Control, FiniLock, FGoto, prof
    <2>. QED BY <2>1, <2>2, <2>3
  <1>5. fpc \notin {"gather", "done"} /\ fpc' # "done"
    BY DEF FiniStart, FiniSignal, FiniJoin, FiniLock, FGoto
  <1>6. Buffer' /\ Present'
    BY <1>1, <1>5, BufferFrame DEF IInv, heap, tabs, app
  <1>7. ASSUME Quiet PROVE \A t \in Thread : ~Works(t)
    BY <1>7 DEF IInv, Ending, FiniStart, FiniSignal, FiniJoin, FiniLock, FGoto, Works
  <1>8. Ending'
    <2>1. Quiet => \A t \in Thread : ~Works(t)' BY <1>1, <1>7 DEF Works, app
    <2>2. ASSUME Quiet, fpc' = "gather", NEW o \in DOMAIN objs
          PROVE  Buffered(o)' \/ (fit' <= objs[o].tid /\ Tabled(o)')
      <3>1. fit' = 1 BY <2>2 DEF FiniStart, FiniSignal, FiniJoin, FiniLock, FGoto
      <3>2. Tabled(o) \/ Buffered(o)
        BY <1>5, <1>7, <2>2 DEF IInv, Places, Kept, Present, Moved, Moves, Works
      <3>3. fit' <= objs[o].tid BY <3>1, SpanBlocks DEF IInv, Thread
      <3>. QED BY <3>2, <3>3, <1>1 DEF Buffered, Tabled, Span, heap, tabs
    <2>. QED BY <2>1, <2>2, <1>1 DEF Ending, heap
  <1>9. AllWritten' BY <1>5 DEF AllWritten
  <1>. QED BY <1>2, <1>3, <1>4, <1>6, <1>8, <1>9 DEF IInv

(* Each object of a table is pushed. *)
LEMMA OrderCovers ==
  ASSUME BoundAssumption, TypeOK, NEW u \in Thread, NEW s \in Orders(u)
  PROVE  /\ [i \in DOMAIN s |-> blocks[u][s[i]]] \in Seq(DOMAIN objs)
         /\ \A b \in Entries(u) : \E i \in DOMAIN s : s[i] = b
  <1>. DEFINE n == Cardinality(Entries(u))
  <1>1. Entries(u) \in SUBSET Block BY DEF Entries
  <1>2. n \in Nat BY <1>1, BoundAssumption, FS_Subset, FS_CardinalityType
  <1>3. s \in [1..n -> Entries(u)] /\ \A b \in Entries(u) : \E i \in 1..n : s[i] = b
    BY DEF Orders, Bijection, Injection, Surjection
  <1>4. \A b \in Entries(u) : blocks[u][b] \in DOMAIN objs
    BY DEF Entries, TypeOK, None
  <1>. QED BY <1>2, <1>3, <1>4

LEMMA GatherKeeps ==
  ASSUME BoundAssumption, IInv, Gather
  PROVE  IInv'
  <1>1. /\ fpc = "gather" /\ fpc' = fpc /\ fit <= NThread /\ fit' = fit + 1
        /\ UNCHANGED <<heap, mtx, tabs, out, bufmtx, app, ring, prof, stop>>
    BY DEF Gather
  <1>2. PICK s \in Orders(fit) : obj_buff' = obj_buff \o [i \in DOMAIN s |-> blocks[fit][s[i]]]
    BY DEF Gather
  <1>. DEFINE more == [i \in DOMAIN s |-> blocks[fit][s[i]]]
  <1>3. fit \in Thread /\ fit' \in 1..NThread+1
    BY <1>1, BoundAssumption DEF IInv, TypeOK, Thread
  <1>4. more \in Seq(DOMAIN objs) /\ \A b \in Entries(fit) : \E i \in DOMAIN s : s[i] = b
    BY <1>3, OrderCovers DEF IInv
  <1>5. obj_buff \in Seq(DOMAIN objs) BY DEF IInv, TypeOK
  <1>6. /\ obj_buff' \in Seq(DOMAIN objs)
        /\ \A i \in DOMAIN obj_buff : i \in DOMAIN obj_buff' /\ obj_buff'[i] = obj_buff[i]
        /\ \A i \in DOMAIN more : \E j \in DOMAIN obj_buff' : obj_buff'[j] = more[i]
    <2>. HIDE DEF more
    <2>1. obj_buff' = obj_buff \o more BY <1>2 DEF more
    <2>2. \A i \in DOMAIN more : /\ Len(obj_buff) + i \in DOMAIN obj_buff'
                                 /\ obj_buff'[Len(obj_buff) + i] = more[i]
      BY <2>1, <1>4, <1>5
    <2>3. obj_buff' \in Seq(DOMAIN objs) BY <2>1, <1>4, <1>5
    <2>4. \A i \in DOMAIN obj_buff : i \in DOMAIN obj_buff' /\ obj_buff'[i] = obj_buff[i]
      BY <2>1, <1>4, <1>5
    <2>. QED BY <2>2, <2>3, <2>4
  <1>7. Places' /\ Mutexes' /\ Sampled' /\ Attributed' BY <1>1, FiniFrame
  <1>8. TypeOK' BY <1>1, <1>3, <1>6 DEF IInv, TypeOK, heap, tabs, app, prof, stop
  <1>9. Control' BY <1>1 DEF IInv, Control, prof
  <1>10. Buffer' /\ Present' BY <1>1 DEF Buffer, Present
  <1>11. Ending'
    <2>1. Quiet => \A t \in Thread : ~Works(t)' BY <1>1 DEF IInv, Ending, Works, app
    <2>2. ASSUME Quiet, NEW o \in DOMAIN objs
          PROVE  Buffered(o)' \/ (fit + 1 <= objs[o].tid /\ Tabled(o)')
      <3>1. Buffered(o) => Buffered(o)' BY <1>6 DEF Buffered
      <3>2. Tabled(o)' <=> Tabled(o) BY <1>1 DEF Tabled, Span, heap, tabs
      <3>3. Buffered(o) \/ (fit <= objs[o].tid /\ Tabled(o))
        BY <1>1, <2>2 DEF IInv, Ending
      <3>4. ASSUME objs[o].tid = fit, Tabled(o) PROVE Buffered(o)'
        <4>1. PICK b \in Span(o) : b \in Block BY SpanBlocks DEF IInv
        <4>2. blocks[fit][b] = o /\ o # None BY <3>4, <4>1 DEF Tabled, IInv, TypeOK, None
        <4>3. fit \in inited BY <4>1, <4>2, <1>3 DEF IInv, Places, Tables, Entered
        <4>4. b \in Entries(fit) BY <4>1, <4>2, <4>3 DEF Entries
        <4>5. PICK i \in DOMAIN s : s[i] = b BY <4>4, <1>4
        <4>6. i \in DOMAIN more /\ more[i] = o BY <4>2, <4>5
        <4>. QED BY <4>6, <1>6 DEF Buffered
      <3>5. objs[o].tid \in Nat /\ fit \in Nat
        BY <1>3, BoundAssumption, SpanBlocks DEF IInv, Thread
      <3>. QED BY <3>1, <3>2, <3>3, <3>4, <3>5
    <2>. QED BY <2>1, <2>2, <1>1 DEF Ending, heap
  <1>12. AllWritten' BY <1>1 DEF AllWritten
  <1>. QED BY <1>7, <1>8, <1>9, <1>10, <1>11, <1>12 DEF IInv

LEMMA WriteKeeps ==
  ASSUME BoundAssumption, IInv, Write
  PROVE  IInv'
  <1>1. /\ fpc = "gather" /\ fpc' = "done" /\ fit > NThread
        /\ out' = obj_buff /\ bufmtx' = Nobody
        /\ UNCHANGED <<heap, mtx, tabs, obj_buff, app, ring, prof, stop, fit>>
    BY DEF Write, FGoto
  <1>2. Places' /\ Mutexes' /\ Sampled' /\ Attributed' BY <1>1, FiniFrame
  <1>3. TypeOK' BY <1>1 DEF IInv, TypeOK, heap, tabs, app, prof, stop
  <1>4. Control' BY <1>1 DEF IInv, Control, prof
  <1>5. Buffer' /\ Present' BY <1>1 DEF Buffer, Present
  <1>6. Ending' BY <1>1 DEF IInv, Ending, Works, app
  <1>7. AllWritten'
    <2>1. \A o \in DOMAIN objs : objs[o].tid \in Thread BY SpanBlocks DEF IInv
    <2>2. \A o \in DOMAIN objs : ~(fit <= objs[o].tid)
      BY <1>1, <2>1, BoundAssumption DEF Thread, IInv, TypeOK
    <2>3. Quiet => \A o \in DOMAIN objs : Buffered(o) BY <1>1, <2>2 DEF IInv, Ending
    <2>. QED BY <2>3, <1>1 DEF AllWritten, Buffered, heap
  <1>. QED BY <1>2, <1>3, <1>4, <1>5, <1>6, <1>7 DEF IInv
-----------------------------------------------------------------------------
LEMMA NextKeeps == ASSUME BoundAssumption, IInv, [Next]_vars PROVE IInv'
  <1>1. ASSUME NEW t \in Thread, Allocate(t) PROVE IInv'
    BY <1>1, AddBlockKeeps, AddInsertKeeps, ClaimKeeps, DeleteRemoveKeeps,
       DeletePushKeeps, SetSiteKeeps, AccessKeeps DEF Allocate
  <1>2. CASE Profile BY <1>2, WalkKeeps, LookKeeps, UpdateKeeps DEF Profile
  <1>3. CASE Finish BY <1>3, FiniWaitsKeeps, GatherKeeps, WriteKeeps DEF Finish
  <1>4. CASE UNCHANGED vars
    <2>1. UNCHANGED <<heap, mtx, tabs, bufs, app, ring, prof, stop, fini>> BY <1>4 DEF vars
    <2>2. Places' /\ Mutexes' /\ Sampled' /\ Attributed' BY <2>1, FiniFrame
    <2>3. Buffer' /\ Present' /\ Ending' /\ AllWritten' BY <2>1, ProfileFrame
    <2>4. TypeOK' BY <2>1 DEF IInv, TypeOK, heap, tabs, bufs, app, prof, stop, fini
    <2>5. Control' BY <2>1 DEF IInv, Control, prof, fini
    <2>. QED BY <2>2, <2>3, <2>4, <2>5 DEF IInv
  <1>. QED BY <1>1, <1>2, <1>3, <1>4 DEF Next, Terminated

(* The invariant holds in every reachable state. *)
THEOREM Inductive == Spec => []IInv
  <1>1. Init => IInv BY InitIInv, BoundAssumption
  <1>2. IInv /\ [Next]_vars => IInv' BY NextKeeps, BoundAssumption
  <1>. QED BY <1>1, <1>2, PTL DEF Spec

(* While the profiler credits an object, it holds the mutex of the object's *)
(* thread and the object cannot be retired (profile.c:321-387); the slot     *)
(* that profile_set_site reads after it has given the mutex back still      *)
(* holds the object it found (profile.c:903-916).                          *)
THEOREM LookupHoldsObject == Spec => []HandOff
  <1>1. IInv => HandOff
    <2>. SUFFICES ASSUME IInv
                  PROVE  /\ ppc = "found" =>
                              /\ mtx[it] = Prof /\ Target # None
                              /\ \A i \in DOMAIN obj_buff : obj_buff[i] # Target
                         /\ \A t \in Thread : apc[t] = "site" =>
                              \A b \in Span(aobj[t]) : Slot(aobj[t])[b] = aobj[t]
      BY DEF HandOff, IInv
    <2>1. ASSUME ppc = "found"
          PROVE  /\ mtx[it] = Prof /\ Target # None
                 /\ \A i \in DOMAIN obj_buff : obj_buff[i] # Target
      <3>1. mtx[it] = Prof /\ Target # None /\ it \in Thread /\ fpc \notin {"gather", "done"}
        BY <2>1 DEF IInv, Mutexes, Control
      <3>2. Sample.block \in Block
        <4>1. todo \in Seq(SampleOf) /\ todo # <<>> BY <2>1 DEF IInv, TypeOK, Control
        <4>2. Sample \in SampleOf BY <4>1 DEF Sample
        <4>. QED BY <4>2 DEF SampleOf
      <3>3. live[Sample.block] = Target BY <3>1, <3>2 DEF IInv, Places, Tables, Target
      <3>. QED BY <3>1, <3>2, <3>3 DEF IInv, Buffer, Retired
    <2>2. ASSUME NEW t \in Thread, apc[t] = "site" PROVE Tabled(aobj[t])
      <3>1. /\ aobj[t] \in DOMAIN objs
            /\ \A b \in Span(aobj[t]) : live[b] = aobj[t]
            /\ \A v \in Thread \ {t} : Works(v) => aobj[v] # aobj[t]
        BY <2>2 DEF IInv, Places, Working, Works
      <3>2. Occupies(aobj[t]) BY <3>1, SpanBlocks DEF IInv, Occupies
      <3>3. ~Moved(aobj[t]) BY <2>2, <3>1 DEF Moved, Moves, Works
      <3>. QED BY <3>1, <3>2, <3>3 DEF IInv, Places, Kept
    <2>. QED BY <2>1, <2>2 DEF Tabled, Slot
  <1>. QED BY <1>1, Inductive, PTL

(* An object is never lost, and never in two places, until profile_fini    *)
(* gathers them (profile_add_block, profile_delete_block).                 *)
THEOREM ObjectsConserved == Spec => []Conserved
  <1>1. IInv => Conserved
    <2>. SUFFICES ASSUME IInv, fpc \notin {"gather", "done"}, NEW o \in DOMAIN objs
                  PROVE  LET at(u)    == {b \in Block : blocks[u][b] = o}
                             moving   == \E t \in Thread : apc[t] \in {"add", "push"} /\ aobj[t] = o
                             inBuffer == Cardinality({i \in DOMAIN obj_buff : obj_buff[i] = o})
                         IN  /\ \A u \in Thread \ {objs[o].tid} : at(u) = {}
                             /\ at(objs[o].tid) \in {{}, Span(o)}
                             /\ inBuffer = IF at(objs[o].tid) = {} /\ ~moving THEN 1 ELSE 0
      BY DEF Conserved
    <2>. DEFINE at(u)  == {b \in Block : blocks[u][b] = o}
                moving == \E t \in Thread : apc[t] \in {"add", "push"} /\ aobj[t] = o
                places == {i \in DOMAIN obj_buff : obj_buff[i] = o}
                home   == objs[o].tid
    <2>1. home \in Thread /\ Span(o) \in SUBSET Block /\ Span(o) # {} /\ o # None
      <3>1. objs \in Seq(Object) BY DEF IInv, TypeOK
      <3>. QED BY <3>1, SpanBlocks DEF IInv, None
    <2>2. ASSUME NEW u \in Thread, NEW b \in Block, blocks[u][b] = o
          PROVE  u = home /\ b \in Span(o) /\ live[b] = o /\ Entered(u, o)
      BY <2>1, <2>2 DEF IInv, Places, Tables, Entered
    <2>3. \A u \in Thread \ {home} : at(u) = {} BY <2>2
    <2>4. at(home) \in {{}, Span(o)}
      <3>1. CASE at(home) # {}
        <4>1. at(home) \subseteq Span(o) BY <2>1, <2>2
        <4>2. Entered(home, o) BY <3>1, <2>1, <2>2
        <4>3. Span(o) \subseteq at(home) BY <4>2, <2>1 DEF Entered
        <4>. QED BY <4>1, <4>3
      <3>. QED BY <3>1
    <2>5. CASE at(home) = {} /\ ~moving
      <3>1. PICK i \in DOMAIN obj_buff : obj_buff[i] = o
        BY <2>1, <2>5 DEF IInv, Places, Kept, Present, Moved, Moves, Tabled, Buffered
      <3>2. places = {i} BY <3>1 DEF IInv, Buffer
      <3>3. Cardinality(places) = 1 BY <3>2, FS_Singleton
      <3>. QED BY <2>3, <2>4, <2>5, <3>3
    <2>6. CASE ~(at(home) = {} /\ ~moving)
      <3>1. ~Retired(o)
        <4>1. CASE moving BY <4>1 DEF Retired, Works
        <4>2. CASE at(home) # {} BY <4>2, <2>1, <2>2 DEF Retired
        <4>. QED BY <2>6, <4>1, <4>2
      <3>2. places = {} BY <3>1 DEF IInv, Buffer
      <3>3. Cardinality(places) = 0 BY <3>2, FS_EmptySet
      <3>. QED BY <2>3, <2>4, <2>6, <3>3
    <2>. QED BY <2>5, <2>6
  <1>. QED BY <1>1, Inductive, PTL

(* What profile_fini writes is complete when the threads are at rest. *)
THEOREM EverythingWritten == Spec => []AllWritten
  BY Inductive, PTL DEF IInv

(* Until shutdown a sample goes to the object that was accessed, although  *)
(* blocks are handed out again (profile.c:355-363).                        *)
THEOREM SamplesAttributed == Spec => []Attributed
  BY Inductive, PTL DEF IInv
=============================================================================
