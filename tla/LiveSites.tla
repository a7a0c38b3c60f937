----------------------------- MODULE LiveSites -----------------------------
(***************************************************************************)
(* examples/live_largest_sites: once per interval the tool reads the       *)
(* object map of a process, adds up the resident pages of each site in a   *)
(* red-black tree, prints the tree and empties it while traversing it.     *)
(*                                                                         *)
(* Sites are the keys of the tree, integers in the order strcmp gives the  *)
(* strings.                                                                *)
(***************************************************************************)
EXTENDS RBTree

CONSTANTS
  Object,    \* the ranges an object of the process may occupy
  NoSite,    \* the site of an object without a cooperative buffer
  SiteOf,    \* the site of the object in each range
  Pages      \* resident page counts a record may show

ASSUME SiteAssumption == SiteOf \in [Object -> Key \cup {NoSite}] /\ NoSite \notin Key
ASSUME PageAssumption == Pages \subseteq Nat

VARIABLES
  sites,    \* the tree
  pc, it,   \* control of do_loop, and the iterator of the traversal
  ghost,    \* the node last freed, as free left it
  fd,       \* what the descriptor of line 157 happens to be
  present,  \* kernel: the objects of the process
  gone,     \* kernel: the process has ended
  todo,     \* names that readdir has still to return
  closed,   \* the directory's descriptor has been closed under the stream
  steady, counted,  \* history: objects there since opendir, objects counted
  total,    \* history: pages found for each site in this interval
  printed   \* the lines of this interval

env  == <<present, gone, steady>>
hist == <<counted, total, printed>>
vars == <<sites, pc, it, ghost, fd, env, todo, closed, hist>>

(***************************************************************************)
(* The process: its objects come and go.  readdir may or may not return    *)
(* what appears while the directory is open, a range at most once.         *)
(***************************************************************************)
Create(o) ==
  /\ ~gone /\ o \notin present
  /\ present' = present \cup {o}
  /\ todo' \in {todo} \cup IF pc = "scan" /\ o \notin counted THEN {todo \cup {o}} ELSE {}
  /\ UNCHANGED <<sites, pc, it, ghost, fd, gone, closed, steady, hist>>

Destroy(o) ==
  /\ o \in present
  /\ present' = present \ {o}
  /\ steady' = steady \ {o}
  /\ UNCHANGED <<sites, pc, it, ghost, fd, gone, todo, closed, hist>>

Exit ==
  /\ ~gone
  /\ gone' = TRUE /\ present' = {} /\ steady' = {}
  /\ UNCHANGED <<sites, pc, it, ghost, fd, todo, closed, hist>>

(***************************************************************************)
(* do_loop                                                                 *)
(***************************************************************************)
Goto(from, to) == pc = from /\ pc' = to

Open ==
  /\ Goto("open", "scan")
  /\ ~gone
  /\ todo' = present /\ steady' = present
  /\ UNCHANGED <<sites, closed, it, ghost, fd, present, gone, hist>>

OpenFails ==
  /\ Goto("open", "done")
  /\ gone
  /\ UNCHANGED <<sites, it, ghost, fd, env, todo, closed, hist>>

Scanning(o) == pc = "scan" /\ o \in todo /\ todo' = todo \ {o}

(* fd is never assigned: it may be any descriptor, also the directory's *)
CloseFd == closed' = (closed \/ fd = "dir")

(* mutant of Vanished: the error ends the scan *)
VanishedEnds(o) ==
  /\ pc = "scan" /\ o \in todo /\ o \notin present
  /\ todo' = {}
  /\ UNCHANGED <<sites, pc, it, ghost, fd, env, closed, hist>>

(* objmap_entry_read_record: ENOENT *)
Vanished(o) ==
  /\ Scanning(o)
  /\ o \notin present
  /\ UNCHANGED <<sites, pc, it, ghost, fd, env, closed, hist>>

(* the object has no cooperative buffer, or goes before that is read *)
NotCounted(o) ==
  /\ Scanning(o)
  /\ o \in present
  /\ \/ SiteOf[o] = NoSite /\ UNCHANGED env
     \/ SiteOf[o] # NoSite /\ present' = present \ {o} /\ steady' = steady \ {o} /\ UNCHANGED gone
  /\ CloseFd
  /\ UNCHANGED <<sites, pc, it, ghost, fd, hist>>

Add(t, s, n) ==
  LET t1 == IF Lookup(t, s) = NULL THEN Insert(t, s, 0) ELSE t
  IN  [t1 EXCEPT !.n[Lookup(t1, s)].val = @ + n]

Count(o, n) ==
  /\ Scanning(o)
  /\ o \in present /\ SiteOf[o] # NoSite
  /\ sites' = Add(sites, SiteOf[o], n)
  /\ CloseFd
  /\ counted' = counted \cup {o}
  /\ total' = [total EXCEPT ![SiteOf[o]] = @ + n]
  /\ UNCHANGED <<pc, it, ghost, fd, env, printed>>

(* closedir and tree_begin; readdir returns NULL on a closed descriptor,   *)
(* after what the stream has buffered                                      *)
EndOfDir ==
  /\ Goto("scan", "print")
  /\ todo = {} \/ closed
  /\ todo' = {} /\ steady' = {} /\ closed' = FALSE
  /\ it' = sites.beg
  /\ UNCHANGED <<sites, ghost, fd, present, gone, hist>>

(* tree_delete frees the iterator's node, and tree_it_next reads it after  *)
(* that.  glibc's free overwrites the first two words of the node, _red    *)
(* and _children[0], and nothing is allocated in between.                  *)
Garbage(r) == [r EXCEPT !.red = FALSE, !.ch[1] = NULL]
Recalled ==
  [sites EXCEPT !.n = [x \in DOMAIN ghost \cup DOMAIN @ |-> IF x \in DOMAIN ghost THEN ghost[x] ELSE @[x]]]

PrintLine == printed' = Append(printed, [site |-> sites.n[it].key, pages |-> sites.n[it].val])

(* mutant of PrintSite: the data is not reset *)
PrintKept ==
  /\ pc = "print" /\ it \in DOMAIN sites.n
  /\ PrintLine
  /\ pc' = "next"
  /\ UNCHANGED <<sites, it, ghost, fd, env, todo, closed, counted, total>>

PrintSite ==
  /\ Goto("print", "next")
  /\ it # NULL
  /\ PrintLine
  /\ \E r \in {Removed(sites, sites.n[it].key)} :
       /\ sites' = Free(r.t, r.q)
       /\ ghost' = [x \in {r.q} |-> Garbage(r.t.n[x])]
  /\ UNCHANGED <<it, fd, env, todo, closed, counted, total>>

NextSite ==
  /\ Goto("next", "print")
  /\ it' = ItNext(Recalled, it)
  /\ ghost' = <<>>
  /\ UNCHANGED <<sites, fd, env, todo, closed, hist>>

EndOfPrint ==
  /\ Goto("print", "sleep")
  /\ it = NULL
  /\ UNCHANGED <<sites, it, ghost, fd, env, todo, closed, hist>>

Sleep ==
  /\ Goto("sleep", "open")
  /\ counted' = {} /\ total' = [s \in Key |-> 0] /\ printed' = <<>>
  /\ UNCHANGED <<sites, it, ghost, fd, env, todo, closed>>

Done == pc = "done" /\ gone /\ UNCHANGED vars

DoLoop ==
  \/ Open \/ OpenFails
  \/ \E o \in Object : Vanished(o) \/ NotCounted(o) \/ \E n \in Pages : Count(o, n)
  \/ EndOfDir \/ PrintSite \/ NextSite \/ EndOfPrint \/ Sleep
-----------------------------------------------------------------------------
Init ==
  /\ sites = TreeMake
  /\ pc = "open" /\ it = NULL /\ ghost = <<>>
  /\ fd \in {"dir", "other"}
  /\ present \in SUBSET Object /\ gone = FALSE
  /\ todo = {} /\ closed = FALSE
  /\ steady = {} /\ counted = {} /\ total = [s \in Key |-> 0] /\ printed = <<>>

Next == \/ \E o \in Object : Create(o) \/ Destroy(o)
        \/ Exit \/ DoLoop \/ Done

Spec == Init /\ [][Next]_vars
-----------------------------------------------------------------------------
(* The lines of an interval, printed by an iterator whose nodes are freed  *)
(* under it, are the sites found in this interval with their pages, in     *)
(* order, each once, and nothing of it stays for the next interval.        *)
IntervalExact ==
  pc = "sleep" =>
    /\ \A i, j \in DOMAIN printed : i < j => printed[i].site < printed[j].site
    /\ {printed[i].site : i \in DOMAIN printed} = {SiteOf[o] : o \in counted}
    /\ \A i \in DOMAIN printed : printed[i].pages = total[printed[i].site]
    /\ sites = TreeMake

(* Unless the stray close hits the directory, every object with a site     *)
(* that exists from opendir to the end of the scan is counted.             *)
SteadyCounted ==
  pc = "scan" /\ todo = {} /\ fd # "dir" => \A o \in steady : SiteOf[o] # NoSite => o \in counted
=============================================================================
