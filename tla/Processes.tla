------------------------------ MODULE Processes ------------------------------
(***************************************************************************)
(* The processes of one fork as clients of src/src/vgc_malloc.c: which     *)
(* MMAP each of them sees at an address, and what their ends leave behind. *)
(*                                                                         *)
(* shared->mmapBlockFirst and the headers of the MMAPs are in shared       *)
(* memory, but an address means what the reader has mapped there: fork     *)
(* copies the mappings, mmap and munmap change those of the caller alone.  *)
(* A process may so follow a pointer to nothing, and die of SIGSEGV, or to *)
(* an MMAP that another process has given up.                              *)
(*                                                                         *)
(* The sections under the mutex are one step: a process that dies in one   *)
(* passes the robust mutexes on (CrashRecovery).  An MMAP is a number of   *)
(* blocks (BlockList has the inside of it).  Left out: guard pages         *)
(* (MprotectMP), an mmap that fails (VGCMalloc).                           *)
(***************************************************************************)
EXTENDS Integers, FiniteSets, FiniteSetsExt

CONSTANTS
  Procs,
  Master,      \* shared->pid
  Addresses,   \* where an MMAP may be mapped
  Nowhere,     \* the null pointer
  Mmaps,       \* pieces of memory the system may give
  NoMmap,      \* what is mapped at an address where nothing is
  Room,        \* blocks of an MMAP
  MaxForks     \* bound: forks of the whole run

ASSUME ProcessesAssumption ==
  /\ Master \in Procs
  /\ IsFiniteSet(Addresses) /\ Nowhere \notin Addresses
  /\ NoMmap \notin Mmaps
  /\ Room \in Nat \ {0}
  /\ MaxForks \in Nat

VARIABLES
  first,     \* shared->mmapBlockFirst
  mutex,     \* shared->mutex
  header,    \* the VGC_mmapHeader at the start of each piece of memory
  view,      \* what each process has mapped at each address
  live,      \* what clients own
  call,      \* where each process is
  alive,     \* the processes that run
  forks,     \* how many forks there were
  together   \* history: nobody has mapped an MMAP while others ran

vars == <<first, mutex, header, view, live, call, alive, forks, together>>

--------------------------------------------------------------------------------
Header == [prev : Addresses \cup {Nowhere}, next : Addresses \cup {Nowhere},
           busy : SUBSET (1 .. Room), mutex : {"usable", "destroyed"}]

Unused == [prev |-> Nowhere, next |-> Nowhere, busy |-> {}, mutex |-> "destroyed"]

Allocation == [owner : Procs, at : Addresses, m : Mmaps, n : 1 .. Room]

Call == [pc : {"idle", "publish", "search", "circling"}, at : Addresses \cup {Nowhere}]

Idle == [pc |-> "idle", at |-> Nowhere]

NoMappings == [a \in Addresses |-> NoMmap]

(* my_init, in the process that loads the library. *)
Init ==
  /\ first = Nowhere
  /\ mutex = "usable"
  /\ header = [m \in Mmaps |-> Unused]
  /\ view = [p \in Procs |-> NoMappings]
  /\ live = {}
  /\ call = [p \in Procs |-> Idle]
  /\ alive = {Master}
  /\ forks = 0
  /\ together = TRUE

--------------------------------------------------------------------------------
(* The addresses a walk of p over the list comes to, in their order.  It   *)
(* stays where the list ends, or where p has nothing mapped.               *)
Sees(p, a) == a # Nowhere /\ view[p][a] # NoMmap

Walk(p) ==
  LET at[i \in 0 .. Cardinality(Addresses)] ==
        IF i = 0 THEN first
        ELSE IF Sees(p, at[i - 1]) THEN header[view[p][at[i - 1]]].next ELSE at[i - 1]
  IN  at

(* Where the walk is over: at one of `wanted`, at the end, at a fault.     *)
Stops(p, wanted) ==
  {i \in DOMAIN Walk(p) : Walk(p)[i] \in wanted \/ ~Sees(p, Walk(p)[i])}

Found(p, wanted) == Walk(p)[Min(Stops(p, wanted))]

(* allocMallocBlock passes by an MMAP that is full or cannot be locked. *)
Serving(p) ==
  {a \in Addresses :
     /\ Sees(p, a)
     /\ header[view[p][a]].mutex = "usable"
     /\ header[view[p][a]].busy # 1 .. Room}

Unmapped == {m \in Mmaps : \A p \in Procs : \A a \in Addresses : view[p][a] # m}

(* mmap gives memory nobody has, at an address the caller does not use. *)
Maps(p, a, m) ==
  /\ view[p][a] = NoMmap
  /\ m \in Unmapped
  /\ view' = [view EXCEPT ![p][a] = m]
  /\ together' = (together /\ alive = {p})

Fresh(prev) == [prev |-> prev, next |-> Nowhere, busy |-> {}, mutex |-> "usable"]

Return(p) == call' = [call EXCEPT ![p] = Idle]

(* The end of a process: its mappings go, what it had allocated stays busy. *)
Ends(p) ==
  /\ alive' = alive \ {p}
  /\ view' = [view EXCEPT ![p] = NoMappings]
  /\ live' = {a \in live : a.owner # p}
  /\ Return(p)
  /\ UNCHANGED <<forks, together>>

(* SIGSEGV with SEGV_MAPERR: the handler kills the process. *)
Fault(p) == Ends(p) /\ UNCHANGED <<first, mutex>>

--------------------------------------------------------------------------------
(* vgc_malloc: the lines without the mutex.  What may happen between the   *)
(* test of mmapBlockFirst and its use is in VGCMalloc; here they are one   *)
(* step, and the store after an mmap another.                              *)

Malloc(p) ==
  /\ call[p].pc = "idle"
  /\ first # Nowhere
  /\ Sees(p, first)
  /\ call' = [call EXCEPT ![p].pc = "search"]
  /\ UNCHANGED <<first, mutex, header, view, live, alive, forks, together>>

(* maxSize is read of what mmapBlockFirst points to. *)
MallocFaults(p) ==
  /\ call[p].pc = "idle"
  /\ first # Nowhere
  /\ ~Sees(p, first)
  /\ Fault(p)
  /\ UNCHANGED header

MapFirst(p) ==
  /\ call[p].pc = "idle"
  /\ first = Nowhere
  /\ \E a \in Addresses, m \in Mmaps :
       /\ Maps(p, a, m)
       /\ header' = [header EXCEPT ![m] = Fresh(Nowhere)]
       /\ call' = [call EXCEPT ![p] = [pc |-> "publish", at |-> a]]
  /\ UNCHANGED <<first, mutex, live, alive, forks>>

Publish(p) ==
  /\ call[p].pc = "publish"
  /\ first' = call[p].at
  /\ call' = [call EXCEPT ![p] = [pc |-> "search", at |-> Nowhere]]
  /\ UNCHANGED <<mutex, header, view, live, alive, forks, together>>

(* PTHREAD_mutexLock fails once the master has destroyed the mutex. *)
Refused(p) ==
  /\ call[p].pc = "search"
  /\ mutex = "destroyed"
  /\ Return(p)
  /\ UNCHANGED <<first, mutex, header, view, live, alive, forks, together>>

(* vgc_malloc: the lines with the mutex. *)

MutexFree == mutex = "usable" /\ \A q \in alive : call[q].pc # "circling"

Locked(p) == call[p].pc = "search" /\ MutexFree

(* The headers with one link of the MMAP at address a changed. *)
Relink(h, p, a, field, to) ==
  IF a = Nowhere THEN h
  ELSE IF field = "prev" THEN [h EXCEPT ![view[p][a]].prev = to]
  ELSE [h EXCEPT ![view[p][a]].next = to]

(* Mutants of FreeBlocks: a block in use is handed out, one before the first. *)
AnyBlock(h, m) == 1 .. Room

BlocksFromZero(h, m) == (0 .. Room) \ h[m].busy

FreeBlocks(h, m) == (1 .. Room) \ h[m].busy

Take(p, a, m, h) ==
  \E n \in FreeBlocks(h, m) :
    /\ n = Min(FreeBlocks(h, m))
    /\ header' = [h EXCEPT ![m].busy = @ \cup {n}]
    /\ live' = live \cup {[owner |-> p, at |-> a, m |-> m, n |-> n]}
    /\ Return(p)

Searches(p) == Locked(p) /\ Stops(p, Serving(p)) # {}

TakeFromList(p) ==
  /\ Searches(p)
  /\ \E a \in Serving(p) :
       /\ a = Found(p, Serving(p))
       /\ Take(p, a, view[p][a], header)
  /\ UNCHANGED <<first, mutex, view, alive, forks, together>>

(* The last MMAP of the list p sees, if there is one. *)
Last(p) ==
  LET end == Min(Stops(p, {})) IN IF end = 0 THEN Nowhere ELSE Walk(p)[end - 1]

(* A new MMAP goes to the end of the list, as p sees it. *)
TakeFromNewMmap(p) ==
  /\ Searches(p)
  /\ Found(p, Serving(p)) = Nowhere
  /\ \E a \in Addresses, m \in Mmaps, last \in Addresses \cup {Nowhere} :
       LET h == [header EXCEPT ![m] = Fresh(last)] IN
       /\ last = Last(p)
       /\ last # Nowhere => Sees(p, last)
       /\ Maps(p, a, m)
       /\ Take(p, a, m, Relink(h, p, last, "next", a))
  /\ UNCHANGED <<first, mutex, alive, forks>>

SearchFaults(p) ==
  LET a == Found(p, Serving(p)) IN
  /\ Searches(p)
  /\ a # Nowhere /\ ~Sees(p, a)
  /\ Fault(p)
  /\ UNCHANGED header

--------------------------------------------------------------------------------
(* vgc_free *)

Owns(p, b) == call[p].pc = "idle" /\ b \in live /\ b.owner = p

MayFree(p, b) == Owns(p, b) /\ MutexFree

(* isInMmapBlock goes through the list as p sees it. *)
Finds(p, b) == MayFree(p, b) /\ Stops(p, {b.at}) # {}

(* A list that is a circle to p is walked for ever, with the mutex. *)
Circles(p) ==
  /\ \/ Locked(p) /\ Stops(p, Serving(p)) = {}
     \/ \E b \in live : MayFree(p, b) /\ Stops(p, {b.at}) = {}
  /\ call' = [call EXCEPT ![p].pc = "circling"]
  /\ UNCHANGED <<first, mutex, header, view, live, alive, forks, together>>

Freed(b) == [header EXCEPT ![b.m].busy = @ \ {b.n}]

(* The MMAP is not on the list p sees, or the master has ended: the block  *)
(* stays busy.                                                             *)
FreeRefused(p, b) ==
  /\ \/ Owns(p, b) /\ mutex = "destroyed"
     \/ Finds(p, b) /\ Found(p, {b.at}) = Nowhere
  /\ live' = live \ {b}
  /\ UNCHANGED <<first, mutex, header, view, call, alive, forks, together>>

FreeFaults(p, b) ==
  /\ Finds(p, b)
  /\ Found(p, {b.at}) \notin {Nowhere, b.at}
  /\ Fault(p)
  /\ UNCHANGED header

FreeBlock(p, b) ==
  /\ Finds(p, b)
  /\ Found(p, {b.at}) = b.at
  /\ Freed(b)[b.m].busy # {}
  /\ header' = Freed(b)
  /\ live' = live \ {b}
  /\ UNCHANGED <<first, mutex, view, call, alive, forks, together>>

(* The neighbours of an MMAP that is all free are locked to unlink it. *)
Lockable(p, a) ==
  a # Nowhere => Sees(p, a) /\ header[view[p][a]].mutex = "usable"

(* The headers when the free has come to the MMAP's prev, then to its end. *)
NextRelinked(p, b) ==
  Relink(Freed(b), p, header[b.m].next, "prev", header[b.m].prev)

(* Mutant of Unlinked: the MMAP's prev still leads to it. *)
UnlinkedOneWay(p, b) == NextRelinked(p, b)

Unlinked(p, b) ==
  Relink(NextRelinked(p, b), p, header[b.m].prev, "next", header[b.m].next)

(* Mutant of IsLast: the other blocks of the MMAP are forgotten. *)
FoundOnList(p, b) == Finds(p, b) /\ Found(p, {b.at}) = b.at

IsLast(p, b) ==
  Finds(p, b) /\ Found(p, {b.at}) = b.at /\ Freed(b)[b.m].busy = {}

(* A neighbour that p has not mapped, or that is not to be locked: the     *)
(* block is free, the MMAP stays, and its next may be relinked already.    *)
FreeStops(p, b) ==
  LET stop == IF Lockable(p, header[b.m].next) THEN header[b.m].prev
              ELSE header[b.m].next
  IN  /\ IsLast(p, b)
      /\ ~Lockable(p, stop)
      /\ header' = IF stop = header[b.m].next THEN Freed(b) ELSE NextRelinked(p, b)
      /\ IF Sees(p, stop)
         THEN /\ live' = live \ {b}
              /\ UNCHANGED <<first, mutex, view, call, alive, forks, together>>
         ELSE Fault(p)

(* The mutex of the MMAP is destroyed, for all; unmapped it is for p only. *)
FreeMMAP(p, b) ==
  /\ IsLast(p, b)
  /\ Lockable(p, header[b.m].next) /\ Lockable(p, header[b.m].prev)
  /\ header' = [Unlinked(p, b) EXCEPT ![b.m].mutex = "destroyed"]
  /\ first' = IF b.at = first THEN Nowhere ELSE first
  /\ view' = [view EXCEPT ![p][b.at] = NoMmap]
  /\ live' = live \ {b}
  /\ UNCHANGED <<mutex, call, alive, forks, together>>

--------------------------------------------------------------------------------
(* The life of a process. *)

(* The child has the mappings of its parent. *)
Fork(p, child) ==
  /\ call[p].pc = "idle"
  /\ child \in Procs \ (alive \cup {Master})
  /\ forks < MaxForks
  /\ forks' = forks + 1
  /\ alive' = alive \cup {child}
  /\ view' = [view EXCEPT ![child] = view[p]]
  /\ UNCHANGED <<first, mutex, header, live, call, together>>

(* my_fini does nothing in a child.  A client that runs into a guard page  *)
(* comes here, too: the handler makes it call exit.                        *)
ExitChild(p) ==
  /\ p # Master
  /\ call[p].pc = "idle"
  /\ Ends(p)
  /\ UNCHANGED <<first, mutex, header>>

(* mallocCleanup dumps the first MMAP, if there is one, and destroys the   *)
(* mutex; SIGSEGV where the master has not mapped it.                      *)
ExitMaster(p) ==
  /\ p = Master
  /\ call[p].pc = "idle"
  /\ mutex' = IF first = Nowhere \/ Sees(p, first) THEN "destroyed" ELSE mutex
  /\ Ends(p)
  /\ UNCHANGED <<first, header>>

(* A process is killed between two steps. *)
Crash(p) ==
  /\ call[p].pc # "idle"
  /\ Fault(p)
  /\ UNCHANGED header

Step(p) ==
  \/ Malloc(p) \/ MallocFaults(p) \/ MapFirst(p) \/ Publish(p)
  \/ Refused(p) \/ TakeFromList(p) \/ TakeFromNewMmap(p) \/ SearchFaults(p)
  \/ Circles(p)
  \/ \E b \in live : \/ FreeRefused(p, b) \/ FreeFaults(p, b)
                     \/ FreeBlock(p, b) \/ FreeStops(p, b) \/ FreeMMAP(p, b)
  \/ \E child \in Procs : Fork(p, child)
  \/ ExitChild(p) \/ ExitMaster(p) \/ Crash(p)

Next == \E p \in alive : Step(p)

Spec == Init /\ [][Next]_vars

--------------------------------------------------------------------------------
(* The kinds of values the variables hold. *)
TypeOK ==
  /\ first \in Addresses \cup {Nowhere}
  /\ mutex \in {"usable", "destroyed"}
  /\ header \in [Mmaps -> Header]
  /\ view \in [Procs -> [Addresses -> Mmaps \cup {NoMmap}]]
  /\ live \subseteq Allocation
  /\ call \in [Procs -> Call]
  /\ alive \subseteq Procs
  /\ forks \in 0 .. MaxForks
  /\ together \in BOOLEAN

(* What a process was given it has until it frees it: the address still    *)
(* means the same memory, and the block is busy there, whatever the others *)
(* unmap, map anew or leave behind, and after the master has ended.        *)
StillBacked ==
  \A b \in live : view[b.owner][b.at] = b.m /\ b.n \in header[b.m].busy

(* No block is given to two, not even through a mapping that is out of     *)
(* date.                                                                   *)
NotShared == \A b, c \in live : b # c => <<b.m, b.n>> # <<c.m, c.n>>

(* No call walks in circles with the mutex held, whatever the memory is    *)
(* that a process takes for an MMAP of the list.                           *)
NoneCircles == \A p \in alive : call[p].pc # "circling"

(* As long as MMAPs are only mapped while no other process runs, all see   *)
(* the same list, and the links agree both ways: nobody faults with the    *)
(* mutex held, whoever frees and whoever ends.                             *)
SameList ==
  together =>
    \A p, q \in alive : \A i \in DOMAIN Walk(p) :
      LET a == Walk(p)[i] IN
      a # Nowhere =>
        /\ Sees(p, a)
        /\ view[p][a] = view[q][a]
        /\ header[view[p][a]].mutex = "usable"
        /\ header[view[p][a]].prev = IF i = 0 THEN Nowhere ELSE Walk(p)[i - 1]

(* A pointer may be handed on in shared memory: as long as MMAPs are only  *)
(* mapped while no other process runs, the address of a block in use means *)
(* its memory to every process that runs, whichever of them was given the  *)
(* block, whatever they free, and whoever was forked since.                *)
PointersShared ==
  together => \A b \in live, p \in alive : view[p][b.at] = b.m
================================================================================
