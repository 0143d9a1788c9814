----------------------------- MODULE CrashRecovery -----------------------------
(***************************************************************************)
(* What a process leaves behind that ends inside of vgc_malloc or vgc_free *)
(* (src/src/vgc_malloc.c), and what the next one makes of it.              *)
(*                                                                         *)
(* Processes of one fork share an MMAP that was mapped before.  The calls  *)
(* lock the shared mutex and then the MMAP's.  Both are robust: after the  *)
(* end of its owner a mutex goes to the next who asks, with EOWNERDEAD;    *)
(* PTHREAD_mutexLock declares it consistent and reports success            *)
(* (src/src/vgc_pthread.c:22), and the call goes on with the list as it    *)
(* is.  What VGCMalloc takes as one step is therefore here one step per    *)
(* store, in the order of the source: the Makefile compiles without -O.    *)
(*                                                                         *)
(* Left out, for VGCMalloc has them: the lines before the mutex is held,   *)
(* guard pages and where a pointer lies in its block, further MMAPs.       *)
(***************************************************************************)
EXTENDS BlockList, Sequences

CONSTANTS
  Procs,        \* the processes
  Nobody,       \* the owner of a mutex that is free
  OwnerDied,    \* the owner of a mutex whose owner has ended
  MmapSize,     \* bytes of the MMAP
  Sizes,        \* sizes requested of vgc_malloc
  MaxCrashes,   \* bound: how many processes end inside of a call
  CrashInJoin   \* whether one ends between the first two stores of a join

ASSUME CrashAssumption ==
  /\ Nobody \notin Procs /\ OwnerDied \notin Procs /\ Nobody # OwnerDied
  /\ MmapSize \in Nat /\ MmapSize > MmapHeaderSize + MallocHeaderSize
  /\ Sizes \subseteq Nat \ {0}
  /\ MaxCrashes \in Nat
  /\ CrashInJoin \in BOOLEAN

VARIABLES
  mem,      \* the headers that were ever written, by offset
  mapped,   \* whether the MMAP is there
  live,     \* what clients own
  mutex,    \* shared->mutex and mmapBlock->mutex
  proc,     \* where each process is
  alive,    \* the processes that run
  crashes,  \* how many have ended so far
  before    \* history: the list when the mutexes were last taken

vars == <<mem, mapped, live, mutex, proc, alive, crashes, before>>

--------------------------------------------------------------------------------
Mutexes == {"shared", "mmap"}

Mutex == [owner : Procs \cup {Nobody, OwnerDied},
          state : {"consistent", "inconsistent", "lost"}]

Unlocked == [owner |-> Nobody, state |-> "consistent"]

Allocation == [block : Nat, size : Nat]

(* h, n: the two blocks that are worked on; own: the block of vgc_free;    *)
(* got: what vgc_malloc is going to return.                                *)
Proc == [pc : {"idle", "lock", "mend", "search", "header", "size", "status",
               "next", "prev", "free", "grow", "unlink", "back", "last",
               "unlock", "leave"},
         op : {"malloc", "free"}, m : Mutexes, size : Nat, length : Nat,
         h : Nat, n : Nat, own : Nat, got : Nat]

Idle == [pc |-> "idle", op |-> "malloc", m |-> "shared", size |-> 0,
         length |-> 0, h |-> NULL, n |-> NULL, own |-> NULL, got |-> NULL]

NoList == [h \in {} |-> NULL]

Init ==
  /\ mem = FreshBlocks(MmapSize)
  /\ mapped = TRUE
  /\ live = {}
  /\ mutex = [m \in Mutexes |-> Unlocked]
  /\ proc = [p \in Procs |-> Idle]
  /\ alive = Procs
  /\ crashes = 0
  /\ before = NoList

--------------------------------------------------------------------------------
(* The blocks the walk over the list meets, from the first on. *)
Linked(M) ==
  LET meets[i \in 0 .. Cardinality(DOMAIN M)] ==
        IF i = 0 THEN {FirstHeader}
        ELSE (meets[i - 1] \cup {M[h].next : h \in meets[i - 1]}) \ {NULL}
  IN  meets[Cardinality(DOMAIN M)]

List(M) == [h \in Linked(M) |-> M[h]]

Ends(M) == \E h \in Linked(M) : M[h].next = NULL

Passes(M) == CheckMmapBlock(List(M), MmapSize, MmapSize)

Goto(p, pc) == proc' = [proc EXCEPT ![p].pc = pc]

(* Mutant of After: the new block is linked before the old one has shrunk. *)
LinkFirst(pc) ==
  [header |-> "next", next |-> "prev", prev |-> "size", size |-> "status",
   status |-> "unlock", grow |-> "unlink", unlink |-> "back"][pc]

(* The order of the stores: of allocMallocBlock, and of a join. *)
After(pc) ==
  [header |-> "size", size |-> "status", status |-> "next", next |-> "prev",
   prev |-> "unlock", grow |-> "unlink", unlink |-> "back"][pc]

Store(p, pc, M) ==
  /\ proc[p].pc = pc
  /\ mem' = M
  /\ Goto(p, After(pc))
  /\ UNCHANGED <<mapped, live, mutex, alive, crashes, before>>

--------------------------------------------------------------------------------
(* PTHREAD_mutexLock, PTHREAD_mutexConsistent and PTHREAD_mutexUnlock. *)

(* vgc_malloc searches and vgc_free checks the list once both are locked. *)
Locked(p, m) ==
  IF m = "shared" THEN proc' = [proc EXCEPT ![p].pc = "lock", ![p].m = "mmap"]
  ELSE Goto(p, "search")

(* Mutant of Lock: what PTHREAD_mutexLock returns is not looked at. *)
LockRegardless(p) ==
  LET m == proc[p].m IN
  /\ mapped
  /\ proc[p].pc = "lock"
  /\ mutex' = [mutex EXCEPT ![m].owner = IF @ = Nobody THEN p ELSE @]
  /\ Locked(p, m)
  /\ before' = List(mem)
  /\ UNCHANGED <<mem, mapped, live, alive, crashes>>

Lock(p) ==
  LET m == proc[p].m IN
  /\ mapped
  /\ proc[p].pc = "lock"
  /\ mutex[m].owner = Nobody
  /\ mutex[m].state # "lost"
  /\ mutex' = [mutex EXCEPT ![m].owner = p]
  /\ Locked(p, m)
  /\ before' = List(mem)
  /\ UNCHANGED <<mem, mapped, live, alive, crashes>>

LockOfDead(p) ==
  LET m == proc[p].m IN
  /\ mapped
  /\ proc[p].pc = "lock"
  /\ mutex[m].owner = OwnerDied
  /\ mutex' = [mutex EXCEPT ![m] = [owner |-> p, state |-> "inconsistent"]]
  /\ Goto(p, "mend")
  /\ UNCHANGED <<mem, mapped, live, alive, crashes, before>>

(* Mutant of Consistent: the mutex is used as it came. *)
AsItCame(m) == mutex[m]

(* The state a mutex has after pthread_mutex_consistent. *)
Consistent(m) == [mutex[m] EXCEPT !.state = "consistent"]

Mend(p) ==
  LET m == proc[p].m IN
  /\ proc[p].pc = "mend"
  /\ mutex' = [mutex EXCEPT ![m] = Consistent(m)]
  /\ Locked(p, m)
  /\ before' = List(mem)
  /\ UNCHANGED <<mem, mapped, live, alive, crashes>>

(* Unlocked while inconsistent, a mutex is lost for everybody. *)
Released(m) ==
  [owner |-> Nobody,
   state |-> IF mutex[m].state = "inconsistent" THEN "lost" ELSE mutex[m].state]

UnlockMmap(p) ==
  /\ proc[p].pc = "unlock"
  /\ mutex' = [mutex EXCEPT !["mmap"] = Released("mmap")]
  /\ Goto(p, "leave")
  /\ UNCHANGED <<mem, mapped, live, alive, crashes, before>>

(* The end of a call.  vgc_malloc returns what it has found, if it has. *)
Leave(p) ==
  /\ proc[p].pc = "leave"
  /\ mutex' = [mutex EXCEPT !["shared"] = Released("shared")]
  /\ live' = live \cup {[block |-> h, size |-> proc[p].size] :
                          h \in {proc[p].got} \ {NULL}}
  /\ proc' = [proc EXCEPT ![p] = Idle]
  /\ before' = NoList
  /\ UNCHANGED <<mem, mapped, alive, crashes>>

--------------------------------------------------------------------------------
(* vgc_malloc *)

Malloc(p, size) ==
  /\ mapped
  /\ proc[p].pc = "idle"
  /\ proc' = [proc EXCEPT ![p] = [Idle EXCEPT !.pc = "lock", !.size = size]]
  /\ UNCHANGED <<mem, mapped, live, mutex, alive, crashes, before>>

(* allocMallocBlock looks for a block, then checks the list.  Where one of  *)
(* these walks has no end the process stays at it, with both mutexes.      *)
Search(p) ==
  LET size  == proc[p].size
      found == Fits(List(mem), size) # {}
      h     == FirstFit(List(mem), size)
  IN  /\ proc[p].pc = "search"
      /\ proc[p].op = "malloc"
      /\ \/ /\ found /\ Passes(mem) /\ Ends(mem)
            /\ proc' = [proc EXCEPT ![p] =
                 IF Splits(mem, h, size)
                 THEN [@ EXCEPT !.pc = "header", !.h = h, !.got = h,
                                !.n = Remainder(h, size), !.length = RoundUp(size)]
                 ELSE [@ EXCEPT !.pc = "size", !.h = h, !.got = h,
                                !.n = mem[h].next, !.length = mem[h].size]]
         \/ /\ IF found THEN ~Passes(mem) ELSE Ends(mem)
            /\ Goto(p, "unlock")
      /\ UNCHANGED <<mem, mapped, live, mutex, alive, crashes, before>>

(* Nobody can reach the new header before `next` leads to it: its fields   *)
(* are one store.                                                          *)
StoreHeader(p) ==
  LET h == proc[p].h
      n == proc[p].n
      header == [size   |-> mem[h].size - (proc[p].length + MallocHeaderSize),
                 status |-> FREE, prev |-> h, next |-> mem[h].next]
  IN  Store(p, "header",
            [g \in DOMAIN mem \cup {n} |-> IF g = n THEN header ELSE mem[g]])

StoreSize(p) ==
  Store(p, "size", [mem EXCEPT ![proc[p].h].size = proc[p].length])

StoreStatus(p) ==
  Store(p, "status", [mem EXCEPT ![proc[p].h].status = BUSY])

StoreNext(p) ==
  Store(p, "next", [mem EXCEPT ![proc[p].h].next = proc[p].n])

StorePrev(p) ==
  LET n == proc[p].n IN
  Store(p, "prev",
        IF n = NULL \/ mem[n].next = NULL THEN mem
        ELSE [mem EXCEPT ![mem[n].next].prev = n])

--------------------------------------------------------------------------------
(* vgc_free *)

Free(p, a) ==
  /\ mapped
  /\ proc[p].pc = "idle"
  /\ a \in live
  /\ live' = live \ {a}
  /\ proc' = [proc EXCEPT ![p] = [Idle EXCEPT !.pc = "lock", !.op = "free", !.own = a.block]]
  /\ UNCHANGED <<mem, mapped, mutex, alive, crashes, before>>

(* Mutant of Check: a list that fails is checked again. *)
CheckAgain(p) ==
  /\ proc[p].pc = "search"
  /\ proc[p].op = "free"
  /\ Passes(mem) => Ends(mem)
  /\ Goto(p, IF Passes(mem) THEN "free" ELSE "search")
  /\ UNCHANGED <<mem, mapped, live, mutex, alive, crashes, before>>

Check(p) ==
  /\ proc[p].pc = "search"
  /\ proc[p].op = "free"
  /\ IF Passes(mem) THEN Ends(mem) /\ Goto(p, "free") ELSE Goto(p, "unlock")
  /\ UNCHANGED <<mem, mapped, live, mutex, alive, crashes, before>>

(* Block h is to swallow block n. *)
Joining(p, h, n) == [proc[p] EXCEPT !.pc = "grow", !.h = h, !.n = n]

(* Mutant of TryPrev: the previous block swallows it even if it is busy. *)
TryAnyPrev(p, M) ==
  LET own == proc[p].own IN
  IF M[own].prev # NULL THEN Joining(p, M[own].prev, own)
  ELSE [proc[p] EXCEPT !.pc = "last"]

(* freeBlocksPrev, or what comes after it. *)
TryPrev(p, M) ==
  LET own == proc[p].own IN
  IF PrevIsFree(M, own) THEN Joining(p, M[own].prev, own)
  ELSE [proc[p] EXCEPT !.pc = "last"]

(* Mutant of TryNext: the next block is swallowed even if it is busy. *)
TryAnyNext(p, M) ==
  LET own == proc[p].own IN
  IF M[own].next # NULL THEN Joining(p, own, M[own].next) ELSE TryPrev(p, M)

(* freeBlocksNext, or what comes after it. *)
TryNext(p, M) ==
  LET own == proc[p].own IN
  IF NextIsFree(M, own) THEN Joining(p, own, M[own].next) ELSE TryPrev(p, M)

StoreFree(p) ==
  LET M == MarkFree(mem, proc[p].own) IN
  /\ proc[p].pc = "free"
  /\ mem' = M
  /\ proc' = [proc EXCEPT ![p] = TryNext(p, M)]
  /\ UNCHANGED <<mapped, live, mutex, alive, crashes, before>>

(* Mutant of Grow: the swallowed header's bytes are lost. *)
GrowByPayload(p) ==
  LET h == proc[p].h  n == proc[p].n IN
  Store(p, "grow", [mem EXCEPT ![h].size = @ + mem[n].size])

Grow(p) ==
  LET h == proc[p].h  n == proc[p].n IN
  Store(p, "grow",
        [mem EXCEPT ![h].size = @ + mem[n].size + MallocHeaderSize])

Unlink(p) ==
  LET h == proc[p].h  n == proc[p].n IN
  Store(p, "unlink", [mem EXCEPT ![h].next = mem[n].next])

(* From here on nothing leads to the header of n. *)
Back(p) ==
  LET h == proc[p].h
      M == [g \in DOMAIN mem \ {proc[p].n} |->
             IF g = mem[h].next THEN [mem[g] EXCEPT !.prev = h] ELSE mem[g]]
  IN  /\ proc[p].pc = "back"
      /\ mem' = M
      /\ proc' = [proc EXCEPT ![p] =
                    IF proc[p].n = proc[p].own THEN [@ EXCEPT !.pc = "last"]
                    ELSE TryPrev(p, M)]
      /\ UNCHANGED <<mapped, live, mutex, alive, crashes, before>>

(* An MMAP that is all free is unmapped; its mutex goes with it. *)
Last(p) ==
  /\ proc[p].pc = "last"
  /\ \/ /\ mem[FirstHeader].next = NULL
        /\ mapped' = FALSE
        /\ mutex' = [mutex EXCEPT !["mmap"] = Released("mmap")]
        /\ Goto(p, "leave")
     \/ /\ mem[FirstHeader].next # NULL
        /\ Goto(p, "unlock")
        /\ UNCHANGED <<mapped, mutex>>
  /\ UNCHANGED <<mem, live, alive, crashes, before>>

--------------------------------------------------------------------------------
(* The end of a process, at any place of a call: the kernel passes the     *)
(* mutexes it held on as those of a dead owner.                            *)
Crash(p) ==
  /\ p \in alive /\ alive # {p}
  /\ crashes < MaxCrashes
  /\ proc[p].pc # "idle"
  /\ proc[p].pc = "unlink" => CrashInJoin
  /\ alive' = alive \ {p}
  /\ crashes' = crashes + 1
  /\ proc' = [proc EXCEPT ![p] = Idle]
  /\ mutex' = [m \in Mutexes |->
                 IF mutex[m].owner = p THEN [mutex[m] EXCEPT !.owner = OwnerDied]
                 ELSE mutex[m]]
  /\ before' = IF mutex["shared"].owner = p THEN NoList ELSE before
  /\ UNCHANGED <<mem, mapped, live>>

(* A process that runs forks another one. *)
Fork(p) ==
  /\ p \notin alive
  /\ alive' = alive \cup {p}
  /\ UNCHANGED <<mem, mapped, live, mutex, proc, crashes, before>>

(* What a process does inside of a call. *)
Work(p) ==
  \/ Lock(p) \/ LockOfDead(p) \/ Mend(p)
  \/ Search(p) \/ StoreHeader(p) \/ StoreSize(p) \/ StoreStatus(p)
  \/ StoreNext(p) \/ StorePrev(p)
  \/ Check(p) \/ StoreFree(p) \/ Grow(p) \/ Unlink(p) \/ Back(p) \/ Last(p)
  \/ UnlockMmap(p) \/ Leave(p)

(* Once it is unmapped the MMAP is followed no further. *)
Halted == ~mapped /\ UNCHANGED vars

Next ==
  \/ \E p \in alive : \/ \E size \in Sizes : Malloc(p, size)
                      \/ \E a \in live : Free(p, a)
                      \/ Work(p)
  \/ \E p \in Procs : Crash(p) \/ Fork(p)
  \/ Halted

Spec == Init /\ [][Next]_vars

(* The scheduler lets a process that is in a call go on. *)
FairSpec == Spec /\ \A p \in Procs : WF_vars(p \in alive /\ Work(p))

--------------------------------------------------------------------------------
(* The kinds of values the variables hold. *)
TypeOK ==
  /\ DOMAIN mem \subseteq Nat /\ \A h \in DOMAIN mem : mem[h] \in Header
  /\ mapped \in BOOLEAN
  /\ live \subseteq Allocation
  /\ mutex \in [Mutexes -> Mutex]
  /\ proc \in [Procs -> Proc]
  /\ alive \subseteq Procs
  /\ crashes \in 0 .. MaxCrashes

(* Nobody ever gets ENOTRECOVERABLE (vgc_pthread.c:24), for which the      *)
(* mutex would be destroyed while others wait for it: whoever gets it from *)
(* a dead owner declares it consistent before he gives it back, or dies,   *)
(* too, and leaves that to the next.                                       *)
Recoverable == \A m \in Mutexes : mutex[m].state # "lost"

(* The mutexes exclude: one process at a time is between lock and unlock,  *)
(* the MMAP's mutex is taken by who has the shared one, and a mutex of a   *)
(* dead owner is not taken for one that is free.                           *)
Excluded ==
  /\ \A p \in Procs :
       proc[p].pc \notin {"idle", "lock"} \/ proc[p].m = "mmap"
         => mutex["shared"].owner = p
  /\ mutex["mmap"].owner \in Procs => mutex["mmap"].owner = mutex["shared"].owner

(* No byte is handed out twice, whatever a process that died in a call has *)
(* left of the list.                                                       *)
End(a) == a.block + MallocHeaderSize + RoundUp(a.size)

LiveApart ==
  \A a, b \in live : a # b => a.block # b.block /\ (a.block < b.block => End(a) <= b.block)

(* The walks over the list come to an end, so that no call keeps the       *)
(* mutexes for ever.                                                       *)
WalksEnd == Ends(mem)

(* The MMAP is not unmapped while a client owns a block of it. *)
KeptWhileLive == ~mapped => live = {}

(* The stores of a call that is not cut short make of a well-formed list   *)
(* what AllocBlock and FreeBlock say, which VGCMalloc takes as one step.   *)
StoresAddUp ==
  \A p \in Procs :
    (proc[p].pc = "unlock" /\ WellFormed(before, MmapSize)) =>
      List(mem) = IF proc[p].op = "free" THEN FreeBlock(before, proc[p].own)
                  ELSE IF proc[p].got = NULL THEN before
                  ELSE AllocBlock(before, proc[p].got, proc[p].size)

(* No store to the list, of a call that works on what the dead have left   *)
(* of it, touches a block that a client owns but for its links: the block  *)
(* keeps its size, stays busy and stays on the list.                       *)
OwnedKept ==
  [][\A a \in live \cap live' :
       /\ a.block \in Linked(mem')
       /\ mem'[a.block].size = mem[a.block].size
       /\ mem'[a.block].status = BUSY]_vars

(* Whoever has the shared mutex lets go of it, by its call or by its end:  *)
(* no path through a call forgets to unlock, and none goes on for ever.    *)
HolderLetsGo == \A p \in Procs : mutex["shared"].owner = p ~> mutex["shared"].owner # p
================================================================================
