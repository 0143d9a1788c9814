------------------------------- MODULE VGCMalloc -------------------------------
(***************************************************************************)
(* The allocator of src/src/vgc_malloc.c: vgc_malloc, vgc_calloc,          *)
(* vgc_realloc and vgc_free called by the threads of one process, in the   *)
(* build of src/Makefile (guard pages on, isMprotectEnabled always true).  *)
(*                                                                         *)
(* The shared mutex is held from line 587 to the end of vgc_malloc and     *)
(* through all of vgc_free, so each of these is one step.  The lines of    *)
(* vgc_malloc before 587 read and write mmapBlockFirst without a lock: each *)
(* access is a step of its own.                                            *)
(*                                                                         *)
(* A client frees and reallocates what it owns, once.  Addresses are pairs *)
(* of an MMAP and an offset in bytes; an identifier of Mmaps is free for   *)
(* mmap to return again once it is unmapped.                               *)
(***************************************************************************)
EXTENDS BlockList

CONSTANTS
  Threads,          \* the threads of the process
  Mmaps,            \* the places mmap may return
  NoMmap,           \* the null VGC_mmapHeader pointer
  MapFailed,        \* MAP_FAILED
  NoAllocation,     \* the null pointer of a client
  MmapBlockSize,    \* shared->mmapBlockSize, in bytes
  FallbackDivisor,  \* mmapBlockAllocate's second try is for this fraction
  MmapOutcomes,     \* what the system may answer: "full", "fallback", "none"
  MaxGuards,        \* guard pages the system allows (vm.max_map_count)
  Sizes,            \* sizes requested of vgc_malloc
  ReallocSizes,     \* sizes requested of vgc_realloc
  CallocArgs,       \* pairs <<nmemb, size>> given to vgc_calloc
  SizeMod,          \* 2^w, w the width of size_t
  StaleWords        \* what a word that is no header field may hold

FallbackSize == MmapBlockSize \div FallbackDivisor

ASSUME ConstantsAssumption ==
  /\ NoMmap \notin Mmaps /\ MapFailed \notin Mmaps /\ NoMmap # MapFailed
  /\ MmapBlockSize \in Nat /\ FallbackDivisor \in Nat \ {0}
  /\ FallbackSize > MmapHeaderSize + MallocHeaderSize
  /\ FallbackSize <= MmapBlockSize
  /\ MaxGuards \in Nat
  /\ Sizes \subseteq Nat /\ ReallocSizes \subseteq Nat /\ StaleWords \subseteq Nat
  /\ CallocArgs \subseteq Nat \X Nat
  /\ SizeMod \in Nat \ {0}

VARIABLES
  mapped,          \* the MMAPs that exist
  mmapBlock,       \* VGC_mmapHeader of each
  block,           \* the block list of each
  guard,           \* pages with PROT_NONE, by MMAP and offset
  mmapBlockFirst,  \* shared->mmapBlockFirst
  live,            \* what clients own
  call,            \* where each thread is
  fate             \* "running", "segv", or "wild" after undefined behaviour

shared == <<mapped, mmapBlock, block, guard, mmapBlockFirst>>
vars   == <<shared, live, call, fate>>

--------------------------------------------------------------------------------
(* What a client holds; intact: the contents vgc_realloc promises are there. *)
Allocation == [m : Mmaps, block : Nat, ptr : Nat, size : Nat, intact : BOOLEAN]

ASSUME NoAllocationAssumption == NoAllocation \notin Allocation

MmapHeader == [size : Nat, elements : Int, prev : Mmaps \cup {NoMmap},
               next : Mmaps \cup {NoMmap}]

Ops == {"malloc", "calloc", "realloc"}

Call == [pc   : {"idle", "publish", "check", "load", "read", "search", "zero",
                 "copy", "release"},
         op   : Ops,
         size : Nat,                                  \* vgc_malloc's parameter
         old  : Allocation \cup {NoAllocation},       \* vgc_realloc's ptr
         got  : Allocation \cup {NoAllocation},       \* vgc_malloc's result
         at   : Mmaps \cup {NoMmap, MapFailed}]       \* an MMAP in a register

Idle == [pc |-> "idle", op |-> "malloc", size |-> 0, old |-> NoAllocation,
         got |-> NoAllocation, at |-> NoMmap]

Unmapped == [size |-> 0, elements |-> 0, prev |-> NoMmap, next |-> NoMmap]

NoBlocks == [h \in {} |-> Unmapped]

(* my_init: shared exists, no MMAP does. *)
Init ==
  /\ mapped = {}
  /\ mmapBlock = [m \in Mmaps |-> Unmapped]
  /\ block = [m \in Mmaps |-> NoBlocks]
  /\ guard = {}
  /\ mmapBlockFirst = NoMmap
  /\ live = {}
  /\ call = [t \in Threads |-> Idle]
  /\ fate = "running"

--------------------------------------------------------------------------------
(* The calls in progress keep others from what they work on. *)
InUse == UNION {{call[t].old, call[t].got} : t \in Threads}

Continue(t, pc) == call' = [call EXCEPT ![t].pc = pc]

Return(t) == call' = [call EXCEPT ![t] = Idle]

Die(how) == fate' = how /\ UNCHANGED <<shared, live, call>>

(* do_mprotect, whose failure every caller ignores: the guard is missing.  *)
(* Taking a guard away joins mappings and cannot reach the limit.          *)
Protect(g, page) ==
  IF Cardinality(g \cup {page}) <= MaxGuards THEN g \cup {page} ELSE g

(* What a try of mmapBlockAllocate gives. *)
MmapSizes == {MmapBlockSize : o \in MmapOutcomes \cap {"full"}}
               \cup {FallbackSize : o \in MmapOutcomes \cap {"fallback"}}

OutOfMemory == "none" \in MmapOutcomes \/ mapped = Mmaps

MapsNewMmap(m, mmapSize) == m \in Mmaps \ mapped /\ mmapSize \in MmapSizes

(* The headers once allocMMAP has linked the new MMAP after `last`. *)
LinkAfter(m, mmapSize, last) ==
  [k \in Mmaps |->
     IF k = m THEN [size |-> mmapSize, elements |-> 0,
                     prev |-> last, next |-> NoMmap]
     ELSE IF k = last THEN [mmapBlock[k] EXCEPT !.next = m]
     ELSE mmapBlock[k]]

--------------------------------------------------------------------------------
(* The list of MMAPs, from mmapBlockFirst on. *)
Listed ==
  LET from[m \in mapped] ==
        IF mmapBlock[m].next \in mapped THEN {m} \cup from[mmapBlock[m].next] ELSE {m}
  IN  IF mmapBlockFirst \in mapped THEN from[mmapBlockFirst] ELSE {}

LastMmap ==
  LET last[m \in mapped] ==
        IF mmapBlock[m].next = NoMmap THEN m ELSE last[mmapBlock[m].next]
  IN  IF mmapBlockFirst \in mapped THEN last[mmapBlockFirst] ELSE NoMmap

(* allocMallocBlock finds room in m, and the list passes its check. *)
Serves(m, size) ==
  /\ Fits(block[m], size) # {}
  /\ CheckMmapBlock(block[m], mmapBlock[m].size, MmapBlockSize)

(* The first MMAP of the list that serves the request. *)
ServingMmap(size) ==
  LET find[m \in mapped] ==
        IF Serves(m, size) THEN m
        ELSE IF mmapBlock[m].next = NoMmap THEN NoMmap
        ELSE find[mmapBlock[m].next]
  IN  IF mmapBlockFirst \in mapped THEN find[mmapBlockFirst] ELSE NoMmap

NewAllocation(t, m, h) ==
  [m |-> m, block |-> h, ptr |-> PayloadPtr(h, call[t].size),
   size |-> call[t].size, intact |-> TRUE]

(* vgc_malloc returns an allocation to its caller. *)
Deliver(t, a) ==
  /\ live' = live \cup {a}
  /\ call' = [call EXCEPT ![t] =
                IF call[t].op = "malloc" THEN Idle
                ELSE [@ EXCEPT !.pc = IF call[t].op = "calloc" THEN "zero" ELSE "copy",
                               !.got = a, !.at = NoMmap]]

(* allocMallocBlock takes block h of the list B of m. *)
Take(t, m, B, h, headers, g) ==
  LET size == call[t].size IN
  /\ block' = [block EXCEPT ![m] = AllocBlock(B, h, size)]
  /\ mmapBlock' = [headers EXCEPT ![m].elements = @ + 1]
  /\ guard' = IF Splits(B, h, size) THEN Protect(g, <<m, Remainder(h, size)>>) ELSE g
  /\ Deliver(t, NewAllocation(t, m, h))

--------------------------------------------------------------------------------
(* A thread is at `pc` of a call, with an MMAP's address in a register. *)
At(t, op, size, old, pc, m) ==
  call' = [call EXCEPT ![t] = [pc |-> pc, op |-> op, size |-> size,
                               old |-> old, got |-> NoAllocation, at |-> m]]

(* vgc_malloc(size): with no MMAP, map the first, which is not yet stored. *)
Enter(t, op, size, old) ==
  /\ call[t].pc = "idle"
  /\ \/ /\ mmapBlockFirst # NoMmap
        /\ At(t, op, size, old, "load", NoMmap)
        /\ UNCHANGED shared
     \/ /\ mmapBlockFirst = NoMmap
        /\ \E m \in Mmaps, mmapSize \in MmapSizes :
             /\ MapsNewMmap(m, mmapSize)
             /\ mapped' = mapped \cup {m}
             /\ mmapBlock' = LinkAfter(m, mmapSize, NoMmap)
             /\ block' = [block EXCEPT ![m] = FreshBlocks(mmapSize)]
             /\ guard' = Protect(guard, <<m, FirstHeader>>)
             /\ At(t, op, size, old, "publish", m)
        /\ UNCHANGED mmapBlockFirst
     \/ /\ mmapBlockFirst = NoMmap
        /\ OutOfMemory
        /\ At(t, op, size, old, "publish", MapFailed)
        /\ UNCHANGED shared
  /\ UNCHANGED <<live, fate>>

Malloc(t, size) == Enter(t, "malloc", size, NoAllocation)

(* vgc_calloc multiplies in size_t; a product of 0 returns NULL at once. *)
Calloc(t, nmemb, size) ==
  LET mallocSize == (nmemb * size) % SizeMod IN
  /\ mallocSize # 0
  /\ Enter(t, "calloc", mallocSize, NoAllocation)

(* vgc_realloc of a block the client owns.  A null ptr makes it Malloc, a  *)
(* size of 0 makes it Free.                                                *)
Realloc(t, old, size) ==
  /\ old \in live \ InUse
  /\ size # 0
  /\ Enter(t, "realloc", size, old)

(* The store to mmapBlockFirst, then the test of what it holds. *)
PublishFirst(t) ==
  /\ call[t].pc = "publish"
  /\ mmapBlockFirst' = call[t].at
  /\ Continue(t, "check")
  /\ UNCHANGED <<mapped, mmapBlock, block, guard, live, fate>>

CheckFirst(t) ==
  /\ call[t].pc = "check"
  /\ IF mmapBlockFirst = MapFailed THEN Return(t) ELSE Continue(t, "load")
  /\ UNCHANGED <<shared, live, fate>>

(* A request of 0 bytes is refused; else the pointer is loaded ... *)
LoadFirst(t) ==
  /\ call[t].pc = "load"
  /\ IF call[t].size = 0 THEN Return(t)
     ELSE call' = [call EXCEPT ![t].pc = "read", ![t].at = mmapBlockFirst]
  /\ UNCHANGED <<shared, live, fate>>

(* ... and followed to maxSize, whatever it points to by now. *)
ReadMaxSize(t) ==
  /\ call[t].pc = "read"
  /\ IF call[t].at \in mapped
     THEN /\ IF call[t].size >= MaxSize(mmapBlock[call[t].at].size)
             THEN Return(t) ELSE Continue(t, "search")
          /\ UNCHANGED <<shared, live, fate>>
     ELSE Die("segv")

(* From here on vgc_malloc holds the mutex. *)
TakeFromList(t) ==
  /\ call[t].pc = "search"
  /\ \E m \in mapped : \E h \in Fits(block[m], call[t].size) :
       /\ m = ServingMmap(call[t].size)
       /\ h = FirstFit(block[m], call[t].size)
       /\ Take(t, m, block[m], h, mmapBlock, guard)
  /\ UNCHANGED <<mapped, mmapBlockFirst, fate>>

(* No MMAP of the list has room: a new one goes to its end.  The smaller   *)
(* one of the second try may be too small and stays, empty.                *)
TakeFromNewMmap(t) ==
  /\ call[t].pc = "search"
  /\ mmapBlockFirst # MapFailed
  /\ ServingMmap(call[t].size) = NoMmap
  /\ \E m \in Mmaps, mmapSize \in MmapSizes :
       LET last    == LastMmap
           B       == FreshBlocks(mmapSize)
           headers == LinkAfter(m, mmapSize, last)
           g       == Protect(guard, <<m, FirstHeader>>)
       IN  /\ MapsNewMmap(m, mmapSize)
           /\ last \in mapped \cup {NoMmap}
           /\ mapped' = mapped \cup {m}
           /\ \/ /\ FirstHeader \in Fits(B, call[t].size)
                 /\ Take(t, m, B, FirstHeader, headers, g)
              \/ /\ FirstHeader \notin Fits(B, call[t].size)
                 /\ block' = [block EXCEPT ![m] = B]
                 /\ mmapBlock' = headers
                 /\ guard' = g
                 /\ Return(t)
                 /\ UNCHANGED live
  /\ UNCHANGED <<mmapBlockFirst, fate>>

TakeNothing(t) ==
  /\ call[t].pc = "search"
  /\ mmapBlockFirst # MapFailed
  /\ ServingMmap(call[t].size) = NoMmap
  /\ OutOfMemory
  /\ Return(t)
  /\ UNCHANGED <<shared, live, fate>>

(* The walk over the list follows MAP_FAILED. *)
WalkCrashes(t) ==
  /\ call[t].pc = "search"
  /\ mmapBlockFirst = MapFailed
  /\ Die("segv")

--------------------------------------------------------------------------------
(* What becomes of the process when it touches the first n bytes of a: it  *)
(* faults on a guard page, and beyond the block is another owner's memory. *)
Touch(a, n) ==
  IF n # 0 /\ \E page \in guard : /\ page[1] = a.m
                                 /\ page[2] < a.ptr + n
                                 /\ a.ptr < page[2] + PageSize
  THEN "segv"
  ELSE IF n = 0 \/ a.ptr + n <= EndOf(block[a.m], a.block) THEN "running"
  ELSE "wild"

(* vgc_calloc: memset. *)
ZeroMemory(t) ==
  /\ call[t].pc = "zero"
  /\ fate' = Touch(call[t].got, call[t].size)
  /\ Return(t)
  /\ UNCHANGED <<shared, live>>

(* vgc_realloc: the old size is read two pages before ptr, not two pages   *)
(* before ptr's page, from bytes that are no header field.                 *)
CopyContents(t) ==
  /\ call[t].pc = "copy"
  /\ \E word \in StaleWords :
       LET old == call[t].old
           new == call[t].got
           n   == IF word < call[t].size THEN word ELSE call[t].size
           due == IF old.size < call[t].size THEN old.size ELSE call[t].size
           kept == [new EXCEPT !.intact = old.intact /\ n >= due]
       IN  /\ fate' = IF Touch(old, n) # "running" THEN Touch(old, n) ELSE Touch(new, n)
           /\ live' = (live \ {new}) \cup {kept}
           /\ call' = [call EXCEPT ![t].pc = "release", ![t].got = kept]
  /\ UNCHANGED shared

--------------------------------------------------------------------------------
(* isInMmapBlock gives every MMAP the size of a full one.  A smaller one   *)
(* may therefore cover addresses of an MMAP that is not on the list.       *)
MaybeInMmapBlock(a) ==
  {a.m \in Listed /\ a.ptr < MmapBlockSize}
    \cup (IF \E m \in Listed \ {a.m} : mmapBlock[m].size < MmapBlockSize
          THEN {TRUE} ELSE {})

(* Mutant of HeaderOf: ptr is not taken back to the start of its page. *)
HeaderWithoutMask(a) == a.ptr - MallocHeaderSize

(* The header vgc_free finds: two pages before the page ptr is on. *)
HeaderOf(a) == a.ptr - (a.ptr % PageSize) - MallocHeaderSize

(* Mutant of Unlink: the MMAP that follows m keeps its prev. *)
UnlinkOneWay(m) ==
  [k \in Mmaps |->
     IF k = m THEN Unmapped
     ELSE IF k = mmapBlock[m].prev THEN [mmapBlock[k] EXCEPT !.next = mmapBlock[m].next]
     ELSE mmapBlock[k]]

(* The headers once m is taken off the list. *)
Unlink(m) ==
  [k \in Mmaps |->
     IF k = m THEN Unmapped
     ELSE IF k = mmapBlock[m].next THEN [mmapBlock[k] EXCEPT !.prev = mmapBlock[m].prev]
     ELSE IF k = mmapBlock[m].prev THEN [mmapBlock[k] EXCEPT !.next = mmapBlock[m].next]
     ELSE mmapBlock[k]]

(* freeMMAP clears mmapBlockFirst when it unmaps the first MMAP. *)
UnmapMmap(m) ==
  /\ mapped' = mapped \ {m}
  /\ mmapBlock' = Unlink(m)
  /\ block' = [block EXCEPT ![m] = NoBlocks]
  /\ guard' = {page \in guard : page[1] # m}
  /\ mmapBlockFirst' = IF m = mmapBlockFirst THEN NoMmap ELSE mmapBlockFirst

(* Mutants of FreeBlockAt: elements is not counted down, and the MMAP goes *)
(* as soon as its first block is free.                                     *)
FreeUncounted(m, h) ==
  LET B == FreeBlock(block[m], h) IN
  \/ /\ B[FirstHeader].next = NULL
     /\ UnmapMmap(m)
  \/ /\ B[FirstHeader].next # NULL
     /\ block' = [block EXCEPT ![m] = B]
     /\ guard' = guard \ ({m} \X Unprotected(block[m], h))
     /\ UNCHANGED <<mapped, mmapBlock, mmapBlockFirst>>

UnmapTooSoon(m, h) ==
  LET B == FreeBlock(block[m], h) IN
  \/ /\ B[FirstHeader].status = FREE
     /\ UnmapMmap(m)
  \/ /\ B[FirstHeader].status # FREE
     /\ block' = [block EXCEPT ![m] = B]
     /\ mmapBlock' = [mmapBlock EXCEPT ![m].elements = @ - 1]
     /\ guard' = guard \ ({m} \X Unprotected(block[m], h))
     /\ UNCHANGED <<mapped, mmapBlockFirst>>

(* vgc_free of the block at h: an MMAP that is all free is unmapped. *)
FreeBlockAt(m, h) ==
  LET B == FreeBlock(block[m], h) IN
  \/ /\ B[FirstHeader].next = NULL
     /\ UnmapMmap(m)
  \/ /\ B[FirstHeader].next # NULL
     /\ block' = [block EXCEPT ![m] = B]
     /\ mmapBlock' = [mmapBlock EXCEPT ![m].elements = @ - 1]
     /\ guard' = guard \ ({m} \X Unprotected(block[m], h))
     /\ UNCHANGED <<mapped, mmapBlockFirst>>

(* vgc_free(a).  It refuses an address outside of every MMAP and a header  *)
(* with the wrong checksum; where no header is, the checksum may be right  *)
(* by chance.  A list that fails the check is left alone, but for its      *)
(* element count.                                                          *)
Release(a) ==
  LET m == a.m  h == HeaderOf(a) IN
  /\ live' = live \ {a}
  /\ \/ /\ mmapBlockFirst # MapFailed
        /\ \/ FALSE \in MaybeInMmapBlock(a)
           \/ TRUE \in MaybeInMmapBlock(a) /\ h \notin DOMAIN block[m]
        /\ UNCHANGED <<shared, fate>>
     \/ /\ mmapBlockFirst = MapFailed
        /\ fate' = "segv"
        /\ UNCHANGED shared
     \/ /\ mmapBlockFirst # MapFailed
        /\ TRUE \in MaybeInMmapBlock(a)
        /\ h \notin DOMAIN block[m]
        /\ fate' = "wild"
        /\ UNCHANGED shared
     \/ /\ mmapBlockFirst # MapFailed
        /\ TRUE \in MaybeInMmapBlock(a)
        /\ h \in DOMAIN block[m]
        /\ IF CheckMmapBlock(block[m], mmapBlock[m].size, MmapBlockSize)
           THEN FreeBlockAt(m, h)
           ELSE /\ mmapBlock' = [mmapBlock EXCEPT ![m].elements = @ - 1]
                /\ UNCHANGED <<mapped, block, guard, mmapBlockFirst>>
        /\ UNCHANGED fate

Free(t, a) ==
  /\ call[t].pc = "idle"
  /\ a \in live \ InUse
  /\ Release(a)
  /\ UNCHANGED call

(* The end of vgc_realloc. *)
ReleaseOld(t) ==
  /\ call[t].pc = "release"
  /\ Release(call[t].old)
  /\ Return(t)

--------------------------------------------------------------------------------
Step(t) ==
  \/ \E size \in Sizes : Malloc(t, size)
  \/ \E args \in CallocArgs : Calloc(t, args[1], args[2])
  \/ \E a \in live, size \in ReallocSizes : Realloc(t, a, size)
  \/ PublishFirst(t)
  \/ CheckFirst(t)
  \/ LoadFirst(t)
  \/ ReadMaxSize(t)
  \/ TakeFromList(t)
  \/ TakeFromNewMmap(t)
  \/ TakeNothing(t)
  \/ WalkCrashes(t)
  \/ ZeroMemory(t)
  \/ CopyContents(t)
  \/ \E a \in live : Free(t, a)
  \/ ReleaseOld(t)

(* A process that crashed, or whose memory is no longer what the library   *)
(* wrote, is followed no further.                                          *)
Halted == fate # "running" /\ UNCHANGED vars

Next ==
  \/ fate = "running" /\ \E t \in Threads : Step(t)
  \/ Halted

Spec == Init /\ [][Next]_vars

--------------------------------------------------------------------------------
(* The kinds of values the variables hold. *)
TypeOK ==
  /\ mapped \subseteq Mmaps
  /\ mmapBlock \in [Mmaps -> MmapHeader]
  /\ \A m \in Mmaps : /\ DOMAIN block[m] \subseteq Nat
                      /\ \A h \in DOMAIN block[m] : block[m][h] \in Header
  /\ DOMAIN block = Mmaps
  /\ guard \subseteq Mmaps \X Nat
  /\ mmapBlockFirst \in Mmaps \cup {NoMmap, MapFailed}
  /\ live \subseteq Allocation
  /\ call \in [Threads -> Call]
  /\ fate \in {"running", "segv", "wild"}

(* The blocks of every MMAP tile it: headers and payloads follow one       *)
(* another without a gap from the MMAP's header to its end, and the links  *)
(* both ways agree with that order, through every split of                 *)
(* allocMallocBlock and every join of vgc_free.                            *)
BlocksTile == \A m \in mapped : WellFormed(block[m], mmapBlock[m].size)

(* The list check that vgc_malloc and vgc_free make before they touch a    *)
(* list never refuses one: no sequence of calls gets a list into the state *)
(* that makes vgc_malloc skip an MMAP for ever.                            *)
ListsPassCheck ==
  \A m \in mapped : CheckMmapBlock(block[m], mmapBlock[m].size, MmapBlockSize)

(* vgc_free leaves no two free blocks next to each other.                  *)
FreeBlocksJoined == \A m \in mapped : Coalesced(block[m])

(* Every allocation a client owns is in a busy block of its own, in an     *)
(* MMAP that is still mapped, and the block is at least as large as what   *)
(* was asked of vgc_malloc.                                                *)
LiveBacked ==
  \A a \in live :
    /\ a.m \in mapped
    /\ a.block \in DOMAIN block[a.m]
    /\ block[a.m][a.block].status = BUSY
    /\ block[a.m][a.block].size >= a.size
    /\ \A b \in live \ {a} : <<b.m, b.block>> # <<a.m, a.block>>

(* elements counts the busy blocks of the MMAP, as its declaration says.   *)
ElementsCountsBusy ==
  \A m \in mapped :
    mmapBlock[m].elements = Cardinality({h \in DOMAIN block[m] : block[m][h].status = BUSY})

(* The links among the MMAPs agree both ways and never lead to one that is *)
(* unmapped, whichever MMAP is unmapped first.                             *)
MmapLinks ==
  /\ mmapBlockFirst \in mapped \cup {NoMmap, MapFailed}
  /\ \A m \in mapped :
       /\ mmapBlock[m].next # NoMmap => /\ mmapBlock[m].next \in mapped \ {m}
                                        /\ mmapBlock[mmapBlock[m].next].prev = m
       /\ mmapBlock[m].prev # NoMmap => /\ mmapBlock[m].prev \in mapped \ {m}
                                        /\ mmapBlock[mmapBlock[m].prev].next = m

(* Guard pages are first pages of block headers: none is left in a payload *)
(* when a header disappears in a join, or in an MMAP that is unmapped.     *)
GuardsOnHeaders ==
  \A page \in guard : page[1] \in mapped /\ page[2] \in DOMAIN block[page[1]]

(* What a step leaves as it is of the block of a. *)
LeavesBlock(a) ==
  /\ block'[a.m][a.block].size = block[a.m][a.block].size
  /\ <<a.m, a.block>> \in guard' <=> <<a.m, a.block>> \in guard

(* While a client has a block, no split, join or unmapping for others      *)
(* resizes it, and the guard page before it neither comes nor goes:        *)
(* allocMallocBlock and vgc_free write the headers of the blocks next to   *)
(* it, but only the links.                                                 *)
BlocksInUseKept ==
  [][\A a \in live :
       (\E b \in live' : b.m = a.m /\ b.block = a.block) => LeavesBlock(a)]_vars

(* A busy block has an owner: what is handed out can come back, and        *)
(* vgc_free gives the memory back whenever it is called with a pointer the *)
(* library returned.                                                       *)
NoLeak ==
  \A m \in mapped : \A h \in DOMAIN block[m] :
    block[m][h].status = BUSY => \E a \in live : a.m = m /\ a.block = h

(* Clients that have freed everything leave no MMAP behind.                *)
MemoryReturned ==
  (live = {} /\ \A t \in Threads : call[t].pc = "idle") => mapped = {}

(* The sum checkMmapBlock makes agrees with the blocks, so that "Found     *)
(* inconsistent MMAP" is not logged of a list nothing is wrong with.       *)
ListsConsistent == \A m \in mapped : SumsMatch(block[m], MmapBlockSize)

(* No byte a client owns is on a guard page or outside of its block.       *)
LiveAccessible == \A a \in live : Touch(a, a.size) = "running"

(* The process does not fault in a call of the library.                    *)
NoCrash == fate # "segv"

(* After vgc_realloc the contents are there up to the smaller size.  This  *)
(* is what the comment before vgc_realloc says, and does not hold: the old *)
(* size is read from the wrong place (CopyContents).                       *)
ContentsKept == \A a \in live : a.intact

(* What follows a client's last byte is a guard page or the end of the     *)
(* MMAP: an overrun does not go unnoticed.                                 *)
OverrunsTrapped ==
  \A a \in live : \/ <<a.m, a.ptr + a.size>> \in guard
                  \/ a.ptr + a.size >= mmapBlock[a.m].size

(* The bytes a client owns. *)
Extent(a) == [m |-> a.m, lo |-> a.ptr, hi |-> a.ptr + a.size]

(* To clients the allocator is the abstract one: no two own a byte in      *)
(* common, one thing at a time is handed out or taken back, and no memory  *)
(* is unmapped under a client, through all races of the unlocked reads.    *)
Abstract == INSTANCE Allocator WITH
  Places <- Mmaps, space <- mapped, granted <- {Extent(a) : a \in live}

ImplementsAllocator == Abstract!Spec
================================================================================
