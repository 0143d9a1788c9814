------------------------------- MODULE BlockList -------------------------------
(***************************************************************************)
(* The block list of one MMAP of src/src/vgc_malloc.c.                     *)
(*                                                                         *)
(* An MMAP starts with its own header and is tiled by blocks, each a       *)
(* VGC_mallocHeader followed by its payload.  A list is a function B from  *)
(* the offsets of the headers on the list (in bytes from the start of the  *)
(* MMAP) to their fields; offset 0 holds the MMAP's header and therefore   *)
(* serves as the null pointer.                                             *)
(*                                                                         *)
(* The module models the build the Makefile makes, VGC_MALLOC_MPROTECT:    *)
(* the MMAP header takes one page (VGC_mmapHeader is padded to it) and a   *)
(* block header two, of which the first is the guard page `protect`.       *)
(* checkStart and checkEnd are 0xAA in every header the library wrote and  *)
(* carry no other state: an offset in DOMAIN B is one where they are.      *)
(***************************************************************************)
EXTENDS Integers, FiniteSets, FiniteSetsExt

CONSTANT PageSize    \* bytes in a page, VGC_MALLOC_SYSTEM_PAGE_SIZE

ASSUME PageSizeAssumption == PageSize \in Nat \ {0}

NULL == 0
FREE == "FREE"
BUSY == "BUSY"

MmapHeaderSize   == PageSize
MallocHeaderSize == 2 * PageSize

\* firstMallocHeaderInMMAP
FirstHeader == MmapHeaderSize

Header == [size : Nat, status : {FREE, BUSY}, prev : Nat, next : Nat]

\* The MMAP's maxSize: what one block that takes the whole MMAP can hold.
MaxSize(mmapSize) == mmapSize - MmapHeaderSize - MallocHeaderSize

\* Where the payload of block h ends.
EndOf(B, h) == h + MallocHeaderSize + B[h].size

--------------------------------------------------------------------------------
(* A fresh MMAP: one free block that takes all the available memory. *)
FreshBlocks(mmapSize) ==
  [h \in {FirstHeader} |->
     [size |-> MaxSize(mmapSize), status |-> FREE, prev |-> NULL, next |-> NULL]]

(* Mutant of RoundUp: the length is cut to whole pages. *)
CutToPages(length) == (length \div PageSize) * PageSize

(* Lengths are rounded up to whole pages, the end of a page being where    *)
(* the next block's guard starts.                                          *)
RoundUp(length) ==
  IF (length % PageSize) = 0 THEN length ELSE (length \div PageSize + 1) * PageSize

Fits(B, length) == {h \in DOMAIN B : B[h].status = FREE /\ B[h].size >= length}

(* The loop over the list: the first free block that is large enough, NULL *)
(* when the walk falls off the end.                                        *)
FirstFit(B, length) ==
  LET scan[h \in DOMAIN B] ==
        IF h \in Fits(B, length) THEN h
        ELSE IF B[h].next = NULL THEN NULL ELSE scan[B[h].next]
  IN  scan[FirstHeader]

(* Mutant of Splits: the new block's header is forgotten. *)
SplitsWithoutHeader(B, h, length) == B[h].size > RoundUp(length)

(* The block is larger than the rounded length and one more header: what   *)
(* is left becomes a free block of its own.                                *)
Splits(B, h, length) == B[h].size > RoundUp(length) + MallocHeaderSize

Remainder(h, length) == h + RoundUp(length) + MallocHeaderSize

(* Block h is handed out for a request of `length` bytes.  Without a split *)
(* the block keeps its size "even if redundant", and the store to          *)
(* next->next->prev rewrites the value it has.                             *)
AllocBlock(B, h, length) ==
  LET n == Remainder(h, length) IN
  IF Splits(B, h, length)
  THEN [g \in DOMAIN B \cup {n} |->
          IF g = n THEN [size   |-> B[h].size - (RoundUp(length) + MallocHeaderSize),
                         status |-> FREE, prev |-> h, next |-> B[h].next]
          ELSE IF g = h THEN [size   |-> RoundUp(length),
                              status |-> BUSY, prev |-> B[h].prev, next |-> n]
          ELSE IF g = B[h].next THEN [B[g] EXCEPT !.prev = n]
          ELSE B[g]]
  ELSE [B EXCEPT ![h].status = BUSY]

(* What the client gets: the request is pushed against the end of its last *)
(* page, so that an overrun runs into the page that follows.               *)
PayloadPtr(h, length) == h + MallocHeaderSize + (PageSize - (length % PageSize))

--------------------------------------------------------------------------------
(* Mutants of Absorb: the swallowed header's bytes are lost, and the block *)
(* after the swallowed one keeps its prev.                                 *)
AbsorbPayloadOnly(B, h, n) ==
  [g \in DOMAIN B \ {n} |->
     IF g = h THEN [B[h] EXCEPT !.size = @ + B[n].size, !.next = B[n].next]
     ELSE IF g = B[n].next THEN [B[g] EXCEPT !.prev = h]
     ELSE B[g]]

AbsorbOneWay(B, h, n) ==
  [g \in DOMAIN B \ {n} |->
     IF g = h THEN [B[h] EXCEPT !.size = @ + B[n].size + MallocHeaderSize,
                                !.next = B[n].next]
     ELSE B[g]]

(* Block h swallows the block n that follows it. *)
Absorb(B, h, n) ==
  [g \in DOMAIN B \ {n} |->
     IF g = h THEN [size   |-> B[h].size + B[n].size + MallocHeaderSize,
                    status |-> B[h].status, prev |-> B[h].prev, next |-> B[n].next]
     ELSE IF g = B[n].next THEN [B[g] EXCEPT !.prev = h]
     ELSE B[g]]

NextIsFree(B, h) == B[h].next # NULL /\ B[B[h].next].status = FREE
PrevIsFree(B, h) == B[h].prev # NULL /\ B[B[h].prev].status = FREE

FreeBlocksNext(B, h) == IF NextIsFree(B, h) THEN Absorb(B, h, B[h].next) ELSE B

(* Mutant of FreeBlocksPrev: the previous block is left as it is. *)
KeepPrev(B, h) == B

FreeBlocksPrev(B, h) == IF PrevIsFree(B, h) THEN Absorb(B, B[h].prev, h) ELSE B

MarkFree(B, h) == [B EXCEPT ![h].status = FREE]

(* vgc_free, once the header has been found: mark, join with the next      *)
(* block, join with the previous one.                                      *)
FreeBlock(B, h) == FreeBlocksPrev(FreeBlocksNext(MarkFree(B, h), h), h)

(* Mutants of Unprotected: a swallowed block keeps its guard page, and the *)
(* next block loses its own although it is in use.                         *)
UnprotectedOwn(B, h) == {h}

UnprotectedBoth(B, h) == {h, B[h].next}

(* The guard pages vgc_free makes accessible again: the block's own and,   *)
(* when the next block is swallowed, the next block's.                     *)
Unprotected(B, h) == {h} \cup (IF NextIsFree(B, h) THEN {B[h].next} ELSE {})

--------------------------------------------------------------------------------
(* The tests of checkMmapBlock that make it return false. *)
CheckMmapBlock(B, mmapSize, mmapBlockSize) ==
  \A h \in DOMAIN B :
    /\ B[h].size <= MaxSize(mmapSize)
    /\ h <= mmapBlockSize
    /\ B[h].next # NULL => B[B[h].next].prev = h

(* Its last test, which compares with the size every MMAP is asked for     *)
(* and only logs "Found inconsistent MMAP".                                *)
SumsMatch(B, mmapBlockSize) ==
  mmapBlockSize - MmapHeaderSize - MallocHeaderSize * Cardinality(DOMAIN B)
    = MapThenSumSet(LAMBDA h : B[h].size, DOMAIN B)

--------------------------------------------------------------------------------
(* The shape the list has: the links of neighbours agree, a block's next   *)
(* header is where its payload ends, the last block ends where the MMAP    *)
(* does, and no two blocks share a byte.                                   *)
WellLinked(B, mmapSize, h) ==
  /\ FirstHeader <= h /\ EndOf(B, h) <= mmapSize
  /\ B[h].prev = NULL => h = FirstHeader
  /\ B[h].prev # NULL => /\ B[h].prev \in DOMAIN B
                         /\ B[B[h].prev].next = h
  /\ B[h].next = NULL => EndOf(B, h) = mmapSize
  /\ B[h].next # NULL => /\ B[h].next \in DOMAIN B
                         /\ B[h].next = EndOf(B, h)
                         /\ B[B[h].next].prev = h

Apart(B) == \A g, h \in DOMAIN B : g < h => EndOf(B, g) <= h

WellFormed(B, mmapSize) ==
  /\ FirstHeader \in DOMAIN B
  /\ B[FirstHeader].prev = NULL
  /\ \A h \in DOMAIN B : WellLinked(B, mmapSize, h)
  /\ Apart(B)

(* No two free blocks are neighbours. *)
Coalesced(B) == \A h \in DOMAIN B : B[h].status = FREE => ~NextIsFree(B, h)
================================================================================
