------------------------------ MODULE ListProofs ------------------------------
(***************************************************************************)
(* What the lists of VGCMalloc are good for, from VGCMallocProofs on.  The *)
(* lists of blocks pass the check the library makes of them, free          *)
(* neighbours are joined, elements counts the busy blocks, and guard pages *)
(* are on headers only.  The list of MMAPs stays well linked: that         *)
(* mmapBlockFirst leads to an MMAP at all needs the list to have no        *)
(* circle, and that needs a rank of each MMAP; the lists that the race of  *)
(* two first mappings leaves behind have ranks, too.  Then what clients    *)
(* are promised, with the conditions it takes: that they can touch what    *)
(* they own, that vgc_free frees, and that memory goes back to the system. *)
(***************************************************************************)
EXTENDS VGCMallocProofs, InductionProofs

--------------------------------------------------------------------------------
(* The MMAPs are whole pages long.                                         *)
WholePages == \A mmapSize \in MmapSizes : mmapSize % PageSize = 0

(* What is invariant of the list of one MMAP and of its header.            *)
Good(B, mmapSize, elements) ==
  /\ mmapSize \in MmapSizes
  /\ Coalesced(B)
  /\ IsFiniteSet(Busy(B)) /\ elements = Cardinality(Busy(B))
  /\ WholePages => Paged(B)

LEMMA GoodSize ==
  ASSUME NEW B, NEW mmapSize, NEW elements, Good(B, mmapSize, elements)
  PROVE  mmapSize <= MmapBlockSize
  BY ConstantsAssumption DEF Good, MmapSizes

LEMMA FreshGood ==
  ASSUME NEW mmapSize \in MmapSizes
  PROVE  /\ Good(FreshBlocks(mmapSize), mmapSize, 0)
         /\ DOMAIN FreshBlocks(mmapSize) = {FirstHeader}
<1>1. Busy(FreshBlocks(mmapSize)) = {}
  BY DEF Busy, FreshBlocks, FREE, BUSY
<1>2. WholePages => Paged(FreshBlocks(mmapSize))
  <2> SUFFICES ASSUME WholePages PROVE Paged(FreshBlocks(mmapSize))
    OBVIOUS
  <2>1. mmapSize \in Nat /\ mmapSize > MmapHeaderSize + MallocHeaderSize
    BY MmapSizeBounds
  <2>2. mmapSize % PageSize = 0
    BY DEF WholePages
  <2>3. Multiple(mmapSize)
    BY <2>1, <2>2, MultipleIs
  <2> QED
    BY <2>1, <2>3, FreshPaged
<1>3. Coalesced(FreshBlocks(mmapSize))
  BY DEF Coalesced, FreshBlocks, NextIsFree
<1> QED
  BY <1>1, <1>2, <1>3, FS_EmptySet DEF Good, FreshBlocks

LEMMA AllocGood ==
  ASSUME NEW B, NEW mmapSize \in Nat, NEW elements, IsList(B, mmapSize),
         Good(B, mmapSize, elements),
         NEW length \in Nat, NEW h \in Fits(B, length)
  PROVE  Good(AllocBlock(B, h, length), mmapSize, elements + 1)
<1> DEFINE C == AllocBlock(B, h, length)
<1>1. h \in DOMAIN B \ Busy(B)
  BY DEF Fits, Busy, FREE, BUSY
<1>2. /\ h \in DOMAIN C /\ C[h].status = BUSY
      /\ \A g \in DOMAIN B \ {h} : Unchanged(B, C, g)
      /\ \A g \in DOMAIN C \ DOMAIN B : C[g].status = FREE
  BY AllocBlockIsList
<1>3. Coalesced(C) /\ (WholePages => Paged(C))
  BY AllocBlockJoined, AllocBlockPaged DEF Good
<1> HIDE DEF C
<1>4. Busy(C) = Busy(B) \cup {h}
  BY <1>1, <1>2 DEF Busy, Unchanged, FREE, BUSY
<1>5. /\ IsFiniteSet(Busy(B) \cup {h})
      /\ Cardinality(Busy(B) \cup {h}) = elements + 1
  BY <1>1, FS_AddElement DEF Good
<1>6. Good(C, mmapSize, elements + 1)
  BY <1>3, <1>4, <1>5 DEF Good
<1> QED
  BY <1>6 DEF C

LEMMA FreeGood ==
  ASSUME NEW B, NEW mmapSize \in Nat, NEW elements, IsList(B, mmapSize),
         Good(B, mmapSize, elements), NEW h \in Busy(B)
  PROVE  Good(FreeBlock(B, h), mmapSize, elements - 1)
<1> DEFINE C == FreeBlock(B, h)
<1>1. h \in DOMAIN B /\ B[h].status = BUSY
  BY DEF Busy
<1>2. /\ \A g \in DOMAIN B \ {h} : B[g].status = BUSY => Unchanged(B, C, g)
      /\ \A g \in DOMAIN C : C[g].status = BUSY => g # h /\ B[g].status = BUSY
      /\ DOMAIN C \subseteq DOMAIN B
  BY <1>1, FreeBlockIsList
<1>3. Coalesced(C) /\ (WholePages => Paged(C))
  BY <1>1, FreeBlockJoined, FreeBlockPaged DEF Good
<1> HIDE DEF C
<1>4. Busy(C) = Busy(B) \ {h}
  BY <1>1, <1>2 DEF Busy, Unchanged
<1>5. /\ IsFiniteSet(Busy(B) \ {h})
      /\ Cardinality(Busy(B) \ {h}) = elements - 1
  BY FS_RemoveElement DEF Good
<1>6. Good(C, mmapSize, elements - 1)
  BY <1>3, <1>4, <1>5 DEF Good
<1> QED
  BY <1>6 DEF C

ListInv ==
  /\ \A m \in mapped : Good(block[m], mmapBlock[m].size, mmapBlock[m].elements)
  /\ GuardsOnHeaders

(* A step that is about the MMAP m and leaves the others as they are.      *)
LEMMA MmapStep ==
  ASSUME IInv, ListInv, NEW m \in Mmaps, NEW C,
         mapped' = mapped \cup {m},
         block' = [block EXCEPT ![m] = C],
         \A k \in mapped \ {m} : /\ mmapBlock'[k].size = mmapBlock[k].size
                                 /\ mmapBlock'[k].elements = mmapBlock[k].elements,
         Good(C, mmapBlock'[m].size, mmapBlock'[m].elements),
         \A page \in guard' : \/ page \in guard /\ page[1] # m
                              \/ page[1] = m /\ page[2] \in DOMAIN C
  PROVE  ListInv'
<1>1. /\ \A k \in mapped \ {m} : block'[k] = block[k] /\ k \in Mmaps
      /\ block'[m] = C
  BY DEF IInv, TypeOK
<1>2. \A k \in mapped' : Good(block'[k], mmapBlock'[k].size, mmapBlock'[k].elements)
  BY <1>1 DEF ListInv
<1>3. GuardsOnHeaders'
  BY <1>1 DEF ListInv, GuardsOnHeaders
<1> QED
  BY <1>2, <1>3 DEF ListInv

(* A step that leaves MMAPs, lists and guards as they are.                 *)
LEMMA StillStep ==
  ASSUME ListInv, UNCHANGED <<mapped, mmapBlock, block, guard>>
  PROVE  ListInv'
  BY DEF ListInv, GuardsOnHeaders

(* allocMallocBlock in an MMAP with the list B.                            *)
LEMMA TakeGood ==
  ASSUME IInv, ListInv, NEW t \in Threads, NEW m \in Mmaps, NEW B, NEW headers, NEW g,
         headers \in [Mmaps -> MmapHeader],
         \A k \in mapped \ {m} : /\ headers[k].size = mmapBlock[k].size
                                 /\ headers[k].elements = mmapBlock[k].elements,
         IsList(B, headers[m].size),
         Good(B, headers[m].size, headers[m].elements),
         NEW h \in Fits(B, call[t].size),
         \A page \in g : \/ page \in guard /\ page[1] # m
                         \/ page[1] = m /\ page[2] \in DOMAIN B,
         mapped' = mapped \cup {m},
         Take(t, m, B, h, headers, g)
  PROVE  ListInv'
<1> DEFINE size == call[t].size
           C == AllocBlock(B, h, size)
           n == Remainder(h, size)
<1>1. /\ size \in Nat /\ headers[m] \in MmapHeader
      /\ headers[m].size \in Nat /\ headers[m].elements \in Int
  BY DEF IInv, TypeOK, Call, MmapHeader
<1>2. /\ block' = [block EXCEPT ![m] = C]
      /\ mmapBlock' = [headers EXCEPT ![m].elements = @ + 1]
      /\ guard' = IF Splits(B, h, size) THEN Protect(g, <<m, n>>) ELSE g
  BY DEF Take
<1>3. /\ mmapBlock'[m].size = headers[m].size
      /\ mmapBlock'[m].elements = headers[m].elements + 1
      /\ \A k \in Mmaps \ {m} : mmapBlock'[k] = headers[k]
  BY <1>1, <1>2 DEF MmapHeader
<1>4. Good(C, headers[m].size, headers[m].elements + 1)
  BY <1>1, AllocGood
<1>5. DOMAIN B \subseteq DOMAIN C /\ (Splits(B, h, size) => n \in DOMAIN C)
  BY DEF AllocBlock
<1> HIDE DEF C, n, size
<1>6. \A page \in guard' : \/ page \in guard /\ page[1] # m
                           \/ page[1] = m /\ page[2] \in DOMAIN C
  <2>1. \A page \in g : \/ page \in guard /\ page[1] # m
                        \/ page[1] = m /\ page[2] \in DOMAIN C
    BY <1>5
  <2>2. CASE Splits(B, h, size)
    <3>1. <<m, n>>[1] = m /\ <<m, n>>[2] \in DOMAIN C
      BY <1>5, <2>2
    <3> QED
      BY <1>2, <2>1, <2>2, <3>1 DEF Protect
  <2>3. CASE ~Splits(B, h, size)
    BY <1>2, <2>1, <2>3
  <2> QED
    BY <2>2, <2>3
<1>7. \A k \in mapped \ {m} : /\ mmapBlock'[k].size = mmapBlock[k].size
                              /\ mmapBlock'[k].elements = mmapBlock[k].elements
  BY <1>3 DEF IInv, TypeOK
<1>8. Good(C, mmapBlock'[m].size, mmapBlock'[m].elements)
  BY <1>3, <1>4
<1>9. IInv /\ ListInv /\ m \in Mmaps /\ mapped' = mapped \cup {m}
  OBVIOUS
<1> QED
  BY ONLY <1>2, <1>6, <1>7, <1>8, <1>9, MmapStep

(* What a new MMAP brings: a free block, and the guard of its header.      *)
LEMMA NewMmapGood ==
  ASSUME IInv, ListInv, NEW m \in Mmaps \ mapped, NEW mmapSize \in MmapSizes,
         NEW last \in Mmaps \cup {NoMmap}
  PROVE  LET headers == LinkAfter(m, mmapSize, last)
             B       == FreshBlocks(mmapSize) IN
         /\ headers \in [Mmaps -> MmapHeader]
         /\ \A k \in mapped : /\ headers[k].size = mmapBlock[k].size
                              /\ headers[k].elements = mmapBlock[k].elements
         /\ headers[m].size = mmapSize
         /\ IsList(B, headers[m].size)
         /\ Good(B, headers[m].size, headers[m].elements)
         /\ \A page \in Protect(guard, <<m, FirstHeader>>) :
              \/ page \in guard /\ page[1] # m
              \/ page[1] = m /\ page[2] \in DOMAIN B
<1> DEFINE headers == LinkAfter(m, mmapSize, last)
<1>1. /\ headers \in [Mmaps -> MmapHeader]
      /\ headers[m].size = mmapSize
  BY LinkAfterHeaders
<1>2. headers[m].elements = 0
  BY DEF LinkAfter
<1>3. \A k \in mapped : /\ headers[k].size = mmapBlock[k].size
                        /\ headers[k].elements = mmapBlock[k].elements
  BY DEF LinkAfter, IInv, TypeOK, MmapHeader
<1>4. /\ IsList(FreshBlocks(mmapSize), mmapSize)
      /\ Good(FreshBlocks(mmapSize), mmapSize, 0)
      /\ DOMAIN FreshBlocks(mmapSize) = {FirstHeader}
  BY FreshIsList, FreshGood, MmapSizeBounds
<1>5. \A page \in guard : page[1] # m
  BY DEF ListInv, GuardsOnHeaders
<1> HIDE DEF headers
<1>6. \A page \in Protect(guard, <<m, FirstHeader>>) :
        \/ page \in guard /\ page[1] # m
        \/ page[1] = m /\ page[2] \in DOMAIN FreshBlocks(mmapSize)
  BY <1>4, <1>5 DEF Protect
<1> QED
  BY <1>1, <1>2, <1>3, <1>4, <1>6 DEF headers

(* An MMAP is mapped and nothing taken of it.                              *)
LEMMA MapGood ==
  ASSUME IInv, ListInv, NEW m \in Mmaps \ mapped, NEW mmapSize \in MmapSizes,
         NEW last \in Mmaps \cup {NoMmap},
         mapped' = mapped \cup {m},
         block' = [block EXCEPT ![m] = FreshBlocks(mmapSize)],
         mmapBlock' = LinkAfter(m, mmapSize, last),
         guard' = Protect(guard, <<m, FirstHeader>>)
  PROVE  ListInv'
<1> DEFINE headers == LinkAfter(m, mmapSize, last)
           B       == FreshBlocks(mmapSize)
           g       == Protect(guard, <<m, FirstHeader>>)
<1>1. /\ \A k \in mapped : /\ headers[k].size = mmapBlock[k].size
                           /\ headers[k].elements = mmapBlock[k].elements
      /\ Good(B, headers[m].size, headers[m].elements)
      /\ \A page \in g : \/ page \in guard /\ page[1] # m
                         \/ page[1] = m /\ page[2] \in DOMAIN B
  BY NewMmapGood
<1>2. mmapBlock' = headers /\ block' = [block EXCEPT ![m] = B] /\ guard' = g
  OBVIOUS
<1>3. IInv /\ ListInv /\ m \in Mmaps /\ mapped' = mapped \cup {m}
  OBVIOUS
<1> HIDE DEF headers, B, g
<1>4. /\ \A k \in mapped \ {m} : /\ mmapBlock'[k].size = mmapBlock[k].size
                                 /\ mmapBlock'[k].elements = mmapBlock[k].elements
      /\ Good(B, mmapBlock'[m].size, mmapBlock'[m].elements)
      /\ \A page \in guard' : \/ page \in guard /\ page[1] # m
                              \/ page[1] = m /\ page[2] \in DOMAIN B
  BY <1>1, <1>2
<1>5. block' = [block EXCEPT ![m] = B]
  BY <1>2
<1> QED
  BY ONLY <1>3, <1>4, <1>5, MmapStep

(* vgc_malloc maps the first MMAP, in line 575.                            *)
LEMMA EnterGood ==
  ASSUME IInv, ListInv, NEW t \in Threads, NEW op, NEW size, NEW old,
         Enter(t, op, size, old)
  PROVE  ListInv'
<1>1. CASE UNCHANGED shared
  BY <1>1, StillStep DEF shared
<1>2. CASE \E m \in Mmaps, mmapSize \in MmapSizes :
             /\ MapsNewMmap(m, mmapSize)
             /\ mapped' = mapped \cup {m}
             /\ mmapBlock' = LinkAfter(m, mmapSize, NoMmap)
             /\ block' = [block EXCEPT ![m] = FreshBlocks(mmapSize)]
             /\ guard' = Protect(guard, <<m, FirstHeader>>)
  BY <1>2, MapGood DEF MapsNewMmap
<1> QED
  BY <1>1, <1>2 DEF Enter

LEMMA SearchGood ==
  ASSUME IInv, ListInv, NEW t \in Threads, TakeFromList(t) \/ TakeFromNewMmap(t)
  PROVE  ListInv'
<1>1. CASE TakeFromList(t)
  <2>0. PICK m \in mapped : \E h \in Fits(block[m], call[t].size) :
          Take(t, m, block[m], h, mmapBlock, guard)
    BY <1>1 DEF TakeFromList
  <2>1. PICK h \in Fits(block[m], call[t].size) :
          Take(t, m, block[m], h, mmapBlock, guard)
    BY <2>0
  <2>2. m \in Mmaps /\ IsList(block[m], mmapBlock[m].size) /\ mapped' = mapped \cup {m}
    BY <1>1, ListOfMmap DEF TakeFromList
  <2>3. Good(block[m], mmapBlock[m].size, mmapBlock[m].elements)
    BY DEF ListInv
  <2>4. \A page \in guard : \/ page \in guard /\ page[1] # m
                            \/ page[1] = m /\ page[2] \in DOMAIN block[m]
    BY DEF ListInv, GuardsOnHeaders
  <2>5. mmapBlock \in [Mmaps -> MmapHeader]
    BY DEF IInv, TypeOK
  <2> QED
    BY <2>1, <2>2, <2>3, <2>4, <2>5, TakeGood
<1>2. CASE TakeFromNewMmap(t)
  <2>1. PICK m \in Mmaps, mmapSize \in MmapSizes :
          LET last    == LastMmap
              B       == FreshBlocks(mmapSize)
              headers == LinkAfter(m, mmapSize, last)
              g       == Protect(guard, <<m, FirstHeader>>)
          IN  /\ MapsNewMmap(m, mmapSize)
              /\ last \in mapped \cup {NoMmap}
              /\ mapped' = mapped \cup {m}
              /\ \/ /\ FirstHeader \in Fits(B, call[t].size)
                    /\ Take(t, m, B, FirstHeader, headers, g)
                 \/ /\ FirstHeader \notin Fits(B, call[t].size)
                    /\ block' = [block EXCEPT ![m] = B]
                    /\ mmapBlock' = headers
                    /\ guard' = g
                    /\ Return(t)
                    /\ UNCHANGED live
    BY <1>2 DEF TakeFromNewMmap
  <2> DEFINE last    == LastMmap
             headers == LinkAfter(m, mmapSize, last)
             B       == FreshBlocks(mmapSize)
             g       == Protect(guard, <<m, FirstHeader>>)
  <2>2. /\ m \in Mmaps \ mapped /\ last \in Mmaps \cup {NoMmap}
        /\ mapped' = mapped \cup {m}
    BY <2>1 DEF MapsNewMmap, IInv, TypeOK
  <2>3. CASE FirstHeader \in Fits(B, call[t].size) /\ Take(t, m, B, FirstHeader, headers, g)
    <3> HIDE DEF last
    <3>1. /\ headers \in [Mmaps -> MmapHeader]
          /\ \A k \in mapped : /\ headers[k].size = mmapBlock[k].size
                               /\ headers[k].elements = mmapBlock[k].elements
          /\ IsList(B, headers[m].size)
          /\ Good(B, headers[m].size, headers[m].elements)
          /\ \A page \in g : \/ page \in guard /\ page[1] # m
                             \/ page[1] = m /\ page[2] \in DOMAIN B
      BY <2>2, NewMmapGood
    <3> HIDE DEF headers, B, g
    <3> QED
      BY <2>2, <2>3, <3>1, TakeGood
  <2>4. CASE /\ block' = [block EXCEPT ![m] = B]
             /\ mmapBlock' = headers
             /\ guard' = g
    <3> HIDE DEF last
    <3> QED
      BY <2>2, <2>4, MapGood
  <2> HIDE DEF last
  <2> QED
    BY <2>1, <2>3, <2>4 DEF last
<1> QED
  BY <1>1, <1>2

LEMMA ReleaseGood ==
  ASSUME IInv, ListInv, NEW a \in live, Release(a)
  PROVE  ListInv'
<1> DEFINE m == a.m
           h == HeaderOf(a)
           C == FreeBlock(block[m], h)
<1>1. /\ m \in mapped /\ m \in Mmaps /\ mmapBlock[m] \in MmapHeader
      /\ a.block \in DOMAIN block[m] /\ block[m][a.block].status = BUSY
      /\ Good(block[m], mmapBlock[m].size, mmapBlock[m].elements)
      /\ IsList(block[m], mmapBlock[m].size) /\ mmapBlock[m].size \in Nat
  BY ListOfMmap DEF IInv, LiveBacked, TypeOK, ListInv
<1>2. CASE UNCHANGED shared
  BY <1>2, StillStep DEF shared
<1>3. CASE ~CheckMmapBlock(block[m], mmapBlock[m].size, MmapBlockSize)
  <2>1. CheckMmapBlock(block[m], mmapBlock[m].size, MmapBlockSize)
    BY <1>1, GoodSize, ListPasses, ConstantsAssumption
  <2> QED
    BY <1>3, <2>1
<1>4. CASE h \in DOMAIN block[m] /\ FreeBlockAt(m, h)
  <2>1. h \in Busy(block[m]) /\ h \in DOMAIN block[m]
    BY <1>1, <1>4, HeaderOfOwn DEF Busy
  <2>2. Good(C, mmapBlock[m].size, mmapBlock[m].elements - 1)
    BY <1>1, <2>1, FreeGood
  <2>3. DOMAIN block[m] \ Unprotected(block[m], h) \subseteq DOMAIN C
    BY <1>1, <2>1, FreeBlockDomain
  <2>4. CASE UnmapMmap(m)
    <3>1. \A k \in mapped \ {m} : /\ k \in Mmaps
                                  /\ block'[k] = block[k]
                                  /\ mmapBlock'[k].size = mmapBlock[k].size
                                  /\ mmapBlock'[k].elements = mmapBlock[k].elements
      BY <1>1, <2>4 DEF UnmapMmap, Unlink, IInv, TypeOK, MmapHeader
    <3>2. mapped' = mapped \ {m} /\ guard' = {page \in guard : page[1] # m}
      BY <2>4 DEF UnmapMmap
    <3>3. \A k \in mapped' : Good(block'[k], mmapBlock'[k].size, mmapBlock'[k].elements)
      BY <3>1, <3>2 DEF ListInv
    <3>4. GuardsOnHeaders'
      BY <3>1, <3>2 DEF ListInv, GuardsOnHeaders
    <3> QED
      BY <3>3, <3>4 DEF ListInv
  <2>5. CASE /\ block' = [block EXCEPT ![m] = C]
             /\ mmapBlock' = [mmapBlock EXCEPT ![m].elements = @ - 1]
             /\ guard' = guard \ ({m} \X Unprotected(block[m], h))
             /\ UNCHANGED <<mapped, mmapBlockFirst>>
    <3>1. /\ mmapBlock'[m].size = mmapBlock[m].size
          /\ mmapBlock'[m].elements = mmapBlock[m].elements - 1
          /\ \A k \in mapped \ {m} : mmapBlock'[k] = mmapBlock[k]
      BY <1>1, <2>5 DEF IInv, TypeOK, MmapHeader
    <3>2. ASSUME NEW page \in guard'
          PROVE  \/ page \in guard /\ page[1] # m
                 \/ page[1] = m /\ page[2] \in DOMAIN C
      <4>1. page \in guard /\ page = <<page[1], page[2]>>
        BY <2>5 DEF IInv, TypeOK
      <4>2. CASE page[1] = m
        <5>1. page[2] \in DOMAIN block[m]
          BY <4>1, <4>2 DEF ListInv, GuardsOnHeaders
        <5>2. page[2] \notin Unprotected(block[m], h)
          BY <2>5, <4>1, <4>2
        <5> QED
          BY <2>3, <4>2, <5>1, <5>2
      <4> QED
        BY <4>1, <4>2
    <3>3. IInv /\ ListInv /\ m \in Mmaps /\ mapped' = mapped \cup {m}
      BY <1>1, <2>5
    <3>4. /\ block' = [block EXCEPT ![m] = C]
          /\ Good(C, mmapBlock'[m].size, mmapBlock'[m].elements)
      BY <2>2, <2>5, <3>1
    <3>5. \A k \in mapped \ {m} : /\ mmapBlock'[k].size = mmapBlock[k].size
                                  /\ mmapBlock'[k].elements = mmapBlock[k].elements
      BY <3>1
    <3> HIDE DEF C, h, m
    <3> QED
      BY ONLY <3>2, <3>3, <3>4, <3>5, MmapStep
  <2> QED
    BY <1>4, <2>4, <2>5 DEF FreeBlockAt
<1> QED
  BY <1>2, <1>3, <1>4 DEF Release, shared

LEMMA InitList == Init => ListInv
  BY DEF Init, ListInv, GuardsOnHeaders

LEMMA NextList == IInv /\ ListInv /\ [Next]_vars => ListInv'
<1> SUFFICES ASSUME IInv, ListInv, [Next]_vars PROVE ListInv'
  OBVIOUS
<1>1. CASE UNCHANGED vars
  BY <1>1, StillStep DEF vars, shared
<1>2. ASSUME NEW t \in Threads, Step(t) PROVE ListInv'
  <2>1. CASE \/ \E size \in Sizes : Malloc(t, size)
             \/ \E args \in CallocArgs : Calloc(t, args[1], args[2])
             \/ \E a \in live, size \in ReallocSizes : Realloc(t, a, size)
    BY <2>1, EnterGood DEF Malloc, Calloc, Realloc
  <2>2. CASE TakeFromList(t) \/ TakeFromNewMmap(t)
    BY <2>2, SearchGood
  <2>3. CASE (\E a \in live : Free(t, a)) \/ ReleaseOld(t)
    <3>1. ReleaseOld(t) => call[t].old \in live /\ Release(call[t].old)
      BY DEF ReleaseOld, IInv, CallsOwn
    <3> QED
      BY <2>3, <3>1, ReleaseGood DEF Free
  <2>4. CASE \/ PublishFirst(t) \/ CheckFirst(t) \/ LoadFirst(t) \/ ReadMaxSize(t)
             \/ TakeNothing(t) \/ WalkCrashes(t) \/ ZeroMemory(t) \/ CopyContents(t)
    BY <2>4, StillStep
    DEF PublishFirst, CheckFirst, LoadFirst, ReadMaxSize, TakeNothing, WalkCrashes,
        ZeroMemory, CopyContents, Die, shared
  <2> QED
    BY <1>2, <2>1, <2>2, <2>3, <2>4 DEF Step
<1> QED
  BY <1>1, <1>2 DEF Next, Halted

--------------------------------------------------------------------------------
LEMMA ListsHold == Spec => [](IInv /\ ListInv)
<1>1. Init => IInv /\ ListInv
  BY InitInv, InitList
<1>2. IInv /\ ListInv /\ [Next]_vars => IInv' /\ ListInv'
  BY NextInv, NextList
<1> QED
  BY <1>1, <1>2, PTL DEF Spec

(* The check of the list never refuses one: vgc_malloc passes by no MMAP   *)
(* that has room, and vgc_free gives back whatever it has found.           *)
THEOREM ListsAlwaysPass == Spec => []ListsPassCheck
<1>1. IInv /\ ListInv => ListsPassCheck
  BY ListOfMmap, GoodSize, ListPasses, ConstantsAssumption DEF ListInv, ListsPassCheck
<1> QED
  BY <1>1, ListsHold, PTL

(* No two free blocks are ever neighbours.                                 *)
THEOREM NeighboursJoined == Spec => []FreeBlocksJoined
<1>1. ListInv => FreeBlocksJoined
  BY DEF ListInv, Good, FreeBlocksJoined
<1> QED
  BY <1>1, ListsHold, PTL

(* elements is the number of busy blocks, through all calls.               *)
THEOREM ElementsExact == Spec => []ElementsCountsBusy
<1>1. ListInv => ElementsCountsBusy
  BY DEF ListInv, Good, Busy, ElementsCountsBusy
<1> QED
  BY <1>1, ListsHold, PTL

(* The sum of checkMmapBlock is right when every MMAP has the full size.   *)
THEOREM SumsAgree ==
  ASSUME "fallback" \notin MmapOutcomes
  PROVE  Spec => []ListsConsistent
<1>1. IInv /\ ListInv => ListsConsistent
  <2> SUFFICES ASSUME IInv, ListInv, NEW m \in mapped PROVE SumsMatch(block[m], MmapBlockSize)
    BY DEF ListsConsistent
  <2>1. mmapBlock[m].size = MmapBlockSize
    BY DEF ListInv, Good, MmapSizes
  <2> QED
    BY <2>1, ListOfMmap, WellFormedSums
<1> QED
  BY <1>1, ListsHold, PTL

(* Guard pages are on headers of mapped MMAPs only.                        *)
THEOREM GuardsWithHeaders == Spec => []GuardsOnHeaders
<1>1. ListInv => GuardsOnHeaders
  BY DEF ListInv
<1> QED
  BY <1>1, ListsHold, PTL

--------------------------------------------------------------------------------
(* The list of MMAPs.                                                      *)
(* The list of MMAPs has no circle: each link leads to a lower rank.       *)
Ranked ==
  \E K \in Nat : \E r \in [mapped -> 0 .. K] :
    \A m \in mapped : mmapBlock[m].next # NoMmap => r[mmapBlock[m].next] < r[m]

(* An MMAP that is mapped and not yet stored belongs to one thread: it is  *)
(* on no list, and nothing of it is handed out.                            *)
Alone(m) ==
  /\ m \in mapped
  /\ mmapBlock[m].prev = NoMmap /\ mmapBlock[m].next = NoMmap
  /\ m # mmapBlockFirst
  /\ \A a \in live : a.m # m

PendingAlone ==
  \A t \in Threads : call[t].pc = "publish" =>
    \/ call[t].at = MapFailed
    \/ /\ Alone(call[t].at)
       /\ \A u \in Threads \ {t} : call[u].pc = "publish" => call[u].at # call[t].at

LinkInv == MmapLinks /\ Ranked /\ PendingAlone

(* The MMAPs a walk may come to. *)
Reached == {m \in mapped : m = mmapBlockFirst \/ mmapBlock[m].prev # NoMmap}

LEMMA NextReached ==
  ASSUME IInv, LinkInv, NEW m \in mapped, mmapBlock[m].next # NoMmap
  PROVE  mmapBlock[m].next \in Reached
  BY ConstantsAssumption DEF IInv, TypeOK, LinkInv, MmapLinks, Reached

(* The walk of mmapBlockAllocate comes to the end of the list.             *)
LEMMA LastReached ==
  ASSUME IInv, LinkInv, mmapBlockFirst \in mapped
  PROVE  LastMmap \in Reached /\ mmapBlock[LastMmap].next = NoMmap
<1> DEFINE next == [m \in mapped |-> mmapBlock[m].next]
           D    == {m \in mapped : mmapBlock[m].next = NoMmap}
           v    == [m \in mapped |-> m]
           last == CHOOSE f : f = [m \in mapped |->
                     IF mmapBlock[m].next = NoMmap THEN m ELSE f[mmapBlock[m].next]]
<1>0. PICK K \in Nat : \E r \in [mapped -> 0 .. K] :
        \A m \in mapped : mmapBlock[m].next # NoMmap => r[mmapBlock[m].next] < r[m]
  BY DEF LinkInv, Ranked
<1>1. PICK r \in [mapped -> 0 .. K] :
        \A m \in mapped : mmapBlock[m].next # NoMmap => r[mmapBlock[m].next] < r[m]
  BY <1>0
<1>2. \A m \in mapped \ D : next[m] \in mapped /\ r[next[m]] < r[m]
  BY <1>1 DEF LinkInv, MmapLinks
<1>3. \E f : Follows(f, mapped, D, v, next)
  <2> HIDE DEF next, D, v
  <2> QED
    BY <1>0, <1>1, <1>2, FollowsToEnd
<1>4. \E f : f = [m \in mapped |->
                    IF mmapBlock[m].next = NoMmap THEN m ELSE f[mmapBlock[m].next]]
  <2>1. PICK f : f = [m \in mapped |-> IF m \in D THEN v[m] ELSE f[next[m]]]
    BY <1>3 DEF Follows
  <2>2. \A m \in mapped : (IF m \in D THEN v[m] ELSE f[next[m]])
                        = (IF mmapBlock[m].next = NoMmap THEN m ELSE f[mmapBlock[m].next])
    OBVIOUS
  <2>3. f = [m \in mapped |->
                    IF mmapBlock[m].next = NoMmap THEN m ELSE f[mmapBlock[m].next]]
    BY <2>1, <2>2
  <2> QED
    BY <2>3
<1>5. last = [m \in mapped |->
                IF mmapBlock[m].next = NoMmap THEN m ELSE last[mmapBlock[m].next]]
  BY <1>4
<1>6. LastMmap = last[mmapBlockFirst]
  BY DEF LastMmap
<1> HIDE DEF next, D, v, last
<1> DEFINE Bad == {m \in Reached : ~(last[m] \in Reached /\ mmapBlock[last[m]].next = NoMmap)}
<1>7. ASSUME NEW m \in Bad PROVE \E n \in Bad : r[n] < r[m]
  <2>1. m \in mapped /\ m \in Reached
    BY DEF Reached
  <2>2. mmapBlock[m].next # NoMmap
    BY <1>5, <2>1
  <2>3. last[m] = last[mmapBlock[m].next]
    BY <1>5, <2>1, <2>2
  <2> QED
    BY <1>1, <2>1, <2>2, <2>3, NextReached
<1>8. Bad = {}
  <2>1. r \in [mapped -> Nat] /\ Bad \in SUBSET mapped
    BY <1>1 DEF Reached
  <2> HIDE DEF Bad
  <2> QED
    BY ONLY <1>7, <2>1, ByRank
<1> QED
  BY <1>6, <1>8 DEF Reached

(* The walk of allocMallocBlock comes to an MMAP of the list or finds none. *)
LEMMA ServingReached ==
  ASSUME IInv, LinkInv, NEW size
  PROVE  /\ ServingMmap(size) \in Reached \cup {NoMmap}
         /\ mmapBlockFirst \in mapped /\ Serves(mmapBlockFirst, size)
              => ServingMmap(size) = mmapBlockFirst
<1> DEFINE next == [m \in mapped |-> mmapBlock[m].next]
           D    == {m \in mapped : Serves(m, size) \/ mmapBlock[m].next = NoMmap}
           v    == [m \in mapped |-> IF Serves(m, size) THEN m ELSE NoMmap]
           find == CHOOSE f : f = [m \in mapped |->
                     IF Serves(m, size) THEN m
                     ELSE IF mmapBlock[m].next = NoMmap THEN NoMmap
                     ELSE f[mmapBlock[m].next]]
<1>0. PICK K \in Nat : \E r \in [mapped -> 0 .. K] :
        \A m \in mapped : mmapBlock[m].next # NoMmap => r[mmapBlock[m].next] < r[m]
  BY DEF LinkInv, Ranked
<1>1. PICK r \in [mapped -> 0 .. K] :
        \A m \in mapped : mmapBlock[m].next # NoMmap => r[mmapBlock[m].next] < r[m]
  BY <1>0
<1>2. \A m \in mapped \ D : next[m] \in mapped /\ r[next[m]] < r[m]
  BY <1>1 DEF LinkInv, MmapLinks
<1>3. \E f : Follows(f, mapped, D, v, next)
  <2> HIDE DEF next, D, v
  <2> QED
    BY <1>0, <1>1, <1>2, FollowsToEnd
<1>4. \E f : f = [m \in mapped |->
                     IF Serves(m, size) THEN m
                     ELSE IF mmapBlock[m].next = NoMmap THEN NoMmap
                     ELSE f[mmapBlock[m].next]]
  <2>1. PICK f : f = [m \in mapped |-> IF m \in D THEN v[m] ELSE f[next[m]]]
    BY <1>3 DEF Follows
  <2>2. \A m \in mapped : (IF m \in D THEN v[m] ELSE f[next[m]])
                        = (IF Serves(m, size) THEN m
                           ELSE IF mmapBlock[m].next = NoMmap THEN NoMmap
                           ELSE f[mmapBlock[m].next])
    OBVIOUS
  <2>3. f = [m \in mapped |->
                     IF Serves(m, size) THEN m
                     ELSE IF mmapBlock[m].next = NoMmap THEN NoMmap
                     ELSE f[mmapBlock[m].next]]
    BY <2>1, <2>2
  <2> QED
    BY <2>3
<1>5. find = [m \in mapped |->
                     IF Serves(m, size) THEN m
                     ELSE IF mmapBlock[m].next = NoMmap THEN NoMmap
                     ELSE find[mmapBlock[m].next]]
  BY <1>4
<1>6. ServingMmap(size) = IF mmapBlockFirst \in mapped THEN find[mmapBlockFirst] ELSE NoMmap
  BY DEF ServingMmap
<1> HIDE DEF next, D, v, find
<1> DEFINE Bad == {m \in Reached : find[m] \notin Reached \cup {NoMmap}}
<1>7. ASSUME NEW m \in Bad PROVE \E n \in Bad : r[n] < r[m]
  <2>1. m \in mapped /\ m \in Reached
    BY DEF Reached
  <2>2. mmapBlock[m].next # NoMmap /\ ~Serves(m, size)
    BY <1>5, <2>1
  <2>3. find[m] = find[mmapBlock[m].next]
    BY <1>5, <2>1, <2>2
  <2> QED
    BY <1>1, <2>1, <2>2, <2>3, NextReached
<1>8. Bad = {}
  <2>1. r \in [mapped -> Nat] /\ Bad \in SUBSET mapped
    BY <1>1 DEF Reached
  <2> HIDE DEF Bad
  <2> QED
    BY ONLY <1>7, <2>1, ByRank
<1>9. mmapBlockFirst \in mapped /\ Serves(mmapBlockFirst, size)
        => find[mmapBlockFirst] = mmapBlockFirst
  BY <1>5
<1> QED
  BY <1>6, <1>8, <1>9 DEF Reached

(* A call that is about to store an MMAP was so before. *)
StillPending == \A t \in Threads : call'[t].pc = "publish" =>
                  call[t].pc = "publish" /\ call'[t].at = call[t].at

(* A step that leaves the MMAPs and their links as they are. *)
LEMMA SameLinks ==
  ASSUME LinkInv, UNCHANGED <<mapped, mmapBlockFirst>>, StillPending,
         \A m \in mapped : /\ mmapBlock'[m].next = mmapBlock[m].next
                           /\ mmapBlock'[m].prev = mmapBlock[m].prev,
         \A a \in live' : a.m \in Reached \/ \E b \in live : a.m = b.m
  PROVE  LinkInv'
<1>1. MmapLinks'
  BY DEF LinkInv, MmapLinks
<1>2. Ranked'
  BY DEF LinkInv, Ranked
<1>3. \A m : Alone(m) => Alone(m)'
  BY DEF Alone, Reached
<1>4. PendingAlone'
  BY <1>3 DEF LinkInv, PendingAlone, StillPending
<1> QED
  BY <1>1, <1>2, <1>4 DEF LinkInv

(* allocMMAP links a new MMAP after the last one, or after none. *)
LEMMA AppendLinks ==
  ASSUME IInv, LinkInv, NEW m \in Mmaps \ mapped, NEW mmapSize,
         NEW last \in Reached \cup {NoMmap},
         last # NoMmap => mmapBlock[last].next = NoMmap,
         mapped' = mapped \cup {m}, mmapBlockFirst' = mmapBlockFirst,
         \A k \in mapped' : /\ mmapBlock'[k].next = LinkAfter(m, mmapSize, last)[k].next
                            /\ mmapBlock'[k].prev = LinkAfter(m, mmapSize, last)[k].prev
  PROVE  /\ MmapLinks' /\ Ranked'
         /\ \A k \in mapped : Alone(k) /\ (\A a \in live' : a.m = m \/ \E b \in live : a.m = b.m)
                                => Alone(k)'
<1>1. /\ mapped \subseteq Mmaps /\ m \notin mapped /\ m # NoMmap /\ NoMmap \notin mapped
      /\ mmapBlock \in [Mmaps -> MmapHeader]
  BY ConstantsAssumption DEF IInv, TypeOK
<1>2. last # NoMmap => last \in mapped /\ last # m
  BY <1>1 DEF Reached
<1>3. /\ mmapBlock'[m].next = NoMmap /\ mmapBlock'[m].prev = last
      /\ \A k \in mapped : /\ mmapBlock'[k].prev = mmapBlock[k].prev
                           /\ mmapBlock'[k].next = IF k = last THEN m ELSE mmapBlock[k].next
  <2>1. \A k \in Mmaps : LinkAfter(m, mmapSize, last)[k] =
          IF k = m THEN [size |-> mmapSize, elements |-> 0, prev |-> last, next |-> NoMmap]
          ELSE IF k = last THEN [mmapBlock[k] EXCEPT !.next = m]
          ELSE mmapBlock[k]
    BY DEF LinkAfter
  <2>2. \A k \in mapped : /\ LinkAfter(m, mmapSize, last)[k].prev = mmapBlock[k].prev
                          /\ LinkAfter(m, mmapSize, last)[k].next =
                               IF k = last THEN m ELSE mmapBlock[k].next
    BY <1>1, <2>1 DEF MmapHeader
  <2>3. /\ LinkAfter(m, mmapSize, last)[m].prev = last
        /\ LinkAfter(m, mmapSize, last)[m].next = NoMmap
    BY DEF LinkAfter
  <2>4. mmapBlock'[m].next = NoMmap /\ mmapBlock'[m].prev = last
    BY <2>3
  <2>5. ASSUME NEW k \in mapped
        PROVE  /\ mmapBlock'[k].prev = mmapBlock[k].prev
               /\ mmapBlock'[k].next = IF k = last THEN m ELSE mmapBlock[k].next
    <3>1. /\ mmapBlock'[k].prev = LinkAfter(m, mmapSize, last)[k].prev
          /\ mmapBlock'[k].next = LinkAfter(m, mmapSize, last)[k].next
      OBVIOUS
    <3> QED
      BY <2>2, <3>1
  <2> QED
    BY <2>4, <2>5
<1>4. MmapLinks'
  <2>1. mmapBlockFirst' \in mapped' \cup {NoMmap, MapFailed}
    BY DEF LinkInv, MmapLinks
  <2>2. ASSUME NEW k \in mapped', mmapBlock'[k].next # NoMmap
        PROVE  /\ mmapBlock'[k].next \in mapped' \ {k}
               /\ mmapBlock'[mmapBlock'[k].next].prev = k
    <3>1. k \in mapped
      BY <1>3, <2>2
    <3>2. CASE k = last
      BY <1>1, <1>2, <1>3, <3>1, <3>2
    <3>3. CASE k # last
      BY <1>1, <1>3, <2>2, <3>1, <3>3 DEF LinkInv, MmapLinks
    <3> QED
      BY <3>2, <3>3
  <2>3. ASSUME NEW k \in mapped', mmapBlock'[k].prev # NoMmap
        PROVE  /\ mmapBlock'[k].prev \in mapped' \ {k}
               /\ mmapBlock'[mmapBlock'[k].prev].next = k
    BY <1>1, <1>2, <1>3, <2>3 DEF LinkInv, MmapLinks
  <2> QED
    BY <2>1, <2>2, <2>3 DEF MmapLinks
<1>5. Ranked'
  <2>0. PICK K \in Nat : \E r \in [mapped -> 0 .. K] :
          \A k \in mapped : mmapBlock[k].next # NoMmap => r[mmapBlock[k].next] < r[k]
    BY DEF LinkInv, Ranked
  <2>1. PICK r \in [mapped -> 0 .. K] :
          \A k \in mapped : mmapBlock[k].next # NoMmap => r[mmapBlock[k].next] < r[k]
    BY <2>0
  <2> DEFINE s == [k \in mapped' |-> IF k = m THEN 0 ELSE r[k] + 1]
  <2>2. s \in [mapped' -> 0 .. K + 1]
    BY <2>1
  <2>3. ASSUME NEW k \in mapped', mmapBlock'[k].next # NoMmap
        PROVE  s[mmapBlock'[k].next] < s[k]
    <3>1. k \in mapped /\ k # m
      BY <1>1, <1>3, <2>3
    <3>2. CASE k = last
      BY <1>1, <1>3, <3>1, <3>2
    <3>3. CASE k # last
      <4>1. mmapBlock'[k].next = mmapBlock[k].next /\ mmapBlock[k].next \in mapped
        BY <1>3, <2>3, <3>1, <3>3 DEF LinkInv, MmapLinks
      <4> QED
        BY <1>1, <2>1, <2>3, <3>1, <4>1
    <3> QED
      BY <3>2, <3>3
  <2> HIDE DEF s
  <2> QED
    BY <2>2, <2>3 DEF Ranked
<1>6. ASSUME NEW k \in mapped, Alone(k), \A a \in live' : a.m = m \/ \E b \in live : a.m = b.m
      PROVE  Alone(k)'
  <2>1. k # last /\ k # m
    BY <1>1, <1>6 DEF Alone, Reached
  <2> QED
    BY <1>3, <1>6, <2>1 DEF Alone
<1> QED
  BY <1>4, <1>5, <1>6

(* freeMMAP takes an MMAP off the list, wherever it is. *)
LEMMA UnmapLinks ==
  ASSUME IInv, LinkInv, NEW a \in live, UnmapMmap(a.m), live' \subseteq live, StillPending
  PROVE  LinkInv'
<1> DEFINE m == a.m
           p == mmapBlock[m].prev
           n == mmapBlock[m].next
<1>1. /\ m \in mapped /\ mapped \subseteq Mmaps /\ NoMmap \notin Mmaps
      /\ mmapBlock \in [Mmaps -> MmapHeader]
  BY ConstantsAssumption DEF IInv, TypeOK, LiveBacked
<1>0. PICK K \in Nat : \E r \in [mapped -> 0 .. K] :
        \A k \in mapped : mmapBlock[k].next # NoMmap => r[mmapBlock[k].next] < r[k]
  BY DEF LinkInv, Ranked
<1>2. PICK r \in [mapped -> 0 .. K] :
        \A k \in mapped : mmapBlock[k].next # NoMmap => r[mmapBlock[k].next] < r[k]
  BY <1>0
<1>3. /\ n # NoMmap => n \in mapped \ {m} /\ mmapBlock[n].prev = m /\ r[n] < r[m]
      /\ p # NoMmap => p \in mapped \ {m} /\ mmapBlock[p].next = m /\ r[m] < r[p]
  BY <1>1, <1>2 DEF LinkInv, MmapLinks
<1>4. p # NoMmap => p # n
  BY <1>1, <1>2, <1>3
<1>5. mapped' = mapped \ {m}
  BY DEF UnmapMmap
<1>6. \A k \in mapped' : /\ mmapBlock'[k].prev = IF k = n THEN p ELSE mmapBlock[k].prev
                         /\ mmapBlock'[k].next = IF k = p THEN n ELSE mmapBlock[k].next
  <2>1. ASSUME NEW k \in mapped'
        PROVE  mmapBlock'[k] =
                 IF k = n THEN [mmapBlock[k] EXCEPT !.prev = p]
                 ELSE IF k = p THEN [mmapBlock[k] EXCEPT !.next = n]
                 ELSE mmapBlock[k]
    BY <1>1, <1>5 DEF UnmapMmap, Unlink
  <2>2. ASSUME NEW k \in mapped' PROVE mmapBlock[k] \in MmapHeader /\ k # NoMmap
    BY <1>1, <1>5
  <2> HIDE DEF m, n, p
  <2> QED
    BY <1>4, <2>1, <2>2 DEF MmapHeader
<1>7. \A k \in mapped' : /\ k # p /\ mmapBlock[k].next # NoMmap =>
                              mmapBlock[k].next \in mapped' /\ mmapBlock[k].next # n
                         /\ k # n /\ mmapBlock[k].prev # NoMmap =>
                              mmapBlock[k].prev \in mapped' /\ mmapBlock[k].prev # p
  <2>1. ASSUME NEW k \in mapped', k # p, mmapBlock[k].next # NoMmap
        PROVE  mmapBlock[k].next \in mapped' /\ mmapBlock[k].next # n
    <3>1. k # m /\ k \in mapped
      BY <1>5
    <3>2. mmapBlock[k].next \in mapped /\ mmapBlock[mmapBlock[k].next].prev = k
      BY <2>1, <3>1 DEF LinkInv, MmapLinks
    <3> QED
      BY <1>3, <1>5, <2>1, <3>1, <3>2
  <2>2. ASSUME NEW k \in mapped', k # n, mmapBlock[k].prev # NoMmap
        PROVE  mmapBlock[k].prev \in mapped' /\ mmapBlock[k].prev # p
    <3>1. k # m /\ k \in mapped
      BY <1>5
    <3>2. mmapBlock[k].prev \in mapped /\ mmapBlock[mmapBlock[k].prev].next = k
      BY <2>2, <3>1 DEF LinkInv, MmapLinks
    <3> QED
      BY <1>3, <1>5, <2>2, <3>1, <3>2
  <2> QED
    BY <2>1, <2>2
<1>8. MmapLinks'
  <2>1. mmapBlockFirst' \in mapped' \cup {NoMmap, MapFailed}
    BY <1>5 DEF LinkInv, MmapLinks, UnmapMmap
  <2>2. ASSUME NEW k \in mapped', mmapBlock'[k].next # NoMmap
        PROVE  /\ mmapBlock'[k].next \in mapped' \ {k}
               /\ mmapBlock'[mmapBlock'[k].next].prev = k
    <3> k \in mapped
      BY <1>5
    <3>1. CASE k = p
      BY <1>3, <1>4, <1>5, <1>6, <2>2, <3>1
    <3>2. CASE k # p
      <4>1. /\ mmapBlock'[k].next = mmapBlock[k].next
            /\ mmapBlock[k].next \in mapped' /\ mmapBlock[k].next # n
        BY <1>6, <1>7, <2>2, <3>2
      <4> QED
        BY <1>6, <2>2, <4>1 DEF LinkInv, MmapLinks
    <3> QED
      BY <3>1, <3>2
  <2>3. ASSUME NEW k \in mapped', mmapBlock'[k].prev # NoMmap
        PROVE  /\ mmapBlock'[k].prev \in mapped' \ {k}
               /\ mmapBlock'[mmapBlock'[k].prev].next = k
    <3> k \in mapped
      BY <1>5
    <3>1. CASE k = n
      BY <1>3, <1>4, <1>5, <1>6, <2>3, <3>1
    <3>2. CASE k # n
      <4>1. /\ mmapBlock'[k].prev = mmapBlock[k].prev
            /\ mmapBlock[k].prev \in mapped' /\ mmapBlock[k].prev # p
        BY <1>6, <1>7, <2>3, <3>2
      <4> QED
        BY <1>6, <2>3, <4>1 DEF LinkInv, MmapLinks
    <3> QED
      BY <3>1, <3>2
  <2> QED
    BY <2>1, <2>2, <2>3 DEF MmapLinks
<1>9. Ranked'
  <2> DEFINE s == [k \in mapped' |-> r[k]]
  <2>1. s \in [mapped' -> 0 .. K]
    BY <1>5
  <2>2. ASSUME NEW k \in mapped', mmapBlock'[k].next # NoMmap
        PROVE  s[mmapBlock'[k].next] < s[k]
    <3>1. mmapBlock'[k].next \in mapped' /\ k \in mapped
      BY <1>5, <1>8, <2>2 DEF MmapLinks
    <3>2. CASE k = p
      <4>1. p # NoMmap /\ mmapBlock'[k].next = n /\ n # NoMmap
        BY <1>1, <1>6, <2>2, <3>1, <3>2
      <4>2. r[n] \in 0 .. K /\ r[m] \in 0 .. K /\ r[p] \in 0 .. K
        BY <1>1, <1>3, <4>1
      <4>3. r[n] < r[p]
        BY <1>3, <4>1, <4>2
      <4> QED
        BY <3>1, <3>2, <4>1, <4>3
    <3>3. CASE k # p
      <4>1. mmapBlock'[k].next = mmapBlock[k].next
        BY <1>6, <3>3
      <4> QED
        BY <1>2, <2>2, <3>1, <4>1
    <3> QED
      BY <3>2, <3>3
  <2> HIDE DEF s
  <2> QED
    BY <2>1, <2>2 DEF Ranked
<1>10. ASSUME NEW k, Alone(k) PROVE Alone(k)'
  <2>1. k \in mapped /\ k # m /\ k # n /\ k # p
    BY <1>1, <1>3, <1>10 DEF Alone
  <2>2. mmapBlockFirst' # k
    BY <1>1, <1>10, <2>1 DEF Alone, UnmapMmap
  <2> QED
    BY <1>5, <1>6, <1>10, <2>1, <2>2 DEF Alone
<1>11. PendingAlone'
  BY <1>10 DEF LinkInv, PendingAlone, StillPending
<1> QED
  BY <1>8, <1>9, <1>11 DEF LinkInv

(* A step that changes no MMAP and no link, for a thread whose call goes on. *)
LEMMA EnterLinks ==
  ASSUME IInv, LinkInv, NEW t \in Threads, NEW op, NEW size, NEW old,
         Enter(t, op, size, old)
  PROVE  LinkInv'
<1> call \in [Threads -> Call]
  BY DEF IInv, TypeOK
<1>1. CASE UNCHANGED shared /\ At(t, op, size, old, "load", NoMmap)
  <2>1. StillPending
    BY <1>1 DEF At, StillPending
  <2> QED
    BY <1>1, <2>1, SameLinks DEF shared, Enter
<1>2. CASE UNCHANGED shared /\ At(t, op, size, old, "publish", MapFailed)
  <2>1. MmapLinks' /\ Ranked'
    BY <1>2 DEF shared, LinkInv, MmapLinks, Ranked
  <2>2. \A m : Alone(m) => Alone(m)'
    BY <1>2 DEF shared, Enter, Alone
  <2>3. PendingAlone'
    BY <1>2, <2>2, ConstantsAssumption DEF At, LinkInv, PendingAlone, Alone, IInv, TypeOK
  <2> QED
    BY <2>1, <2>3 DEF LinkInv
<1>3. ASSUME NEW m \in Mmaps, NEW mmapSize \in MmapSizes,
             MapsNewMmap(m, mmapSize), mmapBlockFirst = NoMmap,
             mapped' = mapped \cup {m},
             mmapBlock' = LinkAfter(m, mmapSize, NoMmap),
             At(t, op, size, old, "publish", m),
             UNCHANGED mmapBlockFirst
      PROVE  LinkInv'
  <2>1. m \in Mmaps \ mapped
    BY <1>3 DEF MapsNewMmap
  <2>2. live' = live
    BY DEF Enter
  <2>3. /\ MmapLinks' /\ Ranked'
        /\ \A k \in mapped : Alone(k) => Alone(k)'
    BY <1>3, <2>1, <2>2, AppendLinks
  <2>4. Alone(m)'
    <3>1. \A a \in live : a.m # m
      BY <2>1 DEF IInv, LiveBacked
    <3>2. mmapBlock'[m].prev = NoMmap /\ mmapBlock'[m].next = NoMmap
      BY <1>3 DEF LinkAfter
    <3> QED
      BY <1>3, <2>2, <3>1, <3>2, ConstantsAssumption DEF Alone
  <2>5. PendingAlone'
    <3>1. ASSUME NEW u \in Threads \ {t}, call'[u].pc = "publish", call'[u].at # MapFailed
          PROVE  call'[u] = call[u] /\ Alone(call[u].at) /\ call[u].at # m
      <4>1. call'[u] = call[u]
        BY <1>3 DEF At
      <4>2. Alone(call[u].at)
        BY <3>1, <4>1 DEF LinkInv, PendingAlone
      <4> QED
        BY <2>1, <4>1, <4>2 DEF Alone
    <3>2. call'[t].at = m
      BY <1>3 DEF At
    <3>3. \A u, w \in Threads \ {t} :
            u # w /\ call[u].pc = "publish" /\ call[w].pc = "publish" /\ call[u].at # MapFailed
              => call[u].at # call[w].at
      BY DEF LinkInv, PendingAlone
    <3>4. m # MapFailed /\ \A k : Alone(k) => k \in mapped
      BY ConstantsAssumption DEF Alone
    <3> QED
      BY <2>3, <2>4, <3>1, <3>2, <3>3, <3>4 DEF PendingAlone
  <2> QED
    BY <2>3, <2>5 DEF LinkInv
<1> QED
  BY <1>1, <1>2, <1>3 DEF Enter

LEMMA PublishLinks ==
  ASSUME IInv, LinkInv, NEW t \in Threads, PublishFirst(t)
  PROVE  LinkInv'
<1> call \in [Threads -> Call]
  BY DEF IInv, TypeOK
<1>1. MmapLinks' /\ Ranked'
  BY DEF PublishFirst, LinkInv, MmapLinks, Ranked, PendingAlone, Alone
<1>2. StillPending /\ call'[t].pc # "publish" /\ call[t].pc = "publish"
  BY DEF PublishFirst, Continue, StillPending
<1>3. ASSUME NEW u \in Threads, call'[u].pc = "publish", call[u].at # MapFailed
      PROVE  Alone(call[u].at) /\ call[u].at # call[t].at
  <2>1. u # t /\ call[u].pc = "publish"
    BY <1>2, <1>3 DEF StillPending
  <2> QED
    BY <1>2, <1>3, <2>1 DEF LinkInv, PendingAlone
<1>4. ASSUME NEW m, Alone(m), m # call[t].at PROVE Alone(m)'
  BY <1>4 DEF PublishFirst, Alone
<1>5. PendingAlone'
  BY <1>2, <1>3, <1>4 DEF LinkInv, PendingAlone, StillPending
<1> QED
  BY <1>1, <1>5 DEF LinkInv

(* What vgc_malloc does to links, in an MMAP of the list or in a new one.  *)
LEMMA DeliverPending ==
  ASSUME IInv, NEW t \in Threads, NEW a, Deliver(t, a)
  PROVE  StillPending /\ live' = live \cup {a}
  BY DEF IInv, TypeOK, Deliver, StillPending, Idle

LEMMA TakeLinks ==
  ASSUME IInv, LinkInv, NEW t \in Threads, TakeFromList(t)
  PROVE  LinkInv'
<1>1. PICK m \in mapped : /\ \E h \in Fits(block[m], call[t].size) :
                               Take(t, m, block[m], h, mmapBlock, guard)
                          /\ m = ServingMmap(call[t].size)
  BY DEF TakeFromList
<1>2. PICK h : Take(t, m, block[m], h, mmapBlock, guard)
  BY <1>1
<1>3. m \in Reached
  BY <1>1, ServingReached, ConstantsAssumption DEF IInv, TypeOK
<1>4. \A k \in mapped : /\ mmapBlock'[k].next = mmapBlock[k].next
                        /\ mmapBlock'[k].prev = mmapBlock[k].prev
  <2>1. mmapBlock' = [mmapBlock EXCEPT ![m].elements = @ + 1]
    BY <1>2 DEF Take
  <2> QED
    BY <2>1 DEF IInv, TypeOK, MmapHeader
<1>5. StillPending /\ live' = live \cup {NewAllocation(t, m, h)}
  BY <1>2, DeliverPending DEF Take
<1>6. NewAllocation(t, m, h).m = m
  BY DEF NewAllocation
<1> QED
  BY <1>3, <1>4, <1>5, <1>6, SameLinks DEF TakeFromList

LEMMA NewMmapLinks ==
  ASSUME IInv, LinkInv, NEW t \in Threads, TakeFromNewMmap(t)
  PROVE  LinkInv'
<1>1. PICK m \in Mmaps, mmapSize \in MmapSizes :
        LET last    == LastMmap
            B       == FreshBlocks(mmapSize)
            headers == LinkAfter(m, mmapSize, last)
            g       == Protect(guard, <<m, FirstHeader>>)
        IN  /\ MapsNewMmap(m, mmapSize)
            /\ last \in mapped \cup {NoMmap}
            /\ mapped' = mapped \cup {m}
            /\ \/ /\ FirstHeader \in Fits(B, call[t].size)
                  /\ Take(t, m, B, FirstHeader, headers, g)
               \/ /\ FirstHeader \notin Fits(B, call[t].size)
                  /\ block' = [block EXCEPT ![m] = B]
                  /\ mmapBlock' = headers
                  /\ guard' = g
                  /\ Return(t)
                  /\ UNCHANGED live
  BY DEF TakeFromNewMmap
<1> DEFINE last    == LastMmap
           headers == LinkAfter(m, mmapSize, last)
<1>2. m \in Mmaps \ mapped /\ mapped' = mapped \cup {m} /\ mmapBlockFirst' = mmapBlockFirst
  BY <1>1 DEF MapsNewMmap, TakeFromNewMmap
<1>3. last \in Reached \cup {NoMmap} /\ (last # NoMmap => mmapBlock[last].next = NoMmap)
  <2>1. mmapBlockFirst \notin mapped => last = NoMmap
    BY DEF LastMmap
  <2> QED
    BY <2>1, LastReached
<1> HIDE DEF last
<1>4. headers \in [Mmaps -> MmapHeader]
  <2>1. last \in Mmaps \cup {NoMmap}
    BY <1>3 DEF Reached, IInv, TypeOK
  <2> QED
    BY <1>1, <1>2, <2>1, LinkAfterHeaders
<1> HIDE DEF headers
<1>5. /\ \A k \in Mmaps : /\ mmapBlock'[k].next = headers[k].next
                         /\ mmapBlock'[k].prev = headers[k].prev
      /\ StillPending
      /\ \A a \in live' : a.m = m \/ \E b \in live : a.m = b.m
  <2>1. CASE Take(t, m, FreshBlocks(mmapSize), FirstHeader, headers,
                  Protect(guard, <<m, FirstHeader>>))
    <3>1. mmapBlock' = [headers EXCEPT ![m].elements = @ + 1]
      BY <2>1 DEF Take
    <3>2. StillPending /\ live' = live \cup {NewAllocation(t, m, FirstHeader)}
      BY <2>1, DeliverPending DEF Take
    <3>3. NewAllocation(t, m, FirstHeader).m = m
      BY DEF NewAllocation
    <3> QED
      BY <1>4, <3>1, <3>2, <3>3 DEF MmapHeader
  <2>2. CASE mmapBlock' = headers /\ Return(t) /\ UNCHANGED live
    BY <2>2 DEF Return, Idle, StillPending, IInv, TypeOK
  <2> QED
    BY <1>1, <2>1, <2>2 DEF last, headers
<1>6. \A k \in mapped' : /\ mmapBlock'[k].next = LinkAfter(m, mmapSize, last)[k].next
                         /\ mmapBlock'[k].prev = LinkAfter(m, mmapSize, last)[k].prev
  BY <1>2, <1>5 DEF headers, IInv, TypeOK
<1>7. /\ MmapLinks' /\ Ranked'
      /\ \A k \in mapped : Alone(k) => Alone(k)'
  BY <1>2, <1>3, <1>5, <1>6, AppendLinks
<1>8. PendingAlone'
  BY <1>5, <1>7 DEF LinkInv, PendingAlone, StillPending, Alone
<1> QED
  BY <1>7, <1>8 DEF LinkInv

LEMMA ReleaseLinks ==
  ASSUME IInv, LinkInv, NEW a \in live, Release(a), StillPending
  PROVE  LinkInv'
<1>1. live' \subseteq live
  BY DEF Release
<1>2. CASE UNCHANGED shared
  BY <1>1, <1>2, SameLinks DEF shared
<1>3. CASE /\ mmapBlock' = [mmapBlock EXCEPT ![a.m].elements = @ - 1]
           /\ UNCHANGED <<mapped, mmapBlockFirst>>
  <2>1. \A k \in mapped : /\ mmapBlock'[k].next = mmapBlock[k].next
                          /\ mmapBlock'[k].prev = mmapBlock[k].prev
    BY <1>3 DEF IInv, TypeOK, MmapHeader
  <2> QED
    BY <1>1, <1>3, <2>1, SameLinks
<1>4. CASE UnmapMmap(a.m)
  BY <1>1, <1>4, UnmapLinks
<1> QED
  BY <1>2, <1>3, <1>4 DEF Release, FreeBlockAt, shared

LEMMA InitLinks == Init => LinkInv
<1> SUFFICES ASSUME Init PROVE LinkInv
  OBVIOUS
<1>1. MmapLinks /\ PendingAlone
  BY DEF Init, MmapLinks, PendingAlone, Idle
<1>2. Ranked
  <2>1. [m \in {} |-> 0] \in [mapped -> 0 .. 0]
    BY DEF Init
  <2> QED
    BY <2>1 DEF Ranked, Init
<1> QED
  BY <1>1, <1>2 DEF LinkInv

LEMMA NextLinks == IInv /\ LinkInv /\ [Next]_vars => LinkInv'
<1> SUFFICES ASSUME IInv, LinkInv, [Next]_vars PROVE LinkInv'
  OBVIOUS
<1> call \in [Threads -> Call]
  BY DEF IInv, TypeOK
<1>1. CASE UNCHANGED vars
  BY <1>1, SameLinks DEF vars, shared, StillPending
<1>2. ASSUME NEW t \in Threads, Step(t) PROVE LinkInv'
  <2>1. CASE \/ \E size \in Sizes : Malloc(t, size)
             \/ \E args \in CallocArgs : Calloc(t, args[1], args[2])
             \/ \E a \in live, size \in ReallocSizes : Realloc(t, a, size)
    BY <2>1, EnterLinks DEF Malloc, Calloc, Realloc
  <2>2. CASE TakeFromList(t) \/ TakeFromNewMmap(t) \/ PublishFirst(t)
    BY <2>2, TakeLinks, NewMmapLinks, PublishLinks
  <2>3. CASE (\E a \in live : Free(t, a)) \/ ReleaseOld(t)
    <3>1. ReleaseOld(t) => call[t].old \in live /\ Release(call[t].old)
      BY DEF ReleaseOld, IInv, CallsOwn
    <3>2. StillPending
      BY <2>3 DEF Free, ReleaseOld, Return, Idle, StillPending
    <3> QED
      BY <2>3, <3>1, <3>2, ReleaseLinks DEF Free
  <2>4. CASE \/ CheckFirst(t) \/ LoadFirst(t) \/ ReadMaxSize(t)
             \/ TakeNothing(t) \/ WalkCrashes(t) \/ ZeroMemory(t)
    <3>1. UNCHANGED <<shared, live>>
      BY <2>4 DEF CheckFirst, LoadFirst, ReadMaxSize, TakeNothing, WalkCrashes, ZeroMemory, Die
    <3>2. call' = call \/ Return(t) \/ \E c : call' = [call EXCEPT ![t] = c] /\ c.pc # "publish"
      <4>1. CASE CheckFirst(t) \/ TakeNothing(t) \/ ReadMaxSize(t)
        <5>1. call' = call \/ Return(t) \/ \E pc \in {"load", "search"} : Continue(t, pc)
          BY <4>1 DEF CheckFirst, ReadMaxSize, TakeNothing, Die
        <5>2. ASSUME NEW pc \in {"load", "search"}, Continue(t, pc)
              PROVE  \E c : call' = [call EXCEPT ![t] = c] /\ c.pc # "publish"
          <6>1. call' = [call EXCEPT ![t] = [call[t] EXCEPT !.pc = pc]]
            BY <5>2 DEF Continue
          <6>2. [call[t] EXCEPT !.pc = pc].pc # "publish"
            BY DEF Call
          <6> QED
            BY <6>1, <6>2
        <5> QED
          BY <5>1, <5>2
      <4>2. CASE LoadFirst(t)
        <5>1. [call[t] EXCEPT !.pc = "read", !.at = mmapBlockFirst].pc # "publish"
          BY DEF Call
        <5> QED
          BY <4>2, <5>1 DEF LoadFirst
      <4>3. CASE WalkCrashes(t) \/ ZeroMemory(t)
        BY <4>3 DEF WalkCrashes, ZeroMemory, Die
      <4> QED
        BY <2>4, <4>1, <4>2, <4>3
    <3>3. StillPending
      BY <3>2 DEF Return, Idle, StillPending
    <3> QED
      BY <3>1, <3>3, SameLinks DEF shared
  <2>5. CASE CopyContents(t)
    <3>1. StillPending /\ UNCHANGED shared
      BY <2>5 DEF CopyContents, StillPending
    <3>2. \A a \in live' : \E b \in live : a.m = b.m
      <4>1. call[t].got \in live /\ call[t].got \in Allocation
        BY <2>5 DEF CopyContents, IInv, CallsOwn, TypeOK
      <4>2. PICK i : live' = (live \ {call[t].got}) \cup {[call[t].got EXCEPT !.intact = i]}
        BY <2>5 DEF CopyContents
      <4>3. [call[t].got EXCEPT !.intact = i].m = call[t].got.m
        BY <4>1 DEF Allocation
      <4> QED
        BY <4>1, <4>2, <4>3
    <3> QED
      BY <3>1, <3>2, SameLinks DEF shared
  <2> QED
    BY <1>2, <2>1, <2>2, <2>3, <2>4, <2>5 DEF Step
<1> QED
  BY <1>1, <1>2 DEF Next, Halted

(* The links among the MMAPs agree both ways and lead to MMAPs that are    *)
(* mapped, through every race of threads that each map a first one, and in *)
(* whatever order the MMAPs are unmapped.                                  *)
THEOREM LinksAgree == Spec => []MmapLinks
<1>1. Init => IInv /\ LinkInv
  BY InitInv, InitLinks
<1>2. IInv /\ LinkInv /\ [Next]_vars => IInv' /\ LinkInv'
  BY NextInv, NextLinks
<1>3. LinkInv => MmapLinks
  BY DEF LinkInv
<1> QED
  BY <1>1, <1>2, <1>3, PTL DEF Spec

--------------------------------------------------------------------------------
(* What clients ask for and what they get.                                 *)

(* The sizes vgc_malloc is asked for. *)
Requested == Sizes \cup ReallocSizes
               \cup {(args[1] * args[2]) % SizeMod : args \in CallocArgs}

AskedFor ==
  /\ \A a \in live : a.size \in Requested \ {0}
  /\ \A t \in Threads :
       /\ call[t].pc # "idle" => call[t].size \in Requested
       /\ call[t].pc \in {"read", "search"} => call[t].size # 0

(* A step in which no client gets anything and thread t is at c then.      *)
LEMMA AskedStep ==
  ASSUME IInv, AskedFor, NEW t \in Threads, NEW c, call' = [call EXCEPT ![t] = c],
         live' \subseteq live,
         c.pc # "idle" => c.size \in Requested,
         c.pc \in {"read", "search"} => c.size # 0
  PROVE  AskedFor'
  BY DEF IInv, TypeOK, AskedFor

LEMMA EnterAsks ==
  ASSUME IInv, AskedFor, NEW t \in Threads, NEW op, NEW size \in Requested, NEW old,
         Enter(t, op, size, old)
  PROVE  AskedFor'
<1>1. ASSUME NEW pc \in {"load", "publish"}, NEW m, At(t, op, size, old, pc, m)
      PROVE  AskedFor'
  <2> DEFINE c == [pc |-> pc, op |-> op, size |-> size, old |-> old,
                   got |-> NoAllocation, at |-> m]
  <2>1. call' = [call EXCEPT ![t] = c]
    BY <1>1 DEF At
  <2>2. c.pc \notin {"read", "search"} /\ c.size \in Requested /\ live' = live
    BY DEF Enter
  <2> HIDE DEF c
  <2> QED
    BY <2>1, <2>2, AskedStep
<1> QED
  BY <1>1 DEF Enter

LEMMA DeliverAsked ==
  ASSUME IInv, AskedFor, NEW t \in Threads, call[t].pc = "search", NEW a,
         a.size = call[t].size, Deliver(t, a)
  PROVE  AskedFor'
<1>1. call[t].size \in Requested \ {0} /\ call \in [Threads -> Call]
  BY DEF AskedFor, IInv, TypeOK
<1>2. /\ \A u \in Threads \ {t} : call'[u] = call[u]
      /\ call'[t].pc \notin {"read", "search"}
      /\ call'[t].pc # "idle" => call'[t].size = call[t].size
  <2>1. CASE call[t].op = "malloc"
    BY <1>1, <2>1 DEF Deliver, Idle
  <2>2. CASE call[t].op # "malloc"
    BY <1>1, <2>2 DEF Deliver, Call
  <2> QED
    BY <2>1, <2>2
<1>3. live' = live \cup {a}
  BY DEF Deliver
<1> QED
  BY <1>1, <1>2, <1>3 DEF AskedFor

LEMMA ContinueAsks ==
  ASSUME IInv, AskedFor, NEW t \in Threads, live' = live, call[t].pc # "idle",
         NEW pc, Continue(t, pc), pc \in {"read", "search"} => call[t].size # 0
  PROVE  AskedFor'
<1> DEFINE c == [call[t] EXCEPT !.pc = pc]
<1>1. call' = [call EXCEPT ![t] = c]
  BY DEF Continue
<1>2. c.pc = pc /\ c.size = call[t].size
  BY DEF IInv, TypeOK, Call
<1>3. call[t].size \in Requested
  BY DEF AskedFor
<1> HIDE DEF c
<1> QED
  BY <1>1, <1>2, <1>3, AskedStep

LEMMA ReturnAsks ==
  ASSUME IInv, AskedFor, NEW t \in Threads, live' \subseteq live, Return(t)
  PROVE  AskedFor'
  BY AskedStep DEF Return, Idle

LEMMA InitAsked == Init => AskedFor
  BY DEF Init, AskedFor, Idle

LEMMA NextAsked == IInv /\ AskedFor /\ [Next]_vars => AskedFor'
<1> SUFFICES ASSUME IInv, AskedFor, [Next]_vars PROVE AskedFor'
  OBVIOUS
<1> call \in [Threads -> Call]
  BY DEF IInv, TypeOK
<1>1. CASE UNCHANGED vars
  BY <1>1 DEF vars, AskedFor
<1>2. ASSUME NEW t \in Threads, Step(t) PROVE AskedFor'
  <2>1. CASE \/ \E size \in Sizes : Malloc(t, size)
             \/ \E args \in CallocArgs : Calloc(t, args[1], args[2])
             \/ \E a \in live, size \in ReallocSizes : Realloc(t, a, size)
    BY <2>1, EnterAsks DEF Malloc, Calloc, Realloc, Requested
  <2>2. CASE TakeFromList(t) \/ TakeFromNewMmap(t)
    <3>1. call[t].pc = "search"
      BY <2>2 DEF TakeFromList, TakeFromNewMmap
    <3>2. \/ Return(t) /\ UNCHANGED live
          \/ \E m, h : Deliver(t, NewAllocation(t, m, h))
      BY <2>2 DEF TakeFromList, TakeFromNewMmap, Take
    <3>3. \A m, h : NewAllocation(t, m, h).size = call[t].size
      BY DEF NewAllocation
    <3> QED
      BY <3>1, <3>2, <3>3, DeliverAsked, ReturnAsks
  <2>3. CASE PublishFirst(t) \/ CheckFirst(t) \/ ReadMaxSize(t)
    <3>1. /\ live' = live /\ call[t].pc # "idle"
          /\ \/ Return(t)
             \/ Continue(t, "check")
             \/ Continue(t, "load")
             \/ Continue(t, "search") /\ call[t].size # 0
             \/ call' = call
      BY <2>3 DEF PublishFirst, CheckFirst, ReadMaxSize, Die, AskedFor
    <3> QED
      BY <3>1, ContinueAsks, ReturnAsks DEF AskedFor
  <2>4. CASE LoadFirst(t)
    <3>1. CASE Return(t)
      BY <2>4, <3>1, ReturnAsks DEF LoadFirst
    <3>2. CASE ~Return(t)
      <4> DEFINE c == [call[t] EXCEPT !.pc = "read", !.at = mmapBlockFirst]
      <4>1. call' = [call EXCEPT ![t] = c] /\ call[t].size # 0 /\ live' = live
            /\ call[t].size \in Requested
        BY <2>4, <3>2 DEF LoadFirst, AskedFor
      <4>2. c.pc = "read" /\ c.size = call[t].size
        BY DEF Call
      <4> HIDE DEF c
      <4> QED
        BY <4>1, <4>2, AskedStep
    <3> QED
      BY <3>1, <3>2
  <2>5. CASE \/ TakeNothing(t) \/ ZeroMemory(t) \/ ReleaseOld(t)
             \/ WalkCrashes(t) \/ \E a \in live : Free(t, a)
    <3>1. live' \subseteq live /\ (Return(t) \/ call' = call)
      BY <2>5 DEF TakeNothing, ZeroMemory, ReleaseOld, WalkCrashes, Free, Release, Die
    <3> QED
      BY <3>1, ReturnAsks DEF AskedFor
  <2>6. CASE CopyContents(t)
    <3>1. PICK i : /\ live' = (live \ {call[t].got}) \cup {[call[t].got EXCEPT !.intact = i]}
                   /\ call' = [call EXCEPT ![t].pc = "release",
                                           ![t].got = [call[t].got EXCEPT !.intact = i]]
      BY <2>6 DEF CopyContents
    <3> DEFINE kept == [call[t].got EXCEPT !.intact = i]
    <3>2. call[t].got \in live /\ call[t].got \in Allocation
      BY <2>6 DEF CopyContents, IInv, CallsOwn, TypeOK
    <3>3. kept.size = call[t].got.size
      BY <3>2 DEF Allocation
    <3> HIDE DEF kept
    <3>4. /\ call'[t].pc = "release" /\ call'[t].size = call[t].size
          /\ \A u \in Threads \ {t} : call'[u] = call[u]
      BY <3>1 DEF Call
    <3>5. call[t].size \in Requested
      BY <2>6 DEF CopyContents, AskedFor
    <3> QED
      BY <3>1, <3>2, <3>3, <3>4, <3>5 DEF AskedFor, kept
  <2> QED
    BY <1>2, <2>1, <2>2, <2>3, <2>4, <2>5, <2>6 DEF Step
<1> QED
  BY <1>1, <1>2 DEF Next, Halted

(* No request is a multiple of the page size. *)
NoPageMultiple == \A size \in Requested \ {0} : size % PageSize # 0

(* The client's bytes lie behind the guard page of their block and before  *)
(* the end of the block.                                                   *)
LEMMA BytesInBlock ==
  ASSUME IInv, ListInv, AskedFor, WholePages, NoPageMultiple, NEW a \in live
  PROVE  /\ a.block \in DOMAIN block[a.m] /\ a.block \in Nat
         /\ a.ptr \in Nat /\ a.size \in Nat /\ a.ptr + a.size <= EndOf(block[a.m], a.block)
         /\ a.block + MallocHeaderSize < a.ptr
         /\ a.ptr < a.block + MallocHeaderSize + PageSize
<1>1. /\ a.m \in mapped /\ a.block \in DOMAIN block[a.m] /\ a.block \in Nat
      /\ a.size \in Nat /\ a.ptr = PayloadPtr(a.block, a.size)
      /\ block[a.m][a.block].size >= a.size
      /\ a.size % PageSize # 0
  BY DEF IInv, TypeOK, LiveBacked, PtrsPlaced, Allocation, AskedFor, NoPageMultiple
<1>2. /\ block[a.m][a.block].size \in Nat /\ Multiple(block[a.m][a.block].size)
  BY <1>1, ListOfMmap DEF ListInv, Good, Paged, IsList, Header
<1>3. RoundUp(a.size) <= block[a.m][a.block].size /\ RoundUp(a.size) \in Nat
  BY <1>1, <1>2, RoundUpBelow, RoundUpBounds
<1>4. PICK size, page : size = a.size /\ page = PageSize
  OBVIOUS
<1>5. PICK q, r, P : q = size \div page /\ r = size % page /\ P = q * page
  OBVIOUS
<1>6. size \in Nat /\ page \in Nat /\ page > 0 /\ size % page # 0
  BY <1>1, <1>4, PageSizeAssumption
<1>7. q \in Nat /\ r \in Nat /\ 0 < r /\ r < page
  BY <1>6, <1>5
<1>8. size = q * page + r
  BY <1>6, <1>5
<1>9. P \in Nat /\ size = P + r /\ (q + 1) * page = P + page
  <2>1. P = q * page /\ page \in Nat
    BY <1>5, <1>6
  <2> QED
    BY <1>7, <1>8, <2>1
<1>10. RoundUp(a.size) = P + page
  BY <1>4, <1>5, <1>6, <1>9 DEF RoundUp
<1>11. a.ptr = a.block + MallocHeaderSize + (page - r)
  BY <1>1, <1>4, <1>5 DEF PayloadPtr
<1>12. EndOf(block[a.m], a.block) = a.block + MallocHeaderSize + block[a.m][a.block].size
  BY DEF EndOf
<1>13. MallocHeaderSize \in Nat /\ PageSize \in Nat
  BY PageSizeAssumption DEF MallocHeaderSize
<1> QED
  BY <1>1, <1>2, <1>3, <1>4, <1>6, <1>7, <1>9, <1>10, <1>11, <1>12, <1>13

LEMMA BytesAccessible ==
  ASSUME IInv, ListInv, AskedFor, WholePages, NoPageMultiple
  PROVE  LiveAccessible
<1> SUFFICES ASSUME NEW a \in live PROVE Touch(a, a.size) = "running"
  BY DEF LiveAccessible
<1>1. /\ a.block \in DOMAIN block[a.m] /\ a.block \in Nat
      /\ a.ptr \in Nat /\ a.size \in Nat /\ a.ptr + a.size <= EndOf(block[a.m], a.block)
      /\ a.block + MallocHeaderSize < a.ptr
  BY BytesInBlock
<1>2. ASSUME NEW page \in guard, page[1] = a.m
      PROVE  ~(page[2] < a.ptr + a.size /\ a.ptr < page[2] + PageSize)
  <2> DEFINE B == block[a.m]
             g == page[2]
  <2>1. /\ g \in DOMAIN B /\ a.m \in mapped
        /\ DOMAIN B \subseteq Nat /\ B[g] \in Header
        /\ g < a.block => EndOf(B, g) <= a.block
        /\ a.block < g => EndOf(B, a.block) <= g
    BY <1>1, <1>2, ListOfMmap DEF ListInv, GuardsOnHeaders, IsList, WellFormed, Apart
  <2>2. EndOf(B, g) = g + MallocHeaderSize + B[g].size /\ B[g].size \in Nat
    BY <2>1 DEF EndOf, Header
  <2>3. MallocHeaderSize = PageSize + PageSize /\ PageSize \in Nat /\ PageSize > 0
    BY PageSizeAssumption DEF MallocHeaderSize
  <2>4. g \in Nat /\ EndOf(B, a.block) \in Int
    <3>1. B[a.block] \in Header
      BY <1>1, <2>1, ListOfMmap DEF IsList
    <3> QED
      BY <1>1, <2>1, <2>3, <3>1 DEF EndOf, Header
  <2> HIDE DEF B, g
  <2>5. CASE g > a.block
    BY <1>1, <2>1, <2>4, <2>5 DEF B, g
  <2>6. CASE g <= a.block
    <3>1. g + PageSize <= a.block + PageSize /\ a.block + PageSize < a.ptr
      BY <1>1, <2>3, <2>4, <2>6
    <3> QED
      BY <1>1, <2>3, <2>4, <3>1 DEF g
  <2> QED
    BY <1>1, <2>4, <2>5, <2>6
<1> QED
  BY <1>1, <1>2 DEF Touch

(* The bytes that are handed out can be touched: for every page size and   *)
(* every number of threads.  A request of whole pages is the exception,    *)
(* and the only one.                                                       *)
THEOREM BytesUsable ==
  ASSUME WholePages, NoPageMultiple
  PROVE  Spec => []LiveAccessible
<1>1. Init => AskedFor
  BY InitAsked
<1>2. (IInv /\ ListInv) /\ AskedFor /\ [Next]_vars => AskedFor'
  BY NextAsked
<1>3. (IInv /\ ListInv) /\ AskedFor => LiveAccessible
  BY BytesAccessible
<1> QED
  BY <1>1, <1>2, <1>3, ListsHold, PTL DEF Spec

--------------------------------------------------------------------------------
(* One thread and one MMAP: nothing is lost.                               *)
OneThread == \A t, u \in Threads : t = u
OneMmap   == \A m, n \in Mmaps : m = n

(* The MMAP is the one mmapBlockFirst leads to, or the call that mapped it *)
(* is about to store it.                                                   *)
FirstKnown ==
  /\ mapped # {} => \/ mmapBlockFirst \in mapped
                    \/ \E t \in Threads : call[t].pc = "publish" /\ call[t].at \in mapped
  /\ \A t \in Threads :
       /\ call[t].pc = "publish" =>
            /\ mmapBlockFirst = NoMmap
            /\ call[t].at \in mapped \/ (call[t].at = MapFailed /\ mapped = {})
       /\ call[t].pc \in {"check", "load", "read", "search"} => mmapBlockFirst # NoMmap

LEMMA RemainderIs ==
  ASSUME NEW k \in Nat, NEW r \in Nat, r < PageSize
  PROVE  (k * PageSize + r) % PageSize = r
<1>1. PICK x : x = k * PageSize + r
  OBVIOUS
<1>2. PICK q, s : q = x \div PageSize /\ s = x % PageSize
  OBVIOUS
<1>3. k * PageSize \in Nat
  BY MultipleOf
<1>4. q \in Nat /\ s \in Nat /\ s < PageSize /\ x = q * PageSize + s
  BY <1>1, <1>2, <1>3, PageSizeAssumption
<1>5. ASSUME NEW i \in Nat, NEW j \in Nat, i < j
      PROVE  i * PageSize + PageSize <= j * PageSize
  <2>1. PICK d \in Nat : j = i + d + 1
    <3>1. j - i - 1 \in Nat /\ j = i + (j - i - 1) + 1
      BY <1>5
    <3> QED
      BY <3>1
  <2>2. j * PageSize = i * PageSize + d * PageSize + PageSize
    BY <2>1, PageSizeAssumption
  <2> QED
    BY <2>2, MultipleOf, PageSizeAssumption
<1>6. q = k
  <2>1. q * PageSize \in Nat
    BY <1>4, MultipleOf
  <2>2. ~(q < k)
    BY <1>1, <1>3, <1>4, <1>5, <2>1, PageSizeAssumption
  <2>3. ~(k < q)
    BY <1>1, <1>3, <1>4, <1>5, <2>1, PageSizeAssumption
  <2> QED
    BY <1>4, <2>2, <2>3
<1> QED
  BY <1>1, <1>2, <1>3, <1>4, <1>6

(* vgc_free finds the header of what a client owns.                        *)
LEMMA HeaderFound ==
  ASSUME IInv, ListInv, AskedFor, WholePages, NoPageMultiple, NEW a \in live
  PROVE  HeaderOf(a) = a.block
<1>1. /\ a.block \in DOMAIN block[a.m] /\ a.block \in Nat /\ a.ptr \in Nat
      /\ a.block + MallocHeaderSize < a.ptr
      /\ a.ptr < a.block + MallocHeaderSize + PageSize
  BY BytesInBlock
<1>2. Multiple(a.block) /\ Multiple(MallocHeaderSize) /\ MallocHeaderSize \in Nat
  BY <1>1, MultipleHeaders, PageSizeAssumption
  DEF IInv, LiveBacked, ListInv, Good, Paged, MallocHeaderSize
<1>3. PICK k \in Nat : a.block + MallocHeaderSize = k * PageSize
  BY <1>1, <1>2, MultipleSum DEF Multiple
<1>4. PICK r : r = a.ptr - (a.block + MallocHeaderSize)
  OBVIOUS
<1>5. r \in Nat /\ r < PageSize /\ a.ptr = (a.block + MallocHeaderSize) + r
  BY <1>1, <1>2, <1>4, PageSizeAssumption
<1>6. a.ptr % PageSize = r
  BY <1>3, <1>5, RemainderIs
<1> QED
  BY <1>1, <1>2, <1>5, <1>6 DEF HeaderOf

LEMMA FirstListed ==
  ASSUME IInv, LinkInv, OneMmap, mmapBlockFirst \in mapped
  PROVE  mmapBlockFirst \in Listed
<1> DEFINE from == CHOOSE f : f = [m \in mapped |->
                     IF mmapBlock[m].next \in mapped
                     THEN {m} \cup f[mmapBlock[m].next] ELSE {m}]
<1>1. \A m \in mapped : mmapBlock[m].next \notin mapped
  BY ConstantsAssumption DEF LinkInv, MmapLinks, OneMmap, IInv, TypeOK
<1>2. \E f : f = [m \in mapped |->
                    IF mmapBlock[m].next \in mapped
                    THEN {m} \cup f[mmapBlock[m].next] ELSE {m}]
  <2>1. PICK f : f = [m \in mapped |-> {m}]
    OBVIOUS
  <2>2. f = [m \in mapped |->
                    IF mmapBlock[m].next \in mapped
                    THEN {m} \cup f[mmapBlock[m].next] ELSE {m}]
    BY <1>1, <2>1
  <2> QED
    BY <2>2
<1>3. from = [m \in mapped |->
                    IF mmapBlock[m].next \in mapped
                    THEN {m} \cup from[mmapBlock[m].next] ELSE {m}]
  BY <1>2
<1>4. Listed = from[mmapBlockFirst]
  BY DEF Listed
<1> HIDE DEF from
<1> QED
  BY <1>1, <1>3, <1>4

(* vgc_free of what a client owns frees the block.                         *)
LEMMA ReleaseFrees ==
  ASSUME IInv, ListInv, LinkInv, AskedFor, WholePages, NoPageMultiple, OneMmap,
         mmapBlockFirst \in mapped, NEW a \in live, Release(a)
  PROVE  /\ FreeBlockAt(a.m, a.block)
         /\ a.m = mmapBlockFirst /\ a.block \in DOMAIN block[a.m]
<1>1. /\ a.m \in mapped /\ a.m = mmapBlockFirst /\ a.m \in Listed
      /\ mmapBlockFirst # MapFailed
  BY FirstListed, ConstantsAssumption DEF IInv, LiveBacked, TypeOK, OneMmap
<1>2. HeaderOf(a) = a.block /\ a.block \in DOMAIN block[a.m]
  BY HeaderFound, BytesInBlock
<1>3. CheckMmapBlock(block[a.m], mmapBlock[a.m].size, MmapBlockSize)
  BY <1>1, ListOfMmap, GoodSize, ListPasses, ConstantsAssumption DEF ListInv
<1>4. a.ptr < MmapBlockSize
  <2>1. EndOf(block[a.m], a.block) <= mmapBlock[a.m].size
    BY <1>1, <1>2, ListOfMmap DEF IsList, WellFormed, WellLinked
  <2>2. mmapBlock[a.m].size <= MmapBlockSize /\ mmapBlock[a.m].size \in Nat
    BY <1>1, GoodSize, ListOfMmap DEF ListInv
  <2>3. /\ a.ptr \in Nat /\ a.size \in Nat /\ a.size # 0
        /\ a.ptr + a.size <= EndOf(block[a.m], a.block)
    BY BytesInBlock DEF AskedFor
  <2>4. EndOf(block[a.m], a.block) \in Int
    BY <1>1, <1>2, ListOfMmap, PageSizeAssumption DEF IsList, EndOf, Header, MallocHeaderSize
  <2> QED
    BY <2>1, <2>2, <2>3, <2>4, ConstantsAssumption
<1>5. FALSE \notin MaybeInMmapBlock(a)
  BY <1>1, <1>4 DEF MaybeInMmapBlock
<1> QED
  BY <1>1, <1>2, <1>3, <1>5 DEF Release

(* The first MMAP is known, and every busy block has its owner.            *)
KeepInv == FirstKnown /\ NoLeak

Kept == IInv /\ ListInv /\ LinkInv /\ AskedFor /\ KeepInv

(* A step that maps and unmaps nothing, of a thread that has no first MMAP *)
(* to store.                                                               *)
LEMMA SameFirst ==
  ASSUME IInv, FirstKnown, NEW t \in Threads, UNCHANGED <<mapped, mmapBlockFirst>>,
         call[t].pc # "publish", call'[t].pc # "publish",
         \A u \in Threads \ {t} : call'[u] = call[u],
         call'[t].pc \in {"check", "load", "read", "search"} => mmapBlockFirst # NoMmap
  PROVE  FirstKnown'
<1>1. ASSUME NEW u \in Threads
      PROVE  /\ call'[u].pc = "publish" => call[u].pc = "publish" /\ call'[u].at = call[u].at
             /\ call[u].pc = "publish" => call'[u].pc = "publish" /\ call'[u].at = call[u].at
             /\ call'[u].pc \in {"check", "load", "read", "search"} => mmapBlockFirst # NoMmap
  BY DEF FirstKnown
<1> QED
  BY <1>1 DEF FirstKnown

(* A step that leaves the lists of blocks as they are, and every owner his. *)
LEMMA SameOwners ==
  ASSUME NoLeak, UNCHANGED <<mapped, block>>,
         \A a \in live : \E b \in live' : b.m = a.m /\ b.block = a.block
  PROVE  NoLeak'
<1> SUFFICES ASSUME NEW m \in mapped, NEW h \in DOMAIN block[m], block[m][h].status = BUSY
             PROVE  \E b \in live' : b.m = m /\ b.block = h
  BY DEF NoLeak
<1>1. PICK a \in live : a.m = m /\ a.block = h
  BY DEF NoLeak
<1> QED
  BY <1>1

LEMMA EnterKept ==
  ASSUME Kept, OneThread, NEW t \in Threads, NEW op, NEW size, NEW old,
         Enter(t, op, size, old)
  PROVE  KeepInv'
<1> call \in [Threads -> Call] /\ NoMmap \notin mapped
  BY ConstantsAssumption DEF Kept, IInv, TypeOK
<1>0. call[t].pc = "idle" /\ live' = live
  BY DEF Enter
<1>1. \A u \in Threads : u = t
  BY DEF OneThread
<1>2. CASE At(t, op, size, old, "load", NoMmap) /\ UNCHANGED shared /\ mmapBlockFirst # NoMmap
  <2>1. call'[t].pc = "load" /\ \A u \in Threads \ {t} : call'[u] = call[u]
    BY <1>2 DEF At
  <2>2. FirstKnown'
    BY <1>0, <1>2, <2>1, SameFirst DEF Kept, KeepInv, shared
  <2>3. NoLeak'
    BY <1>0, <1>2, SameOwners DEF Kept, KeepInv, shared
  <2> QED
    BY <2>2, <2>3 DEF KeepInv
<1>3. ASSUME mmapBlockFirst = NoMmap PROVE mapped = {}
  BY <1>0, <1>1, <1>3 DEF Kept, KeepInv, FirstKnown
<1>4. CASE At(t, op, size, old, "publish", MapFailed) /\ UNCHANGED shared /\ mmapBlockFirst = NoMmap
  <2>1. call'[t].pc = "publish" /\ call'[t].at = MapFailed
    BY <1>4 DEF At
  <2> QED
    BY <1>1, <1>3, <1>4, <2>1 DEF KeepInv, FirstKnown, NoLeak, shared
<1>5. ASSUME NEW m \in Mmaps, NEW mmapSize \in MmapSizes,
             mapped' = mapped \cup {m}, mmapBlockFirst = NoMmap,
             block' = [block EXCEPT ![m] = FreshBlocks(mmapSize)],
             At(t, op, size, old, "publish", m), UNCHANGED mmapBlockFirst
      PROVE  KeepInv'
  <2>1. call'[t].pc = "publish" /\ call'[t].at = m
    BY <1>5 DEF At
  <2>2. mapped' = {m} /\ block'[m] = FreshBlocks(mmapSize)
    BY <1>3, <1>5 DEF Kept, IInv, TypeOK
  <2>3. NoLeak'
    BY <2>2 DEF NoLeak, FreshBlocks, FREE, BUSY
  <2> QED
    BY <1>1, <1>5, <2>1, <2>2, <2>3 DEF KeepInv, FirstKnown
<1> QED
  BY <1>2, <1>4, <1>5 DEF Enter

LEMMA PublishKept ==
  ASSUME Kept, OneThread, NEW t \in Threads, PublishFirst(t)
  PROVE  KeepInv'
<1>1. \A u \in Threads : u = t
  BY DEF OneThread
<1>2. call'[t].pc = "check" /\ mmapBlockFirst' = call[t].at /\ mapped' = mapped
  BY DEF PublishFirst, Continue, Kept, IInv, TypeOK, Call
<1>3. call[t].at \in mapped \/ (call[t].at = MapFailed /\ mapped = {})
  BY DEF PublishFirst, Kept, KeepInv, FirstKnown
<1>4. call[t].at # NoMmap
  BY <1>3, ConstantsAssumption DEF Kept, IInv, TypeOK
<1>5. FirstKnown'
  BY <1>1, <1>2, <1>3, <1>4 DEF FirstKnown
<1>6. NoLeak'
  BY SameOwners DEF PublishFirst, Kept, KeepInv
<1> QED
  BY <1>5, <1>6 DEF KeepInv

(* The steps that change no MMAP, list or owner.                           *)
LEMMA QuietKept ==
  ASSUME Kept, NEW t \in Threads,
         CheckFirst(t) \/ LoadFirst(t) \/ ReadMaxSize(t) \/ TakeNothing(t)
           \/ WalkCrashes(t) \/ ZeroMemory(t)
  PROVE  KeepInv'
<1> call \in [Threads -> Call]
  BY DEF Kept, IInv, TypeOK
<1>1. UNCHANGED <<shared, live>> /\ call[t].pc # "publish"
  BY DEF CheckFirst, LoadFirst, ReadMaxSize, TakeNothing, WalkCrashes, ZeroMemory, Die
<1>2. /\ \A u \in Threads \ {t} : call'[u] = call[u]
      /\ \/ call' = call
         \/ call'[t].pc = "idle"
         \/ /\ call[t].pc \in {"check", "load", "read"}
            /\ call'[t].pc \in {"load", "read", "search"}
  BY DEF CheckFirst, LoadFirst, ReadMaxSize, TakeNothing, WalkCrashes, ZeroMemory, Die,
         Return, Continue, Idle, Call
<1>3. FirstKnown'
  BY <1>1, <1>2, SameFirst DEF Kept, KeepInv, FirstKnown, shared
<1>4. NoLeak'
  BY <1>1, SameOwners DEF Kept, KeepInv, shared
<1> QED
  BY <1>3, <1>4 DEF KeepInv

LEMMA CopyKept ==
  ASSUME Kept, NEW t \in Threads, CopyContents(t)
  PROVE  KeepInv'
<1>1. PICK i : /\ live' = (live \ {call[t].got}) \cup {[call[t].got EXCEPT !.intact = i]}
               /\ call' = [call EXCEPT ![t].pc = "release",
                                       ![t].got = [call[t].got EXCEPT !.intact = i]]
  BY DEF CopyContents
<1>2. /\ call[t].got \in Allocation /\ call \in [Threads -> Call]
      /\ call[t].pc = "copy" /\ UNCHANGED shared
  BY DEF CopyContents, Kept, IInv, TypeOK, CallsOwn
<1> DEFINE kept == [call[t].got EXCEPT !.intact = i]
<1>3. kept.m = call[t].got.m /\ kept.block = call[t].got.block
  BY <1>2 DEF Allocation
<1> HIDE DEF kept
<1>4. call'[t].pc = "release" /\ \A u \in Threads \ {t} : call'[u] = call[u]
  BY <1>1, <1>2 DEF Call
<1>5. FirstKnown'
  BY <1>2, <1>4, SameFirst DEF Kept, KeepInv, shared
<1>6. \A a \in live : \E b \in live' : b.m = a.m /\ b.block = a.block
  BY <1>1, <1>3 DEF kept
<1>7. NoLeak'
  BY <1>2, <1>6, SameOwners DEF Kept, KeepInv, shared
<1> QED
  BY <1>5, <1>7 DEF KeepInv

(* The MMAP is on the list when a call gets to it.                         *)
LEMMA FirstMapped ==
  ASSUME Kept, OneThread, NEW t \in Threads, call[t].pc # "publish", mapped # {}
  PROVE  mmapBlockFirst \in mapped
  BY DEF Kept, KeepInv, FirstKnown, OneThread

LEMMA TakeKept ==
  ASSUME Kept, OneThread, NEW t \in Threads, TakeFromList(t)
  PROVE  KeepInv'
<1> call \in [Threads -> Call]
  BY DEF Kept, IInv, TypeOK
<1>1. PICK m \in mapped : \E h \in Fits(block[m], call[t].size) :
        Take(t, m, block[m], h, mmapBlock, guard)
  BY DEF TakeFromList
<1>2. PICK h \in Fits(block[m], call[t].size) :
        Take(t, m, block[m], h, mmapBlock, guard)
  BY <1>1
<1> DEFINE B == block[m]
           C == AllocBlock(B, h, call[t].size)
           a == NewAllocation(t, m, h)
<1>3. /\ block' = [block EXCEPT ![m] = C] /\ live' = live \cup {a}
      /\ a.m = m /\ a.block = h /\ UNCHANGED <<mapped, mmapBlockFirst>>
  BY <1>2 DEF Take, Deliver, NewAllocation, TakeFromList
<1>4. /\ \A g \in DOMAIN B \ {h} : Unchanged(B, C, g)
      /\ \A g \in DOMAIN C \ DOMAIN B : C[g].status = FREE
      /\ m \in Mmaps
  <2>1. call[t].size \in Nat
    BY DEF Call
  <2> QED
    BY <2>1, ListOfMmap, AllocBlockIsList DEF Kept
<1>5. \A k \in mapped : block'[k] = IF k = m THEN C ELSE block[k]
  BY <1>3 DEF Kept, IInv, TypeOK
<1> HIDE DEF C, a
<1>6. ASSUME NEW k \in mapped, NEW g \in DOMAIN block'[k], block'[k][g].status = BUSY
      PROVE  \E b \in live' : b.m = k /\ b.block = g
  <2>1. CASE k = m /\ g = h
    BY <1>3, <2>1
  <2>2. CASE k = m /\ g # h
    <3>1. g \in DOMAIN B /\ B[g].status = BUSY
      BY <1>4, <1>5, <1>6, <2>2 DEF Unchanged, FREE, BUSY
    <3> QED
      BY <1>3, <2>2, <3>1 DEF Kept, KeepInv, NoLeak
  <2>3. CASE k # m
    BY <1>3, <1>5, <1>6, <2>3 DEF Kept, KeepInv, NoLeak
  <2> QED
    BY <2>1, <2>2, <2>3
<1>7. NoLeak'
  BY <1>3, <1>6 DEF NoLeak
<1>8. /\ call[t].pc = "search" /\ call'[t].pc \in {"idle", "zero", "copy"}
      /\ \A u \in Threads \ {t} : call'[u] = call[u]
  BY <1>2 DEF TakeFromList, Take, Deliver, Idle, Call
<1>9. FirstKnown'
  BY <1>3, <1>8, SameFirst DEF Kept, KeepInv
<1> QED
  BY <1>7, <1>9 DEF KeepInv

(* There is no place for a second MMAP.                                    *)
LEMMA NoNewMmap ==
  ASSUME Kept, OneMmap, NEW t \in Threads
  PROVE  ~TakeFromNewMmap(t)
<1> SUFFICES ASSUME TakeFromNewMmap(t) PROVE FALSE
  OBVIOUS
<1>1. mmapBlockFirst # NoMmap /\ mmapBlockFirst # MapFailed
  BY DEF TakeFromNewMmap, Kept, KeepInv, FirstKnown
<1>2. mmapBlockFirst \in mapped /\ mapped \subseteq Mmaps
  BY <1>1 DEF Kept, LinkInv, MmapLinks, IInv, TypeOK
<1>3. \E m \in Mmaps, mmapSize \in MmapSizes : MapsNewMmap(m, mmapSize)
  BY DEF TakeFromNewMmap
<1> QED
  BY <1>2, <1>3 DEF MapsNewMmap, OneMmap

LEMMA ReleaseKept ==
  ASSUME Kept, WholePages, NoPageMultiple, OneThread, OneMmap, NEW t \in Threads,
         NEW a \in live, Release(a), call[t].pc \in {"idle", "release"},
         call'[t].pc = "idle", call' \in [Threads -> Call]
  PROVE  KeepInv'
<1> DEFINE m == a.m
           h == a.block
           B == block[m]
           C == FreeBlock(B, h)
<1>1. \A u \in Threads : u = t
  BY DEF OneThread
<1>2. m \in mapped /\ m \in Mmaps /\ live' = live \ {a} /\ mapped = {m}
  BY DEF Kept, IInv, LiveBacked, TypeOK, Release, OneMmap
<1>3. mmapBlockFirst \in mapped
  BY <1>2, FirstMapped
<1>4. m = mmapBlockFirst /\ h \in DOMAIN B /\ FreeBlockAt(m, h)
  BY <1>3, ReleaseFrees DEF Kept
<1>5. CASE UnmapMmap(m)
  BY <1>1, <1>2, <1>5 DEF UnmapMmap, KeepInv, FirstKnown, NoLeak
<1>6. CASE block' = [block EXCEPT ![m] = C] /\ UNCHANGED <<mapped, mmapBlockFirst>>
  <2>1. block'[m] = C
    BY <1>2, <1>6 DEF Kept, IInv, TypeOK
  <2>2. \A g \in DOMAIN C : C[g].status = BUSY => g \in DOMAIN B /\ g # h /\ B[g].status = BUSY
    BY <1>2, <1>4, ListOfMmap, FreeBlockIsList DEF Kept
  <2> HIDE DEF C, h, m
  <2>3. ASSUME NEW g \in DOMAIN C, C[g].status = BUSY
        PROVE  \E b \in live' : b.m = m /\ b.block = g
    <3>1. PICK b \in live : b.m = m /\ b.block = g
      BY <1>2, <2>2, <2>3 DEF Kept, KeepInv, NoLeak
    <3>2. b # a
      BY <2>2, <2>3, <3>1 DEF h
    <3> QED
      BY <1>2, <3>1, <3>2
  <2>4. NoLeak'
    BY <1>2, <1>6, <2>1, <2>3 DEF NoLeak
  <2>5. FirstKnown'
    BY <1>1, <1>6, SameFirst DEF Kept, KeepInv
  <2> QED
    BY <2>4, <2>5 DEF KeepInv
<1> QED
  BY <1>4, <1>5, <1>6 DEF FreeBlockAt

LEMMA InitKept == Init => KeepInv
  BY DEF Init, KeepInv, FirstKnown, NoLeak, Idle

LEMMA NextKept ==
  ASSUME WholePages, NoPageMultiple, OneThread, OneMmap
  PROVE  Kept /\ [Next]_vars => KeepInv'
<1> SUFFICES ASSUME Kept, [Next]_vars PROVE KeepInv'
  OBVIOUS
<1>1. CASE UNCHANGED vars
  BY <1>1 DEF vars, shared, Kept, KeepInv, FirstKnown, NoLeak
<1>2. ASSUME NEW t \in Threads, Step(t) PROVE KeepInv'
  <2>1. CASE \/ \E size \in Sizes : Malloc(t, size)
             \/ \E args \in CallocArgs : Calloc(t, args[1], args[2])
             \/ \E a \in live, size \in ReallocSizes : Realloc(t, a, size)
    BY <2>1, EnterKept DEF Malloc, Calloc, Realloc
  <2>2. CASE \/ PublishFirst(t) \/ CheckFirst(t) \/ LoadFirst(t) \/ ReadMaxSize(t)
             \/ TakeFromList(t) \/ TakeFromNewMmap(t) \/ TakeNothing(t) \/ WalkCrashes(t)
             \/ ZeroMemory(t) \/ CopyContents(t)
    BY <2>2, PublishKept, QuietKept, CopyKept, TakeKept, NoNewMmap
  <2>3. CASE \E a \in live : Free(t, a)
    <3>1. PICK a \in live : Free(t, a)
      BY <2>3
    <3>2. Release(a) /\ call[t].pc = "idle" /\ call' = call /\ call \in [Threads -> Call]
      BY <3>1 DEF Free, Kept, IInv, TypeOK
    <3> QED
      BY <3>2, ReleaseKept
  <2>4. CASE ReleaseOld(t)
    <3>1. /\ call[t].old \in live /\ Release(call[t].old) /\ call[t].pc = "release"
          /\ call'[t].pc = "idle" /\ call' \in [Threads -> Call]
      BY <2>4 DEF ReleaseOld, Return, Idle, Call, Ops, Kept, IInv, TypeOK, CallsOwn
    <3> QED
      BY <3>1, ReleaseKept
  <2> QED
    BY <1>2, <2>1, <2>2, <2>3, <2>4 DEF Step
<1> QED
  BY <1>1, <1>2 DEF Next, Halted

LEMMA KeptHolds ==
  ASSUME WholePages, NoPageMultiple, OneThread, OneMmap
  PROVE  Spec => []Kept
<1>1. Init => Kept
  BY InitInv, InitList, InitLinks, InitAsked, InitKept DEF Kept
<1>2. Kept /\ [Next]_vars => Kept'
  BY NextInv, NextList, NextLinks, NextAsked, NextKept DEF Kept
<1> QED
  BY <1>1, <1>2, PTL DEF Spec

(* What is handed out can come back: in a process of one thread, of whose  *)
(* memory one MMAP is enough, a busy block always has an owner, and        *)
(* vgc_free always frees.  It takes no more to lose memory than a second   *)
(* thread, a second MMAP or a request of whole pages.                      *)
THEOREM NothingLeaks ==
  ASSUME WholePages, NoPageMultiple, OneThread, OneMmap
  PROVE  Spec => []NoLeak
<1>1. Kept => NoLeak
  BY DEF Kept, KeepInv
<1> QED
  BY <1>1, KeptHolds, PTL

--------------------------------------------------------------------------------
(* And when everything has been freed, the MMAP goes.                      *)

(* Every request is one that an empty MMAP can serve. *)
NothingRefused ==
  \A size \in Requested :
    size # 0 /\ \A mmapSize \in MmapSizes : size < MaxSize(mmapSize)

(* An MMAP of which nothing is in use is there for a call in progress.     *)
Wanted ==
  live = {} /\ mapped # {} =>
    \E t \in Threads : call[t].pc \in {"publish", "check", "load", "read", "search"}

(* A list of free blocks, none left to join, is one block.                 *)
LEMMA OneFreeBlock ==
  ASSUME NEW B, NEW mmapSize \in Nat, IsList(B, mmapSize), Coalesced(B),
         \A h \in DOMAIN B : B[h].status # BUSY
  PROVE  /\ FirstHeader \in DOMAIN B /\ B[FirstHeader].next = NULL
         /\ B[FirstHeader].status = FREE /\ B[FirstHeader].size = MaxSize(mmapSize)
<1>1. FirstHeader \in DOMAIN B /\ \A h \in DOMAIN B : B[h] \in Header /\ B[h].status = FREE
  BY DEF IsList, WellFormed, Header
<1>2. B[FirstHeader].next # NULL => B[FirstHeader].next \in DOMAIN B
  BY <1>1 DEF IsList, WellFormed, WellLinked
<1>3. B[FirstHeader].next = NULL
  BY <1>1, <1>2 DEF Coalesced, NextIsFree
<1>4. EndOf(B, FirstHeader) = mmapSize
  BY <1>1, <1>3 DEF IsList, WellFormed, WellLinked
<1>5. B[FirstHeader].size \in Nat
  BY <1>1 DEF Header
<1> QED
  BY <1>1, <1>3, <1>4, <1>5, PageSizeAssumption
  DEF EndOf, MaxSize, FirstHeader, MmapHeaderSize, MallocHeaderSize

LEMMA EmptyMmapServes ==
  ASSUME Kept, NEW m \in mapped, live = {}, NEW size \in Nat,
         size < MaxSize(mmapBlock[m].size)
  PROVE  Serves(m, size)
<1>1. /\ IsList(block[m], mmapBlock[m].size) /\ mmapBlock[m].size \in Nat
      /\ Coalesced(block[m])
      /\ \A h \in DOMAIN block[m] : block[m][h].status # BUSY
  BY ListOfMmap DEF Kept, ListInv, Good, KeepInv, NoLeak
<1>2. /\ FirstHeader \in DOMAIN block[m] /\ block[m][FirstHeader].status = FREE
      /\ block[m][FirstHeader].size = MaxSize(mmapBlock[m].size)
  BY <1>1, OneFreeBlock
<1>3. MaxSize(mmapBlock[m].size) \in Int
  BY <1>1, PageSizeAssumption DEF MaxSize, MmapHeaderSize, MallocHeaderSize
<1>4. FirstHeader \in Fits(block[m], size)
  BY <1>2, <1>3 DEF Fits
<1>5. CheckMmapBlock(block[m], mmapBlock[m].size, MmapBlockSize)
  BY <1>1, GoodSize, ListPasses, ConstantsAssumption DEF Kept, ListInv
<1> QED
  BY <1>4, <1>5 DEF Serves

(* The steps of vgc_malloc before it has an MMAP to search.                *)
LEMMA EarlyWanted ==
  ASSUME Kept, NothingRefused, OneThread, Wanted, NEW t \in Threads,
         PublishFirst(t) \/ CheckFirst(t) \/ LoadFirst(t) \/ ReadMaxSize(t)
  PROVE  Wanted'
<1> call \in [Threads -> Call]
  BY DEF Kept, IInv, TypeOK
<1>1. UNCHANGED <<mapped, live>>
  BY DEF PublishFirst, CheckFirst, LoadFirst, ReadMaxSize, Die, shared
<1>2. CASE PublishFirst(t)
  <2>1. call'[t].pc = "check"
    BY <1>2 DEF PublishFirst, Continue, Call
  <2> QED
    BY <2>1 DEF Wanted
<1>3. CASE CheckFirst(t)
  <2>1. CASE mmapBlockFirst = MapFailed
    <3>1. mapped = {}
      BY <1>3, <2>1, FirstMapped, ConstantsAssumption DEF CheckFirst, Kept, IInv, TypeOK
    <3> QED
      BY <1>1, <3>1 DEF Wanted
  <2>2. CASE mmapBlockFirst # MapFailed
    <3>1. call'[t].pc = "load"
      BY <1>3, <2>2 DEF CheckFirst, Continue, Call
    <3> QED
      BY <3>1 DEF Wanted
  <2> QED
    BY <2>1, <2>2
<1>4. CASE LoadFirst(t)
  <2>1. call[t].size # 0
    BY <1>4 DEF LoadFirst, Kept, AskedFor, NothingRefused
  <2>2. call'[t].pc = "read"
    BY <1>4, <2>1 DEF LoadFirst, Call
  <2> QED
    BY <2>2 DEF Wanted
<1>5. CASE ReadMaxSize(t)
  <2>1. CASE call[t].at \in mapped
    <3>1. /\ mmapBlock[call[t].at].size \in MmapSizes /\ mmapBlock[call[t].at].size \in Nat
          /\ call[t].size \in Requested /\ call[t].size \in Nat
      BY <1>5, <2>1, ListOfMmap DEF ReadMaxSize, Kept, ListInv, Good, AskedFor, Call
    <3>2. call[t].size < MaxSize(mmapBlock[call[t].at].size)
      BY <3>1 DEF NothingRefused
    <3>3. MaxSize(mmapBlock[call[t].at].size) \in Int
      BY <3>1, PageSizeAssumption DEF MaxSize, MmapHeaderSize, MallocHeaderSize
    <3>4. Continue(t, "search")
      BY <1>5, <2>1, <3>1, <3>2, <3>3 DEF ReadMaxSize
    <3>5. call'[t].pc = "search"
      BY <3>4 DEF Continue, Call
    <3> QED
      BY <3>5 DEF Wanted
  <2>2. CASE call[t].at \notin mapped
    BY <1>1, <1>5, <2>2 DEF ReadMaxSize, Die, Wanted
  <2> QED
    BY <2>1, <2>2
<1> QED
  BY <1>2, <1>3, <1>4, <1>5

(* A search finds room when nothing is in use, and then something is.      *)
LEMMA SearchWanted ==
  ASSUME Kept, NothingRefused, OneThread, OneMmap, Wanted, NEW t \in Threads,
         \/ TakeFromList(t) \/ TakeFromNewMmap(t) \/ TakeNothing(t) \/ WalkCrashes(t)
         \/ ZeroMemory(t) \/ CopyContents(t)
  PROVE  Wanted'
<1>1. CASE TakeFromList(t)
  <2>1. live' # {}
    BY <1>1 DEF TakeFromList, Take, Deliver
  <2> QED
    BY <2>1 DEF Wanted
<1>2. ~TakeFromNewMmap(t)
  BY NoNewMmap
<1>3. CASE TakeNothing(t)
  <2>1. UNCHANGED <<mapped, live>> /\ call[t].pc = "search" /\ ServingMmap(call[t].size) = NoMmap
    BY <1>3 DEF TakeNothing, shared
  <2>2. CASE live = {} /\ mapped # {}
    <3>1. mmapBlockFirst \in mapped
      BY <2>1, <2>2, FirstMapped
    <3>2. /\ mmapBlock[mmapBlockFirst].size \in MmapSizes
          /\ call[t].size \in Requested /\ call[t].size \in Nat
      BY <2>1, <3>1 DEF Kept, ListInv, Good, AskedFor, IInv, TypeOK, Call
    <3>3. Serves(mmapBlockFirst, call[t].size)
      BY <2>2, <3>1, <3>2, EmptyMmapServes DEF NothingRefused
    <3>4. ServingMmap(call[t].size) = mmapBlockFirst
      BY <3>1, <3>3, ServingReached DEF Kept
    <3> QED
      BY <2>1, <3>1, <3>4, ConstantsAssumption DEF Kept, IInv, TypeOK
  <2> QED
    BY <2>1, <2>2 DEF Wanted
<1>4. CASE WalkCrashes(t)
  BY <1>4 DEF WalkCrashes, Die, shared, Wanted
<1>5. CASE ZeroMemory(t)
  <2>1. call[t].got \in live /\ live' = live
    BY <1>5 DEF ZeroMemory, Kept, IInv, CallsOwn
  <2> QED
    BY <2>1 DEF Wanted
<1>6. CASE CopyContents(t)
  <2>1. live' # {}
    BY <1>6 DEF CopyContents
  <2> QED
    BY <2>1 DEF Wanted
<1> QED
  BY <1>1, <1>2, <1>3, <1>4, <1>5, <1>6

(* The last vgc_free unmaps the MMAP.                                      *)
LEMMA ReleaseWanted ==
  ASSUME Kept, Kept', WholePages, NoPageMultiple, OneThread, OneMmap, NEW t \in Threads,
         NEW a \in live, Release(a), call[t].pc \in {"idle", "release"}
  PROVE  Wanted'
<1> SUFFICES ASSUME live' = {}, mapped' # {} PROVE FALSE
  BY DEF Wanted
<1> DEFINE m == a.m
           C == FreeBlock(block[m], a.block)
<1>1. m \in mapped /\ m \in Mmaps /\ mapped = {m}
  BY DEF Kept, IInv, LiveBacked, TypeOK, OneMmap
<1>2. FreeBlockAt(m, a.block)
  BY <1>1, FirstMapped, ReleaseFrees DEF Kept
<1>3. /\ C[FirstHeader].next # NULL /\ block' = [block EXCEPT ![m] = C]
      /\ mapped' = mapped
  BY <1>1, <1>2 DEF FreeBlockAt, UnmapMmap
<1>4. block'[m] = C
  BY <1>1, <1>3 DEF Kept, IInv, TypeOK
<1> HIDE DEF C, m
<1>5. /\ IsList(block[m], mmapBlock[m].size)' /\ (mmapBlock[m].size)' \in Nat
      /\ Coalesced(block[m])'
      /\ \A h \in DOMAIN block'[m] : block'[m][h].status # BUSY
  BY <1>1, <1>3 DEF Kept, IInv, TypeOK, BlocksTile, IsList, MmapHeader, ListInv, Good,
                   KeepInv, NoLeak
<1>6. /\ IsList(C, mmapBlock'[m].size) /\ mmapBlock'[m].size \in Nat /\ Coalesced(C)
      /\ \A h \in DOMAIN C : C[h].status # BUSY
  BY <1>4, <1>5
<1> QED
  BY <1>3, <1>6, OneFreeBlock

LEMMA NextWanted ==
  ASSUME WholePages, NoPageMultiple, OneThread, OneMmap, NothingRefused
  PROVE  Kept /\ Kept' /\ Wanted /\ [Next]_vars => Wanted'
<1> SUFFICES ASSUME Kept, Kept', Wanted, [Next]_vars PROVE Wanted'
  OBVIOUS
<1>1. CASE UNCHANGED vars
  BY <1>1 DEF vars, shared, Wanted
<1>2. ASSUME NEW t \in Threads, Step(t) PROVE Wanted'
  <2>1. ASSUME NEW op, NEW size, NEW old, Enter(t, op, size, old) PROVE Wanted'
    <3>1. PICK pc \in {"load", "publish"} : \E m : At(t, op, size, old, pc, m)
      BY <2>1 DEF Enter
    <3>2. call'[t].pc = pc
      BY <3>1 DEF At, Kept, IInv, TypeOK
    <3> QED
      BY <3>2 DEF Wanted
  <2>2. CASE \/ \E size \in Sizes : Malloc(t, size)
             \/ \E args \in CallocArgs : Calloc(t, args[1], args[2])
             \/ \E a \in live, size \in ReallocSizes : Realloc(t, a, size)
    BY <2>1, <2>2 DEF Malloc, Calloc, Realloc
  <2>3. CASE \/ PublishFirst(t) \/ CheckFirst(t) \/ LoadFirst(t) \/ ReadMaxSize(t)
             \/ TakeFromList(t) \/ TakeFromNewMmap(t) \/ TakeNothing(t) \/ WalkCrashes(t)
             \/ ZeroMemory(t) \/ CopyContents(t)
    BY <2>3, EarlyWanted, SearchWanted
  <2>4. CASE ReleaseOld(t) \/ \E a \in live : Free(t, a)
    <3>1. ReleaseOld(t) => call[t].old \in live /\ Release(call[t].old)
      BY DEF ReleaseOld, Kept, IInv, CallsOwn
    <3>2. call[t].pc \in {"idle", "release"}
      BY <2>4 DEF ReleaseOld, Free
    <3> QED
      BY <2>4, <3>1, <3>2, ReleaseWanted DEF Free
  <2> QED
    BY <1>2, <2>2, <2>3, <2>4 DEF Step
<1> QED
  BY <1>1, <1>2 DEF Next, Halted

(* Clients that have freed everything have given all memory back to the    *)
(* system.  A request of 0 bytes, or of one too large, leaves an MMAP.     *)
THEOREM AllIsReturned ==
  ASSUME WholePages, NoPageMultiple, OneThread, OneMmap, NothingRefused
  PROVE  Spec => []MemoryReturned
<1>1. Init => Wanted
  BY DEF Init, Wanted
<1>2. Kept /\ Kept' /\ Wanted /\ [Next]_vars => Wanted'
  BY NextWanted
<1>3. Wanted => MemoryReturned
  BY DEF Wanted, MemoryReturned
<1> QED
  BY <1>1, <1>2, <1>3, KeptHolds, PTL DEF Spec
================================================================================
