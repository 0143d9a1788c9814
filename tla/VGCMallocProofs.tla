---------------------------- MODULE VGCMallocProofs ----------------------------
(***************************************************************************)
(* Safety of the allocator for every number of threads, every page and     *)
(* MMAP size and every sequence of calls: the lists of blocks stay well    *)
(* formed and every allocation keeps a block of its own.  And VGCMalloc    *)
(* implements Allocator.                                                   *)
(***************************************************************************)
EXTENDS VGCMalloc, BlockListProofs

(* The pointer of an allocation is where allocMallocBlock put it. *)
PtrsPlaced == \A a \in live : a.ptr = PayloadPtr(a.block, a.size)

(* What the calls in progress work on is live, and no two calls share it.  *)
CallsOwn ==
  /\ \A t \in Threads :
       /\ call[t].old \in live \cup {NoAllocation}
       /\ call[t].got \in live \cup {NoAllocation}
       /\ call[t].op = "realloc" => call[t].old \in live
       /\ call[t].pc \in {"copy", "release"} => call[t].op = "realloc"
       /\ call[t].pc \in {"zero", "copy", "release"} => call[t].got \in live
       /\ call[t].got \in live => call[t].got # call[t].old
  /\ \A t, u \in Threads : t # u =>
       {call[t].old, call[t].got} \cap {call[u].old, call[u].got} \subseteq {NoAllocation}

IInv == TypeOK /\ BlocksTile /\ LiveBacked /\ PtrsPlaced /\ CallsOwn

--------------------------------------------------------------------------------
LEMMA ListOfMmap ==
  ASSUME IInv, NEW m \in mapped
  PROVE  m \in Mmaps /\ mmapBlock[m].size \in Nat /\ IsList(block[m], mmapBlock[m].size)
  BY DEF IInv, TypeOK, BlocksTile, IsList, MmapHeader

(* The header vgc_free finds on the list is the allocation's own.          *)
LEMMA HeaderOfOwn ==
  ASSUME IInv, NEW a \in live, HeaderOf(a) \in DOMAIN block[a.m]
  PROVE  HeaderOf(a) = a.block
<1> DEFINE h == HeaderOf(a)
           B == block[a.m]
<1>1. /\ a.m \in mapped /\ a.block \in DOMAIN B /\ a.block \in Nat
      /\ a.size \in Nat /\ a.ptr = PayloadPtr(a.block, a.size)
  BY DEF IInv, TypeOK, LiveBacked, PtrsPlaced, Allocation
<1>2. /\ a.ptr \in Nat
      /\ a.block + MallocHeaderSize < a.ptr
      /\ a.ptr <= a.block + MallocHeaderSize + PageSize
  BY <1>1, PayloadPtrBounds
<1>3. a.ptr % PageSize \in Nat /\ a.ptr % PageSize < PageSize
  BY <1>2, PageSizeAssumption
<1>4. a.block - PageSize < h /\ h <= a.block + PageSize /\ h \in Int
  BY <1>1, <1>2, <1>3, PageSizeAssumption DEF HeaderOf, MallocHeaderSize
<1>5. /\ DOMAIN B \subseteq Nat /\ B[h] \in Header /\ B[a.block] \in Header
      /\ h < a.block => EndOf(B, h) <= a.block
      /\ a.block < h => EndOf(B, a.block) <= h
  BY <1>1, ListOfMmap DEF IsList, WellFormed, Apart
<1> QED
  BY <1>1, <1>4, <1>5, PageSizeAssumption DEF EndOf, Header, MallocHeaderSize

LEMMA InitInv == Init => IInv
  BY DEF Init, IInv, TypeOK, BlocksTile, LiveBacked, PtrsPlaced, CallsOwn, MmapHeader,
         Unmapped, Call, Ops, Idle, NoBlocks

(* What a thread's call may become, other than by getting an allocation. *)
CallStep(t, c) ==
  /\ c \in Call
  /\ call' = [call EXCEPT ![t] = c]
  /\ c.old \in {NoAllocation, call[t].old} \cup (live \ InUse)
  /\ c.got \in {NoAllocation, call[t].got}
  /\ c.got = NoAllocation \/ c.old = call[t].old
  /\ c.op = "realloc" => c.old \in live
  /\ c.pc \in {"copy", "release"} => c.op = "realloc"
  /\ c.pc \in {"zero", "copy", "release"} => c.got \in live

LEMMA CallStepOwns ==
  ASSUME IInv, NEW t \in Threads, NEW c, CallStep(t, c), live' = live
  PROVE  CallsOwn'
<1>1. /\ call'[t] = c
      /\ \A u \in Threads \ {t} : call'[u] = call[u]
  BY DEF IInv, TypeOK, CallStep
<1>2. NoAllocation \notin live
  BY NoAllocationAssumption DEF IInv, TypeOK
<1>3. \A u \in Threads \ {t} :
        {c.old, c.got} \cap {call[u].old, call[u].got} \subseteq {NoAllocation}
  BY DEF IInv, CallsOwn, InUse, CallStep
<1> QED
  BY <1>1, <1>2, <1>3 DEF IInv, CallsOwn, CallStep

(* A step that changes nothing but where a thread is, mmapBlockFirst and   *)
(* the fate of the process.                                                *)
LEMMA QuietStep ==
  ASSUME IInv, NEW t \in Threads, NEW c, CallStep(t, c),
         UNCHANGED <<mapped, mmapBlock, block, guard, live>>,
         mmapBlockFirst' \in Mmaps \cup {NoMmap, MapFailed},
         fate' \in {"running", "segv", "wild"}
  PROVE  IInv'
<1>1. TypeOK'
  BY DEF IInv, TypeOK, CallStep
<1>2. BlocksTile' /\ LiveBacked' /\ PtrsPlaced'
  BY DEF IInv, BlocksTile, LiveBacked, PtrsPlaced
<1>3. CallsOwn'
  BY CallStepOwns
<1> QED
  BY <1>1, <1>2, <1>3 DEF IInv

(* A step that maps an MMAP, with one free block, and hands out nothing.   *)
LEMMA MapStep ==
  ASSUME IInv, NEW t \in Threads, NEW c, CallStep(t, c),
         NEW m \in Mmaps \ mapped, NEW B, NEW headers,
         headers \in [Mmaps -> MmapHeader],
         \A k \in mapped : headers[k].size = mmapBlock[k].size,
         IsList(B, headers[m].size),
         mapped' = mapped \cup {m},
         block' = [block EXCEPT ![m] = B],
         mmapBlock' = headers,
         guard' \subseteq Mmaps \X Nat,
         UNCHANGED <<mmapBlockFirst, live, fate>>
  PROVE  IInv'
<1>1. \A k \in Mmaps : block'[k] = IF k = m THEN B ELSE block[k]
  BY DEF IInv, TypeOK
<1>2. TypeOK'
  <2>1. \A k \in Mmaps : /\ DOMAIN block'[k] \subseteq Nat
                         /\ \A e \in DOMAIN block'[k] : block'[k][e] \in Header
    BY <1>1 DEF IInv, TypeOK, IsList
  <2> QED
    BY <2>1 DEF IInv, TypeOK, CallStep
<1>3. BlocksTile'
  BY <1>1 DEF IInv, TypeOK, BlocksTile, IsList
<1>4. LiveBacked' /\ PtrsPlaced'
  BY <1>1 DEF IInv, TypeOK, LiveBacked, PtrsPlaced
<1>5. CallsOwn'
  BY CallStepOwns
<1> QED
  BY <1>2, <1>3, <1>4, <1>5 DEF IInv

LEMMA MmapSizeBounds ==
  ASSUME NEW mmapSize \in MmapSizes
  PROVE  mmapSize \in Nat /\ mmapSize > MmapHeaderSize + MallocHeaderSize
  BY ConstantsAssumption, PageSizeAssumption
  DEF MmapSizes, FallbackSize, MmapHeaderSize, MallocHeaderSize

LEMMA LinkAfterHeaders ==
  ASSUME IInv, NEW m \in Mmaps \ mapped, NEW mmapSize \in MmapSizes,
         NEW last \in Mmaps \cup {NoMmap}
  PROVE  LET headers == LinkAfter(m, mmapSize, last) IN
         /\ headers \in [Mmaps -> MmapHeader]
         /\ headers[m].size = mmapSize
         /\ \A k \in mapped : headers[k].size = mmapBlock[k].size
<1>1. mmapSize \in Nat
  BY MmapSizeBounds
<1> QED
  BY <1>1 DEF LinkAfter, IInv, TypeOK, MmapHeader

LEMMA ProtectPages ==
  ASSUME NEW g, g \subseteq Mmaps \X Nat, NEW m \in Mmaps
  PROVE  Protect(g, <<m, FirstHeader>>) \subseteq Mmaps \X Nat
  BY PageSizeAssumption DEF Protect, FirstHeader, MmapHeaderSize

(* allocMallocBlock, in an MMAP of the list or in a new one.               *)
LEMMA TakeStep ==
  ASSUME IInv, NEW t \in Threads, NEW m \in Mmaps, NEW B, NEW headers, NEW g,
         headers \in [Mmaps -> MmapHeader],
         \A k \in mapped \ {m} : headers[k].size = mmapBlock[k].size,
         IsList(B, headers[m].size),
         NEW h \in Fits(B, call[t].size),
         m \in mapped => B = block[m],
         g \subseteq Mmaps \X Nat,
         mapped' = mapped \cup {m},
         Take(t, m, B, h, headers, g),
         UNCHANGED <<mmapBlockFirst, fate>>
  PROVE  IInv'
<1> DEFINE size == call[t].size
           C == AllocBlock(B, h, size)
           a == NewAllocation(t, m, h)
<1>1. /\ size \in Nat /\ call[t] \in Call
      /\ headers[m].size \in Nat /\ headers[m] \in MmapHeader
  BY DEF IInv, TypeOK, Call, MmapHeader
<1>2. /\ h \in DOMAIN B /\ h \in Nat /\ B[h].status = FREE
  BY DEF Fits, IsList
<1>3. /\ IsList(C, headers[m].size)
      /\ h \in DOMAIN C /\ C[h].status = BUSY /\ C[h].size >= size
      /\ \A k \in DOMAIN B \ {h} : Unchanged(B, C, k)
  BY <1>1, AllocBlockIsList
<1>4. /\ a.m = m /\ a.block = h /\ a.size = size /\ a.ptr = PayloadPtr(h, size)
      /\ a \in Allocation
  BY <1>1, <1>2, PayloadPtrBounds DEF NewAllocation, Allocation
<1>5. /\ block' = [block EXCEPT ![m] = C]
      /\ mmapBlock' = [headers EXCEPT ![m].elements = @ + 1]
      /\ live' = live \cup {a}
      /\ guard' \subseteq Mmaps \X Nat
  <2>1. Splits(B, h, size) => Remainder(h, size) \in Nat
    BY <1>1, <1>2, RoundUpBounds, PageSizeAssumption DEF Remainder, MallocHeaderSize
  <2>2. guard' \subseteq g \cup ({m} \X Nat)
    BY <2>1 DEF Take, Protect
  <2> QED
    BY <2>2 DEF Take, Deliver
<1>6. /\ call' = [call EXCEPT ![t] = call'[t]]
      /\ \/ call'[t] = Idle
         \/ /\ call'[t] \in Call
            /\ call'[t].op = call[t].op /\ call'[t].op \in {"calloc", "realloc"}
            /\ call'[t].pc = IF call[t].op = "calloc" THEN "zero" ELSE "copy"
            /\ call'[t].got = a /\ call'[t].old = call[t].old
  <2>1. call \in [Threads -> Call]
    BY DEF IInv, TypeOK
  <2>2. CASE call[t].op = "malloc"
    BY <2>1, <2>2 DEF Take, Deliver
  <2>3. CASE call[t].op # "malloc"
    <3>1. call' = [call EXCEPT ![t] =
                     [call[t] EXCEPT !.pc = IF call[t].op = "calloc" THEN "zero" ELSE "copy",
                                     !.got = a, !.at = NoMmap]]
      BY <2>3 DEF Take, Deliver
    <3> QED
      BY <1>1, <1>4, <2>1, <2>3, <3>1 DEF Call, Ops
  <2> QED
    BY <2>2, <2>3
<1> HIDE DEF a, C, size
<1>7. \A b \in live : b.m # m \/ b.block # h
  BY <1>2 DEF IInv, LiveBacked, FREE, BUSY
<1>8. /\ mmapBlock' \in [Mmaps -> MmapHeader]
      /\ \A k \in mapped' : mmapBlock'[k].size = headers[k].size
  BY <1>5 DEF IInv, TypeOK, MmapHeader
<1>9. \A k \in Mmaps : block'[k] = IF k = m THEN C ELSE block[k]
  BY <1>5 DEF IInv, TypeOK
<1>10. TypeOK'
  <2>1. Idle \in Call
    BY DEF Idle, Call, Ops
  <2>2. call' \in [Threads -> Call]
    BY <1>6, <2>1 DEF IInv, TypeOK
  <2>3. \A k \in Mmaps : /\ DOMAIN block'[k] \subseteq Nat
                         /\ \A e \in DOMAIN block'[k] : block'[k][e] \in Header
    BY <1>3, <1>9 DEF IInv, TypeOK, IsList
  <2>4. DOMAIN block' = Mmaps
    BY <1>5 DEF IInv, TypeOK
  <2> QED
    BY <1>4, <1>5, <1>8, <2>2, <2>3, <2>4 DEF IInv, TypeOK
<1>11. BlocksTile'
  BY <1>3, <1>8, <1>9 DEF IInv, TypeOK, BlocksTile, IsList
<1>12. LiveBacked'
  <2>1. ASSUME NEW b \in live
        PROVE  /\ b.m \in mapped' /\ b.block \in DOMAIN block'[b.m]
               /\ block'[b.m][b.block].status = BUSY
               /\ block'[b.m][b.block].size >= b.size
    <3>1. /\ b.m \in mapped /\ b.m \in Mmaps /\ b.block \in DOMAIN block[b.m]
          /\ block[b.m][b.block].status = BUSY
          /\ block[b.m][b.block].size >= b.size
      BY DEF IInv, LiveBacked, TypeOK
    <3>2. CASE b.m = m
      BY <1>3, <1>7, <1>9, <3>1, <3>2 DEF Unchanged
    <3>3. CASE b.m # m
      BY <1>9, <3>1, <3>3
    <3> QED
      BY <3>2, <3>3
  <2>2. /\ a.m \in mapped' /\ a.block \in DOMAIN block'[a.m]
        /\ block'[a.m][a.block].status = BUSY
        /\ block'[a.m][a.block].size >= a.size
    BY <1>3, <1>4, <1>9
  <2>3. \A b, c \in live' : b # c => <<b.m, b.block>> # <<c.m, c.block>>
    BY <1>4, <1>5, <1>7 DEF IInv, LiveBacked
  <2> QED
    BY <1>5, <2>1, <2>2, <2>3 DEF LiveBacked
<1>13. PtrsPlaced'
  BY <1>4, <1>5 DEF IInv, PtrsPlaced
<1>14. CallsOwn'
  <2>1. a \notin live /\ a # NoAllocation /\ NoAllocation \notin live'
    BY <1>4, <1>5, <1>7, NoAllocationAssumption DEF IInv, TypeOK
  <2>2. \A u \in Threads \ {t} : call'[u] = call[u]
    BY <1>6 DEF IInv, TypeOK
  <2>3. CASE call'[t] = Idle
    BY <1>5, <2>1, <2>2, <2>3 DEF IInv, CallsOwn, Idle
  <2>4. CASE call'[t] # Idle
    <3>1. call'[t].got = a /\ call'[t].old = call[t].old /\ call'[t].op = call[t].op
          /\ (call'[t].pc = "copy" => call'[t].op = "realloc") /\ call'[t].pc # "release"
      BY <1>6, <2>4
    <3> QED
      BY <1>5, <2>1, <2>2, <3>1 DEF IInv, CallsOwn
  <2> QED
    BY <2>3, <2>4
<1> QED
  BY <1>10, <1>11, <1>12, <1>13, <1>14 DEF IInv

--------------------------------------------------------------------------------
(* The first lines of vgc_malloc, for any of its callers.                  *)
LEMMA EnterStep ==
  ASSUME IInv, NEW t \in Threads, NEW op \in Ops, NEW size \in Nat,
         NEW old \in {NoAllocation} \cup (live \ InUse),
         op = "realloc" => old \in live,
         Enter(t, op, size, old)
  PROVE  IInv'
<1>1. ASSUME NEW pc \in {"load", "publish"}, NEW at \in Mmaps \cup {NoMmap, MapFailed},
             At(t, op, size, old, pc, at)
      PROVE  \E c : CallStep(t, c)
  <2> DEFINE c == [pc |-> pc, op |-> op, size |-> size, old |-> old,
                   got |-> NoAllocation, at |-> at]
  <2>1. c \in Call
    BY DEF Call, IInv, TypeOK
  <2>2. call' = [call EXCEPT ![t] = c]
    BY <1>1 DEF At
  <2>3. CallStep(t, c)
    BY <2>1, <2>2 DEF CallStep
  <2> HIDE DEF c
  <2> QED
    BY <2>3
<1>2. CASE /\ At(t, op, size, old, "load", NoMmap)
           /\ UNCHANGED <<shared, live, fate>>
  <2>1. PICK c : CallStep(t, c)
    BY <1>1, <1>2
  <2> QED
    BY <1>2, <2>1, QuietStep DEF shared, IInv, TypeOK
<1>3. CASE /\ At(t, op, size, old, "publish", MapFailed)
           /\ UNCHANGED <<shared, live, fate>>
  <2>1. PICK c : CallStep(t, c)
    BY <1>1, <1>3
  <2> QED
    BY <1>3, <2>1, QuietStep DEF shared, IInv, TypeOK
<1>4. ASSUME NEW m \in Mmaps, NEW mmapSize \in MmapSizes,
             MapsNewMmap(m, mmapSize),
             mapped' = mapped \cup {m},
             mmapBlock' = LinkAfter(m, mmapSize, NoMmap),
             block' = [block EXCEPT ![m] = FreshBlocks(mmapSize)],
             guard' = Protect(guard, <<m, FirstHeader>>),
             At(t, op, size, old, "publish", m),
             UNCHANGED <<mmapBlockFirst, live, fate>>
      PROVE  IInv'
  <2> DEFINE headers == LinkAfter(m, mmapSize, NoMmap)
             B == FreshBlocks(mmapSize)
  <2>1. PICK c : CallStep(t, c)
    BY <1>1, <1>4
  <2>2. m \in Mmaps \ mapped
    BY <1>4 DEF MapsNewMmap
  <2>3. /\ headers \in [Mmaps -> MmapHeader]
        /\ headers[m].size = mmapSize
        /\ \A k \in mapped : headers[k].size = mmapBlock[k].size
    BY <2>2, LinkAfterHeaders
  <2>4. IsList(B, headers[m].size)
    BY <2>3, FreshIsList, MmapSizeBounds
  <2>5. guard' \subseteq Mmaps \X Nat
    BY <1>4, ProtectPages DEF IInv, TypeOK
  <2> HIDE DEF headers, B
  <2> QED
    BY <1>4, <2>1, <2>2, <2>3, <2>4, <2>5, MapStep DEF headers, B
<1> QED
  BY <1>2, <1>3, <1>4 DEF Enter

--------------------------------------------------------------------------------
LEMMA TouchFate ==
  ASSUME NEW a, NEW n
  PROVE  Touch(a, n) \in {"running", "segv", "wild"}
  BY DEF Touch

(* memcpy, of however many bytes.                                          *)
LEMMA CopyStep ==
  ASSUME IInv, NEW t \in Threads, CopyContents(t)
  PROVE  IInv'
<1> DEFINE new == call[t].got
<1>1. /\ new \in live /\ call[t].old \in live /\ new # call[t].old
      /\ call[t].op = "realloc" /\ call[t] \in Call /\ new \in Allocation
  BY DEF CopyContents, IInv, CallsOwn, TypeOK
<1>2. PICK intact \in BOOLEAN :
        /\ live' = (live \ {new}) \cup {[new EXCEPT !.intact = intact]}
        /\ call' = [call EXCEPT ![t].pc = "release", ![t].got = [new EXCEPT !.intact = intact]]
        /\ fate' \in {"running", "segv", "wild"}
  BY TouchFate DEF CopyContents
<1> DEFINE kept == [new EXCEPT !.intact = intact]
<1>3. /\ kept \in Allocation
      /\ kept.m = new.m /\ kept.block = new.block
      /\ kept.ptr = new.ptr /\ kept.size = new.size
  BY <1>1 DEF Allocation
<1>4. /\ call'[t] \in Call
      /\ call'[t].pc = "release" /\ call'[t].got = kept
      /\ call'[t].op = "realloc" /\ call'[t].old = call[t].old
      /\ \A u \in Threads \ {t} : call'[u] = call[u]
      /\ call' \in [Threads -> Call]
  BY <1>1, <1>2, <1>3 DEF IInv, TypeOK, Call, Ops
<1>5. UNCHANGED shared
  BY DEF CopyContents
<1>6. live' = (live \ {new}) \cup {kept}
  BY <1>2
<1> HIDE DEF kept, new
<1>7. TypeOK'
  BY <1>2, <1>3, <1>4, <1>5, <1>6 DEF IInv, TypeOK, shared
<1>8. BlocksTile' /\ PtrsPlaced'
  BY <1>1, <1>3, <1>5, <1>6 DEF IInv, BlocksTile, PtrsPlaced, shared
<1>9. LiveBacked'
  <2>1. \A b \in live' \ {kept} :
          b \in live /\ <<b.m, b.block>> # <<kept.m, kept.block>>
    BY <1>1, <1>3, <1>6 DEF IInv, LiveBacked
  <2>2. \A b \in live' : /\ b.m \in mapped
                         /\ b.block \in DOMAIN block[b.m]
                         /\ block[b.m][b.block].status = BUSY
                         /\ block[b.m][b.block].size >= b.size
    BY <1>1, <1>3, <1>6 DEF IInv, LiveBacked
  <2>3. \A b, c \in live' : b # c => <<b.m, b.block>> # <<c.m, c.block>>
    BY <2>1 DEF IInv, LiveBacked
  <2> QED
    BY <1>5, <2>2, <2>3 DEF LiveBacked, shared
<1>10. CallsOwn'
  <2>1. \A b \in live \ {new} : <<b.m, b.block>> # <<kept.m, kept.block>>
    BY <1>1, <1>3 DEF IInv, LiveBacked
  <2>2. \A b \in live \ {new} : b # kept
    BY <2>1
  <2>3. kept # NoAllocation /\ NoAllocation \notin live
    BY <1>3, NoAllocationAssumption DEF IInv, TypeOK
  <2>4. ASSUME NEW u \in Threads \ {t}
        PROVE  {call[u].old, call[u].got} \cap {kept, new} = {}
    BY <1>1, <2>2, <2>3 DEF IInv, CallsOwn, new
  <2>5. call[t].old # kept /\ call[t].old \in live' /\ kept \in live'
    BY <1>1, <1>6, <2>2
  <2>6. ASSUME NEW u \in Threads \ {t}
        PROVE  /\ call[u].old \in live' \cup {NoAllocation}
               /\ call[u].got \in live' \cup {NoAllocation}
               /\ call[u].op = "realloc" => call[u].old \in live'
               /\ call[u].pc \in {"copy", "release"} => call[u].op = "realloc"
               /\ call[u].pc \in {"zero", "copy", "release"} => call[u].got \in live'
               /\ call[u].got \in live' => call[u].got # call[u].old
    BY <1>6, <2>3, <2>4 DEF IInv, CallsOwn
  <2>7. ASSUME NEW u \in Threads \ {t}
        PROVE  {call[t].old, kept} \cap {call[u].old, call[u].got} \subseteq {NoAllocation}
    BY <2>4 DEF IInv, CallsOwn
  <2>8. \A u \in Threads :
          /\ call'[u].old \in live' \cup {NoAllocation}
          /\ call'[u].got \in live' \cup {NoAllocation}
          /\ call'[u].op = "realloc" => call'[u].old \in live'
          /\ call'[u].pc \in {"copy", "release"} => call'[u].op = "realloc"
          /\ call'[u].pc \in {"zero", "copy", "release"} => call'[u].got \in live'
          /\ call'[u].got \in live' => call'[u].got # call'[u].old
    BY <1>4, <2>5, <2>6
  <2>9. ASSUME NEW u \in Threads, NEW v \in Threads, u # v
        PROVE  {call'[u].old, call'[u].got} \cap {call'[v].old, call'[v].got}
                 \subseteq {NoAllocation}
    <3>1. CASE u # t /\ v # t
      BY <1>4, <2>9, <3>1 DEF IInv, CallsOwn
    <3>2. CASE u = t \/ v = t
      BY <1>4, <2>7, <2>9, <3>2
    <3> QED
      BY <3>1, <3>2
  <2> QED
    BY <2>8, <2>9 DEF CallsOwn
<1> QED
  BY <1>7, <1>8, <1>9, <1>10 DEF IInv

--------------------------------------------------------------------------------
(* vgc_free of a live allocation, whatever becomes of the calls.           *)
LEMMA ReleaseStep ==
  ASSUME IInv, NEW a \in live, Release(a), call' \in [Threads -> Call]
  PROVE  TypeOK' /\ BlocksTile' /\ LiveBacked' /\ PtrsPlaced'
<1> DEFINE m == a.m
           h == HeaderOf(a)
           C == FreeBlock(block[m], h)
<1>1. live' = live \ {a} /\ m \in mapped /\ m \in Mmaps /\ mmapBlock[m] \in MmapHeader
  BY DEF Release, IInv, LiveBacked, TypeOK
<1>2. PtrsPlaced'
  BY <1>1 DEF IInv, PtrsPlaced
<1>3. CASE UNCHANGED shared /\ fate' \in {"running", "segv", "wild"}
  BY <1>1, <1>2, <1>3 DEF IInv, TypeOK, BlocksTile, LiveBacked, shared
<1>4. CASE /\ mmapBlock' = [mmapBlock EXCEPT ![m].elements = @ - 1]
           /\ UNCHANGED <<mapped, block, guard, mmapBlockFirst, fate>>
  <2>1. /\ mmapBlock' \in [Mmaps -> MmapHeader]
        /\ \A k \in mapped : mmapBlock'[k].size = mmapBlock[k].size
    BY <1>1, <1>4 DEF IInv, TypeOK, MmapHeader
  <2> QED
    BY <1>1, <1>2, <1>4, <2>1 DEF IInv, TypeOK, BlocksTile, LiveBacked
<1>5. CASE h \in DOMAIN block[m] /\ FreeBlockAt(m, h) /\ UNCHANGED fate
  <2>1. h = a.block
    BY <1>5, HeaderOfOwn
  <2>2. IsList(block[m], mmapBlock[m].size) /\ mmapBlock[m].size \in Nat
    BY <1>1, ListOfMmap
  <2>3. /\ IsList(C, mmapBlock[m].size)
        /\ \A g \in DOMAIN block[m] \ {h} :
             block[m][g].status = BUSY => Unchanged(block[m], C, g)
    BY <1>5, <2>2, FreeBlockIsList
  <2>4. \A b \in live' : b \in live /\ (b.m # m \/ b.block # h)
    BY <1>1, <2>1 DEF IInv, LiveBacked
  <2>5. CASE C[FirstHeader].next = NULL /\ UnmapMmap(m)
    <3>1. \A g \in DOMAIN block[m] \ {h} : block[m][g].status # BUSY
      BY <1>5, <2>2, <2>5, AllFree
    <3>2. \A b \in live' : b.m # m
      BY <2>4, <3>1 DEF IInv, LiveBacked
    <3>3. /\ mmapBlock' \in [Mmaps -> MmapHeader]
          /\ \A k \in mapped \ {m} : mmapBlock'[k].size = mmapBlock[k].size
      BY <1>1, <2>5 DEF UnmapMmap, Unlink, Unmapped, IInv, TypeOK, MmapHeader
    <3>4. /\ mapped' = mapped \ {m}
          /\ \A k \in Mmaps : block'[k] = IF k = m THEN NoBlocks ELSE block[k]
          /\ DOMAIN block' = Mmaps
      BY <2>5 DEF UnmapMmap, IInv, TypeOK
    <3>5. TypeOK'
      BY <1>1, <1>5, <2>5, <3>3, <3>4 DEF UnmapMmap, IInv, TypeOK, NoBlocks
    <3>6. BlocksTile'
      BY <3>3, <3>4 DEF IInv, TypeOK, BlocksTile
    <3>7. LiveBacked'
      BY <1>1, <3>2, <3>4 DEF IInv, TypeOK, LiveBacked
    <3> QED
      BY <1>2, <3>5, <3>6, <3>7
  <2>6. CASE /\ block' = [block EXCEPT ![m] = C]
             /\ mmapBlock' = [mmapBlock EXCEPT ![m].elements = @ - 1]
             /\ guard' = guard \ ({m} \X Unprotected(block[m], h))
             /\ UNCHANGED <<mapped, mmapBlockFirst>>
    <3>1. /\ mmapBlock' \in [Mmaps -> MmapHeader]
          /\ \A k \in mapped : mmapBlock'[k].size = mmapBlock[k].size
      BY <1>1, <2>6 DEF IInv, TypeOK, MmapHeader
    <3>2. /\ \A k \in Mmaps : block'[k] = IF k = m THEN C ELSE block[k]
          /\ DOMAIN block' = Mmaps
      BY <2>6 DEF IInv, TypeOK
    <3> HIDE DEF C, h, m
    <3>3. TypeOK'
      BY <1>1, <1>5, <2>3, <2>6, <3>1, <3>2 DEF IInv, TypeOK, IsList
    <3>4. BlocksTile'
      BY <1>1, <2>3, <2>6, <3>1, <3>2 DEF IInv, TypeOK, BlocksTile, IsList
    <3>5. LiveBacked'
      <4>1. ASSUME NEW b \in live'
            PROVE  /\ b.m \in mapped' /\ b.block \in DOMAIN block'[b.m]
                   /\ block'[b.m][b.block].status = BUSY
                   /\ block'[b.m][b.block].size >= b.size
        <5>1. /\ b.m \in mapped /\ b.m \in Mmaps /\ b.block \in DOMAIN block[b.m]
              /\ block[b.m][b.block].status = BUSY
              /\ block[b.m][b.block].size >= b.size
              /\ b.m # m \/ b.block # h
          BY <2>4 DEF IInv, LiveBacked, TypeOK
        <5> QED
          BY <2>3, <2>6, <3>2, <5>1 DEF Unchanged
      <4>2. \A b, c \in live' : b # c => <<b.m, b.block>> # <<c.m, c.block>>
        BY <1>1 DEF IInv, LiveBacked
      <4> QED
        BY <4>1, <4>2 DEF LiveBacked
    <3> QED
      BY <1>2, <3>3, <3>4, <3>5
  <2> QED
    BY <1>5, <2>5, <2>6 DEF FreeBlockAt
<1>6. fate \in {"running", "segv", "wild"}
  BY DEF IInv, TypeOK
<1> QED
  BY <1>3, <1>4, <1>5, <1>6 DEF Release

--------------------------------------------------------------------------------
(* A thread's call that goes on to `pc`, or returns.                       *)
LEMMA ContinueStep ==
  ASSUME IInv, NEW t \in Threads, NEW pc \in {"check", "load", "search"},
         Continue(t, pc)
  PROVE  \E c : CallStep(t, c)
<1> DEFINE c == [call[t] EXCEPT !.pc = pc]
<1>1. c \in Call /\ c.old = call[t].old /\ c.got = call[t].got /\ c.op = call[t].op
      /\ c.pc = pc
  BY DEF IInv, TypeOK, Call
<1>2. call' = [call EXCEPT ![t] = c]
  BY DEF Continue
<1> HIDE DEF c
<1>3. CallStep(t, c)
  BY <1>1, <1>2 DEF CallStep, IInv, CallsOwn
<1> QED
  BY <1>3

LEMMA ReturnStep ==
  ASSUME IInv, NEW t \in Threads, Return(t)
  PROVE  CallStep(t, Idle)
  BY DEF CallStep, Return, Idle, Call, Ops

(* The steps of vgc_malloc that take no lock.                              *)
LEMMA UnlockedStep ==
  ASSUME IInv, NEW t \in Threads,
         PublishFirst(t) \/ CheckFirst(t) \/ LoadFirst(t) \/ ReadMaxSize(t)
  PROVE  IInv'
<1>1. CASE PublishFirst(t)
  <2>1. PICK c : CallStep(t, c)
    BY <1>1, ContinueStep DEF PublishFirst
  <2>2. call[t].at \in Mmaps \cup {NoMmap, MapFailed}
    BY DEF IInv, TypeOK, Call
  <2> QED
    BY <1>1, <2>1, <2>2, QuietStep DEF PublishFirst, IInv, TypeOK
<1>2. CASE CheckFirst(t)
  <2>1. \E c : CallStep(t, c)
    BY <1>2, ContinueStep, ReturnStep DEF CheckFirst
  <2> QED
    BY <1>2, <2>1, QuietStep DEF CheckFirst, shared, IInv, TypeOK
<1>3. CASE LoadFirst(t)
  <2>1. CASE call[t].size = 0
    BY <1>3, <2>1, ReturnStep, QuietStep DEF LoadFirst, shared, IInv, TypeOK
  <2>2. CASE call[t].size # 0
    <3> DEFINE c == [call[t] EXCEPT !.pc = "read", !.at = mmapBlockFirst]
    <3>1. c \in Call /\ c.old = call[t].old /\ c.got = call[t].got /\ c.op = call[t].op
          /\ c.pc = "read"
      BY DEF IInv, TypeOK, Call
    <3>2. call' = [call EXCEPT ![t] = c]
      BY <1>3, <2>2 DEF LoadFirst, IInv, TypeOK
    <3> HIDE DEF c
    <3>3. CallStep(t, c)
      BY <3>1, <3>2 DEF CallStep, IInv, CallsOwn
    <3> QED
      BY <1>3, <3>3, QuietStep DEF LoadFirst, shared, IInv, TypeOK
  <2> QED
    BY <2>1, <2>2
<1>4. CASE ReadMaxSize(t)
  <2>1. CASE Die("segv")
    BY <2>1 DEF Die, shared, IInv, TypeOK, BlocksTile, LiveBacked, PtrsPlaced, CallsOwn
  <2>2. CASE ~Die("segv")
    <3>1. \E c : CallStep(t, c)
      BY <1>4, <2>2, ContinueStep, ReturnStep DEF ReadMaxSize
    <3> QED
      BY <1>4, <2>2, <3>1, QuietStep DEF ReadMaxSize, shared, IInv, TypeOK
  <2> QED
    BY <2>1, <2>2
<1> QED
  BY <1>1, <1>2, <1>3, <1>4

(* The steps that hold the mutex, up to the return of vgc_malloc.          *)
LEMMA SearchStep ==
  ASSUME IInv, NEW t \in Threads,
         TakeFromList(t) \/ TakeFromNewMmap(t) \/ TakeNothing(t) \/ WalkCrashes(t)
  PROVE  IInv'
<1>1. CASE TakeFromList(t)
  <2>0. PICK m \in mapped : \E h \in Fits(block[m], call[t].size) :
          Take(t, m, block[m], h, mmapBlock, guard)
    BY <1>1 DEF TakeFromList
  <2>1. PICK h \in Fits(block[m], call[t].size) :
          Take(t, m, block[m], h, mmapBlock, guard)
    BY <2>0
  <2>2. m \in Mmaps /\ IsList(block[m], mmapBlock[m].size)
    BY ListOfMmap
  <2>3. mapped' = mapped \cup {m} /\ UNCHANGED <<mmapBlockFirst, fate>>
    BY <1>1 DEF TakeFromList
  <2> QED
    BY <2>1, <2>2, <2>3, TakeStep DEF IInv, TypeOK
<1>2. CASE TakeFromNewMmap(t)
  <2>1. PICK m \in Mmaps, mmapSize \in MmapSizes :
          LET last    == LastMmap
              B       == FreshBlocks(mmapSize)
              headers == LinkAfter(m, mmapSize, last)
              g       == Protect(guard, <<m, FirstHeader>>)
          IN  /\ MapsNewMmap(m, mmapSize)
              /\ last \in mapped \cup {NoMmap}
              /\ mapped' = mapped \cup {m}
              /\ \/ /\ FirstHeader \in Fits(B, call[t].size)
                    /\ Take(t, m, B, FirstHeader, headers, g)
                 \/ /\ FirstHeader \notin Fits(B, call[t].size)
                    /\ block' = [block EXCEPT ![m] = B]
                    /\ mmapBlock' = headers
                    /\ guard' = g
                    /\ Return(t)
                    /\ UNCHANGED live
    BY <1>2 DEF TakeFromNewMmap
  <2> DEFINE headers == LinkAfter(m, mmapSize, LastMmap)
             B == FreshBlocks(mmapSize)
             g == Protect(guard, <<m, FirstHeader>>)
  <2>2. /\ m \in Mmaps \ mapped /\ LastMmap \in Mmaps \cup {NoMmap}
        /\ mapped' = mapped \cup {m} /\ UNCHANGED <<mmapBlockFirst, fate>>
    BY <1>2, <2>1 DEF MapsNewMmap, TakeFromNewMmap, IInv, TypeOK
  <2>3. /\ headers \in [Mmaps -> MmapHeader]
        /\ headers[m].size = mmapSize
        /\ \A k \in mapped : headers[k].size = mmapBlock[k].size
    BY <2>2, LinkAfterHeaders
  <2>4. IsList(B, headers[m].size)
    BY <2>3, FreshIsList, MmapSizeBounds
  <2>5. g \subseteq Mmaps \X Nat
    BY ProtectPages DEF IInv, TypeOK
  <2>6. CASE /\ FirstHeader \in Fits(B, call[t].size)
             /\ Take(t, m, B, FirstHeader, headers, g)
    <3> HIDE DEF headers, B, g
    <3> QED
      BY <2>2, <2>3, <2>4, <2>5, <2>6, TakeStep
  <2>7. CASE /\ block' = [block EXCEPT ![m] = B]
             /\ mmapBlock' = headers
             /\ guard' = g
             /\ Return(t)
             /\ UNCHANGED live
    <3> HIDE DEF headers, B, g
    <3> QED
      BY <2>2, <2>3, <2>4, <2>5, <2>7, ReturnStep, MapStep
  <2> QED
    BY <2>1, <2>6, <2>7
<1>3. CASE TakeNothing(t)
  BY <1>3, ReturnStep, QuietStep DEF TakeNothing, shared, IInv, TypeOK
<1>4. CASE WalkCrashes(t)
  BY <1>4 DEF WalkCrashes, Die, shared, IInv, TypeOK, BlocksTile, LiveBacked, PtrsPlaced,
     CallsOwn
<1> QED
  BY <1>1, <1>2, <1>3, <1>4

(* vgc_calloc's memset, and the two ways vgc_free is called.               *)
LEMMA LastStep ==
  ASSUME IInv, NEW t \in Threads,
         ZeroMemory(t) \/ ReleaseOld(t) \/ \E a \in live : Free(t, a)
  PROVE  IInv'
<1>1. CASE ZeroMemory(t)
  BY <1>1, ReturnStep, QuietStep, TouchFate DEF ZeroMemory, shared, IInv, TypeOK
<1>2. CASE ReleaseOld(t)
  <2> DEFINE a == call[t].old
  <2>1. a \in live /\ Release(a) /\ live' = live \ {a}
    BY <1>2 DEF ReleaseOld, Release, IInv, CallsOwn
  <2>2. /\ call'[t] = Idle /\ call' \in [Threads -> Call]
        /\ \A u \in Threads \ {t} : call'[u] = call[u]
    BY <1>2 DEF ReleaseOld, Return, Idle, Call, Ops, IInv, TypeOK
  <2>3. TypeOK' /\ BlocksTile' /\ LiveBacked' /\ PtrsPlaced'
    BY <2>1, <2>2, ReleaseStep
  <2>4. NoAllocation \notin live
    BY NoAllocationAssumption DEF IInv, TypeOK
  <2>5. ASSUME NEW u \in Threads \ {t}
        PROVE  call[u].old # a /\ call[u].got # a
    <3>1. {call[t].old, call[t].got} \cap {call[u].old, call[u].got} \subseteq {NoAllocation}
      BY DEF IInv, CallsOwn
    <3> QED
      BY <2>1, <2>4, <3>1
  <2> HIDE DEF a
  <2>6. CallsOwn'
    BY <2>1, <2>2, <2>4, <2>5 DEF IInv, CallsOwn, Idle
  <2> QED
    BY <2>3, <2>6 DEF IInv
<1>3. CASE \E a \in live : Free(t, a)
  <2>1. PICK a \in live : Free(t, a)
    BY <1>3
  <2>2. Release(a) /\ live' = live \ {a} /\ call' = call /\ a \notin InUse
    BY <2>1 DEF Free, Release
  <2>3. TypeOK' /\ BlocksTile' /\ LiveBacked' /\ PtrsPlaced'
    BY <2>2, ReleaseStep DEF IInv, TypeOK
  <2>4. \A u \in Threads : call[u].old # a /\ call[u].got # a
    BY <2>2 DEF InUse
  <2>5. CallsOwn'
    BY <2>2, <2>4 DEF IInv, CallsOwn
  <2> QED
    BY <2>3, <2>5 DEF IInv
<1> QED
  BY <1>1, <1>2, <1>3

LEMMA NextInv == IInv /\ [Next]_vars => IInv'
<1> SUFFICES ASSUME IInv, [Next]_vars
             PROVE  IInv'
  OBVIOUS
<1>1. CASE UNCHANGED vars
  BY <1>1 DEF vars, shared, IInv, TypeOK, BlocksTile, LiveBacked, PtrsPlaced, CallsOwn
<1>2. ASSUME NEW t \in Threads, Step(t)
      PROVE  IInv'
  <2>1. ASSUME NEW size \in Sizes, Malloc(t, size)
        PROVE  IInv'
    BY <2>1, EnterStep, ConstantsAssumption DEF Malloc, Ops
  <2>2. ASSUME NEW args \in CallocArgs, Calloc(t, args[1], args[2])
        PROVE  IInv'
    <3>1. args[1] \in Nat /\ args[2] \in Nat
      BY ConstantsAssumption
    <3>2. args[1] * args[2] \in Nat
      BY <3>1
    <3>3. (args[1] * args[2]) % SizeMod \in Nat
      BY <3>2, ConstantsAssumption
    <3> QED
      BY <2>2, <3>2, <3>3, EnterStep DEF Calloc, Ops
  <2>3. ASSUME NEW a \in live, NEW size \in ReallocSizes, Realloc(t, a, size)
        PROVE  IInv'
    BY <2>3, EnterStep, ConstantsAssumption DEF Realloc, Ops
  <2> QED
    BY <1>2, <2>1, <2>2, <2>3, UnlockedStep, SearchStep, LastStep, CopyStep DEF Step
<1> QED
  BY <1>1, <1>2 DEF Next, Halted

--------------------------------------------------------------------------------
(* The fields of every header keep their types: sizes never wrap below 0.  *)
THEOREM TypeCorrect == Spec => []TypeOK
<1>1. IInv => TypeOK
  BY DEF IInv
<1> QED
  BY <1>1, InitInv, NextInv, PTL DEF Spec

(* The blocks of every MMAP tile it, after any calls by any threads.       *)
THEOREM TilingHolds == Spec => []BlocksTile
<1>1. IInv => BlocksTile
  BY DEF IInv
<1> QED
  BY <1>1, InitInv, NextInv, PTL DEF Spec

(* Every allocation keeps a busy block of its own in a mapped MMAP.        *)
THEOREM AllocationsBacked == Spec => []LiveBacked
<1>1. IInv => LiveBacked
  BY DEF IInv
<1> QED
  BY <1>1, InitInv, NextInv, PTL DEF Spec

--------------------------------------------------------------------------------
(* A block on the list is where its client left it. *)
LEMMA BlockInUse ==
  ASSUME IInv, NEW a \in live
  PROVE  /\ a.m \in mapped /\ a.m \in Mmaps
         /\ a.block \in DOMAIN block[a.m]
         /\ block[a.m][a.block].status = BUSY
  BY DEF IInv, TypeOK, LiveBacked

(* The blocks that share an MMAP with a new one, or with a block that is   *)
(* handed out.                                                             *)
LEMMA MapLeavesBlocks ==
  ASSUME IInv, NEW a \in live, NEW m \in Mmaps \ mapped, NEW B,
         block' = [block EXCEPT ![m] = B],
         guard' = Protect(guard, <<m, FirstHeader>>)
  PROVE  LeavesBlock(a)
<1>1. a.m # m /\ a.m \in Mmaps
  BY BlockInUse
<1>2. block'[a.m] = block[a.m]
  BY <1>1 DEF IInv, TypeOK
<1>3. <<a.m, a.block>> \in guard' <=> <<a.m, a.block>> \in guard
  BY <1>1 DEF Protect
<1> QED
  BY <1>2, <1>3 DEF LeavesBlock

LEMMA TakeLeavesBlocks ==
  ASSUME IInv, NEW a \in live, NEW t \in Threads, NEW m \in Mmaps,
         NEW B, NEW mmapSize \in Nat, IsList(B, mmapSize),
         m \in mapped => B = block[m],
         NEW h \in Fits(B, call[t].size), NEW headers, NEW g,
         <<a.m, a.block>> \in g <=> <<a.m, a.block>> \in guard,
         Take(t, m, B, h, headers, g)
  PROVE  LeavesBlock(a)
<1> DEFINE size == call[t].size
           n == Remainder(h, size)
<1>1. size \in Nat
  BY DEF IInv, TypeOK, Call
<1>2. /\ a.m \in mapped /\ a.m \in Mmaps /\ a.block \in DOMAIN block[a.m]
      /\ block[a.m][a.block].status = BUSY
  BY BlockInUse
<1>3. CASE a.m # m
  <2>1. block'[a.m] = block[a.m]
    BY <1>2, <1>3 DEF Take, IInv, TypeOK
  <2>2. <<a.m, a.block>> \in guard' <=> <<a.m, a.block>> \in guard
    BY <1>3 DEF Take, Protect
  <2> QED
    BY <2>1, <2>2 DEF LeavesBlock
<1>4. CASE a.m = m
  <2>1. B = block[a.m] /\ a.block \in DOMAIN B \ {h}
    BY <1>2, <1>4 DEF Fits, FREE, BUSY
  <2>2. block'[a.m] = AllocBlock(B, h, size)
    BY <1>2, <1>4 DEF Take, IInv, TypeOK
  <2>3. Unchanged(B, AllocBlock(B, h, size), a.block)
    BY <1>1, <2>1, AllocBlockIsList
  <2>4. Splits(B, h, size) => n \notin DOMAIN B
    BY <1>1, AllocBlockFields
  <2>5. guard' = IF Splits(B, h, size) THEN Protect(g, <<m, n>>) ELSE g
    BY DEF Take
  <2> HIDE DEF n
  <2>6. <<a.m, a.block>> \in guard' <=> <<a.m, a.block>> \in guard
    BY <2>1, <2>4, <2>5 DEF Protect
  <2> QED
    BY <2>1, <2>2, <2>3, <2>6 DEF LeavesBlock, Unchanged
<1> QED
  BY <1>3, <1>4

(* The blocks that share an MMAP with one that is freed.                   *)
LEMMA ReleaseLeavesBlocks ==
  ASSUME IInv, NEW a \in live, NEW d \in live, Release(d),
         NEW b \in live', b.m = a.m, b.block = a.block
  PROVE  LeavesBlock(a)
<1> DEFINE m == d.m
           h == HeaderOf(d)
           C == FreeBlock(block[m], h)
<1>1. /\ a.m \in mapped /\ a.m \in Mmaps /\ a.block \in DOMAIN block[a.m]
      /\ block[a.m][a.block].status = BUSY
  BY BlockInUse
<1>2. m \in mapped
  BY BlockInUse
<1>3. a.m # m \/ a.block # d.block
  <2>1. b \in live /\ b # d
    BY DEF Release
  <2> QED
    BY <2>1 DEF IInv, LiveBacked
<1>4. CASE UNCHANGED <<block, guard>>
  BY <1>4 DEF LeavesBlock
<1>5. CASE h \in DOMAIN block[m] /\ FreeBlockAt(m, h)
  <2>1. h = d.block
    BY <1>5, HeaderOfOwn
  <2>2. IsList(block[m], mmapBlock[m].size) /\ mmapBlock[m].size \in Nat
    BY <1>2, ListOfMmap
  <2>3. CASE a.m # m
    <3>1. block'[a.m] = block[a.m]
      BY <1>1, <1>5, <2>3 DEF FreeBlockAt, UnmapMmap, IInv, TypeOK
    <3>2. <<a.m, a.block>> \in guard' <=> <<a.m, a.block>> \in guard
      BY <1>5, <2>3 DEF FreeBlockAt, UnmapMmap
    <3> QED
      BY <3>1, <3>2 DEF LeavesBlock
  <2>4. CASE a.m = m
    <3>1. a.block \in DOMAIN block[m] \ {h} /\ block[m][a.block].status = BUSY
      BY <1>1, <1>3, <2>1, <2>4
    <3>2. C[FirstHeader].next # NULL
      BY <1>5, <2>2, <3>1, AllFree
    <3>3. /\ block' = [block EXCEPT ![m] = C]
          /\ guard' = guard \ ({m} \X Unprotected(block[m], h))
      BY <1>5, <3>2 DEF FreeBlockAt
    <3>4. block'[a.m] = C
      BY <1>1, <2>4, <3>3 DEF IInv, TypeOK
    <3>5. Unchanged(block[m], C, a.block)
      BY <1>5, <2>2, <3>1, FreeBlockIsList
    <3>6. a.block \notin Unprotected(block[m], h)
      BY <3>1 DEF Unprotected, NextIsFree, FREE, BUSY
    <3>7. <<a.m, a.block>> \in guard' <=> <<a.m, a.block>> \in guard
      BY <3>3, <3>6
    <3> QED
      BY <2>4, <3>4, <3>5, <3>7 DEF LeavesBlock, Unchanged
  <2> QED
    BY <2>3, <2>4
<1> QED
  BY <1>4, <1>5 DEF Release, shared

LEMMA EnterLeavesBlocks ==
  ASSUME IInv, NEW a \in live, NEW t \in Threads, NEW op, NEW size, NEW old,
         Enter(t, op, size, old)
  PROVE  LeavesBlock(a)
<1>1. CASE UNCHANGED shared
  BY <1>1 DEF shared, LeavesBlock
<1>2. ASSUME NEW m \in Mmaps, NEW mmapSize \in MmapSizes,
             MapsNewMmap(m, mmapSize),
             block' = [block EXCEPT ![m] = FreshBlocks(mmapSize)],
             guard' = Protect(guard, <<m, FirstHeader>>)
      PROVE  LeavesBlock(a)
  BY <1>2, MapLeavesBlocks DEF MapsNewMmap
<1> QED
  BY <1>1, <1>2 DEF Enter

LEMMA SearchLeavesBlocks ==
  ASSUME IInv, NEW a \in live, NEW t \in Threads,
         TakeFromList(t) \/ TakeFromNewMmap(t)
  PROVE  LeavesBlock(a)
<1>1. CASE TakeFromList(t)
  <2>1. PICK m \in mapped : \E h \in Fits(block[m], call[t].size) :
          Take(t, m, block[m], h, mmapBlock, guard)
    BY <1>1 DEF TakeFromList
  <2>2. PICK h \in Fits(block[m], call[t].size) :
          Take(t, m, block[m], h, mmapBlock, guard)
    BY <2>1
  <2>3. m \in Mmaps /\ mmapBlock[m].size \in Nat /\ IsList(block[m], mmapBlock[m].size)
    BY ListOfMmap
  <2> QED
    BY <2>2, <2>3, TakeLeavesBlocks
<1>2. CASE TakeFromNewMmap(t)
  <2>1. PICK m \in Mmaps, mmapSize \in MmapSizes :
          LET B       == FreshBlocks(mmapSize)
              headers == LinkAfter(m, mmapSize, LastMmap)
              g       == Protect(guard, <<m, FirstHeader>>)
          IN  /\ MapsNewMmap(m, mmapSize)
              /\ \/ /\ FirstHeader \in Fits(B, call[t].size)
                    /\ Take(t, m, B, FirstHeader, headers, g)
                 \/ /\ block' = [block EXCEPT ![m] = B]
                    /\ guard' = g
    BY <1>2 DEF TakeFromNewMmap
  <2> DEFINE headers == LinkAfter(m, mmapSize, LastMmap)
             B == FreshBlocks(mmapSize)
             g == Protect(guard, <<m, FirstHeader>>)
  <2>2. m \in Mmaps \ mapped
    BY <2>1 DEF MapsNewMmap
  <2>3. mmapSize \in Nat /\ IsList(B, mmapSize)
    BY FreshIsList, MmapSizeBounds
  <2>4. <<a.m, a.block>> \in g <=> <<a.m, a.block>> \in guard
    BY <2>2, BlockInUse DEF Protect
  <2>5. CASE FirstHeader \in Fits(B, call[t].size) /\ Take(t, m, B, FirstHeader, headers, g)
    <3> HIDE DEF headers, B, g
    <3> QED
      BY <2>2, <2>3, <2>4, <2>5, TakeLeavesBlocks
  <2>6. CASE block' = [block EXCEPT ![m] = B] /\ guard' = g
    <3> HIDE DEF B
    <3> QED
      BY <2>2, <2>6, MapLeavesBlocks
  <2> QED
    BY <2>1, <2>5, <2>6
<1> QED
  BY <1>1, <1>2

LEMMA StepLeavesBlocks ==
  ASSUME IInv, NEW t \in Threads, Step(t), NEW a \in live,
         NEW b \in live', b.m = a.m, b.block = a.block
  PROVE  LeavesBlock(a)
<1>1. CASE TakeFromList(t) \/ TakeFromNewMmap(t)
  BY <1>1, SearchLeavesBlocks
<1>2. ASSUME NEW op, NEW size, NEW old, Enter(t, op, size, old)
      PROVE  LeavesBlock(a)
  BY <1>2, EnterLeavesBlocks
<1>3. CASE UNCHANGED <<block, guard>>
  BY <1>3 DEF LeavesBlock
<1>4. CASE \E d \in live : Free(t, d)
  BY <1>4, ReleaseLeavesBlocks DEF Free
<1>5. CASE ReleaseOld(t)
  <2>1. call[t].old \in live
    BY <1>5 DEF ReleaseOld, Release, IInv, CallsOwn
  <2> QED
    BY <1>5, <2>1, ReleaseLeavesBlocks DEF ReleaseOld
<1>6. CASE \/ PublishFirst(t) \/ CheckFirst(t) \/ LoadFirst(t) \/ ReadMaxSize(t)
           \/ TakeNothing(t) \/ WalkCrashes(t) \/ ZeroMemory(t) \/ CopyContents(t)
  BY <1>3, <1>6 DEF PublishFirst, CheckFirst, LoadFirst, ReadMaxSize, TakeNothing,
     WalkCrashes, ZeroMemory, CopyContents, Die, shared
<1> QED
  BY <1>1, <1>2, <1>4, <1>5, <1>6 DEF Step, Malloc, Calloc, Realloc

(* Splits, joins and unmappings for other clients, by any threads, neither *)
(* resize a block in use nor touch the guard page before it.               *)
THEOREM BlocksKept == Spec => BlocksInUseKept
<1>1. ASSUME IInv, [Next]_vars
      PROVE  [\A a \in live :
                (\E b \in live' : b.m = a.m /\ b.block = a.block) => LeavesBlock(a)]_vars
  <2>1. CASE UNCHANGED vars
    BY <2>1
  <2>2. CASE \E t \in Threads : Step(t)
    BY <1>1, <2>2, StepLeavesBlocks
  <2> QED
    BY <1>1, <2>1, <2>2 DEF Next, Halted
<1> QED
  BY <1>1, InitInv, NextInv, PTL DEF Spec, BlocksInUseKept

--------------------------------------------------------------------------------
Granted == {Extent(a) : a \in live}

(* Two allocations share no byte.  A client's bytes end at most a page     *)
(* after its block does, and the next block's header is two pages long.    *)
NoOverlap ==
  \A a, b \in live : a # b => /\ Abstract!Disjoint(Extent(a), Extent(b))
                              /\ Extent(a) # Extent(b)

LEMMA ExtentsApart == IInv => NoOverlap
<1> SUFFICES ASSUME IInv, NEW a \in live, NEW b \in live, a # b
             PROVE  /\ Abstract!Disjoint(Extent(a), Extent(b))
                    /\ Extent(a) # Extent(b)
  BY DEF NoOverlap
<1>1. ASSUME NEW c \in live
      PROVE  /\ c.m \in mapped /\ c.block \in DOMAIN block[c.m] /\ c.block \in Nat
             /\ c.size \in Nat /\ c.ptr \in Nat
             /\ c.block + MallocHeaderSize < c.ptr
             /\ c.ptr <= c.block + MallocHeaderSize + PageSize
             /\ c.ptr + c.size <= EndOf(block[c.m], c.block) + PageSize
             /\ c.block + MallocHeaderSize <= EndOf(block[c.m], c.block)
             /\ EndOf(block[c.m], c.block) \in Nat
  <2>1. /\ c.m \in mapped /\ c.block \in DOMAIN block[c.m] /\ c.block \in Nat
        /\ c.size \in Nat /\ c.ptr = PayloadPtr(c.block, c.size)
        /\ block[c.m][c.block].size >= c.size
    BY DEF IInv, TypeOK, LiveBacked, PtrsPlaced, Allocation
  <2>2. block[c.m][c.block] \in Header
    BY <2>1 DEF IInv, TypeOK
  <2>3. /\ block[c.m][c.block].size \in Nat
        /\ EndOf(block[c.m], c.block)
             = c.block + MallocHeaderSize + block[c.m][c.block].size
    BY <2>2 DEF EndOf, Header
  <2>4. /\ c.ptr \in Nat
        /\ c.block + MallocHeaderSize < c.ptr
        /\ c.ptr <= c.block + MallocHeaderSize + PageSize
    BY <2>1, PayloadPtrBounds
  <2> QED
    BY <2>1, <2>3, <2>4, PageSizeAssumption DEF MallocHeaderSize
<1>2. a.m = b.m => a.block # b.block
  BY DEF IInv, LiveBacked
<1>3. a.m = b.m => \/ EndOf(block[a.m], a.block) <= b.block
                   \/ EndOf(block[b.m], b.block) <= a.block
  BY <1>1, <1>2, ListOfMmap DEF IsList, WellFormed, Apart
<1>4. a.m = b.m => \/ a.ptr + a.size <= b.ptr /\ a.ptr < b.ptr
                   \/ b.ptr + b.size <= a.ptr /\ b.ptr < a.ptr
  BY <1>1, <1>3, PageSizeAssumption DEF MallocHeaderSize
<1> QED
  BY <1>1, <1>4 DEF Extent, Abstract!Disjoint

--------------------------------------------------------------------------------
LEMMA InitRefines == Init => Abstract!Init
  BY DEF Init, Abstract!Init

(* A thread that hands nothing out and maps nothing. *)
LEMMA NothingGranted ==
  ASSUME mapped' = mapped, live' = live
  PROVE  UNCHANGED <<mapped, Granted>>
  BY DEF Granted, Extent

LEMMA MapRefines ==
  ASSUME NEW m \in Mmaps, mapped' = mapped \cup {m}, live' = live
  PROVE  Abstract!Grow
  BY DEF Abstract!Grow, Extent

(* Handing out is a Grant. *)
LEMMA TakeRefines ==
  ASSUME IInv, IInv', NEW t \in Threads, NEW m \in Mmaps, NEW h, NEW B, NEW headers, NEW g,
         m \notin mapped \/ (B = block[m] /\ h \in Fits(B, call[t].size)),
         mapped' = mapped \cup {m},
         Take(t, m, B, h, headers, g)
  PROVE  Abstract!Grant
<1> DEFINE a == NewAllocation(t, m, h)
           e == Extent(a)
<1>1. live' = live \cup {a} /\ a.m = m /\ a.block = h
  BY DEF Take, Deliver, NewAllocation
<1>2. a \notin live
  BY <1>1 DEF IInv, LiveBacked, Fits, FREE, BUSY
<1>3. \A b \in live : /\ Abstract!Disjoint(Extent(b), e)
                      /\ Extent(b) # e
  <2>1. NoOverlap'
    BY ExtentsApart, PTL
  <2> QED
    BY <1>1, <1>2, <2>1 DEF NoOverlap, Extent, Abstract!Disjoint
<1>4. e.m = m
  BY <1>1 DEF Extent
<1>5. Granted' = Granted \cup {e}
  BY <1>1 DEF Granted, Extent
<1> QED
  BY <1>3, <1>4, <1>5 DEF Abstract!Grant, Granted

(* Taking back is a Release: nobody else is left in an MMAP unmapped. *)
LEMMA ReleaseRefines ==
  ASSUME IInv, IInv', NEW a \in live, Release(a)
  PROVE  Abstract!Release
<1> DEFINE e == Extent(a)
<1>1. live' = live \ {a} /\ e.m = a.m
  BY DEF Release, Extent
<1>2. Granted' = Granted \ {e}
  BY <1>1, ExtentsApart DEF NoOverlap, Granted, Extent
<1>3. mapped' = mapped \/ mapped' = mapped \ {a.m}
  BY DEF Release, shared, FreeBlockAt, UnmapMmap
<1>4. mapped' = mapped \ {a.m} => \A d \in Granted' : d.m # a.m
  BY DEF IInv, LiveBacked, Granted, Extent
<1> QED
  BY <1>1, <1>2, <1>3, <1>4 DEF Abstract!Release, Granted

LEMMA StepRefines ==
  IInv /\ IInv' /\ [Next]_vars => [Abstract!Next]_<<mapped, Granted>>
<1> SUFFICES ASSUME IInv, IInv', [Next]_vars
             PROVE  [Abstract!Next]_<<mapped, Granted>>
  OBVIOUS
<1> DEFINE Still == mapped' = mapped /\ live' = live
<1>1. CASE Still
  BY <1>1, NothingGranted
<1>2. ASSUME NEW t \in Threads, NEW op, NEW size, NEW old,
             Enter(t, op, size, old)
      PROVE  Still \/ Abstract!Grow
  BY <1>2, MapRefines DEF Enter, shared
<1>3. ASSUME NEW t \in Threads, TakeFromList(t)
      PROVE  Abstract!Grant
  <2>1. PICK m \in mapped : \E h \in Fits(block[m], call[t].size) :
          Take(t, m, block[m], h, mmapBlock, guard)
    BY <1>3 DEF TakeFromList
  <2>2. m \in Mmaps /\ mapped' = mapped \cup {m}
    BY <1>3, <2>1 DEF TakeFromList, IInv, TypeOK
  <2> QED
    BY <2>1, <2>2, TakeRefines
<1>4. ASSUME NEW t \in Threads, TakeFromNewMmap(t)
      PROVE  Abstract!Grant \/ Abstract!Grow
  <2>1. PICK m \in Mmaps \ mapped :
          /\ mapped' = mapped \cup {m}
          /\ \/ \E h, B, headers, g : Take(t, m, B, h, headers, g)
             \/ live' = live
    BY <1>4 DEF TakeFromNewMmap, MapsNewMmap
  <2> QED
    BY <2>1, TakeRefines, MapRefines
<1>5. ASSUME NEW t \in Threads, CopyContents(t)
      PROVE  mapped' = mapped /\ Granted' = Granted
  <2>1. call[t].got \in live /\ call[t].got \in Allocation
    BY <1>5 DEF CopyContents, IInv, CallsOwn, TypeOK
  <2>2. PICK intact \in BOOLEAN :
          live' = (live \ {call[t].got}) \cup {[call[t].got EXCEPT !.intact = intact]}
    BY <1>5 DEF CopyContents
  <2>3. Extent([call[t].got EXCEPT !.intact = intact]) = Extent(call[t].got)
    BY <2>1 DEF Extent, Allocation
  <2>4. PICK kept : live' = (live \ {call[t].got}) \cup {kept}
                    /\ Extent(kept) = Extent(call[t].got)
    BY <2>2, <2>3
  <2>5. Granted' = {Extent(a) : a \in live'}
    BY DEF Granted, Extent
  <2>6. {Extent(a) : a \in live'} = {Extent(a) : a \in live}
    BY <2>1, <2>4
  <2>7. mapped' = mapped
    BY <1>5 DEF CopyContents, shared
  <2> QED
    BY <2>5, <2>6, <2>7 DEF Granted
<1>6. ASSUME NEW t \in Threads, ReleaseOld(t)
      PROVE  Abstract!Release
  BY <1>6, ReleaseRefines DEF ReleaseOld, IInv, CallsOwn
<1>7. ASSUME NEW t \in Threads, Step(t)
      PROVE  Still \/ Abstract!Next \/ (mapped' = mapped /\ Granted' = Granted)
  <2>1. CASE \/ \E size \in Sizes : Malloc(t, size)
             \/ \E args \in CallocArgs : Calloc(t, args[1], args[2])
             \/ \E a \in live, size \in ReallocSizes : Realloc(t, a, size)
    BY <1>2, <2>1 DEF Malloc, Calloc, Realloc, Abstract!Next
  <2>2. CASE \/ PublishFirst(t) \/ CheckFirst(t) \/ LoadFirst(t) \/ ReadMaxSize(t)
             \/ TakeNothing(t) \/ WalkCrashes(t) \/ ZeroMemory(t)
    BY <2>2 DEF PublishFirst, CheckFirst, LoadFirst, ReadMaxSize, TakeNothing, WalkCrashes,
       ZeroMemory, Die, shared
  <2>3. CASE \E a \in live : Free(t, a)
    BY <2>3, ReleaseRefines DEF Free, Abstract!Next
  <2> QED
    BY <1>3, <1>4, <1>5, <1>6, <1>7, <2>1, <2>2, <2>3 DEF Step, Abstract!Next
<1>8. CASE UNCHANGED vars
  BY <1>1, <1>8 DEF vars, shared
<1> QED
  BY <1>1, <1>7, <1>8, NothingGranted DEF Next, Halted

(* Whatever threads call, in whatever order: no byte is ever owned twice,  *)
(* and no MMAP is unmapped under an allocation.                            *)
THEOREM Refinement == Spec => ImplementsAllocator
<1> USE DEF Granted
<1> QED
  BY InitRefines, StepRefines, InitInv, NextInv, PTL
  DEF Spec, ImplementsAllocator, Abstract!Spec
================================================================================
