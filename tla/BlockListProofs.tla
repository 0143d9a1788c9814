---------------------------- MODULE BlockListProofs ----------------------------
(***************************************************************************)
(* What the operators of BlockList do to a list, for every page size, MMAP *)
(* size and request: each keeps it well formed and leaves the busy blocks  *)
(* it is not about as they were.                                           *)
(***************************************************************************)
EXTENDS BlockList, InductionProofs

(* A well-formed list whose fields have their types. *)
IsList(B, mmapSize) ==
  /\ DOMAIN B \subseteq Nat
  /\ \A h \in DOMAIN B : B[h] \in Header
  /\ WellFormed(B, mmapSize)

(* Block g is the same in both lists, but for its links. *)
Unchanged(B, C, g) ==
  g \in DOMAIN C /\ C[g].status = B[g].status /\ C[g].size = B[g].size

--------------------------------------------------------------------------------
(* RoundUp gives at least what was asked for, by less than a page more.    *)
LEMMA RoundUpBounds ==
  ASSUME NEW length \in Nat
  PROVE  /\ RoundUp(length) \in Nat
         /\ length <= RoundUp(length) /\ RoundUp(length) < length + PageSize
<1>1. length = PageSize * (length \div PageSize) + (length % PageSize)
  BY PageSizeAssumption
<1> QED
  BY <1>1, PageSizeAssumption DEF RoundUp

(* The pointer of a block is on the page after its header, or just past it. *)
LEMMA PayloadPtrBounds ==
  ASSUME NEW h \in Nat, NEW length \in Nat
  PROVE  /\ PayloadPtr(h, length) \in Nat
         /\ h + MallocHeaderSize < PayloadPtr(h, length)
         /\ PayloadPtr(h, length) <= h + MallocHeaderSize + PageSize
         /\ PayloadPtr(h, length) + length <= h + MallocHeaderSize + RoundUp(length) + PageSize
<1>1. length % PageSize \in Nat /\ length % PageSize < PageSize
  BY PageSizeAssumption
<1>2. length + PageSize - (length % PageSize) <= RoundUp(length) + PageSize
  BY <1>1, RoundUpBounds, PageSizeAssumption
<1> QED
  BY <1>1, <1>2, RoundUpBounds, PageSizeAssumption DEF PayloadPtr, MallocHeaderSize

(* The list of a fresh MMAP. *)
LEMMA FreshIsList ==
  ASSUME NEW mmapSize \in Nat, mmapSize > MmapHeaderSize + MallocHeaderSize
  PROVE  IsList(FreshBlocks(mmapSize), mmapSize)
  BY PageSizeAssumption
  DEF IsList, FreshBlocks, WellFormed, WellLinked, Apart, EndOf, MaxSize, Header,
      FirstHeader, MmapHeaderSize, MallocHeaderSize, NULL, FREE, BUSY

(* allocMallocBlock on a free block that is large enough: the block is     *)
(* busy and large enough, the others are as before.                        *)
LEMMA AllocBlockIsList ==
  ASSUME NEW B, NEW mmapSize \in Nat, IsList(B, mmapSize),
         NEW length \in Nat, NEW h \in Fits(B, length)
  PROVE  LET C == AllocBlock(B, h, length) IN
         /\ IsList(C, mmapSize)
         /\ h \in DOMAIN C /\ C[h].status = BUSY /\ C[h].size >= length
         /\ \A g \in DOMAIN B \ {h} : Unchanged(B, C, g)
         /\ \A g \in DOMAIN C \ DOMAIN B : C[g].status = FREE
<1> DEFINE C == AllocBlock(B, h, length)
           n == Remainder(h, length)
           x == B[h].next
<1> USE DEF NULL, FREE, BUSY
<1>1. /\ h \in DOMAIN B /\ h \in Nat
      /\ B[h] \in Header /\ B[h].status = FREE /\ B[h].size >= length
  BY DEF Fits, IsList
<1>2. PageSize \in Nat /\ PageSize > 0
  BY PageSizeAssumption
<1>3. RoundUp(length) \in Nat /\ RoundUp(length) >= length
  BY RoundUpBounds
<1>4. CASE ~Splits(B, h, length)
  <2>1. C = [B EXCEPT ![h].status = BUSY]
    BY <1>4 DEF AllocBlock
  <2>2. /\ DOMAIN C = DOMAIN B
        /\ \A g \in DOMAIN B : /\ C[g].size = B[g].size
                               /\ C[g].prev = B[g].prev
                               /\ C[g].next = B[g].next
                               /\ C[g] \in Header
                               /\ g # h => C[g] = B[g]
        /\ C[h].status = BUSY
    BY <2>1, <1>1 DEF IsList, Header
  <2>3. IsList(C, mmapSize)
    BY <2>2 DEF IsList, WellFormed, WellLinked, Apart, EndOf
  <2> QED
    BY <2>2, <2>3, <1>1 DEF Unchanged
<1>5. CASE Splits(B, h, length)
  <2>1. /\ n \in Nat /\ n = h + MallocHeaderSize + RoundUp(length)
        /\ n + MallocHeaderSize < EndOf(B, h)
    BY <1>1, <1>2, <1>3, <1>5
    DEF Splits, Remainder, EndOf, Header, MallocHeaderSize
  <2>2. n \notin DOMAIN B
    BY <1>1, <1>2, <1>3, <2>1
    DEF IsList, WellFormed, Apart, EndOf, Header, MallocHeaderSize
  <2>3. x = B[h].next /\ (x # NULL => x \in DOMAIN B /\ x # h /\ B[x].prev = h /\ x = EndOf(B, h))
    BY <1>1, <1>2 DEF IsList, WellFormed, WellLinked, EndOf, Header, MallocHeaderSize
  <2>4. DOMAIN C = DOMAIN B \cup {n}
    BY <1>5 DEF AllocBlock
  <2>5. C[n] = [size   |-> B[h].size - (RoundUp(length) + MallocHeaderSize),
                status |-> FREE, prev |-> h, next |-> x]
    BY <1>5, <2>4 DEF AllocBlock
  <2>6. C[h] = [size   |-> RoundUp(length), status |-> BUSY,
                prev |-> B[h].prev, next |-> n]
    BY <1>1, <1>5, <2>2, <2>4 DEF AllocBlock
  <2>7. \A g \in DOMAIN B \ {h} :
          C[g] = IF g = x THEN [B[g] EXCEPT !.prev = n] ELSE B[g]
    BY <1>5, <2>2, <2>4 DEF AllocBlock
  <2>8. /\ C[n] \in Header /\ C[h] \in Header
        /\ \A g \in DOMAIN B \ {h} : /\ C[g] \in Header
                                     /\ C[g].size = B[g].size
                                     /\ C[g].status = B[g].status
                                     /\ C[g].next = B[g].next
                                     /\ C[g].prev = IF g = x THEN n ELSE B[g].prev
    <3>1. C[n] \in Header /\ C[h] \in Header
      BY <1>1, <1>2, <1>3, <1>5, <2>1, <2>5, <2>6
      DEF Splits, Header, MallocHeaderSize
    <3>2. ASSUME NEW g \in DOMAIN B \ {h}
          PROVE  /\ C[g] \in Header
                 /\ C[g].size = B[g].size
                 /\ C[g].status = B[g].status
                 /\ C[g].next = B[g].next
                 /\ C[g].prev = IF g = x THEN n ELSE B[g].prev
      BY <2>1, <2>7 DEF IsList, Header
    <3> QED
      BY <3>1, <3>2
  <2> HIDE DEF C, n, x
  <2>9. EndOf(C, h) = n /\ EndOf(C, n) = EndOf(B, h)
    BY <1>1, <1>2, <1>3, <2>1, <2>5, <2>6 DEF EndOf, Header, MallocHeaderSize
  <2>10. \A g \in DOMAIN B \ {h} : EndOf(C, g) = EndOf(B, g)
    BY <2>8 DEF EndOf
  <2>11. ASSUME NEW g \in DOMAIN C
         PROVE  WellLinked(C, mmapSize, g)
    <3>1. CASE g = n
      BY <1>1, <1>2, <1>3, <2>1, <2>3, <2>4, <2>5, <2>6, <2>8, <2>9, <3>1
      DEF IsList, WellFormed, WellLinked, FirstHeader, MmapHeaderSize, MallocHeaderSize
    <3>2. CASE g = h
      <4>1. WellLinked(B, mmapSize, h) /\ B[h].prev # h
        BY <1>1, <1>2 DEF IsList, WellFormed, WellLinked, EndOf, Header, MallocHeaderSize,
           FirstHeader, MmapHeaderSize
      <4>2. EndOf(C, h) <= mmapSize /\ FirstHeader <= h
        BY <1>1, <1>2, <1>3, <2>1, <2>9, <4>1 DEF WellLinked, EndOf, Header, MallocHeaderSize
      <4>3. B[h].prev # NULL => /\ B[h].prev \in DOMAIN C
                                /\ C[B[h].prev].next = h
        BY <2>4, <2>8, <4>1 DEF WellLinked
      <4> QED
        BY <1>1, <1>2, <1>3, <2>1, <2>4, <2>5, <2>6, <2>9, <3>2, <4>1, <4>2, <4>3
        DEF WellLinked, MallocHeaderSize
    <3>3. CASE g \in DOMAIN B \ {h}
      <4>1. WellLinked(B, mmapSize, g) /\ WellLinked(B, mmapSize, h)
        BY <1>1, <3>3 DEF IsList, WellFormed
      <4>2. g \in Nat /\ B[g] \in Header
        BY <3>3 DEF IsList
      <4>3. B[g].next # h \/ C[h].prev = g
        BY <1>1, <1>2, <2>6, <4>1, <4>2 DEF WellLinked, FirstHeader, MmapHeaderSize
      <4>4. B[g].next # x \/ x = NULL
        BY <1>1, <2>3, <3>3, <4>1 DEF WellLinked
      <4>5. g # n /\ g # h
        BY <2>2, <3>3
      <4>6. FirstHeader <= g /\ EndOf(C, g) <= mmapSize
        BY <2>10, <3>3, <4>1 DEF WellLinked
      <4>7. /\ C[g].prev = NULL => g = FirstHeader
            /\ C[g].prev # NULL => /\ C[g].prev \in DOMAIN C
                                   /\ C[C[g].prev].next = g
        <5>1. CASE g = x
          BY <1>1, <1>2, <1>3, <2>1, <2>4, <2>5, <2>8, <3>3, <5>1
          DEF MallocHeaderSize
        <5>2. CASE g # x
          BY <2>3, <2>4, <2>8, <3>3, <4>1, <5>2 DEF WellLinked
        <5> QED
          BY <5>1, <5>2
      <4>8. /\ C[g].next = NULL => EndOf(C, g) = mmapSize
            /\ C[g].next # NULL => /\ C[g].next \in DOMAIN C
                                   /\ C[g].next = EndOf(C, g)
                                   /\ C[C[g].next].prev = g
        BY <2>4, <2>6, <2>8, <2>10, <3>3, <4>1, <4>3, <4>4 DEF WellLinked
      <4> QED
        BY <4>6, <4>7, <4>8 DEF WellLinked
    <3> QED
      BY <2>4, <3>1, <3>2, <3>3
  <2>12. Apart(C)
    <3> SUFFICES ASSUME NEW f \in DOMAIN C, NEW g \in DOMAIN C, f < g
                 PROVE  EndOf(C, f) <= g
      BY DEF Apart
    <3>1. \A e \in DOMAIN B : e \in Nat /\ EndOf(B, e) \in Nat
      BY <1>2 DEF IsList, EndOf, Header, MallocHeaderSize
    <3>2. \A d, e \in DOMAIN B : d < e => EndOf(B, d) <= e
      BY DEF IsList, WellFormed, Apart
    <3>3. \A d \in DOMAIN B : d < n => d = h \/ EndOf(B, d) <= h
      BY <1>1, <1>2, <1>3, <2>1, <3>1, <3>2, <2>2 DEF EndOf, Header, MallocHeaderSize
    <3>4. CASE f = n
      BY <1>1, <1>2, <1>3, <2>1, <2>4, <2>9, <3>1, <3>2, <3>4 DEF MallocHeaderSize
    <3>5. CASE g = n
      BY <1>1, <1>2, <1>3, <2>1, <2>4, <2>9, <2>10, <3>1, <3>3, <3>5 DEF MallocHeaderSize
    <3>6. CASE f = h /\ g # n
      BY <1>1, <1>2, <1>3, <2>1, <2>4, <2>9, <3>1, <3>2, <3>6 DEF MallocHeaderSize
    <3>7. CASE f # h /\ f # n /\ g # n
      BY <2>4, <2>10, <3>2, <3>7
    <3> QED
      BY <3>4, <3>5, <3>6, <3>7
  <2>13. IsList(C, mmapSize)
    <3>1. FirstHeader \in DOMAIN C /\ C[FirstHeader].prev = NULL
      <4>1. FirstHeader \in DOMAIN B /\ B[FirstHeader].prev = NULL
        BY DEF IsList, WellFormed
      <4>2. h < EndOf(B, h) /\ FirstHeader <= h
        BY <1>1, <1>2 DEF IsList, WellFormed, WellLinked, EndOf, Header, MallocHeaderSize
      <4>3. FirstHeader # x
        BY <1>1, <1>2, <2>3, <4>2 DEF FirstHeader, MmapHeaderSize
      <4> QED
        BY <2>4, <2>6, <2>8, <4>1, <4>3
    <3> QED
      BY <2>1, <2>4, <2>8, <2>11, <2>12, <3>1 DEF IsList, WellFormed
  <2> QED
    BY <1>3, <2>4, <2>5, <2>6, <2>8, <2>13, <1>1 DEF Unchanged, C
<1> QED
  BY <1>4, <1>5

--------------------------------------------------------------------------------
(* One block swallows the next: the list stays well formed, the swallowed  *)
(* header disappears, every other block keeps its size and status.         *)
LEMMA AbsorbIsList ==
  ASSUME NEW B, NEW mmapSize \in Nat, IsList(B, mmapSize),
         NEW h \in DOMAIN B, NEW n, n = B[h].next, n # NULL
  PROVE  LET C == Absorb(B, h, n) IN
         /\ IsList(C, mmapSize)
         /\ n \in DOMAIN B /\ n # h /\ DOMAIN C = DOMAIN B \ {n}
         /\ C[h].status = B[h].status /\ C[h].prev = B[h].prev
         /\ \A g \in DOMAIN B \ {h, n} : Unchanged(B, C, g)
<1> DEFINE C == Absorb(B, h, n)
           x == B[n].next
<1> USE DEF NULL
<1>1. PageSize \in Nat /\ PageSize > 0
  BY PageSizeAssumption
<1>2. /\ h \in Nat /\ B[h] \in Header
      /\ n \in DOMAIN B /\ n \in Nat /\ B[n] \in Header
      /\ n = EndOf(B, h) /\ B[n].prev = h
  BY DEF IsList, WellFormed, WellLinked
<1>3. h + MallocHeaderSize <= n /\ n + MallocHeaderSize <= EndOf(B, n)
  BY <1>1, <1>2 DEF EndOf, Header, MallocHeaderSize
<1>4. n # h /\ n # FirstHeader /\ h < n
  BY <1>1, <1>2, <1>3
  DEF IsList, WellFormed, WellLinked, MallocHeaderSize, FirstHeader, MmapHeaderSize
<1>5. /\ x = B[n].next
      /\ x # NULL => x \in DOMAIN B /\ x # h /\ x # n /\ x = EndOf(B, n) /\ B[x].prev = n
  BY <1>1, <1>2, <1>3 DEF IsList, WellFormed, WellLinked, MallocHeaderSize
<1>6. DOMAIN C = DOMAIN B \ {n}
  BY DEF Absorb
<1>7. C[h] = [size   |-> B[h].size + B[n].size + MallocHeaderSize,
              status |-> B[h].status, prev |-> B[h].prev, next |-> x]
  BY <1>4, <1>6 DEF Absorb
<1>8. \A g \in DOMAIN B \ {h, n} :
        C[g] = IF g = x THEN [B[g] EXCEPT !.prev = h] ELSE B[g]
  BY <1>6 DEF Absorb
<1>9. /\ C[h] \in Header
      /\ C[h].size = B[h].size + B[n].size + MallocHeaderSize
      /\ C[h].next = x /\ C[h].prev = B[h].prev /\ C[h].status = B[h].status
  BY <1>1, <1>2, <1>7 DEF Header, MallocHeaderSize
<1>10. ASSUME NEW g \in DOMAIN B \ {h, n}
       PROVE  /\ C[g] \in Header
              /\ C[g].size = B[g].size
              /\ C[g].status = B[g].status
              /\ C[g].next = B[g].next
              /\ C[g].prev = IF g = x THEN h ELSE B[g].prev
  <2>1. B[g] \in Header /\ h \in Nat
    BY <1>2 DEF IsList, WellFormed
  <2>2. CASE g # x
    BY <1>8, <2>1, <2>2
  <2>3. CASE g = x
    <3> DEFINE r == [B[g] EXCEPT !.prev = h]
    <3>1. C[g] = r
      BY <1>8, <2>3
    <3>2. r \in Header
      BY <2>1 DEF Header
    <3>3. /\ r.size = B[g].size /\ r.status = B[g].status
          /\ r.next = B[g].next /\ r.prev = h
      BY <2>1 DEF Header
    <3> HIDE DEF r
    <3> QED
      BY <2>3, <3>1, <3>2, <3>3
  <2> QED
    BY <2>2, <2>3
<1> HIDE DEF C, x
<1>11. EndOf(C, h) = EndOf(B, n)
  BY <1>1, <1>2, <1>9 DEF EndOf, Header, MallocHeaderSize
<1>12. \A g \in DOMAIN B \ {h, n} : EndOf(C, g) = EndOf(B, g)
  BY <1>10 DEF EndOf
<1>13. \A g \in DOMAIN B : WellLinked(B, mmapSize, g)
  BY DEF IsList, WellFormed
<1>14. \A g \in DOMAIN B \ {h} : B[g].next # n
  BY <1>2, <1>4, <1>13 DEF WellLinked
<1>15. \A g \in DOMAIN B \ {x} : B[g].prev # n
  BY <1>2, <1>5, <1>13 DEF WellLinked
<1>16. ASSUME NEW g \in DOMAIN C
       PROVE  WellLinked(C, mmapSize, g)
  <2>1. CASE g = h
    <3>1. FirstHeader <= h /\ EndOf(C, h) <= mmapSize
      BY <1>2, <1>11, <1>13 DEF WellLinked
    <3>2. /\ B[h].prev = NULL => h = FirstHeader
          /\ B[h].prev # NULL => /\ B[h].prev \in DOMAIN C
                                 /\ C[B[h].prev].next = h
      BY <1>2, <1>4, <1>5, <1>6, <1>9, <1>10, <1>13, <1>15 DEF WellLinked
    <3>3. /\ x = NULL => EndOf(C, h) = mmapSize
          /\ x # NULL => /\ x \in DOMAIN C
                         /\ x = EndOf(C, h)
                         /\ C[x].prev = h
      BY <1>2, <1>5, <1>6, <1>10, <1>11, <1>13 DEF WellLinked
    <3> QED
      BY <1>9, <2>1, <3>1, <3>2, <3>3 DEF WellLinked
  <2>2. CASE g # h
    <3>1. g \in DOMAIN B \ {h, n}
      BY <1>6, <2>2
    <3>2. FirstHeader <= g /\ EndOf(C, g) <= mmapSize
      BY <1>12, <1>13, <3>1 DEF WellLinked
    <3>3. /\ C[g].prev = NULL => g = FirstHeader
          /\ C[g].prev # NULL => /\ C[g].prev \in DOMAIN C
                                 /\ C[C[g].prev].next = g
      <4>1. CASE g = x
        <5>1. h # 0
          BY <1>1, <1>13 DEF WellLinked, FirstHeader, MmapHeaderSize
        <5> QED
          BY <1>4, <1>6, <1>9, <1>10, <3>1, <4>1, <5>1
      <4>2. CASE g # x
        <5>1. B[g].prev = h => FALSE
          BY <1>2, <1>13, <3>1 DEF WellLinked
        <5> QED
          BY <1>6, <1>10, <1>13, <1>15, <3>1, <4>2, <5>1 DEF WellLinked
      <4> QED
        BY <4>1, <4>2
    <3>4. /\ C[g].next = NULL => EndOf(C, g) = mmapSize
          /\ C[g].next # NULL => /\ C[g].next \in DOMAIN C
                                 /\ C[g].next = EndOf(C, g)
                                 /\ C[C[g].next].prev = g
      <4>1. B[g].next # NULL => B[g].next # x
        BY <1>2, <1>5, <1>13, <3>1 DEF WellLinked
      <4> QED
        BY <1>4, <1>6, <1>9, <1>10, <1>12, <1>13, <1>14, <3>1, <4>1 DEF WellLinked
    <3> QED
      BY <3>2, <3>3, <3>4 DEF WellLinked
  <2> QED
    BY <2>1, <2>2
<1>17. Apart(C)
  <2> SUFFICES ASSUME NEW f \in DOMAIN C, NEW g \in DOMAIN C, f < g
               PROVE  EndOf(C, f) <= g
    BY DEF Apart
  <2>1. \A d, e \in DOMAIN B : d < e => EndOf(B, d) <= e
    BY DEF IsList, WellFormed, Apart
  <2>2. CASE f = h
    <3>1. g \in DOMAIN B /\ g \in Nat /\ g # n
      BY <1>6 DEF IsList
    <3>2. n < g
      BY <1>2, <2>1, <2>2, <3>1
    <3> QED
      BY <1>2, <1>11, <2>1, <2>2, <3>1, <3>2
  <2>3. CASE f # h
    BY <1>6, <1>12, <2>1, <2>3
  <2> QED
    BY <2>2, <2>3
<1>18. IsList(C, mmapSize)
  <2>1. FirstHeader \in DOMAIN C /\ C[FirstHeader].prev = NULL
    <3>1. FirstHeader \in DOMAIN B /\ B[FirstHeader].prev = NULL
      BY DEF IsList, WellFormed
    <3>2. FirstHeader # x \/ x = NULL
      BY <1>1, <1>2, <1>5, <3>1 DEF FirstHeader, MmapHeaderSize, EndOf
    <3>3. FirstHeader # NULL
      BY <1>1 DEF FirstHeader, MmapHeaderSize
    <3> QED
      BY <1>4, <1>6, <1>9, <1>10, <3>1, <3>2, <3>3
  <2>2. DOMAIN C \subseteq Nat /\ \A g \in DOMAIN C : C[g] \in Header
    BY <1>6, <1>9, <1>10 DEF IsList
  <2> QED
    BY <1>16, <1>17, <2>1, <2>2 DEF IsList, WellFormed
<1> QED
  BY <1>2, <1>4, <1>6, <1>9, <1>10, <1>18 DEF Unchanged, C

--------------------------------------------------------------------------------
(* Marking a block free changes nothing else.                              *)
LEMMA MarkFreeIsList ==
  ASSUME NEW B, NEW mmapSize \in Nat, IsList(B, mmapSize), NEW h \in DOMAIN B
  PROVE  LET C == MarkFree(B, h) IN
         /\ IsList(C, mmapSize)
         /\ DOMAIN C = DOMAIN B
         /\ C[h].status = FREE
         /\ \A g \in DOMAIN B : /\ C[g].prev = B[g].prev /\ C[g].next = B[g].next
                                /\ C[g].size = B[g].size
                                /\ g # h => C[g].status = B[g].status
<1> DEFINE C == MarkFree(B, h)
<1>1. /\ DOMAIN C = DOMAIN B
      /\ \A g \in DOMAIN B : /\ C[g].size = B[g].size
                             /\ C[g].prev = B[g].prev
                             /\ C[g].next = B[g].next
                             /\ C[g] \in Header
                             /\ g # h => C[g] = B[g]
      /\ C[h].status = FREE
  BY DEF MarkFree, IsList, Header, FREE, BUSY
<1>2. IsList(C, mmapSize)
  BY <1>1 DEF IsList, WellFormed, WellLinked, Apart, EndOf
<1> QED
  BY <1>1, <1>2

(* vgc_free on block h: the list stays well formed, the other busy blocks  *)
(* are as they were, and no busy block but h comes from nowhere.           *)
LEMMA FreeBlockIsList ==
  ASSUME NEW B, NEW mmapSize \in Nat, IsList(B, mmapSize), NEW h \in DOMAIN B
  PROVE  LET C == FreeBlock(B, h) IN
         /\ IsList(C, mmapSize)
         /\ DOMAIN C \subseteq DOMAIN B
         /\ \A g \in DOMAIN B \ {h} : B[g].status = BUSY => Unchanged(B, C, g)
         /\ \A g \in DOMAIN C : C[g].status = BUSY => g # h /\ B[g].status = BUSY
         /\ \E f \in DOMAIN C : C[f].status = FREE
<1> DEFINE M == MarkFree(B, h)
           N == FreeBlocksNext(M, h)
           C == FreeBlocksPrev(N, h)
<1> USE DEF FREE, BUSY
<1>1. /\ IsList(M, mmapSize) /\ DOMAIN M = DOMAIN B /\ M[h].status = FREE
      /\ \A g \in DOMAIN B \ {h} : Unchanged(B, M, g)
  BY MarkFreeIsList DEF Unchanged
<1>2. /\ IsList(N, mmapSize) /\ DOMAIN N \subseteq DOMAIN M
      /\ h \in DOMAIN N /\ N[h].status = FREE
      /\ \A g \in DOMAIN M \ {h} : M[g].status = BUSY => Unchanged(M, N, g)
      /\ \A g \in DOMAIN N : N[g].status = BUSY => M[g].status = BUSY
  <2>1. CASE NextIsFree(M, h)
    <3> DEFINE n == M[h].next
    <3>1. N = Absorb(M, h, n) /\ n # NULL /\ M[n].status = FREE
      BY <2>1 DEF FreeBlocksNext, NextIsFree
    <3>2. /\ IsList(N, mmapSize)
          /\ n \in DOMAIN M /\ n # h /\ DOMAIN N = DOMAIN M \ {n}
          /\ N[h].status = M[h].status
          /\ \A g \in DOMAIN M \ {h, n} : Unchanged(M, N, g)
      <4> HIDE DEF M, N, n
      <4>1. h \in DOMAIN M /\ n = M[h].next
        BY <1>1 DEF n
      <4> QED
        BY <1>1, <3>1, <4>1, AbsorbIsList
    <3> QED
      BY <1>1, <3>1, <3>2 DEF Unchanged
  <2>2. CASE ~NextIsFree(M, h)
    BY <1>1, <2>2 DEF FreeBlocksNext, Unchanged
  <2> QED
    BY <2>1, <2>2
<1>3. /\ IsList(C, mmapSize) /\ DOMAIN C \subseteq DOMAIN N
      /\ \A g \in DOMAIN N \ {h} : N[g].status = BUSY => Unchanged(N, C, g)
      /\ \A g \in DOMAIN C : C[g].status = BUSY => N[g].status = BUSY
      /\ \E f \in DOMAIN C : C[f].status = FREE
  <2>1. CASE PrevIsFree(N, h)
    <3> DEFINE p == N[h].prev
    <3> HIDE DEF M, N, C
    <3>1. C = Absorb(N, p, h) /\ p # NULL /\ N[p].status = FREE
      BY <2>1 DEF FreeBlocksPrev, PrevIsFree, C
    <3>2. p \in DOMAIN N /\ h = N[p].next /\ h # NULL
      BY <1>2, <3>1, PageSizeAssumption
      DEF IsList, WellFormed, WellLinked, FirstHeader, MmapHeaderSize, NULL
    <3>3. /\ IsList(C, mmapSize)
          /\ h # p /\ DOMAIN C = DOMAIN N \ {h}
          /\ C[p].status = N[p].status
          /\ \A g \in DOMAIN N \ {p, h} : Unchanged(N, C, g)
      <4> HIDE DEF p
      <4>1. IsList(N, mmapSize)
        BY <1>2
      <4>2. /\ IsList(Absorb(N, p, h), mmapSize)
            /\ h # p /\ DOMAIN Absorb(N, p, h) = DOMAIN N \ {h}
            /\ Absorb(N, p, h)[p].status = N[p].status
            /\ \A g \in DOMAIN N \ {p, h} : Unchanged(N, Absorb(N, p, h), g)
        BY ONLY <4>1, <3>2, AbsorbIsList
      <4> QED
        BY <3>1, <4>2
    <3> HIDE DEF p
    <3>4. ASSUME NEW g \in DOMAIN N \ {h}, N[g].status = BUSY
          PROVE  Unchanged(N, C, g)
      BY <3>1, <3>3, <3>4
    <3>5. ASSUME NEW g \in DOMAIN C, C[g].status = BUSY
          PROVE  N[g].status = BUSY
      BY <3>3, <3>5 DEF Unchanged
    <3>6. p \in DOMAIN C /\ C[p].status = FREE
      BY <3>1, <3>2, <3>3
    <3> QED
      BY <3>3, <3>4, <3>5, <3>6
  <2>2. CASE ~PrevIsFree(N, h)
    BY <1>2, <2>2 DEF FreeBlocksPrev, Unchanged
  <2> QED
    BY <2>1, <2>2
<1>4. FreeBlock(B, h) = C
  BY DEF FreeBlock
<1> HIDE DEF M, N, C
<1> QED
  BY <1>1, <1>2, <1>3, <1>4 DEF Unchanged

(* When one block is left on the list, no other was busy.                  *)
LEMMA AllFree ==
  ASSUME NEW B, NEW mmapSize \in Nat, IsList(B, mmapSize), NEW h \in DOMAIN B,
         FreeBlock(B, h)[FirstHeader].next = NULL
  PROVE  \A g \in DOMAIN B \ {h} : B[g].status # BUSY
<1> DEFINE C == FreeBlock(B, h)
<1>1. /\ IsList(C, mmapSize)
      /\ \A g \in DOMAIN B \ {h} : B[g].status = BUSY => Unchanged(B, C, g)
      /\ \E f \in DOMAIN C : C[f].status = FREE
  BY FreeBlockIsList
<1>2. C[FirstHeader].next = NULL
  OBVIOUS
<1> HIDE DEF C
<1>3. DOMAIN C = {FirstHeader}
  <2>1. /\ FirstHeader \in DOMAIN C /\ FirstHeader \in Nat
        /\ EndOf(C, FirstHeader) = mmapSize
    BY <1>1, <1>2 DEF IsList, WellFormed, WellLinked
  <2>2. ASSUME NEW g \in DOMAIN C, g # FirstHeader
        PROVE  FALSE
    <3>1. /\ g \in Nat /\ FirstHeader < g
          /\ EndOf(C, FirstHeader) <= g /\ EndOf(C, g) <= mmapSize
          /\ C[g] \in Header
      BY <1>1, <2>1, <2>2 DEF IsList, WellFormed, WellLinked, Apart
    <3> QED
      BY <2>1, <3>1, PageSizeAssumption DEF EndOf, Header, MallocHeaderSize
  <2> QED
    BY <2>1, <2>2
<1>4. SUFFICES ASSUME NEW g \in DOMAIN B \ {h}, B[g].status = BUSY
               PROVE  FALSE
  OBVIOUS
<1>5. g = FirstHeader /\ C[g].status = BUSY
  BY <1>1, <1>3, <1>4 DEF Unchanged
<1> QED
  BY <1>1, <1>3, <1>5 DEF FREE, BUSY

--------------------------------------------------------------------------------
(* Multiples of the page. *)
(* Headers lie at the starts of pages. *)
Multiple(x) == \E k \in 0 .. x : x = k * PageSize

LEMMA MultipleOf ==
  ASSUME NEW k \in Nat
  PROVE  k * PageSize \in Nat /\ k <= k * PageSize /\ Multiple(k * PageSize)
<1>1. k * PageSize \in Nat /\ k <= k * PageSize
  BY PageSizeAssumption
<1> QED
  BY <1>1 DEF Multiple

LEMMA MultipleIs ==
  ASSUME NEW x \in Nat, x % PageSize = 0
  PROVE  Multiple(x)
<1>1. x \div PageSize \in Nat /\ x = (x \div PageSize) * PageSize
  BY PageSizeAssumption
<1> QED
  BY <1>1, MultipleOf

LEMMA MultipleSum ==
  ASSUME NEW x \in Nat, NEW y \in Nat, Multiple(x), Multiple(y)
  PROVE  Multiple(x + y)
<1>1. PICK k \in 0 .. x, l \in 0 .. y : x = k * PageSize /\ y = l * PageSize
  BY DEF Multiple
<1>2. (k + l) * PageSize = k * PageSize + l * PageSize
  BY PageSizeAssumption
<1>3. k + l \in Nat
  OBVIOUS
<1> QED
  BY <1>1, <1>2, <1>3, MultipleOf

LEMMA MultipleDifference ==
  ASSUME NEW x \in Nat, NEW y \in Nat, y <= x, Multiple(x), Multiple(y)
  PROVE  Multiple(x - y)
<1>1. PICK k \in 0 .. x, l \in 0 .. y : x = k * PageSize /\ y = l * PageSize
  BY DEF Multiple
<1>2. l <= k
  <2> SUFFICES ASSUME k < l PROVE FALSE
    OBVIOUS
  <2>1. PICK d \in Nat : l = k + d + 1
    <3>1. l - k - 1 \in Nat /\ l = k + (l - k - 1) + 1
      OBVIOUS
    <3> QED
      BY <3>1
  <2>2. l * PageSize = k * PageSize + (d + 1) * PageSize
    BY <2>1, PageSizeAssumption
  <2>3. (d + 1) * PageSize > 0
    BY MultipleOf, <2>1
  <2> QED
    BY <1>1, <2>2, <2>3, PageSizeAssumption
<1>3. (k - l) * PageSize = k * PageSize - l * PageSize
  BY PageSizeAssumption
<1>4. k - l \in Nat
  BY <1>2
<1> QED
  BY <1>1, <1>3, <1>4, MultipleOf

LEMMA MultipleHeaders == Multiple(MallocHeaderSize) /\ Multiple(FirstHeader)
<1>1. Multiple(2 * PageSize) /\ Multiple(1 * PageSize) /\ 1 * PageSize = PageSize
  BY MultipleOf, PageSizeAssumption
<1> QED
  BY <1>1 DEF MallocHeaderSize, FirstHeader, MmapHeaderSize

LEMMA RoundUpMultiple ==
  ASSUME NEW length \in Nat
  PROVE  Multiple(RoundUp(length))
<1>1. length \div PageSize \in Nat
  BY PageSizeAssumption
<1>2. length % PageSize = 0 => length = (length \div PageSize) * PageSize
  BY PageSizeAssumption
<1>3. length \div PageSize + 1 \in Nat
  BY <1>1
<1> QED
  BY <1>1, <1>2, <1>3, MultipleOf DEF RoundUp

(* What is rounded up does not get past a page that was not passed before. *)
LEMMA RoundUpBelow ==
  ASSUME NEW x \in Nat, NEW y \in Nat, x <= y, Multiple(y)
  PROVE  RoundUp(x) <= y
<1>1. CASE x % PageSize = 0
  BY <1>1 DEF RoundUp
<1>2. CASE x % PageSize # 0
  <2>1. PICK q, r : q = x \div PageSize /\ r = x % PageSize
    OBVIOUS
  <2>2. q \in Nat /\ r \in Nat /\ r > 0 /\ x = q * PageSize + r
    BY <1>2, <2>1, PageSizeAssumption
  <2>3. Multiple((q + 1) * PageSize) /\ (q + 1) * PageSize \in Nat
    BY <2>2, MultipleOf
  <2>4. PICK k \in Nat : y = k * PageSize
    BY DEF Multiple
  <2>5. q < k
    <3> SUFFICES ASSUME k <= q PROVE FALSE
      BY <2>2
    <3>1. q - k \in Nat
      BY <2>2
    <3>2. q * PageSize = k * PageSize + (q - k) * PageSize
      BY <2>2, PageSizeAssumption
    <3>3. (q - k) * PageSize \in Nat
      BY <3>1, MultipleOf
    <3> QED
      BY <2>2, <2>4, <3>2, <3>3, PageSizeAssumption
  <2>6. k - (q + 1) \in Nat
    BY <2>2, <2>5
  <2>7. k * PageSize = (q + 1) * PageSize + (k - (q + 1)) * PageSize
    BY <2>2, PageSizeAssumption
  <2>8. (k - (q + 1)) * PageSize \in Nat
    BY <2>6, MultipleOf
  <2>9. (q + 1) * PageSize <= y
    BY <2>3, <2>4, <2>7, <2>8
  <2> QED
    BY <1>2, <2>1, <2>9 DEF RoundUp
<1> QED
  BY <1>1, <1>2

--------------------------------------------------------------------------------
(* What the steps do to links, status and headers. *)
Busy(B) == {h \in DOMAIN B : B[h].status = BUSY}

(* A well-formed list passes checkMmapBlock.                               *)
LEMMA ListPasses ==
  ASSUME NEW B, NEW mmapSize \in Nat, IsList(B, mmapSize),
         NEW mmapBlockSize \in Nat, mmapSize <= mmapBlockSize
  PROVE  CheckMmapBlock(B, mmapSize, mmapBlockSize)
  BY PageSizeAssumption
  DEF IsList, WellFormed, WellLinked, EndOf, CheckMmapBlock, Header, MaxSize,
      FirstHeader, MmapHeaderSize, MallocHeaderSize

(* The links of neighbours, as the proofs below use them.                  *)
LEMMA Neighbours ==
  ASSUME NEW B, NEW mmapSize \in Nat, IsList(B, mmapSize), NEW h \in DOMAIN B
  PROVE  /\ h \in Nat /\ h # NULL /\ B[h].status \in {FREE, BUSY}
         /\ B[h].next # NULL =>
              B[h].next \in DOMAIN B /\ B[B[h].next].prev = h /\ B[h].next > h
         /\ B[h].prev # NULL =>
              B[h].prev \in DOMAIN B /\ B[B[h].prev].next = h /\ B[h].prev < h
<1>1. \A g \in DOMAIN B : g \in Nat /\ B[g] \in Header /\ EndOf(B, g) > g
  BY PageSizeAssumption DEF IsList, EndOf, Header, MallocHeaderSize
<1>2. h \in Nat /\ h # NULL /\ B[h].status \in {FREE, BUSY}
  BY <1>1, PageSizeAssumption
  DEF IsList, WellFormed, WellLinked, Header, FirstHeader, MmapHeaderSize, NULL
<1>3. B[h].next # NULL =>
        B[h].next \in DOMAIN B /\ B[B[h].next].prev = h /\ B[h].next > h
  BY <1>1 DEF IsList, WellFormed, WellLinked
<1>4. B[h].prev # NULL => B[h].prev \in DOMAIN B /\ B[B[h].prev].next = h
  BY DEF IsList, WellFormed, WellLinked
<1>5. B[h].prev # NULL => h = EndOf(B, B[h].prev)
  BY <1>2, <1>4 DEF IsList, WellFormed, WellLinked
<1> QED
  BY <1>1, <1>2, <1>3, <1>4, <1>5

(* What allocMallocBlock does to the block it takes, to the header it adds *)
(* and to the others.                                                      *)
LEMMA AllocBlockFields ==
  ASSUME NEW B, NEW mmapSize \in Nat, IsList(B, mmapSize),
         NEW length \in Nat, NEW h \in Fits(B, length)
  PROVE  LET C == AllocBlock(B, h, length)
             n == Remainder(h, length) IN
         /\ \A g \in DOMAIN B \ {h} : C[g].status = B[g].status /\ C[g].next = B[g].next
         /\ C[h].status = BUSY
         /\ Splits(B, h, length) =>
              /\ n \notin DOMAIN B /\ DOMAIN C = DOMAIN B \cup {n}
              /\ C[n].status = FREE /\ C[n].next = B[h].next /\ C[h].next = n
         /\ ~Splits(B, h, length) => DOMAIN C = DOMAIN B /\ C[h].next = B[h].next
<1> DEFINE C == AllocBlock(B, h, length)
           n == Remainder(h, length)
<1>1. /\ h \in DOMAIN B /\ h \in Nat /\ B[h] \in Header
      /\ \A g \in DOMAIN B : B[g] \in Header
  BY DEF Fits, IsList
<1>2. CASE ~Splits(B, h, length)
  BY <1>1, <1>2 DEF AllocBlock, Header
<1>3. CASE Splits(B, h, length)
  <2>1. RoundUp(length) \in Nat
    BY RoundUpBounds
  <2>2. n \in Nat /\ h < n /\ n < EndOf(B, h)
    BY <1>1, <1>3, <2>1, PageSizeAssumption
    DEF Splits, Remainder, EndOf, Header, MallocHeaderSize
  <2>3. n \notin DOMAIN B
    <3>1. EndOf(B, h) \in Nat
      BY <1>1, PageSizeAssumption DEF EndOf, Header, MallocHeaderSize
    <3>2. n \in DOMAIN B => EndOf(B, h) <= n
      BY <1>1, <2>2 DEF IsList, WellFormed, Apart
    <3> QED
      BY <2>2, <3>1, <3>2
  <2>4. C = [g \in DOMAIN B \cup {n} |->
          IF g = n THEN [size   |-> B[h].size - (RoundUp(length) + MallocHeaderSize),
                         status |-> FREE, prev |-> h, next |-> B[h].next]
          ELSE IF g = h THEN [size   |-> RoundUp(length),
                              status |-> BUSY, prev |-> B[h].prev, next |-> n]
          ELSE IF g = B[h].next THEN [B[g] EXCEPT !.prev = n]
          ELSE B[g]]
    BY <1>3 DEF AllocBlock
  <2> HIDE DEF C, n
  <2>5. \A g \in DOMAIN B \ {h} : C[g].status = B[g].status /\ C[g].next = B[g].next
    BY <1>1, <2>3, <2>4 DEF Header
  <2>6. /\ DOMAIN C = DOMAIN B \cup {n}
        /\ C[n].status = FREE /\ C[n].next = B[h].next
        /\ C[h].next = n /\ C[h].status = BUSY
    BY <1>1, <2>3, <2>4
  <2> QED
    BY <1>3, <2>3, <2>5, <2>6 DEF C, n
<1> QED
  BY <1>2, <1>3

(* vgc_malloc leaves free neighbours joined.                               *)
LEMMA AllocBlockJoined ==
  ASSUME NEW B, NEW mmapSize \in Nat, IsList(B, mmapSize), Coalesced(B),
         NEW length \in Nat, NEW h \in Fits(B, length)
  PROVE  Coalesced(AllocBlock(B, h, length))
<1> DEFINE C == AllocBlock(B, h, length)
           n == Remainder(h, length)
<1>1. h \in DOMAIN B /\ B[h].status = FREE
  BY DEF Fits
<1>2. /\ \A g \in DOMAIN B \ {h} : C[g].status = B[g].status /\ C[g].next = B[g].next
      /\ C[h].status = BUSY
      /\ Splits(B, h, length) =>
           /\ n \notin DOMAIN B /\ DOMAIN C = DOMAIN B \cup {n}
           /\ C[n].status = FREE /\ C[n].next = B[h].next /\ C[h].next = n
      /\ ~Splits(B, h, length) => DOMAIN C = DOMAIN B /\ C[h].next = B[h].next
  BY AllocBlockFields
<1> USE DEF FREE, BUSY
<1> HIDE DEF C, n
<1>3. ASSUME NEW g \in DOMAIN B \ {h}, C[g].status = FREE PROVE ~NextIsFree(C, g)
  <2>1. B[g].next # NULL => B[g].next \in DOMAIN B
    BY Neighbours
  <2> QED
    BY <1>2, <1>3, <2>1 DEF Coalesced, NextIsFree
<1>4. ASSUME C[n].status = FREE, C[n].next = B[h].next PROVE ~NextIsFree(C, n)
  <2>1. B[h].next # NULL => B[h].next \in DOMAIN B \ {h}
    BY <1>1, Neighbours
  <2> QED
    BY <1>1, <1>2, <1>4, <2>1 DEF Coalesced, NextIsFree
<1>5. Coalesced(C)
  BY <1>2, <1>3, <1>4 DEF Coalesced
<1> QED
  BY <1>5 DEF C

(* What a join leaves of the links: the swallowed block's next is now the  *)
(* next of the block that grew.                                            *)
LEMMA AbsorbFields ==
  ASSUME NEW B, NEW mmapSize \in Nat, IsList(B, mmapSize),
         NEW h \in DOMAIN B, NEW n, n = B[h].next, n # NULL
  PROVE  /\ DOMAIN Absorb(B, h, n) = DOMAIN B \ {n}
         /\ Absorb(B, h, n)[h].next = B[n].next
         /\ \A g \in DOMAIN Absorb(B, h, n) :
              /\ Absorb(B, h, n)[g].status = B[g].status
              /\ g # h => Absorb(B, h, n)[g].next = B[g].next
<1> DEFINE C == Absorb(B, h, n)
<1>1. n \in DOMAIN B /\ n > h /\ h \in Nat /\ n # h
  BY Neighbours
<1>2. \A g \in DOMAIN B : B[g] \in Header
  BY DEF IsList
<1>3. B[n].next # NULL => B[n].next > n /\ B[n].next \in DOMAIN B
  BY <1>1, Neighbours
<1>4. n \in Nat /\ B[n].next \in Nat /\ B[n].next # h
  BY <1>1, <1>2, <1>3, Neighbours DEF Header, IsList
<1>5. DOMAIN C = DOMAIN B \ {n} /\ h \in DOMAIN C
  BY <1>1 DEF Absorb
<1>6. /\ C[h].next = B[n].next /\ C[h].status = B[h].status /\ C[h].prev = B[h].prev
  BY <1>5 DEF Absorb
<1>7. ASSUME NEW g \in DOMAIN B \ {n, h}
      PROVE  C[g].status = B[g].status /\ C[g].next = B[g].next
  BY <1>2, <1>5 DEF Absorb, Header
<1> QED
  BY <1>1, <1>4, <1>5, <1>6, <1>7

(* vgc_free of a busy block joins it with its free neighbours, and makes   *)
(* no others.                                                              *)
LEMMA FreeBlockJoined ==
  ASSUME NEW B, NEW mmapSize \in Nat, IsList(B, mmapSize), Coalesced(B),
         NEW h \in DOMAIN B, B[h].status = BUSY
  PROVE  Coalesced(FreeBlock(B, h))
<1> DEFINE M == MarkFree(B, h)
           N == FreeBlocksNext(M, h)
           C == FreeBlocksPrev(N, h)
<1> USE DEF FREE, BUSY
<1>1. /\ IsList(M, mmapSize) /\ DOMAIN M = DOMAIN B /\ M[h].status = FREE
      /\ \A g \in DOMAIN B : /\ M[g].prev = B[g].prev /\ M[g].next = B[g].next
                             /\ g # h => M[g].status = B[g].status
  BY MarkFreeIsList
<1> HIDE DEF M
\* Of M, only h may have a free neighbour.
<1>2. ASSUME NEW g \in DOMAIN M \ {h}, M[g].status = FREE, M[g].next # h
      PROVE  ~NextIsFree(M, g)
  <2>1. M[g].next # NULL => M[g].next \in DOMAIN B
    BY <1>1, Neighbours
  <2> QED
    BY <1>1, <1>2, <2>1 DEF Coalesced, NextIsFree
<1>3. /\ IsList(N, mmapSize) /\ h \in DOMAIN N /\ N[h].status = FREE
      /\ ~NextIsFree(N, h)
      /\ \A g \in DOMAIN N \ {h} : N[g].status = FREE /\ N[g].next # h => ~NextIsFree(N, g)
  <2>1. CASE NextIsFree(M, h)
    <3> DEFINE n == M[h].next
    <3>1. N = Absorb(M, h, n) /\ n # NULL /\ M[n].status = FREE
      BY <2>1 DEF FreeBlocksNext, NextIsFree
    <3>2. n \in DOMAIN M /\ n > h /\ n # h /\ h \in Nat
      BY <1>1, <3>1, Neighbours
    <3>3. IsList(N, mmapSize)
      <4> HIDE DEF N, n
      <4>1. h \in DOMAIN M /\ n = M[h].next
        BY <1>1 DEF n
      <4> QED
        BY <1>1, <3>1, <4>1, AbsorbIsList
    <3>4. /\ DOMAIN N = DOMAIN M \ {n} /\ N[h].next = M[n].next
          /\ \A g \in DOMAIN N : /\ N[g].status = M[g].status
                                 /\ g # h => N[g].next = M[g].next
      <4> HIDE DEF N, n
      <4>1. IsList(M, mmapSize) /\ h \in DOMAIN M /\ n = M[h].next /\ n # NULL
        BY <1>1, <3>1 DEF n
      <4>2. /\ DOMAIN Absorb(M, h, n) = DOMAIN M \ {n}
            /\ Absorb(M, h, n)[h].next = M[n].next
            /\ \A g \in DOMAIN Absorb(M, h, n) :
                 /\ Absorb(M, h, n)[g].status = M[g].status
                 /\ g # h => Absorb(M, h, n)[g].next = M[g].next
        BY ONLY <4>1, AbsorbFields
      <4> QED
        BY <3>1, <4>2
    <3> HIDE DEF n, N
    <3>5. M[n].next # NULL => M[n].next \in DOMAIN M /\ M[n].next > n
      BY <1>1, <3>2, Neighbours
    <3>6. n \in Nat /\ M[n].next # h
      BY <1>1, <3>2, <3>5, Neighbours DEF IsList
    <3>7. ~NextIsFree(M, n)
      BY <1>2, <3>1, <3>2, <3>6
    <3>8. ~NextIsFree(N, h)
      BY <3>2, <3>4, <3>5, <3>6, <3>7 DEF NextIsFree
    <3>9. ASSUME NEW g \in DOMAIN N \ {h}, N[g].status = FREE, N[g].next # h
          PROVE  ~NextIsFree(N, g)
      <4>1. g \in DOMAIN M /\ M[g].status = FREE /\ N[g].next = M[g].next
        BY <3>4, <3>9
      <4>2. M[g].next # NULL => M[g].next \in DOMAIN M /\ M[M[g].next].prev = g
        BY <1>1, <4>1, Neighbours
      <4>3. M[n].prev = h
        BY <1>1, <3>1, Neighbours DEF n
      <4>4. ~NextIsFree(M, g)
        BY <1>2, <3>9, <4>1
      <4> QED
        BY <3>4, <3>9, <4>1, <4>2, <4>3, <4>4 DEF NextIsFree
    <3> QED
      BY <1>1, <3>2, <3>3, <3>4, <3>8, <3>9
  <2>2. CASE ~NextIsFree(M, h)
    BY <1>1, <1>2, <2>2 DEF FreeBlocksNext
  <2> QED
    BY <2>1, <2>2
<1> HIDE DEF N
<1>4. Coalesced(C)
  <2>1. CASE PrevIsFree(N, h)
    <3> DEFINE p == N[h].prev
    <3>1. C = Absorb(N, p, h) /\ p # NULL /\ N[p].status = FREE
      BY <2>1 DEF FreeBlocksPrev, PrevIsFree
    <3>2. p \in DOMAIN N /\ N[p].next = h /\ p < h /\ h # NULL
      BY <1>3, <3>1, Neighbours
    <3> HIDE DEF p, C
    <3>3. /\ DOMAIN C = DOMAIN N \ {h} /\ C[p].next = N[h].next
          /\ \A g \in DOMAIN C : /\ C[g].status = N[g].status
                                 /\ g # p => C[g].next = N[g].next
      <4>1. IsList(N, mmapSize) /\ p \in DOMAIN N /\ h = N[p].next /\ h # NULL
        BY <1>3, <3>2
      <4>2. /\ DOMAIN Absorb(N, p, h) = DOMAIN N \ {h}
            /\ Absorb(N, p, h)[p].next = N[h].next
            /\ \A g \in DOMAIN Absorb(N, p, h) :
                 /\ Absorb(N, p, h)[g].status = N[g].status
                 /\ g # p => Absorb(N, p, h)[g].next = N[g].next
        BY ONLY <4>1, AbsorbFields
      <4> QED
        BY <3>1, <4>2
    <3>4. ASSUME NEW g \in DOMAIN C, C[g].status = FREE PROVE ~NextIsFree(C, g)
      <4>1. g \in DOMAIN N \ {h} /\ N[g].status = FREE
        BY <3>3, <3>4
      <4>2. g # p => N[g].next # h
        BY <1>3, <3>2, <4>1, Neighbours DEF p
      <4>3. C[g].next # NULL => C[g].next \in DOMAIN N \ {h}
        <5>1. N[h].next # NULL => N[h].next \in DOMAIN N /\ N[h].next > h /\ h \in Nat
          BY <1>3, Neighbours
        <5>2. N[g].next # NULL => N[g].next \in DOMAIN N
          BY <1>3, <4>1, Neighbours
        <5> QED
          BY <3>3, <3>4, <4>2, <5>1, <5>2
      <4> QED
        BY <1>3, <3>3, <3>4, <4>1, <4>2, <4>3 DEF NextIsFree
    <3> QED
      BY <3>4 DEF Coalesced
  <2>2. CASE ~PrevIsFree(N, h)
    <3>1. C = N
      BY <2>2 DEF FreeBlocksPrev
    <3>2. ASSUME NEW g \in DOMAIN N, N[g].status = FREE, N[g].next = h
          PROVE  FALSE
      <4>1. h # NULL /\ N[h].prev = g /\ g # NULL
        BY <1>3, <3>2, Neighbours
      <4> QED
        BY <2>2, <3>2, <4>1 DEF PrevIsFree
    <3> QED
      BY <1>3, <3>1, <3>2 DEF Coalesced
  <2> QED
    BY <2>1, <2>2
<1> QED
  BY <1>4 DEF FreeBlock, N, M

(* The headers vgc_free leaves are those it takes no guard from.           *)
LEMMA FreeBlockDomain ==
  ASSUME NEW B, NEW mmapSize \in Nat, IsList(B, mmapSize), NEW h \in DOMAIN B
  PROVE  DOMAIN B \ Unprotected(B, h) \subseteq DOMAIN FreeBlock(B, h)
<1> DEFINE M == MarkFree(B, h)
           N == FreeBlocksNext(M, h)
<1>1. /\ DOMAIN M = DOMAIN B
      /\ \A g \in DOMAIN B : M[g].next = B[g].next /\ (g # h => M[g].status = B[g].status)
  BY MarkFreeIsList
<1>2. DOMAIN B \ Unprotected(B, h) \subseteq DOMAIN N \ {h}
  <2>1. CASE NextIsFree(M, h)
    <3>1. DOMAIN N = DOMAIN M \ {M[h].next}
      BY <2>1 DEF FreeBlocksNext, Absorb
    <3>2. B[h].next # NULL => B[h].next \in DOMAIN B /\ B[h].next # h
      BY Neighbours
    <3>3. NextIsFree(B, h)
      BY <1>1, <2>1, <3>2 DEF NextIsFree
    <3> QED
      BY <1>1, <3>1, <3>3 DEF Unprotected
  <2>2. CASE ~NextIsFree(M, h)
    BY <1>1, <2>2 DEF FreeBlocksNext, Unprotected
  <2> QED
    BY <2>1, <2>2
<1> HIDE DEF M, N
<1>3. DOMAIN N \ {h} \subseteq DOMAIN FreeBlocksPrev(N, h)
  BY DEF FreeBlocksPrev, Absorb
<1> QED
  BY <1>2, <1>3 DEF FreeBlock, M, N


--------------------------------------------------------------------------------
(* Headers and payloads of whole pages: what a list keeps when its MMAP is *)
(* whole pages long.                                                       *)
Paged(B) == \A h \in DOMAIN B : Multiple(h) /\ Multiple(B[h].size)

LEMMA FreshPaged ==
  ASSUME NEW mmapSize \in Nat, mmapSize > MmapHeaderSize + MallocHeaderSize,
         Multiple(mmapSize)
  PROVE  Paged(FreshBlocks(mmapSize))
<1>1. /\ MmapHeaderSize \in Nat /\ MallocHeaderSize \in Nat /\ FirstHeader = MmapHeaderSize
      /\ Multiple(MallocHeaderSize) /\ Multiple(FirstHeader)
  BY MultipleHeaders, PageSizeAssumption DEF MmapHeaderSize, MallocHeaderSize, FirstHeader
<1>2. Multiple(mmapSize - MmapHeaderSize)
  BY <1>1, MultipleDifference
<1>3. Multiple(mmapSize - MmapHeaderSize - MallocHeaderSize)
  BY <1>1, <1>2, MultipleDifference
<1> QED
  BY <1>1, <1>3 DEF Paged, FreshBlocks, MaxSize

LEMMA AllocBlockPaged ==
  ASSUME NEW B, NEW mmapSize \in Nat, IsList(B, mmapSize), Paged(B),
         NEW length \in Nat, NEW h \in Fits(B, length)
  PROVE  Paged(AllocBlock(B, h, length))
<1> DEFINE C == AllocBlock(B, h, length)
           n == Remainder(h, length)
           x == RoundUp(length) + MallocHeaderSize
<1>1. /\ h \in DOMAIN B /\ h \in Nat /\ B[h] \in Header /\ B[h].size \in Nat
      /\ \A g \in DOMAIN B : B[g] \in Header
  BY DEF Fits, IsList, Header
<1>2. CASE ~Splits(B, h, length)
  BY <1>1, <1>2 DEF AllocBlock, Paged, Header
<1>3. CASE Splits(B, h, length)
  <2>1. /\ RoundUp(length) \in Nat /\ Multiple(RoundUp(length))
        /\ MallocHeaderSize \in Nat /\ Multiple(MallocHeaderSize)
    BY RoundUpBounds, RoundUpMultiple, MultipleHeaders, PageSizeAssumption
    DEF MallocHeaderSize
  <2>2. x \in Nat /\ Multiple(x) /\ x <= B[h].size
    BY <1>1, <1>3, <2>1, MultipleSum DEF Splits
  <2>3. n = h + x /\ Multiple(n)
    <3>1. n = h + x
      BY <1>1, <2>1 DEF Remainder
    <3>2. Multiple(h)
      BY <1>1 DEF Paged
    <3> HIDE DEF x, n
    <3> QED
      BY <1>1, <2>2, <3>1, <3>2, MultipleSum
  <2>4. Multiple(B[h].size - x)
    <3>1. Multiple(B[h].size)
      BY <1>1 DEF Paged
    <3>2. PICK s \in Nat : s = B[h].size
      BY <1>1
    <3> HIDE DEF x
    <3> QED
      BY <2>2, <3>1, <3>2, MultipleDifference
  <2>5. /\ \A g \in DOMAIN C : g \in DOMAIN B \/ g = n
        /\ n \in DOMAIN C /\ h \in DOMAIN C
    BY <1>1, <1>3 DEF AllocBlock
  <2>6. \A g \in DOMAIN C : \/ C[g].size \in {RoundUp(length), B[h].size - x}
                            \/ g \in DOMAIN B /\ C[g].size = B[g].size
    <3> SUFFICES ASSUME NEW g \in DOMAIN C
                 PROVE  \/ C[g].size \in {RoundUp(length), B[h].size - x}
                        \/ g \in DOMAIN B /\ C[g].size = B[g].size
      OBVIOUS
    <3>1. CASE g = n
      BY <1>3, <3>1 DEF AllocBlock
    <3>2. CASE g # n /\ g = h
      BY <1>3, <3>2 DEF AllocBlock
    <3>3. CASE g # n /\ g # h
      <4>1. g \in DOMAIN B /\ B[g] \in Header
        BY <1>1, <2>5, <3>3
      <4>2. C[g] \in {[B[g] EXCEPT !.prev = n], B[g]}
        BY <1>3, <3>3 DEF AllocBlock
      <4> HIDE DEF C, n
      <4> QED
        BY <4>1, <4>2 DEF Header
    <3> QED
      BY <3>1, <3>2, <3>3
  <2> HIDE DEF C, n, x
  <2>7. Paged(C)
    BY <2>1, <2>3, <2>4, <2>5, <2>6 DEF Paged
  <2> QED
    BY <2>7 DEF C
<1> QED
  BY <1>2, <1>3

LEMMA AbsorbPaged ==
  ASSUME NEW B, NEW mmapSize \in Nat, IsList(B, mmapSize), Paged(B),
         NEW h \in DOMAIN B, NEW n \in DOMAIN B
  PROVE  Paged(Absorb(B, h, n))
<1> DEFINE C == Absorb(B, h, n)
<1>1. \A g \in DOMAIN B : B[g] \in Header /\ B[g].size \in Nat
  BY DEF IsList, Header
<1>2. MallocHeaderSize \in Nat /\ Multiple(MallocHeaderSize)
  BY MultipleHeaders, PageSizeAssumption DEF MallocHeaderSize
<1>3. PICK s \in Nat, r \in Nat : s = B[h].size /\ r = B[n].size
  BY <1>1
<1>4. Multiple(s + r + MallocHeaderSize)
  <2>1. Multiple(s) /\ Multiple(r)
    BY <1>3 DEF Paged
  <2>2. s + r \in Nat /\ Multiple(s + r)
    BY <2>1, MultipleSum
  <2> QED
    BY <1>2, <2>2, MultipleSum
<1>5. \A g \in DOMAIN C :
        g \in DOMAIN B /\ C[g].size \in {B[g].size, s + r + MallocHeaderSize}
  BY <1>1, <1>3 DEF Absorb, Header
<1> HIDE DEF C
<1>6. Paged(C)
  BY <1>4, <1>5 DEF Paged
<1> QED
  BY <1>6 DEF C

LEMMA FreeBlockPaged ==
  ASSUME NEW B, NEW mmapSize \in Nat, IsList(B, mmapSize), Paged(B),
         NEW h \in DOMAIN B
  PROVE  Paged(FreeBlock(B, h))
<1> DEFINE M == MarkFree(B, h)
           N == FreeBlocksNext(M, h)
<1>1. IsList(M, mmapSize) /\ DOMAIN M = DOMAIN B /\ Paged(M)
  BY MarkFreeIsList DEF Paged
<1> HIDE DEF M
<1>2. IsList(N, mmapSize) /\ h \in DOMAIN N /\ Paged(N)
  <2>1. CASE NextIsFree(M, h)
    <3> DEFINE n == M[h].next
    <3>1. N = Absorb(M, h, n) /\ n # NULL
      BY <2>1 DEF FreeBlocksNext, NextIsFree
    <3>2. h \in DOMAIN M /\ n \in DOMAIN M /\ n # h
      BY <1>1, <3>1, Neighbours DEF IsList
    <3>3. n = M[h].next
      OBVIOUS
    <3> HIDE DEF n, N
    <3>4. IsList(Absorb(M, h, n), mmapSize) /\ DOMAIN Absorb(M, h, n) = DOMAIN M \ {n}
      BY <1>1, <3>1, <3>2, <3>3, AbsorbIsList
    <3>5. Paged(Absorb(M, h, n))
      BY <1>1, <3>2, AbsorbPaged
    <3> QED
      BY <3>1, <3>2, <3>4, <3>5
  <2>2. CASE ~NextIsFree(M, h)
    BY <1>1, <2>2 DEF FreeBlocksNext
  <2> QED
    BY <2>1, <2>2
<1> HIDE DEF N
<1>3. Paged(FreeBlocksPrev(N, h))
  <2>1. CASE PrevIsFree(N, h)
    <3>1. N[h].prev \in DOMAIN N
      BY <1>2, <2>1, Neighbours DEF PrevIsFree
    <3> QED
      BY <1>2, <2>1, <3>1, AbsorbPaged DEF FreeBlocksPrev
  <2>2. CASE ~PrevIsFree(N, h)
    BY <1>2, <2>2 DEF FreeBlocksPrev
  <2> QED
    BY <2>1, <2>2
<1> QED
  BY <1>3 DEF FreeBlock, N, M

--------------------------------------------------------------------------------
(* The sum checkMmapBlock makes comes out: the blocks from some header on, *)
(* with their headers, take all the bytes up to the end of the MMAP.       *)
SizesOf(B) == [h \in DOMAIN B |-> B[h].size]

LEMMA HeadersFinite ==
  ASSUME NEW B, NEW mmapSize \in Nat, IsList(B, mmapSize)
  PROVE  IsFiniteSet(DOMAIN B)
<1>1. DOMAIN B \subseteq 0 .. mmapSize
  BY PageSizeAssumption
  DEF IsList, WellFormed, WellLinked, EndOf, Header, MallocHeaderSize, FirstHeader,
      MmapHeaderSize
<1>2. IsFiniteSet(0 .. mmapSize)
  BY FS_Interval
<1> QED
  BY <1>1, <1>2, FS_Subset

LEMMA ListFrom ==
  ASSUME NEW B, NEW mmapSize \in Nat, IsList(B, mmapSize)
  PROVE  /\ \A h \in DOMAIN B :
              /\ h \in Nat /\ B[h].size \in Nat /\ B[h].next \in Nat
              /\ EndOf(B, h) = h + MallocHeaderSize + B[h].size
              /\ h < EndOf(B, h) /\ EndOf(B, h) <= mmapSize
              /\ B[h].next # NULL => B[h].next \in DOMAIN B /\ B[h].next = EndOf(B, h)
              /\ B[h].next = NULL => EndOf(B, h) = mmapSize
              /\ FirstHeader <= h
         /\ \A g, h \in DOMAIN B : g < h => EndOf(B, g) <= h
         /\ FirstHeader \in DOMAIN B
         /\ MallocHeaderSize \in Nat /\ FirstHeader = MmapHeaderSize
<1>1. /\ MallocHeaderSize \in Nat /\ MallocHeaderSize > 0 /\ FirstHeader = MmapHeaderSize
  BY PageSizeAssumption DEF MallocHeaderSize, FirstHeader
<1>2. ASSUME NEW h \in DOMAIN B
      PROVE  /\ h \in Nat /\ B[h].size \in Nat /\ B[h].next \in Nat
             /\ WellLinked(B, mmapSize, h)
  BY DEF IsList, WellFormed, Header
<1>3. ASSUME NEW h \in DOMAIN B PROVE h < EndOf(B, h)
  BY <1>1, <1>2 DEF EndOf
<1>4. Apart(B) /\ FirstHeader \in DOMAIN B
  BY DEF IsList, WellFormed
<1> QED
  BY <1>1, <1>2, <1>3, <1>4 DEF WellLinked, EndOf, Apart

LEMMA SizesAddUp ==
  ASSUME NEW B, NEW mmapSize \in Nat, IsList(B, mmapSize),
         NEW F, Sums(F, DOMAIN B, SizesOf(B))
  PROVE  /\ F[{}] = 0
         /\ \A s \in SUBSET DOMAIN B : F[s] \in Nat
         /\ \A s \in SUBSET DOMAIN B : \A x \in s : F[s] = B[x].size + F[s \ {x}]
<1>1. \A h \in DOMAIN B : SizesOf(B)[h] \in Nat /\ SizesOf(B)[h] = B[h].size
  BY ListFrom DEF SizesOf
<1>2. PICK D, w : D = DOMAIN B /\ w = SizesOf(B)
  OBVIOUS
<1>3. IsFiniteSet(D) /\ (\A x \in D : w[x] \in Nat) /\ Sums(F, D, w)
  BY <1>1, <1>2, HeadersFinite
<1>4. /\ F[{}] = 0
      /\ \A s \in SUBSET D : F[s] \in Nat
      /\ \A s \in SUBSET D : \A x \in s : F[s] = w[x] + F[s \ {x}]
  BY ONLY <1>3, SumTakes
<1> QED
  BY <1>1, <1>2, <1>4

LEMMA TilesAddUp ==
  ASSUME NEW B, NEW mmapSize \in Nat, IsList(B, mmapSize),
         NEW F, Sums(F, DOMAIN B, SizesOf(B))
  PROVE  mmapSize - MmapHeaderSize - MallocHeaderSize * Cardinality(DOMAIN B) = F[DOMAIN B]
<1> DEFINE From(h) == {g \in DOMAIN B : h <= g}
           Bad == {h \in DOMAIN B :
                     h + MallocHeaderSize * Cardinality(From(h)) + F[From(h)] # mmapSize}
           rank == [h \in DOMAIN B |-> mmapSize - h]
<1>1. /\ \A h \in DOMAIN B :
           /\ h \in Nat /\ B[h].size \in Nat /\ B[h].next \in Nat
           /\ EndOf(B, h) = h + MallocHeaderSize + B[h].size
           /\ h < EndOf(B, h) /\ EndOf(B, h) <= mmapSize
           /\ B[h].next # NULL => B[h].next \in DOMAIN B /\ B[h].next = EndOf(B, h)
           /\ B[h].next = NULL => EndOf(B, h) = mmapSize
           /\ FirstHeader <= h
      /\ \A g, h \in DOMAIN B : g < h => EndOf(B, g) <= h
      /\ FirstHeader \in DOMAIN B
      /\ MallocHeaderSize \in Nat /\ FirstHeader = MmapHeaderSize
  BY ListFrom
<1>2. IsFiniteSet(DOMAIN B)
  BY HeadersFinite
<1>3. /\ F[{}] = 0
      /\ \A s \in SUBSET DOMAIN B : F[s] \in Nat
      /\ \A s \in SUBSET DOMAIN B : \A x \in s : F[s] = B[x].size + F[s \ {x}]
  BY SizesAddUp
<1>4. ASSUME NEW h \in DOMAIN B, h + MallocHeaderSize * Cardinality(From(h)) + F[From(h)] # mmapSize
      PROVE \E g \in Bad : rank[g] < rank[h]
  <2>1. From(h) \in SUBSET DOMAIN B /\ h \in From(h)
    BY <1>1
  <2>2. PICK c \in Nat, d \in Nat :
          /\ c = Cardinality(From(h)) /\ d = Cardinality(From(h) \ {h}) /\ d + 1 = c
          /\ From(h) \ {h} = {} => d = 0
    <3> HIDE DEF From
    <3>1. Cardinality(From(h)) \in Nat
      BY <1>2, <2>1, SubsetSizes
    <3>2. /\ Cardinality(From(h) \ {h}) \in Nat
          /\ Cardinality(From(h) \ {h}) + 1 = Cardinality(From(h))
      BY <1>2, <2>1, SubsetSizes
    <3> QED
      BY <3>1, <3>2, FS_EmptySet
  <2>3. PICK e \in Nat, f \in Nat : /\ e = F[From(h)] /\ f = F[From(h) \ {h}]
                                    /\ e = B[h].size + f
    <3> HIDE DEF From
    <3>1. From(h) \ {h} \in SUBSET DOMAIN B
      BY <2>1
    <3> QED
      BY <1>3, <2>1, <3>1
  <2>4. PICK x \in Nat, z \in Nat : x = MallocHeaderSize /\ z = B[h].size
    BY <1>1
  <2>5. x * c = x * d + x /\ x * d \in Nat
    BY <2>2, <2>4
  <2>6. PICK y \in Nat : y = x * d
    BY <2>5
  <2>7. h + (y + x) + (z + f) # mmapSize
    <3>1. x * c = y + x /\ e = z + f
      BY <2>3, <2>4, <2>5, <2>6
    <3> QED
      BY <1>4, <2>2, <2>3, <2>4, <3>1
  <2>8. h \in Nat /\ EndOf(B, h) = h + x + z
    BY <1>1, <2>4
  <2> HIDE DEF From
  <2>9. CASE B[h].next = NULL
    <3>1. h + x + z = mmapSize
      BY <1>1, <2>8, <2>9
    <3>2. From(h) \ {h} = {}
      <4> SUFFICES ASSUME NEW g \in DOMAIN B, h <= g, g # h PROVE FALSE
        BY DEF From
      <4>1. h < g /\ g \in Nat /\ h \in Nat
        BY <1>1
      <4>2. EndOf(B, h) <= g
        BY <1>1, <4>1
      <4>3. g < EndOf(B, g) /\ EndOf(B, g) <= mmapSize /\ EndOf(B, g) \in Int
        BY <1>1
      <4> QED
        BY <2>8, <3>1, <4>1, <4>2, <4>3
    <3>3. d = 0 /\ f = 0
      BY <1>3, <2>2, <2>3, <3>2
    <3>4. y = 0
      BY <2>4, <2>6, <3>3
    <3> QED
      BY <2>4, <2>7, <2>8, <3>1, <3>3, <3>4
  <2>10. CASE B[h].next # NULL
    <3>1. PICK n \in DOMAIN B : n = B[h].next
      BY <1>1, <2>10
    <3>2. n \in Nat /\ n = h + x + z /\ h < n /\ n <= mmapSize /\ n = EndOf(B, h)
      <4>1. n = EndOf(B, h) /\ n \in Nat /\ h < EndOf(B, h) /\ EndOf(B, h) <= mmapSize
        BY <1>1, <2>10, <3>1
      <4> QED
        BY <2>8, <4>1
    <3>3. From(n) = From(h) \ {h}
      <4>1. ASSUME NEW g \in DOMAIN B, h <= g, g # h PROVE n <= g
        <5>1. h < g
          BY <1>1, <4>1
        <5> QED
          BY <1>1, <3>2, <5>1
      <4>2. ASSUME NEW g \in DOMAIN B, n <= g PROVE h <= g /\ g # h
        <5>1. g \in Nat
          BY <1>1
        <5> QED
          BY <2>8, <3>2, <4>2, <5>1
      <4> QED
        BY <4>1, <4>2 DEF From
    <3>4. n + y + f # mmapSize
      BY <2>4, <2>7, <2>8, <3>2
    <3>5. n \in Bad
      BY <2>2, <2>3, <2>4, <2>6, <3>3, <3>4
    <3>6. rank[n] < rank[h]
      BY <2>8, <3>2
    <3> QED
      BY <3>5, <3>6
  <2> QED
    BY <2>9, <2>10
<1>5. Bad = {}
  <2>1. rank \in [DOMAIN B -> Nat] /\ Bad \in SUBSET DOMAIN B
    <3>1. \A h \in DOMAIN B : h \in Nat /\ h <= mmapSize
      <4> TAKE h \in DOMAIN B
      <4>1. h \in Nat /\ h < EndOf(B, h) /\ EndOf(B, h) <= mmapSize /\ EndOf(B, h) \in Int
        BY <1>1
      <4> QED
        BY <4>1
    <3> QED
      BY <3>1
  <2>2. \A h \in Bad : \E g \in Bad : rank[g] < rank[h]
    BY <1>4
  <2> HIDE DEF Bad, rank
  <2> QED
    BY ONLY <2>1, <2>2, ByRank
<1>6. From(FirstHeader) = DOMAIN B
  BY <1>1
<1>7. FirstHeader + MallocHeaderSize * Cardinality(DOMAIN B) + F[DOMAIN B] = mmapSize
  BY <1>1, <1>5, <1>6
<1>8. PICK c \in Nat, e \in Nat, i \in Nat, x \in Nat :
        c = Cardinality(DOMAIN B) /\ e = F[DOMAIN B] /\ i = FirstHeader /\ x = MallocHeaderSize
  BY <1>1, <1>2, <1>3, FS_CardinalityType
<1>9. PICK y \in Nat : y = x * c
  BY <1>8
<1>10. i + y + e = mmapSize
  BY <1>7, <1>8, <1>9
<1>11. mmapSize - i - y = e
  BY <1>8, <1>9, <1>10
<1> QED
  BY <1>1, <1>8, <1>9, <1>11

(* The recursive function of MapThenSumSet. *)
SumsBlocks(F, B) ==
  F = [s \in SUBSET DOMAIN B |->
         IF s = {} THEN 0
         ELSE B[CHOOSE x \in s : TRUE].size + F[s \ {CHOOSE x \in s : TRUE}]]

LEMMA WellFormedSums ==
  ASSUME NEW B, NEW mmapSize \in Nat, IsList(B, mmapSize)
  PROVE  SumsMatch(B, mmapSize)
<1> DEFINE iter == CHOOSE f : SumsBlocks(f, B)
<1>1. ASSUME NEW F PROVE Sums(F, DOMAIN B, SizesOf(B)) <=> SumsBlocks(F, B)
  <2> SUFFICES \A s \in SUBSET DOMAIN B :
                 (IF s = {} THEN 0
                  ELSE SizesOf(B)[CHOOSE x \in s : TRUE] + F[s \ {CHOOSE x \in s : TRUE}])
                 = (IF s = {} THEN 0
                    ELSE B[CHOOSE x \in s : TRUE].size + F[s \ {CHOOSE x \in s : TRUE}])
    BY DEF Sums, SumsBlocks
  <2> TAKE s \in SUBSET DOMAIN B
  <2>1. s # {} => (CHOOSE x \in s : TRUE) \in DOMAIN B
    OBVIOUS
  <2> QED
    BY <2>1 DEF SizesOf
<1>2. \E F : Sums(F, DOMAIN B, SizesOf(B))
  <2>1. PICK D, w : D = DOMAIN B /\ w = SizesOf(B)
    OBVIOUS
  <2>2. IsFiniteSet(D)
    BY <2>1, HeadersFinite
  <2>3. \E F : Sums(F, D, w)
    BY ONLY <2>2, SumExists
  <2> QED
    BY <2>1, <2>3
<1>3. SumsBlocks(iter, B)
  BY <1>1, <1>2
<1>4. MapThenSumSet(LAMBDA h : B[h].size, DOMAIN B) = iter[DOMAIN B]
  BY DEF MapThenSumSet, MapThenFoldSet, SumsBlocks
<1> HIDE DEF iter
<1>5. Sums(iter, DOMAIN B, SizesOf(B))
  BY <1>1, <1>3
<1>6. mmapSize - MmapHeaderSize - MallocHeaderSize * Cardinality(DOMAIN B) = iter[DOMAIN B]
  BY <1>5, TilesAddUp
<1> QED
  BY <1>4, <1>6 DEF SumsMatch
================================================================================
