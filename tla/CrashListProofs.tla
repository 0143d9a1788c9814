---------------------------- MODULE CrashListProofs ----------------------------
(***************************************************************************)
(* The list of CrashRecovery, for any number of processes that end at any  *)
(* place of a call but one (CrashInJoin is FALSE), for every page and MMAP *)
(* size: whatever they leave of the list, its blocks lie apart, its walks  *)
(* end, and no client's block is lost or handed out twice.  And the stores *)
(* of a call that is not cut short add up to the steps of BlockList.       *)
(***************************************************************************)
EXTENDS CrashRecoveryProofs, BlockListProofs, InductionProofs

(* L is the list in M: from the first header on each block leads to the    *)
(* next of L.                                                              *)
Sorted(M, L) ==
  /\ FirstHeader \in L /\ L \subseteq DOMAIN M
  /\ \A h \in L : /\ FirstHeader <= h
                  /\ M[h].next # NULL => M[h].next \in L /\ h < M[h].next
  /\ \A g, h \in L : g < h => M[g].next # NULL /\ M[g].next <= h

(* What a block may reach up to. *)
Until(M, h) == IF M[h].next = NULL THEN MmapSize ELSE M[h].next

(* The blocks of the list lie one after the other, with gaps where a       *)
(* process has died; block `grown` covers the next one, too.               *)
Layout(M, L, grown) ==
  /\ DOMAIN M \subseteq 0 .. MmapSize
  /\ \A h \in DOMAIN M : M[h] \in Header
  /\ Sorted(M, L)
  /\ \A h \in L : Multiple(h)
  /\ M[FirstHeader].prev = NULL
  /\ \A h \in L : EndOf(M, h) <= IF h = grown THEN EndOf(M, M[h].next) ELSE Until(M, h)

LinksBack(M, L) ==
  \A h \in L : M[h].next # NULL => M[M[h].next].prev = h

BusyIn(M, L, h) == h \in L /\ M[h].status = BUSY
FreeIn(M, L, h) == h \in L /\ M[h].status = FREE

(* What follows is about a process r = proc[p].                            *)

(* The block that a join is about to swallow the next one with. *)
Grown(r) == IF r.pc = "unlink" THEN r.h ELSE NULL

(* The block a call has that no client owns: one that is about to be       *)
(* freed, or has been taken.                                               *)
Held(r) ==
  IF r.op = "free"
  THEN IF r.pc \in {"lock", "mend", "search", "free"} THEN {r.own} ELSE {}
  ELSE IF r.pc \in {"next", "prev", "unlock", "leave"} THEN {r.got} \ {NULL}
  ELSE {}

(* The second block of a call of vgc_malloc: what a split is to make of    *)
(* the rest, or what follows as it is. *)
SplitAt(M, h, n, length) ==
  /\ n \in DOMAIN M /\ Multiple(n) /\ n = h + MallocHeaderSize + length
  /\ M[n].next = M[h].next /\ EndOf(M, n) <= Until(M, h)

Taking(M, L, r) ==
  /\ r.pc \in {"header", "size", "status", "next", "prev"} =>
       r.op = "malloc" /\ r.got = r.h /\ r.h \in L /\ r.size <= r.length
  /\ r.pc \in {"header", "size", "status"} => M[r.h].status = FREE
  /\ r.pc = "header" => /\ Multiple(r.length)
                        /\ r.n = r.h + MallocHeaderSize + r.length
                        /\ r.length + MallocHeaderSize < M[r.h].size
  /\ r.pc = "size" => \/ SplitAt(M, r.h, r.n, r.length) /\ r.length <= M[r.h].size
                      \/ r.n = M[r.h].next /\ r.length = M[r.h].size
  /\ r.pc \in {"status", "next"} =>
       /\ r.length = M[r.h].size
       /\ SplitAt(M, r.h, r.n, r.length) \/ r.n = M[r.h].next
  /\ r.pc = "prev" => r.length = M[r.h].size /\ r.n = M[r.h].next
  /\ r.pc \in {"unlock", "leave"} /\ r.got # NULL =>
       r.op = "malloc" /\ r.size <= M[r.got].size
  /\ r.pc \in {"idle", "lock", "mend", "search"} \/ r.op = "free" => r.got = NULL

Joins(M, L, r) ==
  /\ r.pc \in {"free", "grow", "unlink", "back", "last"} => r.op = "free"
  /\ r.pc \in {"grow", "unlink", "back"} => FreeIn(M, L, r.h) /\ r.own \in {r.h, r.n}
  /\ r.pc \in {"grow", "unlink"} => FreeIn(M, L, r.n) /\ M[r.h].next = r.n
  /\ r.pc \in {"free", "grow", "unlink"} => LinksBack(M, L)
  /\ r.pc = "back" => r.n \notin L /\ LinksBack(M, L \ {r.h})
  /\ r.pc = "last" => \E g \in L : M[g].status = FREE

Laid ==
  /\ (\A p \in Procs : Grown(proc[p]) = NULL) => Layout(mem, Linked(mem), NULL)
  /\ \A p \in Procs :
       Grown(proc[p]) # NULL => Layout(mem, Linked(mem), Grown(proc[p]))

Backed ==
  /\ \A a \in live : /\ BusyIn(mem, Linked(mem), a.block) /\ a.size <= mem[a.block].size
                     /\ \A b \in live \ {a} : b.block # a.block
                     /\ \A p \in Procs : a.block \notin Held(proc[p])
  /\ \A p \in Procs : /\ \A h \in Held(proc[p]) : BusyIn(mem, Linked(mem), h)
                      /\ \A q \in Procs \ {p} : Held(proc[p]) \cap Held(proc[q]) = {}

Calls ==
  \A p \in Procs : Taking(mem, Linked(mem), proc[p]) /\ Joins(mem, Linked(mem), proc[p])

Gone ==
  ~mapped => /\ live = {}
             /\ \A p \in Procs : proc[p].pc \in {"idle", "lock", "leave"} /\ proc[p].got = NULL

ListInv == Laid /\ Backed /\ Calls /\ Gone

--------------------------------------------------------------------------------
(* The list.                                                               *)
LEMMA SortedNat ==
  ASSUME NEW M, NEW L, Sorted(M, L), DOMAIN M \subseteq 0 .. MmapSize
  PROVE  /\ \A h \in L : h \in Nat /\ h <= MmapSize
         /\ L \subseteq 0 .. MmapSize /\ IsFiniteSet(L) /\ IsFiniteSet(DOMAIN M)
         /\ Cardinality(DOMAIN M) \in Nat /\ FirstHeader \in Nat \ {0}
<1>1. L \subseteq 0 .. MmapSize
  BY DEF Sorted
<1>2. IsFiniteSet(0 .. MmapSize)
  BY FS_Interval, CrashAssumption
<1>3. IsFiniteSet(L) /\ IsFiniteSet(DOMAIN M)
  BY <1>1, <1>2, FS_Subset
<1>4. FirstHeader \in Nat \ {0}
  BY PageSizeAssumption DEF FirstHeader, MmapHeaderSize
<1>5. \A h \in L : h \in Nat /\ h <= MmapSize
  BY <1>1
<1> QED
  BY <1>1, <1>3, <1>4, <1>5, FS_CardinalityType

(* A block that is not the first follows another.                          *)
LEMMA Predecessor ==
  ASSUME NEW M, NEW L, Sorted(M, L), DOMAIN M \subseteq 0 .. MmapSize,
         NEW h \in L, h # FirstHeader
  PROVE  \E g \in L : /\ g < h /\ M[g].next = h
                      /\ \A x \in L : x < h <=> x < g \/ x = g
<1>1. (\A x \in L : x \in Nat) /\ FirstHeader \in Nat \ {0}
  BY SortedNat
<1>2. FirstHeader \in L /\ FirstHeader < h
  BY <1>1 DEF Sorted
<1> DEFINE D == {h - x : x \in {y \in L : y < h}}
<1>3. D \in SUBSET Nat /\ D # {}
  BY <1>1, <1>2
<1>4. PICK d \in D : \A e \in D : d <= e
  <2> HIDE DEF D
  <2> QED
    BY <1>3, LeastOfNat
<1>5. PICK g \in L : g < h /\ d = h - g
  BY <1>4
<1>6. \A x \in L : x < h => x <= g
  <2> SUFFICES ASSUME NEW x \in L, x < h PROVE x <= g
    OBVIOUS
  <2>1. h - x \in D
    OBVIOUS
  <2>2. h - g <= h - x
    BY <1>4, <1>5, <2>1
  <2> QED
    BY <1>1, <2>2
<1>7. M[g].next \in L /\ g < M[g].next /\ M[g].next <= h
  BY <1>5 DEF Sorted
<1>8. M[g].next = h
  BY <1>1, <1>6, <1>7
<1> QED
  BY <1>1, <1>5, <1>6, <1>8

(* The walk of Linked comes to all of a sorted list, and to nothing else.  *)
LEMMA LinkedIs ==
  ASSUME NEW M, NEW L, Sorted(M, L), DOMAIN M \subseteq 0 .. MmapSize
  PROVE  Linked(M) = L
<1> DEFINE N == Cardinality(DOMAIN M)
           X == SUBSET L
           Then(S) == (S \cup {M[h].next : h \in S}) \ {NULL}
           G == [S \in X |-> Then(S)]
           at == CHOOSE f : f = [i \in 0 .. N |->
                   IF i = 0 THEN {FirstHeader}
                   ELSE (f[i - 1] \cup {M[h].next : h \in f[i - 1]}) \ {NULL}]
<1>1. /\ N \in Nat /\ (\A x \in L : x \in Nat) /\ FirstHeader \in Nat \ {0}
      /\ IsFiniteSet(L) /\ IsFiniteSet(DOMAIN M)
  BY SortedNat
<1>2. ASSUME NEW S \in X PROVE Then(S) \in X
  BY DEF Sorted
<1>2a. G \in [X -> X]
  <2> HIDE DEF Then, X
  <2> QED
    BY <1>2
<1>3. {FirstHeader} \in X
  BY DEF Sorted
<1>4. PICK f \in [0 .. N -> X] : Iterated(f, N, {FirstHeader}, G)
  <2> HIDE DEF N, X, G
  <2> QED
    BY <1>1, <1>2a, <1>3, Iterates
<1>5. f = [i \in 0 .. N |-> IF i = 0 THEN {FirstHeader}
                            ELSE (f[i - 1] \cup {M[h].next : h \in f[i - 1]}) \ {NULL}]
  <2>1. \A i \in 0 .. N : i # 0 => f[i - 1] \in X
    <3>1. \A i \in 0 .. N : i # 0 => i - 1 \in 0 .. N
      BY <1>1
    <3> QED
      BY <1>4, <3>1
  <2>2. \A i \in 0 .. N : (IF i = 0 THEN {FirstHeader} ELSE G[f[i - 1]])
                        = (IF i = 0 THEN {FirstHeader}
                           ELSE (f[i - 1] \cup {M[h].next : h \in f[i - 1]}) \ {NULL})
    BY <2>1
  <2> HIDE DEF N, X, G
  <2> QED
    BY <1>4, <2>2 DEF Iterated
<1>6. at = [i \in 0 .. N |-> IF i = 0 THEN {FirstHeader}
                             ELSE (at[i - 1] \cup {M[h].next : h \in at[i - 1]}) \ {NULL}]
  BY <1>5
<1>7. Linked(M) = at[N]
  BY DEF Linked
<1> HIDE DEF at, G, N
<1>8. /\ at[0] = {FirstHeader}
      /\ \A i \in 0 .. N : i + 1 <= N => at[i + 1] = Then(at[i])
  <2>1. \A i \in 0 .. N :
          at[i] = IF i = 0 THEN {FirstHeader}
                  ELSE (at[i - 1] \cup {M[h].next : h \in at[i - 1]}) \ {NULL}
    BY <1>6, Zenon
  <2>2. 0 \in 0 .. N
    BY <1>1
  <2>3. ASSUME NEW i \in 0 .. N, i + 1 <= N PROVE at[i + 1] = Then(at[i])
    <3>1. i + 1 \in 0 .. N /\ i + 1 # 0 /\ (i + 1) - 1 = i
      BY <1>1, <2>3
    <3>2. at[i + 1] = IF i + 1 = 0 THEN {FirstHeader}
                      ELSE (at[(i + 1) - 1] \cup {M[h].next : h \in at[(i + 1) - 1]}) \ {NULL}
      BY <2>1, <3>1
    <3> QED
      BY <3>1, <3>2
  <2> QED
    BY <2>1, <2>2, <2>3
<1>9. \A i \in 0 .. N : at[i] \subseteq L
  <2> DEFINE S == {i \in 0 .. N : at[i] \subseteq L}
  <2>1. 0 \in S
    BY <1>1, <1>3, <1>8
  <2>2. ASSUME NEW i \in 0 .. N, i \in S, i + 1 <= N PROVE i + 1 \in S
    <3>1. i + 1 \in 0 .. N
      BY <1>1, <2>2
    <3>2. at[i] \in X
      BY <2>2
    <3> HIDE DEF Then
    <3>3. Then(at[i]) \in X
      BY <1>2, <3>2
    <3> QED
      BY <1>8, <2>2, <3>1, <3>3
  <2> HIDE DEF S
  <2>3. 0 .. N \subseteq S
    BY <1>1, <2>1, <2>2, UpTo
  <2> QED
    BY <2>3 DEF S
<1>10. ASSUME NEW i \in 0 .. N, i + 1 <= N PROVE at[i] \subseteq at[i + 1]
  <2>1. NULL \notin at[i]
    BY <1>1, <1>9 DEF Sorted, NULL
  <2> QED
    BY <1>8, <1>10, <2>1
<1>11. ASSUME NEW k \in 0 .. N PROVE at[k] \subseteq at[N]
  <2> DEFINE S == {i \in 0 .. N : i >= k => at[k] \subseteq at[i]}
  <2>1. 0 \in S
    BY <1>1
  <2>2. ASSUME NEW i \in 0 .. N, i \in S, i + 1 <= N PROVE i + 1 \in S
    <3>1. i + 1 \in 0 .. N
      BY <1>1, <2>2
    <3>2. CASE i >= k
      BY <1>10, <2>2, <3>1, <3>2
    <3>3. CASE ~(i >= k) /\ i + 1 >= k
      <4>1. k = i + 1
        BY <1>1, <3>3
      <4> QED
        BY <3>1, <4>1
    <3> QED
      BY <3>1, <3>2, <3>3
  <2> HIDE DEF S
  <2>3. 0 .. N \subseteq S
    BY <1>1, <2>1, <2>2, UpTo
  <2>4. N \in 0 .. N /\ N >= k
    BY <1>1
  <2> QED
    BY <2>3, <2>4 DEF S
<1> DEFINE Below(h) == {g \in L : g < h}
<1>12. ASSUME NEW h \in L
       PROVE  IsFiniteSet(Below(h)) /\ Cardinality(Below(h)) \in Nat /\ Cardinality(Below(h)) < N
  <2>0. L \subseteq DOMAIN M /\ ~(h < h)
    BY <1>1 DEF Sorted
  <2>1. Below(h) \subseteq DOMAIN M \ {h} /\ h \in DOMAIN M
    BY <2>0
  <2>2. IsFiniteSet(DOMAIN M \ {h}) /\ Cardinality(DOMAIN M \ {h}) = N - 1
    BY <1>1, <2>1, FS_RemoveElement DEF N
  <2>3. IsFiniteSet(Below(h)) /\ Cardinality(Below(h)) <= N - 1
    <3> HIDE DEF Below
    <3> QED
      BY <2>1, <2>2, FS_Subset
  <2>4. Cardinality(Below(h)) \in Nat
    BY <2>3, FS_CardinalityType
  <2> HIDE DEF Below
  <2> QED
    BY <1>1, <2>3, <2>4
<1>13. \A h \in L : h \in at[Cardinality(Below(h))]
  <2> DEFINE Bad == {h \in L : h \notin at[Cardinality(Below(h))]}
             r == [h \in L |-> h]
  <2>1. ASSUME NEW h \in Bad PROVE \E g \in Bad : r[g] < r[h]
    <3>1. h # FirstHeader
      <4> SUFFICES ASSUME h = FirstHeader PROVE FALSE
        OBVIOUS
      <4>0. \A g \in L : FirstHeader <= g /\ g \in Nat
        BY <1>1 DEF Sorted
      <4>0a. \A g \in L : ~(g < h)
        BY <1>1, <4>0
      <4>1. Below(h) = {}
        BY <4>0a
      <4>2. Cardinality(Below(h)) = 0
        BY <4>1, FS_EmptySet
      <4> QED
        BY <1>8, <4>2
    <3>2. PICK g \in L : /\ g < h /\ M[g].next = h
                         /\ \A x \in L : x < h <=> x < g \/ x = g
      BY <3>1, Predecessor
    <3>3. Below(h) = Below(g) \cup {g} /\ g \notin Below(g)
      BY <1>1, <3>2
    <3>4. Cardinality(Below(h)) = Cardinality(Below(g)) + 1
      <4> HIDE DEF Below
      <4> QED
        BY <1>12, <3>3, FS_AddElement
    <3>5. PICK c : c = Cardinality(Below(g))
      OBVIOUS
    <3>6. c \in 0 .. N /\ c + 1 <= N
      <4>1. c \in Nat /\ c < N
        BY <1>12, <3>5
      <4> QED
        BY <1>1, <4>1
    <3>7. g \in at[c] => h \in at[c + 1]
      <4>1. at[c + 1] = Then(at[c])
        BY <1>8, <3>6
      <4>2. h # NULL
        BY <1>1, <3>2 DEF NULL
      <4> QED
        BY <3>2, <4>1, <4>2
    <3>8. g \in Bad
      BY <3>4, <3>5, <3>7
    <3> QED
      BY <3>2, <3>8
  <2>2. Bad = {}
    <3>1. Bad \in SUBSET L /\ r \in [L -> Nat]
      BY <1>1
    <3> HIDE DEF Bad, r
    <3> QED
      BY <2>1, <3>1, ByRank
  <2> QED
    BY <2>2
<1>14. L \subseteq at[N]
  <2> SUFFICES ASSUME NEW h \in L PROVE h \in at[N]
    OBVIOUS
  <2>1. PICK c : c = Cardinality(Below(h))
    OBVIOUS
  <2>2. c \in 0 .. N
    BY <1>1, <1>12, <2>1
  <2> HIDE DEF Below
  <2> QED
    BY <1>11, <1>13, <2>1, <2>2
<1>15. at[N] \subseteq L
  BY <1>1, <1>9
<1> QED
  BY <1>7, <1>14, <1>15

(* The search of allocMallocBlock finds a block that is free and large     *)
(* enough, if there is one.                                                *)
LEMMA FirstFitFits ==
  ASSUME NEW M, NEW L, Sorted(M, L), DOMAIN M \subseteq 0 .. MmapSize,
         NEW B, B = [h \in L |-> M[h]], NEW length, Fits(B, length) # {}
  PROVE  FirstFit(B, length) \in Fits(B, length)
<1> DEFINE F == Fits(B, length)
           D == F \cup {h \in L : B[h].next = NULL}
           v == [h \in L |-> IF h \in F THEN h ELSE NULL]
           next == [h \in L |-> B[h].next]
           r == [h \in L |-> MmapSize - h]
           scan == CHOOSE f : f = [h \in DOMAIN B |->
                     IF h \in Fits(B, length) THEN h
                     ELSE IF B[h].next = NULL THEN NULL ELSE f[B[h].next]]
<1>1. /\ \A h \in L : h \in Nat /\ h <= MmapSize
      /\ DOMAIN B = L /\ F \subseteq L /\ MmapSize \in Nat
  BY SortedNat, CrashAssumption DEF Fits
<1>2. \A h \in L : B[h] = M[h]
  OBVIOUS
<1>3. r \in [L -> 0 .. MmapSize]
  <2>1. \A h \in L : MmapSize - h \in 0 .. MmapSize
    BY <1>1
  <2> QED
    BY <2>1
<1>4. \A h \in L \ D : next[h] \in L /\ r[next[h]] < r[h]
  <2> SUFFICES ASSUME NEW h \in L \ D PROVE next[h] \in L /\ r[next[h]] < r[h]
    OBVIOUS
  <2>1. M[h].next \in L /\ h < M[h].next /\ next[h] = M[h].next
    BY <1>2 DEF Sorted
  <2>2. r[next[h]] = MmapSize - next[h] /\ r[h] = MmapSize - h
    BY <2>1
  <2> QED
    BY <1>1, <2>1, <2>2
<1>5. PICK f : Follows(f, L, D, v, next)
  <2> HIDE DEF D, v, next, r, F
  <2> QED
    BY <1>1, <1>3, <1>4, FollowsToEnd
<1>6. f = [h \in DOMAIN B |-> IF h \in Fits(B, length) THEN h
                              ELSE IF B[h].next = NULL THEN NULL ELSE f[B[h].next]]
  <2>1. \A h \in L : (IF h \in D THEN v[h] ELSE f[next[h]])
                   = (IF h \in Fits(B, length) THEN h
                      ELSE IF B[h].next = NULL THEN NULL ELSE f[B[h].next])
    OBVIOUS
  <2> HIDE DEF D, v, next, r, F
  <2> QED
    BY <1>1, <1>5, <2>1 DEF Follows
<1>7. scan = [h \in DOMAIN B |-> IF h \in Fits(B, length) THEN h
                                 ELSE IF B[h].next = NULL THEN NULL ELSE scan[B[h].next]]
  BY <1>6
<1>8. FirstFit(B, length) = scan[FirstHeader]
  BY DEF FirstFit
<1> HIDE DEF scan
<1>9. \A h \in L : scan[h] = IF h \in F THEN h
                             ELSE IF M[h].next = NULL THEN NULL ELSE scan[M[h].next]
  <2>1. \A h \in DOMAIN B : scan[h] = IF h \in Fits(B, length) THEN h
                             ELSE IF B[h].next = NULL THEN NULL ELSE scan[B[h].next]
    BY <1>7, Zenon
  <2> QED
    BY <1>1, <1>2, <2>1
<1> HIDE DEF F
<1>10. PICK fit \in F : TRUE
  BY DEF F
<1> DEFINE Bad == {h \in L : h <= fit /\ scan[h] \notin F}
<1>11. ASSUME NEW h \in Bad PROVE \E g \in Bad : r[g] < r[h]
  <2>1. h \notin F /\ h < fit /\ fit \in L
    BY <1>1, <1>9, <1>10
  <2>2. M[h].next \in L /\ h < M[h].next /\ M[h].next <= fit /\ M[h].next # NULL
    BY <2>1 DEF Sorted
  <2>3. scan[M[h].next] = scan[h]
    BY <1>9, <2>1, <2>2
  <2>4. M[h].next \in Bad /\ r[M[h].next] < r[h]
    BY <1>1, <2>2, <2>3
  <2> QED
    BY <2>4
<1>12. Bad = {}
  <2>1. Bad \in SUBSET L /\ r \in [L -> Nat]
    BY <1>1, <1>3
  <2> HIDE DEF Bad, r
  <2> QED
    BY <1>11, <2>1, ByRank
<1>13. FirstHeader \in L /\ FirstHeader <= fit
  BY <1>1, <1>10 DEF Sorted
<1> QED
  BY <1>8, <1>12, <1>13 DEF F

(* The facts of a layout that its uses need as numbers.                    *)
LEMMA LayoutNat ==
  ASSUME NEW M, NEW L, NEW grown, Layout(M, L, grown)
  PROVE  /\ PageSize \in Nat \ {0} /\ MmapSize \in Nat /\ NULL = 0
         /\ MallocHeaderSize \in Nat /\ MallocHeaderSize > PageSize
         /\ FirstHeader \in L /\ FirstHeader \in Nat \ {0}
         /\ \A h \in L : /\ h \in Nat \ {0} /\ h <= MmapSize /\ h \in DOMAIN M
                         /\ M[h].size \in Nat /\ M[h].prev \in Nat /\ M[h].next \in Nat
                         /\ M[h].status \in {FREE, BUSY}
                         /\ EndOf(M, h) = h + MallocHeaderSize + M[h].size
                         /\ Until(M, h) \in Nat
                         /\ M[h].next # NULL => /\ M[h].next \in L /\ h < M[h].next
                                                /\ M[h].next # FirstHeader
<1>1. /\ \A h \in L : h \in Nat /\ h <= MmapSize
      /\ FirstHeader \in Nat \ {0}
  BY SortedNat DEF Layout
<1>2. /\ \A h \in L : h \in DOMAIN M /\ FirstHeader <= h
      /\ FirstHeader \in L
      /\ \A h \in L : M[h].next # NULL => M[h].next \in L /\ h < M[h].next
  BY DEF Layout, Sorted
<1>3. \A h \in L : /\ M[h].size \in Nat /\ M[h].prev \in Nat /\ M[h].next \in Nat
                   /\ M[h].status \in {FREE, BUSY}
  BY <1>2 DEF Layout, Header
<1>4. PageSize \in Nat \ {0} /\ MmapSize \in Nat /\ NULL = 0
  BY PageSizeAssumption, CrashAssumption DEF NULL
<1>5. MallocHeaderSize \in Nat /\ MallocHeaderSize > PageSize
  BY <1>4 DEF MallocHeaderSize
<1>6. \A h \in L : Until(M, h) \in Nat
  BY <1>3, <1>4 DEF Until
<1>7. \A h \in L : M[h].next # FirstHeader \/ M[h].next = NULL
  BY <1>1, <1>2
<1> QED
  BY <1>1, <1>2, <1>3, <1>4, <1>5, <1>6, <1>7 DEF EndOf

(* Stores that leave the links of the list and enlarge no block of it.     *)
LEMMA SameLayout ==
  ASSUME NEW M, NEW L, Layout(M, L, NULL), NEW N,
         L \subseteq DOMAIN N, DOMAIN N \subseteq 0 .. MmapSize,
         \A h \in DOMAIN N : N[h] \in Header,
         \A h \in L : N[h].next = M[h].next /\ N[h].size <= M[h].size,
         N[FirstHeader].prev = NULL
  PROVE  Layout(N, L, NULL)
<1>1. /\ NULL \notin L
      /\ \A h \in L : EndOf(M, h) = h + MallocHeaderSize + M[h].size /\ h \in Nat
      /\ \A h \in L : M[h].size \in Nat /\ N[h].size \in Nat /\ Until(M, h) \in Nat
      /\ MallocHeaderSize \in Nat
  <2>1. \A h \in L : N[h].size \in Nat
    BY DEF Header
  <2> QED
    BY <2>1, LayoutNat
<1>2. Sorted(N, L)
  BY DEF Layout, Sorted
<1>3. \A h \in L : EndOf(N, h) <= Until(N, h)
  <2> SUFFICES ASSUME NEW h \in L PROVE EndOf(N, h) <= Until(N, h)
    OBVIOUS
  <2>1. EndOf(M, h) <= Until(M, h)
    BY <1>1 DEF Layout
  <2>2. Until(N, h) = Until(M, h)
    BY DEF Until
  <2> QED
    BY <1>1, <2>1, <2>2 DEF EndOf
<1> QED
  BY <1>1, <1>2, <1>3 DEF Layout

(* A block is shortened to end before a new one that starts inside of it.  *)
LEMMA SplitLayout ==
  ASSUME NEW M, NEW L, Layout(M, L, NULL), NEW h \in L, NEW n,
         SplitAt(M, h, n, M[h].size),
         NEW N, N = [M EXCEPT ![h].next = n]
  PROVE  n \notin L /\ Layout(N, L \cup {n}, NULL)
<1> DEFINE K == L \cup {n}
<1>1. /\ MmapSize \in Nat /\ NULL = 0 /\ MallocHeaderSize \in Nat /\ MallocHeaderSize > 0
      /\ FirstHeader \in L /\ FirstHeader \in Nat \ {0}
      /\ \A g \in L : /\ g \in Nat \ {0} /\ g <= MmapSize /\ g \in DOMAIN M
                      /\ M[g].size \in Nat /\ M[g].next \in Nat
                      /\ EndOf(M, g) = g + MallocHeaderSize + M[g].size
                      /\ M[g].next # NULL => M[g].next \in L /\ g < M[g].next
  BY LayoutNat
<1>2. /\ n \in DOMAIN M /\ Multiple(n) /\ n = h + MallocHeaderSize + M[h].size
      /\ M[n].next = M[h].next /\ EndOf(M, n) <= Until(M, h)
      /\ n \in Nat /\ h < n /\ M[n] \in Header
  BY <1>1 DEF SplitAt, Layout
<1>3. M[n].size \in Nat /\ EndOf(M, n) = n + MallocHeaderSize + M[n].size
  BY <1>2 DEF EndOf, Header
<1>4. /\ \A f, g \in L : f < g => M[f].next # NULL /\ M[f].next <= g
      /\ \A g \in L : FirstHeader <= g
  BY DEF Layout, Sorted
<1>5. M[h].next # NULL => n < M[h].next
  BY <1>1, <1>2, <1>3 DEF Until
<1>6. \A g \in L : g # n /\ (g > n <=> g > h)
  <2> SUFFICES ASSUME NEW g \in L PROVE g # n /\ (g > n <=> g > h)
    OBVIOUS
  <2>1. g > h => g > n
    BY <1>1, <1>2, <1>4, <1>5
  <2> QED
    BY <1>1, <1>2, <2>1
<1>7. /\ DOMAIN N = DOMAIN M /\ N[n] = M[n]
      /\ \A g \in L \ {h} : N[g] = M[g]
      /\ N[h].next = n /\ N[h].size = M[h].size /\ N[h].prev = M[h].prev
  BY <1>1, <1>2 DEF Layout, Header
<1>8. \A g \in DOMAIN N : N[g] \in Header
  BY <1>1, <1>2 DEF Layout, Header
<1>9. Sorted(N, K)
  <2>1. \A g \in K : FirstHeader <= g /\ g \in DOMAIN N /\ g \in Nat
    BY <1>1, <1>2, <1>4, <1>7
  <2>2. \A g \in K : N[g].next # NULL => N[g].next \in K /\ g < N[g].next
    <3>1. N[h].next \in K /\ h < N[h].next
      BY <1>2, <1>7
    <3>2. N[n].next # NULL => N[n].next \in K /\ n < N[n].next
      BY <1>1, <1>2, <1>5, <1>7
    <3>3. \A g \in L \ {h} : N[g].next # NULL => N[g].next \in K /\ g < N[g].next
      BY <1>1, <1>7
    <3> QED
      BY <3>1, <3>2, <3>3
  <2>3. \A f, g \in K : f < g => N[f].next # NULL /\ N[f].next <= g
    <3> SUFFICES ASSUME NEW f \in K, NEW g \in K, f < g
                 PROVE  N[f].next # NULL /\ N[f].next <= g
      OBVIOUS
    <3>1. CASE f = h
      BY <1>1, <1>2, <1>6, <1>7, <3>1, <2>1
    <3>2. CASE f = n
      BY <1>1, <1>2, <1>4, <1>6, <1>7, <3>2, <2>1
    <3>3. CASE f \in L \ {h} /\ g \in L
      BY <1>4, <1>7, <3>3
    <3>4. CASE f \in L \ {h} /\ g = n
      <4>1. f < h
        BY <1>1, <1>2, <1>6, <3>4
      <4>2. M[f].next # NULL /\ M[f].next <= h /\ M[f].next \in Nat
        BY <1>1, <1>4, <3>4, <4>1
      <4> QED
        BY <1>1, <1>2, <1>7, <3>4, <4>2
    <3> QED
      BY <3>1, <3>2, <3>3, <3>4
  <2> QED
    BY <1>1, <2>1, <2>2, <2>3 DEF Sorted
<1>10. \A g \in K : Multiple(g)
  BY <1>2 DEF Layout
<1>11. N[FirstHeader].prev = NULL
  BY <1>1, <1>7 DEF Layout
<1>12. \A g \in K : EndOf(N, g) <= Until(N, g)
  <2>1. EndOf(N, h) <= Until(N, h)
    BY <1>1, <1>2, <1>7 DEF EndOf, Until
  <2>2. EndOf(N, n) <= Until(N, n)
    BY <1>2, <1>7 DEF EndOf, Until
  <2>3. \A g \in L \ {h} : EndOf(N, g) <= Until(N, g)
    BY <1>1, <1>7 DEF EndOf, Until, Layout
  <2> QED
    BY <2>1, <2>2, <2>3
<1>13. NULL \notin K
  BY <1>1, <1>2
<1> QED
  BY <1>6, <1>7, <1>8, <1>9, <1>10, <1>11, <1>12, <1>13 DEF Layout

(* The size of a block is increased by that of the next.                   *)
LEMMA GrowLayout ==
  ASSUME NEW M, NEW L, Layout(M, L, NULL), NEW h \in L, NEW n, n = M[h].next, n # NULL,
         NEW N, N = [M EXCEPT ![h].size = @ + M[n].size + MallocHeaderSize]
  PROVE  Layout(N, L, h)
<1>1. /\ NULL = 0 /\ MallocHeaderSize \in Nat /\ FirstHeader \in L
      /\ \A g \in L : /\ g \in Nat \ {0} /\ g \in DOMAIN M
                      /\ M[g].size \in Nat /\ M[g].next \in Nat
                      /\ EndOf(M, g) = g + MallocHeaderSize + M[g].size
                      /\ M[g].next # NULL => M[g].next \in L /\ g < M[g].next
  BY LayoutNat
<1>2. n \in L /\ h < n /\ n # h
  BY <1>1
<1>3. /\ DOMAIN N = DOMAIN M
      /\ \A g \in DOMAIN M \ {h} : N[g] = M[g]
      /\ N[h].next = n /\ N[h].size = M[h].size + M[n].size + MallocHeaderSize
      /\ N[h].prev = M[h].prev /\ N[h] \in Header
  BY <1>1, <1>2 DEF Layout, Header
<1>4. \A g \in DOMAIN N : N[g] \in Header
  BY <1>3 DEF Layout
<1>5. \A g \in L : N[g].next = M[g].next /\ N[g].prev = M[g].prev
  BY <1>1, <1>3
<1>6. Sorted(N, L)
  BY <1>3, <1>5 DEF Layout, Sorted
<1>7. \A g \in L : EndOf(N, g) <= IF g = h THEN EndOf(N, N[g].next) ELSE Until(N, g)
  <2>1. EndOf(M, h) <= n
    BY <1>1 DEF Layout, Until
  <2>2. EndOf(N, h) <= EndOf(N, N[h].next)
    BY <1>1, <1>2, <1>3, <2>1 DEF EndOf
  <2>3. \A g \in L \ {h} : EndOf(N, g) <= Until(N, g)
    BY <1>1, <1>3 DEF EndOf, Until, Layout
  <2> QED
    BY <2>2, <2>3
<1> QED
  BY <1>1, <1>3, <1>4, <1>5, <1>6, <1>7 DEF Layout

(* The grown block leads past the one it has swallowed.                    *)
LEMMA UnlinkLayout ==
  ASSUME NEW M, NEW L, NEW h \in L, Layout(M, L, h), NEW n, n = M[h].next, n # NULL,
         NEW N, N = [M EXCEPT ![h].next = M[n].next]
  PROVE  Layout(N, L \ {n}, NULL)
<1> DEFINE K == L \ {n}
<1>1. /\ NULL = 0 /\ MallocHeaderSize \in Nat /\ FirstHeader \in L /\ FirstHeader \in Nat \ {0}
      /\ \A g \in L : /\ g \in Nat \ {0} /\ g \in DOMAIN M
                      /\ M[g].size \in Nat /\ M[g].next \in Nat
                      /\ EndOf(M, g) = g + MallocHeaderSize + M[g].size
                      /\ M[g].next # NULL => M[g].next \in L /\ g < M[g].next
                                             /\ M[g].next # FirstHeader
  BY LayoutNat
<1>2. n \in L /\ h < n /\ n # h /\ n # FirstHeader
  BY <1>1
<1>3. /\ DOMAIN N = DOMAIN M
      /\ \A g \in DOMAIN M \ {h} : N[g] = M[g]
      /\ N[h].next = M[n].next /\ N[h].size = M[h].size
      /\ N[h].prev = M[h].prev /\ N[h] \in Header
  BY <1>1, <1>2 DEF Layout, Header
<1>4. /\ \A f, g \in L : f < g => M[f].next # NULL /\ M[f].next <= g
      /\ \A g \in L : FirstHeader <= g
  BY DEF Layout, Sorted
<1>5. \A g \in L \ {h} : M[g].next # n
  <2> SUFFICES ASSUME NEW g \in L \ {h}, M[g].next = n PROVE FALSE
    OBVIOUS
  <2>1. CASE g < h
    BY <1>1, <1>2, <1>4, <2>1
  <2>2. CASE h < g
    BY <1>1, <1>2, <1>4, <2>2
  <2> QED
    BY <1>1, <2>1, <2>2
<1>6. Sorted(N, K)
  <2>1. FirstHeader \in K /\ K \subseteq DOMAIN N
    BY <1>1, <1>2, <1>3
  <2>2. \A g \in K : N[g].next # NULL => N[g].next \in K /\ g < N[g].next
    <3>1. N[h].next # NULL => N[h].next \in K /\ h < N[h].next
      BY <1>1, <1>2, <1>3
    <3>2. \A g \in K \ {h} : N[g].next # NULL => N[g].next \in K /\ g < N[g].next
      BY <1>1, <1>3, <1>5
    <3> QED
      BY <3>1, <3>2
  <2>3. \A f, g \in K : f < g => N[f].next # NULL /\ N[f].next <= g
    <3> SUFFICES ASSUME NEW f \in K, NEW g \in K, f < g
                 PROVE  N[f].next # NULL /\ N[f].next <= g
      OBVIOUS
    <3>1. CASE f = h
      <4>1. n < g
        BY <1>1, <1>2, <1>4, <3>1
      <4> QED
        BY <1>2, <1>3, <1>4, <3>1, <4>1
    <3>2. CASE f # h
      BY <1>1, <1>3, <1>4, <3>2
    <3> QED
      BY <3>1, <3>2
  <2> QED
    BY <1>4, <2>1, <2>2, <2>3 DEF Sorted
<1>7. \A g \in K : EndOf(N, g) <= Until(N, g)
  <2>1. EndOf(M, h) <= EndOf(M, n) /\ EndOf(M, n) <= Until(M, n)
    BY <1>2 DEF Layout
  <2>2. EndOf(N, h) <= Until(N, h)
    <3>1. EndOf(N, h) = EndOf(M, h) /\ Until(N, h) = Until(M, n)
      BY <1>3 DEF EndOf, Until
    <3>2. Until(M, n) \in Nat /\ EndOf(M, n) \in Nat /\ EndOf(M, h) \in Nat
      BY <1>1, <1>2, LayoutNat
    <3> QED
      BY <2>1, <3>1, <3>2
  <2>3. \A g \in K \ {h} : EndOf(N, g) <= Until(N, g)
    BY <1>1, <1>3 DEF EndOf, Until, Layout
  <2> QED
    BY <2>2, <2>3
<1>8. \A g \in DOMAIN N : N[g] \in Header
  BY <1>3 DEF Layout
<1>9. N[FirstHeader].prev = NULL
  BY <1>1, <1>3 DEF Layout
<1>10. \A g \in K : Multiple(g)
  BY <1>1 DEF Layout
<1>11. DOMAIN N \subseteq 0 .. MmapSize
  BY <1>3 DEF Layout
<1>12. \A g \in K : EndOf(N, g) <= IF g = NULL THEN EndOf(N, N[g].next) ELSE Until(N, g)
  BY <1>1, <1>7
<1> QED
  BY <1>6, <1>8, <1>9, <1>10, <1>11, <1>12 DEF Layout

--------------------------------------------------------------------------------
(* Steps.                                                                  *)
CallInv == TypeOK /\ LockInv /\ ListInv

(* While one has the shared mutex no other is past its first lock.         *)
LEMMA OthersOut ==
  ASSUME LockInv, NEW p \in Procs, HasShared(p), NEW q \in Procs \ {p}
  PROVE  proc[q].pc \in {"idle", "lock"}
<1>1. ~HasShared(q)
  BY CrashAssumption DEF LockInv, Owners
<1> QED
  BY <1>1 DEF HasShared, LockInv, Places

LEMMA OutsideAlike ==
  ASSUME NEW r, r.pc \in {"idle", "lock"}, NEW M, NEW L, Taking(M, L, r), NEW N, NEW K
  PROVE  Taking(N, K, r) /\ Joins(N, K, r) /\ Grown(r) = NULL
  BY DEF Taking, Joins, Grown

(* The list is laid out as the holder's place says.                        *)
LEMMA HolderLayout ==
  ASSUME CallInv, NEW p \in Procs, HasShared(p)
  PROVE  Layout(mem, Linked(mem), Grown(proc[p]))
<1>1. \A q \in Procs \ {p} : Grown(proc[q]) = NULL
  BY OthersOut DEF CallInv, Grown
<1> QED
  BY <1>1 DEF CallInv, ListInv, Laid

(* A step of the holder p, after which p is r and the list consists of K:   *)
(* what clients and other calls own stays busy and as large, and what the  *)
(* call has taken nobody owned.                                            *)
Stores(p, r, K) ==
  /\ proc[p].pc \notin {"idle", "lock", "leave"}
  /\ r \in Proc /\ proc' = [proc EXCEPT ![p] = r]
  /\ Layout(mem', K, Grown(r)) /\ Taking(mem', K, r) /\ Joins(mem', K, r)
  /\ \A h \in Linked(mem) \ Held(proc[p]) : mem[h].status = BUSY =>
       h \in K /\ mem'[h].status = BUSY /\ mem'[h].size >= mem[h].size
  /\ \A h \in Held(r) : /\ h \in K /\ mem'[h].status = BUSY
                        /\ h \in Held(proc[p]) \/ mem[h].status = FREE
  /\ live' = live /\ mapped' = mapped /\ alive' = alive /\ crashes' = crashes
  /\ mutex' = mutex

LEMMA StoreStep ==
  ASSUME CallInv, NEW p \in Procs, HasShared(p), NEW r, NEW K, Stores(p, r, K)
  PROVE  TypeOK' /\ ListInv'
<1> DEFINE L == Linked(mem)
<1>0. /\ proc[p].pc \notin {"idle", "lock", "leave"}
      /\ r \in Proc /\ proc' = [proc EXCEPT ![p] = r]
      /\ Layout(mem', K, Grown(r)) /\ Taking(mem', K, r) /\ Joins(mem', K, r)
      /\ \A h \in L \ Held(proc[p]) : mem[h].status = BUSY =>
           h \in K /\ mem'[h].status = BUSY /\ mem'[h].size >= mem[h].size
      /\ \A h \in Held(r) : /\ h \in K /\ mem'[h].status = BUSY
                            /\ h \in Held(proc[p]) \/ mem[h].status = FREE
      /\ UNCHANGED <<live, mapped, alive, crashes>> /\ mutex' = mutex
  BY DEF Stores
<1> USE <1>0
<1>1. /\ proc \in [Procs -> Proc]
      /\ proc' \in [Procs -> Proc]
      /\ proc'[p] = r /\ \A q \in Procs \ {p} : proc'[q] = proc[q]
  BY DEF CallInv, TypeOK
<1>2. Linked(mem') = K
  BY LinkedIs DEF Layout
<1>3. TypeOK'
  <2>1. DOMAIN mem' \subseteq Nat /\ \A h \in DOMAIN mem' : mem'[h] \in Header
    BY CrashAssumption DEF Layout
  <2> QED
    BY <1>1, <2>1 DEF CallInv, TypeOK
<1>4. \A q \in Procs \ {p} : /\ Taking(mem', K, proc'[q]) /\ Joins(mem', K, proc'[q])
                             /\ Grown(proc'[q]) = NULL
  BY <1>1, OthersOut, OutsideAlike DEF CallInv, ListInv, Calls
<1>5. (Grown(proc[p]) = NULL \/ Grown(proc[p]) # NULL) /\ mapped
  BY DEF CallInv, ListInv, Gone
<1>6. Laid'
  <2>1. ASSUME \A q \in Procs : Grown(proc'[q]) = NULL
        PROVE  Layout(mem', K, NULL)
    BY <1>1, <2>1
  <2>2. ASSUME NEW q \in Procs, Grown(proc'[q]) # NULL
        PROVE  Layout(mem', K, Grown(proc'[q]))
    BY <1>1, <1>4, <2>2
  <2> QED
    BY <1>2, <2>1, <2>2 DEF Laid
<1>7. Calls'
  BY <1>1, <1>2, <1>4 DEF Calls
<1>8. Backed'
  <2>1. ASSUME NEW a \in live
        PROVE  /\ BusyIn(mem', K, a.block) /\ a.size <= mem'[a.block].size
               /\ \A b \in live \ {a} : b.block # a.block
               /\ \A q \in Procs : a.block \notin Held(proc'[q])
    <3>1. /\ a.block \in L /\ mem[a.block].status = BUSY
          /\ a.size <= mem[a.block].size
          /\ \A b \in live \ {a} : b.block # a.block
          /\ \A q \in Procs : a.block \notin Held(proc[q])
      BY DEF CallInv, ListInv, Backed, BusyIn
    <3>2. /\ a.block \in K /\ mem'[a.block].status = BUSY
          /\ mem'[a.block].size >= mem[a.block].size
      BY <3>1
    <3>3. a.size \in Nat /\ mem[a.block].size \in Nat /\ mem'[a.block].size \in Nat
      <4>1. a.block \in DOMAIN mem /\ a.block \in DOMAIN mem'
        BY <3>1, <3>2, HolderLayout DEF Layout, Sorted
      <4> QED
        BY <1>3, <4>1 DEF CallInv, TypeOK, Allocation, Header
    <3>4. a.block \notin Held(r)
      BY <3>1 DEF FREE, BUSY
    <3> QED
      BY <1>1, <3>1, <3>2, <3>3, <3>4 DEF BusyIn
  <2>2. ASSUME NEW q \in Procs, NEW h \in Held(proc'[q])
        PROVE  /\ BusyIn(mem', K, h)
               /\ \A s \in Procs \ {q} : h \notin Held(proc'[s])
    <3>1. ASSUME NEW s \in Procs \ {p}, NEW g \in Held(proc[s])
          PROVE  BusyIn(mem', K, g) /\ g \notin Held(r)
      <4>1. /\ g \in L /\ mem[g].status = BUSY /\ g \notin Held(proc[p])
        BY <3>1 DEF CallInv, ListInv, Backed, BusyIn
      <4> QED
        BY <4>1 DEF BusyIn, FREE, BUSY
    <3>2. CASE q = p
      BY <1>1, <2>2, <3>1, <3>2 DEF BusyIn
    <3>3. CASE q # p
      <4>1. h \in Held(proc[q])
        BY <1>1, <2>2, <3>3
      <4>2. \A s \in Procs \ {q} : h \notin Held(proc[s])
        BY <4>1 DEF CallInv, ListInv, Backed
      <4> QED
        BY <1>1, <3>1, <3>3, <4>1, <4>2
    <3> QED
      BY <3>2, <3>3
  <2>3. \A a \in live : /\ BusyIn(mem', K, a.block) /\ a.size <= mem'[a.block].size
                        /\ \A b \in live \ {a} : b.block # a.block
                        /\ \A q \in Procs : a.block \notin Held(proc'[q])
    BY <2>1
  <2>4. \A q \in Procs : /\ \A h \in Held(proc'[q]) : BusyIn(mem', K, h)
                         /\ \A s \in Procs \ {q} : Held(proc'[q]) \cap Held(proc'[s]) = {}
    BY <2>2
  <2> QED
    BY <1>2, <2>3, <2>4 DEF Backed
<1>9. Gone'
  BY <1>5 DEF Gone
<1> QED
  BY <1>3, <1>6, <1>7, <1>8, <1>9 DEF ListInv

(* A step that leaves the list and what clients own, after which p is r,   *)
(* holds no more than before, and has not swallowed a part of a block.     *)
Quiet(p, r) ==
  /\ r \in Proc /\ proc' = [proc EXCEPT ![p] = r]
  /\ Grown(proc[p]) = NULL /\ Grown(r) = NULL /\ Held(r) \subseteq Held(proc[p])
  /\ Taking(mem, Linked(mem), r) /\ Joins(mem, Linked(mem), r)
  /\ ~mapped => r.pc \in {"idle", "lock", "leave"} /\ r.got = NULL
  /\ mem' = mem /\ live' = live /\ mapped' = mapped

LEMMA QuietStep ==
  ASSUME CallInv, NEW p \in Procs, NEW r, Quiet(p, r),
         mutex' \in [Mutexes -> Mutex], alive' \subseteq Procs, crashes' \in 0 .. MaxCrashes
  PROVE  TypeOK' /\ ListInv'
<1> DEFINE L == Linked(mem)
<1>0. /\ r \in Proc /\ proc' = [proc EXCEPT ![p] = r]
      /\ Grown(proc[p]) = NULL /\ Grown(r) = NULL /\ Held(r) \subseteq Held(proc[p])
      /\ Taking(mem, L, r) /\ Joins(mem, L, r)
      /\ ~mapped => r.pc \in {"idle", "lock", "leave"} /\ r.got = NULL
      /\ UNCHANGED <<mem, live, mapped>>
  BY DEF Quiet
<1> USE <1>0
<1>1. /\ proc \in [Procs -> Proc]
      /\ proc' \in [Procs -> Proc]
      /\ proc'[p] = r /\ \A q \in Procs \ {p} : proc'[q] = proc[q]
  BY DEF CallInv, TypeOK
<1>2. Linked(mem') = L
  OBVIOUS
<1>3. TypeOK'
  BY <1>1 DEF CallInv, TypeOK
<1>4. \A q \in Procs : Grown(proc'[q]) = Grown(proc[q])
  BY <1>1
<1>5. Laid'
  <2>1. ASSUME \A q \in Procs : Grown(proc'[q]) = NULL
        PROVE  Layout(mem', L, NULL)
    BY <1>4, <2>1 DEF CallInv, ListInv, Laid
  <2>2. ASSUME NEW q \in Procs, Grown(proc'[q]) # NULL
        PROVE  Layout(mem', L, Grown(proc'[q]))
    BY <1>4, <2>2 DEF CallInv, ListInv, Laid
  <2> QED
    BY <1>2, <2>1, <2>2 DEF Laid
<1>6. Calls'
  <2>1. \A q \in Procs : Taking(mem', L, proc'[q]) /\ Joins(mem', L, proc'[q])
    BY <1>1 DEF CallInv, ListInv, Calls
  <2> QED
    BY <1>2, <2>1 DEF Calls
<1>7. \A q \in Procs : Held(proc'[q]) \subseteq Held(proc[q])
  BY <1>1
<1>8. Backed'
  <2>1. \A a \in live' : /\ BusyIn(mem', L, a.block) /\ a.size <= mem'[a.block].size
                         /\ \A b \in live' \ {a} : b.block # a.block
                         /\ \A q \in Procs : a.block \notin Held(proc'[q])
    BY <1>7 DEF CallInv, ListInv, Backed
  <2>2. \A q \in Procs : /\ \A h \in Held(proc'[q]) : BusyIn(mem', L, h)
                         /\ \A s \in Procs \ {q} : Held(proc'[q]) \cap Held(proc'[s]) = {}
    BY <1>7 DEF CallInv, ListInv, Backed
  <2> QED
    BY <1>2, <2>1, <2>2 DEF Backed
<1>9. Gone'
  BY <1>1 DEF CallInv, ListInv, Gone
<1> QED
  BY <1>3, <1>5, <1>6, <1>8, <1>9 DEF ListInv

(* What is known of a process that has both mutexes.                       *)
LEMMA AtPlace ==
  ASSUME CallInv, NEW p \in Procs, proc[p].pc \in Inside
  PROVE  /\ HasShared(p) /\ mapped /\ proc[p].pc \notin {"idle", "lock", "leave"}
         /\ proc \in [Procs -> Proc] /\ proc[p] \in Proc
         /\ Taking(mem, Linked(mem), proc[p]) /\ Joins(mem, Linked(mem), proc[p])
         /\ Layout(mem, Linked(mem), Grown(proc[p]))
         /\ mutex \in [Mutexes -> Mutex] /\ alive \subseteq Procs
         /\ crashes \in 0 .. MaxCrashes
<1>1. HasShared(p) /\ proc[p].pc \notin {"idle", "lock", "leave"}
  BY DEF CallInv, LockInv, Places, HasShared, Inside
<1> QED
  BY <1>1, HolderLayout DEF CallInv, TypeOK, ListInv, Calls, Gone

(* Process r is p at another place. *)
Moved(p, pc, r) ==
  /\ r \in Proc /\ proc' = [proc EXCEPT ![p] = r]
  /\ r.pc = pc /\ r.op = proc[p].op /\ r.size = proc[p].size
  /\ r.length = proc[p].length /\ r.h = proc[p].h /\ r.n = proc[p].n
  /\ r.own = proc[p].own /\ r.got = proc[p].got

LEMMA Goes ==
  ASSUME CallInv, NEW p \in Procs, NEW pc, pc \in Inside \cup {"mend", "leave"}, Goto(p, pc)
  PROVE  \E r : Moved(p, pc, r)
<1> DEFINE r == [proc[p] EXCEPT !.pc = pc]
<1>1. proc[p] \in Proc
  BY DEF CallInv, TypeOK
<1>2. /\ r \in Proc /\ r.pc = pc /\ r.op = proc[p].op /\ r.size = proc[p].size
      /\ r.length = proc[p].length /\ r.h = proc[p].h /\ r.n = proc[p].n
      /\ r.own = proc[p].own /\ r.got = proc[p].got
  BY <1>1 DEF Proc, Inside
<1>3. proc' = [proc EXCEPT ![p] = r]
  BY DEF Goto
<1> HIDE DEF r
<1> QED
  BY <1>2, <1>3 DEF Moved

(* No block of the list starts inside of another.                          *)
LEMMA InsideBlock ==
  ASSUME NEW M, NEW L, Layout(M, L, NULL), NEW h \in L, NEW n \in Nat, h < n, n < EndOf(M, h)
  PROVE  n \notin L /\ n <= MmapSize
<1>1. /\ NULL = 0 /\ MmapSize \in Nat /\ h \in Nat /\ h # NULL /\ EndOf(M, h) \in Nat
      /\ MallocHeaderSize \in Nat /\ M[h].size \in Nat
      /\ EndOf(M, h) = h + MallocHeaderSize + M[h].size
      /\ M[h].next \in Nat /\ (M[h].next # NULL => M[h].next \in L)
      /\ \A g \in L : g <= MmapSize
  BY LayoutNat
<1>2. EndOf(M, h) <= Until(M, h) /\ Until(M, h) <= MmapSize
  BY <1>1 DEF Layout, Until
<1>3. n \in L => M[h].next # NULL /\ M[h].next <= n
  BY DEF Layout, Sorted
<1> QED
  BY <1>1, <1>2, <1>3 DEF Until

LEMMA StoreHeaderStep ==
  ASSUME CallInv, NEW p \in Procs, StoreHeader(p)
  PROVE  TypeOK' /\ ListInv'
<1>1. PICK h, n, length : h = proc[p].h /\ n = proc[p].n /\ length = proc[p].length
  OBVIOUS
<1>2. PICK L : L = Linked(mem)
  OBVIOUS
<1>3. PICK header : header = [size   |-> mem[h].size - (length + MallocHeaderSize),
                              status |-> FREE, prev |-> h, next |-> mem[h].next]
  OBVIOUS
<1>4. /\ proc[p].pc = "header"
      /\ mem' = [g \in DOMAIN mem \cup {n} |-> IF g = n THEN header ELSE mem[g]]
      /\ Goto(p, "size")
      /\ UNCHANGED <<mapped, live, mutex, alive, crashes>>
  BY <1>1, <1>3 DEF StoreHeader, Store, After
<1>5. proc[p].pc \in Inside
  BY <1>4 DEF Inside
<1>6. /\ HasShared(p) /\ proc[p] \in Proc /\ Grown(proc[p]) = NULL
      /\ Taking(mem, L, proc[p]) /\ Layout(mem, L, NULL)
  BY <1>2, <1>4, <1>5, AtPlace DEF Grown
<1>7. /\ proc[p].op = "malloc" /\ proc[p].got = h /\ h \in L /\ proc[p].size <= length
      /\ mem[h].status = FREE /\ Multiple(length) /\ n = h + MallocHeaderSize + length
      /\ length + MallocHeaderSize < mem[h].size
  BY <1>1, <1>4, <1>6 DEF Taking
<1>8. /\ NULL = 0 /\ MallocHeaderSize \in Nat /\ MallocHeaderSize > 0 /\ MmapSize \in Nat
      /\ FirstHeader \in L
      /\ \A g \in L : /\ g \in Nat \ {0} /\ g <= MmapSize /\ g \in DOMAIN mem
                      /\ mem[g].size \in Nat /\ mem[g].next \in Nat
                      /\ EndOf(mem, g) = g + MallocHeaderSize + mem[g].size
                      /\ mem[g].next # NULL => mem[g].next \in L /\ g < mem[g].next
  BY <1>6, LayoutNat
<1>9. length \in Nat /\ proc[p].size \in Nat
  BY <1>1, <1>6 DEF Proc
<1>10. EndOf(mem, h) <= Until(mem, h)
  BY <1>6, <1>7, <1>8 DEF Layout
<1>11. n \in Nat /\ n > h /\ n < EndOf(mem, h)
  BY <1>7, <1>8, <1>9
<1>12. n \notin L /\ n <= MmapSize
  BY <1>6, <1>7, <1>11, InsideBlock
<1>13. header \in Header
  BY <1>3, <1>7, <1>8, <1>9 DEF Header
<1>14. /\ DOMAIN mem' = DOMAIN mem \cup {n} /\ mem'[n] = header
       /\ \A g \in DOMAIN mem : g # n => mem'[g] = mem[g]
  BY <1>4
<1>15. \A g \in L : mem'[g] = mem[g]
  BY <1>8, <1>12, <1>14
<1>16. Layout(mem', L, NULL)
  <2>1. DOMAIN mem' \subseteq 0 .. MmapSize /\ L \subseteq DOMAIN mem'
    BY <1>8, <1>11, <1>12, <1>14, <1>6 DEF Layout
  <2>2. \A g \in DOMAIN mem' : mem'[g] \in Header
    BY <1>6, <1>13, <1>14 DEF Layout
  <2>3. \A g \in L : mem'[g].next = mem[g].next /\ mem'[g].size <= mem[g].size
    BY <1>8, <1>15
  <2>4. mem'[FirstHeader].prev = NULL
    BY <1>6, <1>8, <1>15 DEF Layout
  <2> QED
    BY <1>6, <2>1, <2>2, <2>3, <2>4, SameLayout
<1>17a. PICK r : Moved(p, "size", r)
  <2>1. "size" \in Inside \cup {"mend", "leave"}
    BY DEF Inside
  <2> QED
    BY <1>4, <2>1, Goes
<1>17. /\ r \in Proc /\ proc' = [proc EXCEPT ![p] = r]
       /\ r.pc = "size" /\ r.op = "malloc" /\ r.size = proc[p].size
       /\ r.length = length /\ r.h = h /\ r.n = n /\ r.got = h
  BY <1>1, <1>7, <1>17a DEF Moved
<1>18. Held(r) = {} /\ Grown(r) = NULL
  BY <1>17 DEF Held, Grown
<1>19. Taking(mem', L, r)
  <2>1. Multiple(n)
    <3>1. Multiple(h)
      BY <1>6, <1>7 DEF Layout
    <3>2. Multiple(h + MallocHeaderSize)
      BY <1>7, <1>8, <3>1, MultipleSum, MultipleHeaders
    <3> QED
      BY <1>7, <1>8, <1>9, <3>2, MultipleSum
  <2>2. header.size = mem[h].size - (length + MallocHeaderSize) /\ header.next = mem[h].next
    BY <1>3
  <2>3. EndOf(mem', n) = EndOf(mem, h)
    BY <1>7, <1>8, <1>9, <1>14, <2>2 DEF EndOf
  <2>4. Until(mem', h) = Until(mem, h)
    BY <1>7, <1>15 DEF Until
  <2>5. SplitAt(mem', h, n, length) /\ length <= mem'[h].size
    <3>1. length <= mem[h].size
      BY <1>7, <1>8, <1>9
    <3> QED
      BY <1>7, <1>10, <1>14, <1>15, <2>1, <2>2, <2>3, <2>4, <3>1 DEF SplitAt
  <2>6. mem'[h].status = FREE
    BY <1>7, <1>15
  <2> QED
    BY <1>7, <1>17, <2>5, <2>6 DEF Taking
<1>20. Joins(mem', L, r)
  BY <1>17 DEF Joins
<1>21. \A g \in L \ Held(proc[p]) : mem[g].status = BUSY =>
         g \in L /\ mem'[g].status = BUSY /\ mem'[g].size >= mem[g].size
  BY <1>8, <1>15
<1>22. proc[p].pc \notin {"idle", "lock", "leave"}
  BY <1>4
<1> QED
  <2>1. Stores(p, r, L)
    BY <1>2, <1>4, <1>16, <1>17, <1>18, <1>19, <1>20, <1>21, <1>22 DEF Stores
  <2> QED
    BY <1>6, <2>1, StoreStep

LEMMA StoreSizeStep ==
  ASSUME CallInv, NEW p \in Procs, StoreSize(p)
  PROVE  TypeOK' /\ ListInv'
<1>1. PICK h, n, length, L : /\ h = proc[p].h /\ n = proc[p].n /\ length = proc[p].length
                             /\ L = Linked(mem)
  OBVIOUS
<1>2. /\ proc[p].pc = "size"
      /\ mem' = [mem EXCEPT ![h].size = length]
      /\ Goto(p, "status")
      /\ UNCHANGED <<mapped, live, mutex, alive, crashes>>
  BY <1>1 DEF StoreSize, Store, After
<1>3. proc[p].pc \in Inside /\ "status" \in Inside \cup {"mend", "leave"}
  BY <1>2 DEF Inside
<1>4. /\ HasShared(p) /\ proc[p] \in Proc /\ Grown(proc[p]) = NULL
      /\ Taking(mem, L, proc[p]) /\ Layout(mem, L, NULL)
  BY <1>1, <1>2, <1>3, AtPlace DEF Grown
<1>5. /\ proc[p].op = "malloc" /\ proc[p].got = h /\ h \in L /\ proc[p].size <= length
      /\ mem[h].status = FREE
      /\ \/ SplitAt(mem, h, n, length) /\ length <= mem[h].size
         \/ n = mem[h].next /\ length = mem[h].size
  BY <1>1, <1>2, <1>4 DEF Taking
<1>6. /\ NULL = 0 /\ MallocHeaderSize \in Nat /\ MallocHeaderSize > 0
      /\ FirstHeader \in L
      /\ \A g \in L : g \in Nat /\ g \in DOMAIN mem /\ mem[g].size \in Nat
  BY <1>4, LayoutNat
<1>7. length \in Nat
  BY <1>1, <1>4 DEF Proc
<1>8. length <= mem[h].size
  BY <1>5, <1>6, <1>7
<1>9. /\ DOMAIN mem' = DOMAIN mem
      /\ \A g \in DOMAIN mem : g # h => mem'[g] = mem[g]
      /\ mem'[h].size = length /\ mem'[h].status = mem[h].status
      /\ mem'[h].prev = mem[h].prev /\ mem'[h].next = mem[h].next /\ mem'[h] \in Header
  BY <1>2, <1>4, <1>5, <1>6, <1>7 DEF Layout, Header
<1>10. \A g \in L : /\ mem'[g].next = mem[g].next /\ mem'[g].prev = mem[g].prev
                    /\ mem'[g].status = mem[g].status /\ mem'[g].size <= mem[g].size
  BY <1>6, <1>8, <1>9
<1>11. Layout(mem', L, NULL)
  <2>1. DOMAIN mem' \subseteq 0 .. MmapSize /\ L \subseteq DOMAIN mem'
    BY <1>6, <1>9, <1>4 DEF Layout
  <2>2. \A g \in DOMAIN mem' : mem'[g] \in Header
    BY <1>4, <1>9 DEF Layout
  <2>3. mem'[FirstHeader].prev = NULL
    BY <1>4, <1>6, <1>10 DEF Layout
  <2> QED
    BY <1>4, <1>10, <2>1, <2>2, <2>3, SameLayout
<1>12. PICK r : Moved(p, "status", r)
  BY <1>2, <1>3, Goes
<1>13. /\ r \in Proc /\ proc' = [proc EXCEPT ![p] = r]
       /\ r.pc = "status" /\ r.op = "malloc" /\ r.size = proc[p].size
       /\ r.length = length /\ r.h = h /\ r.n = n /\ r.got = h
  BY <1>1, <1>5, <1>12 DEF Moved
<1>14. Held(r) = {} /\ Grown(r) = NULL
  BY <1>13 DEF Held, Grown
<1>15. Taking(mem', L, r)
  <2>1. SplitAt(mem, h, n, length) => SplitAt(mem', h, n, length)
    <3> SUFFICES ASSUME SplitAt(mem, h, n, length) PROVE SplitAt(mem', h, n, length)
      OBVIOUS
    <3>1. n # h /\ n \in DOMAIN mem
      BY <1>5, <1>6, <1>7 DEF SplitAt
    <3>2. mem'[n] = mem[n] /\ Until(mem', h) = Until(mem, h)
      BY <1>9, <3>1 DEF Until
    <3> QED
      BY <1>9, <3>1, <3>2 DEF SplitAt, EndOf
  <2> QED
    BY <1>5, <1>9, <1>13, <2>1 DEF Taking
<1>16. Joins(mem', L, r)
  BY <1>13 DEF Joins
<1>17. \A g \in L \ Held(proc[p]) : mem[g].status = BUSY =>
         g \in L /\ mem'[g].status = BUSY /\ mem'[g].size >= mem[g].size
  BY <1>5, <1>6, <1>9 DEF FREE, BUSY
<1> QED
  <2>1. Stores(p, r, L)
    BY <1>1, <1>2, <1>11, <1>13, <1>14, <1>15, <1>16, <1>17 DEF Stores
  <2> QED
    BY <1>4, <2>1, StoreStep

LEMMA StoreStatusStep ==
  ASSUME CallInv, NEW p \in Procs, StoreStatus(p)
  PROVE  TypeOK' /\ ListInv'
<1>1. PICK h, n, length, L : /\ h = proc[p].h /\ n = proc[p].n /\ length = proc[p].length
                             /\ L = Linked(mem)
  OBVIOUS
<1>2. /\ proc[p].pc = "status"
      /\ mem' = [mem EXCEPT ![h].status = BUSY]
      /\ Goto(p, "next")
      /\ UNCHANGED <<mapped, live, mutex, alive, crashes>>
  BY <1>1 DEF StoreStatus, Store, After
<1>3. proc[p].pc \in Inside /\ "next" \in Inside \cup {"mend", "leave"}
  BY <1>2 DEF Inside
<1>4. /\ HasShared(p) /\ proc[p] \in Proc /\ Grown(proc[p]) = NULL
      /\ Taking(mem, L, proc[p]) /\ Layout(mem, L, NULL)
  BY <1>1, <1>2, <1>3, AtPlace DEF Grown
<1>5. /\ proc[p].op = "malloc" /\ proc[p].got = h /\ h \in L /\ proc[p].size <= length
      /\ mem[h].status = FREE /\ length = mem[h].size
      /\ SplitAt(mem, h, n, length) \/ n = mem[h].next
  BY <1>1, <1>2, <1>4 DEF Taking
<1>6. /\ NULL = 0 /\ MallocHeaderSize \in Nat /\ MallocHeaderSize > 0
      /\ FirstHeader \in L
      /\ \A g \in L : g \in Nat /\ g \in DOMAIN mem /\ mem[g].size \in Nat
  BY <1>4, LayoutNat
<1>9. /\ DOMAIN mem' = DOMAIN mem
      /\ \A g \in DOMAIN mem : g # h => mem'[g] = mem[g]
      /\ mem'[h].size = mem[h].size /\ mem'[h].status = BUSY
      /\ mem'[h].prev = mem[h].prev /\ mem'[h].next = mem[h].next /\ mem'[h] \in Header
  BY <1>2, <1>4, <1>5, <1>6 DEF Layout, Header
<1>10. \A g \in L : /\ mem'[g].next = mem[g].next /\ mem'[g].prev = mem[g].prev
                    /\ mem'[g].size = mem[g].size
  BY <1>6, <1>9
<1>11. Layout(mem', L, NULL)
  <2>1. DOMAIN mem' \subseteq 0 .. MmapSize /\ L \subseteq DOMAIN mem'
    BY <1>6, <1>9, <1>4 DEF Layout
  <2>2. \A g \in DOMAIN mem' : mem'[g] \in Header
    BY <1>4, <1>9 DEF Layout
  <2>3. mem'[FirstHeader].prev = NULL
    BY <1>4, <1>6, <1>10 DEF Layout
  <2>4. \A g \in L : mem'[g].next = mem[g].next /\ mem'[g].size <= mem[g].size
    BY <1>6, <1>10
  <2> QED
    BY <1>4, <2>1, <2>2, <2>3, <2>4, SameLayout
<1>12. PICK r : Moved(p, "next", r)
  BY <1>2, <1>3, Goes
<1>13. /\ r \in Proc /\ proc' = [proc EXCEPT ![p] = r]
       /\ r.pc = "next" /\ r.op = "malloc" /\ r.size = proc[p].size
       /\ r.length = length /\ r.h = h /\ r.n = n /\ r.got = h
  BY <1>1, <1>5, <1>12 DEF Moved
<1>14. Held(r) \subseteq {h} /\ Grown(r) = NULL
  BY <1>13 DEF Held, Grown
<1>15. Taking(mem', L, r)
  <2>1. SplitAt(mem, h, n, length) => SplitAt(mem', h, n, length)
    <3> SUFFICES ASSUME SplitAt(mem, h, n, length) PROVE SplitAt(mem', h, n, length)
      OBVIOUS
    <3>1. n # h /\ n \in DOMAIN mem
      BY <1>5, <1>6 DEF SplitAt
    <3>2. mem'[n] = mem[n] /\ Until(mem', h) = Until(mem, h)
      BY <1>9, <3>1 DEF Until
    <3> QED
      BY <1>9, <3>1, <3>2 DEF SplitAt, EndOf
  <2> QED
    BY <1>5, <1>9, <1>13, <2>1 DEF Taking
<1>16. Joins(mem', L, r)
  BY <1>13 DEF Joins
<1>17. \A g \in L \ Held(proc[p]) : mem[g].status = BUSY =>
         g \in L /\ mem'[g].status = BUSY /\ mem'[g].size >= mem[g].size
  BY <1>5, <1>6, <1>9 DEF FREE, BUSY
<1>18. \A g \in Held(r) : /\ g \in L /\ mem'[g].status = BUSY
                          /\ g \in Held(proc[p]) \/ mem[g].status = FREE
  BY <1>5, <1>9, <1>14
<1> QED
  <2>1. Stores(p, r, L)
    BY <1>1, <1>2, <1>11, <1>13, <1>14, <1>15, <1>16, <1>17, <1>18 DEF Stores
  <2> QED
    BY <1>4, <2>1, StoreStep

LEMMA StoreNextStep ==
  ASSUME CallInv, NEW p \in Procs, StoreNext(p)
  PROVE  TypeOK' /\ ListInv'
<1>1. PICK h, n, length, L : /\ h = proc[p].h /\ n = proc[p].n /\ length = proc[p].length
                             /\ L = Linked(mem)
  OBVIOUS
<1>2. /\ proc[p].pc = "next"
      /\ mem' = [mem EXCEPT ![h].next = n]
      /\ Goto(p, "prev")
      /\ UNCHANGED <<mapped, live, mutex, alive, crashes>>
  BY <1>1 DEF StoreNext, Store, After
<1>3. proc[p].pc \in Inside /\ "prev" \in Inside \cup {"mend", "leave"}
  BY <1>2 DEF Inside
<1>4. /\ HasShared(p) /\ proc[p] \in Proc /\ Grown(proc[p]) = NULL
      /\ Taking(mem, L, proc[p]) /\ Layout(mem, L, NULL)
  BY <1>1, <1>2, <1>3, AtPlace DEF Grown
<1>5. /\ proc[p].op = "malloc" /\ proc[p].got = h /\ h \in L /\ proc[p].size <= length
      /\ length = mem[h].size
      /\ SplitAt(mem, h, n, length) \/ n = mem[h].next
  BY <1>1, <1>2, <1>4 DEF Taking
<1>6. /\ NULL = 0 /\ FirstHeader \in L
      /\ \A g \in L : g \in Nat /\ g # 0 /\ g \in DOMAIN mem /\ mem[g].size \in Nat
  BY <1>4, LayoutNat
<1>7. n \in Nat
  BY <1>1, <1>4 DEF Proc
<1>9. /\ DOMAIN mem' = DOMAIN mem
      /\ \A g \in DOMAIN mem : g # h => mem'[g] = mem[g]
      /\ mem'[h].size = mem[h].size /\ mem'[h].status = mem[h].status
      /\ mem'[h].prev = mem[h].prev /\ mem'[h].next = n /\ mem'[h] \in Header
  BY <1>2, <1>4, <1>5, <1>6, <1>7 DEF Layout, Header
<1>10. \A g \in L : /\ mem'[g].prev = mem[g].prev /\ mem'[g].status = mem[g].status
                    /\ mem'[g].size = mem[g].size
  BY <1>6, <1>9
<1>11. \E K : L \subseteq K /\ Layout(mem', K, NULL)
  <2>1. CASE SplitAt(mem, h, n, length)
    BY <1>2, <1>4, <1>5, <2>1, SplitLayout
  <2>2. CASE n = mem[h].next
    <3>1. DOMAIN mem' \subseteq 0 .. MmapSize /\ L \subseteq DOMAIN mem'
      BY <1>6, <1>9, <1>4 DEF Layout
    <3>2. \A g \in DOMAIN mem' : mem'[g] \in Header
      BY <1>4, <1>9 DEF Layout
    <3>3. mem'[FirstHeader].prev = NULL
      BY <1>4, <1>6, <1>10 DEF Layout
    <3>4. \A g \in L : mem'[g].next = mem[g].next /\ mem'[g].size <= mem[g].size
      BY <1>6, <1>9, <1>10, <2>2
    <3> QED
      BY <1>4, <3>1, <3>2, <3>3, <3>4, SameLayout
  <2> QED
    BY <1>5, <2>1, <2>2
<1>11a. PICK K : L \subseteq K /\ Layout(mem', K, NULL)
  BY <1>11
<1>12. PICK r : Moved(p, "prev", r)
  BY <1>2, <1>3, Goes
<1>13. /\ r \in Proc /\ proc' = [proc EXCEPT ![p] = r]
       /\ r.pc = "prev" /\ r.op = "malloc" /\ r.size = proc[p].size
       /\ r.length = length /\ r.h = h /\ r.n = n /\ r.got = h
  BY <1>1, <1>5, <1>12 DEF Moved
<1>14. Held(r) = {h} /\ Held(proc[p]) = {h} /\ Grown(r) = NULL
  BY <1>2, <1>5, <1>6, <1>13 DEF Held, Grown
<1>15. Taking(mem', K, r)
  BY <1>5, <1>9, <1>11a, <1>13 DEF Taking
<1>16. Joins(mem', K, r)
  BY <1>13 DEF Joins
<1>17. \A g \in L \ Held(proc[p]) : mem[g].status = BUSY =>
         g \in K /\ mem'[g].status = BUSY /\ mem'[g].size >= mem[g].size
  BY <1>6, <1>10, <1>11a
<1>18. \A g \in Held(r) : /\ g \in K /\ mem'[g].status = BUSY
                          /\ g \in Held(proc[p]) \/ mem[g].status = FREE
  <2>1. mem[h].status = BUSY
    BY <1>1, <1>14 DEF CallInv, ListInv, Backed, BusyIn
  <2> QED
    BY <1>5, <1>9, <1>11a, <1>14, <2>1
<1> QED
  <2>1. Stores(p, r, K)
    BY <1>1, <1>2, <1>11a, <1>13, <1>14, <1>15, <1>16, <1>17, <1>18 DEF Stores
  <2> QED
    BY <1>4, <2>1, StoreStep

LEMMA StorePrevStep ==
  ASSUME CallInv, NEW p \in Procs, StorePrev(p)
  PROVE  TypeOK' /\ ListInv'
<1>1. PICK h, n, length, L : /\ h = proc[p].h /\ n = proc[p].n /\ length = proc[p].length
                             /\ L = Linked(mem)
  OBVIOUS
<1>2. /\ proc[p].pc = "prev"
      /\ mem' = IF n = NULL \/ mem[n].next = NULL THEN mem
                ELSE [mem EXCEPT ![mem[n].next].prev = n]
      /\ Goto(p, "unlock")
      /\ UNCHANGED <<mapped, live, mutex, alive, crashes>>
  BY <1>1 DEF StorePrev, Store, After
<1>3. proc[p].pc \in Inside /\ "unlock" \in Inside \cup {"mend", "leave"}
  BY <1>2 DEF Inside
<1>4. /\ HasShared(p) /\ proc[p] \in Proc /\ Grown(proc[p]) = NULL
      /\ Taking(mem, L, proc[p]) /\ Layout(mem, L, NULL)
  BY <1>1, <1>2, <1>3, AtPlace DEF Grown
<1>5. /\ proc[p].op = "malloc" /\ proc[p].got = h /\ h \in L /\ proc[p].size <= length
      /\ length = mem[h].size /\ n = mem[h].next
  BY <1>1, <1>2, <1>4 DEF Taking
<1>6. /\ NULL = 0 /\ FirstHeader \in L
      /\ \A g \in L : /\ g \in Nat /\ g # 0 /\ g \in DOMAIN mem /\ mem[g].size \in Nat
                      /\ mem[g].next \in Nat
                      /\ mem[g].next # NULL => mem[g].next \in L /\ g < mem[g].next
                                               /\ mem[g].next # FirstHeader
  BY <1>4, LayoutNat
<1>7. n \in Nat /\ (n # NULL => n \in L)
  BY <1>5, <1>6
<1>8. PICK x : x = mem[n].next
  OBVIOUS
<1>9. /\ DOMAIN mem' = DOMAIN mem
      /\ \A g \in DOMAIN mem : /\ mem'[g] \in Header
                               /\ mem'[g].next = mem[g].next /\ mem'[g].size = mem[g].size
                               /\ mem'[g].status = mem[g].status
                               /\ g = FirstHeader => mem'[g].prev = mem[g].prev
  <2>1. CASE n = NULL \/ x = NULL
    BY <1>2, <1>4, <1>8, <2>1 DEF Layout
  <2>2. CASE n # NULL /\ x # NULL
    <3>1. mem' = [mem EXCEPT ![x].prev = n] /\ x \in DOMAIN mem /\ x # FirstHeader
      BY <1>2, <1>6, <1>7, <1>8, <2>2
    <3>2. \A g \in DOMAIN mem : mem[g] \in Header
      BY <1>4 DEF Layout
    <3> QED
      BY <1>7, <3>1, <3>2 DEF Header
  <2> QED
    BY <2>1, <2>2
<1>11. Layout(mem', L, NULL)
  <2>1. DOMAIN mem' \subseteq 0 .. MmapSize /\ L \subseteq DOMAIN mem'
    BY <1>6, <1>9, <1>4 DEF Layout
  <2>2. \A g \in DOMAIN mem' : mem'[g] \in Header
    BY <1>9
  <2>3. mem'[FirstHeader].prev = NULL
    BY <1>4, <1>6, <1>9 DEF Layout
  <2>4. \A g \in L : mem'[g].next = mem[g].next /\ mem'[g].size <= mem[g].size
    BY <1>6, <1>9
  <2> QED
    BY <1>4, <2>1, <2>2, <2>3, <2>4, SameLayout
<1>12. PICK r : Moved(p, "unlock", r)
  BY <1>2, <1>3, Goes
<1>13. /\ r \in Proc /\ proc' = [proc EXCEPT ![p] = r]
       /\ r.pc = "unlock" /\ r.op = "malloc" /\ r.size = proc[p].size
       /\ r.length = length /\ r.h = h /\ r.n = n /\ r.got = h
  BY <1>1, <1>5, <1>12 DEF Moved
<1>14. Held(r) = {h} /\ Held(proc[p]) = {h} /\ Grown(r) = NULL
  BY <1>2, <1>5, <1>6, <1>13 DEF Held, Grown
<1>15. Taking(mem', L, r)
  BY <1>5, <1>6, <1>9, <1>13 DEF Taking
<1>16. Joins(mem', L, r)
  BY <1>13 DEF Joins
<1>17. \A g \in L \ Held(proc[p]) : mem[g].status = BUSY =>
         g \in L /\ mem'[g].status = BUSY /\ mem'[g].size >= mem[g].size
  BY <1>6, <1>9
<1>18. \A g \in Held(r) : /\ g \in L /\ mem'[g].status = BUSY
                          /\ g \in Held(proc[p]) \/ mem[g].status = FREE
  <2>1. mem[h].status = BUSY
    BY <1>1, <1>14 DEF CallInv, ListInv, Backed, BusyIn
  <2> QED
    BY <1>5, <1>6, <1>9, <1>14, <2>1
<1> QED
  <2>1. Stores(p, r, L)
    BY <1>1, <1>2, <1>11, <1>13, <1>14, <1>15, <1>16, <1>17, <1>18 DEF Stores
  <2> QED
    BY <1>4, <2>1, StoreStep

(* A process that gives up a search, or a check, has nothing.              *)
LEMMA GiveUpStep ==
  ASSUME CallInv, NEW p \in Procs, proc[p].pc = "search", Goto(p, "unlock"),
         UNCHANGED <<mem, mapped, live, mutex, alive, crashes>>
  PROVE  TypeOK' /\ ListInv'
<1>1. proc[p].pc \in Inside /\ "unlock" \in Inside \cup {"mend", "leave"}
  BY DEF Inside
<1>2. /\ mapped /\ Grown(proc[p]) = NULL /\ Taking(mem, Linked(mem), proc[p])
      /\ mutex \in [Mutexes -> Mutex] /\ alive \subseteq Procs /\ crashes \in 0 .. MaxCrashes
  BY <1>1, AtPlace DEF Grown
<1>3. proc[p].got = NULL
  BY <1>2 DEF Taking
<1>4. PICK r : Moved(p, "unlock", r)
  BY <1>1, Goes
<1>5. r \in Proc /\ proc' = [proc EXCEPT ![p] = r] /\ r.pc = "unlock" /\ r.got = NULL
  BY <1>3, <1>4 DEF Moved
<1>6. Held(r) = {} /\ Grown(r) = NULL
  BY <1>5 DEF Held, Grown
<1>7. Taking(mem, Linked(mem), r) /\ Joins(mem, Linked(mem), r)
  BY <1>5 DEF Taking, Joins
<1>8. Quiet(p, r)
  BY <1>2, <1>5, <1>6, <1>7 DEF Quiet
<1> QED
  BY <1>2, <1>8, QuietStep

(* A list that passes the check links back.                                *)
LEMMA PassesLinksBack ==
  ASSUME Passes(mem), Sorted(mem, Linked(mem))
  PROVE  LinksBack(mem, Linked(mem))
<1>1. /\ DOMAIN List(mem) = Linked(mem)
      /\ \A h \in Linked(mem) : List(mem)[h] = mem[h]
  BY DEF List
<1> SUFFICES ASSUME NEW h \in Linked(mem), mem[h].next # NULL
             PROVE  mem[mem[h].next].prev = h
  BY DEF LinksBack
<1>2. List(mem)[mem[h].next].prev = h
  BY <1>1 DEF Passes, CheckMmapBlock
<1>3. mem[h].next \in Linked(mem)
  BY DEF Sorted
<1> QED
  BY <1>1, <1>2, <1>3

LEMMA SearchStep ==
  ASSUME CallInv, NEW p \in Procs, Search(p)
  PROVE  TypeOK' /\ ListInv'
<1>1. PICK L, size, h : /\ L = Linked(mem) /\ size = proc[p].size
                        /\ h = FirstFit(List(mem), size)
  OBVIOUS
<1> DEFINE split == [proc[p] EXCEPT !.pc = "header", !.h = h, !.got = h,
                       !.n = Remainder(h, size), !.length = RoundUp(size)]
           whole == [proc[p] EXCEPT !.pc = "size", !.h = h, !.got = h,
                       !.n = mem[h].next, !.length = mem[h].size]
<1>2. /\ proc[p].pc = "search" /\ proc[p].op = "malloc"
      /\ UNCHANGED <<mem, mapped, live, mutex, alive, crashes>>
      /\ \/ /\ Fits(List(mem), size) # {}
            /\ \/ Splits(mem, h, size) /\ proc' = [proc EXCEPT ![p] = split]
               \/ proc' = [proc EXCEPT ![p] = whole]
         \/ Goto(p, "unlock")
  <2> HIDE DEF split, whole
  <2>1. \/ /\ Fits(List(mem), size) # {}
           /\ proc' = [proc EXCEPT ![p] = IF Splits(mem, h, size) THEN split ELSE whole]
        \/ Goto(p, "unlock")
    BY <1>1 DEF Search, split, whole
  <2> QED
    BY <2>1 DEF Search
<1>3. proc[p].pc \in Inside
  BY <1>2 DEF Inside
<1>4. /\ mapped /\ proc[p] \in Proc /\ Grown(proc[p]) = NULL /\ Layout(mem, L, NULL)
      /\ mutex \in [Mutexes -> Mutex] /\ alive \subseteq Procs /\ crashes \in 0 .. MaxCrashes
  BY <1>1, <1>2, <1>3, AtPlace DEF Grown
<1>5. size \in Nat
  BY <1>1, <1>4 DEF Proc
<1>6. CASE Goto(p, "unlock")
  BY <1>2, <1>6, GiveUpStep
<1>7. CASE /\ Fits(List(mem), size) # {}
           /\ \/ Splits(mem, h, size) /\ proc' = [proc EXCEPT ![p] = split]
              \/ proc' = [proc EXCEPT ![p] = whole]
  <2>1. h \in Fits(List(mem), size)
    <3>1. Sorted(mem, L) /\ DOMAIN mem \subseteq 0 .. MmapSize
      BY <1>4 DEF Layout
    <3>2. PICK B : B = List(mem) /\ B = [g \in L |-> mem[g]]
      BY <1>1 DEF List
    <3> QED
      BY <1>1, <1>7, <3>1, <3>2, FirstFitFits
  <2>2. h \in L /\ mem[h].status = FREE /\ size <= mem[h].size
    BY <1>1, <2>1 DEF Fits, List
  <2>3. mem[h].size \in Nat /\ mem[h].next \in Nat /\ h \in Nat /\ MallocHeaderSize \in Nat
    BY <1>4, <2>2, LayoutNat
  <2>4. RoundUp(size) \in Nat /\ size <= RoundUp(size) /\ Multiple(RoundUp(size))
    BY <1>5, RoundUpBounds, RoundUpMultiple
  <2>5. Remainder(h, size) \in Nat /\ Remainder(h, size) = h + MallocHeaderSize + RoundUp(size)
    BY <2>3, <2>4 DEF Remainder
  <2>6. CASE Splits(mem, h, size) /\ proc' = [proc EXCEPT ![p] = split]
    <3>1. /\ split \in Proc /\ split.pc = "header" /\ split.op = "malloc" /\ split.h = h
          /\ split.got = h /\ split.n = Remainder(h, size) /\ split.length = RoundUp(size)
          /\ split.size = size
      <4>1. split \in Proc
        BY <1>4, <2>3, <2>4, <2>5 DEF Proc
      <4>2. split.pc = "header" /\ split.op = "malloc" /\ split.size = size
        BY <1>1, <1>2, <1>4 DEF Proc
      <4>3. /\ split.h = h /\ split.got = h /\ split.n = Remainder(h, size)
            /\ split.length = RoundUp(size)
        BY <1>4 DEF Proc
      <4> QED
        BY <4>1, <4>2, <4>3
    <3>2. PICK r : r = split
      OBVIOUS
    <3> HIDE DEF split
    <3>3. Held(r) = {} /\ Grown(r) = NULL
      BY <3>1, <3>2 DEF Held, Grown
    <3>4. RoundUp(size) + MallocHeaderSize < mem[h].size
      BY <2>3, <2>4, <2>6 DEF Splits
    <3>5. Taking(mem, L, r) /\ Joins(mem, L, r)
      BY <2>2, <2>4, <2>5, <3>1, <3>2, <3>4 DEF Taking, Joins
    <3>6. Quiet(p, r)
      BY <1>1, <1>2, <1>4, <2>6, <3>1, <3>2, <3>3, <3>5 DEF Quiet
    <3> QED
      BY <1>2, <1>4, <3>6, QuietStep
  <2>7. CASE proc' = [proc EXCEPT ![p] = whole]
    <3>1. /\ whole \in Proc /\ whole.pc = "size" /\ whole.op = "malloc" /\ whole.h = h
          /\ whole.got = h /\ whole.n = mem[h].next /\ whole.length = mem[h].size
          /\ whole.size = size
      <4>1. whole \in Proc
        BY <1>4, <2>3 DEF Proc
      <4>2. whole.pc = "size" /\ whole.op = "malloc" /\ whole.size = size
        BY <1>1, <1>2, <1>4 DEF Proc
      <4>3. /\ whole.h = h /\ whole.got = h /\ whole.n = mem[h].next
            /\ whole.length = mem[h].size
        BY <1>4 DEF Proc
      <4> QED
        BY <4>1, <4>2, <4>3
    <3>2. PICK r : r = whole
      OBVIOUS
    <3> HIDE DEF whole
    <3>3. Held(r) = {} /\ Grown(r) = NULL
      BY <3>1, <3>2 DEF Held, Grown
    <3>5. Taking(mem, L, r) /\ Joins(mem, L, r)
      BY <2>2, <3>1, <3>2 DEF Taking, Joins
    <3>6. Quiet(p, r)
      BY <1>1, <1>2, <1>4, <2>7, <3>1, <3>2, <3>3, <3>5 DEF Quiet
    <3> QED
      BY <1>2, <1>4, <3>6, QuietStep
  <2> QED
    BY <1>7, <2>6, <2>7
<1> QED
  BY <1>2, <1>6, <1>7

LEMMA CheckStep ==
  ASSUME CallInv, NEW p \in Procs, Check(p)
  PROVE  TypeOK' /\ ListInv'
<1>1. /\ proc[p].pc = "search" /\ proc[p].op = "free"
      /\ UNCHANGED <<mem, mapped, live, mutex, alive, crashes>>
      /\ \/ Passes(mem) /\ Goto(p, "free")
         \/ Goto(p, "unlock")
  BY DEF Check
<1>2. proc[p].pc \in Inside /\ "free" \in Inside \cup {"mend", "leave"}
  BY <1>1 DEF Inside
<1>3. PICK L : L = Linked(mem)
  OBVIOUS
<1>4. /\ mapped /\ Grown(proc[p]) = NULL /\ Taking(mem, L, proc[p]) /\ Sorted(mem, L)
      /\ mutex \in [Mutexes -> Mutex] /\ alive \subseteq Procs /\ crashes \in 0 .. MaxCrashes
  BY <1>1, <1>2, <1>3, AtPlace DEF Grown, Layout
<1>5. CASE Passes(mem) /\ Goto(p, "free")
  <2>1. PICK r : Moved(p, "free", r)
    BY <1>2, <1>5, Goes
  <2>2. /\ r \in Proc /\ proc' = [proc EXCEPT ![p] = r]
        /\ r.pc = "free" /\ r.op = "free" /\ r.own = proc[p].own /\ r.got = NULL
    BY <1>1, <1>4, <2>1 DEF Moved, Taking
  <2>3. Held(r) = Held(proc[p]) /\ Grown(r) = NULL
    BY <1>1, <2>2 DEF Held, Grown
  <2>4. Taking(mem, L, r) /\ Joins(mem, L, r)
    BY <1>3, <1>4, <1>5, <2>2, PassesLinksBack DEF Taking, Joins
  <2>5. Quiet(p, r)
    BY <1>1, <1>3, <1>4, <2>2, <2>3, <2>4 DEF Quiet
  <2> QED
    BY <1>1, <1>4, <2>5, QuietStep
<1>6. CASE Goto(p, "unlock")
  BY <1>1, <1>6, GiveUpStep
<1> QED
  BY <1>1, <1>5, <1>6

(* What a call of vgc_free goes on with: a block joined with the previous  *)
(* one, or none.                                                           *)
LEMMA TryPrevJoins ==
  ASSUME CallInv, NEW p \in Procs, proc[p].op = "free", proc[p].got = NULL,
         NEW M, NEW L, Layout(M, L, NULL), LinksBack(M, L),
         NEW own, own = proc[p].own, FreeIn(M, L, own), NEW r, r = TryPrev(p, M)
  PROVE  /\ r \in Proc /\ Grown(r) = NULL /\ Held(r) = {}
         /\ Taking(M, L, r) /\ Joins(M, L, r)
<1>1. proc[p] \in Proc
  BY DEF CallInv, TypeOK
<1>2. own \in L /\ M[own].status = FREE
  BY DEF FreeIn
<1>3. CASE PrevIsFree(M, own)
  <2>1. M[own].prev # NULL /\ M[M[own].prev].status = FREE
    BY <1>3 DEF PrevIsFree
  <2>2. PICK g : g = M[own].prev
    OBVIOUS
  <2>3. own # FirstHeader
    BY <2>1 DEF Layout
  <2>4. g \in L /\ M[g].next = own
    <3>1. PICK f \in L : M[f].next = own
      BY <1>2, <2>3, Predecessor DEF Layout
    <3>2. own # NULL
      BY <1>2, LayoutNat
    <3> QED
      BY <2>2, <3>1, <3>2 DEF LinksBack
  <2>5. g \in Nat /\ own \in Nat
    BY <1>2, <2>4, LayoutNat
  <2>6. r = [proc[p] EXCEPT !.pc = "grow", !.h = g, !.n = own]
    BY <1>3, <2>2 DEF TryPrev, Joining
  <2>7. /\ r \in Proc /\ r.pc = "grow" /\ r.op = "free" /\ r.h = g /\ r.n = own
        /\ r.own = own /\ r.got = NULL
    BY <1>1, <2>5, <2>6 DEF Proc
  <2>8. Grown(r) = NULL /\ Held(r) = {}
    BY <2>7 DEF Grown, Held
  <2>9. Taking(M, L, r)
    BY <2>7 DEF Taking
  <2>10. Joins(M, L, r)
    BY <1>2, <2>1, <2>2, <2>4, <2>7 DEF Joins, FreeIn
  <2> QED
    BY <2>7, <2>8, <2>9, <2>10
<1>4. CASE ~PrevIsFree(M, own)
  <2>1. r = [proc[p] EXCEPT !.pc = "last"]
    BY <1>4 DEF TryPrev
  <2>2. r \in Proc /\ r.pc = "last" /\ r.op = "free" /\ r.got = NULL
    BY <1>1, <2>1 DEF Proc
  <2> QED
    BY <1>2, <2>2 DEF Grown, Held, Taking, Joins
<1> QED
  BY <1>3, <1>4

(* The list after the status is set, and what is known of the block.       *)
LEMMA FreedList ==
  ASSUME CallInv, NEW p \in Procs, StoreFree(p), NEW own, own = proc[p].own,
         NEW L, L = Linked(mem)
  PROVE  /\ proc[p].pc = "free" /\ proc[p].op = "free" /\ proc[p].got = NULL
         /\ proc[p] \in Proc /\ HasShared(p) /\ Held(proc[p]) = {own} /\ own \in L
         /\ Layout(mem, L, NULL) /\ Layout(mem', L, NULL)
         /\ LinksBack(mem', L) /\ FreeIn(mem', L, own)
         /\ \A g \in L : g \in DOMAIN mem /\ mem'[g].next = mem[g].next
         /\ \A g \in DOMAIN mem : g # own => mem'[g] = mem[g]
<1>2. /\ proc[p].pc = "free"
      /\ mem' = MarkFree(mem, own)
      /\ proc' = [proc EXCEPT ![p] = TryNext(p, mem')]
      /\ UNCHANGED <<mapped, live, mutex, alive, crashes>>
  BY DEF StoreFree
<1>3. proc[p].pc \in Inside
  BY <1>2 DEF Inside
<1>4. /\ HasShared(p) /\ proc[p] \in Proc /\ Grown(proc[p]) = NULL
      /\ Taking(mem, L, proc[p]) /\ Joins(mem, L, proc[p]) /\ Layout(mem, L, NULL)
  BY <1>2, <1>3, AtPlace DEF Grown
<1>5. proc[p].op = "free" /\ proc[p].got = NULL /\ LinksBack(mem, L)
  BY <1>2, <1>4 DEF Taking, Joins
<1>6. Held(proc[p]) = {own}
  BY <1>2, <1>5 DEF Held
<1>7. own \in L
  BY <1>6 DEF CallInv, ListInv, Backed, BusyIn
<1>8. /\ NULL = 0 /\ FirstHeader \in L
      /\ \A g \in L : /\ g \in Nat /\ g \in DOMAIN mem /\ mem[g].size \in Nat
                      /\ mem[g].next \in Nat
                      /\ mem[g].next # NULL => mem[g].next \in L
  BY <1>4, LayoutNat
<1>9. /\ DOMAIN mem' = DOMAIN mem
      /\ \A g \in DOMAIN mem : g # own => mem'[g] = mem[g]
      /\ mem'[own].size = mem[own].size /\ mem'[own].status = FREE
      /\ mem'[own].prev = mem[own].prev /\ mem'[own].next = mem[own].next
      /\ mem'[own] \in Header
  BY <1>2, <1>4, <1>7, <1>8 DEF Layout, Header, MarkFree
<1>10. \A g \in L : /\ mem'[g].next = mem[g].next /\ mem'[g].prev = mem[g].prev
                    /\ mem'[g].size = mem[g].size
  BY <1>8, <1>9
<1>11. Layout(mem', L, NULL)
  <2>1. DOMAIN mem' \subseteq 0 .. MmapSize /\ L \subseteq DOMAIN mem'
    BY <1>8, <1>9, <1>4 DEF Layout
  <2>2. \A g \in DOMAIN mem' : mem'[g] \in Header
    BY <1>4, <1>9 DEF Layout
  <2>3. mem'[FirstHeader].prev = NULL
    BY <1>4, <1>8, <1>10 DEF Layout
  <2>4. \A g \in L : mem'[g].next = mem[g].next /\ mem'[g].size <= mem[g].size
    BY <1>8, <1>10
  <2> QED
    BY <1>4, <2>1, <2>2, <2>3, <2>4, SameLayout
<1>12. LinksBack(mem', L) /\ FreeIn(mem', L, own)
  BY <1>5, <1>7, <1>8, <1>9, <1>10 DEF LinksBack, FreeIn
<1> QED
  BY <1>2, <1>4, <1>5, <1>6, <1>7, <1>8, <1>9, <1>10, <1>11, <1>12

LEMMA StoreFreeStep ==
  ASSUME CallInv, NEW p \in Procs, StoreFree(p)
  PROVE  TypeOK' /\ ListInv'
<1>1. PICK own, L : own = proc[p].own /\ L = Linked(mem)
  OBVIOUS
<1>2. /\ proc' = [proc EXCEPT ![p] = TryNext(p, mem')]
      /\ UNCHANGED <<mapped, live, mutex, alive, crashes>>
  BY <1>1 DEF StoreFree
<1>4. /\ HasShared(p) /\ proc[p] \in Proc /\ Layout(mem, L, NULL)
      /\ proc[p].pc = "free" /\ Held(proc[p]) = {own} /\ own \in L
      /\ proc[p].op = "free" /\ proc[p].got = NULL
  BY <1>1, FreedList
<1>11. /\ Layout(mem', L, NULL) /\ LinksBack(mem', L) /\ FreeIn(mem', L, own)
       /\ \A g \in L : g \in DOMAIN mem /\ mem'[g].next = mem[g].next
       /\ \A g \in DOMAIN mem : g # own => mem'[g] = mem[g]
  BY <1>1, FreedList
<1>8. /\ NULL = 0 /\ FirstHeader \in L
      /\ \A g \in L : /\ g \in Nat /\ mem[g].size \in Nat /\ mem[g].next \in Nat
                      /\ mem[g].next # NULL => mem[g].next \in L
  BY <1>4, LayoutNat
<1>13. PICK M, r : M = mem' /\ r = TryNext(p, M)
  OBVIOUS
<1>14. /\ r \in Proc /\ Grown(r) = NULL /\ Held(r) = {}
       /\ Taking(M, L, r) /\ Joins(M, L, r)
  <2>1. CASE NextIsFree(M, own)
    <3>1. M[own].next # NULL /\ M[M[own].next].status = FREE
      BY <2>1 DEF NextIsFree
    <3>2. PICK n : n = M[own].next
      OBVIOUS
    <3>3. n \in L /\ n \in Nat /\ own \in Nat
      BY <1>4, <1>8, <1>11, <1>13, <3>1, <3>2
    <3>4. r = [proc[p] EXCEPT !.pc = "grow", !.h = own, !.n = n]
      BY <1>1, <1>13, <2>1, <3>2 DEF TryNext, Joining
    <3>5. /\ r \in Proc /\ r.pc = "grow" /\ r.op = "free" /\ r.h = own /\ r.n = n
          /\ r.own = own /\ r.got = NULL
      BY <1>1, <1>4, <3>3, <3>4 DEF Proc
    <3>6. Grown(r) = NULL /\ Held(r) = {} /\ Taking(M, L, r)
      BY <3>5 DEF Grown, Held, Taking
    <3>7. Joins(M, L, r)
      BY <1>11, <1>13, <3>1, <3>2, <3>3, <3>5 DEF Joins, FreeIn
    <3> QED
      BY <3>5, <3>6, <3>7
  <2>2. CASE ~NextIsFree(M, own)
    <3>1. r = TryPrev(p, M)
      BY <1>1, <1>13, <2>2 DEF TryNext
    <3> QED
      BY <1>1, <1>4, <1>11, <1>13, <3>1, TryPrevJoins
  <2> QED
    BY <2>1, <2>2
<1>15. \A g \in L \ Held(proc[p]) : mem[g].status = BUSY =>
         g \in L /\ mem'[g].status = BUSY /\ mem'[g].size >= mem[g].size
  BY <1>4, <1>8, <1>11
<1> QED
  <2>1. proc' = [proc EXCEPT ![p] = r] /\ Layout(mem', L, Grown(r))
        /\ Taking(mem', L, r) /\ Joins(mem', L, r)
    BY <1>2, <1>11, <1>13, <1>14
  <2>2. Stores(p, r, L)
    BY <1>1, <1>2, <1>4, <1>14, <1>15, <2>1 DEF Stores
  <2> QED
    BY <1>4, <2>2, StoreStep

LEMMA GrowStep ==
  ASSUME CallInv, NEW p \in Procs, Grow(p)
  PROVE  TypeOK' /\ ListInv'
<1>1. PICK h, n, L : h = proc[p].h /\ n = proc[p].n /\ L = Linked(mem)
  OBVIOUS
<1>2. /\ proc[p].pc = "grow"
      /\ mem' = [mem EXCEPT ![h].size = @ + mem[n].size + MallocHeaderSize]
      /\ Goto(p, "unlink")
      /\ UNCHANGED <<mapped, live, mutex, alive, crashes>>
  BY <1>1 DEF Grow, Store, After
<1>3. proc[p].pc \in Inside /\ "unlink" \in Inside \cup {"mend", "leave"}
  BY <1>2 DEF Inside
<1>4. /\ HasShared(p) /\ proc[p] \in Proc /\ Grown(proc[p]) = NULL
      /\ Taking(mem, L, proc[p]) /\ Joins(mem, L, proc[p]) /\ Layout(mem, L, NULL)
  BY <1>1, <1>2, <1>3, AtPlace DEF Grown
<1>5. /\ proc[p].op = "free" /\ proc[p].got = NULL /\ LinksBack(mem, L)
      /\ h \in L /\ mem[h].status = FREE /\ n \in L /\ mem[n].status = FREE
      /\ mem[h].next = n /\ proc[p].own \in {h, n}
  BY <1>1, <1>2, <1>4 DEF Taking, Joins, FreeIn
<1>6. /\ NULL = 0 /\ MallocHeaderSize \in Nat
      /\ \A g \in L : /\ g \in Nat /\ g # 0 /\ g \in DOMAIN mem /\ mem[g].size \in Nat
                      /\ mem[g].next # NULL => mem[g].next \in L
  BY <1>4, LayoutNat
<1>7. n # NULL /\ Layout(mem', L, h)
  <2>1. n # NULL
    BY <1>5, <1>6
  <2> QED
    BY <1>2, <1>4, <1>5, <2>1, GrowLayout
<1>8. /\ \A g \in DOMAIN mem : g # h => mem'[g] = mem[g]
      /\ mem'[h].status = mem[h].status
      /\ mem'[h].prev = mem[h].prev /\ mem'[h].next = mem[h].next
  BY <1>2, <1>4, <1>5, <1>6 DEF Layout, Header
<1>9. \A g \in L : /\ mem'[g].next = mem[g].next /\ mem'[g].prev = mem[g].prev
                   /\ mem'[g].status = mem[g].status
  BY <1>6, <1>8
<1>10. LinksBack(mem', L)
  BY <1>5, <1>6, <1>9 DEF LinksBack
<1>11. PICK r : Moved(p, "unlink", r)
  BY <1>2, <1>3, Goes
<1>12. /\ r \in Proc /\ proc' = [proc EXCEPT ![p] = r]
       /\ r.pc = "unlink" /\ r.op = "free" /\ r.h = h /\ r.n = n
       /\ r.own = proc[p].own /\ r.got = NULL
  BY <1>1, <1>5, <1>11 DEF Moved
<1>13. Held(r) = {} /\ Grown(r) = h /\ Taking(mem', L, r)
  BY <1>12 DEF Held, Grown, Taking
<1>14. Joins(mem', L, r)
  BY <1>5, <1>9, <1>10, <1>12 DEF Joins, FreeIn
<1>15. \A g \in L \ Held(proc[p]) : mem[g].status = BUSY =>
         g \in L /\ mem'[g].status = BUSY /\ mem'[g].size >= mem[g].size
  BY <1>5, <1>6, <1>8 DEF FREE, BUSY
<1> QED
  <2>1. Layout(mem', L, Grown(r))
    BY <1>7, <1>13
  <2>2. Stores(p, r, L)
    BY <1>1, <1>2, <1>12, <1>13, <1>14, <1>15, <2>1 DEF Stores
  <2> QED
    BY <1>4, <2>2, StoreStep

LEMMA UnlinkStep ==
  ASSUME CallInv, NEW p \in Procs, Unlink(p)
  PROVE  TypeOK' /\ ListInv'
<1>1. PICK h, n, L : h = proc[p].h /\ n = proc[p].n /\ L = Linked(mem)
  OBVIOUS
<1>2. /\ proc[p].pc = "unlink"
      /\ mem' = [mem EXCEPT ![h].next = mem[n].next]
      /\ Goto(p, "back")
      /\ UNCHANGED <<mapped, live, mutex, alive, crashes>>
  BY <1>1 DEF Unlink, Store, After
<1>3. proc[p].pc \in Inside /\ "back" \in Inside \cup {"mend", "leave"}
  BY <1>2 DEF Inside
<1>4. /\ HasShared(p) /\ proc[p] \in Proc
      /\ Taking(mem, L, proc[p]) /\ Joins(mem, L, proc[p]) /\ Layout(mem, L, h)
  BY <1>1, <1>2, <1>3, AtPlace DEF Grown
<1>5. /\ proc[p].op = "free" /\ proc[p].got = NULL /\ LinksBack(mem, L)
      /\ h \in L /\ mem[h].status = FREE /\ n \in L /\ mem[n].status = FREE
      /\ mem[h].next = n /\ proc[p].own \in {h, n}
  BY <1>1, <1>2, <1>4 DEF Taking, Joins, FreeIn
<1>6. /\ NULL = 0
      /\ \A g \in L : /\ g \in Nat /\ g # 0 /\ g \in DOMAIN mem /\ mem[g].size \in Nat
                      /\ mem[g].next # NULL => mem[g].next \in L /\ g < mem[g].next
  BY <1>4, LayoutNat
<1>7. n # NULL /\ h # n
  BY <1>5, <1>6
<1>8. PICK K : K = L \ {n}
  OBVIOUS
<1>9. Layout(mem', K, NULL)
  BY <1>2, <1>4, <1>5, <1>7, <1>8, UnlinkLayout
<1>10. /\ \A g \in DOMAIN mem : g # h => mem'[g] = mem[g]
       /\ mem'[h].status = mem[h].status /\ mem'[h].size = mem[h].size
       /\ mem'[h].prev = mem[h].prev
  BY <1>2, <1>4, <1>5, <1>6 DEF Layout, Header
<1>11. \A g \in L : /\ mem'[g].prev = mem[g].prev /\ mem'[g].size = mem[g].size
                    /\ mem'[g].status = mem[g].status
                    /\ g # h => mem'[g].next = mem[g].next
  BY <1>6, <1>10
<1>12. LinksBack(mem', K \ {h})
  BY <1>5, <1>6, <1>8, <1>11 DEF LinksBack
<1>13. PICK r : Moved(p, "back", r)
  BY <1>2, <1>3, Goes
<1>14. /\ r \in Proc /\ proc' = [proc EXCEPT ![p] = r]
       /\ r.pc = "back" /\ r.op = "free" /\ r.h = h /\ r.n = n
       /\ r.own = proc[p].own /\ r.got = NULL
  BY <1>1, <1>5, <1>13 DEF Moved
<1>15. Held(r) = {} /\ Grown(r) = NULL /\ Taking(mem', K, r)
  BY <1>14 DEF Held, Grown, Taking
<1>16. Joins(mem', K, r)
  BY <1>5, <1>7, <1>8, <1>11, <1>12, <1>14 DEF Joins, FreeIn
<1>17. \A g \in L \ Held(proc[p]) : mem[g].status = BUSY =>
         g \in K /\ mem'[g].status = BUSY /\ mem'[g].size >= mem[g].size
  BY <1>5, <1>6, <1>8, <1>11 DEF FREE, BUSY
<1> QED
  <2>1. Layout(mem', K, Grown(r))
    BY <1>9, <1>15
  <2>2. Stores(p, r, K)
    BY <1>1, <1>2, <1>14, <1>15, <1>16, <1>17, <2>1 DEF Stores
  <2> QED
    BY <1>4, <2>2, StoreStep

(* The list after the links back are set, and what is known of the block.  *)
LEMMA BackList ==
  ASSUME CallInv, NEW p \in Procs, Back(p), NEW h, h = proc[p].h, NEW n, n = proc[p].n,
         NEW own, own = proc[p].own, NEW L, L = Linked(mem)
  PROVE  /\ proc[p].pc = "back" /\ proc[p].op = "free" /\ proc[p].got = NULL
         /\ proc[p] \in Proc /\ HasShared(p) /\ own \in {h, n}
         /\ Layout(mem, L, NULL) /\ Layout(mem', L, NULL)
         /\ LinksBack(mem', L) /\ FreeIn(mem', L, h) /\ n \notin L
         /\ \A g \in L : /\ g \in DOMAIN mem /\ mem'[g].size = mem[g].size
                         /\ mem'[g].status = mem[g].status
<1>2. /\ proc[p].pc = "back"
      /\ mem' = [g \in DOMAIN mem \ {n} |->
                   IF g = mem[h].next THEN [mem[g] EXCEPT !.prev = h] ELSE mem[g]]
      /\ proc' = [proc EXCEPT ![p] = IF n = own THEN [proc[p] EXCEPT !.pc = "last"]
                                     ELSE TryPrev(p, mem')]
      /\ UNCHANGED <<mapped, live, mutex, alive, crashes>>
  BY DEF Back
<1>3. proc[p].pc \in Inside
  BY <1>2 DEF Inside
<1>4. /\ HasShared(p) /\ proc[p] \in Proc /\ Grown(proc[p]) = NULL
      /\ Taking(mem, L, proc[p]) /\ Joins(mem, L, proc[p]) /\ Layout(mem, L, NULL)
  BY <1>2, <1>3, AtPlace DEF Grown
<1>5. /\ proc[p].op = "free" /\ proc[p].got = NULL /\ LinksBack(mem, L \ {h})
      /\ h \in L /\ mem[h].status = FREE /\ n \notin L /\ own \in {h, n}
  BY <1>2, <1>4 DEF Taking, Joins, FreeIn
<1>6. /\ NULL = 0 /\ FirstHeader \in L
      /\ \A g \in L : /\ g \in Nat /\ g # 0 /\ g \in DOMAIN mem /\ mem[g].size \in Nat
                      /\ mem[g].next \in Nat
                      /\ mem[g].next # NULL => mem[g].next \in L /\ g < mem[g].next
                                               /\ mem[g].next # FirstHeader
  BY <1>4, LayoutNat
<1>7. /\ DOMAIN mem' = DOMAIN mem \ {n}
      /\ \A g \in DOMAIN mem \ {n} :
           /\ mem'[g] \in Header /\ mem'[g].next = mem[g].next
           /\ mem'[g].size = mem[g].size /\ mem'[g].status = mem[g].status
           /\ mem'[g].prev = IF g = mem[h].next THEN h ELSE mem[g].prev
  <2>1. \A g \in DOMAIN mem : mem[g] \in Header
    BY <1>4 DEF Layout
  <2>2. h \in Nat
    BY <1>5, <1>6
  <2> QED
    BY <1>2, <2>1, <2>2 DEF Header
<1>8. \A g \in L : /\ g \in DOMAIN mem' /\ mem'[g].next = mem[g].next
                   /\ mem'[g].size = mem[g].size /\ mem'[g].status = mem[g].status
                   /\ mem'[g].prev = IF g = mem[h].next THEN h ELSE mem[g].prev
  BY <1>5, <1>6, <1>7
<1>9. Layout(mem', L, NULL)
  <2>1. DOMAIN mem' \subseteq 0 .. MmapSize /\ L \subseteq DOMAIN mem'
    BY <1>7, <1>8, <1>4 DEF Layout
  <2>2. \A g \in DOMAIN mem' : mem'[g] \in Header
    BY <1>7
  <2>3. mem'[FirstHeader].prev = NULL
    BY <1>4, <1>5, <1>6, <1>8 DEF Layout
  <2>4. \A g \in L : mem'[g].next = mem[g].next /\ mem'[g].size <= mem[g].size
    BY <1>6, <1>8
  <2> QED
    BY <1>4, <2>1, <2>2, <2>3, <2>4, SameLayout
<1>10. LinksBack(mem', L)
  <2> SUFFICES ASSUME NEW g \in L, mem'[g].next # NULL
               PROVE  mem'[mem'[g].next].prev = g
    BY DEF LinksBack
  <2>1. PICK x : x = mem[g].next
    OBVIOUS
  <2>2. mem'[g].next = x /\ x # NULL /\ x \in L
    BY <1>6, <1>8, <2>1
  <2>3. CASE g = h
    BY <1>8, <2>1, <2>2, <2>3
  <2>4. CASE g # h
    <3>1. mem[x].prev = g
      BY <1>5, <2>1, <2>2, <2>4 DEF LinksBack
    <3>2. x # mem[h].next
      <4> SUFFICES ASSUME x = mem[h].next PROVE FALSE
        OBVIOUS
      <4>1. g < h \/ h < g
        BY <1>5, <1>6, <2>4
      <4>2. \A e, f \in L : e < f => mem[e].next # NULL /\ mem[e].next <= f
        BY <1>4 DEF Layout, Sorted
      <4>3. g < x /\ h < x /\ x \in Nat
        BY <1>5, <1>6, <2>1, <2>2
      <4>4. g < h => x <= h
        BY <1>5, <2>1, <4>2
      <4>5. h < g => x <= g
        BY <1>5, <4>2
      <4> QED
        BY <1>5, <1>6, <4>1, <4>3, <4>4, <4>5
    <3> QED
      BY <1>8, <2>2, <3>1, <3>2
  <2> QED
    BY <2>3, <2>4
<1>11. FreeIn(mem', L, h)
  BY <1>5, <1>8 DEF FreeIn
<1> QED
  BY <1>2, <1>4, <1>5, <1>6, <1>8, <1>9, <1>10, <1>11

LEMMA BackStep ==
  ASSUME CallInv, NEW p \in Procs, Back(p)
  PROVE  TypeOK' /\ ListInv'
<1>1. PICK h, n, L, own : /\ h = proc[p].h /\ n = proc[p].n /\ own = proc[p].own
                          /\ L = Linked(mem)
  OBVIOUS
<1>2. /\ proc' = [proc EXCEPT ![p] = IF n = own THEN [proc[p] EXCEPT !.pc = "last"]
                                     ELSE TryPrev(p, mem')]
      /\ UNCHANGED <<mapped, live, mutex, alive, crashes>>
  BY <1>1 DEF Back
<1>3. /\ proc[p].pc = "back" /\ proc[p].op = "free" /\ proc[p].got = NULL
      /\ proc[p] \in Proc /\ HasShared(p) /\ own \in {h, n}
      /\ Layout(mem, L, NULL) /\ Layout(mem', L, NULL)
      /\ LinksBack(mem', L) /\ FreeIn(mem', L, h)
      /\ \A g \in L : mem'[g].size = mem[g].size /\ mem'[g].status = mem[g].status
  BY <1>1, BackList
<1>4. \A g \in L : mem[g].size \in Nat
  BY <1>3, LayoutNat
<1>12. PICK M, r : M = mem' /\ r = IF n = own THEN [proc[p] EXCEPT !.pc = "last"]
                                   ELSE TryPrev(p, M)
  OBVIOUS
<1>13. /\ r \in Proc /\ Grown(r) = NULL /\ Held(r) = {}
       /\ Taking(M, L, r) /\ Joins(M, L, r)
  <2>1. CASE n = own
    <3>1. r = [proc[p] EXCEPT !.pc = "last"]
      BY <1>12, <2>1
    <3>2. r \in Proc /\ r.pc = "last" /\ r.op = "free" /\ r.got = NULL
      BY <1>3, <3>1 DEF Proc
    <3> QED
      BY <1>3, <1>12, <3>2 DEF Grown, Held, Taking, Joins, FreeIn
  <2>2. CASE n # own
    <3>1. own = h /\ r = TryPrev(p, M)
      BY <1>3, <1>12, <2>2
    <3> QED
      BY <1>1, <1>3, <1>12, <3>1, TryPrevJoins
  <2> QED
    BY <2>1, <2>2
<1>14. \A g \in L \ Held(proc[p]) : mem[g].status = BUSY =>
         g \in L /\ mem'[g].status = BUSY /\ mem'[g].size >= mem[g].size
  BY <1>3, <1>4
<1> QED
  <2>1. proc' = [proc EXCEPT ![p] = r] /\ Layout(mem', L, Grown(r))
        /\ Taking(mem', L, r) /\ Joins(mem', L, r)
    BY <1>2, <1>3, <1>12, <1>13
  <2>2. Stores(p, r, L)
    BY <1>1, <1>2, <1>3, <1>13, <1>14, <2>1 DEF Stores
  <2> QED
    BY <1>3, <2>2, StoreStep

(* An MMAP is unmapped when its first block is its last and is free: then  *)
(* no client owns a block.                                                 *)
LEMMA LastKeepsList ==
  ASSUME CallInv, NEW p \in Procs, Last(p), mutex' \in [Mutexes -> Mutex]
  PROVE  TypeOK' /\ ListInv'
<1>1. proc[p].pc = "last" /\ UNCHANGED <<mem, live, alive, crashes>>
  BY DEF Last
<1>2. PICK L : L = Linked(mem)
  OBVIOUS
<1>3. proc[p].pc \in Inside /\ {"unlock", "leave"} \subseteq Inside \cup {"mend", "leave"}
  BY <1>1 DEF Inside
<1>4. /\ HasShared(p) /\ mapped /\ Grown(proc[p]) = NULL
      /\ Taking(mem, L, proc[p]) /\ Joins(mem, L, proc[p]) /\ Layout(mem, L, NULL)
      /\ alive \subseteq Procs /\ crashes \in 0 .. MaxCrashes
  BY <1>1, <1>2, <1>3, AtPlace DEF Grown
<1>5. /\ proc[p].op = "free" /\ proc[p].got = NULL
      /\ \E g \in L : mem[g].status = FREE
  BY <1>1, <1>4 DEF Taking, Joins
<1>6. PICK pc \in {"unlock", "leave"} :
        /\ Goto(p, pc)
        /\ \/ mapped' = mapped /\ mapped' = TRUE
           \/ mapped' = FALSE /\ pc = "leave" /\ mem[FirstHeader].next = NULL
  BY <1>4 DEF Last, CallInv, TypeOK
<1>7. PICK r : Moved(p, pc, r)
  BY <1>3, <1>6, Goes
<1>8. /\ r \in Proc /\ proc' = [proc EXCEPT ![p] = r]
      /\ r.pc = pc /\ r.op = "free" /\ r.got = NULL
  BY <1>5, <1>7 DEF Moved
<1>9. /\ Held(r) = {} /\ Grown(r) = NULL
      /\ Taking(mem, L, r) /\ Joins(mem, L, r)
  BY <1>6, <1>8 DEF Held, Grown, Taking, Joins
<1>10. CASE mapped' = mapped
  <2>1. Quiet(p, r)
    BY <1>1, <1>2, <1>4, <1>8, <1>9, <1>10 DEF Quiet
  <2> QED
    BY <1>1, <1>4, <2>1, QuietStep
<1>11. CASE mapped' = FALSE /\ pc = "leave" /\ mem[FirstHeader].next = NULL
  <2>1. L = {FirstHeader}
    <3>1. \A g \in L : ~(FirstHeader < g) /\ FirstHeader <= g /\ g \in Nat
      BY <1>4, <1>11, LayoutNat DEF Layout, Sorted
    <3>2. FirstHeader \in L /\ FirstHeader \in Nat
      BY <1>4, LayoutNat
    <3>3. \A g \in L : g = FirstHeader
      BY <3>1, <3>2
    <3> QED
      BY <3>2, <3>3
  <2>2. mem[FirstHeader].status = FREE
    BY <1>5, <2>1
  <2>3. live = {}
    <3> SUFFICES ASSUME NEW a \in live PROVE FALSE
      OBVIOUS
    <3>1. a.block \in L /\ mem[a.block].status = BUSY
      BY <1>2 DEF CallInv, ListInv, Backed, BusyIn
    <3> QED
      BY <2>1, <2>2, <3>1 DEF FREE, BUSY
  <2>4. /\ proc \in [Procs -> Proc] /\ proc' \in [Procs -> Proc]
        /\ proc'[p] = r /\ \A q \in Procs \ {p} : proc'[q] = proc[q]
    BY <1>8 DEF CallInv, TypeOK
  <2>5. \A q \in Procs \ {p} : /\ proc[q].pc \in {"idle", "lock"} /\ proc[q].got = NULL
                               /\ Grown(proc[q]) = NULL
    BY <1>4, OthersOut DEF CallInv, ListInv, Calls, Taking, Grown
  <2>6. TypeOK'
    BY <1>1, <1>11, <2>4 DEF CallInv, TypeOK
  <2>7. Laid'
    <3>1. \A q \in Procs : Grown(proc'[q]) = NULL
      BY <1>9, <2>4, <2>5
    <3> QED
      BY <1>1, <1>2, <1>4, <3>1 DEF Laid
  <2>8. Calls'
    <3>1. \A q \in Procs : Taking(mem', L, proc'[q]) /\ Joins(mem', L, proc'[q])
      BY <1>1, <1>2, <1>9, <2>4 DEF CallInv, ListInv, Calls
    <3> QED
      BY <1>1, <1>2, <3>1 DEF Calls
  <2>9. Backed'
    <3>1. \A q \in Procs : Held(proc'[q]) \subseteq Held(proc[q])
      BY <1>9, <2>4
    <3>2. \A q \in Procs : /\ \A h \in Held(proc'[q]) : BusyIn(mem', L, h)
                           /\ \A s \in Procs \ {q} : Held(proc'[q]) \cap Held(proc'[s]) = {}
      BY <1>1, <1>2, <3>1 DEF CallInv, ListInv, Backed
    <3> QED
      BY <1>1, <1>2, <2>3, <3>2 DEF Backed
  <2>10. Gone'
    BY <1>1, <1>8, <1>11, <2>3, <2>4, <2>5 DEF Gone
  <2> QED
    BY <2>6, <2>7, <2>8, <2>9, <2>10 DEF ListInv
<1> QED
  BY <1>4, <1>6, <1>10, <1>11

--------------------------------------------------------------------------------
(* The steps outside of the section, and Next.                             *)

(* Where a process is that asks for the mutexes it has no block taken.     *)
Asking(p, r) ==
  /\ r \in Proc /\ proc' = [proc EXCEPT ![p] = r]
  /\ r.pc \in {"lock", "mend", "search"} /\ r.op = proc[p].op
  /\ r.own = proc[p].own /\ r.got = proc[p].got

LEMMA LockedAsks ==
  ASSUME CallInv, NEW p \in Procs, Locked(p, proc[p].m)
  PROVE  \E r : Asking(p, r)
<1>1. proc[p] \in Proc
  BY DEF CallInv, TypeOK
<1>2. CASE proc[p].m = "shared"
  <2> DEFINE r == [proc[p] EXCEPT !.pc = "lock", !.m = "mmap"]
  <2>1. proc' = [proc EXCEPT ![p] = r]
    BY <1>2 DEF Locked
  <2>2. r \in Proc /\ r.pc = "lock" /\ r.op = proc[p].op /\ r.own = proc[p].own
        /\ r.got = proc[p].got
    BY <1>1 DEF Proc, Mutexes
  <2> HIDE DEF r
  <2> QED
    BY <2>1, <2>2 DEF Asking
<1>3. CASE proc[p].m # "shared"
  <2>1. Goto(p, "search") /\ "search" \in Inside \cup {"mend", "leave"}
    BY <1>3 DEF Locked, Inside
  <2>2. PICK r : Moved(p, "search", r)
    BY <2>1, Goes
  <2> QED
    BY <2>2 DEF Moved, Asking
<1> QED
  BY <1>2, <1>3

LEMMA AskingKeepsList ==
  ASSUME CallInv, NEW p \in Procs, proc[p].pc \in {"lock", "mend"}, NEW r, Asking(p, r),
         mapped, UNCHANGED <<mem, live, mapped, alive, crashes>>,
         mutex' \in [Mutexes -> Mutex]
  PROVE  TypeOK' /\ ListInv'
<1>1. /\ r \in Proc /\ proc' = [proc EXCEPT ![p] = r]
      /\ r.pc \in {"lock", "mend", "search"} /\ r.op = proc[p].op
      /\ r.own = proc[p].own /\ r.got = proc[p].got
  BY DEF Asking
<1>2. proc[p].got = NULL
  BY DEF CallInv, ListInv, Calls, Taking
<1>3. Held(r) \subseteq Held(proc[p]) /\ Grown(r) = NULL /\ Grown(proc[p]) = NULL
  BY <1>1 DEF Held, Grown
<1>4. Taking(mem, Linked(mem), r) /\ Joins(mem, Linked(mem), r)
  BY <1>1, <1>2 DEF Taking, Joins
<1>5. Quiet(p, r)
  BY <1>1, <1>3, <1>4 DEF Quiet
<1>6. alive' \subseteq Procs /\ crashes' \in 0 .. MaxCrashes
  BY DEF CallInv, TypeOK
<1> QED
  BY <1>5, <1>6, QuietStep

LEMMA LockKeepsList ==
  ASSUME CallInv, NEW p \in Procs, Lock(p) \/ LockOfDead(p) \/ Mend(p),
         mutex' \in [Mutexes -> Mutex]
  PROVE  TypeOK' /\ ListInv'
<1>1. UNCHANGED <<mem, live, mapped, alive, crashes>> /\ proc[p].pc \in {"lock", "mend"}
  BY DEF Lock, LockOfDead, Mend
<1>2. mapped
  BY DEF Lock, LockOfDead, Mend, CallInv, ListInv, Gone
<1>3. PICK r : Asking(p, r)
  <2>1. CASE Locked(p, proc[p].m)
    BY <2>1, LockedAsks
  <2>2. CASE Goto(p, "mend")
    <3>1. "mend" \in Inside \cup {"mend", "leave"}
      OBVIOUS
    <3>2. PICK r : Moved(p, "mend", r)
      BY <2>2, <3>1, Goes
    <3> QED
      BY <3>2 DEF Moved, Asking
  <2> QED
    BY <2>1, <2>2 DEF Lock, LockOfDead, Mend
<1> QED
  BY <1>1, <1>2, <1>3, AskingKeepsList

LEMMA UnlockKeepsList ==
  ASSUME CallInv, NEW p \in Procs, UnlockMmap(p), mutex' \in [Mutexes -> Mutex]
  PROVE  TypeOK' /\ ListInv'
<1>1. /\ proc[p].pc = "unlock" /\ Goto(p, "leave")
      /\ UNCHANGED <<mem, mapped, live, alive, crashes>>
  BY DEF UnlockMmap
<1>2. proc[p].pc \in Inside /\ "leave" \in Inside \cup {"mend", "leave"}
  BY <1>1 DEF Inside
<1>3. PICK L : L = Linked(mem)
  OBVIOUS
<1>4. /\ mapped /\ Grown(proc[p]) = NULL /\ Taking(mem, L, proc[p])
      /\ alive \subseteq Procs /\ crashes \in 0 .. MaxCrashes
  BY <1>1, <1>2, <1>3, AtPlace DEF Grown
<1>5. PICK r : Moved(p, "leave", r)
  BY <1>1, <1>2, Goes
<1>6. /\ r \in Proc /\ proc' = [proc EXCEPT ![p] = r]
      /\ r.pc = "leave" /\ r.op = proc[p].op /\ r.got = proc[p].got /\ r.size = proc[p].size
  BY <1>5 DEF Moved
<1>7. Held(r) \subseteq Held(proc[p]) /\ Grown(r) = NULL
  BY <1>1, <1>6 DEF Held, Grown
<1>8. Taking(mem, L, r) /\ Joins(mem, L, r)
  BY <1>1, <1>4, <1>6 DEF Taking, Joins
<1>9. Quiet(p, r)
  BY <1>1, <1>3, <1>4, <1>6, <1>7, <1>8 DEF Quiet
<1> QED
  BY <1>1, <1>4, <1>9, QuietStep

(* A process that is idle again, because it has ended or its call has.     *)
LEMMA IdleIs ==
  ASSUME NEW M, NEW L
  PROVE  /\ Idle \in Proc /\ Idle.pc = "idle" /\ Idle.got = NULL /\ Idle.op = "malloc"
         /\ Held(Idle) = {} /\ Grown(Idle) = NULL
         /\ Taking(M, L, Idle) /\ Joins(M, L, Idle)
<1>1. Idle \in Proc /\ Idle.pc = "idle" /\ Idle.got = NULL /\ Idle.op = "malloc"
  BY DEF Idle, Proc, Mutexes, NULL
<1> QED
  BY <1>1 DEF Held, Grown, Taking, Joins

LEMMA CrashKeepsList ==
  ASSUME CallInv, ~CrashInJoin, NEW p \in Procs, Crash(p), mutex' \in [Mutexes -> Mutex]
  PROVE  TypeOK' /\ ListInv'
<1>1. /\ crashes < MaxCrashes /\ proc[p].pc # "unlink"
      /\ alive' = alive \ {p} /\ crashes' = crashes + 1
      /\ proc' = [proc EXCEPT ![p] = Idle] /\ UNCHANGED <<mem, mapped, live>>
  BY DEF Crash
<1>2. alive' \subseteq Procs /\ crashes' \in 0 .. MaxCrashes
  BY <1>1, CrashAssumption DEF CallInv, TypeOK
<1>3. Grown(proc[p]) = NULL
  BY <1>1 DEF Grown
<1>4. Quiet(p, Idle)
  BY <1>1, <1>3, IdleIs DEF Quiet
<1> QED
  BY <1>2, <1>4, QuietStep

(* What vgc_malloc has taken becomes its client's.                         *)
LEMMA LeaveKeepsList ==
  ASSUME CallInv, NEW p \in Procs, Leave(p), mutex' \in [Mutexes -> Mutex]
  PROVE  TypeOK' /\ ListInv'
<1>1. PICK L, got, size : L = Linked(mem) /\ got = proc[p].got /\ size = proc[p].size
  OBVIOUS
<1>2. /\ proc[p].pc = "leave"
      /\ live' = live \cup {[block |-> h, size |-> size] : h \in {got} \ {NULL}}
      /\ proc' = [proc EXCEPT ![p] = Idle]
      /\ UNCHANGED <<mem, mapped, alive, crashes>>
  BY <1>1 DEF Leave
<1>3. proc[p] \in Proc /\ size \in Nat /\ got \in Nat
  BY <1>1 DEF CallInv, TypeOK, Proc
<1>4. /\ Taking(mem, L, proc[p]) /\ Grown(proc[p]) = NULL
      /\ alive' \subseteq Procs /\ crashes' \in 0 .. MaxCrashes
  BY <1>1, <1>2 DEF CallInv, ListInv, Calls, TypeOK, Grown
<1>5. CASE got = NULL
  <2>1. live' = live
    BY <1>2, <1>5
  <2>2. Quiet(p, Idle)
    BY <1>1, <1>2, <1>4, <2>1, IdleIs DEF Quiet
  <2> QED
    BY <1>4, <2>2, QuietStep
<1>6. CASE got # NULL
  <2>1. PICK new : new = [block |-> got, size |-> size]
    OBVIOUS
  <2>2. live' = live \cup {new} /\ new.block = got /\ new.size = size /\ new \in Allocation
    BY <1>2, <1>3, <1>6, <2>1 DEF Allocation
  <2>3. proc[p].op = "malloc" /\ size <= mem[got].size
    BY <1>1, <1>2, <1>4, <1>6 DEF Taking
  <2>4. Held(proc[p]) = {got}
    BY <1>1, <1>2, <1>6, <2>3 DEF Held
  <2>5. BusyIn(mem, L, got)
    BY <1>1, <2>4 DEF CallInv, ListInv, Backed
  <2>6. \A a \in live : a.block # got
    BY <2>4 DEF CallInv, ListInv, Backed
  <2>7. \A q \in Procs \ {p} : got \notin Held(proc[q])
    BY <2>4 DEF CallInv, ListInv, Backed
  <2>8. /\ proc \in [Procs -> Proc] /\ proc' \in [Procs -> Proc]
        /\ proc'[p] = Idle /\ \A q \in Procs \ {p} : proc'[q] = proc[q]
    BY <1>2, IdleIs DEF CallInv, TypeOK
  <2>9. TypeOK'
    BY <1>2, <1>4, <2>2, <2>8 DEF CallInv, TypeOK
  <2>10. \A q \in Procs : Grown(proc'[q]) = Grown(proc[q])
    BY <1>4, <2>8, IdleIs
  <2>11. Laid'
    <3>1. ASSUME \A q \in Procs : Grown(proc'[q]) = NULL
          PROVE  Layout(mem', L, NULL)
      BY <1>1, <1>2, <2>10, <3>1 DEF CallInv, ListInv, Laid
    <3>2. ASSUME NEW q \in Procs, Grown(proc'[q]) # NULL
          PROVE  Layout(mem', L, Grown(proc'[q]))
      BY <1>1, <1>2, <2>10, <3>2 DEF CallInv, ListInv, Laid
    <3> QED
      BY <1>1, <1>2, <3>1, <3>2 DEF Laid
  <2>12. Calls'
    <3>1. \A q \in Procs : Taking(mem', L, proc'[q]) /\ Joins(mem', L, proc'[q])
      BY <1>1, <1>2, <2>8, IdleIs DEF CallInv, ListInv, Calls
    <3> QED
      BY <1>1, <1>2, <3>1 DEF Calls
  <2>13. Backed'
    <3>1. \A q \in Procs : Held(proc'[q]) \subseteq Held(proc[q]) /\ got \notin Held(proc'[q])
      BY <2>7, <2>8, IdleIs
    <3>2. \A q \in Procs : /\ \A h \in Held(proc'[q]) : BusyIn(mem', L, h)
                           /\ \A s \in Procs \ {q} : Held(proc'[q]) \cap Held(proc'[s]) = {}
      BY <1>1, <1>2, <3>1 DEF CallInv, ListInv, Backed
    <3>3. \A a \in live : /\ BusyIn(mem', L, a.block) /\ a.size <= mem'[a.block].size
                          /\ \A b \in live \ {a} : b.block # a.block
                          /\ \A q \in Procs : a.block \notin Held(proc'[q])
      BY <1>1, <1>2, <3>1 DEF CallInv, ListInv, Backed
    <3>4. \A a \in live' : /\ BusyIn(mem', L, a.block) /\ a.size <= mem'[a.block].size
                           /\ \A b \in live' \ {a} : b.block # a.block
                           /\ \A q \in Procs : a.block \notin Held(proc'[q])
      BY <1>2, <2>2, <2>3, <2>5, <2>6, <3>1, <3>3
    <3> QED
      BY <1>1, <1>2, <3>2, <3>4 DEF Backed
  <2>14. Gone'
    BY <1>1, <1>2, <1>6 DEF CallInv, ListInv, Gone
  <2> QED
    BY <2>9, <2>11, <2>12, <2>13, <2>14 DEF ListInv
<1> QED
  BY <1>5, <1>6

LEMMA MallocKeepsList ==
  ASSUME CallInv, NEW p \in Procs, NEW size \in Sizes, Malloc(p, size),
         mutex' \in [Mutexes -> Mutex]
  PROVE  TypeOK' /\ ListInv'
<1>1. PICK r : r = [Idle EXCEPT !.pc = "lock", !.size = size]
  OBVIOUS
<1>2. /\ mapped /\ proc[p].pc = "idle" /\ proc' = [proc EXCEPT ![p] = r]
      /\ UNCHANGED <<mem, mapped, live, mutex, alive, crashes>>
  BY <1>1 DEF Malloc
<1>3. /\ r \in Proc /\ r.pc = "lock" /\ r.op = "malloc" /\ r.got = NULL
  BY <1>1, IdleIs, CrashAssumption DEF Proc, Idle
<1>4. Held(r) = {} /\ Grown(r) = NULL /\ Grown(proc[p]) = NULL
  BY <1>2, <1>3 DEF Held, Grown
<1>5. Taking(mem, Linked(mem), r) /\ Joins(mem, Linked(mem), r)
  BY <1>3 DEF Taking, Joins
<1>6. Quiet(p, r)
  BY <1>2, <1>3, <1>4, <1>5 DEF Quiet
<1>7. alive' \subseteq Procs /\ crashes' \in 0 .. MaxCrashes
  BY <1>2 DEF CallInv, TypeOK
<1> QED
  BY <1>6, <1>7, QuietStep

(* The block a client gives back is its call's.                            *)
LEMMA FreeKeepsList ==
  ASSUME CallInv, NEW p \in Procs, NEW a \in live, Free(p, a),
         mutex' \in [Mutexes -> Mutex]
  PROVE  TypeOK' /\ ListInv'
<1>1. PICK L, r, own : /\ L = Linked(mem) /\ own = a.block
                       /\ r = [Idle EXCEPT !.pc = "lock", !.op = "free", !.own = a.block]
  OBVIOUS
<1>2. /\ mapped /\ proc[p].pc = "idle" /\ proc' = [proc EXCEPT ![p] = r]
      /\ live' = live \ {a}
      /\ UNCHANGED <<mem, mapped, mutex, alive, crashes>>
  BY <1>1 DEF Free
<1>3. own \in Nat
  BY <1>1 DEF CallInv, TypeOK, Allocation
<1>4. r \in Proc /\ r.pc = "lock" /\ r.op = "free" /\ r.got = NULL /\ r.own = own
  BY <1>1, <1>3, IdleIs DEF Proc, Idle
<1>5. Held(r) = {own} /\ Grown(r) = NULL /\ Grown(proc[p]) = NULL
  BY <1>2, <1>4 DEF Held, Grown
<1>6. Taking(mem, L, r) /\ Joins(mem, L, r)
  BY <1>4 DEF Taking, Joins
<1>7. /\ proc \in [Procs -> Proc] /\ proc' \in [Procs -> Proc]
      /\ proc'[p] = r /\ \A q \in Procs \ {p} : proc'[q] = proc[q]
  BY <1>2, <1>4 DEF CallInv, TypeOK
<1>8. TypeOK'
  BY <1>2, <1>7 DEF CallInv, TypeOK
<1>9. \A q \in Procs : Grown(proc'[q]) = Grown(proc[q])
  BY <1>5, <1>7
<1>10. Laid'
  <2>1. ASSUME \A q \in Procs : Grown(proc'[q]) = NULL
        PROVE  Layout(mem', L, NULL)
    BY <1>1, <1>2, <1>9, <2>1 DEF CallInv, ListInv, Laid
  <2>2. ASSUME NEW q \in Procs, Grown(proc'[q]) # NULL
        PROVE  Layout(mem', L, Grown(proc'[q]))
    BY <1>1, <1>2, <1>9, <2>2 DEF CallInv, ListInv, Laid
  <2> QED
    BY <1>1, <1>2, <2>1, <2>2 DEF Laid
<1>11. Calls'
  <2>1. \A q \in Procs : Taking(mem', L, proc'[q]) /\ Joins(mem', L, proc'[q])
    BY <1>1, <1>2, <1>6, <1>7 DEF CallInv, ListInv, Calls
  <2> QED
    BY <1>1, <1>2, <2>1 DEF Calls
<1>12. Backed'
  <2>1. /\ BusyIn(mem, L, own)
        /\ \A b \in live \ {a} : b.block # own
        /\ \A q \in Procs : own \notin Held(proc[q])
    BY <1>1 DEF CallInv, ListInv, Backed
  <2>2. \A b \in live' : /\ BusyIn(mem', L, b.block) /\ b.size <= mem'[b.block].size
                         /\ \A c \in live' \ {b} : c.block # b.block
                         /\ \A q \in Procs : b.block \notin Held(proc'[q])
    BY <1>1, <1>2, <1>5, <1>7, <2>1 DEF CallInv, ListInv, Backed
  <2>3. \A q \in Procs : \A h \in Held(proc'[q]) : BusyIn(mem', L, h)
    BY <1>1, <1>2, <1>5, <1>7, <2>1 DEF CallInv, ListInv, Backed
  <2>4. \A q \in Procs : \A s \in Procs \ {q} : Held(proc'[q]) \cap Held(proc'[s]) = {}
    BY <1>1, <1>2, <1>5, <1>7, <2>1 DEF CallInv, ListInv, Backed
  <2> QED
    BY <1>1, <1>2, <2>2, <2>3, <2>4 DEF Backed
<1>13. Gone'
  BY <1>2 DEF Gone
<1> QED
  BY <1>8, <1>10, <1>11, <1>12, <1>13 DEF ListInv

LEMMA InitList == Init => TypeOK /\ ListInv
<1> SUFFICES ASSUME Init PROVE TypeOK /\ ListInv
  OBVIOUS
<1>1. /\ mem = FreshBlocks(MmapSize) /\ mapped = TRUE /\ live = {}
      /\ mutex = [m \in Mutexes |-> Unlocked] /\ proc = [p \in Procs |-> Idle]
      /\ alive = Procs /\ crashes = 0
  BY DEF Init
<1>2. \A p \in Procs : proc[p] = Idle
  BY <1>1
<1>3. /\ FirstHeader \in Nat \ {0} /\ FirstHeader < MmapSize /\ MmapSize \in Nat
      /\ MaxSize(MmapSize) \in Nat /\ MallocHeaderSize \in Nat
      /\ FirstHeader + MallocHeaderSize + MaxSize(MmapSize) = MmapSize
  BY PageSizeAssumption, CrashAssumption
  DEF FirstHeader, MmapHeaderSize, MallocHeaderSize, MaxSize
<1>4. /\ DOMAIN mem = {FirstHeader}
      /\ mem[FirstHeader] = [size |-> MaxSize(MmapSize), status |-> FREE,
                             prev |-> NULL, next |-> NULL]
  BY <1>1 DEF FreshBlocks
<1>5. /\ mem[FirstHeader].next = NULL /\ mem[FirstHeader].prev = NULL
      /\ mem[FirstHeader].size = MaxSize(MmapSize) /\ mem[FirstHeader] \in Header
  BY <1>3, <1>4 DEF Header, NULL
<1>6. PICK L : L = {FirstHeader}
  OBVIOUS
<1>7. Sorted(mem, L)
  BY <1>3, <1>4, <1>5, <1>6 DEF Sorted
<1>8. Layout(mem, L, NULL)
  <2>1. DOMAIN mem \subseteq 0 .. MmapSize /\ \A h \in DOMAIN mem : mem[h] \in Header
    BY <1>3, <1>4, <1>5
  <2>2. \A h \in L : EndOf(mem, h) <= Until(mem, h) /\ h # NULL
    BY <1>3, <1>5, <1>6 DEF EndOf, Until, NULL
  <2> QED
    BY <1>5, <1>6, <1>7, <2>1, <2>2, MultipleHeaders DEF Layout
<1>9. Linked(mem) = L
  BY <1>8, LinkedIs DEF Layout
<1>10. TypeOK
  <2>1. DOMAIN mem \subseteq Nat /\ \A h \in DOMAIN mem : mem[h] \in Header
    BY <1>3, <1>4, <1>5
  <2>2. mutex \in [Mutexes -> Mutex] /\ proc \in [Procs -> Proc]
    BY <1>1, IdleIs DEF Mutex, Unlocked
  <2> QED
    BY <1>1, <2>1, <2>2, CrashAssumption DEF TypeOK
<1>11. Laid /\ Calls
  BY <1>2, <1>8, <1>9, IdleIs DEF Laid, Calls
<1>12. Backed /\ Gone
  BY <1>1, <1>2, IdleIs DEF Backed, Gone
<1> QED
  BY <1>10, <1>11, <1>12 DEF ListInv

LEMMA NextList ==
  ASSUME ~CrashInJoin, CallInv, [Next]_vars
  PROVE  CallInv'
<1>1. LockInv'
  BY NextInv DEF CallInv
<1>2. mutex' \in [Mutexes -> Mutex]
  BY <1>1 DEF LockInv, Shape
<1>3. alive \subseteq Procs
  BY DEF CallInv, TypeOK
<1>4. ASSUME NEW p \in Procs, Work(p)
      PROVE  TypeOK' /\ ListInv'
  <2>1. CASE Lock(p) \/ LockOfDead(p) \/ Mend(p)
    BY <1>2, <2>1, LockKeepsList
  <2>2. CASE Search(p)
    BY <2>2, SearchStep
  <2>3. CASE StoreHeader(p) \/ StoreSize(p) \/ StoreStatus(p) \/ StoreNext(p) \/ StorePrev(p)
    BY <2>3, StoreHeaderStep, StoreSizeStep, StoreStatusStep, StoreNextStep, StorePrevStep
  <2>4. CASE Check(p) \/ StoreFree(p)
    BY <2>4, CheckStep, StoreFreeStep
  <2>5. CASE Grow(p) \/ Unlink(p) \/ Back(p)
    BY <2>5, GrowStep, UnlinkStep, BackStep
  <2>6. CASE Last(p) \/ UnlockMmap(p) \/ Leave(p)
    BY <1>2, <2>6, LastKeepsList, UnlockKeepsList, LeaveKeepsList
  <2> QED
    BY <1>4, <2>1, <2>2, <2>3, <2>4, <2>5, <2>6 DEF Work
<1>5. ASSUME NEW p \in Procs, \E size \in Sizes : Malloc(p, size)
      PROVE  TypeOK' /\ ListInv'
  BY <1>2, <1>5, MallocKeepsList
<1>6. ASSUME NEW p \in Procs, \E a \in live : Free(p, a)
      PROVE  TypeOK' /\ ListInv'
  BY <1>2, <1>6, FreeKeepsList
<1>7. ASSUME NEW p \in Procs, Crash(p)
      PROVE  TypeOK' /\ ListInv'
  BY <1>2, <1>7, CrashKeepsList
<1>8. ASSUME NEW p \in Procs, Fork(p)
      PROVE  TypeOK' /\ ListInv'
  <2>1. alive' \subseteq Procs /\ UNCHANGED <<mem, mapped, live, mutex, proc, crashes>>
    BY <1>3, <1>8 DEF Fork
  <2>2. TypeOK' /\ Laid' /\ Backed' /\ Calls' /\ Gone'
    BY <2>1 DEF CallInv, TypeOK, ListInv, Laid, Backed, Calls, Gone
  <2> QED
    BY <2>2 DEF ListInv
<1>9. ASSUME UNCHANGED vars
      PROVE  TypeOK' /\ ListInv'
  <2>1. UNCHANGED <<mem, mapped, live, mutex, proc, alive, crashes>>
    BY <1>9 DEF vars
  <2>2. TypeOK' /\ Laid' /\ Backed' /\ Calls' /\ Gone'
    BY <2>1 DEF CallInv, TypeOK, ListInv, Laid, Backed, Calls, Gone
  <2> QED
    BY <2>2 DEF ListInv
<1>10. TypeOK' /\ ListInv'
  BY <1>3, <1>4, <1>5, <1>6, <1>7, <1>8, <1>9 DEF Next, Halted
<1> QED
  BY <1>1, <1>10 DEF CallInv

--------------------------------------------------------------------------------
(* What the invariant means.                                               *)
LEMMA ListMeans ==
  ASSUME CallInv
  PROVE  LiveApart /\ WalksEnd /\ KeptWhileLive
<1>1. PICK L, grown : L = Linked(mem) /\ Layout(mem, L, grown)
                      /\ (grown # NULL => FreeIn(mem, L, grown))
  <2>1. CASE \A p \in Procs : Grown(proc[p]) = NULL
    BY <2>1 DEF CallInv, ListInv, Laid
  <2>2. CASE \E p \in Procs : Grown(proc[p]) # NULL
    <3>1. PICK p \in Procs : Grown(proc[p]) # NULL
      BY <2>2
    <3>2. Layout(mem, Linked(mem), Grown(proc[p])) /\ Joins(mem, Linked(mem), proc[p])
      BY <3>1 DEF CallInv, ListInv, Laid, Calls
    <3>3. FreeIn(mem, Linked(mem), Grown(proc[p]))
      BY <3>1, <3>2 DEF Grown, Joins
    <3> QED
      BY <3>2, <3>3
  <2> QED
    BY <2>1, <2>2
<1>2. /\ MmapSize \in Nat /\ NULL = 0 /\ MallocHeaderSize \in Nat
      /\ FirstHeader \in L
      /\ \A h \in L : /\ h \in Nat /\ h <= MmapSize /\ Multiple(h)
                      /\ mem[h].size \in Nat /\ mem[h].next \in Nat
                      /\ EndOf(mem, h) = h + MallocHeaderSize + mem[h].size
                      /\ mem[h].next # NULL => mem[h].next \in L /\ h < mem[h].next
  <2>1. \A h \in L : Multiple(h)
    BY <1>1 DEF Layout
  <2> QED
    BY <1>1, <2>1, LayoutNat
<1>3. LiveApart
  <2> SUFFICES ASSUME NEW a \in live, NEW b \in live, a # b
               PROVE  a.block # b.block /\ (a.block < b.block => End(a) <= b.block)
    BY DEF LiveApart
  <2>1. PICK g, h, size : g = a.block /\ h = b.block /\ size = a.size
    OBVIOUS
  <2>2. /\ g \in L /\ h \in L /\ g # h /\ mem[g].status = BUSY /\ size <= mem[g].size
        /\ size \in Nat
    BY <1>1, <2>1 DEF CallInv, ListInv, Backed, BusyIn, TypeOK, Allocation
  <2>3. ASSUME g < h PROVE g + MallocHeaderSize + RoundUp(size) <= h
    <3>1. mem[g].next # NULL /\ mem[g].next <= h
      BY <1>1, <2>2, <2>3 DEF Layout, Sorted
    <3>2. g # grown \/ grown = NULL
      BY <1>1, <2>2 DEF FreeIn, FREE, BUSY
    <3>3. EndOf(mem, g) <= mem[g].next
      <4>1. g # grown
        BY <1>2, <2>2, <3>2, LayoutNat, <1>1
      <4> QED
        BY <1>1, <2>2, <3>1, <4>1 DEF Layout, Until
    <3>4. g + MallocHeaderSize + size <= h
      <4>1. /\ EndOf(mem, g) = g + MallocHeaderSize + mem[g].size
            /\ g \in Nat /\ h \in Nat /\ mem[g].size \in Nat /\ mem[g].next \in Nat
            /\ MallocHeaderSize \in Nat
        BY <1>2, <2>2
      <4> QED
        BY <2>2, <3>1, <3>3, <4>1
    <3>5. PICK d, s : d = g + MallocHeaderSize /\ s = h - d
      OBVIOUS
    <3>6. d \in Nat /\ d <= h /\ s \in Nat /\ size <= s /\ h \in Nat
      <4>1. g \in Nat /\ h \in Nat /\ MallocHeaderSize \in Nat /\ size \in Nat
        BY <1>2, <2>2
      <4> QED
        BY <3>4, <3>5, <4>1
    <3>7. Multiple(d) /\ Multiple(h)
      BY <1>2, <2>2, <3>5, MultipleSum, MultipleHeaders
    <3>8. Multiple(s)
      BY <3>5, <3>6, <3>7, MultipleDifference
    <3>9. RoundUp(size) <= s /\ RoundUp(size) \in Nat
      BY <2>2, <3>6, <3>8, RoundUpBelow, RoundUpBounds
    <3> QED
      BY <3>5, <3>6, <3>9
  <2> QED
    BY <2>1, <2>2, <2>3 DEF End
<1>4. WalksEnd
  <2> DEFINE r == [h \in L |-> MmapSize - h]
             Bad == {h \in L : mem[h].next # NULL}
  <2>1. r \in [L -> Nat]
    BY <1>2
  <2>2. ASSUME \A h \in L : mem[h].next # NULL PROVE FALSE
    <3>1. ASSUME NEW h \in Bad PROVE \E g \in Bad : r[g] < r[h]
      <4>1. mem[h].next \in L /\ h < mem[h].next
        BY <1>2
      <4>2. r[mem[h].next] < r[h]
        BY <1>2, <4>1
      <4> QED
        BY <2>2, <4>1, <4>2
    <3>2. Bad \in SUBSET L
      OBVIOUS
    <3>3. Bad = {}
      <4> HIDE DEF Bad, r
      <4> QED
        BY <2>1, <3>1, <3>2, ByRank
    <3> QED
      BY <1>2, <2>2, <3>3
  <2> QED
    BY <1>1, <2>2 DEF WalksEnd, Ends
<1>5. KeptWhileLive
  BY DEF CallInv, ListInv, Gone, KeptWhileLive
<1> QED
  BY <1>3, <1>4, <1>5

LEMMA ListHolds == ASSUME ~CrashInJoin PROVE Spec => []CallInv
<1>1. Init => CallInv
  BY InitInv, InitList DEF CallInv
<1>2. CallInv /\ [Next]_vars => CallInv'
  BY NextList
<1> QED
  BY <1>1, <1>2, PTL DEF Spec

(* Every store of vgc_malloc and vgc_free leaves a header in place of a     *)
(* header, with sizes that are none below zero (the subtraction of a split  *)
(* in allocMallocBlock), whoever died in which call before.                *)
THEOREM CrashType == ASSUME ~CrashInJoin PROVE Spec => []TypeOK
<1>1. CallInv => TypeOK
  BY DEF CallInv
<1> QED
  BY <1>1, ListHolds, PTL

(* vgc_malloc hands no byte out twice: what it takes from a list that one  *)
(* has left in the middle of a call overlaps no block a client owns.       *)
THEOREM NothingTwice == ASSUME ~CrashInJoin PROVE Spec => []LiveApart
  BY ListHolds, ListMeans, PTL

(* The loops over the list in allocMallocBlock and checkMmapBlock come to  *)
(* an end: no store, and no death between two, closes the list to a circle.*)
THEOREM NoWalkForEver == ASSUME ~CrashInJoin PROVE Spec => []WalksEnd
  BY ListHolds, ListMeans, PTL

(* vgc_free unmaps an MMAP whose list has shrunk to one free block only    *)
(* when no client owns a block of it, though a dead process may have left  *)
(* busy blocks and gaps that nobody frees.                                 *)
THEOREM UnmappedLast == ASSUME ~CrashInJoin PROVE Spec => []KeptWhileLive
  BY ListHolds, ListMeans, PTL

--------------------------------------------------------------------------------
(* A block that a client owns.                                             *)
LEMMA OwnedIs ==
  ASSUME CallInv, NEW a \in live
  PROVE  /\ a.block \in Linked(mem) /\ a.block \in DOMAIN mem
         /\ mem[a.block].status = BUSY
<1>1. a.block \in Linked(mem) /\ mem[a.block].status = BUSY
  BY DEF CallInv, ListInv, Backed, BusyIn
<1>2. PICK grown : Layout(mem, Linked(mem), grown)
  BY DEF CallInv, ListInv, Laid
<1> QED
  BY <1>1, <1>2 DEF Layout, Sorted

(* The stores that change a size, or write a header anew, do so of free    *)
(* blocks and of bytes inside of one.                                      *)
LEMMA HeaderKeepsSize ==
  ASSUME CallInv, NEW p \in Procs, StoreHeader(p), NEW x \in Linked(mem), x \in DOMAIN mem
  PROVE  mem'[x].size = mem[x].size
<1>1. PICK h, n, length : h = proc[p].h /\ n = proc[p].n /\ length = proc[p].length
  OBVIOUS
<1>2. PICK L : L = Linked(mem)
  OBVIOUS
<1>3. /\ proc[p].pc = "header"
      /\ \A g \in DOMAIN mem : g # n => mem'[g] = mem[g]
  BY <1>1 DEF StoreHeader, Store
<1>4. proc[p].pc \in Inside
  BY <1>3 DEF Inside
<1>5. /\ proc[p] \in Proc /\ Grown(proc[p]) = NULL
      /\ Taking(mem, L, proc[p]) /\ Layout(mem, L, NULL)
  BY <1>2, <1>3, <1>4, AtPlace DEF Grown
<1>6. h \in L /\ n = h + MallocHeaderSize + length /\ length + MallocHeaderSize < mem[h].size
  BY <1>1, <1>3, <1>5 DEF Taking
<1>7. /\ MallocHeaderSize \in Nat /\ MallocHeaderSize > 0
      /\ h \in Nat /\ mem[h].size \in Nat
      /\ EndOf(mem, h) = h + MallocHeaderSize + mem[h].size
  BY <1>5, <1>6, LayoutNat
<1>8. length \in Nat
  BY <1>1, <1>5 DEF Proc
<1>9. n \in Nat /\ h < n /\ n < EndOf(mem, h)
  BY <1>6, <1>7, <1>8
<1>10. n \notin L
  BY <1>5, <1>6, <1>9, InsideBlock
<1> QED
  BY <1>2, <1>3, <1>10

LEMMA SizesKeepSize ==
  ASSUME CallInv, NEW p \in Procs, StoreSize(p) \/ Grow(p),
         NEW x \in DOMAIN mem, mem[x].status = BUSY
  PROVE  mem'[x].size = mem[x].size
<1>1. proc[p].pc \in {"size", "grow"}
  BY DEF StoreSize, Grow, Store
<1>2. proc[p].pc \in Inside
  BY <1>1 DEF Inside
<1>3. Taking(mem, Linked(mem), proc[p]) /\ Joins(mem, Linked(mem), proc[p])
  BY <1>2, AtPlace
<1>4. mem[proc[p].h].status = FREE
  BY <1>1, <1>3 DEF Taking, Joins, FreeIn
<1>5. x # proc[p].h
  BY <1>4 DEF FREE, BUSY
<1> QED
  BY <1>5 DEF StoreSize, Grow, Store

LEMMA LinksKeepSize ==
  ASSUME CallInv, NEW p \in Procs,
         \/ StoreStatus(p) \/ StoreNext(p) \/ StorePrev(p)
         \/ StoreFree(p) \/ Unlink(p) \/ Back(p),
         NEW x \in DOMAIN mem, x \in DOMAIN mem'
  PROVE  mem'[x].size = mem[x].size
<1>1. mem[x] \in Header
  BY DEF CallInv, TypeOK
<1>2. CASE StoreStatus(p) \/ StoreNext(p) \/ Unlink(p)
  BY <1>1, <1>2 DEF StoreStatus, StoreNext, Unlink, Store, Header
<1>3. CASE StorePrev(p)
  BY <1>1, <1>3 DEF StorePrev, Store, Header
<1>4. CASE StoreFree(p)
  BY <1>1, <1>4 DEF StoreFree, MarkFree, Header
<1>5. CASE Back(p)
  BY <1>1, <1>5 DEF Back, Header
<1> QED
  BY <1>2, <1>3, <1>4, <1>5

LEMMA WorkKeepsSize ==
  ASSUME CallInv, NEW p \in Procs, Work(p),
         NEW x \in Linked(mem), x \in DOMAIN mem, mem[x].status = BUSY, x \in DOMAIN mem'
  PROVE  mem'[x].size = mem[x].size
<1>1. CASE mem' = mem
  BY <1>1
<1>2. CASE Lock(p) \/ LockOfDead(p) \/ Mend(p) \/ Search(p) \/ Check(p)
  BY <1>1, <1>2 DEF Lock, LockOfDead, Mend, Search, Check
<1>3. CASE Last(p) \/ UnlockMmap(p) \/ Leave(p)
  BY <1>1, <1>3 DEF Last, UnlockMmap, Leave
<1> QED
  BY <1>2, <1>3, HeaderKeepsSize, SizesKeepSize, LinksKeepSize DEF Work

(* What a client owns is as it was after every store of another's call,    *)
(* whoever died in which call before: its block keeps its size and its     *)
(* status, and the list still leads to it.                                 *)
THEOREM OwnedBlocksKept == ASSUME ~CrashInJoin PROVE Spec => OwnedKept
<1>1. ASSUME CallInv, CallInv', [Next]_vars
      PROVE  [\A a \in live \cap live' :
                /\ a.block \in Linked(mem')
                /\ mem'[a.block].size = mem[a.block].size
                /\ mem'[a.block].status = BUSY]_vars
  <2> SUFFICES ASSUME Next, NEW a \in live, a \in live'
               PROVE  /\ a.block \in Linked(mem')
                      /\ mem'[a.block].size = mem[a.block].size
                      /\ mem'[a.block].status = BUSY
    BY <1>1
  <2>1. PICK x : x = a.block
    OBVIOUS
  <2>2. x \in Linked(mem) /\ x \in DOMAIN mem /\ mem[x].status = BUSY
    BY <1>1, <2>1, OwnedIs
  <2>3. x \in Linked(mem') /\ mem'[x].status = BUSY
    BY <1>1, <2>1 DEF CallInv, ListInv, Backed, BusyIn
  <2>4. x \in DOMAIN mem'
    <3>1. PICK grown : Layout(mem', Linked(mem'), grown)
      BY <1>1 DEF CallInv, ListInv, Laid
    <3> QED
      BY <2>3, <3>1 DEF Layout, Sorted
  <2>5. CASE mem' = mem
    BY <2>1, <2>2, <2>3, <2>5
  <2>6. ASSUME NEW p \in Procs, Work(p) PROVE mem'[x].size = mem[x].size
    BY <1>1, <2>2, <2>4, <2>6, WorkKeepsSize
  <2>7. alive \subseteq Procs
    BY <1>1 DEF CallInv, TypeOK
  <2>8. \/ mem' = mem
        \/ \E p \in Procs : Work(p)
    BY <2>7 DEF Next, Malloc, Free, Crash, Fork, Halted, vars
  <2> QED
    BY <2>1, <2>3, <2>5, <2>6, <2>8
<1>2. CallInv /\ [Next]_vars => CallInv'
  BY NextList
<1>3. Init => CallInv
  BY InitInv, InitList DEF CallInv
<1> QED
  BY <1>1, <1>2, <1>3, PTL DEF Spec, OwnedKept

--------------------------------------------------------------------------------
(* What the stores add up to.                                              *)
(* The header that a split of block h leaves the rest with.                *)
Rest(B, h, length) ==
  [size |-> B[h].size - (length + MallocHeaderSize), status |-> FREE,
   prev |-> h, next |-> B[h].next]

(* Block h of list B with another size, status and next.                   *)
Turned(B, h, size, status, next) ==
  [size |-> size, status |-> status, prev |-> B[h].prev, next |-> next]

(* The list a join of vgc_free works on: what has been freed is joined     *)
(* with the next block first.                                              *)
JoinsFrom(B, r) ==
  IF r.n = r.own THEN FreeBlocksNext(MarkFree(B, r.own), r.own) ELSE MarkFree(B, r.own)

(* What a call is to make of the list.                                     *)
Whole(B, r) ==
  IF r.op = "free" THEN FreeBlock(B, r.own)
  ELSE IF r.got = NULL THEN B ELSE AllocBlock(B, r.got, r.size)

(* What the stores of vgc_malloc have made of list B so far.               *)
Taken(B, M, L, r) ==
  LET split == Splits(B, r.h, r.size) IN
  /\ r.h \in DOMAIN B
  /\ IF split THEN /\ r.n = Remainder(r.h, r.size) /\ r.length = RoundUp(r.size)
                   /\ r.n \notin DOMAIN B
                   /\ r.pc # "header" => M[r.n] = Rest(B, r.h, r.length)
     ELSE r.n = B[r.h].next /\ r.length = B[r.h].size /\ r.pc # "header"
  /\ L = DOMAIN B \cup (IF split /\ r.pc = "prev" THEN {r.n} ELSE {})
  /\ \A g \in DOMAIN B \ {r.h} : M[g] = B[g]
  /\ r.pc = "status" => M[r.h] = Turned(B, r.h, r.length, FREE, B[r.h].next)
  /\ r.pc = "next" => M[r.h] = Turned(B, r.h, r.length, BUSY, B[r.h].next)
  /\ r.pc = "prev" => M[r.h] = Turned(B, r.h, r.length, BUSY, r.n)

(* What the stores of a join have made of list C so far.                   *)
Joined(C, M, L, r) ==
  /\ r.h \in L /\ r.n \in DOMAIN C /\ r.h # r.n /\ C[r.h].next = r.n
  /\ IF r.n = r.own THEN PrevIsFree(C, r.own) /\ r.h = C[r.own].prev
     ELSE r.h = r.own /\ NextIsFree(C, r.own)
  /\ L = IF r.pc = "unlink" THEN DOMAIN C ELSE DOMAIN C \ {r.n}
  /\ \A g \in L \ {r.h} : M[g] = C[g]
  /\ r.pc = "unlink" => M[r.n] = C[r.n]
  /\ M[r.h] = Turned(C, r.h, C[r.h].size + C[r.n].size + MallocHeaderSize, C[r.h].status,
                     IF r.pc = "unlink" THEN r.n ELSE C[r.n].next)

SoFar(B, M, L, r) ==
  /\ r.pc \in {"search", "header", "size", "free"} => [g \in L |-> M[g]] = B
  /\ r.pc \in {"header", "size", "status", "next", "prev"} => Taken(B, M, L, r)
  /\ r.pc = "grow" => [g \in L |-> M[g]] = JoinsFrom(B, r)
  /\ r.pc \in {"unlink", "back"} => Joined(JoinsFrom(B, r), M, L, r)
  /\ r.pc \in {"last", "unlock"} => [g \in L |-> M[g]] = Whole(B, r)

SumInv ==
  \A p \in Procs : proc[p].pc \in Inside /\ WellFormed(before, MmapSize) =>
    IsList(before, MmapSize) /\ SoFar(before, mem, Linked(mem), proc[p])

(* The walk meets the same blocks where the links are the same.            *)
LEMMA SameLinked ==
  ASSUME NEW M, NEW L, NEW grown, Layout(M, L, grown), NEW N,
         L \subseteq DOMAIN N, DOMAIN N \subseteq 0 .. MmapSize,
         \A h \in L : N[h].next = M[h].next
  PROVE  Linked(N) = L
<1>1. Sorted(N, L)
  BY DEF Layout, Sorted
<1> QED
  BY <1>1, LinkedIs

LEMMA MovedTo ==
  ASSUME CallInv, NEW p \in Procs, NEW pc, Goto(p, pc)
  PROVE  /\ proc'[p].pc = pc /\ proc'[p].op = proc[p].op /\ proc'[p].size = proc[p].size
         /\ proc'[p].length = proc[p].length /\ proc'[p].h = proc[p].h
         /\ proc'[p].n = proc[p].n /\ proc'[p].own = proc[p].own
         /\ proc'[p].got = proc[p].got
<1>1. proc \in [Procs -> Proc] /\ proc[p] \in Proc
  BY DEF CallInv, TypeOK
<1> QED
  BY <1>1 DEF Goto, Proc

LEMMA HeaderIs ==
  ASSUME NEW x \in Header
  PROVE  x = [size |-> x.size, status |-> x.status, prev |-> x.prev, next |-> x.next]
  BY DEF Header

LEMMA ListIs ==
  ASSUME NEW M, NEW L, NEW B, [g \in L |-> M[g]] = B
  PROVE  DOMAIN B = L /\ \A g \in L : B[g] = M[g]
  OBVIOUS

(* The state of a step of p inside of the section, and what is known of    *)
(* it.                                                                     *)
Adding(p, B) ==
  /\ CallInv /\ CallInv' /\ proc[p].pc \in Inside
  /\ IsList(B, MmapSize) /\ SoFar(B, mem, Linked(mem), proc[p])

LEMMA AddingMeans ==
  ASSUME NEW p \in Procs, NEW B, Adding(p, B), NEW L, L = Linked(mem)
  PROVE  /\ CallInv
         /\ Taking(mem, L, proc[p]) /\ Joins(mem, L, proc[p])
         /\ Layout(mem, L, Grown(proc[p]))
         /\ DOMAIN mem' \subseteq 0 .. MmapSize
         /\ Taking(mem', Linked(mem'), proc'[p]) /\ Joins(mem', Linked(mem'), proc'[p])
         /\ proc \in [Procs -> Proc] /\ proc[p] \in Proc
         /\ \A g \in DOMAIN B : B[g] \in Header /\ g \in Nat
         /\ L \subseteq DOMAIN mem
<1>1. CallInv /\ CallInv' /\ proc[p].pc \in Inside
  BY DEF Adding
<1>2. /\ Taking(mem, L, proc[p]) /\ Joins(mem, L, proc[p])
      /\ Layout(mem, L, Grown(proc[p])) /\ proc \in [Procs -> Proc] /\ proc[p] \in Proc
  BY <1>1, AtPlace
<1>3. Taking(mem', Linked(mem'), proc'[p]) /\ Joins(mem', Linked(mem'), proc'[p])
  BY <1>1 DEF CallInv, ListInv, Calls
<1>4. DOMAIN mem' \subseteq 0 .. MmapSize
  <2>1. Laid'
    BY <1>1 DEF CallInv, ListInv
  <2>2. \E grown : Layout(mem', Linked(mem'), grown)
    BY <2>1 DEF Laid
  <2> QED
    BY <2>2 DEF Layout
<1>5. \A g \in DOMAIN B : B[g] \in Header /\ g \in Nat
  BY DEF Adding, IsList
<1> QED
  BY <1>1, <1>2, <1>3, <1>4, <1>5 DEF Layout, Sorted

LEMMA AddSearch ==
  ASSUME NEW p \in Procs, NEW B, Adding(p, B), Search(p)
  PROVE  SoFar(B, mem', Linked(mem'), proc'[p])
<1>1. PICK L, size, h : /\ L = Linked(mem) /\ size = proc[p].size
                        /\ h = FirstFit(List(mem), size)
  OBVIOUS
<1> DEFINE split == [proc[p] EXCEPT !.pc = "header", !.h = h, !.got = h,
                       !.n = Remainder(h, size), !.length = RoundUp(size)]
           whole == [proc[p] EXCEPT !.pc = "size", !.h = h, !.got = h,
                       !.n = mem[h].next, !.length = mem[h].size]
<1>2. /\ proc[p].pc = "search" /\ mem' = mem /\ proc[p].op = "malloc"
      /\ \/ /\ proc' = [proc EXCEPT ![p] = IF Splits(mem, h, size) THEN split ELSE whole]
         \/ Goto(p, "unlock")
  BY <1>1 DEF Search
<1>3. /\ proc \in [Procs -> Proc] /\ proc[p] \in Proc /\ Taking(mem', L, proc'[p])
      /\ CallInv /\ Taking(mem, L, proc[p]) /\ Layout(mem, L, NULL)
  BY <1>1, <1>2, AddingMeans DEF Grown
<1>4. [g \in L |-> mem[g]] = B
  BY <1>1, <1>2 DEF Adding, SoFar
<1>5. CASE proc' = [proc EXCEPT ![p] = IF Splits(mem, h, size) THEN split ELSE whole]
  <2>1. CASE Splits(mem, h, size)
    <3>1. /\ proc'[p].pc = "header" /\ proc'[p].h = h /\ proc'[p].n = Remainder(h, size)
          /\ proc'[p].length = RoundUp(size) /\ proc'[p].size = size
      BY <1>1, <1>3, <1>5, <2>1 DEF Proc
    <3>2. h \in L
      BY <1>3, <3>1 DEF Taking
    <3>3. Splits(B, h, size)
      BY <1>4, <2>1, <3>2 DEF Splits
    <3>4. Remainder(h, size) \notin L
      <4>1. /\ h \in Nat /\ mem[h].size \in Nat /\ MallocHeaderSize \in Nat
            /\ MallocHeaderSize > 0 /\ EndOf(mem, h) = h + MallocHeaderSize + mem[h].size
        BY <1>3, <3>2, LayoutNat
      <4>2. RoundUp(size) \in Nat
        BY <1>1, <1>3, RoundUpBounds DEF Proc
      <4>3. /\ Remainder(h, size) \in Nat /\ h < Remainder(h, size)
            /\ Remainder(h, size) < EndOf(mem, h)
        BY <2>1, <4>1, <4>2 DEF Splits, Remainder
      <4> QED
        BY <1>3, <3>2, <4>3, InsideBlock
    <3>5. Taken(B, mem, L, proc'[p])
      BY <1>4, <3>1, <3>2, <3>3, <3>4 DEF Taken
    <3> QED
      BY <1>1, <1>2, <1>4, <3>1, <3>5 DEF SoFar
  <2>2. CASE ~Splits(mem, h, size)
    <3>1. /\ proc'[p].pc = "size" /\ proc'[p].h = h /\ proc'[p].n = mem[h].next
          /\ proc'[p].length = mem[h].size /\ proc'[p].size = size
      BY <1>1, <1>3, <1>5, <2>2 DEF Proc
    <3>2. h \in L
      BY <1>3, <3>1 DEF Taking
    <3>3. ~Splits(B, h, size)
      BY <1>4, <2>2, <3>2 DEF Splits
    <3>4. Taken(B, mem, L, proc'[p])
      BY <1>4, <3>1, <3>2, <3>3 DEF Taken
    <3> QED
      BY <1>1, <1>2, <1>4, <3>1, <3>4 DEF SoFar
  <2> QED
    BY <2>1, <2>2
<1>6. CASE Goto(p, "unlock")
  <2>1. proc[p].got = NULL
    BY <1>2, <1>3 DEF Taking
  <2>2. proc'[p].pc = "unlock" /\ proc'[p].op = "malloc" /\ proc'[p].got = NULL
    BY <1>2, <1>3, <1>6, <2>1, MovedTo
  <2>3. Whole(B, proc'[p]) = B
    BY <2>2 DEF Whole
  <2> QED
    BY <1>1, <1>2, <1>4, <2>2, <2>3 DEF SoFar
<1> QED
  BY <1>2, <1>5, <1>6

LEMMA AddHeader ==
  ASSUME NEW p \in Procs, NEW B, Adding(p, B), StoreHeader(p)
  PROVE  SoFar(B, mem', Linked(mem'), proc'[p])
<1>1. PICK L, h, n, length, size : /\ L = Linked(mem) /\ h = proc[p].h /\ n = proc[p].n
                                   /\ length = proc[p].length /\ size = proc[p].size
  OBVIOUS
<1>2. PICK header : header = [size   |-> mem[h].size - (length + MallocHeaderSize),
                              status |-> FREE, prev |-> h, next |-> mem[h].next]
  OBVIOUS
<1>3. /\ proc[p].pc = "header" /\ Goto(p, "size")
      /\ mem' = [g \in DOMAIN mem \cup {n} |-> IF g = n THEN header ELSE mem[g]]
  BY <1>1, <1>2 DEF StoreHeader, Store, After
<1>4. /\ CallInv /\ Layout(mem, L, NULL) /\ L \subseteq DOMAIN mem
      /\ DOMAIN mem' \subseteq 0 .. MmapSize
  BY <1>1, <1>3, AddingMeans DEF Grown
<1>5. [g \in L |-> mem[g]] = B /\ Taken(B, mem, L, proc[p])
  BY <1>1, <1>3 DEF Adding, SoFar
<1>6. /\ h \in L /\ Splits(B, h, size) /\ n = Remainder(h, size) /\ length = RoundUp(size)
      /\ n \notin L
  BY <1>1, <1>3, <1>5 DEF Taken
<1>7. mem'[n] = header /\ \A g \in L : mem'[g] = mem[g]
  BY <1>3, <1>4, <1>6
<1>8. header = Rest(B, h, length)
  BY <1>2, <1>5, <1>6 DEF Rest
<1>9. Linked(mem') = L
  <2>1. L \subseteq DOMAIN mem'
    BY <1>3, <1>4
  <2> QED
    BY <1>4, <1>7, <2>1, SameLinked
<1>10. /\ proc'[p].pc = "size" /\ proc'[p].h = h /\ proc'[p].n = n
       /\ proc'[p].length = length /\ proc'[p].size = size
  BY <1>1, <1>3, <1>4, MovedTo
<1>11. [g \in L |-> mem'[g]] = B
  BY <1>5, <1>7
<1>12. Taken(B, mem', L, proc'[p])
  BY <1>6, <1>7, <1>8, <1>10, <1>11 DEF Taken
<1> QED
  BY <1>9, <1>10, <1>11, <1>12 DEF SoFar

(* A split has a header of its own that is not on the list yet.            *)
LEMMA RestThere ==
  ASSUME NEW p \in Procs, NEW B, Adding(p, B), proc[p].pc \in {"size", "status", "next"},
         NEW h, h = proc[p].h, NEW n, n = proc[p].n, Splits(B, h, proc[p].size)
  PROVE  n \in DOMAIN mem /\ n # h /\ n # NULL /\ n \notin Linked(mem)
<1>1. PICK L, size : L = Linked(mem) /\ size = proc[p].size
  OBVIOUS
<1>2. /\ Taking(mem, L, proc[p]) /\ Layout(mem, L, NULL) /\ proc[p] \in Proc
      /\ \A g \in DOMAIN B : B[g] \in Header
  BY <1>1, AddingMeans DEF Grown
<1>3. Taken(B, mem, L, proc[p])
  BY <1>1 DEF Adding, SoFar
<1>4. h \in DOMAIN B /\ n = Remainder(h, size) /\ n \notin DOMAIN B /\ L = DOMAIN B
  BY <1>1, <1>3 DEF Taken
<1>5. n # NULL
  <2>1. h \in Nat \ {0} /\ MallocHeaderSize \in Nat
    BY <1>2, <1>4, LayoutNat
  <2>2. size \in Nat
    BY <1>1, <1>2 DEF Proc
  <2> QED
    BY <1>4, <2>1, <2>2, RoundUpBounds DEF Remainder, NULL
<1>6. SplitAt(mem, h, n, proc[p].length) \/ n = mem[h].next
  BY <1>1, <1>2 DEF Taking
<1>7. mem[h].next # NULL => mem[h].next \in L
  BY <1>2, <1>4, LayoutNat
<1> QED
  BY <1>1, <1>4, <1>5, <1>6, <1>7 DEF SplitAt

LEMMA AddSize ==
  ASSUME NEW p \in Procs, NEW B, Adding(p, B), StoreSize(p)
  PROVE  SoFar(B, mem', Linked(mem'), proc'[p])
<1>1. PICK L, h, n, length, size : /\ L = Linked(mem) /\ h = proc[p].h /\ n = proc[p].n
                                   /\ length = proc[p].length /\ size = proc[p].size
  OBVIOUS
<1>3. /\ proc[p].pc = "size" /\ Goto(p, "status")
      /\ mem' = [mem EXCEPT ![h].size = length]
  BY <1>1 DEF StoreSize, Store, After
<1>4. /\ CallInv /\ Layout(mem, L, NULL) /\ L \subseteq DOMAIN mem
      /\ DOMAIN mem' \subseteq 0 .. MmapSize /\ Taking(mem, L, proc[p])
      /\ \A g \in DOMAIN B : B[g] \in Header
  BY <1>1, <1>3, AddingMeans DEF Grown
<1>5. [g \in L |-> mem[g]] = B /\ Taken(B, mem, L, proc[p])
  BY <1>1, <1>3 DEF Adding, SoFar
<1>6. /\ h \in L /\ mem[h] = B[h] /\ mem[h] \in Header /\ mem[h].status = FREE
  BY <1>1, <1>3, <1>4, <1>5 DEF Taken, Taking
<1>7. /\ \A g \in DOMAIN mem \ {h} : mem'[g] = mem[g]
      /\ mem'[h] = [mem[h] EXCEPT !.size = length]
  BY <1>3, <1>4, <1>6
<1>8. mem'[h] = Turned(B, h, length, FREE, B[h].next)
  BY <1>6, <1>7 DEF Turned, Header
<1>9. Linked(mem') = L
  <2>1. L \subseteq DOMAIN mem'
    BY <1>3, <1>4
  <2>2. \A g \in L : mem'[g].next = mem[g].next
    BY <1>4, <1>6, <1>7, <1>8 DEF Turned
  <2> QED
    BY <1>4, <2>1, <2>2, SameLinked
<1>10. /\ proc'[p].pc = "status" /\ proc'[p].h = h /\ proc'[p].n = n
       /\ proc'[p].length = length /\ proc'[p].size = size
  BY <1>1, <1>3, <1>4, MovedTo
<1>11. Splits(B, h, size) => mem'[n] = Rest(B, h, length)
  <2> SUFFICES ASSUME Splits(B, h, size) PROVE mem'[n] = Rest(B, h, length)
    OBVIOUS
  <2>1. mem[n] = Rest(B, h, length)
    BY <1>1, <1>3, <1>5 DEF Taken
  <2>2. n \in DOMAIN mem /\ n # h
    BY <1>1, <1>3, RestThere
  <2> QED
    BY <1>7, <2>1, <2>2
<1>12. Taken(B, mem', L, proc'[p])
  <2>1. /\ L = DOMAIN B /\ \A g \in DOMAIN B \ {h} : mem'[g] = B[g]
    BY <1>4, <1>5, <1>7
  <2>2. /\ h \in DOMAIN B
        /\ IF Splits(B, h, size) THEN n = Remainder(h, size) /\ length = RoundUp(size)
                                      /\ n \notin DOMAIN B
           ELSE n = B[h].next /\ length = B[h].size
    BY <1>1, <1>3, <1>5 DEF Taken
  <2> QED
    BY <1>8, <1>10, <1>11, <2>1, <2>2 DEF Taken
<1> QED
  BY <1>9, <1>10, <1>12 DEF SoFar

LEMMA AddStatus ==
  ASSUME NEW p \in Procs, NEW B, Adding(p, B), StoreStatus(p)
  PROVE  SoFar(B, mem', Linked(mem'), proc'[p])
<1>1. PICK L, h, n, length, size : /\ L = Linked(mem) /\ h = proc[p].h /\ n = proc[p].n
                                   /\ length = proc[p].length /\ size = proc[p].size
  OBVIOUS
<1>3. /\ proc[p].pc = "status" /\ Goto(p, "next")
      /\ mem' = [mem EXCEPT ![h].status = BUSY]
  BY <1>1 DEF StoreStatus, Store, After
<1>4. /\ CallInv /\ Layout(mem, L, NULL) /\ L \subseteq DOMAIN mem
      /\ DOMAIN mem' \subseteq 0 .. MmapSize
  BY <1>1, <1>3, AddingMeans DEF Grown
<1>5. Taken(B, mem, L, proc[p])
  BY <1>1, <1>3 DEF Adding, SoFar
<1>6. /\ h \in L /\ L = DOMAIN B /\ mem[h] = Turned(B, h, length, FREE, B[h].next)
      /\ \A g \in L \ {h} : mem[g] = B[g]
      /\ IF Splits(B, h, size) THEN n = Remainder(h, size) /\ length = RoundUp(size)
                                    /\ n \notin DOMAIN B /\ mem[n] = Rest(B, h, length)
         ELSE n = B[h].next /\ length = B[h].size
  BY <1>1, <1>3, <1>5 DEF Taken
<1>7. /\ \A g \in DOMAIN mem \ {h} : mem'[g] = mem[g]
      /\ mem'[h] = [mem[h] EXCEPT !.status = BUSY]
  BY <1>3, <1>4, <1>6
<1>8. mem'[h] = Turned(B, h, length, BUSY, B[h].next)
  BY <1>6, <1>7 DEF Turned
<1>9. Linked(mem') = L
  <2>1. L \subseteq DOMAIN mem'
    BY <1>3, <1>4
  <2>2. \A g \in L : mem'[g].next = mem[g].next
    BY <1>4, <1>6, <1>7, <1>8 DEF Turned
  <2> QED
    BY <1>4, <2>1, <2>2, SameLinked
<1>10. /\ proc'[p].pc = "next" /\ proc'[p].h = h /\ proc'[p].n = n
       /\ proc'[p].length = length /\ proc'[p].size = size
  BY <1>1, <1>3, <1>4, MovedTo
<1>11. Splits(B, h, size) => mem'[n] = mem[n]
  BY <1>1, <1>3, <1>7, RestThere
<1>12. Taken(B, mem', L, proc'[p])
  <2>1. \A g \in L \ {h} : mem'[g] = B[g]
    BY <1>4, <1>6, <1>7
  <2> QED
    BY <1>6, <1>8, <1>10, <1>11, <2>1 DEF Taken
<1> QED
  BY <1>9, <1>10, <1>12 DEF SoFar

LEMMA AddNext ==
  ASSUME NEW p \in Procs, NEW B, Adding(p, B), StoreNext(p)
  PROVE  SoFar(B, mem', Linked(mem'), proc'[p])
<1>1. PICK L, h, n, length, size : /\ L = Linked(mem) /\ h = proc[p].h /\ n = proc[p].n
                                   /\ length = proc[p].length /\ size = proc[p].size
  OBVIOUS
<1>3. /\ proc[p].pc = "next" /\ Goto(p, "prev")
      /\ mem' = [mem EXCEPT ![h].next = n]
  BY <1>1 DEF StoreNext, Store, After
<1>4. /\ CallInv /\ Layout(mem, L, NULL) /\ L \subseteq DOMAIN mem
      /\ DOMAIN mem' \subseteq 0 .. MmapSize /\ Taking(mem, L, proc[p])
  BY <1>1, <1>3, AddingMeans DEF Grown
<1>5. Taken(B, mem, L, proc[p])
  BY <1>1, <1>3 DEF Adding, SoFar
<1>6. /\ h \in L /\ L = DOMAIN B /\ mem[h] = Turned(B, h, length, BUSY, B[h].next)
      /\ \A g \in L \ {h} : mem[g] = B[g]
      /\ IF Splits(B, h, size) THEN n = Remainder(h, size) /\ length = RoundUp(size)
                                    /\ n \notin DOMAIN B /\ mem[n] = Rest(B, h, length)
         ELSE n = B[h].next /\ length = B[h].size
  BY <1>1, <1>3, <1>5 DEF Taken
<1>7. /\ \A g \in DOMAIN mem \ {h} : mem'[g] = mem[g]
      /\ mem'[h] = [mem[h] EXCEPT !.next = n]
  BY <1>3, <1>4, <1>6
<1>8. mem'[h] = Turned(B, h, length, BUSY, n)
  BY <1>6, <1>7 DEF Turned
<1>9. PICK K : K = L \cup (IF Splits(B, h, size) THEN {n} ELSE {})
  OBVIOUS
<1>10. Linked(mem') = K
  <2>1. CASE Splits(B, h, size)
    <3>1. n # NULL /\ n \notin L
      BY <1>1, <1>3, <2>1, RestThere
    <3>2. n # mem[h].next
      BY <1>4, <1>6, <3>1, LayoutNat
    <3>3. length = mem[h].size /\ SplitAt(mem, h, n, length)
      BY <1>1, <1>3, <1>4, <3>2 DEF Taking
    <3>4. Layout(mem', L \cup {n}, NULL)
      BY <1>3, <1>4, <1>6, <3>3, SplitLayout
    <3> QED
      BY <1>9, <2>1, <3>4, LinkedIs DEF Layout
  <2>2. CASE ~Splits(B, h, size)
    <3>1. L \subseteq DOMAIN mem'
      BY <1>3, <1>4
    <3>2. mem[h].next = n
      BY <1>6, <2>2 DEF Turned
    <3>3. \A g \in L : mem'[g].next = mem[g].next
      BY <1>4, <1>6, <1>7, <1>8, <3>2 DEF Turned
    <3> QED
      BY <1>4, <1>9, <2>2, <3>1, <3>3, SameLinked
  <2> QED
    BY <2>1, <2>2
<1>11. /\ proc'[p].pc = "prev" /\ proc'[p].h = h /\ proc'[p].n = n
       /\ proc'[p].length = length /\ proc'[p].size = size
  BY <1>1, <1>3, <1>4, MovedTo
<1>12. Splits(B, h, size) => mem'[n] = mem[n]
  BY <1>1, <1>3, <1>7, RestThere
<1>13. Taken(B, mem', K, proc'[p])
  <2>1. \A g \in L \ {h} : mem'[g] = B[g]
    BY <1>4, <1>6, <1>7
  <2> QED
    BY <1>6, <1>8, <1>9, <1>11, <1>12, <2>1 DEF Taken
<1> QED
  BY <1>10, <1>11, <1>13 DEF SoFar

LEMMA AddPrev ==
  ASSUME NEW p \in Procs, NEW B, Adding(p, B), StorePrev(p)
  PROVE  SoFar(B, mem', Linked(mem'), proc'[p])
<1>1. PICK L, h, n, length, size, x :
        /\ L = Linked(mem) /\ h = proc[p].h /\ n = proc[p].n
        /\ length = proc[p].length /\ size = proc[p].size /\ x = mem[n].next
  OBVIOUS
<1>2. /\ proc[p].pc = "prev" /\ Goto(p, "unlock")
      /\ mem' = IF n = NULL \/ x = NULL THEN mem ELSE [mem EXCEPT ![x].prev = n]
  BY <1>1 DEF StorePrev, Store, After
<1>3. /\ CallInv /\ Layout(mem, L, NULL) /\ L \subseteq DOMAIN mem
      /\ DOMAIN mem' \subseteq 0 .. MmapSize /\ Taking(mem, L, proc[p])
      /\ \A g \in DOMAIN B : B[g] \in Header
  BY <1>1, <1>2, AddingMeans DEF Grown
<1>4. Taken(B, mem, L, proc[p])
  BY <1>1, <1>2 DEF Adding, SoFar
<1>5. /\ h \in DOMAIN B /\ mem[h] = Turned(B, h, length, BUSY, n)
      /\ \A g \in DOMAIN B \ {h} : mem[g] = B[g]
      /\ IF Splits(B, h, size) THEN /\ n = Remainder(h, size) /\ length = RoundUp(size)
                                    /\ n \notin DOMAIN B /\ mem[n] = Rest(B, h, length)
                                    /\ L = DOMAIN B \cup {n}
         ELSE n = B[h].next /\ length = B[h].size /\ L = DOMAIN B
  BY <1>1, <1>2, <1>4 DEF Taken
<1>6. proc[p].op = "malloc" /\ proc[p].got = h /\ h \in L /\ mem[h].next = n
  BY <1>1, <1>2, <1>3 DEF Taking
<1>7. /\ NULL = 0 /\ NULL \notin L /\ h \in Nat
      /\ n # NULL => /\ n \in L /\ h < n /\ n \in Nat
                     /\ x # NULL => x \in L /\ n < x /\ x \in Nat
  <2>1. \A g \in L : /\ g \in Nat \ {0} /\ mem[g].next \in Nat
                     /\ mem[g].next # NULL => mem[g].next \in L /\ g < mem[g].next
    BY <1>3, LayoutNat
  <2> QED
    BY <1>1, <1>6, <2>1 DEF NULL
<1>8. /\ DOMAIN mem' = DOMAIN mem
      /\ \A g \in DOMAIN mem : mem'[g] =
           IF n # NULL /\ x # NULL /\ g = x THEN [mem[g] EXCEPT !.prev = n] ELSE mem[g]
  BY <1>2, <1>3, <1>7
<1>9. Linked(mem') = L
  <2>1. \A g \in DOMAIN mem : mem[g] \in Header
    BY <1>3 DEF Layout
  <2>2. \A g \in L : mem'[g].next = mem[g].next
    BY <1>3, <1>8, <2>1 DEF Header
  <2> QED
    BY <1>3, <1>8, <2>2, SameLinked
<1>10. /\ proc'[p].pc = "unlock" /\ proc'[p].op = "malloc" /\ proc'[p].got = h
       /\ proc'[p].size = size
  BY <1>1, <1>2, <1>3, <1>6, MovedTo
<1>11. Whole(B, proc'[p]) = AllocBlock(B, h, size)
  BY <1>6, <1>7, <1>10 DEF Whole
<1>12. [g \in L |-> mem'[g]] = AllocBlock(B, h, size)
  <2>1. CASE Splits(B, h, size)
    <3>1. n # NULL
      <4>1. n \in L
        BY <1>5, <2>1
      <4> QED
        BY <1>7, <4>1
    <3>2. x = B[h].next /\ x # h /\ x # n /\ n # h
      <4>1. x = B[h].next
        BY <1>1, <1>5, <2>1 DEF Rest
      <4> QED
        BY <1>6, <1>7, <3>1, <4>1
    <3>3. mem'[n] = Rest(B, h, RoundUp(size))
      BY <1>3, <1>5, <1>8, <2>1, <3>2
    <3>4. mem'[h] = Turned(B, h, RoundUp(size), BUSY, n)
      BY <1>3, <1>5, <1>6, <1>8, <2>1, <3>2
    <3>5. \A g \in DOMAIN B \ {h} :
            mem'[g] = IF g = x THEN [B[g] EXCEPT !.prev = n] ELSE B[g]
      <4>1. \A g \in DOMAIN B : g # NULL /\ g \in L /\ g \in DOMAIN mem
        BY <1>3, <1>5, <1>7, <2>1
      <4> QED
        BY <1>5, <1>8, <3>1, <4>1
    <3>6. AllocBlock(B, h, size) =
            [g \in DOMAIN B \cup {n} |->
               IF g = n THEN Rest(B, h, RoundUp(size))
               ELSE IF g = h THEN Turned(B, h, RoundUp(size), BUSY, n)
               ELSE IF g = x THEN [B[g] EXCEPT !.prev = n]
               ELSE B[g]]
      BY <1>5, <2>1, <3>2 DEF AllocBlock, Rest, Turned
    <3>7. L = DOMAIN B \cup {n} /\ n \notin DOMAIN B
      BY <1>5, <2>1
    <3> QED
      BY <3>2, <3>3, <3>4, <3>5, <3>6, <3>7
  <2>2. CASE ~Splits(B, h, size)
    <3>1. AllocBlock(B, h, size) = [B EXCEPT ![h].status = BUSY]
      BY <2>2 DEF AllocBlock
    <3>2. L = DOMAIN B /\ n = B[h].next /\ length = B[h].size
      BY <1>5, <2>2
    <3>3. mem'[h] = [B[h] EXCEPT !.status = BUSY]
      <4>1. x # h \/ n = NULL \/ x = NULL
        BY <1>7
      <4>2. mem'[h] = Turned(B, h, length, BUSY, n)
        BY <1>3, <1>5, <1>6, <1>8, <4>1
      <4>3. B[h] \in Header
        BY <1>3, <1>5
      <4> QED
        BY <3>2, <4>2, <4>3 DEF Turned, Header
    <3>4. ASSUME NEW g \in L \ {h} PROVE mem'[g] = B[g]
      <4>1. mem[g] = B[g] /\ g \in DOMAIN mem /\ B[g] \in Header
        BY <1>3, <1>5, <3>2
      <4>2. CASE n # NULL /\ x # NULL /\ g = x
        <5>1. n \in DOMAIN B /\ n # h /\ mem[n] = B[n]
          BY <1>5, <1>7, <3>2, <4>2
        <5>2. B[x].prev = n
          <6>1. WellLinked(B, MmapSize, n)
            BY <5>1 DEF Adding, IsList, WellFormed
          <6>2. B[n].next = x
            BY <1>1, <5>1
          <6> QED
            BY <4>2, <6>1, <6>2 DEF WellLinked
        <5>3. mem'[g] = [B[g] EXCEPT !.prev = n]
          BY <1>8, <4>1, <4>2
        <5> QED
          BY <4>1, <4>2, <5>2, <5>3 DEF Header
      <4>3. CASE ~(n # NULL /\ x # NULL /\ g = x)
        BY <1>8, <4>1, <4>3
      <4> QED
        BY <4>2, <4>3
    <3>5. h \in DOMAIN B
      BY <1>5
    <3> QED
      BY <3>1, <3>2, <3>3, <3>4, <3>5
  <2> QED
    BY <2>1, <2>2
<1> QED
  BY <1>9, <1>10, <1>11, <1>12 DEF SoFar

LEMMA AddCheck ==
  ASSUME NEW p \in Procs, NEW B, Adding(p, B), Check(p)
  PROVE  SoFar(B, mem', Linked(mem'), proc'[p])
<1>1. PICK L : L = Linked(mem)
  OBVIOUS
<1>2. /\ proc[p].pc = "search" /\ mem' = mem /\ proc[p].op = "free"
      /\ IF Passes(mem) THEN Goto(p, "free") ELSE Goto(p, "unlock")
  BY DEF Check
<1>3. [g \in L |-> mem[g]] = B
  BY <1>1, <1>2 DEF Adding, SoFar
<1>4. Passes(mem)
  <2>1. List(mem) = B
    BY <1>1, <1>3 DEF List
  <2>2. ASSUME NEW h \in DOMAIN B
        PROVE  /\ B[h].size <= MaxSize(MmapSize) /\ h <= MmapSize
               /\ B[h].next # NULL => B[B[h].next].prev = h
    <3>1. WellLinked(B, MmapSize, h)
      BY DEF Adding, IsList, WellFormed
    <3>2. h \in Nat /\ B[h].size \in Nat
      BY <1>1, AddingMeans DEF Header
    <3> QED
      BY <3>1, <3>2, PageSizeAssumption, CrashAssumption
      DEF WellLinked, EndOf, MaxSize, FirstHeader, MmapHeaderSize, MallocHeaderSize
  <2> QED
    BY <2>1, <2>2 DEF Passes, CheckMmapBlock
<1>5. proc'[p].pc = "free"
  BY <1>2, <1>4, MovedTo DEF Adding
<1> QED
  BY <1>1, <1>2, <1>3, <1>5 DEF SoFar

(* Where the links agree, the previous block is on the list.               *)
LEMMA PrevLinked ==
  ASSUME NEW M, NEW L, Layout(M, L, NULL), LinksBack(M, L), NEW own \in L,
         M[own].prev # NULL
  PROVE  M[own].prev \in L /\ M[M[own].prev].next = own
<1>1. own # FirstHeader
  BY DEF Layout
<1>2. PICK f \in L : M[f].next = own
  BY <1>1, Predecessor DEF Layout
<1>3. own # NULL
  BY LayoutNat
<1> QED
  BY <1>2, <1>3 DEF LinksBack

(* What is left to do after the join with the next block.                  *)
LEMMA AfterNext ==
  ASSUME NEW p \in Procs, proc[p] \in Proc, proc[p].op = "free",
         NEW M, NEW L, Layout(M, L, NULL), LinksBack(M, L),
         NEW own, own = proc[p].own, FreeIn(M, L, own), NEW r, r = TryPrev(p, M),
         NEW B, [g \in L |-> M[g]] = FreeBlocksNext(MarkFree(B, own), own)
  PROVE  SoFar(B, M, L, r)
<1>1. PICK D : D = FreeBlocksNext(MarkFree(B, own), own)
  OBVIOUS
<1>2. own \in L /\ D = [g \in L |-> M[g]]
  BY <1>1 DEF FreeIn
<1>3. CASE PrevIsFree(M, own)
  <2>1. r = [proc[p] EXCEPT !.pc = "grow", !.h = M[own].prev, !.n = own]
    BY <1>3 DEF TryPrev, Joining
  <2>2. r.pc = "grow" /\ r.n = own /\ r.own = own
    BY <2>1 DEF Proc
  <2>3. JoinsFrom(B, r) = D
    BY <1>1, <2>2 DEF JoinsFrom
  <2> QED
    BY <1>2, <2>2, <2>3 DEF SoFar
<1>4. CASE ~PrevIsFree(M, own)
  <2>1. r = [proc[p] EXCEPT !.pc = "last"]
    BY <1>4 DEF TryPrev
  <2>2. r.pc = "last" /\ r.op = "free" /\ r.own = own
    BY <2>1 DEF Proc
  <2>3. ~PrevIsFree(D, own)
    BY <1>2, <1>4, PrevLinked DEF PrevIsFree
  <2>4. Whole(B, r) = D
    BY <1>1, <2>2, <2>3 DEF Whole, FreeBlock, FreeBlocksPrev
  <2> QED
    BY <1>2, <2>2, <2>4 DEF SoFar
<1> QED
  BY <1>3, <1>4

LEMMA AddFree ==
  ASSUME NEW p \in Procs, NEW B, Adding(p, B), StoreFree(p)
  PROVE  SoFar(B, mem', Linked(mem'), proc'[p])
<1>1. PICK own, L, M, r : /\ own = proc[p].own /\ L = Linked(mem) /\ M = mem'
                          /\ r = TryNext(p, M)
  OBVIOUS
<1>2. /\ proc[p].pc = "free" /\ M = MarkFree(mem, own)
      /\ proc' = [proc EXCEPT ![p] = r]
  BY <1>1 DEF StoreFree
<1>3. /\ CallInv /\ proc \in [Procs -> Proc] /\ proc[p] \in Proc
  BY AddingMeans
<1>4. /\ proc[p].op = "free" /\ own \in L
      /\ Layout(mem, L, NULL) /\ Layout(mem', L, NULL)
      /\ LinksBack(mem', L) /\ FreeIn(mem', L, own)
      /\ \A g \in L : g \in DOMAIN mem /\ mem'[g].next = mem[g].next
  BY <1>1, <1>3, FreedList
<1>5. Linked(M) = L /\ proc'[p] = r
  BY <1>1, <1>2, <1>3, <1>4, LinkedIs DEF Layout
<1>6. [g \in L |-> mem[g]] = B
  BY <1>1, <1>2 DEF Adding, SoFar
<1>7. [g \in L |-> M[g]] = MarkFree(B, own)
  BY <1>2, <1>4, <1>6 DEF MarkFree
<1>8. CASE NextIsFree(M, own)
  <2>1. PICK n : n = M[own].next
    OBVIOUS
  <2>2. n # NULL /\ n # own
    <3>1. n # NULL
      BY <1>8, <2>1 DEF NextIsFree
    <3>2. own \in Nat /\ mem[own].next \in Nat /\ (mem[own].next # NULL => own < mem[own].next)
      BY <1>4, LayoutNat
    <3> QED
      BY <1>1, <1>4, <2>1, <3>1, <3>2
  <2>3. r = [proc[p] EXCEPT !.pc = "grow", !.h = own, !.n = n]
    BY <1>1, <1>8, <2>1 DEF TryNext, Joining
  <2>4. r.pc = "grow" /\ r.n = n /\ r.own = own
    BY <1>1, <1>3, <2>3 DEF Proc
  <2>5. JoinsFrom(B, r) = MarkFree(B, own)
    BY <2>2, <2>4 DEF JoinsFrom
  <2>6. SoFar(B, M, L, r)
    BY <1>7, <2>4, <2>5 DEF SoFar
  <2> QED
    BY <1>1, <1>5, <2>6
<1>9. CASE ~NextIsFree(M, own)
  <2>1. r = TryPrev(p, M)
    BY <1>1, <1>9 DEF TryNext
  <2>2. M[own].next # NULL => M[own].next \in L
    BY <1>1, <1>4, LayoutNat
  <2>3. PICK C : C = MarkFree(B, own)
    OBVIOUS
  <2>4. ~NextIsFree(C, own)
    BY <1>4, <1>7, <1>9, <2>2, <2>3 DEF NextIsFree
  <2>5. [g \in L |-> M[g]] = FreeBlocksNext(MarkFree(B, own), own)
    BY <1>7, <2>3, <2>4 DEF FreeBlocksNext
  <2>6. Layout(M, L, NULL) /\ LinksBack(M, L) /\ FreeIn(M, L, own)
    BY <1>1, <1>4
  <2>7. SoFar(B, M, L, r)
    BY <1>1, <1>3, <1>4, <2>1, <2>5, <2>6, AfterNext
  <2> QED
    BY <1>1, <1>5, <2>7
<1> QED
  BY <1>8, <1>9

LEMMA AddGrow ==
  ASSUME NEW p \in Procs, NEW B, Adding(p, B), Grow(p)
  PROVE  SoFar(B, mem', Linked(mem'), proc'[p])
<1>1. PICK h, n, own, L, C :
        /\ h = proc[p].h /\ n = proc[p].n /\ own = proc[p].own /\ L = Linked(mem)
        /\ C = JoinsFrom(B, proc[p])
  OBVIOUS
<1>2. /\ proc[p].pc = "grow"
      /\ mem' = [mem EXCEPT ![h].size = @ + mem[n].size + MallocHeaderSize]
      /\ Goto(p, "unlink")
  BY <1>1 DEF Grow, Store, After
<1>3. /\ CallInv /\ Layout(mem, L, NULL) /\ L \subseteq DOMAIN mem
      /\ DOMAIN mem' \subseteq 0 .. MmapSize /\ Joins(mem, L, proc[p])
  BY <1>1, <1>2, AddingMeans DEF Grown
<1>4. /\ LinksBack(mem, L)
      /\ h \in L /\ mem[h].status = FREE /\ n \in L /\ mem[n].status = FREE
      /\ mem[h].next = n /\ own \in {h, n}
  BY <1>1, <1>2, <1>3 DEF Joins, FreeIn
<1>5. [g \in L |-> mem[g]] = C
  BY <1>1, <1>2 DEF Adding, SoFar
<1>6. n # NULL /\ h # n /\ h # NULL /\ mem[h] \in Header
  <2>1. \A g \in L : g \in Nat \ {0} /\ (mem[g].next # NULL => g < mem[g].next)
    BY <1>3, LayoutNat
  <2>2. mem[h] \in Header /\ NULL = 0
    BY <1>3, <1>4 DEF Layout, NULL
  <2> QED
    BY <1>4, <2>1, <2>2
<1>7. IF n = own THEN PrevIsFree(C, own) /\ h = C[own].prev
      ELSE h = own /\ NextIsFree(C, own)
  <2>1. mem[n].prev = h
    BY <1>4, <1>6 DEF LinksBack
  <2>2. C[n] = mem[n] /\ C[h] = mem[h]
    BY <1>4, <1>5
  <2> QED
    BY <1>4, <1>6, <2>1, <2>2 DEF PrevIsFree, NextIsFree
<1>8. /\ \A g \in DOMAIN mem \ {h} : mem'[g] = mem[g]
      /\ mem'[h] = [mem[h] EXCEPT !.size = mem[h].size + mem[n].size + MallocHeaderSize]
  BY <1>2, <1>3, <1>4
<1>9. mem'[h] = Turned(C, h, C[h].size + C[n].size + MallocHeaderSize, C[h].status, n)
  <2>1. C[n] = mem[n] /\ C[h] = mem[h]
    BY <1>4, <1>5
  <2> QED
    BY <1>4, <1>6, <1>8, <2>1 DEF Turned, Header
<1>10. Linked(mem') = L
  <2>1. L \subseteq DOMAIN mem'
    BY <1>2, <1>3
  <2>2. \A g \in L : mem'[g].next = mem[g].next
    BY <1>3, <1>4, <1>8, <1>9 DEF Turned
  <2> QED
    BY <1>3, <2>1, <2>2, SameLinked
<1>11. /\ proc'[p].pc = "unlink" /\ proc'[p].h = h /\ proc'[p].n = n /\ proc'[p].own = own
  BY <1>1, <1>2, <1>3, MovedTo
<1>12. JoinsFrom(B, proc'[p]) = C
  BY <1>1, <1>11 DEF JoinsFrom
<1>13. Joined(C, mem', L, proc'[p])
  <2>1. DOMAIN C = L /\ C[h].next = n /\ n \in DOMAIN C
    BY <1>4, <1>5
  <2>2. mem'[n] = C[n] /\ \A g \in L \ {h} : mem'[g] = C[g]
    BY <1>3, <1>4, <1>5, <1>6, <1>8
  <2> QED
    BY <1>4, <1>6, <1>7, <1>9, <1>11, <2>1, <2>2 DEF Joined
<1> QED
  BY <1>10, <1>11, <1>12, <1>13 DEF SoFar

LEMMA AddUnlink ==
  ASSUME NEW p \in Procs, NEW B, Adding(p, B), Unlink(p)
  PROVE  SoFar(B, mem', Linked(mem'), proc'[p])
<1>1. PICK h, n, own, L, C :
        /\ h = proc[p].h /\ n = proc[p].n /\ own = proc[p].own /\ L = Linked(mem)
        /\ C = JoinsFrom(B, proc[p])
  OBVIOUS
<1>2. /\ proc[p].pc = "unlink"
      /\ mem' = [mem EXCEPT ![h].next = mem[n].next]
      /\ Goto(p, "back")
  BY <1>1 DEF Unlink, Store, After
<1>3. /\ CallInv /\ Layout(mem, L, h) /\ L \subseteq DOMAIN mem /\ Joins(mem, L, proc[p])
  BY <1>1, <1>2, AddingMeans DEF Grown
<1>4. h \in L /\ n \in L /\ mem[h].next = n
  BY <1>1, <1>2, <1>3 DEF Joins, FreeIn
<1>5. n # NULL
  BY <1>3, <1>4, LayoutNat
<1>6. /\ h # n /\ C[h].next = n /\ DOMAIN C = L
      /\ IF n = own THEN PrevIsFree(C, own) /\ h = C[own].prev
         ELSE h = own /\ NextIsFree(C, own)
      /\ \A g \in L \ {h} : mem[g] = C[g]
      /\ mem[h] = Turned(C, h, C[h].size + C[n].size + MallocHeaderSize, C[h].status, n)
  BY <1>1, <1>2 DEF Adding, SoFar, Joined
<1>7. /\ \A g \in DOMAIN mem \ {h} : mem'[g] = mem[g]
      /\ mem'[h] = [mem[h] EXCEPT !.next = mem[n].next]
  BY <1>2, <1>3, <1>4
<1>8. mem'[h] = Turned(C, h, C[h].size + C[n].size + MallocHeaderSize, C[h].status, C[n].next)
  <2>1. mem[n].next = C[n].next
    BY <1>4, <1>6
  <2> QED
    BY <1>6, <1>7, <2>1 DEF Turned
<1>9. PICK K : K = L \ {n}
  OBVIOUS
<1>10. Linked(mem') = K
  <2>1. Layout(mem', K, NULL)
    BY <1>2, <1>3, <1>4, <1>5, <1>9, UnlinkLayout
  <2> QED
    BY <2>1, LinkedIs DEF Layout
<1>11. /\ proc'[p].pc = "back" /\ proc'[p].h = h /\ proc'[p].n = n /\ proc'[p].own = own
  BY <1>1, <1>2, <1>3, MovedTo
<1>12. JoinsFrom(B, proc'[p]) = C
  BY <1>1, <1>11 DEF JoinsFrom
<1>13. Joined(C, mem', K, proc'[p])
  <2>1. \A g \in K \ {h} : mem'[g] = C[g]
    BY <1>3, <1>6, <1>7, <1>9
  <2> QED
    BY <1>4, <1>6, <1>8, <1>9, <1>11, <2>1 DEF Joined
<1> QED
  BY <1>10, <1>11, <1>12, <1>13 DEF SoFar

LEMMA AddBack ==
  ASSUME NEW p \in Procs, NEW B, Adding(p, B), Back(p)
  PROVE  SoFar(B, mem', Linked(mem'), proc'[p])
<1>1. PICK h, n, own, L, C, M, x, r :
        /\ h = proc[p].h /\ n = proc[p].n /\ own = proc[p].own /\ L = Linked(mem)
        /\ C = JoinsFrom(B, proc[p]) /\ M = mem' /\ x = mem[h].next
        /\ r = IF n = own THEN [proc[p] EXCEPT !.pc = "last"] ELSE TryPrev(p, M)
  OBVIOUS
<1>2. /\ proc[p].pc = "back"
      /\ M = [g \in DOMAIN mem \ {n} |-> IF g = x THEN [mem[g] EXCEPT !.prev = h] ELSE mem[g]]
      /\ proc' = [proc EXCEPT ![p] = r]
  BY <1>1 DEF Back
<1>3. /\ CallInv /\ proc \in [Procs -> Proc] /\ proc[p] \in Proc
  BY AddingMeans
<1>4. /\ proc[p].op = "free" /\ own \in {h, n}
      /\ Layout(mem, L, NULL) /\ Layout(mem', L, NULL)
      /\ LinksBack(mem', L) /\ FreeIn(mem', L, h) /\ n \notin L
  BY <1>1, <1>3, BackList
<1>5. Linked(M) = L /\ proc'[p] = r
  BY <1>1, <1>2, <1>3, <1>4, LinkedIs DEF Layout
<1>6. /\ h \in L /\ h # n /\ C[h].next = n /\ n \in DOMAIN C
      /\ IF n = own THEN PrevIsFree(C, own) /\ h = C[own].prev
         ELSE h = own /\ NextIsFree(C, own)
      /\ L = DOMAIN C \ {n}
      /\ \A g \in L \ {h} : mem[g] = C[g]
      /\ mem[h] = Turned(C, h, C[h].size + C[n].size + MallocHeaderSize, C[h].status, C[n].next)
  BY <1>1, <1>2 DEF Adding, SoFar, Joined
<1>7. x = C[n].next /\ x # h
  <2>1. x = C[n].next
    BY <1>1, <1>6 DEF Turned
  <2>2. h \in Nat \ {0} /\ NULL = 0 /\ (mem[h].next # NULL => h < mem[h].next)
    BY <1>4, <1>6, LayoutNat
  <2> QED
    BY <1>1, <2>1, <2>2
<1>8. [g \in L |-> M[g]] = Absorb(C, h, n)
  <2>1. L \subseteq DOMAIN mem
    BY <1>4 DEF Layout, Sorted
  <2>2. ASSUME NEW g \in L PROVE M[g] = Absorb(C, h, n)[g]
    <3>1. M[g] = IF g = x THEN [mem[g] EXCEPT !.prev = h] ELSE mem[g]
      BY <1>2, <1>4, <2>1
    <3>2. CASE g = h
      BY <1>6, <1>7, <3>1, <3>2 DEF Absorb, Turned
    <3>3. CASE g # h
      BY <1>6, <1>7, <3>1, <3>3 DEF Absorb
    <3> QED
      BY <3>2, <3>3
  <2>3. Absorb(C, h, n) = [g \in L |-> Absorb(C, h, n)[g]]
    BY <1>6 DEF Absorb
  <2> QED
    BY <2>2, <2>3
<1>9. CASE n = own
  <2>1. r.pc = "last" /\ r.op = "free" /\ r.own = own
    BY <1>1, <1>3, <1>4, <1>9 DEF Proc
  <2>2. C = FreeBlocksNext(MarkFree(B, own), own)
    BY <1>1, <1>9 DEF JoinsFrom
  <2>3. Whole(B, r) = Absorb(C, h, n)
    BY <1>6, <1>9, <2>1, <2>2 DEF Whole, FreeBlock, FreeBlocksPrev
  <2>4. SoFar(B, M, L, r)
    BY <1>8, <2>1, <2>3 DEF SoFar
  <2> QED
    BY <1>1, <1>5, <2>4
<1>10. CASE n # own
  <2>1. r = TryPrev(p, M) /\ h = own
    BY <1>1, <1>6, <1>10
  <2>2. C = MarkFree(B, own)
    BY <1>1, <1>10 DEF JoinsFrom
  <2>3. [g \in L |-> M[g]] = FreeBlocksNext(MarkFree(B, own), own)
    BY <1>6, <1>8, <1>10, <2>2 DEF FreeBlocksNext
  <2>4. Layout(M, L, NULL) /\ LinksBack(M, L) /\ FreeIn(M, L, own)
    BY <1>1, <1>4, <2>1
  <2>5. SoFar(B, M, L, r)
    BY <1>1, <1>3, <1>4, <2>1, <2>3, <2>4, AfterNext
  <2> QED
    BY <1>1, <1>5, <2>5
<1> QED
  BY <1>9, <1>10

LEMMA AddLast ==
  ASSUME NEW p \in Procs, NEW B, Adding(p, B), Last(p)
  PROVE  SoFar(B, mem', Linked(mem'), proc'[p])
<1>1. PICK L : L = Linked(mem)
  OBVIOUS
<1>2. /\ proc[p].pc = "last" /\ mem' = mem /\ (Goto(p, "leave") \/ Goto(p, "unlock"))
  BY DEF Last
<1>3. CallInv /\ Joins(mem, L, proc[p])
  BY <1>1, AddingMeans
<1>4. [g \in L |-> mem[g]] = Whole(B, proc[p]) /\ proc[p].op = "free"
  BY <1>1, <1>2, <1>3 DEF Adding, SoFar, Joins
<1>5. CASE Goto(p, "leave")
  <2>1. proc'[p].pc = "leave"
    BY <1>3, <1>5, MovedTo
  <2> QED
    BY <2>1 DEF SoFar
<1>6. CASE Goto(p, "unlock")
  <2>1. proc'[p].pc = "unlock" /\ proc'[p].op = proc[p].op /\ proc'[p].own = proc[p].own
    BY <1>3, <1>6, MovedTo
  <2>2. Whole(B, proc'[p]) = Whole(B, proc[p])
    BY <1>4, <2>1 DEF Whole
  <2> QED
    BY <1>1, <1>2, <1>4, <2>1, <2>2 DEF SoFar
<1> QED
  BY <1>2, <1>5, <1>6

LEMMA AddUnlock ==
  ASSUME NEW p \in Procs, NEW B, Adding(p, B), UnlockMmap(p)
  PROVE  SoFar(B, mem', Linked(mem'), proc'[p])
<1>1. Goto(p, "leave") /\ CallInv
  BY DEF UnlockMmap, Adding
<1>2. proc'[p].pc = "leave"
  BY <1>1, MovedTo
<1> QED
  BY <1>2 DEF SoFar

(* Inside of the section every step adds what it is to.                    *)
LEMMA InsideWork ==
  ASSUME NEW p \in Procs, proc[p].pc \in Inside, Work(p)
  PROVE  /\ \/ Search(p) \/ StoreHeader(p) \/ StoreSize(p) \/ StoreStatus(p)
            \/ StoreNext(p) \/ StorePrev(p)
            \/ Check(p) \/ StoreFree(p) \/ Grow(p) \/ Unlink(p) \/ Back(p) \/ Last(p)
            \/ UnlockMmap(p)
         /\ before' = before
<1>1. proc[p].pc \notin {"lock", "mend", "leave"}
  BY DEF Inside
<1>2. \/ Search(p) \/ StoreHeader(p) \/ StoreSize(p) \/ StoreStatus(p)
      \/ StoreNext(p) \/ StorePrev(p)
      \/ Check(p) \/ StoreFree(p) \/ Grow(p) \/ Unlink(p) \/ Back(p) \/ Last(p)
      \/ UnlockMmap(p)
  BY <1>1 DEF Work, Lock, LockOfDead, Mend, Leave
<1>3. before' = before
  BY <1>2 DEF Search, StoreHeader, StoreSize, StoreStatus, StoreNext, StorePrev, Store,
              Check, StoreFree, Grow, Unlink, Back, Last, UnlockMmap
<1> QED
  BY <1>2, <1>3

LEMMA WorkAdds ==
  ASSUME NEW p \in Procs, NEW B, Adding(p, B), Work(p)
  PROVE  SoFar(B, mem', Linked(mem'), proc'[p])
<1>1. proc[p].pc \in Inside
  BY DEF Adding
<1>2. CASE Search(p) \/ StoreHeader(p) \/ StoreSize(p) \/ StoreStatus(p) \/ StoreNext(p)
           \/ StorePrev(p)
  BY <1>2, AddSearch, AddHeader, AddSize, AddStatus, AddNext, AddPrev
<1>3. CASE Check(p) \/ StoreFree(p) \/ Grow(p) \/ Unlink(p) \/ Back(p) \/ Last(p)
           \/ UnlockMmap(p)
  BY <1>3, AddCheck, AddFree, AddGrow, AddUnlink, AddBack, AddLast, AddUnlock
<1> QED
  BY <1>1, <1>2, <1>3, InsideWork

(* The section begins with the list as it is.                              *)
LEMMA EnterAdds ==
  ASSUME CallInv, NEW p \in Procs, Lock(p) \/ Mend(p), proc'[p].pc \in Inside,
         WellFormed(before', MmapSize)
  PROVE  IsList(before', MmapSize) /\ SoFar(before', mem', Linked(mem'), proc'[p])
<1>1. PICK L : L = Linked(mem)
  OBVIOUS
<1>2. /\ proc[p].pc \in {"lock", "mend"} /\ Locked(p, proc[p].m) /\ mem' = mem
      /\ before' = List(mem)
  BY DEF Lock, Mend
<1>3. PICK r : Asking(p, r)
  BY <1>2, LockedAsks
<1>4. proc'[p] = r /\ r.pc \in {"lock", "mend", "search"}
  BY <1>3 DEF Asking, CallInv, TypeOK
<1>5. proc'[p].pc = "search"
  BY <1>4 DEF Inside
<1>6. before' = [g \in L |-> mem[g]]
  BY <1>1, <1>2 DEF List
<1>7. L \subseteq Nat /\ \A g \in L : mem[g] \in Header
  <2>1. PICK grown : Layout(mem, L, grown)
    BY <1>1 DEF CallInv, ListInv, Laid
  <2>2. \A g \in L : g \in Nat
    BY <2>1, LayoutNat
  <2> QED
    BY <2>1, <2>2 DEF Layout, Sorted
<1>8. IsList(before', MmapSize)
  BY <1>6, <1>7 DEF IsList
<1> QED
  BY <1>1, <1>2, <1>5, <1>6, <1>8 DEF SoFar

(* A step of another process leaves p where it is.                         *)
LEMMA WorkElsewhere ==
  ASSUME CallInv, NEW p \in Procs, NEW q \in Procs \ {p}, Work(q)
  PROVE  proc'[p] = proc[p]
<1>1. proc \in [Procs -> Proc]
  BY DEF CallInv, TypeOK
<1>2. CASE Lock(q) \/ LockOfDead(q) \/ Mend(q) \/ UnlockMmap(q) \/ Leave(q) \/ Last(q)
  BY <1>1, <1>2 DEF Lock, LockOfDead, Mend, UnlockMmap, Leave, Last, Locked, Goto
<1>3. CASE Search(q) \/ Check(q) \/ StoreFree(q) \/ Back(q)
  BY <1>1, <1>3 DEF Search, Check, StoreFree, Back, Goto
<1>4. CASE \/ StoreHeader(q) \/ StoreSize(q) \/ StoreStatus(q) \/ StoreNext(q)
           \/ StorePrev(q) \/ Grow(q) \/ Unlink(q)
  <2>1. PICK pc : Goto(q, pc)
    BY <1>4 DEF StoreHeader, StoreSize, StoreStatus, StoreNext, StorePrev, Grow, Unlink, Store
  <2> QED
    BY <1>1, <2>1 DEF Goto
<1> QED
  BY <1>2, <1>3, <1>4 DEF Work

(* While p is inside nobody else works.                                    *)
LEMMA WorksAlone ==
  ASSUME CallInv, NEW p \in Procs, proc[p].pc \in Inside, NEW q \in Procs \ {p}
  PROVE  ~Work(q)
<1>1. HasShared(p) /\ LockInv
  BY AtPlace DEF CallInv
<1>2. proc[q].pc \in {"idle", "lock"}
  BY <1>1, OthersOut
<1>3. mutex["shared"].owner = p
  BY <1>1 DEF LockInv, Owners
<1>4. proc[q].m = "shared"
  <2>1. ~HasShared(q)
    BY <1>1, <1>3 DEF LockInv, Owners
  <2> QED
    BY <1>1, <2>1 DEF LockInv, Shape, HasShared, Mutexes
<1>5. ~Lock(q) /\ ~LockOfDead(q)
  BY <1>3, <1>4, CrashAssumption DEF Lock, LockOfDead
<1>6. ~(Search(q) \/ Check(q) \/ StoreFree(q) \/ Back(q) \/ Last(q) \/ UnlockMmap(q))
  BY <1>2 DEF Search, Check, StoreFree, Back, Last, UnlockMmap
<1>7. ~(Mend(q) \/ Leave(q))
  BY <1>2 DEF Mend, Leave
<1>8. ~(\/ StoreHeader(q) \/ StoreSize(q) \/ StoreStatus(q) \/ StoreNext(q)
        \/ StorePrev(q) \/ Grow(q) \/ Unlink(q))
  BY <1>2 DEF StoreHeader, StoreSize, StoreStatus, StoreNext, StorePrev, Grow, Unlink, Store
<1> QED
  BY <1>5, <1>6, <1>7, <1>8 DEF Work

LEMMA NextSum ==
  ASSUME CallInv, CallInv', SumInv, [Next]_vars
  PROVE  SumInv'
<1> SUFFICES ASSUME NEW p \in Procs, proc'[p].pc \in Inside, WellFormed(before', MmapSize)
             PROVE  IsList(before', MmapSize) /\ SoFar(before', mem', Linked(mem'), proc'[p])
  BY DEF SumInv
<1>1. proc \in [Procs -> Proc] /\ alive \subseteq Procs /\ LockInv
  BY DEF CallInv, TypeOK
<1>2. ASSUME mem' = mem, before' = before, proc'[p] = proc[p]
      PROVE  IsList(before', MmapSize) /\ SoFar(before', mem', Linked(mem'), proc'[p])
  BY <1>2 DEF SumInv
<1>3. CASE Work(p)
  <2>1. CASE proc[p].pc \in Inside
    <3>1. before' = before
      BY <1>3, <2>1, InsideWork
    <3>2. PICK B : B = before
      OBVIOUS
    <3>3. IsList(B, MmapSize) /\ Adding(p, B)
      BY <2>1, <3>1, <3>2 DEF SumInv, Adding
    <3>4. SoFar(B, mem', Linked(mem'), proc'[p])
      BY <1>3, <3>3, WorkAdds
    <3> QED
      BY <3>1, <3>2, <3>3, <3>4
  <2>2. CASE proc[p].pc \notin Inside
    <3>1. Lock(p) \/ LockOfDead(p) \/ Mend(p) \/ Leave(p)
      <4>1. ~(\/ StoreHeader(p) \/ StoreSize(p) \/ StoreStatus(p) \/ StoreNext(p)
              \/ StorePrev(p) \/ Grow(p) \/ Unlink(p))
        BY <2>2 DEF StoreHeader, StoreSize, StoreStatus, StoreNext, StorePrev, Grow, Unlink,
                    Store, Inside
      <4>2. ~(Search(p) \/ Check(p) \/ StoreFree(p) \/ Back(p) \/ Last(p) \/ UnlockMmap(p))
        BY <2>2 DEF Search, Check, StoreFree, Back, Last, UnlockMmap, Inside
      <4> QED
        BY <1>3, <4>1, <4>2 DEF Work
    <3>2. ~LockOfDead(p) /\ ~Leave(p)
      <4>1. LockOfDead(p) => proc'[p].pc = "mend"
        BY MovedTo DEF LockOfDead
      <4>2. Leave(p) => proc'[p].pc = "idle"
        BY <1>1 DEF Leave, Idle
      <4> QED
        BY <4>1, <4>2 DEF Inside
    <3> QED
      BY <3>1, <3>2, EnterAdds
  <2> QED
    BY <2>1, <2>2
<1>4. ASSUME NEW q \in Procs \ {p}, Work(q)
      PROVE  FALSE
  BY <1>4, WorkElsewhere, WorksAlone
<1>5. ASSUME NEW q \in Procs, (\E size \in Sizes : Malloc(q, size)) \/ \E a \in live : Free(q, a)
      PROVE  mem' = mem /\ before' = before /\ proc'[p] = proc[p]
  <2>1. proc'[q].pc = "lock" /\ (q # p => proc'[p] = proc[p])
    BY <1>1, <1>5 DEF Malloc, Free, Idle
  <2> QED
    BY <1>5, <2>1 DEF Malloc, Free, Inside
<1>6. ASSUME NEW q \in Procs, Crash(q)
      PROVE  mem' = mem /\ before' = before /\ proc'[p] = proc[p]
  <2>1. proc' = [proc EXCEPT ![q] = Idle] /\ mem' = mem
    BY <1>6 DEF Crash
  <2>2. q # p /\ proc'[p] = proc[p]
    BY <1>1, <2>1 DEF Idle, Inside
  <2>3. mutex["shared"].owner = p
    BY <1>1, <2>2, AtPlace DEF LockInv, Owners
  <2> QED
    BY <1>6, <2>1, <2>2, <2>3 DEF Crash
<1>7. ASSUME UNCHANGED vars \/ \E q \in Procs : Fork(q)
      PROVE  mem' = mem /\ before' = before /\ proc'[p] = proc[p]
  BY <1>7 DEF vars, Fork
<1> QED
  BY <1>1, <1>2, <1>3, <1>4, <1>5, <1>6, <1>7 DEF Next, Halted

(* The stores of vgc_malloc and vgc_free, one after the other, make of a   *)
(* well-formed list what AllocBlock and FreeBlock say: to take a call for  *)
(* one step, as VGCMalloc does, loses nothing as long as nobody dies in it.*)
THEOREM StoresAreSteps == ASSUME ~CrashInJoin PROVE Spec => []StoresAddUp
<1>1. Init => SumInv
  BY DEF Init, SumInv, Idle, Inside
<1>2. CallInv /\ CallInv' /\ SumInv /\ [Next]_vars => SumInv'
  BY NextSum
<1>3. CallInv /\ SumInv => StoresAddUp
  <2> SUFFICES ASSUME CallInv, SumInv, NEW p \in Procs, proc[p].pc = "unlock",
                      WellFormed(before, MmapSize)
               PROVE  List(mem) = Whole(before, proc[p])
    BY DEF StoresAddUp, Whole
  <2>1. SoFar(before, mem, Linked(mem), proc[p])
    BY DEF SumInv, Inside
  <2> QED
    BY <2>1 DEF SoFar, List
<1> QED
  BY <1>1, <1>2, <1>3, ListHolds, PTL DEF Spec
================================================================================
