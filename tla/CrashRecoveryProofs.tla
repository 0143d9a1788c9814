-------------------------- MODULE CrashRecoveryProofs --------------------------
(***************************************************************************)
(* The mutexes of CrashRecovery, for any number of processes that end at   *)
(* any place of a call: both exclude, and neither is ever lost, whatever   *)
(* the list of blocks is like.  No step of the argument looks at `mem`.    *)
(***************************************************************************)
EXTENDS CrashRecovery, TLAPS

(* A process has the fields the argument is about. *)
Shape ==
  /\ DOMAIN proc = Procs
  /\ \A p \in Procs : "pc" \in DOMAIN proc[p] /\ "m" \in DOMAIN proc[p]
  /\ \A p \in Procs : proc[p].m \in Mutexes
  /\ mutex \in [Mutexes -> Mutex]
  /\ alive \subseteq Procs

(* Which mutex a call asks for, by the place it is at. *)
Places ==
  \A p \in Procs :
    /\ proc[p].pc = "idle" => proc[p].m = "shared"
    /\ proc[p].pc \notin {"idle", "lock", "mend"} => proc[p].m = "mmap"

(* The places where a process has the one mutex and the other. *)
HasShared(p) == proc[p].m = "mmap" \/ proc[p].pc = "mend"

HasMmap(p) == proc[p].m = "mmap" /\ proc[p].pc \notin {"lock", "leave"}

Owners ==
  \A p \in Procs : /\ HasShared(p) <=> mutex["shared"].owner = p
                   /\ HasMmap(p) <=> mutex["mmap"].owner = p

(* An inconsistent mutex is nobody's, or its owner is about to mend it. *)
Mended ==
  \A m \in Mutexes :
    /\ mutex[m].state # "lost"
    /\ mutex[m].state = "inconsistent" =>
         \/ mutex[m].owner = OwnerDied
         \/ \E p \in Procs : mutex[m].owner = p /\ proc[p].pc = "mend" /\ proc[p].m = m

LockInv == Shape /\ Places /\ Owners /\ Mended

LEMMA InvMeans == LockInv => Recoverable /\ Excluded
<1> SUFFICES ASSUME LockInv PROVE Recoverable /\ Excluded
  OBVIOUS
<1>1. Recoverable
  BY DEF LockInv, Mended, Recoverable
<1>2. ASSUME NEW p \in Procs, proc[p].pc \notin {"idle", "lock"} \/ proc[p].m = "mmap"
      PROVE  mutex["shared"].owner = p
  BY <1>2 DEF LockInv, Places, Owners, HasShared
<1>3. ASSUME mutex["mmap"].owner \in Procs
      PROVE  mutex["mmap"].owner = mutex["shared"].owner
  BY <1>3 DEF LockInv, Owners, HasShared, HasMmap
<1>4. QED
  BY <1>1, <1>2, <1>3 DEF Excluded

LEMMA InitInv == Init => LockInv
<1> SUFFICES ASSUME Init PROVE LockInv
  OBVIOUS
<1>1. \A p \in Procs : proc[p].pc = "idle" /\ proc[p].m = "shared"
  BY DEF Init, Idle
<1>2. \A m \in Mutexes : mutex[m].owner = Nobody /\ mutex[m].state = "consistent"
  BY DEF Init, Unlocked
<1>3. Shape
  BY <1>1 DEF Init, Shape, Idle, Mutexes, Mutex, Unlocked
<1>4. Places /\ Mended
  BY <1>1, <1>2 DEF Places, Mended
<1>5. Owners
  BY <1>1, <1>2, CrashAssumption DEF Owners, HasShared, HasMmap, Mutexes
<1>6. QED
  BY <1>3, <1>4, <1>5 DEF LockInv

(* A step of p that stays inside of the section both mutexes guard. *)
Inside == {"search", "header", "size", "status", "next", "prev", "free", "grow",
           "unlink", "back", "last", "unlock"}

(* Where r is the next place of p, it is inside, too. *)
Onward(p, r) ==
  /\ "pc" \in DOMAIN r /\ "m" \in DOMAIN r
  /\ r.m = proc[p].m
  /\ r.pc \in Inside

LEMMA InsideKeeps ==
  ASSUME LockInv, NEW p \in Procs, proc[p].pc \in Inside,
         NEW r, Onward(p, r), proc' = [proc EXCEPT ![p] = r],
         UNCHANGED <<mutex, alive>>
  PROVE  LockInv'
<1>1. proc'[p] = r /\ \A q \in Procs \ {p} : proc'[q] = proc[q]
  BY DEF LockInv, Shape
<1>2. Shape'
  BY <1>1 DEF LockInv, Shape, Onward
<1>3. Places' /\ proc[p].m = "mmap"
  BY <1>1 DEF LockInv, Places, Inside, Onward
<1>4. Owners'
  BY <1>1, <1>3 DEF LockInv, Owners, HasShared, HasMmap, Inside, Onward
<1>5. Mended'
  BY <1>1 DEF LockInv, Mended, Inside
<1>6. QED
  BY <1>2, <1>3, <1>4, <1>5 DEF LockInv

(* A step that only moves p from one place inside to another. *)
LEMMA GotoKeeps ==
  ASSUME LockInv, NEW p \in Procs, proc[p].pc \in Inside,
         NEW pc \in Inside, Goto(p, pc), UNCHANGED <<mutex, alive>>
  PROVE  LockInv'
<1> DEFINE r == [proc[p] EXCEPT !.pc = pc]
<1>1. proc' = [proc EXCEPT ![p] = r]
  BY DEF Goto
<1>2. Onward(p, r)
  BY DEF LockInv, Shape, Onward
<1> HIDE DEF r
<1>3. QED
  BY <1>1, <1>2, InsideKeeps

(* After the store of a free block, or of a join, comes a join or the end. *)
LEMMA JoinsOnward ==
  ASSUME LockInv, NEW p \in Procs, NEW M
  PROVE  Onward(p, TryPrev(p, M)) /\ Onward(p, TryNext(p, M))
<1>1. "pc" \in DOMAIN proc[p] /\ "m" \in DOMAIN proc[p]
  BY DEF LockInv, Shape
<1>2. \A h, n : Onward(p, Joining(p, h, n))
  BY <1>1 DEF Onward, Joining, Inside
<1>3. Onward(p, TryPrev(p, M))
  BY <1>1, <1>2 DEF Onward, TryPrev, Inside
<1>4. QED
  BY <1>2, <1>3 DEF TryNext

LEMMA StoreKeeps ==
  ASSUME LockInv, NEW p \in Procs, NEW M,
         NEW pc \in {"header", "size", "status", "next", "prev", "grow", "unlink"},
         Store(p, pc, M)
  PROVE  LockInv'
<1>1. proc[p].pc \in Inside /\ After(pc) \in Inside
  BY DEF Store, After, Inside
<1>2. Goto(p, After(pc)) /\ UNCHANGED <<mutex, alive>>
  BY DEF Store
<1>3. QED
  BY <1>1, <1>2, GotoKeeps

(* The steps between the locks and the unlocks. *)
LEMMA InsideSteps ==
  ASSUME LockInv, NEW p \in Procs,
         \/ Search(p) \/ StoreHeader(p) \/ StoreSize(p) \/ StoreStatus(p)
         \/ StoreNext(p) \/ StorePrev(p)
         \/ Check(p) \/ StoreFree(p) \/ Grow(p) \/ Unlink(p) \/ Back(p)
  PROVE  LockInv'
<1>1. "pc" \in DOMAIN proc[p] /\ "m" \in DOMAIN proc[p]
  BY DEF LockInv, Shape
<1>2. CASE Search(p)
  <2> DEFINE size  == proc[p].size
             h     == FirstFit(List(mem), size)
             split == [proc[p] EXCEPT !.pc = "header", !.h = h, !.got = h,
                         !.n = Remainder(h, size), !.length = RoundUp(size)]
             whole == [proc[p] EXCEPT !.pc = "size", !.h = h, !.got = h,
                         !.n = mem[h].next, !.length = mem[h].size]
  <2>1. Onward(p, split) /\ Onward(p, whole)
    BY <1>1 DEF Onward, Inside
  <2>2. \/ proc' = [proc EXCEPT ![p] = split] \/ proc' = [proc EXCEPT ![p] = whole]
        \/ Goto(p, "unlock")
    BY <1>2 DEF Search
  <2>3. proc[p].pc \in Inside /\ "unlock" \in Inside /\ UNCHANGED <<mutex, alive>>
    BY <1>2 DEF Search, Inside
  <2> HIDE DEF split, whole
  <2>4. QED
    BY <2>1, <2>2, <2>3, InsideKeeps, GotoKeeps
<1>3. CASE \/ StoreHeader(p) \/ StoreSize(p) \/ StoreStatus(p) \/ StoreNext(p)
           \/ StorePrev(p) \/ Grow(p) \/ Unlink(p)
  BY <1>3, StoreKeeps DEF StoreHeader, StoreSize, StoreStatus, StoreNext, StorePrev,
     Grow, Unlink
<1>4. CASE Check(p)
  <2>1. proc[p].pc \in Inside /\ UNCHANGED <<mutex, alive>>
    BY <1>4 DEF Check, Inside
  <2>2. \E pc \in Inside : Goto(p, pc)
    BY <1>4 DEF Check, Inside
  <2>3. QED
    BY <2>1, <2>2, GotoKeeps
<1>5. CASE StoreFree(p)
  <2>1. proc[p].pc \in Inside /\ UNCHANGED <<mutex, alive>>
    BY <1>5 DEF StoreFree, Inside
  <2>2. \E M : proc' = [proc EXCEPT ![p] = TryNext(p, M)]
    BY <1>5 DEF StoreFree
  <2>3. QED
    BY <2>1, <2>2, JoinsOnward, InsideKeeps
<1>6. CASE Back(p)
  <2> DEFINE last == [proc[p] EXCEPT !.pc = "last"]
  <2>1. proc[p].pc \in Inside /\ UNCHANGED <<mutex, alive>>
    BY <1>6 DEF Back, Inside
  <2>2. \E M : proc' = [proc EXCEPT ![p] = IF proc[p].n = proc[p].own THEN last
                                           ELSE TryPrev(p, M)]
    BY <1>6 DEF Back
  <2>3. Onward(p, last)
    BY <1>1 DEF Onward, Inside
  <2> HIDE DEF last
  <2>4. QED
    BY <2>1, <2>2, <2>3, JoinsOnward, InsideKeeps
<1>7. QED
  BY <1>2, <1>3, <1>4, <1>5, <1>6

(* The steps that take a mutex, mend it or give it back: the other mutex   *)
(* and the other processes stay as they are.                               *)
LEMMA MoveKeeps ==
  ASSUME LockInv, NEW p \in Procs, NEW r, proc' = [proc EXCEPT ![p] = r],
         "pc" \in DOMAIN r, "m" \in DOMAIN r, r.m \in Mutexes,
         mutex' \in [Mutexes -> Mutex], alive' \subseteq Procs
  PROVE  /\ Shape'
         /\ proc'[p] = r /\ \A q \in Procs \ {p} : proc'[q] = proc[q]
  BY DEF LockInv, Shape

LEMMA CallSteps ==
  ASSUME LockInv, NEW p \in Procs,
         \/ \E size \in Sizes : Malloc(p, size)
         \/ \E a \in live : Free(p, a)
  PROVE  LockInv'
<1> DEFINE Called ==
      \E r : /\ proc' = [proc EXCEPT ![p] = r]
             /\ "pc" \in DOMAIN r /\ "m" \in DOMAIN r /\ r.pc = "lock" /\ r.m = "shared"
<1>1. PICK r : /\ proc' = [proc EXCEPT ![p] = r]
               /\ "pc" \in DOMAIN r /\ "m" \in DOMAIN r /\ r.pc = "lock" /\ r.m = "shared"
  <2>1. ASSUME NEW size \in Sizes, Malloc(p, size) PROVE Called
    <3> DEFINE r == [Idle EXCEPT !.pc = "lock", !.size = size]
    <3>1. proc' = [proc EXCEPT ![p] = r]
      BY <2>1 DEF Malloc
    <3>2. "pc" \in DOMAIN r /\ "m" \in DOMAIN r /\ r.pc = "lock" /\ r.m = "shared"
      BY DEF Idle
    <3> HIDE DEF r
    <3>3. QED
      BY <3>1, <3>2
  <2>2. ASSUME NEW a \in live, Free(p, a) PROVE Called
    <3> DEFINE r == [Idle EXCEPT !.pc = "lock", !.op = "free", !.own = a.block]
    <3>1. proc' = [proc EXCEPT ![p] = r]
      BY <2>2 DEF Free
    <3>2. "pc" \in DOMAIN r /\ "m" \in DOMAIN r /\ r.pc = "lock" /\ r.m = "shared"
      BY DEF Idle
    <3> HIDE DEF r
    <3>3. QED
      BY <3>1, <3>2
  <2>3. QED
    BY <2>1, <2>2
<1>2. proc[p].pc = "idle" /\ UNCHANGED <<mutex, alive>>
  BY DEF Malloc, Free
<1>3. Shape' /\ proc'[p] = r /\ \A q \in Procs \ {p} : proc'[q] = proc[q]
  BY <1>1, <1>2, MoveKeeps DEF LockInv, Shape, Mutexes
<1>4. Places'
  BY <1>1, <1>3 DEF LockInv, Places
<1>5. Owners'
  BY <1>1, <1>2, <1>3 DEF LockInv, Owners, Places, HasShared, HasMmap
<1>6. Mended'
  BY <1>1, <1>2, <1>3 DEF LockInv, Mended
<1>7. QED
  BY <1>3, <1>4, <1>5, <1>6 DEF LockInv

(* What a process is that has just got mutex m, in order or mended. *)
LEMMA LockedShape ==
  ASSUME LockInv, NEW p \in Procs, NEW m \in Mutexes, proc[p].m = m, Locked(p, m)
  PROVE  \E r : /\ proc' = [proc EXCEPT ![p] = r]
                /\ "pc" \in DOMAIN r /\ "m" \in DOMAIN r /\ r.m = "mmap"
                /\ r.pc = IF m = "shared" THEN "lock" ELSE "search"
<1>1. "pc" \in DOMAIN proc[p] /\ "m" \in DOMAIN proc[p]
  BY DEF LockInv, Shape
<1>2. CASE m = "shared"
  <2> DEFINE r == [proc[p] EXCEPT !.pc = "lock", !.m = "mmap"]
  <2>1. proc' = [proc EXCEPT ![p] = r]
    BY <1>2 DEF Locked
  <2>2. "pc" \in DOMAIN r /\ "m" \in DOMAIN r /\ r.m = "mmap" /\ r.pc = "lock"
    BY <1>1
  <2> HIDE DEF r
  <2>3. QED
    BY <1>2, <2>1, <2>2
<1>3. CASE m = "mmap"
  <2> DEFINE r == [proc[p] EXCEPT !.pc = "search"]
  <2>1. proc' = [proc EXCEPT ![p] = r]
    BY <1>3 DEF Locked, Goto
  <2>2. "pc" \in DOMAIN r /\ "m" \in DOMAIN r /\ r.m = "mmap" /\ r.pc = "search"
    BY <1>1, <1>3
  <2> HIDE DEF r
  <2>3. QED
    BY <1>3, <2>1, <2>2
<1>4. QED
  BY <1>2, <1>3 DEF Mutexes

LEMMA LockStep ==
  ASSUME LockInv, NEW p \in Procs, Lock(p)
  PROVE  LockInv'
<1> DEFINE m == proc[p].m
<1>1. m \in Mutexes /\ mutex[m] \in Mutex
  BY DEF LockInv, Shape
<1>2. PICK r : /\ proc' = [proc EXCEPT ![p] = r]
               /\ "pc" \in DOMAIN r /\ "m" \in DOMAIN r /\ r.m = "mmap"
               /\ r.pc = IF m = "shared" THEN "lock" ELSE "search"
  BY <1>1, LockedShape DEF Lock
<1>3. /\ mutex' = [mutex EXCEPT ![m].owner = p]
      /\ proc[p].pc = "lock" /\ mutex[m].owner = Nobody /\ mutex[m].state # "lost"
      /\ UNCHANGED alive
  BY DEF Lock
<1>4. /\ mutex' \in [Mutexes -> Mutex]
      /\ mutex'[m].owner = p /\ mutex'[m].state = mutex[m].state
      /\ \A k \in Mutexes \ {m} : mutex'[k] = mutex[k]
  BY <1>1, <1>3 DEF LockInv, Shape, Mutex
<1>5. Shape' /\ proc'[p] = r /\ \A q \in Procs \ {p} : proc'[q] = proc[q]
  BY <1>2, <1>3, <1>4, MoveKeeps DEF LockInv, Shape, Mutexes
<1>6. Places'
  BY <1>1, <1>2, <1>5 DEF LockInv, Places, Mutexes
<1>7. Owners'
  <2>1. CASE m = "shared"
    BY <1>2, <1>3, <1>4, <1>5, <2>1, CrashAssumption
    DEF LockInv, Owners, HasShared, HasMmap, Mutexes
  <2>2. CASE m = "mmap"
    BY <1>2, <1>3, <1>4, <1>5, <2>2, CrashAssumption
    DEF LockInv, Owners, HasShared, HasMmap, Mutexes
  <2>3. QED
    BY <1>1, <2>1, <2>2 DEF Mutexes
<1>8. Mended'
  <2>1. mutex[m].state # "inconsistent"
    BY <1>1, <1>3, CrashAssumption DEF LockInv, Mended
  <2>2. QED
    BY <1>3, <1>4, <1>5, <2>1 DEF LockInv, Mended
<1>9. QED
  BY <1>5, <1>6, <1>7, <1>8 DEF LockInv

LEMMA LockOfDeadStep ==
  ASSUME LockInv, NEW p \in Procs, LockOfDead(p)
  PROVE  LockInv'
<1> DEFINE m == proc[p].m
           r == [proc[p] EXCEPT !.pc = "mend"]
<1>1. m \in Mutexes
  BY DEF LockInv, Shape
<1>2. /\ mutex' = [mutex EXCEPT ![m] = [owner |-> p, state |-> "inconsistent"]]
      /\ proc[p].pc = "lock" /\ mutex[m].owner = OwnerDied
      /\ UNCHANGED alive
  BY DEF LockOfDead
<1>3. /\ proc' = [proc EXCEPT ![p] = r]
      /\ "pc" \in DOMAIN r /\ "m" \in DOMAIN r /\ r.pc = "mend" /\ r.m = m
  BY DEF LockOfDead, Goto, LockInv, Shape
<1> HIDE DEF r
<1>4. /\ mutex' \in [Mutexes -> Mutex]
      /\ mutex'[m].owner = p /\ mutex'[m].state = "inconsistent"
      /\ \A k \in Mutexes \ {m} : mutex'[k] = mutex[k]
  BY <1>1, <1>2 DEF LockInv, Shape, Mutex
<1>5. Shape' /\ proc'[p] = r /\ \A q \in Procs \ {p} : proc'[q] = proc[q]
  BY <1>1, <1>2, <1>3, <1>4, MoveKeeps DEF LockInv, Shape
<1>6. Places'
  BY <1>3, <1>5 DEF LockInv, Places
<1>7. Owners'
  <2>1. CASE m = "shared"
    BY <1>2, <1>3, <1>4, <1>5, <2>1, CrashAssumption
    DEF LockInv, Owners, HasShared, HasMmap, Mutexes
  <2>2. CASE m = "mmap"
    BY <1>2, <1>3, <1>4, <1>5, <2>2, CrashAssumption
    DEF LockInv, Owners, HasShared, HasMmap, Mutexes
  <2>3. QED
    BY <1>1, <2>1, <2>2 DEF Mutexes
<1>8. Mended'
  BY <1>2, <1>3, <1>4, <1>5 DEF LockInv, Mended
<1>9. QED
  BY <1>5, <1>6, <1>7, <1>8 DEF LockInv

LEMMA MendStep ==
  ASSUME LockInv, NEW p \in Procs, Mend(p)
  PROVE  LockInv'
<1> DEFINE m == proc[p].m
<1>1. m \in Mutexes /\ mutex[m] \in Mutex
  BY DEF LockInv, Shape
<1>2. PICK r : /\ proc' = [proc EXCEPT ![p] = r]
               /\ "pc" \in DOMAIN r /\ "m" \in DOMAIN r /\ r.m = "mmap"
               /\ r.pc = IF m = "shared" THEN "lock" ELSE "search"
  BY <1>1, LockedShape DEF Mend
<1>3. mutex' = [mutex EXCEPT ![m] = Consistent(m)] /\ proc[p].pc = "mend" /\ UNCHANGED alive
  BY DEF Mend
<1>4. /\ mutex' \in [Mutexes -> Mutex]
      /\ mutex'[m].owner = mutex[m].owner /\ mutex'[m].state = "consistent"
      /\ \A k \in Mutexes \ {m} : mutex'[k] = mutex[k]
  BY <1>1, <1>3 DEF LockInv, Shape, Mutex, Consistent
<1>5. Shape' /\ proc'[p] = r /\ \A q \in Procs \ {p} : proc'[q] = proc[q]
  BY <1>2, <1>3, <1>4, MoveKeeps DEF LockInv, Shape, Mutexes
<1>6. Places'
  BY <1>1, <1>2, <1>5 DEF LockInv, Places, Mutexes
<1>7. Owners'
  <2>1. \A k \in Mutexes : mutex'[k].owner = mutex[k].owner
    BY <1>4
  <2>2. HasShared(p)' /\ HasShared(p) /\ (HasMmap(p)' <=> HasMmap(p))
    BY <1>1, <1>2, <1>3, <1>5 DEF HasShared, HasMmap, Mutexes
  <2>3. QED
    BY <1>5, <2>1, <2>2 DEF LockInv, Owners, HasShared, HasMmap, Mutexes
<1>8. Mended'
  BY <1>3, <1>4, <1>5 DEF LockInv, Mended
<1>9. QED
  BY <1>5, <1>6, <1>7, <1>8 DEF LockInv

(* What a process is that moves on with the fields it has. *)
LEMMA GotoShape ==
  ASSUME LockInv, NEW p \in Procs, NEW pc, Goto(p, pc)
  PROVE  \E r : /\ proc' = [proc EXCEPT ![p] = r]
                /\ "pc" \in DOMAIN r /\ "m" \in DOMAIN r
                /\ r.pc = pc /\ r.m = proc[p].m
<1> DEFINE r == [proc[p] EXCEPT !.pc = pc]
<1>1. proc' = [proc EXCEPT ![p] = r]
  BY DEF Goto
<1>2. "pc" \in DOMAIN r /\ "m" \in DOMAIN r /\ r.pc = pc /\ r.m = proc[p].m
  BY DEF LockInv, Shape
<1> HIDE DEF r
<1>3. QED
  BY <1>1, <1>2

(* The mutex of the MMAP is given back, by an unlock or with the MMAP. *)
LEMMA ReleaseStep ==
  ASSUME LockInv, NEW p \in Procs, proc[p].pc \in {"last", "unlock"},
         mutex' = [mutex EXCEPT !["mmap"] = Released("mmap")],
         Goto(p, "leave"), UNCHANGED alive
  PROVE  LockInv'
<1>1. proc[p].m = "mmap" /\ mutex["mmap"].owner = p /\ mutex["shared"].owner = p
  BY DEF LockInv, Places, Owners, HasMmap, HasShared
<1>2. "mmap" \in Mutexes /\ mutex["mmap"] \in Mutex
  BY DEF LockInv, Shape, Mutexes
<1>3. mutex["mmap"].state = "consistent"
  BY <1>1, <1>2, CrashAssumption DEF LockInv, Mended, Mutex
<1>4. PICK r : /\ proc' = [proc EXCEPT ![p] = r]
               /\ "pc" \in DOMAIN r /\ "m" \in DOMAIN r
               /\ r.pc = "leave" /\ r.m = "mmap"
  BY <1>1, GotoShape
<1>5. /\ mutex' \in [Mutexes -> Mutex]
      /\ mutex'["mmap"].owner = Nobody /\ mutex'["mmap"].state = "consistent"
      /\ mutex'["shared"] = mutex["shared"]
  BY <1>2, <1>3 DEF LockInv, Shape, Mutex, Mutexes, Released
<1>6. Shape' /\ proc'[p] = r /\ \A q \in Procs \ {p} : proc'[q] = proc[q]
  BY <1>2, <1>4, <1>5, MoveKeeps DEF LockInv, Shape
<1>7. Places'
  BY <1>4, <1>6 DEF LockInv, Places
<1>8. Owners'
  BY <1>1, <1>4, <1>5, <1>6, CrashAssumption DEF LockInv, Owners, HasShared, HasMmap
<1>9. Mended'
  BY <1>4, <1>5, <1>6 DEF LockInv, Mended, Mutexes
<1>10. QED
  BY <1>6, <1>7, <1>8, <1>9 DEF LockInv

LEMMA LastStep ==
  ASSUME LockInv, NEW p \in Procs, Last(p)
  PROVE  LockInv'
<1>1. CASE Goto(p, "unlock") /\ UNCHANGED mutex
  BY <1>1, GotoKeeps DEF Last, Inside
<1>2. CASE Goto(p, "leave") /\ mutex' = [mutex EXCEPT !["mmap"] = Released("mmap")]
  BY <1>2, ReleaseStep DEF Last
<1>3. QED
  BY <1>1, <1>2 DEF Last

LEMMA LeaveStep ==
  ASSUME LockInv, NEW p \in Procs, Leave(p)
  PROVE  LockInv'
<1>1. proc[p].m = "mmap" /\ mutex["shared"].owner = p /\ proc[p].pc = "leave"
  BY DEF LockInv, Places, Owners, HasShared, Leave
<1>2. "shared" \in Mutexes /\ mutex["shared"] \in Mutex
  BY DEF LockInv, Shape, Mutexes
<1>3. mutex["shared"].state = "consistent"
  BY <1>1, <1>2, CrashAssumption DEF LockInv, Mended, Mutex
<1>4. /\ "pc" \in DOMAIN Idle /\ "m" \in DOMAIN Idle
      /\ Idle.pc = "idle" /\ Idle.m = "shared"
  BY DEF Idle
<1>5. /\ mutex' \in [Mutexes -> Mutex]
      /\ mutex'["shared"].owner = Nobody /\ mutex'["shared"].state = "consistent"
      /\ mutex'["mmap"] = mutex["mmap"]
  BY <1>2, <1>3 DEF LockInv, Shape, Mutex, Mutexes, Released, Leave
<1>6. proc' = [proc EXCEPT ![p] = Idle] /\ UNCHANGED alive
  BY DEF Leave
<1>7. Shape' /\ proc'[p] = Idle /\ \A q \in Procs \ {p} : proc'[q] = proc[q]
  BY <1>2, <1>4, <1>5, <1>6, MoveKeeps DEF LockInv, Shape
<1>8. Places'
  BY <1>4, <1>7 DEF LockInv, Places
<1>9. Owners'
  BY <1>1, <1>4, <1>5, <1>7, CrashAssumption DEF LockInv, Owners, HasShared, HasMmap
<1>10. Mended'
  BY <1>1, <1>5, <1>7 DEF LockInv, Mended, Mutexes
<1>11. QED
  BY <1>7, <1>8, <1>9, <1>10 DEF LockInv

(* What a process that ends had locked is a dead owner's. *)
LEMMA CrashStep ==
  ASSUME LockInv, NEW p \in Procs, Crash(p)
  PROVE  LockInv'
<1>1. /\ "pc" \in DOMAIN Idle /\ "m" \in DOMAIN Idle
      /\ Idle.pc = "idle" /\ Idle.m = "shared"
  BY DEF Idle
<1>2. /\ proc' = [proc EXCEPT ![p] = Idle]
      /\ alive' \subseteq Procs
  BY DEF Crash, LockInv, Shape
<1>3. mutex' \in [Mutexes -> Mutex]
  BY DEF Crash, LockInv, Shape, Mutex
<1>4. \A m \in Mutexes :
        /\ mutex'[m].owner = IF mutex[m].owner = p THEN OwnerDied ELSE mutex[m].owner
        /\ mutex'[m].state = mutex[m].state
  BY DEF Crash, LockInv, Shape, Mutex
<1>5. Shape' /\ proc'[p] = Idle /\ \A q \in Procs \ {p} : proc'[q] = proc[q]
  BY <1>1, <1>2, <1>3, MoveKeeps DEF Mutexes
<1>6. Places'
  BY <1>1, <1>5 DEF LockInv, Places
<1>7. Owners'
  BY <1>1, <1>4, <1>5, CrashAssumption DEF LockInv, Owners, HasShared, HasMmap, Mutexes
<1>8. Mended'
  BY <1>4, <1>5 DEF LockInv, Mended
<1>9. QED
  BY <1>5, <1>6, <1>7, <1>8 DEF LockInv

LEMMA NextInv == LockInv /\ [Next]_vars => LockInv'
<1> SUFFICES ASSUME LockInv, [Next]_vars PROVE LockInv'
  OBVIOUS
<1>1. ASSUME NEW p \in alive, Work(p) PROVE LockInv'
  <2>1. p \in Procs
    BY DEF LockInv, Shape
  <2>2. CASE UnlockMmap(p)
    BY <2>1, <2>2, ReleaseStep DEF UnlockMmap
  <2>3. CASE Lock(p) \/ LockOfDead(p) \/ Mend(p) \/ Last(p) \/ Leave(p)
    BY <2>1, <2>3, LockStep, LockOfDeadStep, MendStep, LastStep, LeaveStep
  <2>4. QED
    BY <1>1, <2>1, <2>2, <2>3, InsideSteps DEF Work
<1>2. ASSUME NEW p \in alive,
             (\E size \in Sizes : Malloc(p, size)) \/ (\E a \in live : Free(p, a))
      PROVE  LockInv'
  BY <1>2, CallSteps DEF LockInv, Shape
<1>3. ASSUME NEW p \in Procs, Crash(p) PROVE LockInv'
  BY <1>3, CrashStep
<1>4. ASSUME NEW p \in Procs, Fork(p) PROVE LockInv'
  BY <1>4 DEF Fork, LockInv, Shape, Places, Owners, HasShared, HasMmap, Mended
<1>5. CASE UNCHANGED vars
  BY <1>5 DEF vars, LockInv, Shape, Places, Owners, HasShared, HasMmap, Mended
<1>6. QED
  BY <1>1, <1>2, <1>3, <1>4, <1>5 DEF Next, Halted

(* No mutex is lost for good, however many processes end inside of a call, *)
(* and at whatever place: who gets one from a dead owner mends it first.   *)
THEOREM MutexesRecover == Spec => []Recoverable
<1>1. Spec => []LockInv
  BY InitInv, NextInv, PTL DEF Spec
<1>2. QED
  BY <1>1, InvMeans, PTL

(* One process at a time is between the locks and the unlocks, those that  *)
(* ended there before it notwithstanding.                                  *)
THEOREM MutexesExclude == Spec => []Excluded
<1>1. Spec => []LockInv
  BY InitInv, NextInv, PTL DEF Spec
<1>2. QED
  BY <1>1, InvMeans, PTL
================================================================================
