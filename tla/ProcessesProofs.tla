--------------------------- MODULE ProcessesProofs ---------------------------
(***************************************************************************)
(* What processes are given stays theirs, for any number of processes,     *)
(* addresses and MMAPs: StillBacked and NotShared of Processes, from the   *)
(* inductive invariant Inv; and all see one list as long as nobody maps an *)
(* MMAP while others run: SameList, from SInv.                             *)
(***************************************************************************)
EXTENDS Processes, InductionProofs

(* What belongs to somebody belongs to a process that runs: a child starts *)
(* with nothing of its own in the mappings it inherits.                    *)
OwnersRun == \A b \in live : b.owner \in alive

Inv == TypeOK /\ StillBacked /\ NotShared /\ OwnersRun

(* A write of a link changes neither the kind of a header nor who has the  *)
(* blocks of the MMAP.                                                     *)
LEMMA RelinkKeeps ==
  ASSUME NEW h \in [Mmaps -> Header], NEW p \in Procs,
         NEW a \in Addresses \cup {Nowhere}, NEW field, NEW to \in Addresses \cup {Nowhere},
         TypeOK, a # Nowhere => Sees(p, a)
  PROVE  /\ Relink(h, p, a, field, to) \in [Mmaps -> Header]
         /\ \A m \in Mmaps : Relink(h, p, a, field, to)[m].busy = h[m].busy
<1>1. CASE a = Nowhere
  BY <1>1 DEF Relink
<1>2. CASE a # Nowhere
  <2>1. view[p][a] \in Mmaps
    BY <1>2 DEF Sees, TypeOK
  <2>2. CASE field = "prev"
    BY <1>2, <2>1, <2>2 DEF Relink, Header
  <2>3. CASE field # "prev"
    <3> DEFINE m == view[p][a]
               new == [h[m] EXCEPT !.next = to]
    <3>1. new \in Header /\ new.busy = h[m].busy
      BY <2>1 DEF Header
    <3>2. Relink(h, p, a, field, to) = [h EXCEPT ![m] = new]
      BY <1>2, <2>3 DEF Relink
    <3> HIDE DEF new, m
    <3>3. m \in Mmaps
      BY <2>1 DEF m
    <3> QED
      BY <3>1, <3>2, <3>3
  <2>4. QED
    BY <2>2, <2>3
<1>3. QED
  BY <1>1, <1>2

(* The end of a process takes with it what the process owned, and nothing  *)
(* else.                                                                   *)
LEMMA EndKeeps ==
  ASSUME Inv, NEW p \in alive, Ends(p),
         header' \in [Mmaps -> Header],
         \A b \in live' : header'[b.m].busy = header[b.m].busy,
         first' = first, mutex' \in {"usable", "destroyed"}
  PROVE  Inv'
<1>1. live' = {a \in live : a.owner # p} /\ live' \subseteq live
  BY DEF Ends
<1>2. TypeOK'
  BY <1>1 DEF Inv, TypeOK, Ends, Return, Call, Idle, NoMappings
<1>3. StillBacked'
  BY <1>1 DEF Inv, TypeOK, StillBacked, Ends, Allocation
<1>4. NotShared'
  BY <1>1 DEF Inv, NotShared
<1>5. OwnersRun'
  BY <1>1 DEF Inv, OwnersRun, Ends
<1>6. QED
  BY <1>2, <1>3, <1>4, <1>5 DEF Inv

(* Memory that is mapped anew is nobody's, so that its header may be       *)
(* written; and where it goes nothing was.                                 *)
LEMMA MapKeeps ==
  ASSUME Inv, NEW p \in Procs, NEW a \in Addresses, NEW m \in Mmaps, Maps(p, a, m)
  PROVE  /\ view' \in [Procs -> [Addresses -> Mmaps \cup {NoMmap}]]
         /\ \A b \in live : b.m # m /\ view'[b.owner][b.at] = b.m
         /\ view'[p][a] = m
         /\ \A b \in Addresses : Sees(p, b) => view[p][b] # m
<1>1. view' \in [Procs -> [Addresses -> Mmaps \cup {NoMmap}]] /\ view'[p][a] = m
  BY DEF Maps, Inv, TypeOK
<1>2. \A q \in Procs, b \in Addresses : view[q][b] # m
  BY DEF Maps, Unmapped
<1>3. ASSUME NEW b \in live PROVE b.m # m /\ view'[b.owner][b.at] = b.m
  <2>1. b.owner \in Procs /\ b.at \in Addresses /\ b.m \in Mmaps /\ view[b.owner][b.at] = b.m
    BY DEF Inv, TypeOK, StillBacked, Allocation
  <2>2. <<b.owner, b.at>> # <<p, a>>
    BY <2>1, ProcessesAssumption DEF Maps
  <2>3. view'[b.owner][b.at] = view[b.owner][b.at]
    BY <2>1, <2>2 DEF Maps, Inv, TypeOK
  <2>4. QED
    BY <1>2, <2>1, <2>3
<1>4. QED
  BY <1>1, <1>2, <1>3

(* A block that is not busy is given to p, in an MMAP p has mapped.        *)
LEMMA TakeKeeps ==
  ASSUME Inv, NEW p \in alive, NEW a \in Addresses, NEW m \in Mmaps,
         NEW h \in [Mmaps -> Header], Take(p, a, m, h),
         view' \in [Procs -> [Addresses -> Mmaps \cup {NoMmap}]],
         view'[p][a] = m,
         \A b \in live : view'[b.owner][b.at] = b.m /\ b.n \in h[b.m].busy,
         UNCHANGED <<first, mutex, alive, forks>>, together' \in BOOLEAN
  PROVE  Inv'
<1> PICK n \in FreeBlocks(h, m) :
      /\ header' = [h EXCEPT ![m].busy = @ \cup {n}]
      /\ live' = live \cup {[owner |-> p, at |-> a, m |-> m, n |-> n]}
      /\ Return(p)
  BY DEF Take
<1> DEFINE new == [owner |-> p, at |-> a, m |-> m, n |-> n]
<1>1. n \in 1 .. Room /\ n \notin h[m].busy
  BY DEF FreeBlocks
<1>2. p \in Procs
  BY DEF Inv, TypeOK
<1>3. new \in Allocation
  BY <1>1, <1>2 DEF Allocation
<1>4. header' \in [Mmaps -> Header]
  BY <1>1 DEF Header
<1>5. \A k \in Mmaps : header'[k].busy = IF k = m THEN h[k].busy \cup {n} ELSE h[k].busy
  BY DEF Header
<1>6. TypeOK'
  <2>1. live' \subseteq Allocation
    BY <1>3 DEF Inv, TypeOK
  <2>2. call' \in [Procs -> Call]
    BY DEF Inv, TypeOK, Return, Call, Idle
  <2>3. QED
    BY <1>4, <2>1, <2>2 DEF Inv, TypeOK
<1>7. StillBacked'
  <2>1. ASSUME NEW b \in live PROVE view'[b.owner][b.at] = b.m /\ b.n \in header'[b.m].busy
    BY <1>5 DEF Inv, TypeOK, Allocation
  <2>2. view'[new.owner][new.at] = new.m /\ new.n \in header'[new.m].busy
    BY <1>5
  <2>3. QED
    BY <2>1, <2>2 DEF StillBacked
<1>8. NotShared'
  <2>1. ASSUME NEW b \in live PROVE <<b.m, b.n>> # <<m, n>>
    BY <1>1
  <2>2. QED
    BY <2>1 DEF Inv, NotShared
<1>9. OwnersRun'
  BY DEF Inv, OwnersRun
<1>10. QED
  BY <1>6, <1>7, <1>8, <1>9 DEF Inv

(* A block is no longer busy: of the live ones only its own is concerned.  *)
LEMMA FreeKeeps ==
  ASSUME Inv, NEW b \in live
  PROVE  /\ Freed(b) \in [Mmaps -> Header]
         /\ \A c \in live \ {b} : c.n \in Freed(b)[c.m].busy
<1>1. b \in Allocation
  BY DEF Inv, TypeOK
<1>2. Freed(b) \in [Mmaps -> Header]
  BY <1>1 DEF Freed, Header, Inv, TypeOK, Allocation
<1>3. ASSUME NEW c \in live \ {b} PROVE c.n \in Freed(b)[c.m].busy
  <2>1. c \in Allocation /\ c.n \in header[c.m].busy
    BY DEF Inv, TypeOK, StillBacked
  <2>2. c.m = b.m => c.n # b.n
    BY DEF Inv, NotShared
  <2>3. QED
    BY <1>1, <2>1, <2>2 DEF Freed, Header, Inv, TypeOK, Allocation
<1>4. QED
  BY <1>2, <1>3

(* What a vgc_free that does not unmap leaves.                             *)
LEMMA ReleaseKeeps ==
  ASSUME Inv, NEW b \in live, NEW h \in [Mmaps -> Header],
         \A c \in live \ {b} : c.n \in h[c.m].busy,
         header' = h, live' = live \ {b},
         UNCHANGED <<first, mutex, view, call, alive, forks, together>>
  PROVE  Inv'
<1>1. TypeOK'
  BY DEF Inv, TypeOK
<1>2. StillBacked' /\ NotShared' /\ OwnersRun'
  BY DEF Inv, StillBacked, NotShared, OwnersRun
<1>3. QED
  BY <1>1, <1>2 DEF Inv

(* The headers that vgc_free writes on its way to unmap an MMAP.           *)
LEMMA UnlinkKeeps ==
  ASSUME Inv, NEW p \in Procs, NEW b \in live, Lockable(p, header[b.m].next)
  PROVE  /\ NextRelinked(p, b) \in [Mmaps -> Header]
         /\ \A m \in Mmaps : NextRelinked(p, b)[m].busy = Freed(b)[m].busy
         /\ Lockable(p, header[b.m].prev) =>
              /\ Unlinked(p, b) \in [Mmaps -> Header]
              /\ \A m \in Mmaps : Unlinked(p, b)[m].busy = Freed(b)[m].busy
<1>1. header[b.m] \in Header
  BY DEF Inv, TypeOK, Allocation
<1>2. /\ header[b.m].next \in Addresses \cup {Nowhere}
      /\ header[b.m].prev \in Addresses \cup {Nowhere}
  BY <1>1 DEF Header
<1> TypeOK
  BY DEF Inv
<1>3. /\ NextRelinked(p, b) \in [Mmaps -> Header]
      /\ \A m \in Mmaps : NextRelinked(p, b)[m].busy = Freed(b)[m].busy
  <2>1. Freed(b) \in [Mmaps -> Header]
    BY FreeKeeps
  <2>2. header[b.m].next # Nowhere => Sees(p, header[b.m].next)
    BY DEF Lockable
  <2>3. PICK h, a, c : /\ h = Freed(b) /\ a = header[b.m].next /\ c = header[b.m].prev
                       /\ NextRelinked(p, b) = Relink(h, p, a, "prev", c)
    BY DEF NextRelinked
  <2>4. /\ Relink(h, p, a, "prev", c) \in [Mmaps -> Header]
        /\ \A m \in Mmaps : Relink(h, p, a, "prev", c)[m].busy = h[m].busy
    BY <1>2, <2>1, <2>2, <2>3, RelinkKeeps
  <2>5. QED
    BY <2>3, <2>4
<1>4. ASSUME Lockable(p, header[b.m].prev)
      PROVE  /\ Unlinked(p, b) \in [Mmaps -> Header]
             /\ \A m \in Mmaps : Unlinked(p, b)[m].busy = NextRelinked(p, b)[m].busy
  <2>1. header[b.m].prev # Nowhere => Sees(p, header[b.m].prev)
    BY <1>4 DEF Lockable
  <2>2. PICK h, a, c : /\ h = NextRelinked(p, b) /\ a = header[b.m].prev /\ c = header[b.m].next
                       /\ Unlinked(p, b) = Relink(h, p, a, "next", c)
    BY DEF Unlinked
  <2>3. /\ Relink(h, p, a, "next", c) \in [Mmaps -> Header]
        /\ \A m \in Mmaps : Relink(h, p, a, "next", c)[m].busy = h[m].busy
    BY <1>2, <1>3, <2>1, <2>2, RelinkKeeps
  <2>4. QED
    BY <2>2, <2>3
<1>5. QED
  BY <1>3, <1>4

LEMMA InitInv == Init => Inv
  BY ProcessesAssumption DEF Init, Inv, TypeOK, StillBacked, NotShared, OwnersRun,
     Unused, Header, Idle, Call, NoMappings

LEMMA StepInv ==
  ASSUME Inv, NEW p \in alive, Step(p)
  PROVE  Inv'
<1> p \in Procs
  BY DEF Inv, TypeOK
<1> USE DEF Fault
<1>1. CASE Malloc(p) \/ Publish(p) \/ Refused(p) \/ Circles(p)
  <2>1. call' \in [Procs -> Call] /\ first' \in Addresses \cup {Nowhere}
    <3>1. CASE Malloc(p) \/ Circles(p)
      <4>1. \E pc \in {"search", "circling"} : call' = [call EXCEPT ![p].pc = pc]
        BY <3>1 DEF Malloc, Circles
      <4>2. call \in [Procs -> Call]
        BY DEF Inv, TypeOK
      <4>3. call' \in [Procs -> Call]
        BY <4>1, <4>2 DEF Call
      <4>4. first' = first /\ first \in Addresses \cup {Nowhere}
        BY <3>1 DEF Malloc, Circles, Inv, TypeOK
      <4>5. QED
        BY <4>3, <4>4
    <3>2. CASE Publish(p)
      BY <3>2 DEF Inv, TypeOK, Publish, Call
    <3>3. CASE Refused(p)
      BY <3>3 DEF Inv, TypeOK, Refused, Return, Call, Idle
    <3>4. QED
      BY <1>1, <3>1, <3>2, <3>3
  <2>2. UNCHANGED <<mutex, header, view, live, alive, forks, together>>
    BY <1>1 DEF Malloc, Publish, Refused, Circles
  <2>3. QED
    BY <2>1, <2>2 DEF Inv, TypeOK, StillBacked, NotShared, OwnersRun
<1>2. CASE MallocFaults(p) \/ SearchFaults(p) \/ Crash(p) \/ ExitChild(p) \/ ExitMaster(p)
  <2>1. Ends(p) /\ header' = header /\ first' = first
    BY <1>2 DEF MallocFaults, SearchFaults, Crash, ExitChild, ExitMaster
  <2>2. mutex' \in {"usable", "destroyed"}
    BY <1>2 DEF MallocFaults, SearchFaults, Crash, ExitChild, ExitMaster, Inv, TypeOK
  <2>3. QED
    BY <2>1, <2>2, EndKeeps DEF Inv, TypeOK
<1>3. CASE MapFirst(p)
  <2>1. PICK a \in Addresses, m \in Mmaps :
          /\ Maps(p, a, m)
          /\ header' = [header EXCEPT ![m] = Fresh(Nowhere)]
          /\ call' = [call EXCEPT ![p] = [pc |-> "publish", at |-> a]]
    BY <1>3 DEF MapFirst
  <2>2. TypeOK'
    <3>1. header' \in [Mmaps -> Header] /\ call' \in [Procs -> Call]
      BY <2>1 DEF Inv, TypeOK, Header, Fresh, Call
    <3>2. together' \in BOOLEAN
      BY <2>1 DEF Maps
    <3>3. QED
      BY <1>3, <2>1, <3>1, <3>2, MapKeeps DEF MapFirst, Inv, TypeOK
  <2>3. StillBacked'
    BY <1>3, <2>1, MapKeeps DEF MapFirst, Inv, TypeOK, StillBacked, Allocation
  <2>4. QED
    BY <1>3, <2>2, <2>3 DEF MapFirst, Inv, NotShared, OwnersRun
<1>4. CASE TakeFromList(p)
  <2>1. PICK a \in Serving(p) : Take(p, a, view[p][a], header)
    BY <1>4 DEF TakeFromList
  <2>2. a \in Addresses /\ view[p][a] \in Mmaps
    BY <2>1 DEF Serving, Sees, Inv, TypeOK
  <2>3. QED
    BY <1>4, <2>1, <2>2, TakeKeeps DEF TakeFromList, Inv, TypeOK, StillBacked
<1>5. CASE TakeFromNewMmap(p)
  <2> PICK a \in Addresses, m \in Mmaps, last \in Addresses \cup {Nowhere} :
        /\ last # Nowhere => Sees(p, last)
        /\ Maps(p, a, m)
        /\ Take(p, a, m, Relink([header EXCEPT ![m] = Fresh(last)], p, last, "next", a))
    BY <1>5 DEF TakeFromNewMmap
  <2> DEFINE fresh == [header EXCEPT ![m] = Fresh(last)]
             h     == Relink(fresh, p, last, "next", a)
  <2>1. fresh \in [Mmaps -> Header] /\ \A k \in Mmaps \ {m} : fresh[k] = header[k]
    BY DEF Inv, TypeOK, Header, Fresh
  <2> TypeOK
    BY DEF Inv
  <2> HIDE DEF fresh, h
  <2>2. h \in [Mmaps -> Header] /\ \A k \in Mmaps : h[k].busy = fresh[k].busy
    <3> last # Nowhere => Sees(p, last)
      OBVIOUS
    <3> a \in Addresses \cup {Nowhere}
      OBVIOUS
    <3>1. /\ Relink(fresh, p, last, "next", a) \in [Mmaps -> Header]
          /\ \A k \in Mmaps : Relink(fresh, p, last, "next", a)[k].busy = fresh[k].busy
      BY <2>1, RelinkKeeps
    <3>2. QED
      BY <3>1 DEF h
  <2>3. ASSUME NEW b \in live PROVE view'[b.owner][b.at] = b.m /\ b.n \in h[b.m].busy
    <3>1. b.m # m /\ view'[b.owner][b.at] = b.m
      BY MapKeeps
    <3>2. b.m \in Mmaps /\ b.n \in header[b.m].busy
      BY DEF Inv, TypeOK, StillBacked, Allocation
    <3>3. QED
      BY <2>1, <2>2, <3>1, <3>2
  <2>4. together' \in BOOLEAN
    BY DEF Maps
  <2>5. UNCHANGED <<first, mutex, alive, forks>>
    BY <1>5 DEF TakeFromNewMmap
  <2>6. Take(p, a, m, h)
    BY DEF h, fresh
  <2>7. QED
    BY <2>2, <2>3, <2>4, <2>5, <2>6, MapKeeps, TakeKeeps
<1>6. ASSUME NEW b \in live, FreeRefused(p, b) \/ FreeBlock(p, b) PROVE Inv'
  <2>1. CASE FreeRefused(p, b)
    BY <2>1, ReleaseKeeps DEF FreeRefused, Inv, TypeOK, StillBacked
  <2>2. CASE FreeBlock(p, b)
    BY <2>2, FreeKeeps, ReleaseKeeps DEF FreeBlock
  <2>3. QED
    BY <1>6, <2>1, <2>2
<1>7. ASSUME NEW b \in live, FreeFaults(p, b) PROVE Inv'
  BY <1>7, EndKeeps DEF FreeFaults, Inv, TypeOK
<1>8. ASSUME NEW b \in live, FreeStops(p, b) PROVE Inv'
  <2> DEFINE stop == IF Lockable(p, header[b.m].next) THEN header[b.m].prev
                     ELSE header[b.m].next
  <2>1. /\ header' \in [Mmaps -> Header]
        /\ \A m \in Mmaps : header'[m].busy = Freed(b)[m].busy
    BY <1>8, FreeKeeps, UnlinkKeeps DEF FreeStops
  <2>2. b.owner = p /\ b \in Allocation
    BY <1>8 DEF FreeStops, IsLast, Finds, MayFree, Owns, Inv, TypeOK
  <2>3. \A c \in live \ {b} : c.n \in header'[c.m].busy
    BY <2>1, FreeKeeps DEF Inv, TypeOK, Allocation
  <2>4. CASE Sees(p, stop)
    BY <1>8, <2>1, <2>3, <2>4, ReleaseKeeps DEF FreeStops
  <2>5. CASE ~Sees(p, stop)
    <3>1. Ends(p) /\ UNCHANGED <<first, mutex>>
      BY <1>8, <2>5 DEF FreeStops
    <3>2. live' \subseteq live \ {b}
      BY <2>2, <3>1 DEF Ends
    <3>3. TypeOK'
      BY <2>1, <3>1, <3>2 DEF Inv, TypeOK, Ends, Return, Call, Idle, NoMappings
    <3>4. StillBacked'
      BY <2>3, <3>1, <3>2 DEF Inv, TypeOK, StillBacked, Ends, Allocation
    <3>5. NotShared' /\ OwnersRun'
      BY <3>1, <3>2 DEF Inv, NotShared, OwnersRun, Ends
    <3>6. QED
      BY <3>3, <3>4, <3>5 DEF Inv
  <2>6. QED
    BY <2>4, <2>5
<1>9. ASSUME NEW b \in live, FreeMMAP(p, b) PROVE Inv'
  <2>1. b \in Allocation /\ b.owner = p /\ b.n \in header[b.m].busy
    BY <1>9 DEF FreeMMAP, IsLast, Finds, MayFree, Owns, Inv, TypeOK, StillBacked
  <2>2. /\ Unlinked(p, b) \in [Mmaps -> Header]
        /\ \A m \in Mmaps : Unlinked(p, b)[m].busy = Freed(b)[m].busy
    BY <1>9, UnlinkKeeps DEF FreeMMAP
  <2>3. /\ header' \in [Mmaps -> Header]
        /\ \A m \in Mmaps : header'[m].busy = Freed(b)[m].busy
    BY <1>9, <2>1, <2>2 DEF FreeMMAP, Header, Allocation
  <2>4. ASSUME NEW c \in live \ {b} PROVE c.m # b.m
    BY <1>9, FreeKeeps DEF FreeMMAP, IsLast
  <2>5. TypeOK'
    BY <1>9, <2>1, <2>3 DEF FreeMMAP, Inv, TypeOK, Allocation
  <2>6. StillBacked'
    <3> SUFFICES ASSUME NEW c \in live \ {b}
                 PROVE  view'[c.owner][c.at] = c.m /\ c.n \in header'[c.m].busy
      BY <1>9 DEF FreeMMAP, StillBacked
    <3>1. c \in Allocation /\ view[c.owner][c.at] = c.m
      BY DEF Inv, TypeOK, StillBacked
    <3>2. view[b.owner][b.at] = b.m
      BY DEF Inv, StillBacked
    <3>3. <<c.owner, c.at>> # <<p, b.at>>
      BY <2>1, <2>4, <3>1, <3>2
    <3>4. view'[c.owner][c.at] = c.m
      BY <1>9, <2>1, <3>1, <3>3 DEF FreeMMAP, Inv, TypeOK, Allocation
    <3>5. c.n \in header'[c.m].busy
      BY <2>3, <3>1, FreeKeeps DEF Allocation
    <3>6. QED
      BY <3>4, <3>5
  <2>7. NotShared' /\ OwnersRun'
    BY <1>9 DEF FreeMMAP, Inv, NotShared, OwnersRun
  <2>8. QED
    BY <2>5, <2>6, <2>7 DEF Inv
<1>10. ASSUME NEW child \in Procs, Fork(p, child) PROVE Inv'
  <2>1. TypeOK'
    BY <1>10, ProcessesAssumption DEF Fork, Inv, TypeOK
  <2>2. StillBacked'
    BY <1>10 DEF Fork, Inv, TypeOK, StillBacked, OwnersRun, Allocation
  <2>3. NotShared' /\ OwnersRun'
    BY <1>10 DEF Fork, Inv, NotShared, OwnersRun
  <2>4. QED
    BY <2>1, <2>2, <2>3 DEF Inv
<1>11. QED
  BY <1>1, <1>2, <1>3, <1>4, <1>5, <1>6, <1>7, <1>8, <1>9, <1>10 DEF Step

LEMMA NextInv == Inv /\ [Next]_vars => Inv'
<1> SUFFICES ASSUME Inv, [Next]_vars PROVE Inv'
  OBVIOUS
<1>1. CASE Next
  BY <1>1, StepInv DEF Next
<1>2. CASE UNCHANGED vars
  BY <1>2 DEF vars, Inv, TypeOK, StillBacked, NotShared, OwnersRun
<1>3. QED
  BY <1>1, <1>2

(* The variables of Processes keep their types: every link stays an        *)
(* address, whatever the processes take for an MMAP.                       *)
THEOREM ProcessesTyped == Spec => []TypeOK
<1>1. Spec => []Inv
  BY InitInv, NextInv, PTL DEF Spec
<1>2. Inv => TypeOK
  BY DEF Inv
<1>3. QED
  BY <1>1, <1>2, PTL

(* What a process was given it has, at the address it was given, until it  *)
(* frees it, whatever the other processes unmap, map anew or leave.        *)
THEOREM OwnedStaysMapped == Spec => []StillBacked
<1>1. Spec => []Inv
  BY InitInv, NextInv, PTL DEF Spec
<1>2. Inv => StillBacked
  BY DEF Inv
<1>3. QED
  BY <1>1, <1>2, PTL

(* No block is given to two processes, not even where one of them takes    *)
(* an MMAP that another has given up for one of the list.                  *)
THEOREM BlocksHaveOneOwner == Spec => []NotShared
<1>1. Spec => []Inv
  BY InitInv, NextInv, PTL DEF Spec
<1>2. Inv => NotShared
  BY DEF Inv
<1>3. QED
  BY <1>1, <1>2, PTL

--------------------------------------------------------------------------------
NextOf(p, a) == header[view[p][a]].next
PrevOf(p, a) == header[view[p][a]].prev

(* All processes see the same memory at each address of L, it may be       *)
(* locked, its links stay within L and agree both ways; the walks start    *)
(* in L.                                                                   *)
ListOf(L) ==
  /\ L \subseteq Addresses /\ first \in L \cup {Nowhere}
  /\ \A p \in alive :
       /\ first # Nowhere => PrevOf(p, first) = Nowhere
       /\ \A a \in L :
            /\ Sees(p, a)
            /\ \A q \in alive : view[q][a] = view[p][a]
            /\ header[view[p][a]].mutex = "usable"
            /\ NextOf(p, a) # Nowhere => NextOf(p, a) \in L /\ PrevOf(p, NextOf(p, a)) = a
            /\ PrevOf(p, a) # Nowhere => PrevOf(p, a) \in L /\ NextOf(p, PrevOf(p, a)) = a

OneList == together => \E L : ListOf(L)

(* A piece of memory is at one address, in whatever process.               *)
Placed ==
  \A p, q \in Procs : \A a, b \in Addresses :
    view[p][a] # NoMmap /\ view[p][a] = view[q][b] => a = b

(* Who has mapped the first MMAP and has not stored it runs alone, and     *)
(* there is no list.                                                       *)
PublishesAlone ==
  together =>
    \A p \in alive : call[p].pc = "publish" =>
      /\ alive = {p} /\ first = Nowhere
      /\ call[p].at \in Addresses /\ Sees(p, call[p].at)
      /\ header[view[p][call[p].at]] = Fresh(Nowhere)

DeadIdle == \A p \in Procs \ alive : call[p] = Idle

SInv == OneList /\ Placed /\ PublishesAlone /\ DeadIdle

--------------------------------------------------------------------------------
(* A walk goes from an address to the next, and stays where it can go no   *)
(* further.                                                                *)
LEMMA WalkGoes ==
  ASSUME TypeOK, NEW p \in Procs
  PROVE  LET N == Cardinality(Addresses) IN
         /\ N \in Nat
         /\ Walk(p) \in [0 .. N -> Addresses \cup {Nowhere}]
         /\ Walk(p)[0] = first
         /\ \A i \in 0 .. N : i # 0 =>
              Walk(p)[i] = IF Sees(p, Walk(p)[i - 1]) THEN NextOf(p, Walk(p)[i - 1])
                           ELSE Walk(p)[i - 1]
<1> DEFINE N == Cardinality(Addresses)
           X == Addresses \cup {Nowhere}
           G == [a \in X |-> IF Sees(p, a) THEN NextOf(p, a) ELSE a]
           at == CHOOSE f : f = [i \in 0 .. N |->
                   IF i = 0 THEN first
                   ELSE IF Sees(p, f[i - 1]) THEN header[view[p][f[i - 1]]].next
                   ELSE f[i - 1]]
<1>1. N \in Nat
  BY FS_CardinalityType, ProcessesAssumption
<1>2. G \in [X -> X]
  BY DEF TypeOK, Header, Sees, NextOf
<1>3. first \in X
  BY DEF TypeOK
<1>4. PICK f \in [0 .. N -> X] : Iterated(f, N, first, G)
  <2> HIDE DEF N, X, G
  <2> QED
    BY <1>1, <1>2, <1>3, Iterates
<1>5. f = [i \in 0 .. N |-> IF i = 0 THEN first
                            ELSE IF Sees(p, f[i - 1]) THEN header[view[p][f[i - 1]]].next
                            ELSE f[i - 1]]
  <2>1. \A i \in 0 .. N : i # 0 => f[i - 1] \in X
    <3>1. \A i \in 0 .. N : i # 0 => i - 1 \in 0 .. N
      BY <1>1
    <3> QED
      BY <1>4, <3>1
  <2>2. \A i \in 0 .. N : (IF i = 0 THEN first ELSE G[f[i - 1]])
                        = (IF i = 0 THEN first
                           ELSE IF Sees(p, f[i - 1]) THEN header[view[p][f[i - 1]]].next
                           ELSE f[i - 1])
    BY <2>1 DEF NextOf
  <2> HIDE DEF N, X, G
  <2> QED
    BY <1>4, <2>2 DEF Iterated
<1>6. at = [i \in 0 .. N |-> IF i = 0 THEN first
                             ELSE IF Sees(p, at[i - 1]) THEN header[view[p][at[i - 1]]].next
                             ELSE at[i - 1]]
  BY <1>5
<1>7. Walk(p) = at
  BY DEF Walk
<1> HIDE DEF at, G, N
<1>8. /\ at[0] = first
      /\ \A i \in 0 .. N : i # 0 =>
           at[i] = IF Sees(p, at[i - 1]) THEN NextOf(p, at[i - 1]) ELSE at[i - 1]
  <2>1. \A i \in 0 .. N :
          at[i] = IF i = 0 THEN first
                  ELSE IF Sees(p, at[i - 1]) THEN header[view[p][at[i - 1]]].next
                  ELSE at[i - 1]
    BY <1>6, Zenon
  <2>2. 0 \in 0 .. N
    BY <1>1
  <2> QED
    BY <2>1, <2>2 DEF NextOf
<1>9. at \in [0 .. N -> X]
  <2> DEFINE S == {i \in 0 .. N : at[i] \in X}
  <2>1. 0 \in S
    BY <1>1, <1>3, <1>8
  <2>2. ASSUME NEW i \in 0 .. N, i \in S, i + 1 <= N PROVE i + 1 \in S
    <3>1. i + 1 \in 0 .. N /\ i + 1 # 0 /\ (i + 1) - 1 = i /\ at[i] \in X
      BY <1>1, <2>2
    <3>2. at[i + 1] = IF Sees(p, at[i]) THEN NextOf(p, at[i]) ELSE at[i]
      BY <1>8, <3>1
    <3>3. Sees(p, at[i]) => NextOf(p, at[i]) \in X
      BY <3>1 DEF TypeOK, Header, Sees, NextOf
    <3> QED
      BY <3>1, <3>2, <3>3
  <2> HIDE DEF S
  <2>3. 0 .. N \subseteq S
    BY <1>1, <2>1, <2>2, UpTo
  <2>4. \A i \in 0 .. N : at[i] \in X
    BY <2>3 DEF S
  <2> QED
    BY <1>6, <2>4
<1> QED
  BY <1>1, <1>7, <1>8, <1>9 DEF N

(* A walk that starts in L stays in L to its end.                          *)
LEMMA WalkOnList ==
  ASSUME Inv, NEW L, ListOf(L), NEW p \in alive
  PROVE  /\ DOMAIN Walk(p) = 0 .. Cardinality(Addresses)
         /\ Cardinality(Addresses) \in Nat
         /\ \A i \in DOMAIN Walk(p) :
              /\ Walk(p)[i] \in L \cup {Nowhere}
              /\ i # 0 /\ Walk(p)[i] # Nowhere =>
                   Walk(p)[i - 1] \in L /\ NextOf(p, Walk(p)[i - 1]) = Walk(p)[i]
              /\ i # 0 /\ Walk(p)[i - 1] \in L => NextOf(p, Walk(p)[i - 1]) = Walk(p)[i]
<1> DEFINE N == Cardinality(Addresses)
           W == Walk(p)
<1>1. /\ N \in Nat /\ W \in [0 .. N -> Addresses \cup {Nowhere}] /\ W[0] = first
      /\ \A i \in 0 .. N : i # 0 =>
           W[i] = IF Sees(p, W[i - 1]) THEN NextOf(p, W[i - 1]) ELSE W[i - 1]
  BY WalkGoes DEF Inv, TypeOK
<1> HIDE DEF N, W
<1>2. \A a \in L : Sees(p, a) /\ NextOf(p, a) \in L \cup {Nowhere}
  BY DEF ListOf
<1>3. first \in L \cup {Nowhere}
  BY DEF ListOf
<1>4. \A i \in 0 .. N : W[i] \in L \cup {Nowhere}
  <2> DEFINE S == {i \in 0 .. N : W[i] \in L \cup {Nowhere}}
  <2>1. 0 \in S
    BY <1>1, <1>3
  <2>2. ASSUME NEW i \in 0 .. N, i \in S, i + 1 <= N PROVE i + 1 \in S
    <3>1. i + 1 \in 0 .. N /\ i + 1 # 0 /\ (i + 1) - 1 = i
      BY <1>1, <2>2
    <3>2. W[i + 1] = IF Sees(p, W[i]) THEN NextOf(p, W[i]) ELSE W[i]
      BY <1>1, <3>1
    <3> QED
      BY <1>2, <2>2, <3>1, <3>2 DEF Sees
  <2> HIDE DEF S
  <2>3. 0 .. N \subseteq S
    BY <1>1, <2>1, <2>2, UpTo
  <2> QED
    BY <2>3 DEF S
<1>5. ASSUME NEW i \in 0 .. N, i # 0
      PROVE  /\ W[i] # Nowhere => W[i - 1] \in L /\ NextOf(p, W[i - 1]) = W[i]
             /\ W[i - 1] \in L => NextOf(p, W[i - 1]) = W[i]
  <2>1. i - 1 \in 0 .. N
    BY <1>1, <1>5
  <2> QED
    BY <1>1, <1>2, <1>4, <1>5, <2>1 DEF Sees
<1> QED
  BY <1>1, <1>4, <1>5 DEF N, W

LEMMA SameFromList == Inv /\ SInv => SameList
<1> SUFFICES ASSUME Inv, SInv, together, NEW p \in alive, NEW q \in alive,
                    NEW i \in DOMAIN Walk(p), Walk(p)[i] # Nowhere
             PROVE  LET a == Walk(p)[i] IN
                    /\ Sees(p, a)
                    /\ view[p][a] = view[q][a]
                    /\ header[view[p][a]].mutex = "usable"
                    /\ header[view[p][a]].prev = IF i = 0 THEN Nowhere ELSE Walk(p)[i - 1]
  BY DEF SameList
<1> DEFINE a == Walk(p)[i]
<1>1. PICK L : ListOf(L)
  BY DEF SInv, OneList
<1>2. /\ a \in L
      /\ i # 0 => Walk(p)[i - 1] \in L /\ NextOf(p, Walk(p)[i - 1]) = a
  BY <1>1, WalkOnList
<1>3. i = 0 => a = first
  BY WalkGoes DEF Inv, TypeOK
<1> HIDE DEF a
<1>4. Sees(p, a) /\ view[p][a] = view[q][a] /\ header[view[p][a]].mutex = "usable"
  BY <1>1, <1>2 DEF ListOf
<1>5. i = 0 => PrevOf(p, a) = Nowhere
  BY <1>1, <1>2, <1>3, ProcessesAssumption DEF ListOf
<1>6. i # 0 => PrevOf(p, a) = Walk(p)[i - 1]
  BY <1>1, <1>2, ProcessesAssumption DEF ListOf
<1> QED
  BY <1>4, <1>5, <1>6 DEF a, PrevOf

--------------------------------------------------------------------------------
(* A step that changes neither mappings nor links of those that go on.     *)
LEMMA ListKept ==
  ASSUME NEW L, ListOf(L), first' = first, alive' \subseteq alive,
         \A p \in alive', a \in L :
           /\ view'[p][a] = view[p][a]
           /\ header'[view[p][a]].next = header[view[p][a]].next
           /\ header'[view[p][a]].prev = header[view[p][a]].prev
           /\ header'[view[p][a]].mutex = header[view[p][a]].mutex
  PROVE  ListOf(L)'
<1>1. \A p \in alive', a \in L : /\ NextOf(p, a)' = NextOf(p, a)
                                /\ PrevOf(p, a)' = PrevOf(p, a)
                                /\ Sees(p, a)' <=> Sees(p, a)
  BY DEF NextOf, PrevOf, Sees
<1> QED
  BY <1>1 DEF ListOf

(* Who has mapped a first MMAP runs alone: a step of another, or his own   *)
(* store or end, leaves nobody who is about to store one.                  *)
LEMMA PublishKept ==
  ASSUME PublishesAlone, NEW p \in alive, together' => together,
         \A q \in alive' : call'[q].pc = "publish" =>
           q \in alive \ {p} /\ call[q].pc = "publish"
  PROVE  PublishesAlone'
  BY DEF PublishesAlone

LEMMA PlacedKept ==
  ASSUME Placed,
         \A p \in Procs, a \in Addresses :
           view'[p][a] = NoMmap \/ \E q \in Procs : view'[p][a] = view[q][a]
  PROVE  Placed'
  BY DEF Placed

(* A step of p that leaves all mappings, links and processes as they are.  *)
LEMMA QuietSame ==
  ASSUME Inv, SInv, NEW p \in alive, UNCHANGED <<first, view, alive, together>>,
         \A m \in Mmaps : /\ header'[m].next = header[m].next
                          /\ header'[m].prev = header[m].prev
                          /\ header'[m].mutex = header[m].mutex,
         \A q \in Procs \ {p} : call'[q] = call[q],
         call'[p].pc # "publish"
  PROVE  SInv'
<1>1. OneList'
  <2> SUFFICES ASSUME together PROVE \E L : ListOf(L)'
    BY DEF OneList
  <2>1. PICK L : ListOf(L)
    BY DEF SInv, OneList
  <2>2. \A q \in alive, a \in L : view[q][a] \in Mmaps
    BY <2>1 DEF ListOf, Sees, Inv, TypeOK
  <2> QED
    BY <2>1, <2>2, ListKept
<1>2. Placed'
  BY DEF SInv, Placed
<1>3. PublishesAlone'
  BY PublishKept DEF SInv, Inv, TypeOK
<1>4. DeadIdle'
  BY DEF SInv, DeadIdle
<1> QED
  BY <1>1, <1>2, <1>3, <1>4 DEF SInv

LEMMA EndSame ==
  ASSUME Inv, SInv, NEW p \in alive, Ends(p), UNCHANGED <<first, header>>
  PROVE  SInv'
<1>1. /\ alive' = alive \ {p} /\ together' = together
      /\ call' = [call EXCEPT ![p] = Idle]
      /\ view' = [view EXCEPT ![p] = NoMappings]
  BY DEF Ends, Return
<1>2. OneList'
  <2> SUFFICES ASSUME together PROVE \E L : ListOf(L)'
    BY <1>1 DEF OneList
  <2>1. PICK L : ListOf(L)
    BY DEF SInv, OneList
  <2>2. \A q \in alive' : view'[q] = view[q]
    BY <1>1 DEF Inv, TypeOK
  <2> QED
    BY <1>1, <2>1, <2>2, ListKept
<1>3. Placed'
  <2>1. \A q \in Procs, a \in Addresses : view'[q][a] = NoMmap \/ view'[q][a] = view[q][a]
    BY <1>1 DEF Inv, TypeOK, NoMappings
  <2> QED
    BY <2>1, PlacedKept DEF SInv
<1>4. PublishesAlone'
  <2>1. \A q \in alive' : q \in alive \ {p} /\ call'[q] = call[q]
    BY <1>1 DEF Inv, TypeOK
  <2> QED
    BY <1>1, <2>1, PublishKept DEF SInv
<1>5. DeadIdle'
  BY <1>1 DEF SInv, DeadIdle, Inv, TypeOK
<1> QED
  BY <1>2, <1>3, <1>4, <1>5 DEF SInv

(* Memory is mapped at one address, at which the process had nothing.      *)
LEMMA MapPlaced ==
  ASSUME Inv, Placed, NEW p \in Procs, NEW a \in Addresses, NEW m \in Mmaps, Maps(p, a, m)
  PROVE  /\ Placed'
         /\ view'[p][a] = m
         /\ \A q \in Procs, b \in Addresses :
              <<q, b>> # <<p, a>> => view'[q][b] = view[q][b] /\ view[q][b] # m
<1>1. \A q \in Procs, b \in Addresses :
        view'[q][b] = IF q = p /\ b = a THEN m ELSE view[q][b]
  BY DEF Maps, Inv, TypeOK
<1>2. \A q \in Procs, b \in Addresses : view[q][b] # m
  BY DEF Maps, Unmapped
<1>3. Placed'
  BY <1>1, <1>2 DEF Placed
<1> QED
  BY <1>1, <1>2, <1>3

LEMMA MapFirstSame ==
  ASSUME Inv, SInv, NEW p \in alive, MapFirst(p)
  PROVE  SInv'
<1>1. PICK a \in Addresses, m \in Mmaps :
        /\ Maps(p, a, m)
        /\ header' = [header EXCEPT ![m] = Fresh(Nowhere)]
        /\ call' = [call EXCEPT ![p] = [pc |-> "publish", at |-> a]]
  BY DEF MapFirst
<1>2. /\ p \in Procs /\ first = Nowhere /\ first' = Nowhere /\ alive' = alive
      /\ (together' => together /\ alive = {p})
  BY <1>1 DEF MapFirst, Maps, Inv, TypeOK
<1>3. Placed' /\ view'[p][a] = m
  BY <1>1, <1>2, MapPlaced DEF SInv
<1>4. OneList'
  <2>1. ListOf({})'
    BY <1>2 DEF ListOf
  <2> QED
    BY <2>1 DEF OneList
<1>5. PublishesAlone'
  <2>1. call'[p] = [pc |-> "publish", at |-> a] /\ header'[m] = Fresh(Nowhere)
    BY <1>1, <1>2 DEF Inv, TypeOK
  <2>2. m # NoMmap /\ a # Nowhere
    BY ProcessesAssumption
  <2> QED
    BY <1>2, <1>3, <2>1, <2>2 DEF PublishesAlone, Sees
<1>6. DeadIdle'
  BY <1>1, <1>2 DEF SInv, DeadIdle, Inv, TypeOK
<1> QED
  BY <1>3, <1>4, <1>5, <1>6 DEF SInv

LEMMA PublishSame ==
  ASSUME Inv, SInv, NEW p \in alive, Publish(p)
  PROVE  SInv'
<1>1. /\ first' = call[p].at /\ call[p].pc = "publish"
      /\ call' = [call EXCEPT ![p] = [pc |-> "search", at |-> Nowhere]]
      /\ UNCHANGED <<header, view, alive, together>> /\ p \in Procs
  BY DEF Publish, Inv, TypeOK
<1>2. OneList'
  <2> SUFFICES ASSUME together PROVE \E L : ListOf(L)'
    BY <1>1 DEF OneList
  <2>0. PICK a : a = call[p].at
    OBVIOUS
  <2>1. /\ alive = {p} /\ a \in Addresses /\ Sees(p, a)
        /\ header[view[p][a]] = Fresh(Nowhere)
    BY <1>1, <2>0 DEF SInv, PublishesAlone
  <2>2. /\ header[view[p][a]].next = Nowhere /\ header[view[p][a]].prev = Nowhere
        /\ header[view[p][a]].mutex = "usable"
    BY <2>1 DEF Fresh
  <2>3. first' = a /\ alive' = {p} /\ header' = header /\ view' = view
    BY <1>1, <2>0, <2>1
  <2>4. /\ PrevOf(p, a)' = Nowhere /\ NextOf(p, a)' = Nowhere /\ Sees(p, a)'
        /\ header'[view'[p][a]].mutex = "usable" /\ PrevOf(p, first)' = Nowhere
    BY <2>1, <2>2, <2>3 DEF NextOf, PrevOf, Sees
  <2>5. ListOf({a})'
    BY <2>1, <2>3, <2>4 DEF ListOf
  <2> QED
    BY <2>5
<1>3. Placed'
  BY <1>1 DEF SInv, Placed
<1>4. PublishesAlone'
  BY <1>1, PublishKept DEF SInv, Inv, TypeOK
<1>5. DeadIdle'
  BY <1>1 DEF SInv, DeadIdle, Inv, TypeOK
<1> QED
  BY <1>2, <1>3, <1>4, <1>5 DEF SInv

LEMMA ForkSame ==
  ASSUME Inv, SInv, NEW p \in alive, NEW child \in Procs, Fork(p, child)
  PROVE  SInv'
<1>1. /\ p \in Procs /\ child \notin alive /\ alive' = alive \cup {child}
      /\ view' = [view EXCEPT ![child] = view[p]]
      /\ UNCHANGED <<first, header, call, together>>
      /\ call[p].pc = "idle"
  BY DEF Fork, Inv, TypeOK
<1>2. /\ view'[child] = view[p]
      /\ \A q \in Procs \ {child} : view'[q] = view[q]
      /\ alive \subseteq Procs
  BY <1>1 DEF Inv, TypeOK
<1>3. OneList'
  <2> SUFFICES ASSUME together PROVE \E L : ListOf(L)'
    BY <1>1 DEF OneList
  <2>1. PICK L : ListOf(L)
    BY DEF SInv, OneList
  <2>2. \A q \in alive' : \E r \in alive : view'[q] = view[r]
    BY <1>1, <1>2
  <2>3. ListOf(L)'
    <3>1. L \subseteq Addresses /\ first' \in L \cup {Nowhere}
      BY <1>1, <2>1 DEF ListOf
    <3>2. ASSUME NEW q \in alive'
          PROVE  /\ first' # Nowhere => PrevOf(q, first)' = Nowhere
                 /\ \A a \in L :
                      /\ Sees(q, a)'
                      /\ \A r \in alive' : view'[r][a] = view'[q][a]
                      /\ header'[view'[q][a]].mutex = "usable"
                      /\ NextOf(q, a)' # Nowhere =>
                           NextOf(q, a)' \in L /\ PrevOf(q, NextOf(q, a))' = a
                      /\ PrevOf(q, a)' # Nowhere =>
                           PrevOf(q, a)' \in L /\ NextOf(q, PrevOf(q, a))' = a
      <4>1. PICK r \in alive : view'[q] = view[r]
        BY <2>2
      <4>2. /\ first # Nowhere => PrevOf(r, first) = Nowhere
            /\ \A a \in L :
                 /\ Sees(r, a)
                 /\ \A s \in alive : view[s][a] = view[r][a]
                 /\ header[view[r][a]].mutex = "usable"
                 /\ NextOf(r, a) # Nowhere => NextOf(r, a) \in L /\ PrevOf(r, NextOf(r, a)) = a
                 /\ PrevOf(r, a) # Nowhere => PrevOf(r, a) \in L /\ NextOf(r, PrevOf(r, a)) = a
        BY <2>1 DEF ListOf
      <4>3. ASSUME NEW a \in L, NEW s \in alive' PROVE view'[s][a] = view'[q][a]
        BY <2>2, <4>1, <4>2
      <4>4. /\ first' = first /\ header' = header
            /\ \A a : Sees(q, a)' <=> Sees(r, a)
            /\ \A a : NextOf(q, a)' = NextOf(r, a) /\ PrevOf(q, a)' = PrevOf(r, a)
        BY <1>1, <4>1 DEF NextOf, PrevOf, Sees
      <4>5. ASSUME NEW a \in L
            PROVE  /\ Sees(q, a)'
                   /\ header'[view'[q][a]].mutex = "usable"
                   /\ NextOf(q, a)' # Nowhere =>
                        NextOf(q, a)' \in L /\ PrevOf(q, NextOf(q, a))' = a
                   /\ PrevOf(q, a)' # Nowhere =>
                        PrevOf(q, a)' \in L /\ NextOf(q, PrevOf(q, a))' = a
        <5>1. /\ Sees(r, a) /\ header[view[r][a]].mutex = "usable"
              /\ NextOf(r, a) # Nowhere => NextOf(r, a) \in L /\ PrevOf(r, NextOf(r, a)) = a
              /\ PrevOf(r, a) # Nowhere => PrevOf(r, a) \in L /\ NextOf(r, PrevOf(r, a)) = a
          BY <4>2
        <5>2. PrevOf(q, NextOf(q, a))' = PrevOf(r, NextOf(r, a))
          BY <1>1, <4>1 DEF NextOf, PrevOf
        <5>3. NextOf(q, PrevOf(q, a))' = NextOf(r, PrevOf(r, a))
          BY <1>1, <4>1 DEF NextOf, PrevOf
        <5> QED
          BY <4>1, <4>4, <5>1, <5>2, <5>3
      <4>6. first' # Nowhere => PrevOf(q, first)' = Nowhere
        BY <4>2, <4>4
      <4> QED
        BY <4>3, <4>5, <4>6
    <3> QED
      BY <3>1, <3>2 DEF ListOf
  <2> QED
    BY <2>3
<1>4. Placed'
  <2>1. \A q \in Procs, a \in Addresses : \E r \in Procs : view'[q][a] = view[r][a]
    BY <1>1, <1>2
  <2> QED
    BY <2>1, PlacedKept DEF SInv
<1>5. PublishesAlone'
  <2>1. call[child] = Idle
    BY <1>1 DEF SInv, DeadIdle
  <2> QED
    BY <1>1, <2>1, PublishKept DEF SInv, Idle
<1>6. DeadIdle'
  BY <1>1 DEF SInv, DeadIdle
<1> QED
  BY <1>3, <1>4, <1>5, <1>6 DEF SInv

--------------------------------------------------------------------------------
(* The fields a write of a link changes. *)
LEMMA RelinkPrev ==
  ASSUME NEW h \in [Mmaps -> Header], NEW p, NEW a, NEW to,
         a # Nowhere => view[p][a] \in Mmaps,
         NEW g, g = Relink(h, p, a, "prev", to)
  PROVE  \A k \in Mmaps :
           /\ g[k].next = h[k].next
           /\ g[k].mutex = h[k].mutex
           /\ g[k].prev = IF a # Nowhere /\ k = view[p][a] THEN to ELSE h[k].prev
<1> SUFFICES ASSUME NEW k \in Mmaps
             PROVE  /\ g[k].next = h[k].next
                    /\ g[k].mutex = h[k].mutex
                    /\ g[k].prev = IF a # Nowhere /\ k = view[p][a] THEN to ELSE h[k].prev
  OBVIOUS
<1>1. CASE a = Nowhere
  BY <1>1 DEF Relink
<1>2. CASE a # Nowhere
  <2>1. view[p][a] \in Mmaps /\ h[view[p][a]] \in Header /\ h[k] \in Header
    BY <1>2
  <2>2. g[k] = IF k = view[p][a] THEN [h[k] EXCEPT !.prev = to] ELSE h[k]
    BY <1>2, <2>1 DEF Relink
  <2> QED
    BY <1>2, <2>1, <2>2 DEF Header
<1> QED
  BY <1>1, <1>2

LEMMA RelinkNext ==
  ASSUME NEW h \in [Mmaps -> Header], NEW p, NEW a, NEW to,
         a # Nowhere => view[p][a] \in Mmaps,
         NEW g, g = Relink(h, p, a, "next", to)
  PROVE  \A k \in Mmaps :
           /\ g[k].prev = h[k].prev
           /\ g[k].mutex = h[k].mutex
           /\ g[k].next = IF a # Nowhere /\ k = view[p][a] THEN to ELSE h[k].next
<1> SUFFICES ASSUME NEW k \in Mmaps
             PROVE  /\ g[k].prev = h[k].prev
                    /\ g[k].mutex = h[k].mutex
                    /\ g[k].next = IF a # Nowhere /\ k = view[p][a] THEN to ELSE h[k].next
  OBVIOUS
<1>1. CASE a = Nowhere
  BY <1>1 DEF Relink
<1>2. CASE a # Nowhere
  <2>1. view[p][a] \in Mmaps /\ h[view[p][a]] \in Header /\ h[k] \in Header
    BY <1>2
  <2>2. g[k] = IF k = view[p][a] THEN [h[k] EXCEPT !.next = to] ELSE h[k]
    BY <1>2, <2>1 DEF Relink
  <2> QED
    BY <1>2, <2>1, <2>2 DEF Header
<1> QED
  BY <1>1, <1>2

LEMMA RelinkBoth ==
  ASSUME Inv, NEW h \in [Mmaps -> Header], NEW p, NEW n, NEW r, p \in Procs,
         n \in Addresses \cup {Nowhere}, r \in Addresses \cup {Nowhere},
         n # Nowhere => Sees(p, n) /\ view[p][n] \in Mmaps,
         r # Nowhere => view[p][r] \in Mmaps,
         NEW k \in Mmaps, NEW g, g = Relink(Relink(h, p, n, "prev", r), p, r, "next", n)
  PROVE  /\ g[k].prev = IF n # Nowhere /\ k = view[p][n] THEN r ELSE h[k].prev
         /\ g[k].next = IF r # Nowhere /\ k = view[p][r] THEN n ELSE h[k].next
         /\ g[k].mutex = h[k].mutex
<1>1. PICK h2 : h2 = Relink(h, p, n, "prev", r)
  OBVIOUS
<1>2. h2 \in [Mmaps -> Header]
  <2> TypeOK
    BY DEF Inv
  <2> QED
    BY <1>1, RelinkKeeps
<1>3. /\ h2[k].next = h[k].next /\ h2[k].mutex = h[k].mutex
      /\ h2[k].prev = IF n # Nowhere /\ k = view[p][n] THEN r ELSE h[k].prev
  BY <1>1, RelinkPrev
<1>4. g = Relink(h2, p, r, "next", n)
  BY <1>1
<1>5. /\ g[k].prev = h2[k].prev /\ g[k].mutex = h2[k].mutex
      /\ g[k].next = IF r # Nowhere /\ k = view[p][r] THEN n ELSE h2[k].next
  BY <1>2, <1>4, RelinkNext
<1> QED
  BY <1>3, <1>5

(* The fields vgc_malloc and vgc_free change otherwise. *)
LEMMA TakeFields ==
  ASSUME NEW h \in [Mmaps -> Header], NEW p, NEW a, NEW m \in Mmaps, Take(p, a, m, h)
  PROVE  /\ \A k \in Mmaps : /\ header'[k].next = h[k].next
                            /\ header'[k].prev = h[k].prev
                            /\ header'[k].mutex = h[k].mutex
         /\ Return(p)
  BY DEF Take, Header

LEMMA FreedFields ==
  ASSUME Inv, NEW b \in live, NEW k \in Mmaps
  PROVE  /\ Freed(b)[k].next = header[k].next
         /\ Freed(b)[k].prev = header[k].prev
         /\ Freed(b)[k].mutex = header[k].mutex
<1>1. header[k] \in Header /\ b.m \in Mmaps
  BY DEF Inv, TypeOK, Allocation
<1> QED
  BY <1>1 DEF Freed, Header, Inv, TypeOK

(* Where a walk that comes to an end has stopped first.                    *)
LEMMA StopsFirst ==
  ASSUME Inv, NEW p \in alive, NEW wanted, Stops(p, wanted) # {}
  PROVE  \E j \in Stops(p, wanted) :
           /\ j = Min(Stops(p, wanted))
           /\ \A i \in Stops(p, wanted) : j <= i
<1> DEFINE S == Stops(p, wanted)
<1>1. /\ DOMAIN Walk(p) = 0 .. Cardinality(Addresses)
      /\ Cardinality(Addresses) \in Nat
  BY WalkGoes DEF Inv, TypeOK
<1>2. S \in SUBSET Nat
  BY <1>1 DEF Stops
<1> HIDE DEF S
<1>3. PICK i \in S : \A j \in S : i <= j
  BY <1>2, LeastOfNat DEF S
<1>4. Min(S) \in S /\ \A j \in S : Min(S) <= j
  BY <1>3 DEF Min
<1> QED
  BY <1>4 DEF S

(* What vgc_free has found is on the list, and its neighbours are, too:    *)
(* the process sees them and may lock them.                                *)
LEMMA FreeOnList ==
  ASSUME Inv, NEW L, ListOf(L), NEW p \in alive, NEW b \in live, IsLast(p, b)
  PROVE  /\ b.at \in L /\ view[p][b.at] = b.m /\ b.m \in Mmaps /\ b.owner = p
         /\ Lockable(p, header[b.m].next) /\ Lockable(p, header[b.m].prev)
<1>1. /\ b.owner = p /\ b \in Allocation /\ view[p][b.at] = b.m
      /\ Stops(p, {b.at}) # {} /\ Found(p, {b.at}) = b.at
  BY DEF IsLast, Finds, MayFree, Owns, Inv, TypeOK, StillBacked
<1>2. /\ DOMAIN Walk(p) = 0 .. Cardinality(Addresses) /\ Cardinality(Addresses) \in Nat
      /\ \A i \in DOMAIN Walk(p) : Walk(p)[i] \in L \cup {Nowhere}
  BY WalkOnList
<1>3. Min(Stops(p, {b.at})) \in Stops(p, {b.at})
  BY <1>1, StopsFirst
<1>4. b.at \in L
  <2>1. Walk(p)[Min(Stops(p, {b.at}))] \in L \cup {Nowhere}
    BY <1>2, <1>3 DEF Stops
  <2> QED
    BY <1>1, <2>1, ProcessesAssumption DEF Found, Allocation
<1>5. Lockable(p, header[b.m].next) /\ Lockable(p, header[b.m].prev)
  <2>1. NextOf(p, b.at) = header[b.m].next /\ PrevOf(p, b.at) = header[b.m].prev
    BY <1>1 DEF NextOf, PrevOf
  <2>2. \A a \in L : Lockable(p, a)
    BY DEF ListOf, Lockable
  <2>3. Lockable(p, Nowhere)
    BY DEF Lockable
  <2>4. /\ NextOf(p, b.at) \in L \cup {Nowhere}
        /\ PrevOf(p, b.at) \in L \cup {Nowhere}
    BY <1>4 DEF ListOf
  <2> QED
    BY <2>1, <2>2, <2>3, <2>4
<1> QED
  BY <1>1, <1>4, <1>5 DEF Allocation

LEMMA FreeMMAPSame ==
  ASSUME Inv, SInv, NEW p \in alive, NEW b \in live, FreeMMAP(p, b)
  PROVE  SInv'
<1>1. /\ IsLast(p, b) /\ Lockable(p, header[b.m].next) /\ Lockable(p, header[b.m].prev)
      /\ header' = [Unlinked(p, b) EXCEPT ![b.m].mutex = "destroyed"]
      /\ first' = IF b.at = first THEN Nowhere ELSE first
      /\ view' = [view EXCEPT ![p][b.at] = NoMmap]
      /\ UNCHANGED <<call, alive, together>>
      /\ p \in Procs /\ call[p].pc = "idle"
  BY DEF FreeMMAP, IsLast, Finds, MayFree, Owns, Inv, TypeOK
<1>2. \A q \in Procs, a \in Addresses :
        view'[q][a] = IF q = p /\ a = b.at THEN NoMmap ELSE view[q][a]
  BY <1>1 DEF Inv, TypeOK, Allocation
<1>3. Placed'
  BY <1>2, PlacedKept DEF SInv
<1>4. PublishesAlone'
  BY <1>1, PublishKept DEF SInv, Inv, TypeOK
<1>5. DeadIdle'
  BY <1>1 DEF SInv, DeadIdle
<1>6. ASSUME together PROVE \E L : ListOf(L)'
  <2>1. PICK L : ListOf(L)
    BY <1>6 DEF SInv, OneList
  <2>2. /\ b.at \in L /\ view[p][b.at] = b.m /\ b.m \in Mmaps
        /\ L \subseteq Addresses
    BY <1>1, <2>1, FreeOnList DEF ListOf
  <2>3. CASE b.at = first
    <3>1. first' = Nowhere
      BY <1>1, <2>3
    <3>2. ListOf({})'
      BY <3>1 DEF ListOf
    <3> QED
      BY <3>2
  <2>4. CASE b.at # first
    <3>0. PICK x, m, n, r : /\ x = b.at /\ m = b.m
                            /\ n = header[b.m].next /\ r = header[b.m].prev
      OBVIOUS
    <3>1. /\ x \in L /\ view[p][x] = m /\ m \in Mmaps
          /\ n \in Addresses \cup {Nowhere} /\ r \in Addresses \cup {Nowhere}
          /\ n # Nowhere => Sees(p, n)
          /\ r # Nowhere => Sees(p, r)
      BY <1>1, <2>2, <3>0 DEF Lockable, Inv, TypeOK, Header
    <3>2. ASSUME NEW k \in Mmaps \ {m}
          PROVE  /\ header'[k].prev =
                      IF n # Nowhere /\ k = view[p][n] THEN r ELSE header[k].prev
                 /\ header'[k].next =
                      IF r # Nowhere /\ k = view[p][r] THEN n ELSE header[k].next
                 /\ header'[k].mutex = header[k].mutex
      <4>1. PICK h, g : h = Freed(b) /\ g = Unlinked(p, b)
        OBVIOUS
      <4>2. h \in [Mmaps -> Header]
        BY <4>1, FreeKeeps
      <4>3. h[k].next = header[k].next /\ h[k].prev = header[k].prev /\ h[k].mutex = header[k].mutex
        BY <4>1, FreedFields
      <4>4. g = Relink(Relink(h, p, n, "prev", r), p, r, "next", n)
        BY <3>0, <4>1 DEF Unlinked, NextRelinked
      <4>5. /\ n # Nowhere => view[p][n] \in Mmaps
            /\ r # Nowhere => view[p][r] \in Mmaps
            /\ p \in Procs
        BY <1>1, <3>1 DEF Sees, Inv, TypeOK
      <4>6. /\ g[k].prev = IF n # Nowhere /\ k = view[p][n] THEN r ELSE h[k].prev
            /\ g[k].next = IF r # Nowhere /\ k = view[p][r] THEN n ELSE h[k].next
            /\ g[k].mutex = h[k].mutex
        BY <3>1, <4>2, <4>4, <4>5, RelinkBoth
      <4>7. header'[k] = g[k]
        BY <1>1, <3>0, <4>1
      <4> QED
        BY <4>3, <4>6, <4>7
    <3>3. ASSUME NEW q \in alive, NEW a \in L \ {x}
          PROVE  /\ view'[q][a] = view[p][a] /\ view[q][a] = view[p][a]
                 /\ view[p][a] \in Mmaps \ {m}
                 /\ n # Nowhere => (view[p][a] = view[p][n] <=> a = n)
                 /\ r # Nowhere => (view[p][a] = view[p][r] <=> a = r)
      <4>1. q \in Procs /\ a \in Addresses /\ x \in Addresses /\ p \in Procs
        BY <1>1, <2>2, <3>1 DEF Inv, TypeOK
      <4>2. Sees(p, a) /\ Sees(q, a) /\ view[q][a] = view[p][a]
        BY <2>1 DEF ListOf
      <4>3. view[p][a] # NoMmap /\ view[p][a] \in Mmaps
        BY <4>1, <4>2 DEF Sees, Inv, TypeOK
      <4>4. view'[q][a] = view[q][a]
        BY <1>2, <3>0, <4>1
      <4>5. view[p][a] # m
        BY <3>1, <4>1, <4>3 DEF SInv, Placed
      <4>6. n # Nowhere => (view[p][a] = view[p][n] <=> a = n)
        BY <3>1, <4>1, <4>3 DEF SInv, Placed
      <4>7. r # Nowhere => (view[p][a] = view[p][r] <=> a = r)
        BY <3>1, <4>1, <4>3 DEF SInv, Placed
      <4> QED
        BY <4>2, <4>3, <4>4, <4>5, <4>6, <4>7
    <3>4. ASSUME NEW q \in alive, NEW a \in L \ {x}
          PROVE  /\ PrevOf(q, a)' = IF a = n THEN r ELSE PrevOf(p, a)
                 /\ NextOf(q, a)' = IF a = r THEN n ELSE NextOf(p, a)
                 /\ header'[view'[q][a]].mutex = "usable"
                 /\ Sees(q, a)'
      <4>1. a # Nowhere
        BY <2>2, ProcessesAssumption
      <4>2. header[view[p][a]].mutex = "usable" /\ Sees(p, a)
        BY <2>1 DEF ListOf
      <4>3. view[p][a] \in Mmaps \ {m}
        BY <3>3
      <4> QED
        BY <3>2, <3>3, <4>1, <4>2, <4>3 DEF PrevOf, NextOf, Sees
    <3>5. /\ n # Nowhere => n \in L /\ PrevOf(p, n) = x
          /\ r # Nowhere => r \in L /\ NextOf(p, r) = x
      BY <2>1, <3>0, <3>1 DEF ListOf, NextOf, PrevOf
    <3>5a. NextOf(p, x) = n /\ PrevOf(p, x) = r
      BY <3>0, <3>1 DEF NextOf, PrevOf
    <3>6. ASSUME NEW a \in L \ {x}, NEW q \in alive
          PROVE  /\ NextOf(q, a)' # Nowhere =>
                      NextOf(q, a)' \in L \ {x} /\ PrevOf(q, NextOf(q, a))' = a
                 /\ PrevOf(q, a)' # Nowhere =>
                      PrevOf(q, a)' \in L \ {x} /\ NextOf(q, PrevOf(q, a))' = a
      <4> DEFINE N(e) == IF e = r THEN n ELSE NextOf(p, e)
                 P(e) == IF e = n THEN r ELSE PrevOf(p, e)
      <4>1. /\ NextOf(p, a) # Nowhere => NextOf(p, a) \in L /\ PrevOf(p, NextOf(p, a)) = a
            /\ PrevOf(p, a) # Nowhere => PrevOf(p, a) \in L /\ NextOf(p, PrevOf(p, a)) = a
        BY <2>1 DEF ListOf
      <4>2. a # Nowhere
        BY <2>2, ProcessesAssumption
      <4>3. /\ N(a) # Nowhere => N(a) \in L \ {x} /\ P(N(a)) = a
            /\ P(a) # Nowhere => P(a) \in L \ {x} /\ N(P(a)) = a
        BY <3>5, <3>5a, <4>1, <4>2
      <4>4. NextOf(q, a)' = N(a) /\ PrevOf(q, a)' = P(a)
        BY <3>4
      <4>5. ASSUME NEW e \in L \ {x} PROVE PrevOf(q, e)' = P(e) /\ NextOf(q, e)' = N(e)
        BY <3>4
      <4> HIDE DEF N, P
      <4> QED
        BY <4>3, <4>4, <4>5 DEF NextOf, PrevOf
    <3>7. first' \in (L \ {x}) \cup {Nowhere} /\ first' = first
      BY <1>1, <2>1, <2>4, <3>0 DEF ListOf
    <3>8. ASSUME NEW q \in alive, first # Nowhere PROVE PrevOf(q, first)' = Nowhere
      <4>1. PrevOf(p, first) = Nowhere
        BY <2>1, <3>8 DEF ListOf
      <4>2. first # n
        BY <2>2, <3>1, <3>5, <3>8, <4>1, ProcessesAssumption
      <4>3. first \in L \ {x}
        BY <3>7, <3>8
      <4>4. PICK f : f = first /\ f = first'
        BY <3>7
      <4>5. PrevOf(q, f)' = PrevOf(p, f)
        BY <3>4, <4>2, <4>3, <4>4
      <4> QED
        BY <4>1, <4>4, <4>5 DEF PrevOf
    <3>9. \A q, s \in alive, a \in L \ {x} : view'[s][a] = view'[q][a]
      BY <3>3
    <3>10. ListOf(L \ {x})'
      BY <1>1, <2>2, <3>4, <3>6, <3>7, <3>8, <3>9 DEF ListOf
    <3> QED
      BY <3>10
  <2> QED
    BY <2>3, <2>4
<1>7. OneList'
  BY <1>1, <1>6 DEF OneList
<1> QED
  BY <1>3, <1>4, <1>5, <1>7 DEF SInv

(* The last MMAP of a list that has been gone through to its end.          *)
LEMMA LastOnList ==
  ASSUME Inv, NEW L, ListOf(L), NEW p \in alive,
         Stops(p, Serving(p)) # {}, Found(p, Serving(p)) = Nowhere
  PROVE  \/ Last(p) = Nowhere /\ first = Nowhere
         \/ Last(p) \in L /\ NextOf(p, Last(p)) = Nowhere
<1>0. PICK W : W = Walk(p)
  OBVIOUS
<1>1. /\ DOMAIN W = 0 .. Cardinality(Addresses) /\ Cardinality(Addresses) \in Nat
      /\ \A i \in DOMAIN W :
           /\ W[i] \in L \cup {Nowhere}
           /\ i # 0 /\ W[i - 1] \in L => NextOf(p, W[i - 1]) = W[i]
      /\ W[0] = first
  <2>1. Walk(p)[0] = first
    BY WalkGoes DEF Inv, TypeOK
  <2> QED
    BY <1>0, <2>1, WalkOnList
<1>2. PICK j \in DOMAIN W : W[j] = Nowhere
  <2>1. PICK j \in Stops(p, Serving(p)) : j = Min(Stops(p, Serving(p)))
    BY StopsFirst
  <2> QED
    BY <1>0, <2>1 DEF Found, Stops
<1>3. Stops(p, {}) = {i \in DOMAIN W : ~Sees(p, W[i])}
  BY <1>0 DEF Stops
<1>4. j \in Stops(p, {})
  BY <1>2, <1>3 DEF Sees
<1>5. PICK end \in Stops(p, {}) :
        end = Min(Stops(p, {})) /\ \A i \in Stops(p, {}) : end <= i
  BY <1>4, StopsFirst
<1>6. end \in DOMAIN W /\ W[end] = Nowhere
  BY <1>1, <1>3, <1>5 DEF ListOf
<1>7. Last(p) = IF end = 0 THEN Nowhere ELSE W[end - 1]
  BY <1>0, <1>5 DEF Last
<1>8. CASE end = 0
  BY <1>1, <1>6, <1>7, <1>8
<1>9. CASE end # 0
  <2>1. end - 1 \in DOMAIN W /\ ~(end <= end - 1)
    BY <1>1, <1>6, <1>9
  <2>2. Sees(p, W[end - 1])
    BY <1>3, <1>5, <2>1
  <2>3. W[end - 1] \in L
    BY <1>1, <2>1, <2>2 DEF Sees
  <2> QED
    BY <1>1, <1>6, <1>7, <1>9, <2>3
<1> QED
  BY <1>8, <1>9

LEMMA NewMmapSame ==
  ASSUME Inv, SInv, NEW p \in alive, TakeFromNewMmap(p)
  PROVE  SInv'
<1>1. PICK a, m, last :
        /\ a \in Addresses /\ m \in Mmaps /\ last \in Addresses \cup {Nowhere}
        /\ last = Last(p)
        /\ last # Nowhere => Sees(p, last)
        /\ Maps(p, a, m)
        /\ Take(p, a, m, Relink([header EXCEPT ![m] = Fresh(last)], p, last, "next", a))
  BY DEF TakeFromNewMmap
<1>2. /\ p \in Procs /\ first' = first /\ alive' = alive
      /\ (together' => together /\ alive = {p})
      /\ Stops(p, Serving(p)) # {} /\ Found(p, Serving(p)) = Nowhere
      /\ m # NoMmap /\ a # Nowhere
  BY <1>1, ProcessesAssumption DEF TakeFromNewMmap, Searches, Maps, Inv, TypeOK
<1>3. PICK h, g : /\ h = [header EXCEPT ![m] = Fresh(last)]
                  /\ g = Relink(h, p, last, "next", a)
  OBVIOUS
<1>4. h \in [Mmaps -> Header]
  BY <1>1, <1>3 DEF Fresh, Header, Inv, TypeOK
<1>5. last # Nowhere => view[p][last] \in Mmaps \ {m}
  BY <1>1, <1>2 DEF Sees, Maps, Unmapped, Inv, TypeOK
<1>6. g \in [Mmaps -> Header]
  <2>1. TypeOK
    BY DEF Inv
  <2>2. /\ p \in Procs /\ last \in Addresses \cup {Nowhere} /\ a \in Addresses \cup {Nowhere}
        /\ last # Nowhere => Sees(p, last)
    BY <1>1, <1>2
  <2>3. Relink(h, p, last, "next", a) \in [Mmaps -> Header]
    BY <1>4, <2>1, <2>2, RelinkKeeps
  <2> QED
    BY <1>3, <2>3
<1>7. \A k \in Mmaps :
        /\ g[k].prev = h[k].prev /\ g[k].mutex = h[k].mutex
        /\ g[k].next = IF last # Nowhere /\ k = view[p][last] THEN a ELSE h[k].next
  <2>1. g = Relink(h, p, last, "next", a)
    BY <1>3
  <2>2. last # Nowhere => view[p][last] \in Mmaps
    BY <1>5
  <2> QED
    BY ONLY <1>4, <2>1, <2>2, RelinkNext
<1>8. /\ \A k \in Mmaps : /\ header'[k].next = g[k].next
                          /\ header'[k].prev = g[k].prev
                          /\ header'[k].mutex = g[k].mutex
      /\ Return(p)
  <2> m \in Mmaps
    BY <1>1
  <2> QED
    BY <1>1, <1>3, <1>6, TakeFields
<1>9. /\ Placed' /\ view'[p][a] = m
      /\ \A q \in Procs, b \in Addresses :
           <<q, b>> # <<p, a>> => view'[q][b] = view[q][b] /\ view[q][b] # m
  BY <1>1, <1>2, MapPlaced DEF SInv
<1>10. \A q \in alive : q # p => call'[q] = call[q]
  BY <1>8 DEF Return, Inv, TypeOK
<1>11. PublishesAlone'
  <2>1. call'[p].pc # "publish"
    BY <1>2, <1>8 DEF Return, Idle, Inv, TypeOK
  <2> QED
    BY <1>2, <1>10, <2>1, PublishKept DEF SInv
<1>12. DeadIdle'
  BY <1>2, <1>8 DEF SInv, DeadIdle, Return, Inv, TypeOK
<1>13. ASSUME together' PROVE \E L : ListOf(L)'
  <2>1. PICK L : ListOf(L)
    BY <1>2, <1>13 DEF SInv, OneList
  <2>2. L \subseteq Addresses /\ alive = {p} /\ first \in L \cup {Nowhere}
    BY <1>2, <1>13, <2>1 DEF ListOf
  <2>3. CASE last = Nowhere /\ first = Nowhere
    <3>1. ListOf({})'
      BY <1>2, <2>3 DEF ListOf
    <3> QED
      BY <3>1
  <2>4. CASE last \in L /\ NextOf(p, last) = Nowhere
    <3>1. last # Nowhere
      BY <2>2, <2>4, ProcessesAssumption
    <3>2. header'[m].next = Nowhere /\ header'[m].prev = last /\ header'[m].mutex = "usable"
      <4>1. h[m] = Fresh(last)
        BY <1>1, <1>3 DEF Inv, TypeOK
      <4> QED
        BY <1>1, <1>5, <1>7, <1>8, <3>1, <4>1 DEF Fresh
    <3>3. ASSUME NEW k \in Mmaps \ {m}
          PROVE  /\ header'[k].prev = header[k].prev /\ header'[k].mutex = header[k].mutex
                 /\ header'[k].next = IF k = view[p][last] THEN a ELSE header[k].next
      <4>1. h[k] = header[k]
        BY <1>1, <1>3 DEF Inv, TypeOK
      <4> QED
        BY <1>7, <1>8, <3>1, <4>1
    <3>4. a \notin L
      BY <1>1, <2>1 DEF ListOf, Sees, Maps
    <3>5. ASSUME NEW e \in L
          PROVE  /\ view'[p][e] = view[p][e] /\ view[p][e] \in Mmaps \ {m}
                 /\ view[p][e] = view[p][last] <=> e = last
      <4>1. e \in Addresses /\ e # a /\ Sees(p, e)
        BY <2>1, <2>2, <3>4 DEF ListOf
      <4>2. view'[p][e] = view[p][e] /\ view[p][e] # m
        BY <1>2, <1>9, <4>1
      <4>3. view[p][e] \in Mmaps /\ view[p][e] # NoMmap
        BY <1>2, <4>1 DEF Sees, Inv, TypeOK
      <4>4. view[p][e] = view[p][last] => e = last
        BY <1>2, <2>2, <2>4, <4>1, <4>3 DEF SInv, Placed
      <4> QED
        BY <4>2, <4>3, <4>4
    <3>6. ASSUME NEW e \in L
          PROVE  /\ PrevOf(p, e)' = PrevOf(p, e)
                 /\ NextOf(p, e)' = IF e = last THEN a ELSE NextOf(p, e)
                 /\ header'[view'[p][e]].mutex = "usable"
                 /\ Sees(p, e)'
      <4>1. header[view[p][e]].mutex = "usable" /\ Sees(p, e)
        BY <2>1 DEF ListOf
      <4>2. /\ header'[view[p][e]].prev = header[view[p][e]].prev
            /\ header'[view[p][e]].mutex = "usable"
            /\ header'[view[p][e]].next = IF e = last THEN a ELSE header[view[p][e]].next
        BY <3>3, <3>5, <4>1
      <4> QED
        BY <3>5, <4>1, <4>2 DEF PrevOf, NextOf, Sees
    <3>7. /\ PrevOf(p, a)' = last /\ NextOf(p, a)' = Nowhere
          /\ header'[view'[p][a]].mutex = "usable" /\ Sees(p, a)'
      BY <1>2, <1>9, <3>2 DEF PrevOf, NextOf, Sees
    <3>8. ASSUME NEW e \in L \cup {a}
          PROVE  /\ NextOf(p, e)' # Nowhere =>
                      NextOf(p, e)' \in L \cup {a} /\ PrevOf(p, NextOf(p, e))' = e
                 /\ PrevOf(p, e)' # Nowhere =>
                      PrevOf(p, e)' \in L \cup {a} /\ NextOf(p, PrevOf(p, e))' = e
      <4> DEFINE N(x) == IF x = a THEN Nowhere ELSE IF x = last THEN a ELSE NextOf(p, x)
                 P(x) == IF x = a THEN last ELSE PrevOf(p, x)
      <4>1. /\ NextOf(p, e) # Nowhere /\ e # a =>
                 NextOf(p, e) \in L /\ PrevOf(p, NextOf(p, e)) = e
            /\ PrevOf(p, e) # Nowhere /\ e # a =>
                 PrevOf(p, e) \in L /\ NextOf(p, PrevOf(p, e)) = e
        BY <2>1 DEF ListOf
      <4>2. e # Nowhere
        BY <1>2, <2>2, ProcessesAssumption
      <4>3. /\ N(e) # Nowhere => N(e) \in L \cup {a} /\ P(N(e)) = e
            /\ P(e) # Nowhere => P(e) \in L \cup {a} /\ N(P(e)) = e
        BY <2>4, <3>4, <4>1, <4>2
      <4>4. \A x \in L \cup {a} : NextOf(p, x)' = N(x) /\ PrevOf(p, x)' = P(x)
        <5> SUFFICES ASSUME NEW x \in L \cup {a}
                     PROVE  NextOf(p, x)' = N(x) /\ PrevOf(p, x)' = P(x)
          OBVIOUS
        <5>1. CASE x = a
          BY <3>7, <5>1
        <5>2. CASE x # a
          BY <3>6, <5>2
        <5> QED
          BY <5>1, <5>2
      <4> HIDE DEF N, P
      <4> QED
        BY <4>3, <4>4 DEF NextOf, PrevOf
    <3>9. first' # Nowhere => PrevOf(p, first)' = Nowhere
      <4>1. PICK f : f = first /\ f = first'
        BY <1>2
      <4>2. f # Nowhere => f \in L /\ PrevOf(p, f) = Nowhere
        BY <2>1, <2>2, <4>1 DEF ListOf
      <4>3. f # Nowhere => PrevOf(p, f)' = Nowhere
        BY <3>6, <4>2
      <4> QED
        BY <4>1, <4>3 DEF PrevOf
    <3>10. \A e \in L \cup {a} : Sees(p, e)' /\ header'[view'[p][e]].mutex = "usable"
      BY <3>6, <3>7
    <3>11. ListOf(L \cup {a})'
      BY <1>1, <1>2, <2>2, <3>8, <3>9, <3>10 DEF ListOf
    <3> QED
      BY <3>11
  <2> QED
    BY <1>1, <1>2, <2>1, <2>3, <2>4, LastOnList
<1>14. OneList'
  BY <1>13 DEF OneList
<1> QED
  BY <1>9, <1>11, <1>12, <1>14 DEF SInv

(* A free that stops at a neighbour: not as long as all see one list.      *)
LEMMA FreeStopsSame ==
  ASSUME Inv, SInv, NEW p \in alive, NEW b \in live, FreeStops(p, b)
  PROVE  SInv'
<1>1. together' = together /\ IsLast(p, b)
  BY DEF FreeStops, Fault, Ends
<1>2. ~together
  <2> SUFFICES ASSUME together PROVE FALSE
    OBVIOUS
  <2>1. PICK L : ListOf(L)
    BY DEF SInv, OneList
  <2>2. Lockable(p, header[b.m].next) /\ Lockable(p, header[b.m].prev)
    BY <1>1, <2>1, FreeOnList
  <2> QED
    BY <2>2 DEF FreeStops
<1>3. \/ UNCHANGED <<view, call, alive>>
      \/ Ends(p)
  BY DEF FreeStops, Fault
<1>4. Placed'
  <2>1. CASE UNCHANGED view
    BY <2>1 DEF SInv, Placed
  <2>2. CASE Ends(p)
    <3>1. \A q \in Procs, a \in Addresses : view'[q][a] = NoMmap \/ view'[q][a] = view[q][a]
      BY <2>2 DEF Ends, Inv, TypeOK, NoMappings
    <3> QED
      BY <3>1, PlacedKept DEF SInv
  <2> QED
    BY <1>3, <2>1, <2>2
<1>5. DeadIdle'
  BY <1>3 DEF SInv, DeadIdle, Ends, Return, Inv, TypeOK
<1> QED
  BY <1>1, <1>2, <1>4, <1>5 DEF SInv, OneList, PublishesAlone

LEMMA TakeFromListSame ==
  ASSUME Inv, SInv, NEW p \in alive, TakeFromList(p)
  PROVE  SInv'
<1>1. PICK a \in Serving(p) : Take(p, a, view[p][a], header)
  BY DEF TakeFromList
<1>2. UNCHANGED <<first, view, alive, together>> /\ p \in Procs
  BY DEF TakeFromList, Inv, TypeOK
<1>3. view[p][a] \in Mmaps
  BY <1>2 DEF Serving, Sees, Inv, TypeOK
<1>4. /\ \A k \in Mmaps : /\ header'[k].next = header[k].next
                          /\ header'[k].prev = header[k].prev
                          /\ header'[k].mutex = header[k].mutex
      /\ Return(p)
  BY <1>1, <1>3, TakeFields DEF Inv, TypeOK
<1>5. /\ \A q \in Procs \ {p} : call'[q] = call[q]
      /\ call'[p].pc # "publish"
  BY <1>2, <1>4 DEF Return, Idle, Inv, TypeOK
<1> QED
  BY <1>2, <1>4, <1>5, QuietSame

LEMMA NextSame ==
  ASSUME Inv, SInv, NEW p \in alive, Step(p)
  PROVE  SInv'
<1>0. p \in Procs
  BY DEF Inv, TypeOK
<1>1. CASE Malloc(p) \/ Refused(p) \/ Circles(p)
  <2>1. UNCHANGED <<first, header, view, alive, together>>
    BY <1>1 DEF Malloc, Refused, Circles
  <2>2. /\ \A q \in Procs \ {p} : call'[q] = call[q]
        /\ call'[p].pc # "publish"
    BY <1>0, <1>1 DEF Malloc, Refused, Circles, Return, Idle, Inv, TypeOK, Call
  <2> QED
    BY <2>1, <2>2, QuietSame
<1>2. CASE \/ MallocFaults(p) \/ SearchFaults(p) \/ Crash(p)
           \/ ExitChild(p) \/ ExitMaster(p) \/ \E b \in live : FreeFaults(p, b)
  <2>1. Ends(p) /\ UNCHANGED <<first, header>>
    BY <1>2 DEF MallocFaults, SearchFaults, Crash, ExitChild, ExitMaster, FreeFaults, Fault
  <2> QED
    BY <2>1, EndSame
<1>3. CASE MapFirst(p)
  BY <1>3, MapFirstSame
<1>4. CASE Publish(p)
  BY <1>4, PublishSame
<1>5. CASE TakeFromList(p)
  BY <1>5, TakeFromListSame
<1>6. CASE TakeFromNewMmap(p)
  BY <1>6, NewMmapSame
<1>7. ASSUME NEW b \in live, FreeRefused(p, b) \/ FreeBlock(p, b)
      PROVE  SInv'
  <2>1. UNCHANGED <<first, view, call, alive, together>> /\ call[p].pc = "idle"
    BY <1>7 DEF FreeRefused, FreeBlock, Finds, MayFree, Owns
  <2>2. \A k \in Mmaps : /\ header'[k].next = header[k].next
                         /\ header'[k].prev = header[k].prev
                         /\ header'[k].mutex = header[k].mutex
    <3>1. header' = header \/ header' = Freed(b)
      BY <1>7 DEF FreeRefused, FreeBlock
    <3> QED
      BY <3>1, FreedFields
  <2> QED
    BY <2>1, <2>2, QuietSame
<1>8. ASSUME NEW b \in live, FreeStops(p, b) PROVE SInv'
  BY <1>8, FreeStopsSame
<1>9. ASSUME NEW b \in live, FreeMMAP(p, b) PROVE SInv'
  BY <1>9, FreeMMAPSame
<1>10. ASSUME NEW child \in Procs, Fork(p, child) PROVE SInv'
  BY <1>10, ForkSame
<1> QED
  BY <1>1, <1>2, <1>3, <1>4, <1>5, <1>6, <1>7, <1>8, <1>9, <1>10 DEF Step

LEMMA InitSame == Init => SInv
<1> SUFFICES ASSUME Init PROVE SInv
  OBVIOUS
<1>1. ListOf({})
  BY DEF Init, ListOf
<1>2. OneList
  BY <1>1 DEF OneList
<1> QED
  BY <1>2, ProcessesAssumption DEF Init, SInv, Placed, PublishesAlone, DeadIdle, NoMappings, Idle

LEMMA StepSame == SInv /\ Inv /\ [Next]_vars => SInv'
<1> SUFFICES ASSUME SInv, Inv, [Next]_vars PROVE SInv'
  OBVIOUS
<1>1. CASE Next
  BY <1>1, NextSame DEF Next
<1>2. CASE UNCHANGED vars
  <2>1. UNCHANGED <<together, alive, first, view, header, call>>
    BY <1>2 DEF vars
  <2>2. OneList'
    <3> SUFFICES ASSUME together PROVE \E L : ListOf(L)'
      BY <2>1 DEF OneList
    <3>1. PICK L : ListOf(L)
      BY DEF SInv, OneList
    <3>2. \A q, a : /\ NextOf(q, a)' = NextOf(q, a) /\ PrevOf(q, a)' = PrevOf(q, a)
                    /\ Sees(q, a)' <=> Sees(q, a)
      BY <2>1 DEF PrevOf, NextOf, Sees
    <3>3. ListOf(L)'
      BY <2>1, <3>1, <3>2 DEF ListOf
    <3> QED
      BY <3>3
  <2>3. Placed' /\ DeadIdle'
    BY <2>1 DEF SInv, Placed, DeadIdle
  <2>4. PublishesAlone'
    BY <2>1 DEF SInv, PublishesAlone, Sees
  <2> QED
    BY <2>2, <2>3, <2>4 DEF SInv
<1> QED
  BY <1>1, <1>2

(* As long as MMAPs are mapped only by a process that runs alone, the list *)
(* of one process is the list of all, its links agree both ways and every  *)
(* MMAP on it is mapped and can be locked (vgc_malloc and vgc_free after   *)
(* fork).                                                                  *)
THEOREM ListIsShared == Spec => []SameList
  BY InitInv, InitSame, NextInv, StepSame, SameFromList, PTL DEF Spec

--------------------------------------------------------------------------------
(* Pointers that processes hand on to each other.                          *)

(* A step that gives no block, starts no process and leaves what is mapped *)
(* at the addresses of the blocks that stay in use.                        *)
LEMMA PointersKept ==
  ASSUME PointersShared, together' => together, live' \subseteq live, alive' \subseteq alive,
         \A b \in live', q \in alive' : view'[q][b.at] = view[q][b.at]
  PROVE  PointersShared'
  BY DEF PointersShared

LEMMA EndPointers ==
  ASSUME Inv, PointersShared, NEW p \in alive, Ends(p)
  PROVE  PointersShared'
<1>1. /\ live' \subseteq live /\ alive' = alive \ {p} /\ together' = together
      /\ \A q \in alive \ {p} : view'[q] = view[q]
  BY DEF Ends, Inv, TypeOK
<1> QED
  BY <1>1, PointersKept

(* An MMAP is found on the list, and all see it there.                     *)
LEMMA TakePointers ==
  ASSUME Inv, SInv, PointersShared, NEW p \in alive, TakeFromList(p)
  PROVE  PointersShared'
<1>1. PICK a \in Serving(p) :
        a = Found(p, Serving(p)) /\ Take(p, a, view[p][a], header)
  BY DEF TakeFromList
<1>2. PICK n : live' = live \cup {[owner |-> p, at |-> a, m |-> view[p][a], n |-> n]}
  BY <1>1 DEF Take
<1>3. UNCHANGED <<view, alive, together>> /\ Stops(p, Serving(p)) # {}
  BY DEF TakeFromList, Searches
<1>4. ASSUME together, NEW q \in alive PROVE view[q][a] = view[p][a]
  <2>1. PICK j \in DOMAIN Walk(p) : Walk(p)[j] = a
    BY <1>1, <1>3, StopsFirst DEF Found, Stops
  <2>2. a # Nowhere
    BY <1>1 DEF Serving, Sees
  <2>3. SameList
    BY SameFromList
  <2> QED
    BY <1>4, <2>1, <2>2, <2>3 DEF SameList
<1>5. ASSUME together, NEW b \in live', NEW q \in alive PROVE view[q][b.at] = b.m
  <2>1. CASE b \in live
    BY <1>5, <2>1 DEF PointersShared
  <2>2. CASE b = [owner |-> p, at |-> a, m |-> view[p][a], n |-> n]
    BY <1>4, <1>5, <2>2
  <2> QED
    BY <1>2, <1>5, <2>1, <2>2
<1> QED
  BY <1>3, <1>5 DEF PointersShared

(* The MMAP that is unmapped had no other block, so that no pointer in use *)
(* leads there.                                                            *)
LEMMA FreePointers ==
  ASSUME Inv, PointersShared, NEW p \in alive, NEW b \in live, FreeMMAP(p, b)
  PROVE  PointersShared'
<1>1. /\ view' = [view EXCEPT ![p][b.at] = NoMmap] /\ live' = live \ {b}
      /\ UNCHANGED <<alive, together>>
      /\ Freed(b)[b.m].busy = {}
  BY DEF FreeMMAP, IsLast
<1>2. p \in Procs /\ b \in Allocation /\ live \subseteq Allocation
  BY DEF Inv, TypeOK
<1>3. header[b.m].busy \ {b.n} = {}
  <2>1. Freed(b)[b.m].busy = header[b.m].busy \ {b.n}
    BY <1>2 DEF Freed, Allocation, Inv, TypeOK, Header
  <2> QED
    BY <1>1, <2>1
<1>4. ASSUME NEW c \in live, c # b PROVE c.m # b.m
  <2>1. c.n \in header[c.m].busy /\ <<c.m, c.n>> # <<b.m, b.n>>
    BY <1>4 DEF Inv, StillBacked, NotShared
  <2> QED
    BY <1>3, <2>1
<1>5. ASSUME together, NEW c \in live', NEW q \in alive PROVE view'[q][c.at] = view[q][c.at]
  <2>1. c \in live /\ c # b
    BY <1>1
  <2>2. view[p][c.at] = c.m /\ view[p][b.at] = b.m
    BY <1>5, <2>1 DEF PointersShared
  <2>3. c.at # b.at
    BY <1>4, <2>1, <2>2
  <2>4. q \in Procs /\ c.at \in Addresses /\ b.at \in Addresses
    BY <1>2, <2>1 DEF Allocation, Inv, TypeOK
  <2> QED
    BY <1>1, <1>2, <2>3, <2>4 DEF Inv, TypeOK
<1> QED
  BY <1>1, <1>5 DEF PointersShared

LEMMA ForkPointers ==
  ASSUME Inv, PointersShared, NEW p \in alive, NEW child \in Procs, Fork(p, child)
  PROVE  PointersShared'
<1>1. /\ alive' = alive \cup {child} /\ UNCHANGED <<live, together>>
      /\ view'[child] = view[p]
      /\ \A q \in alive \ {child} : view'[q] = view[q]
  BY DEF Fork, Inv, TypeOK
<1> QED
  BY <1>1 DEF PointersShared

LEMMA StepPointers ==
  ASSUME Inv, SInv, Inv', PointersShared, NEW p \in alive, Step(p)
  PROVE  PointersShared'
<1>1. CASE \/ Malloc(p) \/ Publish(p) \/ Refused(p) \/ Circles(p)
           \/ \E b \in live : FreeRefused(p, b) \/ FreeBlock(p, b)
  <2>1. live' \subseteq live /\ UNCHANGED <<view, alive, together>>
    BY <1>1 DEF Malloc, Publish, Refused, Circles, FreeRefused, FreeBlock
  <2> QED
    BY <2>1, PointersKept
<1>2. CASE \/ MallocFaults(p) \/ SearchFaults(p) \/ Crash(p)
           \/ ExitChild(p) \/ ExitMaster(p) \/ \E b \in live : FreeFaults(p, b)
  <2>1. Ends(p)
    BY <1>2 DEF MallocFaults, SearchFaults, Crash, ExitChild, ExitMaster, FreeFaults, Fault
  <2> QED
    BY <2>1, EndPointers
<1>3. CASE MapFirst(p) \/ TakeFromNewMmap(p)
  <2>1. (together' => alive = {p}) /\ alive' = alive
    BY <1>3 DEF MapFirst, TakeFromNewMmap, Maps
  <2>2. CASE alive = {p}
    <3>1. OwnersRun' /\ StillBacked'
      BY DEF Inv
    <3> QED
      BY <2>1, <2>2, <3>1 DEF OwnersRun, StillBacked, PointersShared
  <2>3. CASE ~together'
    BY <2>3 DEF PointersShared
  <2> QED
    BY <2>1, <2>2, <2>3
<1>4. CASE TakeFromList(p)
  BY <1>4, TakePointers
<1>5. ASSUME NEW b \in live, FreeStops(p, b) PROVE PointersShared'
  <2>1. \/ live' \subseteq live /\ UNCHANGED <<view, alive, together>>
        \/ Ends(p)
    BY <1>5 DEF FreeStops, Fault
  <2> QED
    BY <2>1, PointersKept, EndPointers
<1>6. ASSUME NEW b \in live, FreeMMAP(p, b) PROVE PointersShared'
  BY <1>6, FreePointers
<1>7. ASSUME NEW child \in Procs, Fork(p, child) PROVE PointersShared'
  BY <1>7, ForkPointers
<1> QED
  BY <1>1, <1>2, <1>3, <1>4, <1>5, <1>6, <1>7 DEF Step

(* A pointer into a block in use means the same memory to all processes    *)
(* that run, for any number of them, as long as MMAPs are only mapped by a *)
(* process that runs alone (vgc_malloc, vgc_free and fork).                *)
THEOREM PointersMeanTheSame == Spec => []PointersShared
<1>1. Init => PointersShared
  BY DEF Init, PointersShared
<1>2. PointersShared /\ SInv /\ Inv /\ Inv' /\ [Next]_vars => PointersShared'
  <2> SUFFICES ASSUME PointersShared, SInv, Inv, Inv', [Next]_vars PROVE PointersShared'
    OBVIOUS
  <2>1. CASE Next
    BY <2>1, StepPointers DEF Next
  <2>2. CASE UNCHANGED vars
    BY <2>2, PointersKept DEF vars
  <2> QED
    BY <2>1, <2>2
<1>3. SInv /\ Inv /\ [Next]_vars => SInv'
  BY StepSame
<1> QED
  BY <1>1, <1>2, <1>3, InitInv, InitSame, NextInv, PTL DEF Spec
================================================================================
