------------------------------ MODULE MprotectMP ------------------------------
(***************************************************************************)
(* The distribution of guard pages among processes: src/src/vgc_mprotect.c *)
(* and src/src/vgc_mprotect_mp.c over src/src/vgc_network.c, in the build  *)
(* with VGC_MALLOC_MPROTECT_MP.                                            *)
(*                                                                         *)
(* Every process runs a client thread, which makes the calls of the        *)
(* allocator under the shared mutex, and once it has registered in         *)
(* shared->children a server thread (manageCorruptionThread).  A change of *)
(* a guard page is made locally and then sent to each registered process,  *)
(* whose server makes the change in turn, by the same function.  The table *)
(* of children is read and written without a lock.                         *)
(*                                                                         *)
(* Descriptors survive fork: `holders` of a socket are the processes that  *)
(* have one of its descriptors open.  The end of a connection is seen when *)
(* the last of them is closed.                                             *)
(***************************************************************************)
EXTENDS Naturals, FiniteSets, Sequences

CONSTANTS
  Procs,          \* processes; identifiers are not used again
  Master,         \* the one that loads the library
  NoProc,         \* pid 0
  NoName,         \* the empty socketName
  Destroyed,      \* the mutex after mallocCleanup
  Headers,        \* block headers whose guard page changes
  NoHeader,
  maxProcesses,   \* slots of shared->children
  Backlog,        \* what manageCorruptionThread passes to do_listen
  Crashing,       \* processes that may crash or exit without a word
  Leaving,        \* processes that may end as the library means them to
  Failures,       \* "socket", "thread", "mprotect": what the system may refuse
  ForeignThread   \* what comes of cancelling and joining a thread of another
                  \* process: "gone", "own", "hang" or "fault"

ASSUME ProcessAssumption ==
  /\ Master \in Procs /\ NoProc \notin Procs /\ NoName \notin Procs /\ NoName # NoProc
  /\ Destroyed \notin Procs \cup {NoProc}
  /\ NoHeader \notin Headers
  /\ maxProcesses \in Nat \ {0} /\ Backlog \in Nat

Slots    == 1 .. maxProcesses
NoSlot   == 0
Roles    == {"client", "server", "father"}
Threads  == Procs \X Roles
NoThread == <<NoProc, "client">>
Names    == Procs \cup {NoProc, NoName}

VARIABLES
  proc,      \* "absent", "up", or what ended the process
  started,   \* processes that have called startChildMprotect
  children,  \* shared->children
  isFather,  \* shared->isFather
  sock,      \* the files in /tmp/vgc-malloc: the thread each is bound by
  holders,   \* of each thread's listening socket
  backlog,   \* connections not yet accepted
  thread,    \* where each thread is
  mutex,     \* the process that holds shared->mutex
  headers,   \* the headers that ought to have a guard page
  visible,   \* headers in MMAPs that the process has mapped
  guard      \* headers whose guard page is PROT_NONE for the process

table  == <<children, isFather, sock>>
memory == <<headers, visible, guard>>
vars   == <<proc, started, table, holders, backlog, thread, mutex, memory>>

--------------------------------------------------------------------------------
\* The message; on = TRUE for PROT_NONE.
MProtectBlock == [header : Headers, on : BOOLEAN, sourcePID : Procs]
NoBlock       == [header |-> NoHeader, on |-> FALSE, sourcePID |-> NoProc]

\* A connection as its server sees it: who made it, the message that has
\* arrived and is not read yet, and who has the client's descriptor open.
Connection == [from : Threads, block : MProtectBlock \cup {NoBlock}, open : SUBSET Procs]
NoConn     == [from |-> NoThread, block |-> NoBlock, open |-> {}]

Thread == [pc       : {"none", "idle", "claim", "father", "claim father", "start", "accept",
                       "serve", "scan", "connect", "write", "read", "answer", "stop", "hung"},
           slot     : Slots \cup {NoSlot},      \* a server's own entry
           pos      : Nat,                      \* loop index over children
           block    : MProtectBlock \cup {NoBlock},
           conn     : Connection \cup {NoConn}, \* the connection a server serves
           peer     : Threads \cup {NoThread},  \* the server connected to
           ends     : SUBSET Procs,             \* who has the descriptor it accepted open
           answered : BOOLEAN]

Gone == [pc |-> "none", slot |-> NoSlot, pos |-> 0, block |-> NoBlock, conn |-> NoConn,
         peer |-> NoThread, ends |-> {}, answered |-> FALSE]
Idle == [Gone EXCEPT !.pc = "idle"]

Client(p) == <<p, "client">>

(* my_init of the master: the table is empty, the master registers itself. *)
Init ==
  /\ proc = [p \in Procs |-> IF p = Master THEN "up" ELSE "absent"]
  /\ started = {Master}
  /\ children = [s \in Slots |-> [pid  |-> IF s = 1 THEN Master ELSE NoProc, name |-> NoName]]
  /\ isFather = FALSE
  /\ sock = [n \in Names |-> NoThread]
  /\ holders = [t \in Threads |-> {}]
  /\ backlog = [t \in Threads |-> <<>>]
  /\ thread = [t \in Threads |->
       IF t = Client(Master) THEN Idle
       ELSE IF t = <<Master, "server">> THEN [Gone EXCEPT !.pc = "start", !.slot = 1]
       ELSE Gone]
  /\ mutex = NoProc
  /\ headers = {}
  /\ visible = [p \in Procs |-> {}]
  /\ guard = [p \in Procs |-> {}]

--------------------------------------------------------------------------------
(* Mutant of RecoverMutex: the mutex is not robust and stays locked. *)
KeepLocked(p) == mutex

(* The mutex is robust: after the owner's death PTHREAD_mutexLock makes it  *)
(* consistent and goes on.                                                 *)
RecoverMutex(p) == IF mutex = p THEN NoProc ELSE mutex

(* The process ends: its descriptors are closed, its memory goes.          *)
Close(p, c) == [c EXCEPT !.open = @ \ {p}]

End(p, how) ==
  /\ proc' = [proc EXCEPT ![p] = how]
  /\ thread' = [t \in Threads |->
       IF t[1] = p THEN Gone
       ELSE [thread[t] EXCEPT !.conn = Close(p, @), !.ends = @ \ {p}]]
  /\ backlog' = [t \in Threads |->
       IF holders[t] \subseteq {p} THEN <<>>
       ELSE [k \in DOMAIN backlog[t] |-> Close(p, backlog[t][k])]]
  /\ holders' = [t \in Threads |-> holders[t] \ {p}]
  /\ mutex' = RecoverMutex(p)
  /\ visible' = [visible EXCEPT ![p] = {}]
  /\ guard' = [guard EXCEPT ![p] = {}]

Crash(p) ==
  /\ p \in Crashing /\ proc[p] = "up"
  /\ End(p, "ended")
  /\ UNCHANGED <<started, table, headers>>

(* fork, by a client that is not in a call: the child has a copy of the    *)
(* memory and of every descriptor, and only the thread that forked.        *)
Inherit(p, q, S) == IF p \in S THEN S \cup {q} ELSE S

Fork(p, q) ==
  /\ thread[Client(p)].pc = "idle" /\ proc[q] = "absent"
  /\ proc' = [proc EXCEPT ![q] = "up"]
  /\ visible' = [visible EXCEPT ![q] = visible[p]]
  /\ guard' = [guard EXCEPT ![q] = guard[p]]
  /\ holders' = [t \in Threads |-> Inherit(p, q, holders[t])]
  /\ backlog' = [t \in Threads |->
       [k \in DOMAIN backlog[t] |-> [backlog[t][k] EXCEPT !.open = Inherit(p, q, @)]]]
  /\ thread' = [t \in Threads |->
       IF t = Client(q) THEN Idle
       ELSE [thread[t] EXCEPT !.conn.open = Inherit(p, q, @), !.ends = Inherit(p, q, @)]]
  /\ UNCHANGED <<started, table, mutex, headers>>

--------------------------------------------------------------------------------
(* Mutants of FindFreeChild: without the first loop a process gets a second *)
(* entry, and with one round too many in the other an entry too far.       *)
FindAnyFree(p) ==
  LET free == {s \in Slots : children[s].pid = NoProc} IN
  IF free = {} THEN NoSlot ELSE CHOOSE s \in free : \A r \in free : s <= r

FindBeyond(p) ==
  LET free == {s \in Slots : children[s].pid = NoProc} \cup {maxProcesses + 1} IN
  CHOOSE s \in free : \A r \in free : s <= r

(* findFreeChild: the first free entry, none for a process that has one.   *)
FindFreeChild(p) ==
  LET free == {s \in Slots : children[s].pid = NoProc} IN
  IF free = {} \/ \E s \in Slots : children[s].pid = p THEN NoSlot
  ELSE CHOOSE s \in free : \A r \in free : s <= r

CountChildren == Cardinality({s \in Slots : children[s].pid # NoProc})

(* startChildMprotect, "at each fork", in steps: the search for an entry,  *)
(* the store of the pid with the start of the thread, the father's case.   *)
StartChild(p) ==
  LET pos == FindFreeChild(p) IN
  /\ thread[Client(p)].pc = "idle" /\ p \notin started
  /\ started' = started \cup {p}
  /\ thread' = [thread EXCEPT ![Client(p)] =
                  IF pos = NoSlot THEN Idle ELSE [Idle EXCEPT !.pc = "claim", !.slot = pos]]
  /\ UNCHANGED <<proc, table, holders, backlog, mutex, memory>>

(* startChildThread, after the store of findFreeChild. *)
Claim(p, role, next) ==
  LET pos == thread[Client(p)].slot IN
  /\ children' = [children EXCEPT ![pos].pid = p]
  /\ \/ thread' = [thread EXCEPT ![<<p, role>>] = [Gone EXCEPT !.pc = "start", !.slot = pos],
                                 ![Client(p)] = next]
     \/ /\ "thread" \in Failures
        /\ thread' = [thread EXCEPT ![Client(p)] = Idle]
  /\ UNCHANGED <<proc, started, isFather, sock, holders, backlog, mutex, memory>>

ClaimSlot(p) ==
  thread[Client(p)].pc = "claim" /\ Claim(p, "server", [Idle EXCEPT !.pc = "father"])

(* "Special case to manage the father": the caller looks for an entry once *)
(* more, and finds none unless another process has overwritten its own.    *)
ManageFather(p) ==
  LET pos == FindFreeChild(p) IN
  /\ thread[Client(p)].pc = "father"
  /\ IF CountChildren > 1 /\ ~isFather
     THEN /\ isFather' = TRUE
          /\ thread' = [thread EXCEPT ![Client(p)] =
               IF pos = NoSlot THEN Idle
               ELSE [Idle EXCEPT !.pc = "claim father", !.slot = pos]]
     ELSE /\ thread' = [thread EXCEPT ![Client(p)] = Idle]
          /\ UNCHANGED isFather
  /\ UNCHANGED <<proc, started, children, sock, holders, backlog, mutex, memory>>

ClaimFather(p) ==
  thread[Client(p)].pc = "claim father" /\ Claim(p, "father", Idle)

(* do_bind fails when the file exists. *)
BindFails(name) == sock[name] # NoThread

(* The thread names the socket after the pid its entry has by then.        *)
StartServer(t) ==
  LET s == thread[t].slot  name == children[s].pid IN
  /\ thread[t].pc = "start"
  /\ children' = [children EXCEPT ![s].name = name]
  /\ IF BindFails(name)
     THEN /\ thread' = [thread EXCEPT ![t] = Gone]
          /\ UNCHANGED <<sock, holders>>
     ELSE /\ thread' = [thread EXCEPT ![t].pc = "accept"]
          /\ sock' = [sock EXCEPT ![name] = t]
          /\ holders' = [holders EXCEPT ![t] = {t[1]}]
  /\ UNCHANGED <<proc, started, isFather, backlog, mutex, memory>>

--------------------------------------------------------------------------------
(* VGC_mprotect and VGC_munprotect: the local change, then                 *)
(* mprotectDistribute from the first entry on.                             *)
Distributing(t, block) ==
  [thread EXCEPT ![t].pc = "scan", ![t].pos = 1, ![t].block = [block EXCEPT !.sourcePID = t[1]]]

(* Mutant of SetGuard: the page is protected whatever is asked. *)
SetAlways(p, block) == guard' = [guard EXCEPT ![p] = @ \cup {block.header}]

SetGuard(p, block) ==
  guard' = [guard EXCEPT ![p] = IF block.on THEN @ \cup {block.header}
                                ELSE @ \ {block.header}]

(* A client changes a guard page under the mutex: that of a new header, in *)
(* an MMAP it has mapped or maps for it, or of one that goes.              *)
Call(p, block) ==
  /\ thread[Client(p)].pc = "idle" /\ mutex = NoProc
  /\ headers' = IF block.on THEN headers \cup {block.header} ELSE headers \ {block.header}
  /\ \/ /\ SetGuard(p, block)
        /\ thread' = Distributing(Client(p), block)
        /\ mutex' = p
     \/ /\ "mprotect" \in Failures
        /\ UNCHANGED <<guard, thread, mutex>>
  /\ UNCHANGED <<proc, started, table, holders, backlog>>

Protect(p, h) ==
  /\ h \notin headers
  /\ h \in visible[p] \/ \A q \in Procs : h \notin visible[q]
  /\ visible' = [visible EXCEPT ![p] = @ \cup {h}]
  /\ Call(p, [header |-> h, on |-> TRUE, sourcePID |-> p])

Unprotect(p, h) ==
  /\ h \in headers \cap visible[p]
  /\ Call(p, [header |-> h, on |-> FALSE, sourcePID |-> p])
  /\ UNCHANGED visible

(* Mutant of Finish: the mutex is not given back. *)
FinishLocked(t, cancelled) ==
  /\ thread' = [q \in Threads |->
       IF q \in cancelled THEN Gone
       ELSE IF q # t THEN thread[q]
       ELSE IF t[2] = "client" THEN Idle
       ELSE [thread[t] EXCEPT !.pc = "answer"]]
  /\ mutex' = mutex

(* mprotectDistribute returns: to vgc_malloc or vgc_free, which unlocks,   *)
(* or to the server, which answers.  Threads may have been cancelled.      *)
Finish(t, cancelled) ==
  /\ thread' = [q \in Threads |->
       IF q \in cancelled THEN Gone
       ELSE IF q # t THEN thread[q]
       ELSE IF t[2] = "client" THEN Idle
       ELSE [thread[t] EXCEPT !.pc = "answer"]]
  /\ mutex' = IF t = Client(mutex) THEN NoProc ELSE mutex

(* The loop over children goes on to the next entry of another process.    *)
Others(t) == {s \in thread[t].pos .. maxProcesses : children[s].pid \notin {NoProc, t[1]}}

Scan(t) ==
  /\ thread[t].pc = "scan"
  /\ IF Others(t) = {} THEN Finish(t, {})
     ELSE /\ \E s \in Others(t) :
               /\ \A r \in Others(t) : s <= r
               /\ thread' = [thread EXCEPT ![t].pc = "connect", ![t].pos = s]
          /\ UNCHANGED mutex
  /\ UNCHANGED <<proc, started, table, holders, backlog, memory>>

(* do_socket fails: the rest of the children is left out. *)
SocketFails(t) ==
  /\ thread[t].pc = "connect"
  /\ "socket" \in Failures
  /\ Finish(t, {})
  /\ UNCHANGED <<proc, started, table, holders, backlog, memory>>

(* do_connect: the file exists and a process has its socket open. *)
CanConnect(name) == sock[name] # NoThread /\ holders[sock[name]] # {}

Connect(t) ==
  LET q == sock[children[thread[t].pos].name] IN
  /\ thread[t].pc = "connect"
  /\ CanConnect(children[thread[t].pos].name)
  /\ Len(backlog[q]) <= Backlog
  /\ backlog' = [backlog EXCEPT ![q] =
                   Append(@, [from |-> t, block |-> NoBlock, open |-> {t[1]}])]
  /\ thread' = [thread EXCEPT ![t].pc = "write", ![t].peer = q]
  /\ UNCHANGED <<proc, started, table, holders, mutex, memory>>

(* removeChildThread of entry s: cancel and join, free the entry, close    *)
(* the number socketFD has, of whatever this process has open under it,    *)
(* unlink.                                                                 *)
FreeEntry(p, s) ==
  /\ children' = [children EXCEPT ![s].pid = NoProc]
  /\ sock' = [sock EXCEPT ![children[s].name] = NoThread]
  /\ \E closed \in SUBSET {t \in Threads : p \in holders[t]} :
       /\ Cardinality(closed) <= 1
       /\ children[s].pid = p => \A t \in closed : t[1] = p
       /\ holders' = [t \in Threads |-> IF t \in closed THEN holders[t] \ {p} ELSE holders[t]]

(* What a cancel and join that return may have done: another process's     *)
(* thread may go by the same handle as the own server.                     *)
Cancelled(p) == {{} : o \in ForeignThread \cap {"gone"}}
                  \cup {{<<p, "server">>} : o \in ForeignThread \cap {"own"}}

(* A child that cannot be reached is removed, and the rest is left out.  A *)
(* thread that cancels itself ends before the file is unlinked.            *)
RemoveChild(t) ==
  LET p == t[1]  s == thread[t].pos IN
  /\ thread[t].pc = "connect"
  /\ ~CanConnect(children[s].name)
  /\ \/ /\ \E cancelled \in Cancelled(p) : t \notin cancelled /\ Finish(t, cancelled)
        /\ FreeEntry(p, s)
        /\ UNCHANGED <<proc, backlog, visible, guard>>
     \/ /\ {t} \in Cancelled(p)
        /\ children' = [children EXCEPT ![s].pid = NoProc]
        /\ thread' = [thread EXCEPT ![t] = Gone]
        /\ UNCHANGED <<proc, sock, holders, backlog, mutex, visible, guard>>
     \/ /\ "hang" \in ForeignThread
        /\ thread' = [thread EXCEPT ![t].pc = "hung"]
        /\ UNCHANGED <<proc, children, sock, holders, backlog, mutex, visible, guard>>
     \/ /\ "fault" \in ForeignThread
        /\ End(p, "fault")
        /\ UNCHANGED <<children, sock>>
  /\ UNCHANGED <<started, isFather, headers>>

(* do_write to a connection nobody has open any more: SIGPIPE, which the   *)
(* library neither catches nor ignores, ends the process.                  *)
WriteEnds(open) == open = {}

(* Whether c is the connection t has at its peer, and who has the other    *)
(* end open: before it is accepted, whoever has the listening socket.      *)
IsFrom(t, c) == c.from = t /\ t[1] \in c.open /\ thread[t].pc \in {"write", "read"}

PeerOpen(t) ==
  LET q == thread[t].peer IN
  IF \E k \in DOMAIN backlog[q] : IsFrom(t, backlog[q][k]) THEN holders[q] ELSE thread[t].ends

AtPeer(t, Change(_)) ==
  /\ backlog' = [q \in Threads |-> [k \in DOMAIN backlog[q] |->
       IF IsFrom(t, backlog[q][k]) THEN Change(backlog[q][k]) ELSE backlog[q][k]]]
  /\ thread' = [q \in Threads |->
       LET seen == IF IsFrom(t, thread[q].conn)
                   THEN [thread[q] EXCEPT !.conn = Change(@)] ELSE thread[q]
       IN  IF q # t THEN seen
           ELSE IF thread[t].pc = "write" THEN [seen EXCEPT !.pc = "read"]
           ELSE [seen EXCEPT !.pc = "scan", !.pos = @ + 1, !.peer = NoThread,
                             !.ends = {}, !.answered = FALSE]]

Write(t) ==
  /\ thread[t].pc = "write"
  /\ IF WriteEnds(PeerOpen(t))
     THEN End(t[1], "sigpipe")
     ELSE /\ LET Sent(c) == [c EXCEPT !.block = thread[t].block] IN AtPeer(t, Sent)
          /\ UNCHANGED <<proc, holders, mutex, visible, guard>>
  /\ UNCHANGED <<started, table, headers>>

(* Mutant of ReadReturns: the answer is not waited for. *)
ReadAtOnce(arrived, open) == TRUE

(* do_read stores a negative result in a size_t, finds it >= 0 and never   *)
(* fails: it waits for the answer or the end of the connection.            *)
ReadReturns(arrived, open) == arrived \/ open = {}

ReadAnswer(t) ==
  /\ thread[t].pc = "read"
  /\ ReadReturns(thread[t].answered, PeerOpen(t))
  /\ LET Closed(c) == Close(t[1], c) IN AtPeer(t, Closed)
  /\ UNCHANGED <<proc, started, table, holders, mutex, memory>>

--------------------------------------------------------------------------------
(* do_accept fails once the process has closed the socket: no more server. *)
Accept(t) ==
  /\ thread[t].pc = "accept"
  /\ IF t[1] \notin holders[t]
     THEN thread' = [thread EXCEPT ![t] = Gone] /\ UNCHANGED backlog
     ELSE LET c == Head(backlog[t]) IN
          /\ backlog[t] # <<>>
          /\ backlog' = [backlog EXCEPT ![t] = Tail(@)]
          /\ thread' = [q \in Threads |->
               IF q = t THEN [thread[t] EXCEPT !.pc = "serve", !.conn = c]
               ELSE IF IsFrom(q, c) THEN [thread[q] EXCEPT !.ends = {t[1]}]
               ELSE thread[q]]
  /\ UNCHANGED <<proc, started, table, holders, mutex, memory>>

(* The server closes the connection and accepts the next one. *)
HangUp(t) ==
  thread' = [q \in Threads |->
    IF q = t THEN [thread[t] EXCEPT !.pc = "accept", !.conn = NoConn]
    ELSE IF IsFrom(q, thread[t].conn) THEN [thread[q] EXCEPT !.ends = @ \ {t[1]}]
    ELSE thread[q]]

(* A message is read.  At the end of the connection do_read returns 0      *)
(* bytes at once, again and again: the loop never ends and the thread is   *)
(* left where it is.                                                       *)
Handle(t) ==
  LET block == thread[t].conn.block  p == t[1] IN
  /\ thread[t].pc = "serve"
  /\ block # NoBlock
  /\ children[thread[t].slot].pid # block.sourcePID
  /\ block.header \in visible[p]
  /\ SetGuard(p, block)
  /\ thread' = [Distributing(t, block) EXCEPT ![t].conn.block = NoBlock]
  /\ UNCHANGED <<proc, started, table, holders, backlog, mutex, headers, visible>>

(* A message that comes from the entry's own pid, or that mprotect fails   *)
(* on: the MMAP is not mapped here, or the system refuses.                 *)
Refuse(t) ==
  LET block == thread[t].conn.block
      same  == children[thread[t].slot].pid = block.sourcePID
  IN
  /\ thread[t].pc = "serve"
  /\ block # NoBlock
  /\ same \/ block.header \notin visible[t[1]] \/ "mprotect" \in Failures
  /\ IF ~same /\ ~block.on /\ WriteEnds(thread[t].conn.open)
     THEN End(t[1], "sigpipe")
     ELSE HangUp(t) /\ UNCHANGED <<proc, holders, backlog, mutex, visible, guard>>
  /\ UNCHANGED <<started, table, headers>>

Answer(t) ==
  /\ thread[t].pc = "answer"
  /\ IF WriteEnds(thread[t].conn.open)
     THEN End(t[1], "sigpipe")
     ELSE /\ thread' = [q \in Threads |->
               IF q = t THEN [thread[t] EXCEPT !.pc = "serve", !.block = NoBlock, !.pos = 0]
               ELSE IF IsFrom(q, thread[t].conn) THEN [thread[q] EXCEPT !.answered = TRUE]
               ELSE thread[q]]
          /\ UNCHANGED <<proc, holders, backlog, mutex, visible, guard>>
  /\ UNCHANGED <<started, table, headers>>

--------------------------------------------------------------------------------
(* stopChildMprotect, "at the end of each child", and the child's exit.    *)
ExitChild(p) ==
  LET own == {s \in Slots : children[s].pid = p} IN
  /\ p \in Leaving \ {Master} /\ thread[Client(p)].pc = "idle"
  /\ End(p, "ended")
  /\ IF own = {} THEN UNCHANGED <<children, sock>>
     ELSE \E s \in own :
            /\ \A r \in own : s <= r
            /\ children' = [children EXCEPT ![s].pid = NoProc]
            /\ sock' = [sock EXCEPT ![children[s].name] = NoThread]
  /\ UNCHANGED <<started, isFather, headers>>

(* mallocCleanup of the master: pthread_mutex_destroy, which refuses a     *)
(* locked mutex, then stopMprotect, entry by entry.                        *)
ExitMaster ==
  /\ Master \in Leaving /\ thread[Client(Master)].pc = "idle"
  /\ mutex' = IF mutex = NoProc THEN Destroyed ELSE mutex
  /\ thread' = [thread EXCEPT ![Client(Master)] = [Idle EXCEPT !.pc = "stop", !.pos = 1]]
  /\ UNCHANGED <<proc, started, table, holders, backlog, memory>>

StopMprotect ==
  LET t == Client(Master)  s == thread[t].pos IN
  /\ thread[t].pc = "stop"
  /\ \/ /\ s > maxProcesses
        /\ End(Master, "ended")
        /\ UNCHANGED <<children, sock>>
     \/ /\ s <= maxProcesses
        /\ children[s].pid = NoProc
        /\ thread' = [thread EXCEPT ![t].pos = @ + 1]
        /\ UNCHANGED <<proc, children, sock, holders, backlog, mutex, visible, guard>>
     \/ /\ s <= maxProcesses
        /\ children[s].pid # NoProc
        /\ FreeEntry(Master, s)
        /\ \E cancelled \in IF children[s].pid = Master THEN {{}} ELSE Cancelled(Master) :
             thread' = [q \in Threads |->
               IF q \in cancelled THEN Gone
               ELSE IF q = t THEN [thread[t] EXCEPT !.pos = @ + 1] ELSE thread[q]]
        /\ UNCHANGED <<proc, backlog, mutex, visible, guard>>
     \/ /\ s <= maxProcesses
        /\ children[s].pid \notin {NoProc, Master}
        /\ "hang" \in ForeignThread
        /\ thread' = [thread EXCEPT ![t].pc = "hung"]
        /\ UNCHANGED <<proc, children, sock, holders, backlog, mutex, visible, guard>>
     \/ /\ s <= maxProcesses
        /\ children[s].pid \notin {NoProc, Master}
        /\ "fault" \in ForeignThread
        /\ End(Master, "fault")
        /\ UNCHANGED <<children, sock>>
  /\ UNCHANGED <<started, isFather, headers>>
--------------------------------------------------------------------------------
(* What a thread does without being asked by the application. *)
Work(t) ==
  \/ Scan(t) \/ SocketFails(t) \/ Connect(t) \/ RemoveChild(t) \/ Write(t) \/ ReadAnswer(t)
  \/ StartServer(t) \/ Accept(t) \/ Handle(t) \/ Refuse(t) \/ Answer(t)
  \/ t[2] = "client" /\ (ClaimSlot(t[1]) \/ ManageFather(t[1]) \/ ClaimFather(t[1]))
  \/ t = Client(Master) /\ StopMprotect

Request(p) ==
  \/ \E q \in Procs : Fork(p, q)
  \/ StartChild(p)
  \/ \E h \in Headers : Protect(p, h) \/ Unprotect(p, h)
  \/ ExitChild(p)
  \/ Crash(p)

Next ==
  \/ \E t \in Threads : Work(t)
  \/ \E p \in Procs : Request(p)
  \/ ExitMaster

Spec == Init /\ [][Next]_vars

(* The threads are those of the operating system: each gets its turn.      *)
FairSpec == Spec /\ \A t \in Threads : WF_vars(Work(t))

--------------------------------------------------------------------------------
(* The kinds of values the variables hold. *)
TypeOK ==
  /\ proc \in [Procs -> {"absent", "up", "ended", "sigpipe", "fault"}]
  /\ started \subseteq Procs
  /\ children \in [Slots -> [pid : Procs \cup {NoProc}, name : Names]]
  /\ isFather \in BOOLEAN
  /\ sock \in [Names -> Threads \cup {NoThread}]
  /\ holders \in [Threads -> SUBSET Procs]
  /\ \A t \in Threads : \A k \in DOMAIN backlog[t] : backlog[t][k] \in Connection
  /\ \A t \in Threads : thread[t] \in Thread
  /\ mutex \in Procs \cup {NoProc, Destroyed}
  /\ headers \subseteq Headers
  /\ visible \in [Procs -> SUBSET Headers]
  /\ guard \in [Procs -> SUBSET Headers]

(* A process has one entry in children at most, in spite of the father's   *)
(* second search and of entries overwritten in the race for them.          *)
OneEntryEach ==
  \A r, s \in Slots : r # s /\ children[r].pid = children[s].pid => children[r].pid = NoProc

InDistribution(t) == thread[t].pc \in {"scan", "connect", "write", "read", "hung"}

(* Whichever way mprotectDistribute ends, the mutex is given back: it is   *)
(* held by a process that is up and is distributing, and by nobody else.   *)
MutexGivenBack ==
  \A p \in Procs : mutex = p <=> InDistribution(Client(p)) /\ thread[Client(p)].block # NoBlock

(* While nobody leaves, all that is under way concerns the change of the   *)
(* mutex's holder: a client that has returned left nothing behind that     *)
(* could still change a guard page.                                        *)
OneChangeAtATime ==
  \A t \in Threads :
    LET same(block) == /\ mutex \in Procs
                       /\ block.header = thread[Client(mutex)].block.header
                       /\ block.on = thread[Client(mutex)].block.on
    IN  /\ InDistribution(t) \/ thread[t].pc = "answer" => same(thread[t].block)
        /\ thread[t].conn.block # NoBlock => same(thread[t].conn.block)

(* While no holder of the mutex ends before its change has been made       *)
(* everywhere, an answer means that the page is as the message asked in    *)
(* the process that answered, if it is still there.                        *)
AnswerMeansDone ==
  \A t \in Threads :
    LET q == thread[t].peer[1] IN
    thread[t].pc = "read" /\ thread[t].answered /\ proc[q] = "up" =>
      (thread[t].block.header \in guard[q]) = thread[t].block.on

(* While nobody leaves, a guard page changes in no process but as the      *)
(* holder of the mutex asks for at that moment, on or off: no server makes *)
(* a change that has been overtaken.  A new process has its father's pages. *)
PagesFollowHolder ==
  [][ \A q \in Procs, h \in Headers :
        (h \in guard[q]) # (h \in guard'[q]) =>
          \/ proc[q] # "up" \/ proc'[q] # "up"
          \/ \E p \in Procs : LET block == thread'[Client(p)].block IN
               mutex' = p /\ block.header = h /\ block.on = (h \in guard'[q]) ]_vars

(* "send to all children": when a client returns, every process that stays *)
(* on the list, has the MMAP and a server that has come up, has the guard  *)
(* page as the client left it.  This does not hold: the first child that   *)
(* cannot be reached ends the loop over the others.                        *)
Told(q, block) ==
  (/\ thread[<<q, "server">>].pc \notin {"none", "start"}
   /\ block.header \in visible[q])
  => (block.header \in guard[q]) = block.on

SendsToAll ==
  [][ \A p \in Procs :
        InDistribution(Client(p)) /\ thread'[Client(p)].pc = "idle" =>
          \A s \in Slots : children[s] = children'[s] /\ children[s].pid # NoProc =>
            Told(children[s].pid, thread[Client(p)].block) ]_vars

(* A call of vgc_malloc or vgc_free returns.                               *)
CallReturns ==
  \A p \in Procs : mutex = p ~> mutex # p
================================================================================
