--------------------------- MODULE MprotectMPProofs ---------------------------
(***************************************************************************)
(* MprotectMP for any number of processes, of entries and of headers: the  *)
(* mutex is given back whichever way a call ends, no process has two       *)
(* entries, the variables have the kinds of values they are meant to have, *)
(* and, while nobody leaves, all that is under way is one change, made     *)
(* wherever a server has answered.                                         *)
(***************************************************************************)
EXTENDS MprotectMP, SequenceTheorems, InductionProofs, TLAPS

(* A thread has the fields the argument is about. *)
Shape ==
  /\ DOMAIN proc = Procs /\ DOMAIN thread = Threads
  /\ \A t \in Threads : "pc" \in DOMAIN thread[t] /\ "block" \in DOMAIN thread[t]

Serving == {"start", "accept", "serve", "answer"}

(* A client does nothing that only servers do, has a message while it      *)
(* distributes and not otherwise, and has the mutex just then; a process   *)
(* that is not there yet has no client.                                    *)
Good(p) ==
  LET c == thread[Client(p)] IN
  /\ c.pc \notin Serving
  /\ c.pc \in {"scan", "connect", "write", "read"} => c.block # NoBlock
  /\ ~InDistribution(Client(p)) => c.block = NoBlock
  /\ proc[p] = "absent" => c.pc = "none"
  /\ mutex = p <=> InDistribution(Client(p)) /\ c.block # NoBlock

MutexInv == Shape /\ \A p \in Procs : Good(p)

(* What concerns p stays as it is. *)
Same(p) ==
  /\ thread'[Client(p)].pc = thread[Client(p)].pc
  /\ thread'[Client(p)].block = thread[Client(p)].block
  /\ mutex' = p <=> mutex = p
  /\ proc'[p] = "absent" => proc[p] = "absent"

LEMMA SameGood == ASSUME NEW p \in Procs, Good(p), Same(p) PROVE Good(p)'
  BY DEF Good, Same, InDistribution

LEMMA Pairs ==
  /\ \A p \in Procs : Client(p) \in Threads /\ Client(p)[1] = p /\ Client(p)[2] = "client"
  /\ \A p \in Procs : \A q : Client(p) = Client(q) => p = q
  /\ \A t \in Threads : t[1] \in Procs /\ t[2] \in Roles /\ t = <<t[1], t[2]>>
  /\ NoProc \notin Procs /\ Destroyed \notin Procs
  BY ProcessAssumption DEF Client, Threads, Roles

LEMMA Records ==
  /\ Gone.pc = "none" /\ Gone.block = NoBlock
  /\ Idle.pc = "idle" /\ Idle.block = NoBlock
  /\ \A r \in {Gone, Idle} : "pc" \in DOMAIN r /\ "block" \in DOMAIN r
  BY DEF Gone, Idle

LEMMA InitMutex == Init => MutexInv
<1> SUFFICES ASSUME Init PROVE MutexInv
  OBVIOUS
<1>1. ASSUME NEW t \in Threads
      PROVE  /\ thread[t].block = NoBlock
             /\ "pc" \in DOMAIN thread[t] /\ "block" \in DOMAIN thread[t]
             /\ t = Client(Master) => thread[t].pc = "idle"
             /\ t[2] = "client" /\ t # Client(Master) => thread[t].pc = "none"
  <2>1. CASE t = Client(Master)
    BY <2>1, Records DEF Init, Client
  <2>2. CASE t = <<Master, "server">>
    <3>1. thread[t] = [Gone EXCEPT !.pc = "start", !.slot = 1]
      BY <2>2, Pairs DEF Init, Client
    <3> QED
      BY <2>2, <3>1, Pairs DEF Gone, Client
  <2>3. CASE t # Client(Master) /\ t # <<Master, "server">>
    BY <2>3, Records DEF Init
  <2> QED
    BY <2>1, <2>2, <2>3
<1>2. Shape
  BY <1>1 DEF Init, Shape
<1>3. ASSUME NEW p \in Procs PROVE Good(p)
  <2>1. Client(p) \in Threads /\ Client(p)[2] = "client" /\ (Client(p) = Client(Master) => p = Master)
    BY Pairs
  <2> QED
    BY <1>1, <2>1, Pairs DEF Init, Good, InDistribution, Serving
<1> QED
  BY <1>2, <1>3 DEF MutexInv

--------------------------------------------------------------------------------
(* Whatever ends a process, the mutex it may have had goes to the next.    *)
LEMMA EndStep ==
  ASSUME MutexInv, NEW p \in Procs, NEW how, how # "absent", End(p, how)
  PROVE  MutexInv'
<1>1. \A t \in Threads :
        IF t[1] = p THEN thread'[t] = Gone
        ELSE /\ DOMAIN thread'[t] = DOMAIN thread[t]
             /\ thread'[t].pc = thread[t].pc /\ thread'[t].block = thread[t].block
  BY DEF End, MutexInv, Shape
<1>2. Shape'
  BY <1>1, Records DEF End, MutexInv, Shape
<1>3. Good(p)'
  BY <1>1, Pairs, Records DEF End, MutexInv, Shape, Good, InDistribution, RecoverMutex, Serving
<1>4. ASSUME NEW q \in Procs, q # p PROVE Same(q)
  <2>1. /\ thread'[Client(q)].pc = thread[Client(q)].pc
        /\ thread'[Client(q)].block = thread[Client(q)].block
    BY <1>1, <1>4, Pairs
  <2>2. mutex' = q <=> mutex = q
    BY <1>4, Pairs DEF End, RecoverMutex
  <2>3. proc'[q] = "absent" => proc[q] = "absent"
    BY <1>4 DEF End, MutexInv, Shape
  <2> QED
    BY <2>1, <2>2, <2>3 DEF Same
<1> QED
  BY <1>2, <1>3, <1>4, SameGood DEF MutexInv

(* mprotectDistribute returns: a client gives the mutex back.              *)
LEMMA FinishStep ==
  ASSUME MutexInv, NEW t \in Threads, thread[t].pc \in {"scan", "connect"},
         NEW cancelled \in SUBSET Threads, \A q \in cancelled : q[2] = "server",
         t \notin cancelled, Finish(t, cancelled), UNCHANGED proc
  PROVE  MutexInv'
<1>1. /\ DOMAIN thread' = Threads
      /\ \A q \in Threads :
           thread'[q] = IF q \in cancelled THEN Gone
                        ELSE IF q # t THEN thread[q]
                        ELSE IF t[2] = "client" THEN Idle
                        ELSE [thread[t] EXCEPT !.pc = "answer"]
  BY DEF Finish
<1>2. Shape'
  BY <1>1, Records DEF MutexInv, Shape
<1>3. ASSUME NEW p \in Procs, Client(p) # t PROVE Same(p)
  <2>1. thread'[Client(p)] = thread[Client(p)]
    BY <1>1, <1>3, Pairs
  <2>2. mutex' = p <=> mutex = p
    BY <1>3, Pairs DEF Finish
  <2> QED
    BY <2>1, <2>2 DEF Same
<1>4. ASSUME NEW p \in Procs, Client(p) = t PROVE Good(p)'
  <2>1. thread'[t] = Idle
    BY <1>1, <1>4, Pairs
  <2>2. mutex = p /\ mutex' = NoProc /\ proc[p] # "absent"
    BY <1>4 DEF MutexInv, Good, InDistribution, Finish
  <2> QED
    BY <1>4, <2>1, <2>2, Pairs, Records DEF Good, InDistribution, Serving
<1> QED
  BY <1>2, <1>3, <1>4, SameGood DEF MutexInv

(* A step that leaves places and messages of the clients as they are.      *)
LEMMA ServerStep ==
  ASSUME MutexInv, Shape', UNCHANGED <<proc, mutex>>,
         \A p \in Procs : /\ thread'[Client(p)].pc = thread[Client(p)].pc
                          /\ thread'[Client(p)].block = thread[Client(p)].block
  PROVE  MutexInv'
  BY SameGood DEF MutexInv, Same

(* A step of one thread, with what the place it goes to asks for.          *)
LEMMA MoveStep ==
  ASSUME MutexInv, NEW t \in Threads, NEW r, thread' = [thread EXCEPT ![t] = r],
         "pc" \in DOMAIN r, "block" \in DOMAIN r, UNCHANGED <<proc, mutex>>,
         thread[t].pc # "none",
         t[2] = "client" =>
           /\ r.block = thread[t].block
           /\ r.pc \in {"scan", "connect", "write", "read", "hung"}
                 <=> thread[t].pc \in {"scan", "connect", "write", "read", "hung"}
           /\ r.pc = thread[t].pc \/ r.pc \notin Serving \cup {"none"}
           /\ thread[t].pc = "hung" => r.pc = "hung"
  PROVE  MutexInv'
<1>1. Shape'
  BY DEF MutexInv, Shape
<1>2. ASSUME NEW p \in Procs, Client(p) # t PROVE Same(p)
  BY <1>2, Pairs DEF MutexInv, Shape, Same
<1>3. ASSUME NEW p \in Procs, Client(p) = t PROVE Good(p)'
  <2>1. thread'[t] = r
    BY DEF MutexInv, Shape
  <2> QED
    BY <1>3, <2>1, Pairs DEF MutexInv, Good, InDistribution, Serving
<1> QED
  BY <1>1, <1>2, <1>3, SameGood DEF MutexInv

(* A client asks for a change: it has the mutex from now on. *)
LEMMA CallStep ==
  ASSUME MutexInv, NEW p \in Procs, NEW h \in Headers, NEW on \in BOOLEAN,
         Call(p, [header |-> h, on |-> on, sourcePID |-> p])
  PROVE  MutexInv'
<1> DEFINE block == [header |-> h, on |-> on, sourcePID |-> p]
           sent == [block EXCEPT !.sourcePID = p]
<1>1. CASE UNCHANGED thread /\ UNCHANGED mutex
  BY <1>1, ServerStep DEF Call, MutexInv, Shape
<1>2. CASE thread' = Distributing(Client(p), block) /\ mutex' = p
  <2>1. sent # NoBlock
    <3>1. sent.header = h /\ NoBlock.header = NoHeader
      BY DEF NoBlock
    <3> QED
      BY <3>1, ProcessAssumption
  <2>2. thread' = [thread EXCEPT ![Client(p)].pc = "scan", ![Client(p)].pos = 1,
                                 ![Client(p)].block = sent]
    BY <1>2, Pairs DEF Distributing
  <2>3. Shape'
    BY <2>2 DEF Call, MutexInv, Shape
  <2>4. ASSUME NEW q \in Procs, q # p PROVE Same(q)
    <3>1. Client(q) # Client(p) /\ Client(q) \in Threads
      BY <2>4, Pairs
    <3>2. mutex = NoProc /\ mutex # q
      BY Pairs DEF Call
    <3> QED
      BY <1>2, <2>2, <2>4, <3>1, <3>2 DEF Call, MutexInv, Shape, Same
  <2>5. thread'[Client(p)].pc = "scan" /\ thread'[Client(p)].block = sent
    BY <2>2, Pairs DEF MutexInv, Shape
  <2>6. proc'[p] # "absent"
    BY DEF Call, MutexInv, Good
  <2>7. Good(p)'
    BY <1>2, <2>1, <2>5, <2>6 DEF Good, InDistribution, Serving
  <2> QED
    BY <2>3, <2>4, <2>7, SameGood DEF MutexInv
<1> QED
  BY <1>1, <1>2 DEF Call

(* A client that writes or reads stays in the distribution. *)
LEMMA InsideStep ==
  ASSUME MutexInv, Shape', UNCHANGED <<proc, mutex>>,
         NEW t \in Threads, thread[t].pc \in {"write", "read"},
         \A q \in Threads : /\ q # t => thread'[q].pc = thread[q].pc
                            /\ thread'[q].block = thread[q].block,
         thread'[t].pc \in {"read", "scan"}
  PROVE  MutexInv'
<1>1. ASSUME NEW p \in Procs, Client(p) # t PROVE Same(p)
  BY <1>1, Pairs DEF Same
<1>2. ASSUME NEW p \in Procs, Client(p) = t PROVE Good(p)'
  BY <1>2 DEF MutexInv, Good, InDistribution, Serving
<1> QED
  BY <1>1, <1>2, SameGood DEF MutexInv

(* Who has a place that only servers have is none of the clients. *)
LEMMA ServersServe ==
  ASSUME MutexInv, NEW t \in Threads, thread[t].pc \in Serving
  PROVE  \A p \in Procs : Client(p) # t
  BY DEF MutexInv, Good

LEMMA PeerStep ==
  ASSUME MutexInv, NEW t \in Threads, Write(t) \/ ReadAnswer(t)
  PROVE  MutexInv'
<1>1. CASE Write(t) /\ WriteEnds(PeerOpen(t))
  <2>1. t[1] \in Procs /\ End(t[1], "sigpipe")
    BY <1>1, Pairs DEF Write
  <2> QED
    BY <2>1, EndStep
<1>2. CASE Write(t) /\ ~WriteEnds(PeerOpen(t))
  <2> DEFINE Sent(c) == [c EXCEPT !.block = thread[t].block]
             Seen(q) == IF IsFrom(t, thread[q].conn)
                        THEN [thread[q] EXCEPT !.conn = Sent(@)] ELSE thread[q]
  <2>1. /\ thread[t].pc = "write" /\ UNCHANGED <<proc, mutex>>
        /\ thread' = [q \in Threads |-> IF q # t THEN Seen(q) ELSE [Seen(q) EXCEPT !.pc = "read"]]
    BY <1>2 DEF Write, AtPeer
  <2>2. \A q \in Threads : /\ DOMAIN Seen(q) = DOMAIN thread[q]
                           /\ Seen(q).pc = thread[q].pc /\ Seen(q).block = thread[q].block
    BY DEF MutexInv, Shape
  <2> HIDE DEF Seen
  <2>3. /\ DOMAIN thread' = Threads
        /\ \A q \in Threads : /\ DOMAIN thread'[q] = DOMAIN thread[q]
                              /\ q # t => thread'[q].pc = thread[q].pc
                              /\ thread'[q].block = thread[q].block
        /\ thread'[t].pc = "read"
    BY <2>1, <2>2 DEF MutexInv, Shape
  <2> QED
    BY <2>1, <2>3, InsideStep DEF MutexInv, Shape
<1>3. CASE ReadAnswer(t)
  <2>1. /\ thread[t].pc = "read" /\ UNCHANGED <<proc, mutex>> /\ DOMAIN thread' = Threads
        /\ \A q \in Threads : /\ DOMAIN thread'[q] = DOMAIN thread[q]
                              /\ q # t => thread'[q].pc = thread[q].pc
                              /\ thread'[q].block = thread[q].block
        /\ thread'[t].pc = "scan"
    BY <1>3 DEF ReadAnswer, AtPeer, MutexInv, Shape
  <2> QED
    BY <2>1, InsideStep DEF MutexInv, Shape
<1> QED
  BY <1>1, <1>2, <1>3

LEMMA CancelledServers ==
  \A p : \A cancelled \in Cancelled(p) : \A q \in cancelled : q = <<p, "server">>
  BY DEF Cancelled

LEMMA DistributionStep ==
  ASSUME MutexInv, NEW t \in Threads,
         Scan(t) \/ SocketFails(t) \/ Connect(t) \/ RemoveChild(t)
  PROVE  MutexInv'
<1> DEFINE Moved(r) == thread' = [thread EXCEPT ![t] = r] /\ UNCHANGED <<proc, mutex>>
<1>1. CASE Scan(t)
  <2>1. CASE Finish(t, {})
    BY <1>1, <2>1, FinishStep DEF Scan
  <2>2. CASE \E s \in Others(t) : thread' = [thread EXCEPT ![t].pc = "connect", ![t].pos = s]
             /\ UNCHANGED mutex
    <3>1. PICK s \in Others(t) : Moved([thread[t] EXCEPT !.pc = "connect", !.pos = s])
      BY <1>1, <2>2 DEF Scan, MutexInv, Shape
    <3> DEFINE r == [thread[t] EXCEPT !.pc = "connect", !.pos = s]
    <3>2. /\ "pc" \in DOMAIN r /\ "block" \in DOMAIN r
          /\ r.pc = "connect" /\ r.block = thread[t].block
      BY DEF MutexInv, Shape
    <3> HIDE DEF r
    <3> QED
      BY <1>1, <3>1, <3>2, MoveStep DEF Scan, Serving, r
  <2> QED
    BY <1>1, <2>1, <2>2 DEF Scan
<1>2. CASE SocketFails(t)
  BY <1>2, FinishStep DEF SocketFails
<1>3. CASE Connect(t)
  <2> DEFINE q == sock[children[thread[t].pos].name]
             r == [thread[t] EXCEPT !.pc = "write", !.peer = q]
  <2>1. Moved(r) /\ thread[t].pc = "connect"
    BY <1>3 DEF Connect, MutexInv, Shape
  <2>2. /\ "pc" \in DOMAIN r /\ "block" \in DOMAIN r
        /\ r.pc = "write" /\ r.block = thread[t].block
    BY DEF MutexInv, Shape
  <2> HIDE DEF r
  <2> QED
    BY <2>1, <2>2, MoveStep DEF Serving
<1>4. CASE RemoveChild(t)
  <2>1. t[1] \in Procs /\ thread[t].pc = "connect"
    BY <1>4, Pairs DEF RemoveChild
  <2>2. CASE UNCHANGED proc /\ \E cancelled \in Cancelled(t[1]) : t \notin cancelled /\ Finish(t, cancelled)
    <3>1. PICK cancelled \in Cancelled(t[1]) : t \notin cancelled /\ Finish(t, cancelled)
      BY <2>2
    <3>2. cancelled \subseteq Threads /\ \A q \in cancelled : q[2] = "server"
      BY <2>1, CancelledServers DEF Threads, Roles
    <3> QED
      BY <2>1, <2>2, <3>1, <3>2, FinishStep
  <2>3. CASE /\ {t} \in Cancelled(t[1]) /\ thread' = [thread EXCEPT ![t] = Gone]
             /\ UNCHANGED <<proc, mutex>>
    <3>1. t[2] # "client"
      BY <2>3, CancelledServers
    <3> QED
      BY <2>1, <2>3, <3>1, MoveStep, Records
  <2>4. CASE thread' = [thread EXCEPT ![t].pc = "hung"] /\ UNCHANGED <<proc, mutex>>
    <3> DEFINE r == [thread[t] EXCEPT !.pc = "hung"]
    <3>1. Moved(r)
      BY <2>4 DEF MutexInv, Shape
    <3>2. /\ "pc" \in DOMAIN r /\ "block" \in DOMAIN r
          /\ r.pc = "hung" /\ r.block = thread[t].block
      BY DEF MutexInv, Shape
    <3> HIDE DEF r
    <3> QED
      BY <2>1, <3>1, <3>2, MoveStep DEF Serving
  <2>5. CASE End(t[1], "fault")
    BY <2>1, <2>5, EndStep
  <2> QED
    BY <1>4, <2>2, <2>3, <2>4, <2>5 DEF RemoveChild
<1> QED
  BY <1>1, <1>2, <1>3, <1>4

(* A step of a server that changes, of others, no place and no message. *)
LEMMA ServingStep ==
  ASSUME MutexInv, NEW t \in Threads, thread[t].pc \in Serving, UNCHANGED <<proc, mutex>>,
         DOMAIN thread' = Threads, "pc" \in DOMAIN thread'[t], "block" \in DOMAIN thread'[t],
         \A q \in Threads : q # t => /\ DOMAIN thread'[q] = DOMAIN thread[q]
                                     /\ thread'[q].pc = thread[q].pc
                                     /\ thread'[q].block = thread[q].block
  PROVE  MutexInv'
<1>1. Shape'
  BY DEF MutexInv, Shape
<1>2. \A p \in Procs : Client(p) \in Threads /\ Client(p) # t
  BY ServersServe, Pairs
<1> QED
  BY <1>1, <1>2, ServerStep

LEMMA HangUpStep ==
  ASSUME MutexInv, NEW t \in Threads, thread[t].pc \in Serving, UNCHANGED <<proc, mutex>>,
         HangUp(t)
  PROVE  MutexInv'
<1>1. /\ DOMAIN thread' = Threads
      /\ "pc" \in DOMAIN thread'[t] /\ "block" \in DOMAIN thread'[t]
      /\ \A q \in Threads : q # t => /\ DOMAIN thread'[q] = DOMAIN thread[q]
                                     /\ thread'[q].pc = thread[q].pc
                                     /\ thread'[q].block = thread[q].block
  BY DEF HangUp, MutexInv, Shape
<1> QED
  BY <1>1, ServingStep

LEMMA ServerSteps ==
  ASSUME MutexInv, NEW t \in Threads,
         StartServer(t) \/ Accept(t) \/ Handle(t) \/ Refuse(t) \/ Answer(t)
  PROVE  MutexInv'
<1> DEFINE Rest == /\ UNCHANGED <<proc, mutex>> /\ DOMAIN thread' = Threads
                   /\ "pc" \in DOMAIN thread'[t] /\ "block" \in DOMAIN thread'[t]
                   /\ \A q \in Threads : q # t => /\ DOMAIN thread'[q] = DOMAIN thread[q]
                                                  /\ thread'[q].pc = thread[q].pc
                                                  /\ thread'[q].block = thread[q].block
<1>1. CASE StartServer(t)
  <2>1. thread[t].pc = "start" /\ Rest
    BY <1>1, Records DEF StartServer, MutexInv, Shape
  <2> QED
    BY <2>1, ServingStep DEF Serving
<1>2. CASE Accept(t)
  <2>1. thread[t].pc = "accept" /\ UNCHANGED <<proc, mutex>>
    BY <1>2 DEF Accept
  <2>2. CASE thread' = [thread EXCEPT ![t] = Gone]
    <3>1. Rest
      BY <2>1, <2>2, Records DEF MutexInv, Shape
    <3> QED
      BY <2>1, <3>1, ServingStep DEF Serving
  <2>3. CASE thread' = [q \in Threads |->
               IF q = t THEN [thread[t] EXCEPT !.pc = "serve", !.conn = Head(backlog[t])]
               ELSE IF IsFrom(q, Head(backlog[t])) THEN [thread[q] EXCEPT !.ends = {t[1]}]
               ELSE thread[q]]
    <3>1. Rest
      BY <2>1, <2>3 DEF MutexInv, Shape
    <3> QED
      BY <2>1, <3>1, ServingStep DEF Serving
  <2> QED
    BY <1>2, <2>2, <2>3 DEF Accept
<1>3. CASE Handle(t)
  <2>1. thread[t].pc = "serve" /\ UNCHANGED <<proc, mutex>>
    BY <1>3 DEF Handle
  <2>2. Rest
    BY <1>3, <2>1 DEF Handle, Distributing, MutexInv, Shape
  <2> QED
    BY <2>1, <2>2, ServingStep DEF Serving
<1>4. CASE Refuse(t)
  <2>1. thread[t].pc = "serve" /\ t[1] \in Procs
    BY <1>4, Pairs DEF Refuse
  <2>2. CASE End(t[1], "sigpipe")
    BY <2>1, <2>2, EndStep
  <2>3. CASE HangUp(t) /\ UNCHANGED <<proc, mutex>>
    BY <2>1, <2>3, HangUpStep DEF Serving
  <2> QED
    BY <1>4, <2>2, <2>3 DEF Refuse
<1>5. CASE Answer(t)
  <2>1. thread[t].pc = "answer" /\ t[1] \in Procs
    BY <1>5, Pairs DEF Answer
  <2>2. CASE End(t[1], "sigpipe")
    BY <2>1, <2>2, EndStep
  <2>3. CASE ~WriteEnds(thread[t].conn.open)
    <3>1. UNCHANGED <<proc, mutex>> /\ thread' = [q \in Threads |->
               IF q = t THEN [thread[t] EXCEPT !.pc = "serve", !.block = NoBlock, !.pos = 0]
               ELSE IF IsFrom(q, thread[t].conn) THEN [thread[q] EXCEPT !.answered = TRUE]
               ELSE thread[q]]
      BY <1>5, <2>3 DEF Answer
    <3>2. Rest
      BY <3>1 DEF MutexInv, Shape
    <3> QED
      BY <2>1, <3>2, ServingStep DEF Serving
  <2> QED
    BY <1>5, <2>2, <2>3 DEF Answer
<1> QED
  BY <1>1, <1>2, <1>3, <1>4, <1>5

(* The steps of startChildMprotect. *)
LEMMA ClaimStep ==
  ASSUME MutexInv, NEW p \in Procs, NEW role \in {"server", "father"},
         NEW next \in {Idle, [Idle EXCEPT !.pc = "father"]},
         thread[Client(p)].pc \in {"claim", "claim father"}, Claim(p, role, next)
  PROVE  MutexInv'
<1> DEFINE s == <<p, role>>
           c == Client(p)
           r == [Gone EXCEPT !.pc = "start", !.slot = thread[c].slot]
<1>1. s \in Threads /\ c \in Threads /\ s # c /\ \A q \in Procs : s # Client(q)
  BY Pairs DEF Threads, Roles, Client
<1>2. UNCHANGED <<proc, mutex>>
  BY DEF Claim
<1>3. \A n \in {next, Idle} : /\ "pc" \in DOMAIN n /\ "block" \in DOMAIN n
                              /\ n.block = NoBlock /\ n.pc \in {"idle", "father"}
  <2> DEFINE f == [Idle EXCEPT !.pc = "father"]
  <2>1. /\ "pc" \in DOMAIN f /\ "block" \in DOMAIN f
        /\ f.block = NoBlock /\ f.pc = "father"
    BY Records
  <2>2. next \in {Idle, f}
    OBVIOUS
  <2> HIDE DEF f
  <2> QED
    BY <2>1, <2>2, Records
<1>4. "pc" \in DOMAIN r /\ "block" \in DOMAIN r
  BY DEF Gone
<1>5. /\ thread[c].block = NoBlock /\ mutex # p /\ proc[p] # "absent"
  BY DEF MutexInv, Good, InDistribution
<1> HIDE DEF r
<1>6. \E n \in {next, Idle} : \/ thread' = [thread EXCEPT ![s] = r, ![c] = n]
                              \/ thread' = [thread EXCEPT ![c] = n]
  BY DEF Claim, r
<1>7. PICK n \in {next, Idle} : \/ thread' = [thread EXCEPT ![s] = r, ![c] = n]
                                \/ thread' = [thread EXCEPT ![c] = n]
  BY <1>6
<1> HIDE DEF s, c
<1>8. /\ DOMAIN thread' = Threads /\ thread'[c] = n
      /\ thread'[s] \in {r, thread[s]}
      /\ \A q \in Threads : q # c /\ q # s => thread'[q] = thread[q]
  BY <1>1, <1>7 DEF MutexInv, Shape
<1>9. Shape'
  BY <1>1, <1>2, <1>3, <1>4, <1>8 DEF MutexInv, Shape
<1>10. ASSUME NEW q \in Procs, q # p PROVE Same(q)
  <2>1. Client(q) \in Threads /\ Client(q) # c /\ Client(q) # s
    BY <1>1, <1>10, Pairs DEF c
  <2> QED
    BY <1>2, <1>8, <2>1 DEF Same
<1>11. Good(p)'
  BY <1>2, <1>3, <1>5, <1>8 DEF Good, InDistribution, Serving, c
<1> QED
  BY <1>9, <1>10, <1>11, SameGood DEF MutexInv

LEMMA StartSteps ==
  ASSUME MutexInv, NEW p \in Procs,
         StartChild(p) \/ ClaimSlot(p) \/ ManageFather(p) \/ ClaimFather(p)
  PROVE  MutexInv'
<1> DEFINE c == Client(p)
<1>1. c \in Threads /\ c[2] = "client"
  BY Pairs
<1>2. CASE ClaimSlot(p) \/ ClaimFather(p)
  BY <1>2, ClaimStep DEF ClaimSlot, ClaimFather
<1>3. CASE StartChild(p) \/ ManageFather(p)
  <2>1. /\ thread[c].pc \in {"idle", "father"} /\ thread[c].block = NoBlock
        /\ UNCHANGED <<proc, mutex>>
    BY <1>3 DEF StartChild, ManageFather, MutexInv, Good, InDistribution
  <2> DEFINE r == [Idle EXCEPT !.pc = "claim", !.slot = FindFreeChild(p)]
             f == [Idle EXCEPT !.pc = "claim father", !.slot = FindFreeChild(p)]
  <2>2. \/ thread' = [thread EXCEPT ![c] = Idle]
        \/ thread' = [thread EXCEPT ![c] = r]
        \/ thread' = [thread EXCEPT ![c] = f]
    BY <1>3 DEF StartChild, ManageFather
  <2>3. \A n \in {Idle, r, f} :
          /\ "pc" \in DOMAIN n /\ "block" \in DOMAIN n
          /\ n.block = NoBlock /\ n.pc \in {"idle", "claim", "claim father"}
    BY Records DEF Idle, Gone
  <2> HIDE DEF c, r, f
  <2>4. ASSUME NEW n \in {Idle, r, f}, thread' = [thread EXCEPT ![c] = n]
        PROVE  MutexInv'
    BY <1>1, <2>1, <2>3, <2>4, MoveStep DEF Serving
  <2> QED
    BY <2>2, <2>4
<1> QED
  BY <1>2, <1>3

(* The child has a client that has not made a call, and not the mutex. *)
LEMMA ForkStep ==
  ASSUME MutexInv, NEW p \in Procs, NEW q \in Procs, Fork(p, q)
  PROVE  MutexInv'
<1>1. /\ DOMAIN thread' = Threads /\ thread'[Client(q)] = Idle
      /\ \A t \in Threads : t # Client(q) =>
           /\ DOMAIN thread'[t] = DOMAIN thread[t]
           /\ thread'[t].pc = thread[t].pc /\ thread'[t].block = thread[t].block
  BY Pairs DEF Fork, MutexInv, Shape
<1>2. UNCHANGED mutex /\ proc' = [proc EXCEPT ![q] = "up"] /\ proc[q] = "absent"
  BY DEF Fork
<1>3. Shape'
  BY <1>1, <1>2, Records DEF MutexInv, Shape
<1>4. ASSUME NEW o \in Procs, o # q PROVE Same(o)
  BY <1>1, <1>2, <1>4, Pairs DEF Same, MutexInv, Shape
<1>5. Good(q)'
  BY <1>1, <1>2, Records DEF Good, InDistribution, Serving, MutexInv, Shape
<1> QED
  BY <1>3, <1>4, <1>5, SameGood DEF MutexInv

(* The end of the master destroys the mutex only if nobody has it. *)
LEMMA ExitStep ==
  ASSUME MutexInv, ExitMaster
  PROVE  MutexInv'
<1> DEFINE c == Client(Master)
           r == [Idle EXCEPT !.pc = "stop", !.pos = 1]
<1>1. Master \in Procs /\ c \in Threads
  BY ProcessAssumption, Pairs
<1>2. /\ "pc" \in DOMAIN r /\ "block" \in DOMAIN r
      /\ r.pc = "stop" /\ r.block = NoBlock
  BY DEF Idle, Gone
<1>3. thread' = [thread EXCEPT ![c] = r] /\ thread[c].pc = "idle" /\ UNCHANGED proc
  BY DEF ExitMaster
<1> HIDE DEF r
<1>4. \A q \in Procs : mutex' = q <=> mutex = q
  BY Pairs DEF ExitMaster
<1>5. Shape'
  BY <1>2, <1>3 DEF MutexInv, Shape
<1>6. ASSUME NEW q \in Procs, q # Master PROVE Same(q)
  <2>1. Client(q) \in Threads /\ Client(q) # c
    BY <1>1, <1>6, Pairs
  <2> QED
    BY <1>3, <1>4, <2>1 DEF MutexInv, Shape, Same
<1>7. Good(Master)'
  BY <1>1, <1>2, <1>3, <1>4 DEF MutexInv, Shape, Good, InDistribution, Serving
<1> QED
  BY <1>5, <1>6, <1>7, SameGood DEF MutexInv

LEMMA StopStep ==
  ASSUME MutexInv, StopMprotect
  PROVE  MutexInv'
<1> DEFINE c == Client(Master)
<1>1. Master \in Procs /\ c \in Threads /\ thread[c].pc = "stop" /\ c[2] = "client"
  BY ProcessAssumption, Pairs DEF StopMprotect
<1>2. thread[c].block = NoBlock
  BY <1>1 DEF MutexInv, Good, InDistribution
<1>3. CASE End(Master, "ended") \/ End(Master, "fault")
  BY <1>1, <1>3, EndStep
<1>4. CASE UNCHANGED <<proc, mutex>> /\ thread' = [thread EXCEPT ![c].pos = @ + 1]
  BY <1>4, ServerStep DEF MutexInv, Shape
<1>5. CASE /\ UNCHANGED <<proc, mutex>>
           /\ \E cancelled \in {{}} \cup Cancelled(Master) :
                thread' = [q \in Threads |->
                  IF q \in cancelled THEN Gone
                  ELSE IF q = c THEN [thread[c] EXCEPT !.pos = @ + 1] ELSE thread[q]]
  <2>1. PICK cancelled \in {{}} \cup Cancelled(Master) :
                thread' = [q \in Threads |->
                  IF q \in cancelled THEN Gone
                  ELSE IF q = c THEN [thread[c] EXCEPT !.pos = @ + 1] ELSE thread[q]]
    BY <1>5
  <2>2. \A q \in Procs : Client(q) \in Threads /\ Client(q) \notin cancelled
    BY CancelledServers, Pairs
  <2>3. Shape'
    BY <1>5, <2>1, Records DEF MutexInv, Shape
  <2>4. \A q \in Procs : /\ thread'[Client(q)].pc = thread[Client(q)].pc
                         /\ thread'[Client(q)].block = thread[Client(q)].block
    BY <2>1, <2>2 DEF MutexInv, Shape
  <2> QED
    BY <1>5, <2>3, <2>4, ServerStep
<1>6. CASE UNCHANGED <<proc, mutex>> /\ thread' = [thread EXCEPT ![c].pc = "hung"]
  <2>1. Shape'
    BY <1>6 DEF MutexInv, Shape
  <2>2. ASSUME NEW q \in Procs, q # Master PROVE Same(q)
    <3>1. Client(q) \in Threads /\ Client(q) # c
      BY <1>1, <2>2, Pairs
    <3> QED
      BY <1>6, <3>1 DEF MutexInv, Shape, Same
  <2>3. thread'[c].pc = "hung" /\ thread'[c].block = NoBlock
    BY <1>1, <1>2, <1>6 DEF MutexInv, Shape
  <2>4. mutex # Master /\ proc[Master] # "absent"
    BY <1>1, <1>2 DEF MutexInv, Good
  <2>5. Good(Master)'
    BY <1>6, <2>3, <2>4 DEF Good, InDistribution, Serving
  <2> QED
    BY <2>1, <2>2, <2>5, SameGood DEF MutexInv
<1> QED
  BY <1>3, <1>4, <1>5, <1>6 DEF StopMprotect

LEMMA RequestSteps ==
  ASSUME MutexInv, NEW p \in Procs, Request(p)
  PROVE  MutexInv'
<1>1. CASE \E h \in Headers : Protect(p, h) \/ Unprotect(p, h)
  BY <1>1, CallStep DEF Protect, Unprotect
<1>2. CASE ExitChild(p) \/ Crash(p)
  BY <1>2, EndStep DEF ExitChild, Crash
<1> QED
  BY <1>1, <1>2, ForkStep, StartSteps DEF Request

LEMMA NextMutex == MutexInv /\ [Next]_vars => MutexInv'
<1> SUFFICES ASSUME MutexInv, [Next]_vars PROVE MutexInv'
  OBVIOUS
<1>1. ASSUME NEW t \in Threads, Work(t) PROVE MutexInv'
  <2>1. t[1] \in Procs
    BY Pairs
  <2> QED
    BY <1>1, <2>1, DistributionStep, PeerStep, ServerSteps, StartSteps, StopStep DEF Work
<1>2. CASE UNCHANGED vars
  BY <1>2, ServerStep DEF vars, MutexInv, Shape
<1> QED
  BY <1>1, <1>2, RequestSteps, ExitStep DEF Next

(* Whichever way a call ends, with whatever fails or dies on its way, the  *)
(* mutex is with a process that is distributing or with nobody.            *)
THEOREM MutexReturns == Spec => []MutexGivenBack
<1>1. MutexInv => MutexGivenBack
  BY DEF MutexInv, Good, MutexGivenBack
<1> QED
  BY <1>1, InitMutex, NextMutex, PTL DEF Spec

--------------------------------------------------------------------------------
(* A process that is about to claim an entry has none yet: its search found *)
(* none, and others only write their own pid, or none, into the table.     *)
Claims == {"claim", "claim father"}

ClaimsFirst ==
  \A p \in Procs : thread[Client(p)].pc \in Claims => \A s \in Slots : children[s].pid # p

Table == DOMAIN children = Slots /\ \A s \in Slots : "pid" \in DOMAIN children[s]

EntryInv == Table /\ OneEntryEach /\ ClaimsFirst

(* No thread comes to claim, and no pid into the table. *)
Calm == \A t \in Threads : thread'[t].pc \in Claims => thread[t].pc \in Claims

Kept ==
  /\ DOMAIN children' = Slots
  /\ \A s \in Slots : /\ "pid" \in DOMAIN children'[s]
                      /\ children'[s].pid \in {children[s].pid, NoProc}

LEMMA CalmStep == ASSUME EntryInv, Kept, Calm PROVE EntryInv'
<1>1. Table' /\ OneEntryEach'
  BY DEF EntryInv, Kept, Table, OneEntryEach
<1>2. ClaimsFirst'
  BY Pairs DEF EntryInv, Kept, Calm, ClaimsFirst
<1> QED
  BY <1>1, <1>2 DEF EntryInv

LEMMA InitEntries == Init => EntryInv
<1> SUFFICES ASSUME Init PROVE EntryInv
  OBVIOUS
<1>1. Table
  BY DEF Init, Table
<1>2. OneEntryEach
  BY ProcessAssumption DEF Init, OneEntryEach, Slots
<1>3. \A p \in Procs : thread[Client(p)].pc \notin Claims
  BY InitMutex, Pairs DEF Init, Idle, Gone, Claims
<1> QED
  BY <1>1, <1>2, <1>3 DEF EntryInv, ClaimsFirst

LEMMA Unwritten == ASSUME EntryInv, UNCHANGED children PROVE Kept
  BY DEF EntryInv, Table, Kept

LEMMA EndCalm ==
  ASSUME MutexInv, NEW p, NEW how, End(p, how) PROVE Calm
  BY Records DEF End, MutexInv, Shape, Calm, Claims

LEMMA FinishCalm ==
  ASSUME MutexInv, NEW t \in Threads, NEW cancelled, Finish(t, cancelled) PROVE Calm
<1>1. \A q \in Threads : \/ thread'[q] \in {Gone, Idle, thread[q]}
                         \/ thread'[q] = [thread[t] EXCEPT !.pc = "answer"]
  BY DEF Finish
<1>2. [thread[t] EXCEPT !.pc = "answer"].pc = "answer"
  BY DEF MutexInv, Shape
<1> QED
  BY <1>1, <1>2, Records DEF Calm, Claims

(* removeChildThread, and the ends that free their own entry. *)
LEMMA FreeKept ==
  ASSUME EntryInv, NEW s, children' = [children EXCEPT ![s].pid = NoProc] PROVE Kept
  BY DEF EntryInv, Table, Kept

LEMMA DistributionCalm ==
  ASSUME MutexInv, EntryInv, NEW t \in Threads,
         \/ Scan(t) \/ SocketFails(t) \/ Connect(t) \/ RemoveChild(t)
         \/ Write(t) \/ ReadAnswer(t)
  PROVE  EntryInv'
<1>1. CASE Scan(t)
  <2>1. Kept
    BY <1>1, Unwritten DEF Scan, table
  <2>2. CASE Finish(t, {})
    BY <2>1, <2>2, FinishCalm, CalmStep
  <2>3. CASE \E s \in Others(t) : thread' = [thread EXCEPT ![t].pc = "connect", ![t].pos = s]
    <3>1. Calm
      BY <2>3 DEF MutexInv, Shape, Calm, Claims
    <3> QED
      BY <2>1, <3>1, CalmStep
  <2> QED
    BY <1>1, <2>2, <2>3 DEF Scan
<1>2. CASE SocketFails(t)
  BY <1>2, Unwritten, FinishCalm, CalmStep DEF SocketFails, table
<1>3. CASE Connect(t)
  <2>1. Kept
    BY <1>3, Unwritten DEF Connect, table
  <2>2. Calm
    BY <1>3 DEF Connect, MutexInv, Shape, Calm, Claims
  <2> QED
    BY <2>1, <2>2, CalmStep
<1>4. CASE RemoveChild(t)
  <2>1. Kept
    BY <1>4, Unwritten, FreeKept DEF RemoveChild, FreeEntry
  <2>2. CASE \E cancelled \in Cancelled(t[1]) : t \notin cancelled /\ Finish(t, cancelled)
    BY <2>1, <2>2, FinishCalm, CalmStep
  <2>3. CASE thread' = [thread EXCEPT ![t] = Gone] \/ thread' = [thread EXCEPT ![t].pc = "hung"]
    <3>1. Calm
      BY <2>3, Records DEF MutexInv, Shape, Calm, Claims
    <3> QED
      BY <2>1, <3>1, CalmStep
  <2>4. CASE End(t[1], "fault")
    BY <2>1, <2>4, EndCalm, CalmStep
  <2> QED
    BY <1>4, <2>2, <2>3, <2>4 DEF RemoveChild
<1>5. CASE Write(t)
  <2>1. Kept
    BY <1>5, Unwritten DEF Write, table
  <2>2. CASE End(t[1], "sigpipe")
    BY <2>1, <2>2, EndCalm, CalmStep
  <2>3. CASE ~WriteEnds(PeerOpen(t))
    <3> DEFINE Sent(c) == [c EXCEPT !.block = thread[t].block]
               Seen(q) == IF IsFrom(t, thread[q].conn)
                          THEN [thread[q] EXCEPT !.conn = Sent(@)] ELSE thread[q]
    <3>1. thread' = [q \in Threads |-> IF q # t THEN Seen(q) ELSE [Seen(q) EXCEPT !.pc = "read"]]
      BY <1>5, <2>3 DEF Write, AtPeer
    <3>2. \A q \in Threads : "pc" \in DOMAIN Seen(q) /\ Seen(q).pc = thread[q].pc
      BY DEF MutexInv, Shape
    <3> HIDE DEF Seen
    <3>3. Calm
      BY <3>1, <3>2 DEF Calm, Claims
    <3> QED
      BY <2>1, <3>3, CalmStep
  <2> QED
    BY <1>5, <2>2, <2>3 DEF Write
<1>6. CASE ReadAnswer(t)
  <2>1. Kept
    BY <1>6, Unwritten DEF ReadAnswer, table
  <2>2. \A q \in Threads : IF q = t THEN thread'[q].pc = "scan"
                           ELSE thread'[q].pc = thread[q].pc
    BY <1>6 DEF ReadAnswer, AtPeer, MutexInv, Shape
  <2>3. Calm
    BY <2>2 DEF Calm, Claims
  <2> QED
    BY <2>1, <2>3, CalmStep
<1> QED
  BY <1>1, <1>2, <1>3, <1>4, <1>5, <1>6

LEMMA HangUpCalm ==
  ASSUME MutexInv, NEW t \in Threads, HangUp(t) PROVE Calm
  BY DEF HangUp, MutexInv, Shape, Calm, Claims

LEMMA ServersCalm ==
  ASSUME MutexInv, EntryInv, NEW t \in Threads,
         StartServer(t) \/ Accept(t) \/ Handle(t) \/ Refuse(t) \/ Answer(t)
  PROVE  EntryInv'
<1>1. CASE StartServer(t)
  <2>1. Kept
    BY <1>1 DEF StartServer, EntryInv, Table, Kept
  <2>2. Calm
    BY <1>1, Records DEF StartServer, MutexInv, Shape, Calm, Claims
  <2> QED
    BY <2>1, <2>2, CalmStep
<1>2. CASE Accept(t)
  <2>1. Kept
    BY <1>2, Unwritten DEF Accept, table
  <2>2. CASE thread' = [thread EXCEPT ![t] = Gone]
    <3>1. Calm
      BY <2>2, Records DEF MutexInv, Shape, Calm, Claims
    <3> QED
      BY <2>1, <3>1, CalmStep
  <2>3. CASE thread' = [q \in Threads |->
               IF q = t THEN [thread[t] EXCEPT !.pc = "serve", !.conn = Head(backlog[t])]
               ELSE IF IsFrom(q, Head(backlog[t])) THEN [thread[q] EXCEPT !.ends = {t[1]}]
               ELSE thread[q]]
    <3>1. Calm
      BY <2>3 DEF MutexInv, Shape, Calm, Claims
    <3> QED
      BY <2>1, <3>1, CalmStep
  <2> QED
    BY <1>2, <2>2, <2>3 DEF Accept
<1>3. CASE Handle(t)
  <2>1. Kept
    BY <1>3, Unwritten DEF Handle, table
  <2>2. thread' = [Distributing(t, thread[t].conn.block) EXCEPT ![t].conn.block = NoBlock]
    BY <1>3 DEF Handle
  <2>3. Calm
    BY <2>2 DEF Distributing, MutexInv, Shape, Calm, Claims
  <2> QED
    BY <2>1, <2>3, CalmStep
<1>4. CASE Refuse(t)
  <2>1. Kept
    BY <1>4, Unwritten DEF Refuse, table
  <2>2. Calm
    BY <1>4, EndCalm, HangUpCalm DEF Refuse
  <2> QED
    BY <2>1, <2>2, CalmStep
<1>5. CASE Answer(t)
  <2>1. Kept
    BY <1>5, Unwritten DEF Answer, table
  <2>2. CASE End(t[1], "sigpipe")
    BY <2>1, <2>2, EndCalm, CalmStep
  <2>3. CASE ~WriteEnds(thread[t].conn.open)
    <3>1. thread' = [q \in Threads |->
               IF q = t THEN [thread[t] EXCEPT !.pc = "serve", !.block = NoBlock, !.pos = 0]
               ELSE IF IsFrom(q, thread[t].conn) THEN [thread[q] EXCEPT !.answered = TRUE]
               ELSE thread[q]]
      BY <1>5, <2>3 DEF Answer
    <3>2. Calm
      BY <3>1 DEF MutexInv, Shape, Calm, Claims
    <3> QED
      BY <2>1, <3>2, CalmStep
  <2> QED
    BY <1>5, <2>2, <2>3 DEF Answer
<1> QED
  BY <1>1, <1>2, <1>3, <1>4, <1>5

(* A search that returns an entry has found none of the caller's. *)
LEMMA SearchFindsNone ==
  ASSUME NEW p \in Procs, FindFreeChild(p) # NoSlot
  PROVE  \A s \in Slots : children[s].pid # p
  BY DEF FindFreeChild

LEMMA SearchEntries ==
  ASSUME MutexInv, EntryInv, NEW p \in Procs, StartChild(p) \/ ManageFather(p)
  PROVE  EntryInv'
<1> DEFINE c == Client(p)
<1>1. UNCHANGED children
  BY DEF StartChild, ManageFather, table
<1>2. Table' /\ OneEntryEach'
  BY <1>1 DEF EntryInv, Table, OneEntryEach
<1>3. /\ DOMAIN thread' = Threads /\ \A t \in Threads : t # c => thread'[t] = thread[t]
      /\ FindFreeChild(p) = NoSlot => thread'[c] = Idle
  BY Pairs DEF StartChild, ManageFather, MutexInv, Shape
<1>4. ASSUME NEW q \in Procs, thread'[Client(q)].pc \in Claims
      PROVE  \A s \in Slots : children'[s].pid # q
  <2>1. CASE q = p
    BY <1>1, <1>3, <1>4, <2>1, SearchFindsNone, Records DEF Claims
  <2>2. CASE q # p
    <3>1. thread'[Client(q)] = thread[Client(q)]
      BY <1>3, <2>2, Pairs
    <3> QED
      BY <1>1, <1>4, <3>1 DEF EntryInv, ClaimsFirst
  <2> QED
    BY <2>1, <2>2
<1> QED
  BY <1>2, <1>4 DEF EntryInv, ClaimsFirst

LEMMA ClaimEntries ==
  ASSUME MutexInv, EntryInv, NEW p \in Procs,
         NEW role \in {"server", "father"},
         NEW next \in {Idle, [Idle EXCEPT !.pc = "father"]},
         thread[Client(p)].pc \in Claims, Claim(p, role, next)
  PROVE  EntryInv'
<1> DEFINE c == Client(p)
           pos == thread[c].slot
<1>1. \A s \in Slots : children[s].pid # p
  BY DEF EntryInv, ClaimsFirst
<1>2. /\ DOMAIN children' = Slots
      /\ \A s \in Slots : /\ "pid" \in DOMAIN children'[s]
                          /\ children'[s].pid = IF s = pos THEN p ELSE children[s].pid
  BY DEF Claim, EntryInv, Table
<1> HIDE DEF pos
<1>3. Table' /\ OneEntryEach'
  BY <1>1, <1>2 DEF EntryInv, Table, OneEntryEach
<1>4. \A t \in Threads : thread'[t] \in {thread[t], next, Idle} \/ thread'[t].pc = "start"
  BY DEF Claim, MutexInv, Shape, Gone
<1>5. c \in Threads /\ thread'[c] \in {next, Idle}
  BY Pairs DEF Claim, MutexInv, Shape
<1>6. next.pc \in {"idle", "father"} /\ Idle.pc = "idle"
  BY Records
<1>7. ASSUME NEW q \in Procs, thread'[Client(q)].pc \in Claims
      PROVE  \A s \in Slots : children'[s].pid # q
  <2>1. q # p
    BY <1>5, <1>6, <1>7 DEF Claims
  <2>2. thread[Client(q)].pc \in Claims
    BY <1>4, <1>6, <1>7, Pairs DEF Claims
  <2> QED
    BY <1>2, <2>1, <2>2 DEF EntryInv, ClaimsFirst
<1> QED
  BY <1>3, <1>7 DEF EntryInv, ClaimsFirst

LEMMA StopEntries ==
  ASSUME MutexInv, EntryInv, StopMprotect
  PROVE  EntryInv'
<1> DEFINE c == Client(Master)
<1>1. Kept
  BY Unwritten, FreeKept DEF StopMprotect, FreeEntry
<1>2. CASE End(Master, "ended") \/ End(Master, "fault")
  BY <1>1, <1>2, EndCalm, CalmStep
<1>3. CASE \/ thread' = [thread EXCEPT ![c].pos = @ + 1]
           \/ thread' = [thread EXCEPT ![c].pc = "hung"]
  <2>1. ASSUME NEW t \in Threads PROVE thread'[t].pc \in {thread[t].pc, "hung"}
    BY <1>3 DEF MutexInv, Shape
  <2>2. Calm
    BY <2>1 DEF Calm, Claims
  <2> QED
    BY <1>1, <2>2, CalmStep
<1>4. CASE \E cancelled \in {{}} \cup Cancelled(Master) :
             thread' = [q \in Threads |->
               IF q \in cancelled THEN Gone
               ELSE IF q = c THEN [thread[c] EXCEPT !.pos = @ + 1] ELSE thread[q]]
  <2>1. Calm
    BY <1>4, Records DEF MutexInv, Shape, Calm, Claims
  <2> QED
    BY <1>1, <2>1, CalmStep
<1> QED
  BY <1>2, <1>3, <1>4 DEF StopMprotect

LEMMA RequestEntries ==
  ASSUME MutexInv, EntryInv, NEW p \in Procs, Request(p)
  PROVE  EntryInv'
<1>1. ASSUME NEW q \in Procs, Fork(p, q) PROVE EntryInv'
  <2>1. Kept
    BY <1>1, Unwritten DEF Fork, table
  <2>2. Calm
    BY <1>1, Records DEF Fork, MutexInv, Shape, Calm, Claims
  <2> QED
    BY <2>1, <2>2, CalmStep
<1>2. ASSUME NEW h \in Headers, Protect(p, h) \/ Unprotect(p, h) PROVE EntryInv'
  <2>1. PICK block : Call(p, block)
    BY <1>2 DEF Protect, Unprotect
  <2>2. Kept
    BY <2>1, Unwritten DEF Call, table
  <2>3. Calm
    <3>1. CASE UNCHANGED thread
      BY <3>1 DEF Calm
    <3>2. CASE thread' = Distributing(Client(p), block)
      <4>1. ASSUME NEW t \in Threads PROVE thread'[t].pc \in {thread[t].pc, "scan"}
        BY <3>2 DEF Distributing, MutexInv, Shape
      <4> QED
        BY <4>1 DEF Calm, Claims
    <3> QED
      BY <2>1, <3>1, <3>2 DEF Call
  <2> QED
    BY <2>2, <2>3, CalmStep
<1>3. CASE Crash(p) \/ ExitChild(p)
  <2>1. Kept
    BY <1>3, Unwritten, FreeKept DEF Crash, ExitChild, table
  <2> QED
    BY <1>3, <2>1, EndCalm, CalmStep DEF Crash, ExitChild
<1> QED
  BY <1>1, <1>2, <1>3, SearchEntries DEF Request

LEMMA NextEntries == MutexInv /\ EntryInv /\ [Next]_vars => EntryInv'
<1> SUFFICES ASSUME MutexInv, EntryInv, [Next]_vars PROVE EntryInv'
  OBVIOUS
<1>1. ASSUME NEW t \in Threads, Work(t) PROVE EntryInv'
  <2>1. t[1] \in Procs
    BY Pairs
  <2>2. CASE ClaimSlot(t[1]) \/ ClaimFather(t[1])
    BY <2>1, <2>2, ClaimEntries DEF ClaimSlot, ClaimFather, Claims
  <2> QED
    BY <1>1, <2>1, <2>2, DistributionCalm, ServersCalm, SearchEntries, StopEntries DEF Work
<1>2. CASE ExitMaster
  <2>1. Kept
    BY <1>2, Unwritten DEF ExitMaster, table
  <2>2. Calm
    BY <1>2 DEF ExitMaster, Idle, Gone, MutexInv, Shape, Calm, Claims
  <2> QED
    BY <2>1, <2>2, CalmStep
<1>3. CASE UNCHANGED vars
  <2>1. Kept /\ Calm
    BY <1>3, Unwritten DEF vars, table, Calm
  <2> QED
    BY <2>1, CalmStep
<1> QED
  BY <1>1, <1>2, <1>3, RequestEntries DEF Next

(* A process has one entry of shared->children at most, however the        *)
(* unlocked searches and stores of startChildMprotect overtake each other. *)
THEOREM EntriesAreOne == Spec => []OneEntryEach
<1>1. EntryInv => OneEntryEach
  BY DEF EntryInv
<1> QED
  BY <1>1, InitMutex, NextMutex, InitEntries, NextEntries, PTL DEF Spec

--------------------------------------------------------------------------------
(* The kinds of values.  That an index into children is one of its entries *)
(* takes the place of the thread: WellPlaced.                              *)
Tables ==
  /\ proc \in [Procs -> {"absent", "up", "ended", "sigpipe", "fault"}]
  /\ started \subseteq Procs
  /\ children \in [Slots -> [pid : Procs \cup {NoProc}, name : Names]]
  /\ isFather \in BOOLEAN
  /\ sock \in [Names -> Threads \cup {NoThread}]
  /\ holders \in [Threads -> SUBSET Procs]
  /\ mutex \in Procs \cup {NoProc, Destroyed}
  /\ headers \subseteq Headers
  /\ visible \in [Procs -> SUBSET Headers]
  /\ guard \in [Procs -> SUBSET Headers]

WellPlaced(r) ==
  /\ r \in Thread
  /\ r.pc \in {"start", "claim", "claim father"} => r.slot \in Slots
  /\ r.pc \in {"connect", "write", "read"} => r.pos \in Slots
  /\ r.pc = "scan" => r.pos # 0

Placed == DOMAIN thread = Threads /\ \A t \in Threads : WellPlaced(thread[t])

Queues == backlog \in [Threads -> Seq(Connection)]

TypeInv == Tables /\ Placed /\ Queues

LEMMA TypeFollows == TypeInv => TypeOK
<1> SUFFICES ASSUME TypeInv PROVE TypeOK
  OBVIOUS
<1>1. \A t \in Threads : \A k \in DOMAIN backlog[t] : backlog[t][k] \in Connection
  BY ElementOfSeq, LenProperties DEF TypeInv, Queues
<1> QED
  BY <1>1 DEF TypeInv, TypeOK, Tables, Placed, WellPlaced

LEMMA Values ==
  /\ Gone \in Thread /\ Idle \in Thread /\ WellPlaced(Gone) /\ WellPlaced(Idle)
  /\ NoConn \in Connection \cup {NoConn} /\ NoBlock \in MProtectBlock \cup {NoBlock}
  /\ Gone.conn = NoConn /\ Idle.conn = NoConn
  /\ Gone.pc = "none" /\ Idle.pc = "idle" /\ ~Gone.answered /\ ~Idle.answered
  BY DEF Gone, Idle, Thread, WellPlaced, NoConn, NoBlock, Slots, NoSlot

(* A thread stays well placed when it goes to a place that asks nothing of *)
(* its entry and its index, when descriptors of it are opened or closed,   *)
(* and when it is answered.                                                *)
LEMMA Moved ==
  ASSUME NEW r, WellPlaced(r), NEW c \in Connection \cup {NoConn},
         NEW pc \in {"none", "idle", "father", "accept", "serve", "answer", "stop", "hung"}
  PROVE  WellPlaced([r EXCEPT !.pc = pc]) /\ WellPlaced([r EXCEPT !.pc = pc, !.conn = c])
<1> DEFINE u == [r EXCEPT !.pc = pc]
           v == [r EXCEPT !.pc = pc, !.conn = c]
<1>1. r \in Thread
  BY DEF WellPlaced
<1>2. u \in Thread /\ v \in Thread
  <2>1. u \in Thread
    BY <1>1 DEF Thread
  <2>2. v \in Thread
    BY <1>1 DEF Thread
  <2> QED
    BY <2>1, <2>2
<1>3. u.pc = pc /\ v.pc = pc
  BY <1>1 DEF Thread
<1> HIDE DEF u, v
<1>4. WellPlaced(u) /\ WellPlaced(v)
  BY <1>2, <1>3 DEF WellPlaced
<1> QED
  BY <1>4 DEF u, v

LEMMA Shared ==
  ASSUME NEW r, WellPlaced(r), NEW c \in Connection \cup {NoConn}, NEW e \in SUBSET Procs
  PROVE  WellPlaced([r EXCEPT !.ends = e]) /\ WellPlaced([r EXCEPT !.conn = c, !.ends = e])
<1> DEFINE u == [r EXCEPT !.ends = e]
           v == [r EXCEPT !.conn = c, !.ends = e]
<1>1. r \in Thread
  BY DEF WellPlaced
<1>2. u \in Thread /\ u.pc = r.pc /\ u.slot = r.slot /\ u.pos = r.pos
  BY <1>1 DEF Thread
<1>3. v \in Thread /\ v.pc = r.pc /\ v.slot = r.slot /\ v.pos = r.pos
  BY <1>1 DEF Thread
<1> HIDE DEF u, v
<1>4. WellPlaced(u) /\ WellPlaced(v)
  BY <1>2, <1>3 DEF WellPlaced
<1> QED
  BY <1>4 DEF u, v

LEMMA HasRead ==
  ASSUME NEW r, WellPlaced(r), NEW c \in Connection PROVE WellPlaced([r EXCEPT !.conn = c])
<1> DEFINE u == [r EXCEPT !.conn = c]
<1>1. r \in Thread
  BY DEF WellPlaced
<1>2. u \in Thread /\ u.pc = r.pc /\ u.slot = r.slot /\ u.pos = r.pos
  BY <1>1 DEF Thread
<1> HIDE DEF u
<1>3. WellPlaced(u)
  BY <1>2 DEF WellPlaced
<1> QED
  BY <1>3 DEF u

LEMMA WasAnswered ==
  ASSUME NEW r, WellPlaced(r) PROVE WellPlaced([r EXCEPT !.answered = TRUE])
<1> DEFINE u == [r EXCEPT !.answered = TRUE]
<1>1. r \in Thread
  BY DEF WellPlaced
<1>2. u \in Thread /\ u.pc = r.pc /\ u.slot = r.slot /\ u.pos = r.pos
  BY <1>1 DEF Thread
<1> HIDE DEF u
<1>3. WellPlaced(u)
  BY <1>2 DEF WellPlaced
<1> QED
  BY <1>3 DEF u

LEMMA MapSeq ==
  ASSUME NEW S, NEW T, NEW s \in Seq(S), NEW f, DOMAIN f = DOMAIN s,
         f = [k \in DOMAIN f |-> f[k]],
         \A k \in DOMAIN s : f[k] \in T
  PROVE  f \in Seq(T) /\ Len(f) = Len(s)
<1>1. Len(s) \in Nat /\ DOMAIN s = 1 .. Len(s)
  BY LenProperties
<1>2. f \in [1 .. Len(s) -> T]
  BY <1>1
<1>3. f \in Seq(T)
  BY <1>1, <1>2, SeqDef
<1> QED
  BY <1>1, <1>3, LenProperties

(* A connection whose client's descriptor is closed, or inherited.         *)
LEMMA OpenTyped ==
  ASSUME NEW c \in Connection, NEW S \in SUBSET Procs
  PROVE  [c EXCEPT !.open = S] \in Connection
  BY DEF Connection

LEMMA CloseTyped ==
  ASSUME NEW c \in Connection \cup {NoConn}, NEW p
  PROVE  /\ Close(p, c) \in Connection \cup {NoConn}
         /\ c \in Connection => Close(p, c) \in Connection
<1>1. CASE c \in Connection
  <2>1. c.open \ {p} \in SUBSET Procs /\ Close(p, c) = [c EXCEPT !.open = c.open \ {p}]
    BY <1>1 DEF Connection, Close
  <2> QED
    BY <1>1, <2>1, OpenTyped
<1>2. CASE c = NoConn
  <2>1. Close(p, NoConn) = NoConn
    BY DEF Close, NoConn
  <2>2. c \in Connection => Close(p, c) \in Connection
    BY <1>2, <2>1
  <2> QED
    BY <1>2, <2>1, <2>2
<1> QED
  BY <1>1, <1>2

LEMMA InheritTyped ==
  ASSUME NEW p \in Procs, NEW q \in Procs
  PROVE  /\ \A S \in SUBSET Procs : Inherit(p, q, S) \in SUBSET Procs
         /\ \A c \in Connection : [c EXCEPT !.open = Inherit(p, q, @)] \in Connection
         /\ [NoConn EXCEPT !.open = Inherit(p, q, @)] = NoConn
<1>1. \A S \in SUBSET Procs : Inherit(p, q, S) \in SUBSET Procs
  BY DEF Inherit
<1>2. \A c \in Connection : [c EXCEPT !.open = Inherit(p, q, @)] \in Connection
  BY <1>1, OpenTyped DEF Connection
<1>3. [NoConn EXCEPT !.open = Inherit(p, q, @)] = NoConn
  BY DEF NoConn, Inherit
<1> QED
  BY <1>1, <1>2, <1>3

LEMMA InitTyped == Init => TypeInv
<1> SUFFICES ASSUME Init PROVE TypeInv
  OBVIOUS
<1>1. Tables
  BY Pairs, ProcessAssumption DEF Init, Tables, Slots, Names
<1>2. Placed
  <2>1. 1 \in Slots
    BY ProcessAssumption DEF Slots
  <2>2. WellPlaced([Gone EXCEPT !.pc = "start", !.slot = 1])
    BY <2>1, Values DEF WellPlaced, Thread
  <2> QED
    BY <2>2, Values DEF Init, Placed
<1>3. Queues
  BY EmptySeq DEF Init, Queues
<1> QED
  BY <1>1, <1>2, <1>3 DEF TypeInv

LEMMA EndTyped ==
  ASSUME TypeInv, NEW p \in Procs, NEW how \in {"ended", "sigpipe", "fault"}, End(p, how),
         UNCHANGED <<started, isFather, headers>>,
         children' \in [Slots -> [pid : Procs \cup {NoProc}, name : Names]],
         sock' \in [Names -> Threads \cup {NoThread}]
  PROVE  TypeInv'
<1>1. Tables'
  BY DEF End, TypeInv, Tables, RecoverMutex
<1>2. Placed'
  <2>1. ASSUME NEW t \in Threads, t[1] # p PROVE WellPlaced(thread'[t])
    <3> DEFINE c == Close(p, thread[t].conn)
               e == thread[t].ends \ {p}
    <3>1. thread'[t] = [thread[t] EXCEPT !.conn = c, !.ends = e]
      BY <2>1 DEF End, TypeInv, Placed
    <3>2. /\ WellPlaced(thread[t]) /\ thread[t].conn \in Connection \cup {NoConn}
          /\ e \in SUBSET Procs
      BY DEF TypeInv, Placed, WellPlaced, Thread
    <3>3. c \in Connection \cup {NoConn}
      BY <3>2, CloseTyped
    <3> HIDE DEF c, e
    <3>4. WellPlaced([thread[t] EXCEPT !.conn = c, !.ends = e])
      BY <3>2, <3>3, Shared
    <3> QED
      BY <3>1, <3>4
  <2> QED
    BY <2>1, Values DEF End, Placed
<1>3. Queues'
  <2>1. ASSUME NEW t \in Threads PROVE backlog'[t] \in Seq(Connection)
    <3>1. backlog[t] \in Seq(Connection)
      BY DEF TypeInv, Queues
    <3> DEFINE f == [k \in DOMAIN backlog[t] |-> Close(p, backlog[t][k])]
    <3>2. \A k \in DOMAIN backlog[t] : f[k] \in Connection
      BY <3>1, ElementOfSeq, LenProperties, CloseTyped
    <3>3. DOMAIN f = DOMAIN backlog[t] /\ f = [k \in DOMAIN f |-> f[k]]
      OBVIOUS
    <3>4. backlog'[t] \in {<<>>, f}
      BY DEF End
    <3> HIDE DEF f
    <3>5. f \in Seq(Connection)
      BY <3>1, <3>2, <3>3, MapSeq
    <3> QED
      BY <3>4, <3>5, EmptySeq
  <2> QED
    BY <2>1 DEF End, Queues
<1> QED
  BY <1>1, <1>2, <1>3 DEF TypeInv

LEMMA ForkTyped ==
  ASSUME TypeInv, NEW p \in Procs, NEW q \in Procs, Fork(p, q)
  PROVE  TypeInv'
<1>1. Tables'
  BY InheritTyped DEF Fork, TypeInv, Tables, table
<1>2. Placed'
  <2>1. ASSUME NEW t \in Threads, t # Client(q) PROVE WellPlaced(thread'[t])
    <3> DEFINE c == [thread[t].conn EXCEPT !.open = Inherit(p, q, @)]
               e == Inherit(p, q, thread[t].ends)
    <3>1. WellPlaced(thread[t]) /\ thread[t].conn \in Connection \cup {NoConn}
          /\ thread[t].ends \in SUBSET Procs
      BY DEF TypeInv, Placed, WellPlaced, Thread
    <3>2. thread'[t] = [thread[t] EXCEPT !.conn = c, !.ends = e]
      <4>1. thread'[t] = [thread[t] EXCEPT !.conn.open = Inherit(p, q, @), !.ends = Inherit(p, q, @)]
        BY <2>1 DEF Fork
      <4> QED
        BY <3>1, <4>1 DEF WellPlaced, Thread
    <3>3. c \in Connection \cup {NoConn} /\ e \in SUBSET Procs
      BY <3>1, InheritTyped
    <3> HIDE DEF c, e
    <3>4. WellPlaced([thread[t] EXCEPT !.conn = c, !.ends = e])
      BY <3>1, <3>3, Shared
    <3> QED
      BY <3>2, <3>4
  <2> QED
    BY <2>1, Values DEF Fork, Placed
<1>3. Queues'
  <2>1. ASSUME NEW t \in Threads PROVE backlog'[t] \in Seq(Connection)
    <3>1. backlog[t] \in Seq(Connection)
      BY DEF TypeInv, Queues
    <3> DEFINE f == [k \in DOMAIN backlog[t] |-> [backlog[t][k] EXCEPT !.open = Inherit(p, q, @)]]
    <3>2. \A k \in DOMAIN backlog[t] : f[k] \in Connection
      BY <3>1, ElementOfSeq, LenProperties, InheritTyped
    <3>3. DOMAIN f = DOMAIN backlog[t] /\ f = [k \in DOMAIN f |-> f[k]]
      OBVIOUS
    <3>4. backlog'[t] = f
      BY DEF Fork
    <3> HIDE DEF f
    <3> QED
      BY <3>1, <3>2, <3>3, <3>4, MapSeq
  <2> QED
    BY <2>1 DEF Fork, Queues
<1> QED
  BY <1>1, <1>2, <1>3 DEF TypeInv

(* The steps of startChildMprotect.                                        *)
LEMMA SearchTyped ==
  ASSUME NEW p \in Procs
  PROVE  FindFreeChild(p) \in Slots \cup {NoSlot}
<1> DEFINE free == {s \in Slots : children[s].pid = NoProc}
<1>1. CASE free = {} \/ \E s \in Slots : children[s].pid = p
  BY <1>1 DEF FindFreeChild
<1>2. CASE free # {} /\ ~\E s \in Slots : children[s].pid = p
  <2>1. FindFreeChild(p) = CHOOSE s \in free : \A r \in free : s <= r
    BY <1>2 DEF FindFreeChild
  <2>2. \E s \in free : \A r \in free : s <= r
    <3>1. PICK s \in free : TRUE
      BY <1>2
    <3> DEFINE P == {n \in Nat : n \in free}
    <3>2. s \in P /\ P \subseteq Nat
      BY <3>1 DEF Slots
    <3> HIDE DEF P
    <3>3. \E n \in P : \A m \in P : n <= m
      BY <3>2, LeastOfNat
    <3> QED
      BY <3>3 DEF P, Slots
  <2> QED
    BY <2>1, <2>2
<1> QED
  BY <1>1, <1>2

(* A step of threads alone, each of which is well placed then.             *)
LEMMA PlacesTyped ==
  ASSUME TypeInv, Tables', UNCHANGED backlog, DOMAIN thread' = Threads,
         \A t \in Threads : thread'[t] = thread[t] \/ WellPlaced(thread'[t])
  PROVE  TypeInv'
<1>1. Placed'
  BY DEF TypeInv, Placed
<1> QED
  BY <1>1 DEF TypeInv, Queues

LEMMA StartTyped ==
  ASSUME TypeInv, NEW p \in Procs,
         StartChild(p) \/ ClaimSlot(p) \/ ManageFather(p) \/ ClaimFather(p)
  PROVE  TypeInv'
<1> DEFINE c == Client(p)
<1>1. c \in Threads /\ DOMAIN thread = Threads /\ WellPlaced(thread[c])
  BY Pairs DEF TypeInv, Placed
<1>2. \A pos \in Slots : \A pc \in {"claim", "claim father"} :
        WellPlaced([Idle EXCEPT !.pc = pc, !.slot = pos])
  BY Values DEF WellPlaced, Thread
<1>3. WellPlaced([Idle EXCEPT !.pc = "father"])
  BY Values, Moved
<1>4. CASE StartChild(p)
  <2>1. Tables' /\ UNCHANGED backlog
    BY <1>4 DEF StartChild, TypeInv, Tables, table, memory
  <2>2. FindFreeChild(p) \in Slots \/ FindFreeChild(p) = NoSlot
    BY SearchTyped
  <2>3. WellPlaced(IF FindFreeChild(p) = NoSlot THEN Idle
                   ELSE [Idle EXCEPT !.pc = "claim", !.slot = FindFreeChild(p)])
    BY <1>2, <2>2, Values
  <2> QED
    BY <1>1, <1>4, <2>1, <2>3, PlacesTyped DEF StartChild
<1>5. CASE ManageFather(p)
  <2>1. Tables' /\ UNCHANGED backlog
    BY <1>5 DEF ManageFather, TypeInv, Tables, table, memory
  <2>2. FindFreeChild(p) \in Slots \/ FindFreeChild(p) = NoSlot
    BY SearchTyped
  <2>3. WellPlaced(IF FindFreeChild(p) = NoSlot THEN Idle
                   ELSE [Idle EXCEPT !.pc = "claim father", !.slot = FindFreeChild(p)])
    BY <1>2, <2>2, Values
  <2>4. \/ thread' = [thread EXCEPT ![c] = Idle]
        \/ thread' = [thread EXCEPT ![c] =
               IF FindFreeChild(p) = NoSlot THEN Idle
               ELSE [Idle EXCEPT !.pc = "claim father", !.slot = FindFreeChild(p)]]
    BY <1>5 DEF ManageFather
  <2> QED
    BY <1>1, <2>1, <2>3, <2>4, PlacesTyped, Values
<1>6. ASSUME NEW role \in {"server", "father"}, NEW next, WellPlaced(next),
             thread[c].pc \in {"claim", "claim father"}, Claim(p, role, next)
      PROVE  TypeInv'
  <2>1. thread[c].slot \in Slots
    BY <1>1, <1>6 DEF WellPlaced
  <2>2. Tables' /\ UNCHANGED backlog
    BY <1>6, <2>1 DEF Claim, TypeInv, Tables, memory
  <2>3. WellPlaced([Gone EXCEPT !.pc = "start", !.slot = thread[c].slot])
    BY <2>1, Values DEF WellPlaced, Thread
  <2>4. \/ thread' = [thread EXCEPT ![<<p, role>>] = [Gone EXCEPT !.pc = "start", !.slot = thread[c].slot],
                                   ![c] = next]
        \/ thread' = [thread EXCEPT ![c] = Idle]
    BY <1>6 DEF Claim
  <2> QED
    BY <1>1, <1>6, <2>2, <2>3, <2>4, PlacesTyped, Values
<1>7. CASE ClaimSlot(p)
  BY <1>3, <1>6, <1>7 DEF ClaimSlot
<1>8. CASE ClaimFather(p)
  BY <1>6, <1>8, Values DEF ClaimFather
<1> QED
  BY <1>4, <1>5, <1>7, <1>8

LEMMA ScanTyped ==
  ASSUME NEW r, WellPlaced(r), NEW b \in MProtectBlock
  PROVE  WellPlaced([r EXCEPT !.pc = "scan", !.pos = 1, !.block = b])
<1> DEFINE d == [r EXCEPT !.pc = "scan", !.pos = 1, !.block = b]
<1>1. d \in Thread
  BY DEF WellPlaced, Thread
<1>2. d.pc = "scan" /\ d.pos = 1
  BY DEF WellPlaced, Thread
<1> HIDE DEF d
<1>3. d.pos # 0
  BY <1>2
<1>4. d.pc \notin {"start", "claim", "claim father", "connect", "write", "read"}
  BY <1>2
<1>5. WellPlaced(d)
  BY <1>1, <1>3, <1>4 DEF WellPlaced
<1> QED
  BY <1>5 DEF d

LEMMA CallTyped ==
  ASSUME TypeInv, NEW p \in Procs, NEW h \in Headers, Protect(p, h) \/ Unprotect(p, h)
  PROVE  TypeInv'
<1> DEFINE c == Client(p)
<1>0. visible' \in [Procs -> SUBSET Headers]
  BY DEF Protect, Unprotect, TypeInv, Tables
<1>1. PICK on \in BOOLEAN : Call(p, [header |-> h, on |-> on, sourcePID |-> p])
  BY DEF Protect, Unprotect
<1> DEFINE block == [header |-> h, on |-> on, sourcePID |-> p]
<1>2. block \in MProtectBlock /\ block.header = h /\ block.on = on
  BY DEF MProtectBlock
<1>3. Call(p, block)
  BY <1>1
<1> HIDE DEF block
<1>4. c \in Threads /\ c[1] = p /\ DOMAIN thread = Threads /\ WellPlaced(thread[c])
  BY Pairs DEF TypeInv, Placed
<1>5. Tables' /\ UNCHANGED backlog
  BY <1>0, <1>2, <1>3 DEF Call, TypeInv, Tables, SetGuard, table
<1>6. WellPlaced([thread[c] EXCEPT !.pc = "scan", !.pos = 1, !.block = [block EXCEPT !.sourcePID = p]])
  <2> DEFINE sent == [block EXCEPT !.sourcePID = p]
  <2>1. sent \in MProtectBlock
    BY <1>2 DEF MProtectBlock
  <2> HIDE DEF sent
  <2> QED
    BY <1>4, <2>1, ScanTyped DEF sent
<1>7. \/ UNCHANGED thread
      \/ thread' = [thread EXCEPT ![c].pc = "scan", ![c].pos = 1,
                                  ![c].block = [block EXCEPT !.sourcePID = p]]
  BY <1>3, <1>4 DEF Call, Distributing
<1>8. \A t \in Threads : \/ thread'[t] = thread[t]
                         \/ thread'[t] = [thread[c] EXCEPT !.pc = "scan", !.pos = 1,
                                                           !.block = [block EXCEPT !.sourcePID = p]]
  BY <1>4, <1>7
<1>9. DOMAIN thread' = Threads
  BY <1>4, <1>7
<1> QED
  BY <1>5, <1>6, <1>8, <1>9, PlacesTyped

(* A thread that goes to another place as the distribution goes on.        *)
LEMMA FinishTyped ==
  ASSUME TypeInv, NEW t \in Threads, NEW cancelled, Finish(t, cancelled)
  PROVE  /\ Placed' /\ mutex' \in Procs \cup {NoProc, Destroyed}
<1>1. WellPlaced(thread[t])
  BY DEF TypeInv, Placed
<1>2. WellPlaced([thread[t] EXCEPT !.pc = "answer"])
  BY <1>1, Values, Moved
<1> QED
  BY <1>2, Values DEF Finish, TypeInv, Placed, Tables

LEMMA FreeTyped ==
  ASSUME Tables, NEW p \in Procs, NEW s, FreeEntry(p, s)
  PROVE  /\ children' \in [Slots -> [pid : Procs \cup {NoProc}, name : Names]]
         /\ sock' \in [Names -> Threads \cup {NoThread}]
         /\ holders' \in [Threads -> SUBSET Procs]
<1>1. children' \in [Slots -> [pid : Procs \cup {NoProc}, name : Names]]
  <2>1. ASSUME NEW k \in Slots
        PROVE  [children[k] EXCEPT !.pid = NoProc] \in [pid : Procs \cup {NoProc}, name : Names]
    BY DEF Tables
  <2> QED
    BY <2>1 DEF FreeEntry, Tables
<1>2. sock' \in [Names -> Threads \cup {NoThread}]
  BY DEF FreeEntry, Tables
<1>3. holders' \in [Threads -> SUBSET Procs]
  <2>1. PICK closed \in SUBSET {t \in Threads : p \in holders[t]} :
          holders' = [t \in Threads |-> IF t \in closed THEN holders[t] \ {p} ELSE holders[t]]
    BY DEF FreeEntry
  <2>2. holders \in [Threads -> SUBSET Procs]
    BY DEF Tables
  <2> QED
    BY <2>1, <2>2
<1> QED
  BY <1>1, <1>2, <1>3

LEMMA DistributionTyped ==
  ASSUME TypeInv, NEW t \in Threads,
         Scan(t) \/ SocketFails(t) \/ Connect(t) \/ RemoveChild(t)
  PROVE  TypeInv'
<1>1. WellPlaced(thread[t]) /\ t[1] \in Procs
  BY Pairs DEF TypeInv, Placed
<1>2. CASE Scan(t)
  <2>1. CASE Finish(t, {})
    BY <1>2, <2>1, FinishTyped DEF Scan, TypeInv, Tables, Queues, table, memory
  <2>2. CASE UNCHANGED mutex /\ \E s \in Others(t) :
               thread' = [thread EXCEPT ![t].pc = "connect", ![t].pos = s]
    <3>1. PICK s \in Others(t) : thread' = [thread EXCEPT ![t].pc = "connect", ![t].pos = s]
      BY <2>2
    <3>2. thread[t].pos \in Nat /\ thread[t].pos # 0
      BY <1>1, <1>2 DEF Scan, WellPlaced, Thread
    <3>3. s \in Slots /\ s \in Nat
      BY <3>2, ProcessAssumption DEF Others, Slots
    <3> DEFINE r == [thread[t] EXCEPT !.pc = "connect", !.pos = s]
    <3>4. r \in Thread /\ r.pc = "connect" /\ r.pos = s
      BY <1>1, <3>3 DEF WellPlaced, Thread
    <3> HIDE DEF r
    <3>5. WellPlaced(r)
      BY <3>3, <3>4 DEF WellPlaced
    <3>6. WellPlaced([thread[t] EXCEPT !.pc = "connect", !.pos = s])
      BY <3>5 DEF r
    <3>7. Tables' /\ UNCHANGED backlog
      BY <1>2, <2>2 DEF Scan, TypeInv, Tables, table, memory
    <3> QED
      BY <3>1, <3>6, <3>7, PlacesTyped DEF TypeInv, Placed
  <2> QED
    BY <1>2, <2>1, <2>2 DEF Scan
<1>3. CASE SocketFails(t)
  BY <1>3, FinishTyped DEF SocketFails, TypeInv, Tables, Queues, table, memory
<1>4. CASE Connect(t)
  <2> DEFINE q == sock[children[thread[t].pos].name]
             c == [from |-> t, block |-> NoBlock, open |-> {t[1]}]
  <2>1. q \in Threads
    <3>1. thread[t].pos \in Slots
      BY <1>1, <1>4 DEF Connect, WellPlaced
    <3>2. children[thread[t].pos].name \in Names
      BY <3>1 DEF TypeInv, Tables
    <3> QED
      BY <1>4, <3>2 DEF Connect, CanConnect, TypeInv, Tables
  <2>2. c \in Connection
    BY <1>1 DEF Connection
  <2>3. /\ thread' = [thread EXCEPT ![t].pc = "write", ![t].peer = q]
        /\ backlog' = [backlog EXCEPT ![q] = Append(@, c)] /\ thread[t].pc = "connect"
    BY <1>4 DEF Connect
  <2> HIDE DEF q, c
  <2>4. Placed'
    <3>1. WellPlaced([thread[t] EXCEPT !.pc = "write", !.peer = q])
      BY <1>1, <2>1, <2>3 DEF WellPlaced, Thread
    <3> QED
      BY <2>3, <3>1 DEF TypeInv, Placed
  <2>5. Queues'
    <3>1. Append(backlog[q], c) \in Seq(Connection)
      BY <2>1, <2>2, AppendProperties DEF TypeInv, Queues
    <3> QED
      BY <2>3, <3>1 DEF TypeInv, Queues
  <2>6. Tables'
    BY <1>4 DEF Connect, TypeInv, Tables, table, memory
  <2> QED
    BY <2>4, <2>5, <2>6 DEF TypeInv
<1>5. CASE RemoveChild(t)
  <2> DEFINE s == thread[t].pos
  <2>1. CASE /\ \E cancelled \in Cancelled(t[1]) : t \notin cancelled /\ Finish(t, cancelled)
             /\ FreeEntry(t[1], s)
             /\ UNCHANGED <<proc, backlog, visible, guard>>
    <3>1. Placed' /\ mutex' \in Procs \cup {NoProc, Destroyed}
      BY <2>1, FinishTyped
    <3>2. Tables'
      BY <1>1, <1>5, <2>1, <3>1, FreeTyped DEF RemoveChild, TypeInv, Tables
    <3> QED
      BY <2>1, <3>1, <3>2 DEF TypeInv, Queues
  <2>2. CASE /\ children' = [children EXCEPT ![s].pid = NoProc]
             /\ thread' = [thread EXCEPT ![t] = Gone]
             /\ UNCHANGED <<proc, sock, holders, backlog, mutex, visible, guard>>
    <3>1. Tables'
      BY <1>5, <2>2 DEF RemoveChild, TypeInv, Tables
    <3> QED
      BY <2>2, <3>1, PlacesTyped, Values DEF TypeInv, Placed
  <2>3. CASE /\ thread' = [thread EXCEPT ![t].pc = "hung"]
             /\ UNCHANGED <<proc, children, sock, holders, backlog, mutex, visible, guard>>
    <3>1. Tables'
      BY <1>5, <2>3 DEF RemoveChild, TypeInv, Tables
    <3>2. WellPlaced([thread[t] EXCEPT !.pc = "hung"])
      BY <1>1, Values, Moved
    <3> QED
      BY <2>3, <3>1, <3>2, PlacesTyped DEF TypeInv, Placed
  <2>4. CASE End(t[1], "fault") /\ UNCHANGED <<children, sock>>
    BY <1>1, <1>5, <2>4, EndTyped DEF RemoveChild, TypeInv, Tables
  <2> QED
    BY <1>5, <2>1, <2>2, <2>3, <2>4 DEF RemoveChild
<1> QED
  BY <1>2, <1>3, <1>4, <1>5

(* The connection a thread has at its peer changes, wherever it is.        *)
LEMMA QueueChanged ==
  ASSUME Queues, DOMAIN backlog' = Threads, backlog' = [q \in Threads |-> backlog'[q]],
         \A q \in Threads :
           /\ DOMAIN backlog'[q] = DOMAIN backlog[q]
           /\ backlog'[q] = [k \in DOMAIN backlog'[q] |-> backlog'[q][k]]
           /\ \A k \in DOMAIN backlog[q] : backlog'[q][k] \in Connection
  PROVE  Queues'
<1>1. ASSUME NEW q \in Threads PROVE backlog'[q] \in Seq(Connection)
  BY MapSeq DEF Queues
<1> QED
  BY <1>1 DEF Queues

LEMMA WriteTyped ==
  ASSUME TypeInv, NEW t \in Threads, Write(t)
  PROVE  TypeInv'
<1>1. WellPlaced(thread[t]) /\ t[1] \in Procs /\ thread[t].pc = "write"
  BY Pairs DEF TypeInv, Placed, Write
<1>2. CASE End(t[1], "sigpipe")
  BY <1>1, <1>2, EndTyped DEF Write, TypeInv, Tables, table
<1>3. CASE ~WriteEnds(PeerOpen(t))
  <2> DEFINE b == thread[t].block
             Sent(c) == [c EXCEPT !.block = b]
             Seen(q) == IF IsFrom(t, thread[q].conn)
                        THEN [thread[q] EXCEPT !.conn = Sent(thread[q].conn)] ELSE thread[q]
             Queue(q) == [k \in DOMAIN backlog[q] |->
                            IF IsFrom(t, backlog[q][k]) THEN Sent(backlog[q][k]) ELSE backlog[q][k]]
  <2>1. /\ thread' = [q \in Threads |-> IF q # t THEN Seen(q) ELSE [Seen(q) EXCEPT !.pc = "read"]]
        /\ backlog' = [q \in Threads |-> Queue(q)]
    BY <1>1, <1>3 DEF Write, AtPeer
  <2>2. b \in MProtectBlock \cup {NoBlock}
    BY <1>1 DEF WellPlaced, Thread
  <2>3. \A c \in Connection : Sent(c) \in Connection
    BY <2>2 DEF Connection
  <2>4. ASSUME NEW c, IsFrom(t, c), c \in Connection \cup {NoConn} PROVE c \in Connection
    BY <2>4, Pairs DEF IsFrom, NoConn
  <2>5. Queues'
    <3>1. ASSUME NEW q \in Threads, NEW k \in DOMAIN backlog[q]
          PROVE  backlog'[q][k] \in Connection
      <4>1. backlog[q][k] \in Connection
        BY ElementOfSeq, LenProperties DEF TypeInv, Queues
      <4> QED
        BY <2>1, <2>3, <4>1
    <3> QED
      BY <2>1, <3>1, QueueChanged DEF TypeInv
  <2>6. ASSUME NEW q \in Threads
        PROVE  /\ Seen(q) \in Thread /\ Seen(q).pc = thread[q].pc
               /\ Seen(q).pos = thread[q].pos /\ Seen(q).slot = thread[q].slot
    <3>1. thread[q] \in Thread
      BY DEF TypeInv, Placed, WellPlaced
    <3>2. CASE IsFrom(t, thread[q].conn)
      <4>1. Sent(thread[q].conn) \in Connection
        BY <2>3, <2>4, <3>1, <3>2 DEF Thread
      <4> HIDE DEF Sent
      <4> QED
        BY <3>1, <3>2, <4>1 DEF Thread
    <3> QED
      BY <3>1, <3>2
  <2> HIDE DEF Seen
  <2>7. ASSUME NEW q \in Threads PROVE WellPlaced(thread'[q])
    <3>1. WellPlaced(thread[q])
      BY DEF TypeInv, Placed
    <3>2. CASE q # t
      BY <2>1, <2>6, <3>1, <3>2 DEF WellPlaced
    <3>3. CASE q = t
      <4>1. Seen(q) \in Thread /\ Seen(q).pos = thread[q].pos
        BY <2>6
      <4>2. thread'[q] = [Seen(q) EXCEPT !.pc = "read"]
        BY <2>1, <3>3
      <4>3. thread'[q] \in Thread
        BY <4>1, <4>2 DEF Thread
      <4>4. thread'[q].pc = "read" /\ thread'[q].pos = thread[q].pos
        BY <4>1, <4>2 DEF Thread
      <4> QED
        BY <1>1, <3>3, <4>3, <4>4 DEF WellPlaced
    <3> QED
      BY <3>2, <3>3
  <2>8. Tables'
    BY <1>3 DEF Write, TypeInv, Tables, table
  <2> QED
    BY <2>1, <2>5, <2>7, <2>8 DEF TypeInv, Placed
<1> QED
  BY <1>1, <1>2, <1>3 DEF Write

LEMMA ReadTyped ==
  ASSUME TypeInv, NEW t \in Threads, ReadAnswer(t)
  PROVE  TypeInv'
<1>1. WellPlaced(thread[t]) /\ thread[t].pc = "read"
  BY DEF TypeInv, Placed, ReadAnswer
<1> DEFINE Seen(q) == IF IsFrom(t, thread[q].conn)
                      THEN [thread[q] EXCEPT !.conn = Close(t[1], thread[q].conn)] ELSE thread[q]
           Queue(q) == [k \in DOMAIN backlog[q] |->
                          IF IsFrom(t, backlog[q][k]) THEN Close(t[1], backlog[q][k])
                          ELSE backlog[q][k]]
<1>2. /\ thread' = [q \in Threads |->
            IF q # t THEN Seen(q)
            ELSE [Seen(q) EXCEPT !.pc = "scan", !.pos = @ + 1, !.peer = NoThread,
                                 !.ends = {}, !.answered = FALSE]]
      /\ backlog' = [q \in Threads |-> Queue(q)]
  BY <1>1 DEF ReadAnswer, AtPeer
<1>3. Queues'
  <2>1. ASSUME NEW q \in Threads, NEW k \in DOMAIN backlog[q]
        PROVE  backlog'[q][k] \in Connection
    <3>1. backlog[q][k] \in Connection
      BY ElementOfSeq, LenProperties DEF TypeInv, Queues
    <3> QED
      BY <1>2, <3>1, CloseTyped
  <2> QED
    BY <1>2, <2>1, QueueChanged DEF TypeInv
<1>4. ASSUME NEW q \in Threads
      PROVE  /\ Seen(q) \in Thread /\ Seen(q).pc = thread[q].pc
             /\ Seen(q).pos = thread[q].pos /\ Seen(q).slot = thread[q].slot
  <2>1. thread[q] \in Thread
    BY DEF TypeInv, Placed, WellPlaced
  <2> DEFINE c == Close(t[1], thread[q].conn)
  <2>2. c \in Connection \cup {NoConn}
    BY <2>1, CloseTyped DEF Thread
  <2> HIDE DEF c
  <2>3. CASE IsFrom(t, thread[q].conn)
    <3>1. Seen(q) = [thread[q] EXCEPT !.conn = c]
      BY <2>3 DEF c
    <3>2. Seen(q) \in Thread
      BY <2>1, <2>2, <3>1 DEF Thread
    <3>3. Seen(q).pc = thread[q].pc /\ Seen(q).pos = thread[q].pos /\ Seen(q).slot = thread[q].slot
      BY <2>1, <3>1 DEF Thread
    <3> QED
      BY <3>2, <3>3
  <2> QED
    BY <2>1, <2>3
<1> HIDE DEF Seen
<1>5. ASSUME NEW q \in Threads PROVE WellPlaced(thread'[q])
  <2>1. WellPlaced(thread[q])
    BY DEF TypeInv, Placed
  <2>2. CASE q # t
    BY <1>2, <1>4, <2>1, <2>2 DEF WellPlaced
  <2>3. CASE q = t
    <3>1. thread[q].pos \in Nat
      BY <2>1 DEF WellPlaced, Thread
    <3>2. PICK n \in Nat : n = thread[q].pos + 1 /\ n # 0
      BY <3>1
    <3>3. /\ thread'[q] = [Seen(q) EXCEPT !.pc = "scan", !.pos = n, !.peer = NoThread,
                                         !.ends = {}, !.answered = FALSE]
          /\ Seen(q) \in Thread
      BY <1>2, <1>4, <2>3, <3>2
    <3>4. thread'[q] \in Thread /\ thread'[q].pc = "scan" /\ thread'[q].pos = n
      BY <3>3 DEF Thread
    <3>5. thread'[q].pos # 0
      BY <3>4, <3>2
    <3>6. thread'[q].pc \notin {"start", "claim", "claim father", "connect", "write", "read"}
      BY <3>4
    <3> QED
      BY <3>4, <3>5, <3>6 DEF WellPlaced
  <2> QED
    BY <2>2, <2>3
<1>6. Tables'
  BY DEF ReadAnswer, TypeInv, Tables, table, memory
<1> QED
  BY <1>2, <1>3, <1>5, <1>6 DEF TypeInv, Placed

(* The server closes its connection. *)
LEMMA HangUpTyped ==
  ASSUME TypeInv, NEW t \in Threads, HangUp(t)
  PROVE  Placed'
<1> SUFFICES ASSUME NEW q \in Threads PROVE WellPlaced(thread'[q])
  BY DEF HangUp, Placed
<1>1. WellPlaced(thread[q]) /\ thread[q].ends \ {t[1]} \in SUBSET Procs
  BY DEF TypeInv, Placed, WellPlaced, Thread
<1>2. CASE q = t
  <2>1. thread'[q] = [thread[q] EXCEPT !.pc = "accept", !.conn = NoConn]
    BY <1>2 DEF HangUp
  <2>2. WellPlaced([thread[q] EXCEPT !.pc = "accept", !.conn = NoConn])
    BY <1>1, Values, Moved
  <2> QED
    BY <2>1, <2>2
<1>3. CASE q # t
  <2> DEFINE e == thread[q].ends \ {t[1]}
  <2>1. thread'[q] = thread[q] \/ thread'[q] = [thread[q] EXCEPT !.ends = e]
    BY <1>3 DEF HangUp
  <2>2. e \in SUBSET Procs
    BY <1>1
  <2> HIDE DEF e
  <2>3. WellPlaced([thread[q] EXCEPT !.ends = e])
    BY <1>1, <2>2, Values, Shared
  <2> QED
    BY <1>1, <2>1, <2>3
<1> QED
  BY <1>2, <1>3

LEMMA StartServerTyped ==
  ASSUME TypeInv, NEW t \in Threads, StartServer(t)
  PROVE  TypeInv'
<1>1. WellPlaced(thread[t]) /\ t[1] \in Procs
  BY Pairs DEF TypeInv, Placed
<1>2. thread[t].slot \in Slots
  BY <1>1 DEF StartServer, WellPlaced
<1>3. children[thread[t].slot].pid \in Names
  BY <1>2 DEF TypeInv, Tables, Names
<1>4. children' \in [Slots -> [pid : Procs \cup {NoProc}, name : Names]]
  BY <1>2, <1>3 DEF StartServer, TypeInv, Tables
<1>5. sock' \in [Names -> Threads \cup {NoThread}] /\ holders' \in [Threads -> SUBSET Procs]
  BY <1>1, <1>3 DEF StartServer, TypeInv, Tables
<1>6. Tables'
  BY <1>4, <1>5 DEF StartServer, TypeInv, Tables, memory
<1>7. WellPlaced([thread[t] EXCEPT !.pc = "accept"])
  BY <1>1, Values, Moved
<1>8. thread' = [thread EXCEPT ![t] = Gone] \/ thread' = [thread EXCEPT ![t].pc = "accept"]
  BY DEF StartServer
<1>9. UNCHANGED backlog
  BY DEF StartServer
<1> QED
  BY <1>6, <1>7, <1>8, <1>9, PlacesTyped, Values DEF TypeInv, Placed

LEMMA AcceptTyped ==
  ASSUME TypeInv, NEW t \in Threads, Accept(t)
  PROVE  TypeInv'
<1>1. WellPlaced(thread[t]) /\ t[1] \in Procs /\ backlog[t] \in Seq(Connection)
  BY Pairs DEF TypeInv, Placed, Queues
<1>2. Tables'
  BY DEF Accept, TypeInv, Tables, table, memory
<1>3. CASE thread' = [thread EXCEPT ![t] = Gone] /\ UNCHANGED backlog
  BY <1>2, <1>3, PlacesTyped, Values DEF TypeInv, Placed
<1>4. CASE t[1] \in holders[t]
  <2> DEFINE c == Head(backlog[t])
  <2>1. /\ backlog[t] # <<>>
        /\ backlog' = [backlog EXCEPT ![t] = Tail(@)]
        /\ thread' = [q \in Threads |->
              IF q = t THEN [thread[t] EXCEPT !.pc = "serve", !.conn = c]
              ELSE IF IsFrom(q, c) THEN [thread[q] EXCEPT !.ends = {t[1]}]
              ELSE thread[q]]
    BY <1>4 DEF Accept
  <2>2. c \in Connection /\ Tail(backlog[t]) \in Seq(Connection)
    BY <1>1, <2>1, HeadTailProperties
  <2> HIDE DEF c
  <2>3. Queues'
    BY <2>1, <2>2 DEF TypeInv, Queues
  <2>4. ASSUME NEW q \in Threads PROVE WellPlaced(thread'[q])
    <3>1. WellPlaced(thread[q])
      BY DEF TypeInv, Placed
    <3>2. \/ thread'[q] = [thread[t] EXCEPT !.pc = "serve", !.conn = c]
          \/ thread'[q] = [thread[q] EXCEPT !.ends = {t[1]}]
          \/ thread'[q] = thread[q]
      BY <2>1
    <3>3. WellPlaced([thread[t] EXCEPT !.pc = "serve", !.conn = c])
      BY <1>1, <2>2, Moved
    <3>4. WellPlaced([thread[q] EXCEPT !.ends = {t[1]}])
      <4>1. {t[1]} \in SUBSET Procs
        BY <1>1
      <4> QED
        BY <3>1, <4>1, Values, Shared
    <3> QED
      BY <3>1, <3>2, <3>3, <3>4
  <2> QED
    BY <1>2, <2>1, <2>3, <2>4 DEF TypeInv, Placed
<1> QED
  BY <1>3, <1>4 DEF Accept

LEMMA HandleTyped ==
  ASSUME TypeInv, NEW t \in Threads, Handle(t)
  PROVE  TypeInv'
<1> DEFINE block == thread[t].conn.block
           sent == [block EXCEPT !.sourcePID = t[1]]
           c == [thread[t].conn EXCEPT !.block = NoBlock]
<1>1. /\ WellPlaced(thread[t]) /\ t[1] \in Procs /\ DOMAIN thread = Threads
      /\ thread[t].conn \in Connection \cup {NoConn} /\ block # NoBlock
  BY Pairs DEF TypeInv, Placed, WellPlaced, Thread, Handle
<1>2. thread[t].conn \in Connection /\ block \in MProtectBlock
  BY <1>1 DEF Connection, NoConn
<1>3. sent \in MProtectBlock /\ c \in Connection
  BY <1>1, <1>2 DEF MProtectBlock, Connection
<1>4. Tables' /\ UNCHANGED backlog
  <2>1. block.header \in Headers
    BY <1>2 DEF MProtectBlock
  <2> QED
    BY <2>1 DEF Handle, SetGuard, TypeInv, Tables, table
<1>5. thread' = [thread EXCEPT ![t] = [thread[t] EXCEPT !.pc = "scan", !.pos = 1,
                                                      !.block = sent, !.conn = c]]
  BY <1>1 DEF Handle, Distributing, WellPlaced, Thread
<1> HIDE DEF sent, c
<1>6. WellPlaced([thread[t] EXCEPT !.conn = c])
  BY <1>1, <1>3, HasRead
<1>7. WellPlaced([[thread[t] EXCEPT !.conn = c] EXCEPT !.pc = "scan", !.pos = 1, !.block = sent])
  BY <1>3, <1>6, ScanTyped
<1>8. [[thread[t] EXCEPT !.conn = c] EXCEPT !.pc = "scan", !.pos = 1, !.block = sent]
        = [thread[t] EXCEPT !.pc = "scan", !.pos = 1, !.block = sent, !.conn = c]
  BY <1>1 DEF WellPlaced, Thread
<1> QED
  BY <1>1, <1>4, <1>5, <1>7, <1>8, PlacesTyped

LEMMA RefuseTyped ==
  ASSUME TypeInv, NEW t \in Threads, Refuse(t)
  PROVE  TypeInv'
<1>1. t[1] \in Procs
  BY Pairs
<1>2. CASE End(t[1], "sigpipe")
  BY <1>1, <1>2, EndTyped DEF Refuse, TypeInv, Tables, table
<1>3. CASE HangUp(t) /\ UNCHANGED <<proc, holders, backlog, mutex, visible, guard>>
  <2>1. Tables'
    BY <1>3 DEF Refuse, TypeInv, Tables, table
  <2> QED
    BY <1>3, <2>1, HangUpTyped DEF TypeInv, Queues
<1> QED
  BY <1>2, <1>3 DEF Refuse

LEMMA AnswerTyped ==
  ASSUME TypeInv, NEW t \in Threads, Answer(t)
  PROVE  TypeInv'
<1>1. t[1] \in Procs
  BY Pairs
<1>2. CASE End(t[1], "sigpipe")
  BY <1>1, <1>2, EndTyped DEF Answer, TypeInv, Tables, table
<1>3. CASE ~WriteEnds(thread[t].conn.open)
  <2>1. Tables' /\ UNCHANGED backlog
    BY <1>3 DEF Answer, TypeInv, Tables, table
  <2>2. ASSUME NEW q \in Threads PROVE WellPlaced(thread'[q])
    <3>1. WellPlaced(thread[q]) /\ WellPlaced(thread[t])
      BY DEF TypeInv, Placed
    <3>2. WellPlaced([thread[t] EXCEPT !.pc = "serve", !.block = NoBlock, !.pos = 0])
      <4> DEFINE r == [thread[t] EXCEPT !.pc = "serve", !.block = NoBlock, !.pos = 0]
      <4>1. r \in Thread /\ r.pc = "serve"
        BY <3>1 DEF WellPlaced, Thread
      <4> HIDE DEF r
      <4>2. WellPlaced(r)
        BY <4>1 DEF WellPlaced
      <4> QED
        BY <4>2 DEF r
    <3>3. WellPlaced([thread[q] EXCEPT !.answered = TRUE])
      BY <3>1, WasAnswered
    <3> QED
      BY <1>3, <3>1, <3>2, <3>3 DEF Answer
  <2> QED
    BY <1>3, <2>1, <2>2, PlacesTyped DEF Answer
<1> QED
  BY <1>2, <1>3 DEF Answer

LEMMA ExitTyped ==
  ASSUME TypeInv, ExitMaster \/ \E p \in Procs : ExitChild(p) \/ Crash(p)
  PROVE  TypeInv'
<1>1. CASE ExitMaster
  <2>1. Client(Master) \in Threads
    BY Pairs, ProcessAssumption
  <2>2. WellPlaced([Idle EXCEPT !.pc = "stop", !.pos = 1])
    <3> DEFINE r == [Idle EXCEPT !.pc = "stop", !.pos = 1]
    <3>1. r \in Thread
      BY Values DEF Thread
    <3>2. r.pc = "stop"
      BY Values DEF Thread
    <3> HIDE DEF r
    <3>3. WellPlaced(r)
      BY <3>1, <3>2 DEF WellPlaced
    <3> QED
      BY <3>3 DEF r
  <2>3. Tables' /\ UNCHANGED backlog
    BY <1>1 DEF ExitMaster, TypeInv, Tables, table, memory
  <2> QED
    BY <1>1, <2>1, <2>2, <2>3, PlacesTyped DEF ExitMaster, TypeInv, Placed
<1>2. ASSUME NEW p \in Procs, ExitChild(p) PROVE TypeInv'
  <2>1. /\ children' \in [Slots -> [pid : Procs \cup {NoProc}, name : Names]]
        /\ sock' \in [Names -> Threads \cup {NoThread}]
    BY <1>2 DEF ExitChild, TypeInv, Tables
  <2> QED
    BY <1>2, <2>1, EndTyped DEF ExitChild
<1>3. ASSUME NEW p \in Procs, Crash(p) PROVE TypeInv'
  BY <1>3, EndTyped DEF Crash, TypeInv, Tables, table
<1> QED
  BY <1>1, <1>2, <1>3

LEMMA StopTyped ==
  ASSUME TypeInv, StopMprotect
  PROVE  TypeInv'
<1> DEFINE c == Client(Master)
           s == thread[c].pos
<1>1. c \in Threads /\ WellPlaced(thread[c]) /\ DOMAIN thread = Threads /\ Master \in Procs
  BY Pairs, ProcessAssumption DEF TypeInv, Placed
<1>2. PICK n \in Nat : n = s + 1
  <2>1. s \in Nat
    BY <1>1 DEF WellPlaced, Thread
  <2> QED
    BY <2>1
<1>3. thread[c].pc = "stop"
  BY DEF StopMprotect
<1>4. WellPlaced([thread[c] EXCEPT !.pos = n]) /\ WellPlaced([thread[c] EXCEPT !.pc = "hung"])
  BY <1>1, <1>3 DEF WellPlaced, Thread
<1>5. CASE (End(Master, "ended") \/ End(Master, "fault")) /\ UNCHANGED <<children, sock>>
  BY <1>1, <1>5, EndTyped DEF StopMprotect, TypeInv, Tables
<1>6. CASE /\ thread' = [thread EXCEPT ![c].pos = @ + 1] \/ thread' = [thread EXCEPT ![c].pc = "hung"]
           /\ UNCHANGED <<proc, children, sock, holders, backlog, mutex, visible, guard>>
  <2>1. Tables'
    BY <1>6 DEF StopMprotect, TypeInv, Tables
  <2>2. \A t \in Threads : \/ thread'[t] \in {thread[t], [thread[c] EXCEPT !.pos = n]}
                           \/ thread'[t] = [thread[c] EXCEPT !.pc = "hung"]
    BY <1>1, <1>2, <1>6
  <2> QED
    BY <1>1, <1>4, <1>6, <2>1, <2>2, PlacesTyped
<1>7. CASE /\ FreeEntry(Master, s)
           /\ \E cancelled \in IF children[s].pid = Master THEN {{}} ELSE Cancelled(Master) :
                thread' = [q \in Threads |->
                  IF q \in cancelled THEN Gone
                  ELSE IF q = c THEN [thread[c] EXCEPT !.pos = @ + 1] ELSE thread[q]]
           /\ UNCHANGED <<proc, backlog, mutex, visible, guard>>
  <2>1. Tables'
    BY <1>1, <1>7, FreeTyped DEF StopMprotect, TypeInv, Tables
  <2>2. /\ DOMAIN thread' = Threads
        /\ \A t \in Threads : thread'[t] \in {Gone, thread[t], [thread[c] EXCEPT !.pos = n]}
    BY <1>1, <1>2, <1>7
  <2> QED
    BY <1>4, <1>7, <2>1, <2>2, PlacesTyped, Values
<1> QED
  BY <1>5, <1>6, <1>7 DEF StopMprotect

(* Every step keeps the kinds of values.                                   *)
LEMMA NextTyped == TypeInv /\ [Next]_vars => TypeInv'
<1> SUFFICES ASSUME TypeInv, [Next]_vars PROVE TypeInv'
  OBVIOUS
<1>1. ASSUME NEW t \in Threads, Work(t) PROVE TypeInv'
  <2>1. t[1] \in Procs
    BY Pairs
  <2> QED
    BY <1>1, <2>1, DistributionTyped, WriteTyped, ReadTyped, StartServerTyped, AcceptTyped,
       HandleTyped, RefuseTyped, AnswerTyped, StartTyped, StopTyped DEF Work
<1>2. ASSUME NEW p \in Procs, Request(p) PROVE TypeInv'
  BY <1>2, ForkTyped, StartTyped, CallTyped, ExitTyped DEF Request
<1>3. CASE UNCHANGED vars
  BY <1>3 DEF vars, table, memory, TypeInv, Tables, Placed, Queues
<1> QED
  BY <1>1, <1>2, <1>3, ExitTyped DEF Next

(* The variables have the kinds of values they are meant to have, whatever *)
(* fails and whoever leaves: indices into children are entries, messages   *)
(* have a header, and who is connected to is a thread.                     *)
THEOREM DistributionTypes == Spec => []TypeOK
<1> QED
  BY InitTyped, NextTyped, TypeFollows, PTL DEF Spec

--------------------------------------------------------------------------------
(* One change at a time, while nobody leaves.                              *)
NobodyLeaves == Crashing = {} /\ Leaving = {} /\ "fault" \notin ForeignThread

Busy == {t \in Threads : InDistribution(t) \/ thread[t].pc = "answer"}

(* Where the connection of t is: with its server, or not accepted yet.     *)
AtServer(t, q) == IsFrom(t, thread[q].conn)
InQueue(t, q)  == \E k \in DOMAIN backlog[q] : IsFrom(t, backlog[q][k])

(* t has sent the change on, and the server that has it is at work.        *)
Waits(t) ==
  /\ thread[t].pc = "read" /\ ~thread[t].answered /\ thread[t].ends # {}
  /\ \A q \in Threads : ~InQueue(t, q) /\ (AtServer(t, q) => q \in Busy)

(* The threads at work stand in an order in which each but the last waits, *)
(* a server directly after the one it serves, the holder of the mutex      *)
(* first.                                                                  *)
Ordered(before) ==
  /\ \A t, u \in Busy : t # u => <<t, u>> \in before \/ <<u, t>> \in before
  /\ \A t, u \in Busy : t # u /\ <<t, u>> \in before => Waits(t)
  /\ \A t \in Threads, w \in Busy : AtServer(t, w) =>
       /\ t # w /\ <<t, w>> \in before
       /\ \A v \in Busy \ {t, w} : ~(<<t, v>> \in before /\ <<v, w>> \in before)
  /\ \A u \in Busy : u # Client(mutex) => <<u, Client(mutex)>> \notin before

(* t has sent the change on, and nobody works on it yet. *)
Asks(t, before) ==
  /\ t \in Threads
  /\ thread[t].pc = "read" /\ ~thread[t].answered /\ PeerOpen(t) # {}
  /\ \A u \in Busy \ {t} : <<t, u>> \notin before

OfHolder(block) ==
  /\ mutex \in Procs
  /\ block.header = thread[Client(mutex)].block.header
  /\ block.on = thread[Client(mutex)].block.on

(* Messages that nobody has read yet are from the last in the order. *)
Pending(before) ==
  \A q \in Threads :
    /\ thread[q].conn.block # NoBlock =>
         /\ thread[q].pc = "serve" /\ OfHolder(thread[q].conn.block)
         /\ \E t \in Threads : AtServer(t, q) /\ Asks(t, before)
    /\ \A k \in DOMAIN backlog[q] : backlog[q][k].block # NoBlock =>
         /\ OfHolder(backlog[q][k].block)
         /\ \E t \in Threads : IsFrom(t, backlog[q][k]) /\ Asks(t, before)

(* A thread has one connection, to its peer. *)
Linked ==
  /\ \A t \in Threads : thread[t].pc \in {"write", "read"} => thread[t].peer \in Threads
  /\ \A t, q \in Threads :
       /\ AtServer(t, q) => thread[t].peer = q /\ ~InQueue(t, q)
       /\ \A k \in DOMAIN backlog[q] : IsFrom(t, backlog[q][k]) =>
            thread[t].peer = q /\ \A l \in DOMAIN backlog[q] : IsFrom(t, backlog[q][l]) => l = k

(* Who neither writes nor reads has none open. *)
HasConn(t, c) == c.from = t /\ t[1] \in c.open

Closed ==
  \A t, q \in Threads : thread[t].pc \notin {"none", "write", "read"} =>
    ~HasConn(t, thread[q].conn) /\ \A k \in DOMAIN backlog[q] : ~HasConn(t, backlog[q][k])

(* A thread that has not begun yet has never had any. *)
Fresh(t) ==
  /\ thread[t].pc = "none"
  /\ \A q \in Threads : /\ thread[q].conn.from # t
                        /\ \A k \in DOMAIN backlog[q] : backlog[q][k].from # t

Unborn ==
  \A p \in Procs :
    /\ proc[p] = "absent" => \A role \in Roles : Fresh(<<p, role>>)
    /\ p \notin started \/ thread[Client(p)].pc = "claim" => Fresh(<<p, "server">>)
    /\ ~isFather \/ thread[Client(p)].pc = "claim father" => Fresh(<<p, "father">>)
    /\ thread[Client(p)].pc = "claim" => p \in started
    /\ thread[Client(p)].pc = "claim father" => isFather

(* Servers, and what keeps do_write from failing. *)
Serves ==
  /\ \A q \in Threads : thread[q].conn # NoConn =>
       q[2] # "client" /\ (thread[q].pc = "serve" \/ q \in Busy)
  /\ \A w \in Busy : w[2] # "client" => thread[w].conn.open # {}
  /\ \A t \in Threads : thread[t].pc = "write" => PeerOpen(t) # {}

Done(p, block) == (block.header \in guard[p]) = block.on

(* What is under way is the change of the mutex's holder, and it is made   *)
(* where a thread is at work or has answered.                              *)
Changed ==
  /\ \A t \in Busy : OfHolder(thread[t].block) /\ Done(t[1], thread[t].block)
  /\ \A t \in Threads : thread[t].answered =>
        /\ thread[t].pc = "read" /\ thread[t].peer \in Threads
        /\ proc[thread[t].peer[1]] # "absent"
        /\ Done(thread[t].peer[1], thread[t].block)

(* The master does not end either. *)
Stays == \A t \in Threads : thread[t].pc # "stop"

Frame == TypeInv /\ MutexInv
Links == Linked /\ Closed /\ Unborn /\ Serves /\ Changed /\ Stays
ChainInv == Frame /\ Links /\ \E before : Ordered(before) /\ Pending(before)

--------------------------------------------------------------------------------
LEMMA BusyPlaces ==
  ASSUME NEW t \in Threads
  PROVE  t \in Busy <=> thread[t].pc \in {"scan", "connect", "write", "read", "hung", "answer"}
  BY DEF Busy, InDistribution

(* The holder of the mutex is at work.                                     *)
LEMMA HolderBusy ==
  ASSUME MutexInv, mutex \in Procs
  PROVE  /\ Client(mutex) \in Threads /\ Client(mutex)[2] = "client"
         /\ InDistribution(Client(mutex)) /\ Client(mutex) \in Busy
  BY Pairs DEF MutexInv, Good, Busy

LEMMA HolderKept ==
  ASSUME mutex' = mutex,
         mutex \in Procs => thread'[Client(mutex)].block = thread[Client(mutex)].block
  PROVE  \A block : OfHolder(block)' <=> OfHolder(block)
  BY DEF OfHolder, Client

(* Who does not wait is the last: all others do.                           *)
LEMMA LastOne ==
  ASSUME NEW before, Ordered(before), NEW t \in Busy, ~Waits(t)
  PROVE  \A u \in Busy \ {t} : /\ Waits(u) /\ <<t, u>> \notin before
                               /\ <<u, t>> \in before
  BY DEF Ordered

(* Who is served by somebody at work waits.                                *)
LEMMA ServedWaits ==
  ASSUME NEW before, Ordered(before), NEW t \in Threads, NEW w \in Busy, AtServer(t, w)
  PROVE  t \in Busy /\ Waits(t)
<1>1. t \in Busy
  BY DEF AtServer, IsFrom, Busy, InDistribution
<1> QED
  BY <1>1 DEF Ordered

(* Only the last asks.                                                     *)
LEMMA OneAsks ==
  ASSUME NEW before, Ordered(before), NEW t \in Busy, ~Waits(t), NEW u, Asks(u, before)
  PROVE  u = t
<1>1. u \in Busy
  BY DEF Asks, Busy, InDistribution
<1> QED
  BY <1>1 DEF Asks, Ordered

LEMMA OneAsker ==
  ASSUME NEW before, Ordered(before), NEW t, Asks(t, before), NEW u, Asks(u, before)
  PROVE  u = t
<1>1. u \in Busy /\ t \in Busy
  BY DEF Asks, Busy, InDistribution
<1> QED
  BY <1>1 DEF Asks, Ordered

NothingPending ==
  \A q \in Threads : /\ thread[q].conn.block = NoBlock
                     /\ \A k \in DOMAIN backlog[q] : backlog[q][k].block = NoBlock

(* Whoever is at work and has nothing to wait for has no message under way. *)
LEMMA NoneUnderWay ==
  ASSUME NEW before, Ordered(before), Pending(before), NEW t \in Busy, ~Waits(t), ~Asks(t, before)
  PROVE  NothingPending
<1>1. \A u : ~Asks(u, before)
  BY OneAsks
<1> QED
  BY <1>1 DEF Pending, NothingPending

LEMMA NoneIsPending == ASSUME NEW before, NothingPending PROVE Pending(before)
  BY DEF Pending, NothingPending

(* A step after which fewer are at work, in the same order.                *)
LEMMA OrderedLess ==
  ASSUME NEW before, Ordered(before), Busy' \subseteq Busy,
         \A t, u \in Busy' : t # u /\ <<t, u>> \in before => Waits(t)',
         \A t \in Threads : \A w \in Busy' : AtServer(t, w)' => AtServer(t, w),
         mutex' = mutex
  PROVE  Ordered(before)'
<1>1. \A t, u \in Busy' : t # u => <<t, u>> \in before \/ <<u, t>> \in before
  BY DEF Ordered
<1>2. \A t \in Threads, w \in Busy' : AtServer(t, w)' =>
       /\ t # w /\ <<t, w>> \in before
       /\ \A v \in Busy' \ {t, w} : ~(<<t, v>> \in before /\ <<v, w>> \in before)
  BY DEF Ordered
<1>3. \A u \in Busy' : u # Client(mutex') => <<u, Client(mutex')>> \notin before
  BY DEF Ordered
<1> QED
  BY <1>1, <1>2, <1>3 DEF Ordered, Client

LEMMA OrderedNone ==
  ASSUME NEW before, Busy' = {}
  PROVE  Ordered(before)'
  BY DEF Ordered

LEMMA WaitsOn ==
  ASSUME NEW t \in Threads, Waits(t),
         thread'[t].pc = "read", ~thread'[t].answered, thread'[t].ends # {},
         \A q \in Threads : /\ InQueue(t, q)' => InQueue(t, q)
                            /\ AtServer(t, q)' => AtServer(t, q)
                            /\ AtServer(t, q)' /\ q \in Busy => q \in Busy'
  PROVE  Waits(t)'
  BY DEF Waits

(* At the start nobody is at work and nothing is connected.                *)
LEMMA InitChain == Init => ChainInv
<1> SUFFICES ASSUME Init PROVE ChainInv
  OBVIOUS
<1>1. ASSUME NEW t \in Threads
      PROVE  /\ thread[t].pc \in {"idle", "start", "none"} /\ thread[t].conn = NoConn
             /\ ~thread[t].answered /\ backlog[t] = <<>>
             /\ thread[t].pc # "none" => t = Client(Master) \/ t = <<Master, "server">>
  <2>1. /\ [Gone EXCEPT !.pc = "start", !.slot = 1].pc = "start"
        /\ [Gone EXCEPT !.pc = "start", !.slot = 1].conn = NoConn
        /\ ~[Gone EXCEPT !.pc = "start", !.slot = 1].answered
    BY DEF Gone
  <2> QED
    BY <2>1, Values DEF Init
<1>2. Frame
  BY InitTyped, InitMutex DEF Frame
<1>3. Busy = {}
  BY <1>1, BusyPlaces DEF Busy
<1>4. \A t \in Threads : ~HasConn(t, NoConn) /\ NoConn.from # t /\ NoConn.block = NoBlock
  BY Pairs DEF HasConn, NoConn, NoThread
<1>5. \A q \in Threads : DOMAIN backlog[q] = {}
  BY <1>1
<1>6. \A t \in Threads : thread[t].pc = "none" => Fresh(t)
  BY <1>1, <1>4, <1>5 DEF Fresh
<1>7. Unborn
  <2>1. ASSUME NEW p \in Procs, p # Master, NEW role \in Roles PROVE Fresh(<<p, role>>)
    <3>1. <<p, role>> \in Threads /\ <<p, role>> # Client(Master) /\ <<p, role>> # <<Master, "server">>
      BY <2>1 DEF Threads, Client
    <3> QED
      BY <1>1, <1>6, <3>1
  <2>2. Fresh(<<Master, "father">>)
    <3>1. /\ <<Master, "father">> \in Threads /\ <<Master, "father">> # Client(Master)
          /\ <<Master, "father">> # <<Master, "server">>
      BY ProcessAssumption DEF Threads, Client, Roles
    <3> QED
      BY <1>1, <1>6, <3>1
  <2>3. Master \in started /\ proc[Master] = "up"
    BY ProcessAssumption DEF Init
  <2>4. \A p \in Procs : thread[Client(p)].pc \notin {"claim", "claim father"}
    BY <1>1, Pairs
  <2> QED
    BY <2>1, <2>2, <2>3, <2>4 DEF Unborn, Roles
<1>8. Linked /\ Closed
  BY <1>1, <1>4, <1>5 DEF Linked, Closed, AtServer, InQueue, IsFrom, HasConn
<1>9. Serves /\ Changed /\ Stays
  BY <1>1, <1>3 DEF Serves, Changed, Stays
<1>10. \A before : Ordered(before) /\ Pending(before)
  BY <1>1, <1>3, <1>4, <1>5 DEF Ordered, Pending
<1> QED
  BY <1>2, <1>7, <1>8, <1>9, <1>10 DEF ChainInv, Links

--------------------------------------------------------------------------------
(* Steps beside what is under way.                                         *)
Aside == {"none", "idle", "claim", "father", "claim father", "start", "accept"}
AtIt  == {"scan", "connect", "hung"}

(* The same connection; others may have inherited its descriptor.          *)
SameConn(d, c) ==
  /\ d.from = c.from /\ d.block = c.block /\ c.open \subseteq d.open
  /\ \A t \in Threads : HasConn(t, d) => HasConn(t, c)

QuietPlaces ==
  \A t \in Threads :
    /\ \/ thread'[t].pc = thread[t].pc
       \/ {thread[t].pc, thread'[t].pc} \subseteq AtIt
       \/ {thread[t].pc, thread'[t].pc} \subseteq Aside
    /\ thread[t].pc \notin Aside => /\ thread'[t].block = thread[t].block
                                    /\ thread'[t].peer = thread[t].peer
                                    /\ thread[t].ends \subseteq thread'[t].ends
                                    /\ thread'[t].answered = thread[t].answered
    /\ thread'[t].answered => thread[t].answered
    /\ thread[t].pc = "none" /\ thread'[t].pc # "none" => Fresh(t)

QuietConns ==
  \A q \in Threads :
    /\ SameConn(thread'[q].conn, thread[q].conn)
    /\ thread[q].conn = NoConn => thread'[q].conn = NoConn
    /\ holders[q] # {} => holders'[q] # {}
    /\ DOMAIN backlog'[q] = DOMAIN backlog[q]
    /\ \A k \in DOMAIN backlog[q] : SameConn(backlog'[q][k], backlog[q][k])

QuietProcs ==
  /\ mutex' = mutex
  /\ \A p \in Procs : proc[p] # "absent" => proc'[p] # "absent" /\ guard'[p] = guard[p]

Quiet == QuietPlaces /\ QuietConns /\ QuietProcs

LEMMA SameHas ==
  ASSUME NEW d, NEW c, SameConn(d, c), NEW t \in Threads
  PROVE  HasConn(t, d) <=> HasConn(t, c)
  BY DEF SameConn, HasConn

LEMMA QuietView ==
  ASSUME Quiet
  PROVE  /\ Busy' = Busy
         /\ \A t, q \in Threads : AtServer(t, q)' <=> AtServer(t, q)
         /\ \A t, q \in Threads : InQueue(t, q)' <=> InQueue(t, q)
         /\ \A t, q \in Threads : \A k \in DOMAIN backlog[q] :
              IsFrom(t, backlog[q][k])' <=> IsFrom(t, backlog[q][k])
<1>1. Busy' = Busy
  <2>1. \A t \in Threads : t \in Busy' <=> thread'[t].pc \in {"scan", "connect", "write", "read", "hung", "answer"}
    BY DEF Busy, InDistribution
  <2>2. \A t \in Threads : t \in Busy' <=> t \in Busy
    BY <2>1, BusyPlaces DEF Quiet, QuietPlaces, AtIt, Aside
  <2> QED
    BY <2>2 DEF Busy
<1>2. \A t \in Threads : thread'[t].pc \in {"write", "read"} <=> thread[t].pc \in {"write", "read"}
  BY DEF Quiet, QuietPlaces, AtIt, Aside
<1>3. ASSUME NEW t \in Threads, NEW q \in Threads PROVE AtServer(t, q)' <=> AtServer(t, q)
  <2>1. HasConn(t, thread'[q].conn) <=> HasConn(t, thread[q].conn)
    BY SameHas DEF Quiet, QuietConns
  <2> QED
    BY <1>2, <2>1 DEF AtServer, IsFrom, HasConn
<1>4. ASSUME NEW t \in Threads, NEW q \in Threads, NEW k \in DOMAIN backlog[q]
      PROVE  IsFrom(t, backlog[q][k])' <=> IsFrom(t, backlog[q][k])
  <2>1. HasConn(t, backlog'[q][k]) <=> HasConn(t, backlog[q][k])
    BY SameHas DEF Quiet, QuietConns
  <2> QED
    BY <1>2, <2>1 DEF IsFrom, HasConn
<1>5. \A q \in Threads : DOMAIN backlog'[q] = DOMAIN backlog[q]
  BY DEF Quiet, QuietConns
<1>6. \A t, q \in Threads : InQueue(t, q)' <=> InQueue(t, q)
  BY <1>4, <1>5 DEF InQueue
<1> QED
  BY <1>1, <1>3, <1>4, <1>6

(* Which end of the connection of t at q is open. *)
LEMMA OpenAt ==
  ASSUME NEW t \in Threads
  PROVE  PeerOpen(t) = IF InQueue(t, thread[t].peer) THEN holders[thread[t].peer] ELSE thread[t].ends
  BY DEF PeerOpen, InQueue

LEMMA QuietOpen ==
  ASSUME Quiet, NEW t \in Threads, thread[t].pc \in {"write", "read"}, PeerOpen(t) # {},
         thread[t].peer \in Threads
  PROVE  PeerOpen(t)' # {}
<1>1. PICK q \in Threads : q = thread[t].peer
  OBVIOUS
<1>2. thread'[t].peer = q /\ thread[t].ends \subseteq thread'[t].ends
  BY <1>1 DEF Quiet, QuietPlaces, Aside
<1>3. holders[q] # {} => holders'[q] # {}
  BY DEF Quiet, QuietConns
<1>4. InQueue(t, q)' <=> InQueue(t, q)
  BY QuietView
<1>5. PeerOpen(t) = IF InQueue(t, q) THEN holders[q] ELSE thread[t].ends
  BY <1>1 DEF PeerOpen, InQueue
<1>6. PeerOpen(t)' = IF InQueue(t, q)' THEN holders'[q] ELSE thread'[t].ends
  BY <1>2 DEF PeerOpen, InQueue
<1> QED
  BY <1>2, <1>3, <1>4, <1>5, <1>6

(* A step beside what is under way keeps the order, and the messages with  *)
(* it.                                                                     *)
LEMMA QuietOrder ==
  ASSUME Quiet, NEW before, Ordered(before)
  PROVE  Ordered(before)'
<1>1. ASSUME NEW t \in Threads, Waits(t) PROVE Waits(t)'
  <2>1. /\ thread'[t].pc = "read" /\ ~thread'[t].answered
        /\ thread[t].ends \subseteq thread'[t].ends /\ thread[t].ends # {}
    BY <1>1 DEF Quiet, QuietPlaces, Aside, AtIt, Waits
  <2> QED
    BY <1>1, <2>1, QuietView, WaitsOn
<1>2. mutex' = mutex
  BY DEF Quiet, QuietProcs
<1>3. \A t, u \in Busy' : t # u /\ <<t, u>> \in before => Waits(t)'
  BY <1>1, QuietView DEF Ordered, Busy
<1>4. Busy' \subseteq Busy /\ Busy \subseteq Threads
  BY QuietView DEF Busy
<1>5. \A t \in Threads : \A w \in Busy' : AtServer(t, w)' => AtServer(t, w)
  BY <1>4, QuietView
<1> QED
  BY <1>2, <1>3, <1>4, <1>5, OrderedLess

LEMMA QuietHolder ==
  ASSUME Quiet, MutexInv
  PROVE  /\ mutex' = mutex
         /\ mutex \in Procs => thread'[Client(mutex)].block = thread[Client(mutex)].block
<1>1. ASSUME mutex \in Procs PROVE thread'[Client(mutex)].block = thread[Client(mutex)].block
  <2>1. Client(mutex) \in Threads /\ thread[Client(mutex)].pc \notin Aside
    BY <1>1, HolderBusy DEF InDistribution, Aside
  <2> QED
    BY <2>1 DEF Quiet, QuietPlaces
<1> QED
  BY <1>1 DEF Quiet, QuietProcs

LEMMA QuietPending ==
  ASSUME Quiet, MutexInv, Linked, NEW before, Pending(before)
  PROVE  Pending(before)'
<1>1. \A block : OfHolder(block) => OfHolder(block)'
  BY QuietHolder, HolderKept
<1>2. ASSUME NEW t \in Threads, Asks(t, before), thread[t].peer \in Threads PROVE Asks(t, before)'
  <2>1. thread'[t].pc = "read" /\ ~thread'[t].answered
    BY <1>2 DEF Asks, Quiet, QuietPlaces, Aside, AtIt
  <2>2. PeerOpen(t)' # {}
    BY <1>2, QuietOpen DEF Asks
  <2> QED
    BY <1>2, <2>1, <2>2, QuietView DEF Asks
<1>3. ASSUME NEW q \in Threads, thread'[q].conn.block # NoBlock
      PROVE  /\ thread'[q].pc = "serve" /\ OfHolder(thread[q].conn.block)'
             /\ \E t \in Threads : AtServer(t, q)' /\ Asks(t, before)'
  <2>1. thread'[q].conn.block = thread[q].conn.block
    BY DEF Quiet, QuietConns, SameConn
  <2>2. PICK t \in Threads : AtServer(t, q) /\ Asks(t, before)
    BY <1>3, <2>1 DEF Pending
  <2>3. thread[t].peer \in Threads
    BY <2>2 DEF Linked
  <2>4. thread[q].pc = "serve" /\ OfHolder(thread[q].conn.block)
    BY <1>3, <2>1 DEF Pending
  <2>5. OfHolder(thread[q].conn.block)'
    BY <1>1, <2>1, <2>4
  <2>6. thread'[q].pc = "serve"
    BY <2>4 DEF Quiet, QuietPlaces, Aside, AtIt
  <2> QED
    BY <1>2, <2>2, <2>3, <2>5, <2>6, QuietView
<1>4. ASSUME NEW q \in Threads, NEW k \in DOMAIN backlog'[q], backlog'[q][k].block # NoBlock
      PROVE  /\ OfHolder(backlog[q][k].block)'
             /\ \E t \in Threads : IsFrom(t, backlog[q][k])' /\ Asks(t, before)'
  <2>1. k \in DOMAIN backlog[q] /\ backlog'[q][k].block = backlog[q][k].block
    BY DEF Quiet, QuietConns, SameConn
  <2>2. PICK t \in Threads : IsFrom(t, backlog[q][k]) /\ Asks(t, before)
    BY <1>4, <2>1 DEF Pending
  <2>3. thread[t].peer \in Threads
    BY <2>1, <2>2 DEF Linked
  <2>4. OfHolder(backlog[q][k].block)
    BY <1>4, <2>1 DEF Pending
  <2>5. OfHolder(backlog[q][k].block)'
    BY <1>1, <2>1, <2>4
  <2> QED
    BY <1>2, <2>1, <2>2, <2>3, <2>5, QuietView
<1> QED
  BY <1>3, <1>4 DEF Pending

LEMMA QuietLinks ==
  ASSUME Quiet, MutexInv, Links, Unborn'
  PROVE  Links'
<1>1. \A t \in Threads : thread[t].pc \in {"write", "read"} => thread'[t].peer = thread[t].peer
  BY DEF Quiet, QuietPlaces, Aside
<1>2. Linked'
  <2>1. ASSUME NEW t \in Threads, NEW q \in Threads, AtServer(t, q)'
        PROVE  thread'[t].peer = q /\ ~InQueue(t, q)'
    <3>1. AtServer(t, q)
      BY <2>1, QuietView
    <3>2. thread[t].peer = q /\ ~InQueue(t, q) /\ thread[t].pc \in {"write", "read"}
      BY <3>1 DEF Links, Linked, AtServer, IsFrom
    <3> QED
      BY <1>1, <3>2, QuietView
  <2>2. ASSUME NEW t \in Threads, NEW q \in Threads, NEW k \in DOMAIN backlog'[q], IsFrom(t, backlog[q][k])'
        PROVE  /\ thread'[t].peer = q
               /\ \A l \in DOMAIN backlog'[q] : IsFrom(t, backlog[q][l])' => l = k
    <3>1. DOMAIN backlog'[q] = DOMAIN backlog[q]
      BY DEF Quiet, QuietConns
    <3>2. IsFrom(t, backlog[q][k])
      BY <2>2, <3>1, QuietView
    <3>3. /\ thread[t].peer = q /\ thread[t].pc \in {"write", "read"}
          /\ \A l \in DOMAIN backlog[q] : IsFrom(t, backlog[q][l]) => l = k
      BY <3>1, <3>2 DEF Links, Linked, IsFrom
    <3> QED
      BY <1>1, <3>1, <3>3, QuietView
  <2>3. \A t \in Threads : thread'[t].pc \in {"write", "read"} => thread[t].pc \in {"write", "read"}
    BY DEF Quiet, QuietPlaces, Aside, AtIt
  <2>4. \A t \in Threads : thread'[t].pc \in {"write", "read"} => thread'[t].peer \in Threads
    BY <1>1, <2>3 DEF Links, Linked
  <2> QED
    BY <2>1, <2>2, <2>4 DEF Linked
<1>3. Closed'
  <2>1. ASSUME NEW t \in Threads, NEW q \in Threads, thread'[t].pc \notin {"none", "write", "read"}
        PROVE  /\ ~HasConn(t, thread[q].conn)
               /\ \A k \in DOMAIN backlog[q] : ~HasConn(t, backlog[q][k])
    <3>1. CASE thread[t].pc = "none"
      BY <2>1, <3>1 DEF Quiet, QuietPlaces, Fresh, HasConn
    <3>2. CASE thread[t].pc # "none"
      <4>1. thread[t].pc \notin {"none", "write", "read"}
        BY <2>1, <3>2 DEF Quiet, QuietPlaces, Aside, AtIt
      <4> QED
        BY <4>1 DEF Links, Closed
    <3> QED
      BY <3>1, <3>2
  <2>2. \A q \in Threads : /\ SameConn(thread'[q].conn, thread[q].conn)
                           /\ DOMAIN backlog'[q] = DOMAIN backlog[q]
                           /\ \A k \in DOMAIN backlog[q] : SameConn(backlog'[q][k], backlog[q][k])
    BY DEF Quiet, QuietConns
  <2>3. ASSUME NEW t \in Threads, NEW q \in Threads, thread'[t].pc \notin {"none", "write", "read"}
        PROVE  /\ ~HasConn(t, thread'[q].conn)
               /\ \A k \in DOMAIN backlog'[q] : ~HasConn(t, backlog'[q][k])
    BY <2>1, <2>2, <2>3, SameHas
  <2> QED
    BY <2>3 DEF Closed, HasConn
<1>4. Serves'
  <2>1. ASSUME NEW q \in Threads, thread'[q].conn # NoConn
        PROVE  q[2] # "client" /\ (thread'[q].pc = "serve" \/ q \in Busy')
    <3>1. thread[q].conn # NoConn
      BY <2>1 DEF Quiet, QuietConns
    <3>2. q[2] # "client" /\ (thread[q].pc = "serve" \/ q \in Busy)
      BY <3>1 DEF Links, Serves
    <3> QED
      BY <3>2, QuietView DEF Quiet, QuietPlaces, Aside, AtIt
  <2>2. ASSUME NEW w \in Busy', w[2] # "client" PROVE thread'[w].conn.open # {}
    <3>1. w \in Busy /\ w \in Threads
      BY QuietView DEF Busy
    <3>2. thread[w].conn.open # {} /\ thread[w].conn.open \subseteq thread'[w].conn.open
      BY <2>2, <3>1 DEF Links, Serves, Quiet, QuietConns, SameConn
    <3> QED
      BY <3>2
  <2>3. ASSUME NEW t \in Threads, thread'[t].pc = "write"
        PROVE  PeerOpen(t)' # {}
    <3>1. thread[t].pc = "write"
      BY <2>3 DEF Quiet, QuietPlaces, Aside, AtIt
    <3>2. thread[t].peer \in Threads /\ PeerOpen(t) # {}
      BY <3>1 DEF Links, Linked, Serves
    <3> QED
      BY <1>1, <3>1, <3>2, QuietOpen
  <2> QED
    BY <2>1, <2>2, <2>3 DEF Serves
<1>5. Changed'
  <2>1. \A t \in Busy : /\ t \in Threads /\ thread[t].pc \notin Aside /\ thread'[t].block = thread[t].block
    BY BusyPlaces DEF Quiet, QuietPlaces, Busy, Aside, InDistribution
  <2>2. ASSUME NEW t \in Busy PROVE OfHolder(thread[t].block)' /\ Done(t[1], thread[t].block)'
    <3>1. OfHolder(thread[t].block) /\ Done(t[1], thread[t].block) /\ t \in Threads
      BY <2>1 DEF Links, Changed
    <3>2. PICK p \in Procs : p = t[1] /\ t = <<t[1], t[2]>> /\ t[2] \in Roles
      BY <3>1, Pairs
    <3>3. proc[p] # "absent"
      BY <2>1, <3>1, <3>2 DEF Links, Unborn, Fresh, Aside
    <3>4. guard'[p] = guard[p] /\ mutex' = mutex
      BY <3>3 DEF Quiet, QuietProcs
    <3>5. thread'[Client(mutex)].block = thread[Client(mutex)].block
      BY <2>1, <3>1, HolderBusy DEF OfHolder, Busy
    <3> QED
      BY <3>1, <3>2, <3>4, <3>5, <2>1 DEF OfHolder, Done, Client
  <2>3. ASSUME NEW t \in Threads, thread'[t].answered
        PROVE  /\ thread'[t].pc = "read" /\ thread'[t].peer \in Threads
               /\ proc'[thread'[t].peer[1]] # "absent"
               /\ Done(thread[t].peer[1], thread[t].block)'
    <3>1. /\ thread[t].pc = "read" /\ thread[t].peer \in Threads
          /\ proc[thread[t].peer[1]] # "absent"
          /\ Done(thread[t].peer[1], thread[t].block)
      BY <2>3 DEF Quiet, QuietPlaces, Links, Changed
    <3>2. /\ thread'[t].pc = "read" /\ thread'[t].peer = thread[t].peer
          /\ thread'[t].block = thread[t].block
      BY <3>1 DEF Quiet, QuietPlaces, Aside, AtIt
    <3>3. PICK p \in Procs : p = thread[t].peer[1]
      BY <3>1, Pairs
    <3>4. guard'[p] = guard[p] /\ proc'[p] # "absent"
      BY <3>1, <3>3 DEF Quiet, QuietProcs
    <3> QED
      BY <3>1, <3>2, <3>3, <3>4 DEF Done
  <2> QED
    BY <2>2, <2>3, QuietView DEF Changed
<1>6. Stays'
  BY DEF Quiet, QuietPlaces, Links, Stays, Aside, AtIt
<1> QED
  BY <1>2, <1>3, <1>4, <1>5, <1>6 DEF Links

(* So it keeps all of the invariant.                                       *)
LEMMA QuietChain ==
  ASSUME ChainInv, Quiet, Frame', Unborn'
  PROVE  ChainInv'
<1>1. PICK before : Ordered(before) /\ Pending(before)
  BY DEF ChainInv
<1>2. Ordered(before)' /\ Pending(before)'
  BY <1>1, QuietOrder, QuietPending DEF ChainInv, Frame, Links
<1>3. Links'
  BY QuietLinks DEF ChainInv, Frame
<1> QED
  BY <1>2, <1>3 DEF ChainInv

(* A thread that has not begun is not concerned by steps of those that have. *)
LEMMA QuietFresh ==
  ASSUME Quiet, NEW t \in Threads, Fresh(t), thread'[t].pc = "none"
  PROVE  Fresh(t)'
  BY DEF Quiet, QuietConns, SameConn, Fresh

LEMMA UnbornKept ==
  ASSUME Unborn, UNCHANGED <<proc, started, isFather>>,
         \A p \in Procs : thread'[Client(p)].pc \in {"claim", "claim father"} =>
           thread'[Client(p)].pc = thread[Client(p)].pc,
         \A t \in Threads : Fresh(t) => Fresh(t)'
  PROVE  Unborn'
  BY DEF Unborn, Threads, Roles, Client

LEMMA ConnItself == \A c : SameConn(c, c)
  BY DEF SameConn

(* Threads that have no part in a distribution move on. *)
Moves(t) ==
  /\ {thread[t].pc, thread'[t].pc} \subseteq Aside
  /\ thread'[t].conn = NoConn /\ ~thread'[t].answered
  /\ thread[t].pc = "none" /\ thread'[t].pc # "none" => Fresh(t)

LEMMA AsideStep ==
  ASSUME Serves, \A t \in Threads : thread'[t] = thread[t] \/ Moves(t),
         \A q \in Threads : holders[q] # {} => holders'[q] # {},
         UNCHANGED <<backlog, mutex, proc, guard>>
  PROVE  Quiet
<1>1. ASSUME NEW t \in Threads, Moves(t) PROVE thread[t].conn = NoConn
  BY <1>1, BusyPlaces DEF Serves, Aside, Moves
<1>2. QuietPlaces
  BY DEF QuietPlaces, Moves
<1>3. QuietConns
  BY <1>1, ConnItself DEF QuietConns, Moves
<1> QED
  BY <1>2, <1>3 DEF Quiet, QuietProcs

(* A child begins with an idle client and inherits open descriptors:       *)
(* nobody who had none has one now.                                        *)
LEMMA ForkQuiet ==
  ASSUME ChainInv, NEW p \in Procs, NEW q \in Procs, Fork(p, q)
  PROVE  Quiet /\ Unborn'
<1> DEFINE c == Client(q)
<1>1. ASSUME NEW t \in Threads, t[1] = q PROVE Fresh(t)
  <2>1. proc[q] = "absent"
    BY DEF Fork
  <2>2. \A role \in Roles : Fresh(<<q, role>>)
    BY <2>1 DEF ChainInv, Links, Unborn
  <2>3. t[2] \in Roles /\ t = <<q, t[2]>>
    BY <1>1, Pairs
  <2> QED
    BY <2>2, <2>3
<1>2. TypeInv /\ c \in Threads /\ c[1] = q /\ c[2] = "client"
  BY Pairs DEF ChainInv, Frame
<1>3. ASSUME NEW t \in Threads, t # c
      PROVE  /\ thread'[t].pc = thread[t].pc /\ thread'[t].block = thread[t].block
             /\ thread'[t].peer = thread[t].peer /\ thread'[t].answered = thread[t].answered
             /\ thread[t].ends \subseteq thread'[t].ends
             /\ thread'[t].conn = [thread[t].conn EXCEPT !.open = Inherit(p, q, @)]
  <2>1. thread'[t] = [thread[t] EXCEPT !.conn.open = Inherit(p, q, @), !.ends = Inherit(p, q, @)]
    BY <1>3 DEF Fork
  <2>2. thread[t] \in Thread
    BY <1>2 DEF TypeInv, Placed, WellPlaced
  <2> DEFINE d == [thread[t].conn EXCEPT !.open = Inherit(p, q, @)]
             e == Inherit(p, q, thread[t].ends)
  <2>3. thread'[t] = [thread[t] EXCEPT !.conn = d, !.ends = e]
    BY <2>1, <2>2 DEF Thread
  <2>4. thread[t].ends \subseteq e
    BY DEF Inherit
  <2> HIDE DEF d, e
  <2>5. /\ thread'[t].pc = thread[t].pc /\ thread'[t].block = thread[t].block
        /\ thread'[t].peer = thread[t].peer /\ thread'[t].answered = thread[t].answered
    BY <2>2, <2>3 DEF Thread
  <2>6. thread'[t].conn = d /\ thread'[t].ends = e
    BY <2>2, <2>3 DEF Thread
  <2> QED
    BY <2>4, <2>5, <2>6 DEF d
<1>4. thread'[c] = Idle
  BY <1>2 DEF Fork
<1>5. thread[c].pc = "none" /\ Fresh(c)
  BY <1>1, <1>2 DEF Fresh
<1>6. thread[c].conn = NoConn
  BY <1>2, <1>5, BusyPlaces DEF ChainInv, Links, Serves
<1>7. QuietPlaces
  <2>1. ASSUME NEW t \in Threads, t # c
        PROVE  /\ thread'[t].pc = thread[t].pc /\ thread'[t].block = thread[t].block
               /\ thread'[t].peer = thread[t].peer /\ thread'[t].answered = thread[t].answered
               /\ thread[t].ends \subseteq thread'[t].ends
    BY <1>3, <2>1
  <2> QED
    BY <1>2, <1>4, <1>5, <2>1, Values DEF QuietPlaces, Aside
<1>8. ASSUME NEW d \in Connection \cup {NoConn}, \A t \in Threads : t[1] = q => d.from # t
      PROVE  SameConn([d EXCEPT !.open = Inherit(p, q, @)], d)
  <2>1. \A t \in Threads : t[1] \in Inherit(p, q, d.open) /\ t[1] # q => t[1] \in d.open
    BY DEF Inherit
  <2>2. d.open \subseteq Inherit(p, q, d.open)
    BY DEF Inherit
  <2> DEFINE e == [d EXCEPT !.open = Inherit(p, q, @)]
  <2>3. e.from = d.from /\ e.block = d.block /\ e.open = Inherit(p, q, d.open)
    BY DEF Connection, NoConn
  <2> HIDE DEF e
  <2>4. SameConn(e, d)
    BY <1>8, <2>1, <2>2, <2>3 DEF SameConn, HasConn
  <2> QED
    BY <2>4 DEF e
<1>9. QuietConns
  <2>1. ASSUME NEW t \in Threads
        PROVE  SameConn(thread'[t].conn, thread[t].conn) /\ (thread[t].conn = NoConn => thread'[t].conn = NoConn)
    <3>1. CASE t = c
      BY <1>4, <1>6, <3>1, ConnItself, Values
    <3>2. CASE t # c
      <4>1. thread[t].conn \in Connection \cup {NoConn}
        BY <1>2 DEF TypeInv, Placed, WellPlaced, Thread
      <4>2. thread'[t].conn = [thread[t].conn EXCEPT !.open = Inherit(p, q, @)]
        BY <1>3, <3>2
      <4>3. \A u \in Threads : u[1] = q => thread[t].conn.from # u
        BY <1>1 DEF Fresh
      <4> QED
        BY <1>8, <4>1, <4>2, <4>3, InheritTyped
    <3> QED
      BY <3>1, <3>2
  <2>2. ASSUME NEW t \in Threads, NEW k \in DOMAIN backlog[t]
        PROVE  SameConn(backlog'[t][k], backlog[t][k])
    <3>1. backlog'[t][k] = [backlog[t][k] EXCEPT !.open = Inherit(p, q, @)]
      BY DEF Fork
    <3>2. backlog[t][k] \in Connection
      BY <1>2, ElementOfSeq, LenProperties DEF TypeInv, Queues
    <3>3. \A u \in Threads : u[1] = q => backlog[t][k].from # u
      BY <1>1 DEF Fresh
    <3> QED
      BY <1>8, <3>1, <3>2, <3>3
  <2>3. \A t \in Threads :
          DOMAIN backlog'[t] = DOMAIN backlog[t] /\ (holders[t] # {} => holders'[t] # {})
    BY DEF Fork, Inherit
  <2> QED
    BY <2>1, <2>2, <2>3 DEF QuietConns
<1>10. QuietProcs
  BY <1>2 DEF Fork, QuietProcs, TypeInv, Tables
<1>11. Quiet
  BY <1>7, <1>9, <1>10 DEF Quiet
<1>12. Unborn'
  <2>1. \A t \in Threads : Fresh(t) /\ t # c => Fresh(t)'
    BY <1>3, <1>11, QuietFresh DEF Fresh
  <2>2. UNCHANGED <<started, isFather>> /\ \A r \in Procs : proc'[r] = "absent" => proc[r] = "absent" /\ r # q
    BY <1>2 DEF Fork, table, TypeInv, Tables
  <2>3. \A r \in Procs : thread'[Client(r)].pc \in {"claim", "claim father"} => thread'[Client(r)].pc = thread[Client(r)].pc
    BY <1>3, <1>4, Values, Pairs
  <2>4. \A r \in Procs : \A role \in Roles : <<r, role>> \in Threads /\ (<<r, role>> = c => r = q /\ role = "client")
    BY DEF Threads, Client
  <2> QED
    BY <2>1, <2>2, <2>3, <2>4 DEF Unborn, Roles, ChainInv, Links
<1> QED
  BY <1>11, <1>12

(* The steps of startChildMprotect.                                        *)
LEMMA StartQuiet ==
  ASSUME ChainInv, NEW p \in Procs,
         StartChild(p) \/ ClaimSlot(p) \/ ManageFather(p) \/ ClaimFather(p)
  PROVE  Quiet /\ Unborn'
<1> DEFINE c == Client(p)
           pos == FindFreeChild(p)
<1>1. /\ TypeInv /\ Serves /\ Unborn /\ DOMAIN thread = Threads /\ c \in Threads /\ c[1] = p
      /\ \A role \in Roles : <<p, role>> \in Threads
  BY Pairs DEF ChainInv, Frame, Links, TypeInv, Placed, Threads, Client
<1>3. CASE StartChild(p)
  <2> DEFINE r == IF pos = NoSlot THEN Idle ELSE [Idle EXCEPT !.pc = "claim", !.slot = pos]
  <2>1. /\ thread[c].pc = "idle" /\ p \notin started /\ started' = started \cup {p}
        /\ thread' = [thread EXCEPT ![c] = r]
        /\ UNCHANGED <<proc, isFather, holders, backlog, mutex, guard>>
    BY <1>3 DEF StartChild, table, memory
  <2>2. r.pc \in {"idle", "claim"} /\ r.conn = NoConn /\ ~r.answered
    BY Values DEF Idle, Gone
  <2> HIDE DEF r
  <2>3. thread'[c] = r /\ \A t \in Threads \ {c} : thread'[t] = thread[t]
    BY <1>1, <2>1
  <2>4. Quiet
    <3>1. Moves(c)
      BY <2>1, <2>2, <2>3 DEF Moves, Aside
    <3> QED
      BY <1>1, <2>1, <2>3, <3>1, AsideStep
  <2>5. \A t \in Threads : Fresh(t) => Fresh(t)'
    BY <2>1, <2>3, <2>4, QuietFresh DEF Fresh
  <2> QED
    BY <1>1, <2>1, <2>2, <2>3, <2>4, <2>5 DEF Unborn, Roles, Client, Threads
<1>4. CASE ManageFather(p)
  <2> DEFINE r == IF pos = NoSlot THEN Idle ELSE [Idle EXCEPT !.pc = "claim father", !.slot = pos]
  <2>1. /\ thread[c].pc = "father"
        /\ \/ isFather' = TRUE /\ ~isFather /\ thread' = [thread EXCEPT ![c] = r]
           \/ isFather' = isFather /\ thread' = [thread EXCEPT ![c] = Idle]
        /\ UNCHANGED <<proc, started, holders, backlog, mutex, guard>>
    BY <1>4 DEF ManageFather, memory
  <2>2. r.pc \in {"idle", "claim father"} /\ r.conn = NoConn /\ ~r.answered
    BY Values DEF Idle, Gone
  <2> HIDE DEF r
  <2>3. thread'[c] \in {r, Idle} /\ (\A t \in Threads \ {c} : thread'[t] = thread[t])
    BY <1>1, <2>1
  <2>4. Quiet
    <3>1. {thread[c].pc, thread'[c].pc} \subseteq Aside /\ thread[c].pc # "none"
      BY <2>1, <2>2, <2>3, Values DEF Aside
    <3>2. thread'[c].conn = NoConn /\ ~thread'[c].answered
      BY <2>2, <2>3, Values
    <3>3. Moves(c)
      BY <3>1, <3>2 DEF Moves
    <3> QED
      BY <1>1, <2>1, <2>3, <3>3, AsideStep
  <2>5. \A t \in Threads : Fresh(t) => Fresh(t)'
    BY <2>1, <2>3, <2>4, QuietFresh DEF Fresh
  <2>6. /\ thread'[c].pc = "claim father" => isFather' /\ ~isFather
        /\ thread'[c].pc # "claim" /\ proc[p] # "absent" /\ (isFather => isFather')
    <3>1. thread'[c].pc # "claim" /\ (thread'[c].pc = "claim father" => thread'[c] # Idle)
      BY <2>2, <2>3, Values
    <3>2. proc[p] # "absent"
      BY <1>1, <2>1 DEF Unborn, Fresh, Roles, Client
    <3>3. isFather => isFather'
      BY <2>1
    <3>4. CASE thread'[c] = Idle
      BY <3>1, <3>2, <3>3, <3>4
    <3>5. CASE thread'[c] # Idle
      <4>1. thread' # [thread EXCEPT ![c] = Idle]
        BY <1>1, <3>5
      <4>2. isFather' /\ ~isFather
        BY <2>1, <4>1
      <4> QED
        BY <3>1, <3>2, <3>3, <4>2
    <3> QED
      BY <3>4, <3>5
  <2>7. \A x \in Procs : /\ Client(x) \in Threads
                         /\ x # p => Client(x) # c /\ thread'[Client(x)] = thread[Client(x)]
                         /\ \A role \in Roles : <<x, role>> \in Threads
    BY <2>3, Pairs DEF Threads
  <2> QED
    BY <1>1, <2>1, <2>3, <2>4, <2>5, <2>6, <2>7 DEF Unborn, Roles
<1>5. ASSUME NEW role \in {"server", "father"}, NEW next \in {Idle, [Idle EXCEPT !.pc = "father"]},
             Claim(p, role, next), thread[c].pc \in {"claim", "claim father"},
             Fresh(<<p, role>>), role = "server" => p \in started, role = "father" => isFather
      PROVE  Quiet /\ Unborn'
  <2> DEFINE u == <<p, role>>
             r == [Gone EXCEPT !.pc = "start", !.slot = thread[c].slot]
  <2>1. /\ \/ thread' = [thread EXCEPT ![u] = r, ![c] = next]
           \/ thread' = [thread EXCEPT ![c] = Idle]
        /\ UNCHANGED <<proc, started, isFather, holders, backlog, mutex, guard>>
    BY <1>5 DEF Claim, memory
  <2>2. r.pc = "start" /\ r.conn = NoConn /\ ~r.answered
    BY DEF Gone
  <2>3. next.pc \in {"idle", "father"} /\ next.conn = NoConn /\ ~next.answered
    BY Values DEF Idle, Gone
  <2>4. u \in Threads /\ u # c /\ thread[u].pc = "none"
    BY <1>1, <1>5 DEF Client, Fresh, Roles
  <2> HIDE DEF r, u
  <2>5. /\ thread'[c] \in {next, Idle} /\ thread'[u] \in {thread[u], r}
        /\ (\A t \in Threads \ {c, u} : thread'[t] = thread[t])
    BY <1>1, <2>1, <2>4
  <2>6. Quiet
    <3>1. {thread[c].pc, thread'[c].pc} \subseteq Aside /\ thread[c].pc # "none"
      BY <1>5, <2>3, <2>5, Values DEF Aside
    <3>2. {thread[u].pc, thread'[u].pc} \subseteq Aside
      BY <2>2, <2>4, <2>5 DEF Aside
    <3>3. thread[u].conn = NoConn /\ ~thread[u].answered
      BY <1>1, <2>4, BusyPlaces DEF Serves, ChainInv, Links, Changed
    <3>4. \A t \in {c, u} : thread'[t].conn = NoConn /\ ~thread'[t].answered
      BY <2>2, <2>3, <2>5, <3>3, Values
    <3>5. Moves(c) /\ Moves(u)
      BY <1>5, <3>1, <3>2, <3>4 DEF Moves, u
    <3> QED
      BY <1>1, <2>1, <2>5, <3>5, AsideStep
  <2>7. \A t \in Threads : Fresh(t) /\ t # u => Fresh(t)'
    BY <1>5, <2>5, <2>6, QuietFresh DEF Fresh
  <2>8. thread'[c].pc \notin {"claim", "claim father"} /\ proc[p] # "absent"
    BY <1>1, <1>5, <2>3, <2>5, Values DEF Unborn, Fresh, Roles, Client
  <2>9. ASSUME NEW x \in Procs
        PROVE  /\ proc'[x] = "absent" => \A o \in Roles : Fresh(<<x, o>>)'
               /\ x \notin started' \/ thread'[Client(x)].pc = "claim" => Fresh(<<x, "server">>)'
               /\ ~isFather' \/ thread'[Client(x)].pc = "claim father" => Fresh(<<x, "father">>)'
               /\ thread'[Client(x)].pc = "claim" => x \in started'
               /\ thread'[Client(x)].pc = "claim father" => isFather'
    <3>1. \A o \in Roles : <<x, o>> \in Threads /\ (<<x, o>> = u => x = p /\ o = role)
      BY DEF Threads, u
    <3>2. Client(x) \in Threads /\ Client(x) # u /\ (x # p => Client(x) # c)
      BY Pairs DEF Client, u
    <3>3. thread'[Client(x)].pc \in {"claim", "claim father"} => thread'[Client(x)] = thread[Client(x)]
      BY <2>5, <2>8, <3>2
    <3> QED
      BY <1>1, <1>5, <2>1, <2>7, <2>8, <3>1, <3>3 DEF Unborn, Roles
  <2> QED
    BY <2>6, <2>9 DEF Unborn
<1>6. CASE ClaimSlot(p)
  BY <1>1, <1>5, <1>6 DEF ClaimSlot, Unborn
<1>7. CASE ClaimFather(p)
  BY <1>1, <1>5, <1>7 DEF ClaimFather, Unborn
<1> QED
  BY <1>3, <1>4, <1>6, <1>7

(* Threads that go on without a change to what they have begun. *)
LEMMA QuietUnborn ==
  ASSUME Quiet, Unborn, UNCHANGED <<proc, started, isFather>>,
         \A t \in Threads : /\ thread[t].pc = "none" => thread'[t].pc = "none"
                            /\ thread'[t].pc \in {"claim", "claim father"} => thread'[t].pc = thread[t].pc
  PROVE  Unborn'
<1>1. \A t \in Threads : Fresh(t) => Fresh(t)'
  BY QuietFresh DEF Fresh
<1> QED
  BY <1>1, Pairs, UnbornKept

LEMMA ServerQuiet ==
  ASSUME ChainInv, NEW t \in Threads, StartServer(t) \/ (Accept(t) /\ t[1] \notin holders[t])
  PROVE  Quiet /\ Unborn'
<1>1. Serves /\ Changed /\ Unborn /\ DOMAIN thread = Threads /\ thread[t] \in Thread
  BY DEF ChainInv, Links, Frame, TypeInv, Placed, WellPlaced
<1>2. /\ thread[t].pc \in {"start", "accept"}
      /\ thread' = [thread EXCEPT ![t] = Gone] \/ thread' = [thread EXCEPT ![t].pc = "accept"]
      /\ UNCHANGED <<backlog, mutex, proc, started, isFather, guard>>
  BY DEF StartServer, Accept, memory, table
<1>3. \A q \in Threads : holders[q] # {} => holders'[q] # {}
  <2>1. holders' = holders \/ holders' = [holders EXCEPT ![t] = {t[1]}]
    BY DEF StartServer, Accept
  <2>2. DOMAIN holders = Threads
    BY DEF ChainInv, Frame, TypeInv, Tables
  <2> QED
    BY <2>1, <2>2
<1>4. thread[t].conn = NoConn /\ ~thread[t].answered
  BY <1>1, <1>2, BusyPlaces DEF Serves, Changed
<1>5. /\ thread'[t].pc \in {"none", "accept"} /\ thread'[t].conn = NoConn /\ ~thread'[t].answered
      /\ \A q \in Threads \ {t} : thread'[q] = thread[q]
  <2>1. CASE thread' = [thread EXCEPT ![t] = Gone]
    BY <1>1, <2>1, Values
  <2>2. CASE thread' = [thread EXCEPT ![t].pc = "accept"]
    <3>1. thread'[t] = [thread[t] EXCEPT !.pc = "accept"]
      BY <1>1, <2>2
    <3>2. thread'[t].pc = "accept" /\ thread'[t].conn = NoConn /\ ~thread'[t].answered
      BY <1>1, <1>4, <3>1 DEF Thread
    <3>3. \A q \in Threads \ {t} : thread'[q] = thread[q]
      BY <1>1, <2>2
    <3> QED
      BY <3>2, <3>3
  <2> QED
    BY <1>2, <2>1, <2>2
<1>6. Moves(t)
  BY <1>2, <1>5 DEF Moves, Aside
<1>7. Quiet
  BY <1>1, <1>2, <1>3, <1>5, <1>6, AsideStep
<1> QED
  BY <1>1, <1>2, <1>5, <1>7, QuietUnborn

(* A step at the table of children, or none at all. *)
LEMMA TableQuiet ==
  ASSUME ChainInv, NEW t \in Threads, thread[t].pc \in AtIt, NEW pc \in AtIt, NEW s,
         thread' = [thread EXCEPT ![t].pc = pc, ![t].pos = s],
         UNCHANGED <<proc, started, isFather, holders, backlog, mutex, guard>>
  PROVE  Quiet /\ Unborn'
<1>1. Unborn /\ DOMAIN thread = Threads /\ thread[t] \in Thread
  BY DEF ChainInv, Links, Frame, TypeInv, Placed, WellPlaced
<1>2. /\ thread'[t].pc = pc /\ thread'[t].conn = thread[t].conn
      /\ thread'[t].block = thread[t].block /\ thread'[t].peer = thread[t].peer
      /\ thread'[t].ends = thread[t].ends /\ thread'[t].answered = thread[t].answered
  BY <1>1 DEF Thread
<1>3. \A q \in Threads \ {t} : thread'[q] = thread[q]
  BY <1>1
<1>4. QuietPlaces
  BY <1>2, <1>3 DEF QuietPlaces, AtIt
<1>5. QuietConns
  BY <1>2, <1>3, ConnItself DEF QuietConns
<1>6. Quiet
  BY <1>4, <1>5 DEF Quiet, QuietProcs
<1> QED
  BY <1>1, <1>2, <1>3, <1>6, QuietUnborn DEF AtIt

LEMMA StillQuiet ==
  ASSUME ChainInv, UNCHANGED <<proc, started, isFather, holders, backlog, mutex, guard, thread>>
  PROVE  Quiet /\ Unborn'
<1>1. Unborn /\ Serves
  BY DEF ChainInv, Links
<1>2. Quiet
  BY <1>1, AsideStep
<1> QED
  BY <1>1, <1>2, QuietUnborn

--------------------------------------------------------------------------------
(* Steps after which no thread has a connection it had not before.         *)
LessConn(d, c) == d = NoConn \/ (d.from = c.from /\ d.open \subseteq c.open)

HasNone(t) ==
  \A q \in Threads : /\ ~HasConn(t, thread[q].conn)
                     /\ \A k \in DOMAIN backlog[q] : ~HasConn(t, backlog[q][k])

Shrinks ==
  /\ \A q \in Threads : /\ LessConn(thread'[q].conn, thread[q].conn)
                        /\ DOMAIN backlog'[q] = DOMAIN backlog[q]
                        /\ \A k \in DOMAIN backlog[q] : LessConn(backlog'[q][k], backlog[q][k])
  /\ \A t \in Threads :
       /\ thread'[t].pc \in {"write", "read"} =>
            thread[t].pc \in {"write", "read"} /\ thread'[t].peer = thread[t].peer
       /\ thread'[t].pc \notin {"none", "write", "read"} =>
            thread[t].pc \notin {"none", "write", "read"} \/ HasNone(t)'
       /\ thread[t].pc = "none" => thread'[t].pc = "none"
       /\ thread'[t].pc \in {"claim", "claim father", "stop"} => thread'[t].pc = thread[t].pc
  /\ UNCHANGED <<proc, started, isFather>>

LEMMA LessHas ==
  ASSUME NEW d, NEW c, LessConn(d, c), NEW t \in Threads
  PROVE  HasConn(t, d) => HasConn(t, c)
  BY DEF LessConn, HasConn, NoConn

LEMMA ShrinkView ==
  ASSUME Shrinks
  PROVE  /\ \A t, q \in Threads : AtServer(t, q)' => AtServer(t, q)
         /\ \A t, q \in Threads : InQueue(t, q)' => InQueue(t, q)
         /\ \A t, q \in Threads : \A k \in DOMAIN backlog[q] :
              IsFrom(t, backlog[q][k])' => IsFrom(t, backlog[q][k])
<1>1. \A t \in Threads : thread'[t].pc \in {"write", "read"} => thread[t].pc \in {"write", "read"}
  BY DEF Shrinks
<1>2. ASSUME NEW t \in Threads, NEW q \in Threads PROVE AtServer(t, q)' => AtServer(t, q)
  <2>1. HasConn(t, thread'[q].conn) => HasConn(t, thread[q].conn)
    BY LessHas DEF Shrinks
  <2> QED
    BY <1>1, <2>1 DEF AtServer, IsFrom, HasConn
<1>3. ASSUME NEW t \in Threads, NEW q \in Threads, NEW k \in DOMAIN backlog[q]
      PROVE  IsFrom(t, backlog[q][k])' => IsFrom(t, backlog[q][k])
  <2>1. HasConn(t, backlog'[q][k]) => HasConn(t, backlog[q][k])
    BY LessHas DEF Shrinks
  <2> QED
    BY <1>1, <2>1 DEF IsFrom, HasConn
<1>4. \A q \in Threads : DOMAIN backlog'[q] = DOMAIN backlog[q]
  BY DEF Shrinks
<1>5. \A t, q \in Threads : InQueue(t, q)' => InQueue(t, q)
  BY <1>3, <1>4 DEF InQueue
<1> QED
  BY <1>2, <1>3, <1>5

LEMMA ShrinkLinks ==
  ASSUME Links, Shrinks
  PROVE  Linked' /\ Closed' /\ Unborn' /\ Stays'
<1>1. Linked'
  <2>1. ASSUME NEW t \in Threads, NEW q \in Threads, AtServer(t, q)'
        PROVE  thread'[t].peer = q /\ ~InQueue(t, q)'
    <3>1. thread'[t].pc \in {"write", "read"}
      BY <2>1 DEF AtServer, IsFrom
    <3>2. thread[t].peer = q /\ ~InQueue(t, q)
      BY <2>1, ShrinkView DEF Links, Linked
    <3> QED
      BY <3>1, <3>2, ShrinkView DEF Shrinks
  <2>2. ASSUME NEW t \in Threads, NEW q \in Threads, NEW k \in DOMAIN backlog'[q], IsFrom(t, backlog[q][k])'
        PROVE  /\ thread'[t].peer = q
               /\ \A l \in DOMAIN backlog'[q] : IsFrom(t, backlog[q][l])' => l = k
    <3>1. DOMAIN backlog'[q] = DOMAIN backlog[q]
      BY DEF Shrinks
    <3>2. thread'[t].pc \in {"write", "read"}
      BY <2>2 DEF IsFrom
    <3>3. thread'[t].peer = thread[t].peer
      BY <3>2 DEF Shrinks
    <3>4. IsFrom(t, backlog[q][k])
      BY <2>2, <3>1, ShrinkView
    <3>5. /\ thread[t].peer = q
          /\ \A l \in DOMAIN backlog[q] : IsFrom(t, backlog[q][l]) => l = k
      BY <3>1, <3>4 DEF Links, Linked
    <3> QED
      BY <3>1, <3>3, <3>5, ShrinkView
  <2>3. \A t \in Threads : thread'[t].pc \in {"write", "read"} => thread'[t].peer \in Threads
    BY DEF Links, Linked, Shrinks
  <2> QED
    BY <2>1, <2>2, <2>3 DEF Linked
<1>2. Closed'
  <2>1. ASSUME NEW t \in Threads, thread'[t].pc \notin {"none", "write", "read"},
               thread[t].pc \notin {"none", "write", "read"}
        PROVE  HasNone(t)'
    <3>1. HasNone(t)
      BY <2>1 DEF Links, Closed, HasNone
    <3>2. ASSUME NEW q \in Threads
          PROVE  /\ ~HasConn(t, thread'[q].conn)
                 /\ \A k \in DOMAIN backlog'[q] : ~HasConn(t, backlog'[q][k])
      BY <3>1, LessHas DEF Shrinks, HasNone
    <3> QED
      BY <3>2 DEF HasNone, HasConn
  <2>2. ASSUME NEW t \in Threads, thread'[t].pc \notin {"none", "write", "read"} PROVE HasNone(t)'
    BY <2>1, <2>2 DEF Shrinks
  <2> QED
    BY <2>2 DEF Closed, HasNone
<1>3. Unborn'
  <2>1. ASSUME NEW t \in Threads, Fresh(t) PROVE Fresh(t)'
    <3>1. ASSUME NEW q \in Threads
          PROVE  thread'[q].conn.from # t /\ \A k \in DOMAIN backlog'[q] : backlog'[q][k].from # t
      <4>1. NoConn.from # t
        BY Pairs DEF NoConn, NoThread
      <4>2. thread[q].conn.from # t /\ \A k \in DOMAIN backlog[q] : backlog[q][k].from # t
        BY <2>1 DEF Fresh
      <4> QED
        BY <4>1, <4>2 DEF Shrinks, LessConn
    <3>2. thread'[t].pc = "none"
      BY <2>1 DEF Shrinks, Fresh
    <3> QED
      BY <3>1, <3>2 DEF Fresh
  <2>2. \A p \in Procs : thread'[Client(p)].pc \in {"claim", "claim father"} =>
          thread'[Client(p)].pc = thread[Client(p)].pc
    BY Pairs DEF Shrinks
  <2> QED
    BY <2>1, <2>2, UnbornKept DEF Links, Shrinks
<1>4. Stays'
  BY DEF Links, Stays, Shrinks
<1> QED
  BY <1>1, <1>2, <1>3, <1>4

(* After which no message is under way.                                    *)
LEMMA Settle ==
  ASSUME ChainInv, Frame', NEW before, Ordered(before), Shrinks, NothingPending',
         Busy' \subseteq Busy, \A t \in Threads : thread'[t].pc # "write",
         \A q \in Threads : thread'[q].conn # NoConn =>
           thread[q].conn # NoConn /\ (thread'[q].pc = "serve" \/ q \in Busy'),
         \A w \in Busy' : w[2] # "client" => thread'[w].conn.open # {},
         \/ Busy' = {}
         \/ /\ mutex' = mutex /\ guard' = guard
            /\ \A w \in Busy' : thread'[w].block = thread[w].block
            /\ \A t, u \in Busy' : t # u /\ <<t, u>> \in before => Waits(t)',
         \A t \in Threads : thread'[t].answered =>
           /\ thread'[t].pc = "read" /\ thread'[t].peer \in Threads
           /\ proc'[thread'[t].peer[1]] # "absent"
           /\ Done(thread[t].peer[1], thread[t].block)'
  PROVE  ChainInv'
<1>1. Linked' /\ Closed' /\ Unborn' /\ Stays'
  BY ShrinkLinks DEF ChainInv
<1>2. Serves'
  BY DEF Serves, ChainInv, Links
<1>3. Changed'
  <2>1. ASSUME NEW t \in Busy', mutex' = mutex, guard' = guard, \A w \in Busy' : thread'[w].block = thread[w].block
        PROVE  OfHolder(thread[t].block)' /\ Done(t[1], thread[t].block)'
    <3>1. OfHolder(thread[t].block) /\ Done(t[1], thread[t].block)
      BY DEF ChainInv, Links, Changed
    <3>2. mutex \in Procs
      BY <3>1 DEF OfHolder
    <3>3. Client(mutex) \in Busy'
      <4>1. mutex' \in Procs
        BY <2>1, <3>2
      <4>2. InDistribution(Client(mutex))'
        BY <4>1 DEF Frame, MutexInv, Good
      <4>3. Client(mutex)' = Client(mutex) /\ Client(mutex) \in Threads
        BY <2>1, <3>2, Pairs DEF Client
      <4> QED
        BY <4>2, <4>3 DEF Busy
    <3> QED
      BY <2>1, <3>1, <3>3 DEF OfHolder, Done, Client
  <2> QED
    BY <2>1 DEF Changed
<1>4. Ordered(before)'
  <2>1. CASE Busy' = {}
    BY <2>1, OrderedNone
  <2>2. CASE mutex' = mutex /\ \A t, u \in Busy' : t # u /\ <<t, u>> \in before => Waits(t)'
    <3>1. \A t \in Threads : \A w \in Busy' : AtServer(t, w)' => AtServer(t, w)
      BY ShrinkView DEF Busy
    <3> QED
      BY <2>2, <3>1, OrderedLess
  <2> QED
    BY <2>1, <2>2
<1>5. Pending(before)'
  BY DEF NothingPending, Pending
<1> QED
  BY <1>1, <1>2, <1>3, <1>4, <1>5 DEF ChainInv, Links

LEMMA LessItself == \A c : LessConn(c, c) /\ LessConn(NoConn, c)
  BY DEF LessConn

LEMMA NoneToRead == NoConn.block = NoBlock /\ NoConn.open = {}
  BY DEF NoConn

(* The one of all at work that has something to do.                        *)
LEMMA Worker ==
  ASSUME ChainInv, NEW t \in Busy, ~Waits(t)
  PROVE  \E before : /\ Ordered(before) /\ Pending(before)
                     /\ \A u \in Busy \ {t} : Waits(u) /\ <<t, u>> \notin before /\ <<u, t>> \in before
                     /\ ~Asks(t, before) => NothingPending
<1>1. PICK before : Ordered(before) /\ Pending(before)
  BY DEF ChainInv
<1> QED
  BY <1>1, LastOne, NoneUnderWay

(* If it is the client's, then nobody else is at work.                     *)
LEMMA ClientAlone ==
  ASSUME MutexInv, NEW before, Ordered(before), NEW t \in Threads, t[2] = "client",
         thread[t].pc \in {"scan", "connect", "write", "read"},
         \A u \in Busy \ {t} : <<u, t>> \in before
  PROVE  Busy = {t} /\ mutex = t[1] /\ t = Client(mutex)
<1>1. PICK p \in Procs : p = t[1] /\ t = Client(p)
  BY Pairs DEF Client
<1>2. mutex = p
  BY <1>1 DEF MutexInv, Good, InDistribution
<1>3. t \in Busy
  BY BusyPlaces
<1>4. t = Client(mutex)
  BY <1>1, <1>2
<1>5. \A u \in Busy : u # t => <<u, t>> \notin before
  BY <1>4 DEF Ordered
<1>6. Busy = {t}
  BY <1>3, <1>5
<1> QED
  BY <1>1, <1>2, <1>4, <1>6

(* A thread comes to the end of its part: a client returns, a server goes  *)
(* on to its answer or ends.                                               *)
LEMMA RestStep ==
  ASSUME ChainInv, Frame', NEW t \in Threads, thread[t].pc \in {"scan", "connect"},
         NEW cancelled \in SUBSET Threads, t \notin cancelled,
         \A q \in Threads \ {t} : thread'[q] = IF q \in cancelled THEN Gone ELSE thread[q],
         \/ t[2] = "client" /\ thread'[t] = Idle
         \/ /\ t[2] # "client" /\ mutex' = mutex
            /\ thread'[t] \in {Gone, [thread[t] EXCEPT !.pc = "answer"]},
         UNCHANGED <<proc, started, isFather, backlog, guard>>
  PROVE  ChainInv'
<1>1. MutexInv /\ Serves /\ Changed /\ thread[t] \in Thread
  BY DEF ChainInv, Links, Frame, TypeInv, Placed, WellPlaced
<1>2. t \in Busy /\ ~Waits(t) /\ (\A before : ~Asks(t, before))
  BY BusyPlaces DEF Waits, Asks
<1>3. PICK before : /\ Ordered(before) /\ NothingPending
                    /\ \A u \in Busy \ {t} : Waits(u) /\ <<t, u>> \notin before /\ <<u, t>> \in before
  BY <1>2, Worker
<1>4. \/ /\ thread'[t].pc \in {"none", "idle"} /\ thread'[t].conn = NoConn /\ ~thread'[t].answered
      \/ /\ thread'[t].pc = "answer" /\ thread'[t].conn = thread[t].conn /\ t[2] # "client"
         /\ thread'[t].block = thread[t].block /\ thread'[t].answered = thread[t].answered
  <2>1. CASE thread'[t] \in {Idle, Gone}
    BY <2>1, Values
  <2>2. CASE t[2] # "client" /\ thread'[t] = [thread[t] EXCEPT !.pc = "answer"]
    <3>1. thread'[t].pc = "answer" /\ thread'[t].conn = thread[t].conn
      BY <1>1, <2>2 DEF Thread
    <3>2. thread'[t].block = thread[t].block /\ thread'[t].answered = thread[t].answered
      BY <1>1, <2>2 DEF Thread
    <3> QED
      BY <2>2, <3>1, <3>2
  <2> QED
    BY <2>1, <2>2
<1>5. ASSUME NEW q \in Threads, q # t
      PROVE  thread'[q] = thread[q] \/ (thread'[q].pc = "none" /\ thread'[q].conn = NoConn /\ ~thread'[q].answered)
  BY <1>5, Values
<1>6. Shrinks
  <2>1. \A q \in Threads : thread'[q].conn \in {thread[q].conn, NoConn}
    BY <1>4, <1>5
  <2>2. \A q \in Threads : LessConn(thread'[q].conn, thread[q].conn)
    BY <2>1, LessItself
  <2>3. ASSUME NEW q \in Threads
        PROVE  /\ thread'[q].pc \in {"write", "read"} => thread'[q] = thread[q]
               /\ thread'[q].pc \notin {"none", "write", "read"} => thread[q].pc \notin {"none", "write", "read"}
               /\ thread[q].pc = "none" => thread'[q].pc = "none"
               /\ thread'[q].pc \in {"claim", "claim father", "stop"} => thread'[q].pc = thread[q].pc
    BY <1>4, <1>5
  <2> QED
    BY <2>2, <2>3, LessItself DEF Shrinks
<1>7. NothingPending'
  <2>1. \A q \in Threads : thread'[q].conn.block = NoBlock
    BY <1>3, <1>4, <1>5, NoneToRead DEF NothingPending
  <2> QED
    BY <1>3, <2>1 DEF NothingPending
<1>8. Busy' \subseteq Busy /\ \A w \in Busy' : w \in Threads /\ (w # t => thread'[w] = thread[w])
  <2>1. \A q \in Threads : q \in Busy' <=> thread'[q].pc \in {"scan", "connect", "write", "read", "hung", "answer"}
    BY DEF Busy, InDistribution
  <2> QED
    BY <1>2, <1>4, <1>5, <2>1, BusyPlaces DEF Busy
<1>9. \A q \in Threads : thread'[q].pc # "write"
  BY <1>3, <1>4, <1>5, BusyPlaces DEF Waits
<1>10. \A q \in Threads : thread'[q].conn # NoConn =>
         thread[q].conn # NoConn /\ (thread'[q].pc = "serve" \/ q \in Busy')
  <2>1. \A q \in Threads : q \in Busy' <=> thread'[q].pc \in {"scan", "connect", "write", "read", "hung", "answer"}
    BY DEF Busy, InDistribution
  <2> QED
    BY <1>1, <1>4, <1>5, <2>1, BusyPlaces DEF Serves
<1>11. \A w \in Busy' : w[2] # "client" => thread'[w].conn.open # {}
  <2>1. \A w \in Busy' : w = t => thread'[t].pc = "answer"
    BY <1>4 DEF Busy, InDistribution
  <2> QED
    BY <1>1, <1>2, <1>4, <1>8, <2>1 DEF Serves
<1>12. \/ Busy' = {}
       \/ /\ mutex' = mutex /\ guard' = guard
          /\ \A w \in Busy' : thread'[w].block = thread[w].block
          /\ \A v, u \in Busy' : v # u /\ <<v, u>> \in before => Waits(v)'
  <2>1. CASE t[2] = "client" /\ thread'[t] = Idle
    <3>1. Busy = {t}
      BY <1>1, <1>3, <2>1, ClientAlone
    <3>2. t \notin Busy'
      BY <2>1, Values DEF Busy, InDistribution
    <3> QED
      BY <1>8, <3>1, <3>2
  <2>2. CASE t[2] # "client" /\ mutex' = mutex
    <3>1. \A w \in Busy' : thread'[w].block = thread[w].block
      <4>1. t \in Busy' => thread'[t].pc = "answer"
        BY <1>4 DEF Busy, InDistribution
      <4> QED
        BY <1>4, <1>8, <4>1
    <3>2. ASSUME NEW v \in Busy', NEW u \in Busy', v # u, <<v, u>> \in before PROVE Waits(v)'
      <4>1. v \in Busy /\ u \in Busy /\ v \in Threads /\ v # t
        BY <1>3, <1>8, <3>2
      <4>2. Waits(v) /\ thread'[v] = thread[v]
        BY <1>3, <1>8, <4>1
      <4>3. ASSUME NEW q \in Threads, AtServer(v, q)', q \in Busy PROVE q \in Busy'
        <5>1. thread'[q].conn # NoConn
          BY <4>1, <4>3, Pairs DEF AtServer, IsFrom, NoConn, NoThread
        <5> QED
          BY <1>4, <1>5, <4>3, <5>1, BusyPlaces DEF Busy, InDistribution
      <4> QED
        BY <1>6, <4>1, <4>2, <4>3, ShrinkView, WaitsOn DEF Waits
    <3> QED
      BY <2>2, <3>1, <3>2
  <2> QED
    BY <2>1, <2>2
<1>13. \A q \in Threads : thread'[q].answered =>
         /\ thread'[q].pc = "read" /\ thread'[q].peer \in Threads
         /\ proc'[thread'[q].peer[1]] # "absent"
         /\ Done(thread[q].peer[1], thread[q].block)'
  BY <1>1, <1>4, <1>5 DEF Changed, Done
<1> QED
  BY <1>3, <1>6, <1>7, <1>8, <1>9, <1>10, <1>11, <1>12, <1>13, Settle

LEMMA FinishChain ==
  ASSUME ChainInv, Frame', NEW t \in Threads, thread[t].pc \in {"scan", "connect"},
         NEW cancelled \in SUBSET Threads, t \notin cancelled, Finish(t, cancelled),
         UNCHANGED <<proc, started, isFather, backlog, guard>>
  PROVE  ChainInv'
<1>1. \A q \in Threads \ {t} : thread'[q] = IF q \in cancelled THEN Gone ELSE thread[q]
  BY DEF Finish
<1>2. CASE t[2] = "client"
  <2>1. thread'[t] = Idle
    BY <1>2 DEF Finish
  <2> QED
    BY <1>1, <1>2, <2>1, RestStep
<1>3. CASE t[2] # "client"
  <2>1. thread'[t] = [thread[t] EXCEPT !.pc = "answer"] /\ mutex' = mutex
    BY <1>3 DEF Finish, Client
  <2> QED
    BY <1>1, <1>3, <2>1, RestStep
<1> QED
  BY <1>2, <1>3

(* The loop over children, whatever is refused and whoever is removed.     *)
LEMMA LoopChain ==
  ASSUME NobodyLeaves, ChainInv, Frame', NEW t \in Threads, Scan(t) \/ SocketFails(t) \/ RemoveChild(t)
  PROVE  ChainInv'
<1>1. thread[t].pc \in {"scan", "connect"} /\ t[1] \in Procs
  BY Pairs DEF Scan, SocketFails, RemoveChild
<1>2. DOMAIN thread = Threads /\ thread[t] \in Thread
  BY DEF ChainInv, Frame, TypeInv, Placed, WellPlaced
<1>3. CASE Scan(t)
  <2>1. UNCHANGED <<proc, started, isFather, holders, backlog, guard>>
    BY <1>3 DEF Scan, table, memory
  <2>2. CASE Others(t) = {}
    BY <1>1, <1>3, <2>1, <2>2, FinishChain DEF Scan
  <2>3. CASE Others(t) # {}
    <3>1. PICK s \in Others(t) : thread' = [thread EXCEPT ![t].pc = "connect", ![t].pos = s] /\ mutex' = mutex
      BY <1>3, <2>3 DEF Scan
    <3> QED
      BY <1>1, <2>1, <3>1, TableQuiet, QuietChain DEF AtIt
  <2> QED
    BY <2>2, <2>3
<1>4. CASE SocketFails(t)
  BY <1>1, <1>4, FinishChain DEF SocketFails, table, memory
<1>5. CASE RemoveChild(t)
  <2>1. CASE /\ \E cancelled \in Cancelled(t[1]) : t \notin cancelled /\ Finish(t, cancelled)
             /\ UNCHANGED <<proc, backlog, guard>>
    <3>1. PICK cancelled \in Cancelled(t[1]) : t \notin cancelled /\ Finish(t, cancelled)
      BY <2>1
    <3>2. cancelled \in SUBSET Threads
      BY <1>1, CancelledServers DEF Threads, Roles
    <3>3. UNCHANGED <<started, isFather>>
      BY <1>5 DEF RemoveChild
    <3> QED
      BY <1>1, <2>1, <3>1, <3>2, <3>3, FinishChain
  <2>2. CASE /\ {t} \in Cancelled(t[1]) /\ thread' = [thread EXCEPT ![t] = Gone]
             /\ UNCHANGED <<proc, backlog, mutex, guard>>
    <3>1. t[2] # "client"
      BY <1>1, <2>2, CancelledServers
    <3>2. UNCHANGED <<started, isFather>>
      BY <1>5 DEF RemoveChild
    <3>3. /\ {} \in SUBSET Threads /\ t \notin {}
          /\ thread'[t] = Gone
          /\ \A q \in Threads \ {t} : thread'[q] = IF q \in {} THEN Gone ELSE thread[q]
      BY <1>2, <2>2
    <3> QED
      BY <1>1, <2>2, <3>1, <3>2, <3>3, RestStep
  <2>3. CASE /\ thread' = [thread EXCEPT ![t].pc = "hung"]
             /\ UNCHANGED <<proc, holders, backlog, mutex, guard>>
    <3>1. thread' = [thread EXCEPT ![t].pc = "hung", ![t].pos = thread[t].pos]
      BY <1>2, <2>3 DEF Thread
    <3>2. UNCHANGED <<started, isFather>>
      BY <1>5 DEF RemoveChild
    <3> QED
      BY <1>1, <2>3, <3>1, <3>2, TableQuiet, QuietChain DEF AtIt
  <2> QED
    BY <1>5, <2>1, <2>2, <2>3 DEF RemoveChild, NobodyLeaves
<1> QED
  BY <1>3, <1>4, <1>5

(* What a thread reads at the end of its part: the answer, or the end of   *)
(* the connection.                                                         *)
LEMMA ReadChain ==
  ASSUME ChainInv, Frame', NEW t \in Threads, ReadAnswer(t)
  PROVE  ChainInv'
<1> DEFINE Closed1(c) == Close(t[1], c)
           Seen(q) == IF IsFrom(t, thread[q].conn)
                      THEN [thread[q] EXCEPT !.conn = Closed1(@)] ELSE thread[q]
           End1(q) == [Seen(q) EXCEPT !.pc = "scan", !.pos = @ + 1, !.peer = NoThread,
                                      !.ends = {}, !.answered = FALSE]
<1>1. MutexInv /\ Serves /\ Changed /\ Linked /\ Closed /\ \A q \in Threads : thread[q] \in Thread
  BY DEF ChainInv, Links, Frame, TypeInv, Placed, WellPlaced
<1>2. /\ thread[t].pc = "read" /\ (thread[t].answered \/ PeerOpen(t) = {})
      /\ thread' = [q \in Threads |-> IF q # t THEN Seen(q) ELSE End1(q)]
      /\ backlog' = [q \in Threads |-> [k \in DOMAIN backlog[q] |->
                       IF IsFrom(t, backlog[q][k]) THEN Closed1(backlog[q][k]) ELSE backlog[q][k]]]
      /\ UNCHANGED <<proc, started, isFather, holders, mutex, guard>>
  BY DEF ReadAnswer, ReadReturns, AtPeer, table, memory
<1>3. \A q \in Threads : /\ Seen(q).pc = thread[q].pc /\ Seen(q).block = thread[q].block
                         /\ Seen(q).peer = thread[q].peer /\ Seen(q).ends = thread[q].ends
                         /\ Seen(q).answered = thread[q].answered /\ DOMAIN Seen(q) = DOMAIN thread[q]
                         /\ Seen(q).conn = IF IsFrom(t, thread[q].conn) THEN Closed1(thread[q].conn)
                                                                     ELSE thread[q].conn
  BY <1>1 DEF Thread
<1> HIDE DEF Seen
<1>4. /\ thread'[t].pc = "scan" /\ thread'[t].block = thread[t].block /\ ~thread'[t].answered
      /\ \A q \in Threads \ {t} : /\ thread'[q].pc = thread[q].pc /\ thread'[q].block = thread[q].block
                                  /\ thread'[q].peer = thread[q].peer /\ thread'[q].ends = thread[q].ends
                                  /\ thread'[q].answered = thread[q].answered
      /\ \A q \in Threads : thread'[q].conn = IF IsFrom(t, thread[q].conn) THEN Closed1(thread[q].conn)
                                                                          ELSE thread[q].conn
  <2>1. thread'[t] = End1(t) /\ \A q \in Threads \ {t} : thread'[q] = Seen(q)
    BY <1>2
  <2>2. {"pc", "block", "conn", "answered"} \subseteq DOMAIN Seen(t)
    BY <1>1, <1>3 DEF Thread
  <2>3. thread'[t].pc = "scan" /\ ~thread'[t].answered
    BY <2>1, <2>2
  <2>4. thread'[t].block = Seen(t).block /\ thread'[t].conn = Seen(t).conn
    BY <2>1, <2>2
  <2> HIDE DEF Closed1, End1
  <2>5. thread'[t].block = thread[t].block
    BY <1>3, <2>4
  <2>6. ASSUME NEW q \in Threads \ {t}
        PROVE  /\ thread'[q].pc = thread[q].pc /\ thread'[q].block = thread[q].block
               /\ thread'[q].peer = thread[q].peer /\ thread'[q].ends = thread[q].ends
               /\ thread'[q].answered = thread[q].answered
    BY <1>3, <2>1
  <2>7. ASSUME NEW q \in Threads
        PROVE  thread'[q].conn = IF IsFrom(t, thread[q].conn) THEN Closed1(thread[q].conn)
                                                             ELSE thread[q].conn
    BY <1>3, <2>1, <2>4
  <2> QED
    BY <2>3, <2>5, <2>6, <2>7
<1>5. t \in Busy /\ ~Waits(t) /\ (\A before : ~Asks(t, before))
  <2>1. CASE thread[t].answered
    BY <1>2, <2>1, BusyPlaces DEF Waits, Asks
  <2>2. CASE PeerOpen(t) = {}
    <3>1. ~Waits(t)
      <4>1. thread[t].peer \in Threads
        BY <1>1, <1>2 DEF Linked
      <4> QED
        BY <2>2, <4>1 DEF PeerOpen, Waits, InQueue
    <3> QED
      BY <1>2, <2>2, <3>1, BusyPlaces DEF Asks
  <2> QED
    BY <1>2, <2>1, <2>2
<1>6. PICK before : /\ Ordered(before) /\ NothingPending
                    /\ \A u \in Busy \ {t} : Waits(u) /\ <<t, u>> \notin before /\ <<u, t>> \in before
  BY <1>5, Worker
<1>7. ASSUME NEW c \in Connection \cup {NoConn}, NEW d, d = IF IsFrom(t, c) THEN Closed1(c) ELSE c
      PROVE  /\ LessConn(d, c) /\ d.block = c.block /\ ~HasConn(t, d)
             /\ d # c => IsFrom(t, c) /\ c # NoConn
  <2>1. CASE IsFrom(t, c)
    <3>1. c \in Connection
      BY <2>1, Pairs DEF IsFrom, NoConn, NoThread
    <3>2. d.from = c.from /\ d.block = c.block /\ d.open = c.open \ {t[1]}
      BY <1>7, <2>1, <3>1 DEF Close, Connection
    <3> QED
      BY <2>1, <3>2, Pairs DEF LessConn, HasConn, IsFrom, NoConn, NoThread
  <2>2. CASE ~IsFrom(t, c)
    BY <1>2, <1>7, <2>2, LessItself DEF IsFrom, HasConn
  <2> QED
    BY <2>1, <2>2
<1>8. ASSUME NEW q \in Threads
      PROVE  /\ LessConn(thread'[q].conn, thread[q].conn) /\ thread'[q].conn.block = thread[q].conn.block
             /\ ~HasConn(t, thread'[q].conn)
             /\ thread'[q].conn # thread[q].conn => AtServer(t, q) /\ thread[q].conn # NoConn
             /\ DOMAIN backlog'[q] = DOMAIN backlog[q]
             /\ \A k \in DOMAIN backlog[q] :
                  /\ LessConn(backlog'[q][k], backlog[q][k]) /\ backlog'[q][k].block = backlog[q][k].block
                  /\ ~HasConn(t, backlog'[q][k])
  <2>1. thread[q].conn \in Connection \cup {NoConn}
    BY <1>1 DEF Thread
  <2>2. thread'[q].conn = IF IsFrom(t, thread[q].conn) THEN Closed1(thread[q].conn) ELSE thread[q].conn
    BY <1>4
  <2>3. DOMAIN backlog'[q] = DOMAIN backlog[q]
    BY <1>2
  <2>4. \A k \in DOMAIN backlog[q] : backlog[q][k] \in Connection
    BY <1>1, ElementOfSeq, LenProperties DEF ChainInv, Frame, TypeInv, Queues
  <2>5. \A k \in DOMAIN backlog[q] :
          backlog'[q][k] = IF IsFrom(t, backlog[q][k]) THEN Closed1(backlog[q][k]) ELSE backlog[q][k]
    BY <1>2
  <2> HIDE DEF Closed1
  <2> QED
    BY <1>7, <2>1, <2>2, <2>3, <2>4, <2>5 DEF AtServer
<1> HIDE DEF Closed1, End1
<1>9. HasNone(t)'
  <2>1. ASSUME NEW q \in Threads
        PROVE  /\ ~HasConn(t, thread'[q].conn)
               /\ \A k \in DOMAIN backlog'[q] : ~HasConn(t, backlog'[q][k])
    BY <1>8
  <2> QED
    BY <2>1 DEF HasNone, HasConn
<1>10. Shrinks
  <2>1. ASSUME NEW q \in Threads
        PROVE  /\ thread'[q].pc \in {"write", "read"} =>
                    thread[q].pc \in {"write", "read"} /\ thread'[q].peer = thread[q].peer
               /\ thread'[q].pc \notin {"none", "write", "read"} =>
                    thread[q].pc \notin {"none", "write", "read"} \/ HasNone(q)'
               /\ thread[q].pc = "none" => thread'[q].pc = "none"
               /\ thread'[q].pc \in {"claim", "claim father", "stop"} => thread'[q].pc = thread[q].pc
    BY <1>2, <1>4, <1>9
  <2> QED
    BY <1>2, <1>8, <2>1 DEF Shrinks
<1>11. NothingPending'
  BY <1>6, <1>8 DEF NothingPending
<1>12. Busy' = Busy
  <2>1. \A q \in Threads : q \in Busy' <=> thread'[q].pc \in {"scan", "connect", "write", "read", "hung", "answer"}
    BY DEF Busy, InDistribution
  <2>2. \A q \in Threads : q \in Busy' <=> q \in Busy
    BY <1>2, <1>4, <2>1, BusyPlaces
  <2> QED
    BY <2>2 DEF Busy
<1>13. \A q \in Threads : thread'[q].pc # "write"
  BY <1>4, <1>6, BusyPlaces DEF Waits
<1>14. \A q \in Threads : thread'[q].conn # NoConn =>
         thread[q].conn # NoConn /\ (thread'[q].pc = "serve" \/ q \in Busy')
  BY <1>1, <1>2, <1>4, <1>8, <1>12 DEF Serves
<1>15. \A w \in Busy' : w[2] # "client" => thread'[w].conn.open # {}
  <2>1. \A w \in Busy : w \in Threads /\ ~AtServer(t, w)
    BY <1>5, <1>6, ServedWaits DEF Busy
  <2> QED
    BY <1>1, <1>8, <1>12, <2>1 DEF Serves
<1>16. \A v, u \in Busy' : v # u /\ <<v, u>> \in before => Waits(v)'
  <2> SUFFICES ASSUME NEW v \in Busy, NEW u \in Busy, v # u, <<v, u>> \in before PROVE Waits(v)'
    BY <1>12
  <2>1. v # t /\ v \in Threads /\ Waits(v)
    BY <1>6 DEF Busy
  <2>2. thread'[v].pc = "read" /\ ~thread'[v].answered /\ thread'[v].ends # {}
    BY <1>4, <2>1 DEF Waits
  <2> QED
    BY <1>10, <1>12, <2>1, <2>2, ShrinkView, WaitsOn
<1>17. \A w \in Busy' : thread'[w].block = thread[w].block
  BY <1>4 DEF Busy
<1>18. \A q \in Threads : thread'[q].answered =>
         /\ thread'[q].pc = "read" /\ thread'[q].peer \in Threads
         /\ proc'[thread'[q].peer[1]] # "absent"
         /\ Done(thread[q].peer[1], thread[q].block)'
  BY <1>1, <1>2, <1>4 DEF Changed, Done
<1> QED
  BY <1>2, <1>6, <1>10, <1>11, <1>12, <1>13, <1>14, <1>15, <1>16, <1>17, <1>18, Settle

--------------------------------------------------------------------------------
(* A message at a server is from the last of those at work, and the only   *)
(* one.                                                                    *)
AskedBy(u, t, before) ==
  /\ Ordered(before) /\ u \in Busy /\ t \notin Busy /\ AtServer(u, t)
  /\ thread[t].pc = "serve" /\ t[2] # "client" /\ OfHolder(thread[t].conn.block)
  /\ thread[u].pc = "read" /\ ~thread[u].answered /\ thread[u].ends # {} /\ thread[u].peer = t
  /\ \A q \in Threads : ~InQueue(u, q) /\ (AtServer(u, q) => q = t) /\ (AtServer(q, t) => q = u)
  /\ \A v \in Busy \ {u} : Waits(v) /\ <<v, u>> \in before /\ <<u, v>> \notin before
  /\ \A q \in Threads : /\ q # t => thread[q].conn.block = NoBlock
                        /\ \A k \in DOMAIN backlog[q] : backlog[q][k].block = NoBlock

LEMMA Asked ==
  ASSUME ChainInv, NEW t \in Threads, thread[t].conn.block # NoBlock
  PROVE  \E u \in Threads : \E before : AskedBy(u, t, before)
<1>1. Linked /\ Serves
  BY DEF ChainInv, Links
<1>2. PICK before : Ordered(before) /\ Pending(before)
  BY DEF ChainInv
<1>3. thread[t].pc = "serve" /\ OfHolder(thread[t].conn.block)
  BY <1>2 DEF Pending
<1>4. PICK u \in Threads : AtServer(u, t) /\ Asks(u, before)
  BY <1>2 DEF Pending
<1>5. t \notin Busy /\ u \in Busy
  BY <1>3, <1>4, BusyPlaces DEF Asks
<1>6. thread[u].peer = t /\ \A q \in Threads : ~InQueue(u, q) /\ (AtServer(u, q) => q = t)
  <2>1. thread[u].peer = t /\ ~InQueue(u, t)
    BY <1>1, <1>4 DEF Linked
  <2> QED
    BY <1>1, <2>1 DEF Linked, InQueue
<1>7. thread[u].ends # {}
  BY <1>4, <1>6 DEF Asks, PeerOpen, InQueue
<1>8. \A v \in Busy \ {u} : Waits(v) /\ <<v, u>> \in before /\ <<u, v>> \notin before
  BY <1>2, <1>4, <1>5 DEF Asks, Ordered
<1>9. \A q \in Threads : AtServer(q, t) => q = u
  BY <1>4 DEF AtServer, IsFrom
<1>10. ASSUME NEW q \in Threads
       PROVE  /\ q # t => thread[q].conn.block = NoBlock
              /\ \A k \in DOMAIN backlog[q] : backlog[q][k].block = NoBlock
  <2>1. \A v \in Threads : Asks(v, before) => v = u
    BY <1>2, <1>4, OneAsker
  <2> QED
    BY <1>2, <1>6, <2>1 DEF Pending, InQueue
<1>11. t[2] # "client"
  BY <1>1, NoneToRead DEF Serves
<1> QED
  BY <1>2, <1>3, <1>4, <1>5, <1>6, <1>7, <1>8, <1>9, <1>10, <1>11 DEF AskedBy, Asks

(* A server that refuses a message hangs up; who asked it reads the end of *)
(* the connection.                                                         *)
LEMMA HangUpChain ==
  ASSUME ChainInv, Frame', NEW t \in Threads, HangUp(t), thread[t].conn.block # NoBlock,
         UNCHANGED <<proc, started, isFather, backlog, mutex, guard>>
  PROVE  ChainInv'
<1>1. Serves /\ Changed /\ \A q \in Threads : thread[q] \in Thread
  BY DEF ChainInv, Links, Frame, TypeInv, Placed, WellPlaced
<1>2. PICK u \in Threads : \E before : AskedBy(u, t, before)
  BY Asked
<1>3. PICK before : AskedBy(u, t, before)
  BY <1>2
<1>4. /\ thread'[t].pc = "accept" /\ thread'[t].conn = NoConn /\ thread'[t].answered = thread[t].answered
      /\ \A q \in Threads \ {t} :
           /\ thread'[q].pc = thread[q].pc /\ thread'[q].block = thread[q].block
           /\ thread'[q].peer = thread[q].peer /\ thread'[q].conn = thread[q].conn
           /\ thread'[q].answered = thread[q].answered
           /\ q # u => thread'[q].ends = thread[q].ends
  <2>1. thread'[t] = [thread[t] EXCEPT !.pc = "accept", !.conn = NoConn]
    BY DEF HangUp
  <2>2. ASSUME NEW q \in Threads, q # t
        PROVE  \/ q = u /\ thread'[q] = [thread[q] EXCEPT !.ends = @ \ {t[1]}]
               \/ thread'[q] = thread[q]
    BY <1>3, <2>2 DEF HangUp, AskedBy, AtServer
  <2>3. /\ thread'[t].pc = "accept" /\ thread'[t].conn = NoConn
        /\ thread'[t].answered = thread[t].answered
    BY <1>1, <2>1 DEF Thread
  <2>4. ASSUME NEW q \in Threads \ {t}
        PROVE  /\ thread'[q].pc = thread[q].pc /\ thread'[q].block = thread[q].block
               /\ thread'[q].peer = thread[q].peer /\ thread'[q].conn = thread[q].conn
               /\ thread'[q].answered = thread[q].answered
               /\ q # u => thread'[q].ends = thread[q].ends
    <3>1. CASE q = u /\ thread'[q] = [thread[q] EXCEPT !.ends = @ \ {t[1]}]
      BY <1>1, <3>1 DEF Thread
    <3>2. CASE thread'[q] = thread[q]
      BY <3>2
    <3> QED
      BY <2>2, <3>1, <3>2
  <2> QED
    BY <2>3, <2>4
<1>5. thread[t].pc = "serve" /\ t \notin Busy /\ ~thread[t].answered
  BY <1>1, <1>3 DEF AskedBy, Changed
<1>6. Shrinks
  <2>1. \A q \in Threads : LessConn(thread'[q].conn, thread[q].conn)
    BY <1>4, LessItself
  <2> QED
    BY <1>4, <1>5, <2>1, LessItself DEF Shrinks
<1>7. NothingPending'
  BY <1>3, <1>4, NoneToRead DEF NothingPending, AskedBy
<1>8. Busy' = Busy
  <2>1. \A q \in Threads : q \in Busy' <=> thread'[q].pc \in {"scan", "connect", "write", "read", "hung", "answer"}
    BY DEF Busy, InDistribution
  <2>2. \A q \in Threads : q \in Busy' <=> q \in Busy
    BY <1>4, <1>5, <2>1, BusyPlaces
  <2> QED
    BY <2>2 DEF Busy
<1>9. \A q \in Threads : thread'[q].pc # "write"
  <2>1. \A q \in Busy : thread[q].pc # "write"
    BY <1>3 DEF AskedBy, Waits
  <2> QED
    BY <1>4, <2>1, BusyPlaces
<1>10. \A q \in Threads : thread'[q].conn # NoConn =>
         thread[q].conn # NoConn /\ (thread'[q].pc = "serve" \/ q \in Busy')
  BY <1>1, <1>4, <1>8 DEF Serves
<1>11. \A w \in Busy' : w[2] # "client" => thread'[w].conn.open # {}
  BY <1>1, <1>4, <1>5, <1>8 DEF Serves, Busy
<1>12. \A v, w \in Busy' : v # w /\ <<v, w>> \in before => Waits(v)'
  <2> SUFFICES ASSUME NEW v \in Busy, NEW w \in Busy, v # w, <<v, w>> \in before PROVE Waits(v)'
    BY <1>8
  <2>0. v # u
    BY <1>3 DEF AskedBy
  <2>1. v # u /\ v # t /\ v \in Threads /\ Waits(v)
    <3>1. Waits(v)
      BY <1>3, <2>0 DEF AskedBy
    <3> QED
      BY <1>5, <2>0, <3>1 DEF Busy
  <2>2. thread'[v].pc = "read" /\ ~thread'[v].answered /\ thread'[v].ends # {}
    BY <1>4, <2>1 DEF Waits
  <2> QED
    BY <1>6, <1>8, <2>1, <2>2, ShrinkView, WaitsOn
<1>13. \A w \in Busy' : thread'[w].block = thread[w].block
  BY <1>4, <1>5, <1>8 DEF Busy
<1>14. \A q \in Threads : thread'[q].answered =>
         /\ thread'[q].pc = "read" /\ thread'[q].peer \in Threads
         /\ proc'[thread'[q].peer[1]] # "absent"
         /\ Done(thread[q].peer[1], thread[q].block)'
  BY <1>1, <1>4, <1>5 DEF Changed, Done
<1>15. Ordered(before)
  BY <1>3 DEF AskedBy
<1> QED
  BY <1>6, <1>7, <1>8, <1>9, <1>10, <1>11, <1>12, <1>13, <1>14, <1>15, Settle

(* While nobody leaves, the one who asked is still there to be told.       *)
LEMMA RefuseChain ==
  ASSUME ChainInv, Frame', NEW t \in Threads, Refuse(t)
  PROVE  ChainInv'
<1>1. thread[t].conn.block # NoBlock
  BY DEF Refuse
<1>2. PICK u \in Threads : \E before : AskedBy(u, t, before)
  BY <1>1, Asked
<1>3. ~WriteEnds(thread[t].conn.open)
  BY <1>2 DEF AskedBy, AtServer, IsFrom, WriteEnds
<1>4. HangUp(t) /\ UNCHANGED <<proc, started, isFather, backlog, mutex, guard>>
  BY <1>3 DEF Refuse, table
<1> QED
  BY <1>1, <1>4, HangUpChain

(* The answer is for the thread directly before.                           *)
LEMMA AnswerChain ==
  ASSUME ChainInv, Frame', NEW t \in Threads, Answer(t)
  PROVE  ChainInv'
<1>1. /\ Serves /\ Changed /\ Linked /\ Unborn /\ MutexInv
      /\ \A q \in Threads : thread[q] \in Thread
  BY DEF ChainInv, Links, Frame, TypeInv, Placed, WellPlaced
<1>2. thread[t].pc = "answer" /\ t \in Busy /\ ~Waits(t) /\ (\A before : ~Asks(t, before))
  BY BusyPlaces DEF Answer, Waits, Asks
<1>3. PICK before : /\ Ordered(before) /\ NothingPending
                    /\ \A u \in Busy \ {t} : Waits(u) /\ <<t, u>> \notin before /\ <<u, t>> \in before
  BY <1>2, Worker
<1>4. t[2] # "client"
  <2>1. \A p \in Procs : Client(p) # t
    BY <1>1, <1>2, ServersServe DEF Serving
  <2> QED
    BY <2>1, Pairs DEF Client
<1>5. ~WriteEnds(thread[t].conn.open)
  BY <1>1, <1>2, <1>4 DEF Serves, WriteEnds
<1>6. /\ thread' = [q \in Threads |->
              IF q = t THEN [thread[t] EXCEPT !.pc = "serve", !.block = NoBlock, !.pos = 0]
              ELSE IF IsFrom(q, thread[t].conn) THEN [thread[q] EXCEPT !.answered = TRUE]
              ELSE thread[q]]
      /\ UNCHANGED <<proc, started, isFather, holders, backlog, mutex, guard>>
  BY <1>5 DEF Answer, table
<1>7. /\ thread'[t].pc = "serve" /\ thread'[t].conn = thread[t].conn
      /\ thread'[t].answered = thread[t].answered
      /\ \A q \in Threads \ {t} :
           /\ thread'[q].pc = thread[q].pc /\ thread'[q].block = thread[q].block
           /\ thread'[q].peer = thread[q].peer /\ thread'[q].conn = thread[q].conn
           /\ thread'[q].ends = thread[q].ends
           /\ ~AtServer(q, t) => thread'[q].answered = thread[q].answered
  <2>1. thread'[t] = [thread[t] EXCEPT !.pc = "serve", !.block = NoBlock, !.pos = 0]
    BY <1>6
  <2>2. ASSUME NEW q \in Threads, q # t
        PROVE  \/ AtServer(q, t) /\ thread'[q] = [thread[q] EXCEPT !.answered = TRUE]
               \/ thread'[q] = thread[q]
    BY <1>6, <2>2 DEF AtServer
  <2>3. /\ thread'[t].pc = "serve" /\ thread'[t].conn = thread[t].conn
        /\ thread'[t].answered = thread[t].answered
    BY <1>1, <2>1 DEF Thread
  <2>4. ASSUME NEW q \in Threads \ {t}
        PROVE  /\ thread'[q].pc = thread[q].pc /\ thread'[q].block = thread[q].block
               /\ thread'[q].peer = thread[q].peer /\ thread'[q].conn = thread[q].conn
               /\ thread'[q].ends = thread[q].ends
               /\ ~AtServer(q, t) => thread'[q].answered = thread[q].answered
    <3>1. CASE AtServer(q, t) /\ thread'[q] = [thread[q] EXCEPT !.answered = TRUE]
      BY <1>1, <3>1 DEF Thread
    <3>2. CASE thread'[q] = thread[q]
      BY <3>2
    <3> QED
      BY <2>2, <3>1, <3>2
  <2> QED
    BY <2>3, <2>4
<1>8. ~thread[t].answered
  BY <1>1, <1>2 DEF Changed
<1>9. Shrinks
  <2>1. \A q \in Threads : thread'[q].conn = thread[q].conn
    BY <1>7
  <2> QED
    BY <1>2, <1>6, <1>7, <2>1, LessItself DEF Shrinks
<1>10. NothingPending'
  BY <1>3, <1>6, <1>7 DEF NothingPending
<1>11. Busy' = Busy \ {t}
  <2>1. \A q \in Threads : q \in Busy' <=> thread'[q].pc \in {"scan", "connect", "write", "read", "hung", "answer"}
    BY DEF Busy, InDistribution
  <2>2. \A q \in Threads : q \in Busy' <=> q \in Busy /\ q # t
    BY <1>7, <2>1, BusyPlaces
  <2> QED
    BY <2>2 DEF Busy
<1>12. \A q \in Threads : thread'[q].pc # "write"
  BY <1>3, <1>7, BusyPlaces DEF Waits
<1>13. \A q \in Threads : thread'[q].conn # NoConn =>
         thread[q].conn # NoConn /\ (thread'[q].pc = "serve" \/ q \in Busy')
  BY <1>1, <1>7, <1>11 DEF Serves
<1>14. \A w \in Busy' : w[2] # "client" => thread'[w].conn.open # {}
  BY <1>1, <1>7, <1>11 DEF Serves, Busy
<1>15. \A v, w \in Busy' : v # w /\ <<v, w>> \in before => Waits(v)'
  <2> SUFFICES ASSUME NEW v \in Busy \ {t}, NEW w \in Busy \ {t}, v # w, <<v, w>> \in before PROVE Waits(v)'
    BY <1>11
  <2>1. v # t /\ v \in Threads /\ Waits(v)
    BY <1>3 DEF Busy
  <2>2. ~AtServer(v, t)
    <3>1. <<w, t>> \in before
      BY <1>3
    <3> QED
      BY <1>2, <1>3, <2>1, <3>1 DEF Ordered
  <2>3. thread'[v].pc = "read" /\ ~thread'[v].answered /\ thread'[v].ends # {}
    BY <1>7, <2>1, <2>2 DEF Waits
  <2>4. \A q \in Threads : AtServer(v, q)' /\ q \in Busy => q \in Busy'
    BY <1>9, <1>11, <2>1, <2>2, ShrinkView
  <2> QED
    BY <1>9, <2>1, <2>3, <2>4, ShrinkView, WaitsOn
<1>16. \A w \in Busy' : thread'[w].block = thread[w].block
  BY <1>7, <1>11 DEF Busy
<1>17. ASSUME NEW q \in Threads, thread'[q].answered
       PROVE  /\ thread'[q].pc = "read" /\ thread'[q].peer \in Threads
              /\ proc'[thread'[q].peer[1]] # "absent"
              /\ Done(thread[q].peer[1], thread[q].block)'
  <2>0. q # t
    BY <1>7, <1>8, <1>17
  <2>1. CASE AtServer(q, t)
    <3>1. q \in Busy /\ Waits(q) /\ thread[q].peer = t
      BY <1>1, <1>2, <1>3, <2>1, ServedWaits DEF Linked
    <3>2. proc[t[1]] # "absent"
      <4>1. t[1] \in Procs /\ t[2] \in Roles /\ t = <<t[1], t[2]>>
        BY Pairs
      <4> QED
        BY <1>1, <1>2, <4>1 DEF Unborn, Fresh
    <3>3. Done(t[1], thread[q].block)
      BY <1>1, <1>2, <3>1 DEF Changed, OfHolder, Done
    <3> QED
      BY <1>6, <1>7, <2>0, <3>1, <3>2, <3>3 DEF Done, Waits
  <2>2. CASE ~AtServer(q, t)
    <3>1. thread[q].answered
      BY <1>7, <1>17, <2>0, <2>2
    <3>2. /\ thread[q].pc = "read" /\ thread[q].peer \in Threads
          /\ proc[thread[q].peer[1]] # "absent" /\ Done(thread[q].peer[1], thread[q].block)
      BY <1>1, <3>1 DEF Changed
    <3> QED
      BY <1>6, <1>7, <2>0, <3>2 DEF Done
  <2> QED
    BY <2>1, <2>2
<1> QED
  BY <1>3, <1>6, <1>9, <1>10, <1>11, <1>12, <1>13, <1>14, <1>15, <1>16, <1>17, Settle

--------------------------------------------------------------------------------
(* A server takes the change on: it comes after the thread that sent it.   *)
LEMMA HandleChain ==
  ASSUME ChainInv, Frame', NEW t \in Threads, Handle(t)
  PROVE  ChainInv'
<1>0. PICK block, sent, c : /\ block = thread[t].conn.block
                            /\ sent = [block EXCEPT !.sourcePID = t[1]]
                            /\ c = [thread[t].conn EXCEPT !.block = NoBlock]
  OBVIOUS
<1>1. /\ Serves /\ Changed /\ Linked /\ MutexInv /\ DOMAIN thread = Threads
      /\ DOMAIN guard = Procs /\ \A q \in Threads : thread[q] \in Thread
  BY DEF ChainInv, Links, Frame, TypeInv, Tables, Placed, WellPlaced
<1>2. block # NoBlock /\ t[1] \in Procs
  BY <1>0, Pairs DEF Handle
<1>3. PICK u \in Threads : \E before : AskedBy(u, t, before)
  BY <1>0, <1>2, Asked
<1>4. PICK before : AskedBy(u, t, before)
  BY <1>3
<1>5. thread[t].conn \in Connection /\ block \in MProtectBlock
  <2>1. thread[t].conn \in Connection \cup {NoConn}
    BY <1>1 DEF Thread
  <2> QED
    BY <1>0, <1>2, <2>1, NoneToRead DEF Connection
<1>6. /\ sent.header = block.header /\ sent.on = block.on
      /\ c.from = thread[t].conn.from /\ c.open = thread[t].conn.open /\ c.block = NoBlock
  BY <1>0, <1>5 DEF MProtectBlock, Connection
<1>7. thread' = [thread EXCEPT ![t] = [thread[t] EXCEPT !.pc = "scan", !.pos = 1,
                                                      !.block = sent, !.conn = c]]
  <2> DEFINE f == Distributing(t, block)
             r == [thread[t] EXCEPT !.pc = "scan", !.pos = 1, !.block = sent]
  <2>1. thread' = [f EXCEPT ![t].conn.block = NoBlock]
    BY <1>0 DEF Handle
  <2>2. f = [thread EXCEPT ![t] = r]
    BY <1>0, <1>1 DEF Distributing
  <2>3. r.conn = thread[t].conn
    BY <1>1 DEF Thread
  <2> HIDE DEF f, r
  <2>4. thread' = [thread EXCEPT ![t] = [r EXCEPT !.conn = c]]
    <3>1. thread' = [thread EXCEPT ![t] = [r EXCEPT !.conn.block = NoBlock]]
      BY <1>1, <2>1, <2>2
    <3>2. [r EXCEPT !.conn.block = NoBlock] = [r EXCEPT !.conn = c]
      BY <1>0, <2>3
    <3> QED
      BY <3>1, <3>2
  <2>5. [r EXCEPT !.conn = c]
          = [thread[t] EXCEPT !.pc = "scan", !.pos = 1, !.block = sent, !.conn = c]
    BY <1>1 DEF r, Thread
  <2> QED
    BY <2>4, <2>5
<1>8. /\ thread'[t].pc = "scan" /\ thread'[t].block = sent /\ thread'[t].conn = c
      /\ thread'[t].answered = thread[t].answered
      /\ \A q \in Threads \ {t} : thread'[q] = thread[q]
  <2>1. /\ thread'[t] = [thread[t] EXCEPT !.pc = "scan", !.pos = 1, !.block = sent, !.conn = c]
        /\ \A q \in Threads \ {t} : thread'[q] = thread[q]
    BY <1>1, <1>7
  <2>2. /\ thread'[t].pc = "scan" /\ thread'[t].block = sent /\ thread'[t].conn = c
        /\ thread'[t].answered = thread[t].answered
    BY <1>1, <2>1 DEF Thread
  <2> QED
    BY <2>1, <2>2
<1>9. /\ UNCHANGED <<proc, started, isFather, holders, backlog, mutex>>
      /\ guard' = [guard EXCEPT ![t[1]] = IF block.on THEN @ \cup {block.header} ELSE @ \ {block.header}]
  BY <1>0 DEF Handle, SetGuard, table
<1>10. thread[t].pc = "serve" /\ t \notin Busy /\ t[2] # "client" /\ OfHolder(block)
  BY <1>0, <1>4 DEF AskedBy
<1>11. Shrinks
  <2>1. LessConn(c, thread[t].conn)
    BY <1>6 DEF LessConn
  <2>2. \A q \in Threads : LessConn(thread'[q].conn, thread[q].conn)
    BY <1>8, <2>1, LessItself
  <2> QED
    BY <1>8, <1>9, <1>10, <2>2, LessItself DEF Shrinks
<1>12. NothingPending'
  BY <1>4, <1>6, <1>8, <1>9 DEF NothingPending, AskedBy
<1>13. Busy' = Busy \cup {t}
  <2>1. \A q \in Threads : q \in Busy' <=> thread'[q].pc \in {"scan", "connect", "write", "read", "hung", "answer"}
    BY DEF Busy, InDistribution
  <2>2. \A q \in Threads : q \in Busy' <=> q \in Busy \/ q = t
    BY <1>8, <2>1, BusyPlaces
  <2> QED
    BY <2>2 DEF Busy
<1>14. \A v \in Busy : v \in Threads /\ v # t /\ thread'[v] = thread[v]
  BY <1>8, <1>10 DEF Busy
<1>15. ASSUME NEW v \in Busy PROVE Waits(v)'
  <2>1. \A q \in Threads : ~InQueue(v, q)' /\ (AtServer(v, q)' => q \in Busy')
    <3>1. CASE v = u
      BY <1>4, <1>11, <1>13, <3>1, ShrinkView DEF AskedBy
    <3>2. CASE v # u
      <4>1. Waits(v)
        BY <1>4, <3>2 DEF AskedBy
      <4> QED
        BY <1>11, <1>13, <1>14, <4>1, ShrinkView DEF Waits
    <3> QED
      BY <3>1, <3>2
  <2>2. thread[v].pc = "read" /\ ~thread[v].answered /\ thread[v].ends # {}
    BY <1>4 DEF AskedBy, Waits
  <2>3. thread'[v].pc = "read" /\ ~thread'[v].answered /\ thread'[v].ends # {}
    BY <1>14, <2>2
  <2> QED
    BY <2>1, <2>3 DEF Waits
<1>16. PICK after : /\ \A v, w \in Busy : <<v, w>> \in after <=> <<v, w>> \in before
                    /\ \A v \in Busy : <<v, t>> \in after
                    /\ \A v : <<t, v>> \notin after
  <2> DEFINE after == {pair \in before : \E v, w \in Busy : pair = <<v, w>>} \cup (Busy \X {t})
  <2>1. /\ \A v, w \in Busy : <<v, w>> \in after <=> <<v, w>> \in before
        /\ \A v \in Busy : <<v, t>> \in after
        /\ \A v : <<t, v>> \notin after
    BY <1>10
  <2> HIDE DEF after
  <2> QED
    BY <2>1
<1>17. Ordered(after)'
  <2>1. Ordered(before)
    BY <1>4 DEF AskedBy
  <2>2. \A v, w \in Busy' : v # w => <<v, w>> \in after \/ <<w, v>> \in after
    BY <1>13, <1>16, <2>1 DEF Ordered
  <2>3. \A v, w \in Busy' : v # w /\ <<v, w>> \in after => Waits(v)'
    BY <1>13, <1>15, <1>16
  <2>4. ASSUME NEW v \in Threads, NEW w \in Busy', AtServer(v, w)'
        PROVE  /\ v # w /\ <<v, w>> \in after
               /\ \A x \in Busy' \ {v, w} : ~(<<v, x>> \in after /\ <<x, w>> \in after)
    <3>1. w \in Threads /\ AtServer(v, w)
      BY <1>11, <2>4, ShrinkView DEF Busy
    <3>2. CASE w = t
      <4>1. v = u /\ u \in Busy
        BY <1>4, <3>1, <3>2 DEF AskedBy
      <4>2. \A x \in Busy \ {u} : <<u, x>> \notin after
        BY <1>4, <1>16, <4>1 DEF AskedBy
      <4> QED
        BY <1>13, <1>14, <1>16, <3>2, <4>1, <4>2
    <3>3. CASE w # t
      <4>1. w \in Busy
        BY <1>13, <3>3
      <4>2. v \in Busy
        BY <2>1, <3>1, <4>1, ServedWaits
      <4>3. /\ v # w /\ <<v, w>> \in before
            /\ \A x \in Busy \ {v, w} : ~(<<v, x>> \in before /\ <<x, w>> \in before)
        BY <2>1, <3>1, <4>1 DEF Ordered
      <4> QED
        BY <1>13, <1>16, <4>1, <4>2, <4>3
    <3> QED
      BY <3>2, <3>3
  <2>5. \A v \in Busy' : v # Client(mutex') => <<v, Client(mutex')>> \notin after
    <3>1. Client(mutex) \in Busy /\ mutex' = mutex
      BY <1>1, <1>9, <1>10, HolderBusy DEF OfHolder
    <3> QED
      BY <1>13, <1>16, <2>1, <3>1 DEF Ordered
  <2> QED
    BY <2>2, <2>3, <2>4, <2>5 DEF Ordered, Client
<1>18. Pending(after)'
  BY <1>12 DEF NothingPending, Pending
<1>19. Serves'
  <2>1. \A q \in Threads : thread'[q].conn # NoConn =>
          q[2] # "client" /\ (thread'[q].pc = "serve" \/ q \in Busy')
    BY <1>1, <1>8, <1>10, <1>13 DEF Serves
  <2>2. thread'[t].conn.open # {}
    BY <1>4, <1>6, <1>8 DEF AskedBy, AtServer, IsFrom
  <2>3. \A w \in Busy' : w[2] # "client" => thread'[w].conn.open # {}
    BY <1>1, <1>13, <1>14, <2>2 DEF Serves
  <2>4. \A q \in Busy : thread[q].pc # "write"
    BY <1>4 DEF AskedBy, Waits
  <2>5. \A q \in Threads : thread'[q].pc # "write"
    BY <1>8, <2>4, BusyPlaces
  <2> QED
    BY <2>1, <2>3, <2>5 DEF Serves
<1>20. Changed'
  <2>1. \A b : OfHolder(b) => OfHolder(b)'
    <3>1. mutex \in Procs => thread'[Client(mutex)].block = thread[Client(mutex)].block
      BY <1>1, <1>14, HolderBusy
    <3> QED
      BY <1>9, <3>1, HolderKept
  <2>2. ASSUME NEW p \in Procs, NEW b, OfHolder(b), Done(p, b) PROVE Done(p, b)'
    <3>1. b.header = block.header /\ b.on = block.on
      BY <1>10, <2>2 DEF OfHolder
    <3>2. CASE p = t[1]
      BY <1>1, <1>5, <1>9, <3>1, <3>2 DEF Done, MProtectBlock
    <3>3. CASE p # t[1]
      BY <1>1, <1>9, <2>2, <3>3 DEF Done
    <3> QED
      BY <3>2, <3>3
  <2>3. OfHolder(sent)' /\ Done(t[1], sent)'
    <3>1. OfHolder(sent)
      BY <1>6, <1>10 DEF OfHolder
    <3>2. Done(t[1], sent)'
      BY <1>1, <1>2, <1>5, <1>6, <1>9 DEF Done, MProtectBlock
    <3> QED
      BY <2>1, <3>1, <3>2
  <2>4. ASSUME NEW v \in Busy' PROVE OfHolder(thread[v].block)' /\ Done(v[1], thread[v].block)'
    <3>1. CASE v = t
      BY <1>8, <2>3, <3>1 DEF OfHolder, Done
    <3>2. CASE v # t
      <4>1. PICK b : b = thread[v].block
        OBVIOUS
      <4>2. v \in Busy /\ v[1] \in Procs /\ thread'[v].block = b
        BY <1>13, <1>14, <2>4, <3>2, <4>1, Pairs
      <4>3. OfHolder(b)' /\ Done(v[1], b)'
        BY <1>1, <2>1, <2>2, <4>1, <4>2 DEF Changed
      <4> QED
        BY <4>2, <4>3 DEF OfHolder, Done
    <3> QED
      BY <3>1, <3>2
  <2>5. ASSUME NEW q \in Threads, thread'[q].answered
        PROVE  /\ thread'[q].pc = "read" /\ thread'[q].peer \in Threads
               /\ proc'[thread'[q].peer[1]] # "absent"
               /\ Done(thread[q].peer[1], thread[q].block)'
    <3>1. thread[q].answered
      BY <1>8, <2>5
    <3>2. /\ thread[q].pc = "read" /\ thread[q].peer \in Threads
          /\ proc[thread[q].peer[1]] # "absent" /\ Done(thread[q].peer[1], thread[q].block)
      BY <1>1, <3>1 DEF Changed
    <3>3. q \in Busy
      BY <3>2, BusyPlaces
    <3>4. PICK b, p : b = thread[q].block /\ p = thread[q].peer[1]
      OBVIOUS
    <3>5. p \in Procs /\ OfHolder(b)
      BY <1>1, <3>2, <3>3, <3>4, Pairs DEF Changed
    <3>6. Done(p, b)'
      BY <2>2, <3>2, <3>4, <3>5
    <3>7. thread'[q] = thread[q]
      BY <1>14, <3>3
    <3> QED
      BY <1>9, <3>2, <3>4, <3>6, <3>7 DEF Done
  <2> QED
    BY <2>4, <2>5 DEF Changed
<1> QED
  BY <1>11, <1>17, <1>18, <1>19, <1>20, ShrinkLinks DEF ChainInv, Links

--------------------------------------------------------------------------------
(* While the mutex is free nobody is at work and no message is under way.  *)
LEMMA FreeIdle ==
  ASSUME ChainInv, mutex \notin Procs
  PROVE  Busy = {} /\ NothingPending
<1>1. Busy = {}
  BY DEF ChainInv, Links, Changed, OfHolder
<1>2. \A t, before : ~Asks(t, before)
  BY <1>1, BusyPlaces DEF Asks
<1> QED
  BY <1>1, <1>2 DEF ChainInv, Pending, NothingPending

(* A client takes the mutex: it is the first and the last at work.         *)
LEMMA CallChain ==
  ASSUME ChainInv, Frame', NEW p \in Procs, NEW h \in Headers, NEW on \in BOOLEAN,
         Call(p, [header |-> h, on |-> on, sourcePID |-> p])
  PROVE  ChainInv'
<1> DEFINE t == Client(p)
<1>0. PICK sent : sent = [header |-> h, on |-> on, sourcePID |-> p]
  OBVIOUS
<1>1. /\ Serves /\ Changed /\ MutexInv /\ DOMAIN thread = Threads
      /\ DOMAIN guard = Procs /\ \A q \in Threads : thread[q] \in Thread
  BY DEF ChainInv, Links, Frame, TypeInv, Tables, Placed, WellPlaced
<1>2. /\ thread[t].pc = "idle" /\ mutex = NoProc
      /\ UNCHANGED <<proc, started, isFather, holders, backlog>>
  BY DEF Call, table
<1>3. CASE UNCHANGED <<guard, thread, mutex>>
  BY <1>2, <1>3, StillQuiet, QuietChain
<1>4. CASE /\ SetGuard(p, [header |-> h, on |-> on, sourcePID |-> p])
           /\ thread' = Distributing(t, [header |-> h, on |-> on, sourcePID |-> p])
           /\ mutex' = p
  <2>1. Busy = {} /\ NothingPending
    BY <1>2, FreeIdle, Pairs
  <2>2. t \in Threads /\ t[1] = p /\ t[2] = "client"
    BY Pairs
  <2>3. thread' = [thread EXCEPT ![t].pc = "scan", ![t].pos = 1, ![t].block = sent]
    <3>1. [sent EXCEPT !.sourcePID = p] = sent
      BY <1>0
    <3>2. Distributing(t, sent) =
            [thread EXCEPT ![t].pc = "scan", ![t].pos = 1, ![t].block = [sent EXCEPT !.sourcePID = p]]
      BY <2>2 DEF Distributing
    <3>3. thread' = Distributing(t, sent)
      BY <1>0, <1>4
    <3> QED
      BY <3>1, <3>2, <3>3
  <2>4. /\ thread'[t].pc = "scan" /\ thread'[t].block = sent /\ thread'[t].conn = thread[t].conn
        /\ thread'[t].answered = thread[t].answered
        /\ \A q \in Threads \ {t} : thread'[q] = thread[q]
    BY <1>1, <2>2, <2>3 DEF Thread
  <2>5. (sent.header \in guard'[p]) = sent.on /\ sent.header = h /\ sent.on = on
    BY <1>0, <1>1, <1>4 DEF SetGuard
  <2>6. Busy' = {t}
    <3>1. \A q \in Threads : q \in Busy' <=> thread'[q].pc \in {"scan", "connect", "write", "read", "hung", "answer"}
      BY DEF Busy, InDistribution
    <3>2. \A q \in Threads : q \in Busy' <=> q = t
      BY <2>1, <2>4, <3>1, BusyPlaces
    <3> QED
      BY <2>2, <3>2 DEF Busy
  <2>7. Shrinks
    <3>1. \A q \in Threads : thread'[q].conn = thread[q].conn
      BY <2>4
    <3> QED
      BY <1>2, <2>4, <3>1, LessItself DEF Shrinks
  <2>8. \A q \in Threads : thread'[q].pc \notin {"write", "read"}
    BY <2>1, <2>4, BusyPlaces
  <2>9. Ordered({})'
    <3>1. \A v \in Threads, w \in Busy' : ~AtServer(v, w)'
      BY <2>8 DEF AtServer, IsFrom
    <3> QED
      BY <2>6, <3>1 DEF Ordered
  <2>10. Pending({})'
    BY <1>2, <2>1, <2>4 DEF NothingPending, Pending
  <2>11. Serves'
    <3>1. \A q \in Threads : thread'[q].conn # NoConn =>
            q[2] # "client" /\ (thread'[q].pc = "serve" \/ q \in Busy')
      BY <1>1, <2>1, <2>2, <2>4 DEF Serves
    <3> QED
      BY <2>2, <2>6, <2>8, <3>1 DEF Serves
  <2>12. Changed'
    <3>1. OfHolder(thread[t].block)' /\ Done(t[1], thread[t].block)'
      BY <1>4, <2>2, <2>4, <2>5 DEF OfHolder, Done, Client
    <3>2. \A q \in Threads : ~thread'[q].answered
      BY <1>1, <1>2, <2>1, <2>4, BusyPlaces DEF Changed
    <3> QED
      BY <2>6, <3>1, <3>2 DEF Changed
  <2> QED
    BY <2>7, <2>9, <2>10, <2>11, <2>12, ShrinkLinks DEF ChainInv, Links
<1> QED
  BY <1>3, <1>4 DEF Call

(* The last in the order sends the change on.                              *)
LEMMA WriteChain ==
  ASSUME ChainInv, Frame', NEW t \in Threads, Write(t)
  PROVE  ChainInv'
<1>0. PICK block : block = thread[t].block
  OBVIOUS
<1>1. /\ MutexInv /\ Serves /\ Changed /\ Linked /\ \A q \in Threads : thread[q] \in Thread
      /\ \A q \in Threads : \A k \in DOMAIN backlog[q] : backlog[q][k] \in Connection
  BY ElementOfSeq, LenProperties DEF ChainInv, Links, Frame, TypeInv, Placed, WellPlaced, Queues
<1>2. thread[t].pc = "write" /\ PeerOpen(t) # {} /\ ~WriteEnds(PeerOpen(t))
  BY <1>1 DEF Write, Serves, WriteEnds
<1> DEFINE Sent(c) == [c EXCEPT !.block = block]
           Seen(q) == IF IsFrom(t, thread[q].conn)
                      THEN [thread[q] EXCEPT !.conn = Sent(@)] ELSE thread[q]
<1>3. /\ thread' = [q \in Threads |-> IF q # t THEN Seen(q) ELSE [Seen(q) EXCEPT !.pc = "read"]]
      /\ backlog' = [q \in Threads |-> [k \in DOMAIN backlog[q] |->
                       IF IsFrom(t, backlog[q][k]) THEN Sent(backlog[q][k]) ELSE backlog[q][k]]]
      /\ UNCHANGED <<proc, started, isFather, holders, mutex, guard>>
  BY <1>0, <1>2 DEF Write, AtPeer, table
<1>4. \A q \in Threads : /\ Seen(q).pc = thread[q].pc /\ Seen(q).block = thread[q].block
                         /\ Seen(q).peer = thread[q].peer /\ Seen(q).ends = thread[q].ends
                         /\ Seen(q).answered = thread[q].answered /\ DOMAIN Seen(q) = DOMAIN thread[q]
                         /\ Seen(q).conn = IF IsFrom(t, thread[q].conn) THEN Sent(thread[q].conn)
                                                                     ELSE thread[q].conn
  BY <1>1 DEF Thread
<1> HIDE DEF Seen
<1>5. /\ thread'[t].pc = "read"
      /\ \A q \in Threads \ {t} : thread'[q].pc = thread[q].pc
      /\ \A q \in Threads :
           /\ thread'[q].block = thread[q].block /\ thread'[q].peer = thread[q].peer
           /\ thread'[q].ends = thread[q].ends /\ thread'[q].answered = thread[q].answered
           /\ thread'[q].conn = IF IsFrom(t, thread[q].conn) THEN Sent(thread[q].conn) ELSE thread[q].conn
  BY <1>1, <1>3, <1>4 DEF Thread
<1>6. t \in Busy /\ ~Waits(t) /\ (\A before : ~Asks(t, before))
  BY <1>2, BusyPlaces DEF Waits, Asks
<1>7. PICK before : /\ Ordered(before) /\ NothingPending
                    /\ \A u \in Busy \ {t} : Waits(u) /\ <<t, u>> \notin before /\ <<u, t>> \in before
  BY <1>6, Worker
<1>8. ASSUME NEW c \in Connection \cup {NoConn}, NEW d, d = IF IsFrom(t, c) THEN Sent(c) ELSE c
      PROVE  /\ d.from = c.from /\ d.open = c.open /\ (d # NoConn => c # NoConn)
             /\ IF IsFrom(t, c) THEN d.block = block ELSE d.block = c.block
  <2>1. CASE IsFrom(t, c)
    <3>1. c \in Connection
      BY <2>1, Pairs DEF IsFrom, NoConn, NoThread
    <3>2. c # NoConn
      BY <2>1, Pairs DEF IsFrom, NoConn, NoThread
    <3> QED
      BY <1>8, <2>1, <3>1, <3>2 DEF Connection
  <2>2. CASE ~IsFrom(t, c)
    BY <1>8, <2>2
  <2> QED
    BY <2>1, <2>2
<1>9. ASSUME NEW q \in Threads
      PROVE  /\ thread'[q].conn.from = thread[q].conn.from /\ thread'[q].conn.open = thread[q].conn.open
             /\ thread'[q].conn # NoConn => thread[q].conn # NoConn
             /\ thread'[q].conn.block # NoBlock => AtServer(t, q) /\ thread'[q].conn.block = block
             /\ DOMAIN backlog'[q] = DOMAIN backlog[q]
             /\ \A k \in DOMAIN backlog[q] :
                  /\ backlog'[q][k].from = backlog[q][k].from /\ backlog'[q][k].open = backlog[q][k].open
                  /\ backlog'[q][k].block # NoBlock =>
                       IsFrom(t, backlog[q][k]) /\ backlog'[q][k].block = block
  <2>1. thread[q].conn \in Connection \cup {NoConn}
    BY <1>1 DEF Thread
  <2>2. thread'[q].conn = IF IsFrom(t, thread[q].conn) THEN Sent(thread[q].conn) ELSE thread[q].conn
    BY <1>5
  <2>3. DOMAIN backlog'[q] = DOMAIN backlog[q]
    BY <1>3
  <2>4. \A k \in DOMAIN backlog[q] : backlog[q][k] \in Connection
    BY <1>1
  <2>5. \A k \in DOMAIN backlog[q] :
          backlog'[q][k] = IF IsFrom(t, backlog[q][k]) THEN Sent(backlog[q][k]) ELSE backlog[q][k]
    BY <1>3
  <2>6. /\ thread[q].conn.block = NoBlock
        /\ \A k \in DOMAIN backlog[q] : backlog[q][k].block = NoBlock
    BY <1>7 DEF NothingPending
  <2> HIDE DEF Sent
  <2> QED
    BY <1>8, <2>1, <2>2, <2>3, <2>4, <2>5, <2>6 DEF AtServer
<1> HIDE DEF Sent
<1>10. /\ \A v, q \in Threads : AtServer(v, q)' <=> AtServer(v, q)
       /\ \A v, q \in Threads : \A k \in DOMAIN backlog[q] :
            IsFrom(v, backlog[q][k])' <=> IsFrom(v, backlog[q][k])
       /\ \A v, q \in Threads : InQueue(v, q)' <=> InQueue(v, q)
  <2>1. \A v \in Threads : thread'[v].pc \in {"write", "read"} <=> thread[v].pc \in {"write", "read"}
    BY <1>2, <1>5
  <2>2. \A v, q \in Threads : AtServer(v, q)' <=> AtServer(v, q)
    BY <1>9, <2>1 DEF AtServer, IsFrom
  <2>3. \A v, q \in Threads : \A k \in DOMAIN backlog[q] :
          IsFrom(v, backlog[q][k])' <=> IsFrom(v, backlog[q][k])
    BY <1>9, <2>1 DEF IsFrom
  <2>4. \A v, q \in Threads : InQueue(v, q)' <=> InQueue(v, q)
    BY <1>9, <2>3 DEF InQueue
  <2> QED
    BY <2>2, <2>3, <2>4
<1>11. Shrinks
  <2>1. ASSUME NEW q \in Threads
        PROVE  /\ LessConn(thread'[q].conn, thread[q].conn)
               /\ DOMAIN backlog'[q] = DOMAIN backlog[q]
               /\ \A k \in DOMAIN backlog[q] : LessConn(backlog'[q][k], backlog[q][k])
    BY <1>9 DEF LessConn
  <2> QED
    BY <1>2, <1>3, <1>5, <2>1 DEF Shrinks
<1>12. Busy' = Busy
  <2>1. \A q \in Threads : q \in Busy' <=> thread'[q].pc \in {"scan", "connect", "write", "read", "hung", "answer"}
    BY DEF Busy, InDistribution
  <2>2. \A q \in Threads : q \in Busy' <=> q \in Busy
    BY <1>2, <1>5, <2>1, BusyPlaces
  <2> QED
    BY <2>2 DEF Busy
<1>13. Ordered(before)'
  <2>1. \A v, w \in Busy' : v # w /\ <<v, w>> \in before => Waits(v)'
    <3> SUFFICES ASSUME NEW v \in Busy, NEW w \in Busy, v # w, <<v, w>> \in before PROVE Waits(v)'
      BY <1>12
    <3>1. v # t /\ v \in Threads /\ Waits(v)
      BY <1>7 DEF Busy
    <3>2. thread'[v].pc = "read" /\ ~thread'[v].answered /\ thread'[v].ends # {}
      BY <1>5, <3>1 DEF Waits
    <3> QED
      BY <1>10, <1>12, <3>1, <3>2, WaitsOn
  <2>2. \A v \in Threads : \A w \in Busy' : AtServer(v, w)' => AtServer(v, w)
    BY <1>10 DEF Busy
  <2> QED
    BY <1>3, <1>7, <1>12, <2>1, <2>2, OrderedLess
<1>14. \A b : OfHolder(b)' <=> OfHolder(b)
  BY <1>1, <1>3, <1>5, HolderBusy, HolderKept
<1>15. OfHolder(block) /\ ~thread[t].answered /\ thread[t].peer \in Threads
  BY <1>0, <1>1, <1>2, <1>6 DEF Changed, Linked
<1>16. Asks(t, before)'
  <2>1. PICK q \in Threads : q = thread[t].peer
    BY <1>15
  <2>2. PeerOpen(t) = IF InQueue(t, q) THEN holders[q] ELSE thread[t].ends
    BY <2>1 DEF PeerOpen, InQueue
  <2>3. PeerOpen(t)' = IF InQueue(t, q)' THEN holders'[q] ELSE thread'[t].ends
    BY <1>5, <2>1 DEF PeerOpen, InQueue
  <2>4. PeerOpen(t)' # {}
    <3>1. InQueue(t, q)' <=> InQueue(t, q)
      BY <1>10
    <3>2. holders'[q] = holders[q] /\ thread'[t].ends = thread[t].ends /\ PeerOpen(t) # {}
      BY <1>2, <1>3, <1>5
    <3>3. CASE InQueue(t, q)
      BY <2>2, <2>3, <3>1, <3>2, <3>3
    <3>4. CASE ~InQueue(t, q)
      BY <2>2, <2>3, <3>1, <3>2, <3>4
    <3> QED
      BY <3>3, <3>4
  <2> QED
    BY <1>5, <1>7, <1>12, <1>15, <2>4 DEF Asks
<1>17. Pending(before)'
  <2>1. ASSUME NEW q \in Threads, thread'[q].conn.block # NoBlock
        PROVE  /\ thread'[q].pc = "serve" /\ OfHolder(thread[q].conn.block)'
               /\ \E u \in Threads : AtServer(u, q)' /\ Asks(u, before)'
    <3>1. AtServer(t, q) /\ thread'[q].conn.block = block
      BY <1>9, <2>1
    <3>2. q \notin Busy
      BY <1>6, <1>7, <3>1, ServedWaits
    <3>3. thread[q].conn # NoConn
      BY <3>1, Pairs DEF AtServer, IsFrom, NoConn, NoThread
    <3>4. thread[q].pc = "serve"
      BY <1>1, <3>2, <3>3 DEF Serves
    <3>5. thread'[q].pc = "serve"
      BY <1>2, <1>5, <3>4
    <3>6. OfHolder(block)'
      BY <1>14, <1>15
    <3> QED
      BY <1>10, <1>16, <3>1, <3>5, <3>6 DEF OfHolder
  <2>2. ASSUME NEW q \in Threads, NEW k \in DOMAIN backlog'[q], backlog'[q][k].block # NoBlock
        PROVE  /\ OfHolder(backlog[q][k].block)'
               /\ \E u \in Threads : IsFrom(u, backlog[q][k])' /\ Asks(u, before)'
    <3>1. k \in DOMAIN backlog[q] /\ IsFrom(t, backlog[q][k]) /\ backlog'[q][k].block = block
      BY <1>9, <2>2
    <3>2. OfHolder(block)'
      BY <1>14, <1>15
    <3> QED
      BY <1>10, <1>16, <3>1, <3>2 DEF OfHolder
  <2> QED
    BY <2>1, <2>2 DEF Pending
<1>18. Serves'
  <2>1. \A q \in Threads : thread'[q].conn # NoConn =>
          q[2] # "client" /\ (thread'[q].pc = "serve" \/ q \in Busy')
    BY <1>1, <1>2, <1>5, <1>9, <1>12 DEF Serves
  <2>2. \A w \in Busy' : w[2] # "client" => thread'[w].conn.open # {}
    BY <1>1, <1>9, <1>12 DEF Serves, Busy
  <2>3. \A q \in Threads : thread'[q].pc # "write"
    BY <1>5, <1>7, BusyPlaces DEF Waits
  <2> QED
    BY <2>1, <2>2, <2>3 DEF Serves
<1>19. Changed'
  <2>1. ASSUME NEW v \in Busy' PROVE OfHolder(thread[v].block)' /\ Done(v[1], thread[v].block)'
    <3>1. PICK b : b = thread[v].block
      OBVIOUS
    <3>2. OfHolder(b) /\ Done(v[1], b) /\ thread'[v].block = b
      BY <1>1, <1>5, <1>12, <3>1 DEF Changed, Busy
    <3>3. OfHolder(b)'
      BY <1>14, <3>2
    <3> QED
      BY <1>3, <3>2, <3>3 DEF OfHolder, Done
  <2>2. \A q \in Threads : thread'[q].answered =>
         /\ thread'[q].pc = "read" /\ thread'[q].peer \in Threads
         /\ proc'[thread'[q].peer[1]] # "absent"
         /\ Done(thread[q].peer[1], thread[q].block)'
    BY <1>1, <1>3, <1>5, <1>15 DEF Changed, Done
  <2> QED
    BY <2>1, <2>2 DEF Changed
<1> QED
  BY <1>11, <1>13, <1>17, <1>18, <1>19, ShrinkLinks DEF ChainInv, Links

(* A connection at the end of a queue, and the first of a queue taken.     *)
LEMMA Appended ==
  ASSUME NEW S, NEW s \in Seq(S), NEW c \in S
  PROVE  /\ DOMAIN Append(s, c) = DOMAIN s \cup {Len(s) + 1} /\ Len(s) + 1 \notin DOMAIN s
         /\ Append(s, c)[Len(s) + 1] = c
         /\ \A k \in DOMAIN s : Append(s, c)[k] = s[k]
<1>1. Len(s) \in Nat /\ DOMAIN s = 1 .. Len(s)
  BY LenProperties
<1>2. /\ Len(Append(s, c)) = Len(s) + 1 /\ Append(s, c) \in Seq(S)
      /\ \A k \in 1 .. Len(s) : Append(s, c)[k] = s[k]
      /\ Append(s, c)[Len(s) + 1] = c
  BY AppendProperties
<1>3. DOMAIN Append(s, c) = 1 .. Len(s) + 1
  BY <1>2, LenProperties
<1> QED
  BY <1>1, <1>2, <1>3

LEMMA Taken ==
  ASSUME NEW S, NEW s \in Seq(S), s # <<>>
  PROVE  /\ 1 \in DOMAIN s /\ s[1] = Head(s)
         /\ \A k \in DOMAIN Tail(s) : k + 1 \in DOMAIN s /\ k + 1 # 1 /\ Tail(s)[k] = s[k + 1]
         /\ \A k \in DOMAIN s : k # 1 =>
              /\ k - 1 \in DOMAIN Tail(s) /\ Tail(s)[k - 1] = s[k]
         /\ \A k, l \in DOMAIN Tail(s) : k + 1 = l + 1 => k = l
<1>1. Len(s) \in Nat \ {0} /\ DOMAIN s = 1 .. Len(s)
  BY LenProperties, EmptySeq
<1>2. /\ Tail(s) \in Seq(S) /\ Len(Tail(s)) = Len(s) - 1 /\ Head(s) = s[1]
      /\ \A k \in 1 .. Len(Tail(s)) : Tail(s)[k] = s[k + 1]
  BY HeadTailProperties
<1>3. DOMAIN Tail(s) = 1 .. Len(s) - 1
  BY <1>2, LenProperties
<1> QED
  BY <1>1, <1>2, <1>3

(* The last in the order connects to the next of the children.             *)
LEMMA ConnectChain ==
  ASSUME ChainInv, Frame', NEW t \in Threads, Connect(t)
  PROVE  ChainInv'
<1>1. /\ MutexInv /\ Linked /\ Closed /\ Unborn /\ Serves /\ Changed /\ Stays
      /\ DOMAIN thread = Threads /\ (\A q \in Threads : thread[q] \in Thread)
      /\ DOMAIN backlog = Threads /\ \A q \in Threads : backlog[q] \in Seq(Connection)
  BY DEF ChainInv, Links, Frame, TypeInv, Placed, WellPlaced, Queues
<1>2. PICK q \in Threads : /\ q = sock[children[thread[t].pos].name]
                           /\ holders[q] # {}
  <2>1. thread[t].pos \in Slots
    BY DEF Connect, ChainInv, Frame, TypeInv, Placed, WellPlaced
  <2>2. children[thread[t].pos].name \in Names
    BY <2>1 DEF ChainInv, Frame, TypeInv, Tables
  <2> QED
    BY <2>2 DEF Connect, CanConnect, ChainInv, Frame, TypeInv, Tables
<1>3. PICK c : c = [from |-> t, block |-> NoBlock, open |-> {t[1]}]
  OBVIOUS
<1>4. /\ c \in Connection /\ c.from = t /\ c.block = NoBlock
  BY <1>3, Pairs DEF Connection
<1>5. /\ thread[t].pc = "connect"
      /\ thread' = [thread EXCEPT ![t].pc = "write", ![t].peer = q]
      /\ backlog' = [backlog EXCEPT ![q] = Append(backlog[q], c)]
      /\ UNCHANGED <<proc, started, isFather, holders, mutex, guard>>
  BY <1>2, <1>3 DEF Connect, table, memory
<1>6. t \in Busy /\ ~Waits(t) /\ (\A before : ~Asks(t, before))
  BY <1>5, BusyPlaces DEF Waits, Asks
<1>7. PICK before : /\ Ordered(before) /\ NothingPending
                    /\ \A u \in Busy \ {t} : Waits(u) /\ <<t, u>> \notin before /\ <<u, t>> \in before
  BY <1>6, Worker
<1>8. /\ thread'[t].pc = "write" /\ thread'[t].peer = q
      /\ \A r \in Threads \ {t} : thread'[r].pc = thread[r].pc /\ thread'[r].peer = thread[r].peer
      /\ \A r \in Threads :
           /\ thread'[r].block = thread[r].block /\ thread'[r].conn = thread[r].conn
           /\ thread'[r].ends = thread[r].ends /\ thread'[r].answered = thread[r].answered
  <2>1. \A r \in Threads \ {t} : thread'[r] = thread[r]
    BY <1>1, <1>5
  <2>2. /\ thread'[t].pc = "write" /\ thread'[t].peer = q
        /\ thread'[t].block = thread[t].block /\ thread'[t].conn = thread[t].conn
        /\ thread'[t].ends = thread[t].ends /\ thread'[t].answered = thread[t].answered
    BY <1>1, <1>5 DEF Thread
  <2> QED
    BY <2>1, <2>2
<1>9. PICK n : n = Len(backlog[q]) + 1
  OBVIOUS
<1>10. /\ DOMAIN backlog'[q] = DOMAIN backlog[q] \cup {n} /\ n \notin DOMAIN backlog[q]
       /\ backlog'[q][n] = c
       /\ \A k \in DOMAIN backlog[q] : backlog'[q][k] = backlog[q][k]
       /\ \A r \in Threads \ {q} : backlog'[r] = backlog[r]
  <2>1. backlog'[q] = Append(backlog[q], c) /\ \A r \in Threads \ {q} : backlog'[r] = backlog[r]
    BY <1>1, <1>5
  <2> QED
    BY <1>1, <1>4, <1>9, <2>1, Appended
<1>11. ASSUME NEW r \in Threads, NEW k \in DOMAIN backlog'[r]
       PROVE  \/ k \in DOMAIN backlog[r] /\ backlog'[r][k] = backlog[r][k]
              \/ r = q /\ k = n /\ backlog'[r][k] = c
  BY <1>10
<1>12. HasNone(t)
  BY <1>1, <1>5 DEF Closed, HasNone
<1>13. \A v, r \in Threads : AtServer(v, r)' <=> v # t /\ AtServer(v, r)
  <2>1. \A r \in Threads : ~HasConn(t, thread[r].conn)
    BY <1>12 DEF HasNone
  <2> QED
    BY <1>8, <2>1 DEF AtServer, IsFrom, HasConn
<1>14. ASSUME NEW v \in Threads, NEW r \in Threads, NEW k \in DOMAIN backlog'[r], IsFrom(v, backlog[r][k])'
       PROVE  \/ v = t /\ r = q /\ k = n
              \/ v # t /\ k \in DOMAIN backlog[r] /\ IsFrom(v, backlog[r][k])
  <2>1. backlog'[r][k].from = v /\ v[1] \in backlog'[r][k].open /\ thread'[v].pc \in {"write", "read"}
    BY <1>14 DEF IsFrom
  <2>2. CASE k \in DOMAIN backlog[r] /\ backlog'[r][k] = backlog[r][k]
    <3>1. v # t
      BY <1>12, <2>1, <2>2 DEF HasNone, HasConn
    <3> QED
      BY <1>8, <2>1, <2>2, <3>1 DEF IsFrom
  <2>3. CASE r = q /\ k = n /\ backlog'[r][k] = c
    BY <1>4, <2>1, <2>3
  <2> QED
    BY <1>11, <2>2, <2>3
<1>15. \A v, r \in Threads : InQueue(v, r)' => IF v = t THEN r = q ELSE InQueue(v, r)
  BY <1>14 DEF InQueue
<1>16. InQueue(t, q)'
  <2>1. backlog'[q][n].from = t /\ t[1] \in backlog'[q][n].open /\ thread'[t].pc \in {"write", "read"}
    BY <1>3, <1>8, <1>10
  <2>2. n \in DOMAIN backlog'[q]
    BY <1>10
  <2> QED
    BY <2>1, <2>2 DEF InQueue, IsFrom
<1>17. Busy' = Busy
  <2>1. \A r \in Threads : r \in Busy' <=> thread'[r].pc \in {"scan", "connect", "write", "read", "hung", "answer"}
    BY DEF Busy, InDistribution
  <2>2. \A r \in Threads : r \in Busy' <=> r \in Busy
    BY <1>6, <1>8, <2>1, BusyPlaces
  <2> QED
    BY <2>2 DEF Busy
<1>18. Ordered(before)'
  <2>1. \A v, w \in Busy' : v # w /\ <<v, w>> \in before => Waits(v)'
    <3> SUFFICES ASSUME NEW v \in Busy, NEW w \in Busy, v # w, <<v, w>> \in before PROVE Waits(v)'
      BY <1>17
    <3>1. v # t /\ v \in Threads /\ Waits(v)
      BY <1>7 DEF Busy
    <3>2. thread'[v].pc = "read" /\ ~thread'[v].answered /\ thread'[v].ends # {}
      BY <1>8, <3>1 DEF Waits
    <3> QED
      BY <1>13, <1>15, <1>17, <3>1, <3>2, WaitsOn
  <2>2. \A v \in Threads : \A w \in Busy' : AtServer(v, w)' => AtServer(v, w)
    BY <1>13 DEF Busy
  <2> QED
    BY <1>5, <1>7, <1>17, <2>1, <2>2, OrderedLess
<1>19. Pending(before)'
  <2>1. \A r \in Threads : thread'[r].conn.block = NoBlock
    BY <1>7, <1>8 DEF NothingPending
  <2>2. ASSUME NEW r \in Threads, NEW k \in DOMAIN backlog'[r] PROVE backlog'[r][k].block = NoBlock
    BY <1>4, <1>7, <1>11 DEF NothingPending
  <2> QED
    BY <2>1, <2>2 DEF Pending
<1>20. Linked'
  <2>1. \A v \in Threads : thread'[v].pc \in {"write", "read"} => thread'[v].peer \in Threads
    BY <1>1, <1>2, <1>8 DEF Linked
  <2>2. ASSUME NEW v \in Threads, NEW r \in Threads, AtServer(v, r)'
        PROVE  thread'[v].peer = r /\ ~InQueue(v, r)'
    <3>1. v # t /\ AtServer(v, r)
      BY <1>13, <2>2
    <3>2. thread[v].peer = r /\ ~InQueue(v, r)
      BY <1>1, <3>1 DEF Linked
    <3> QED
      BY <1>8, <1>15, <3>1, <3>2
  <2>3. ASSUME NEW v \in Threads, NEW r \in Threads, NEW k \in DOMAIN backlog'[r], IsFrom(v, backlog[r][k])'
        PROVE  /\ thread'[v].peer = r
               /\ \A l \in DOMAIN backlog'[r] : IsFrom(v, backlog[r][l])' => l = k
    <3>1. CASE v = t
      BY <1>8, <1>14, <2>3, <3>1
    <3>2. CASE v # t
      <4>1. k \in DOMAIN backlog[r] /\ IsFrom(v, backlog[r][k])
        BY <1>14, <2>3, <3>2
      <4>2. thread[v].peer = r /\ \A l \in DOMAIN backlog[r] : IsFrom(v, backlog[r][l]) => l = k
        BY <1>1, <4>1 DEF Linked
      <4> QED
        BY <1>8, <1>14, <3>2, <4>2
    <3> QED
      BY <3>1, <3>2
  <2> QED
    BY <2>1, <2>2, <2>3 DEF Linked
<1>21. Closed'
  <2>1. ASSUME NEW v \in Threads, NEW r \in Threads, thread'[v].pc \notin {"none", "write", "read"}
        PROVE  ~HasConn(v, thread'[r].conn) /\ \A k \in DOMAIN backlog'[r] : ~HasConn(v, backlog'[r][k])
    <3>1. v # t /\ thread[v].pc \notin {"none", "write", "read"}
      BY <1>8, <2>1
    <3>2. ~HasConn(v, thread[r].conn) /\ \A k \in DOMAIN backlog[r] : ~HasConn(v, backlog[r][k])
      BY <1>1, <3>1 DEF Closed
    <3>3. ~HasConn(v, c)
      BY <1>4, <3>1 DEF HasConn
    <3> QED
      BY <1>8, <1>11, <3>2, <3>3
  <2> QED
    BY <2>1 DEF Closed, HasConn
<1>22. Unborn'
  <2>1. ASSUME NEW v \in Threads, Fresh(v) PROVE Fresh(v)'
    <3>1. v # t
      BY <1>5, <2>1 DEF Fresh
    <3>2. thread'[v].pc = "none"
      BY <1>8, <2>1, <3>1 DEF Fresh
    <3>3. ASSUME NEW r \in Threads
          PROVE  thread'[r].conn.from # v /\ \A k \in DOMAIN backlog'[r] : backlog'[r][k].from # v
      BY <1>4, <1>8, <1>11, <2>1, <3>1 DEF Fresh
    <3> QED
      BY <3>2, <3>3 DEF Fresh
  <2>2. \A p \in Procs : thread'[Client(p)].pc \in {"claim", "claim father"} =>
          thread'[Client(p)].pc = thread[Client(p)].pc
    BY <1>8, Pairs
  <2> QED
    BY <1>1, <1>5, <2>1, <2>2, UnbornKept
<1>23. Serves'
  <2>1. \A r \in Threads : thread'[r].conn # NoConn =>
          r[2] # "client" /\ (thread'[r].pc = "serve" \/ r \in Busy')
    BY <1>1, <1>5, <1>6, <1>8, <1>17 DEF Serves
  <2>2. \A w \in Busy' : w[2] # "client" => thread'[w].conn.open # {}
    BY <1>1, <1>8, <1>17 DEF Serves, Busy
  <2>3. ASSUME NEW v \in Threads, thread'[v].pc = "write", v # t PROVE FALSE
    <3>1. thread[v].pc = "write"
      BY <1>8, <2>3
    <3>2. v \in Busy
      BY <3>1, BusyPlaces
    <3> QED
      BY <1>7, <2>3, <3>1, <3>2 DEF Waits
  <2>4. PeerOpen(t)' = holders'[q]
    BY <1>8, <1>16 DEF PeerOpen, InQueue
  <2> QED
    BY <1>2, <1>5, <2>1, <2>2, <2>3, <2>4 DEF Serves
<1>24. Changed'
  <2>1. \A b : OfHolder(b)' <=> OfHolder(b)
    BY <1>1, <1>5, <1>8, HolderBusy, HolderKept
  <2>2. ASSUME NEW v \in Busy' PROVE OfHolder(thread[v].block)' /\ Done(v[1], thread[v].block)'
    <3>1. PICK b : b = thread[v].block
      OBVIOUS
    <3>2. OfHolder(b) /\ Done(v[1], b) /\ thread'[v].block = b
      BY <1>1, <1>8, <1>17, <3>1 DEF Changed, Busy
    <3>3. OfHolder(b)'
      BY <2>1, <3>2
    <3> QED
      BY <1>5, <3>2, <3>3 DEF OfHolder, Done
  <2>3. ASSUME NEW v \in Threads, thread'[v].answered
        PROVE  /\ thread'[v].pc = "read" /\ thread'[v].peer \in Threads
               /\ proc'[thread'[v].peer[1]] # "absent"
               /\ Done(thread[v].peer[1], thread[v].block)'
    <3>1. thread[v].answered /\ v # t
      BY <1>1, <1>5, <1>8, <2>3 DEF Changed
    <3> QED
      BY <1>1, <1>5, <1>8, <3>1 DEF Changed, Done
  <2> QED
    BY <2>2, <2>3 DEF Changed
<1>25. Stays'
  BY <1>1, <1>8 DEF Stays
<1> QED
  BY <1>18, <1>19, <1>20, <1>21, <1>22, <1>23, <1>24, <1>25 DEF ChainInv, Links

(* A server takes a connection from its queue, with a message in it or     *)
(* not.                                                                    *)
LEMMA AcceptChain ==
  ASSUME ChainInv, Frame', NEW t \in Threads, Accept(t), t[1] \in holders[t]
  PROVE  ChainInv'
<1>1. /\ MutexInv /\ Linked /\ Closed /\ Unborn /\ Serves /\ Changed /\ Stays
      /\ DOMAIN thread = Threads /\ (\A q \in Threads : thread[q] \in Thread)
      /\ DOMAIN backlog = Threads /\ \A q \in Threads : backlog[q] \in Seq(Connection)
  BY DEF ChainInv, Links, Frame, TypeInv, Placed, WellPlaced, Queues
<1>2. PICK c : c = Head(backlog[t])
  OBVIOUS
<1>3. /\ thread[t].pc = "accept" /\ backlog[t] # <<>>
      /\ backlog' = [backlog EXCEPT ![t] = Tail(backlog[t])]
      /\ thread' = [q \in Threads |->
           IF q = t THEN [thread[t] EXCEPT !.pc = "serve", !.conn = c]
           ELSE IF IsFrom(q, c) THEN [thread[q] EXCEPT !.ends = {t[1]}]
           ELSE thread[q]]
      /\ UNCHANGED <<proc, started, isFather, holders, mutex, guard>>
  BY <1>2 DEF Accept, table, memory
<1>4. /\ 1 \in DOMAIN backlog[t] /\ backlog[t][1] = c
      /\ \A k \in DOMAIN backlog'[t] : k + 1 \in DOMAIN backlog[t] /\ k + 1 # 1 /\ backlog'[t][k] = backlog[t][k + 1]
      /\ \A k \in DOMAIN backlog[t] : k # 1 =>
           k - 1 \in DOMAIN backlog'[t] /\ backlog'[t][k - 1] = backlog[t][k]
      /\ \A k, l \in DOMAIN backlog'[t] : k + 1 = l + 1 => k = l
      /\ \A r \in Threads \ {t} : backlog'[r] = backlog[r]
  <2>1. backlog'[t] = Tail(backlog[t]) /\ \A r \in Threads \ {t} : backlog'[r] = backlog[r]
    BY <1>1, <1>3
  <2> QED
    BY <1>1, <1>2, <1>3, <2>1, Taken
<1>5. /\ thread'[t].pc = "serve" /\ thread'[t].conn = c
      /\ \A q \in Threads \ {t} : thread'[q].pc = thread[q].pc /\ thread'[q].conn = thread[q].conn
      /\ \A q \in Threads :
           /\ thread'[q].block = thread[q].block /\ thread'[q].peer = thread[q].peer
           /\ thread'[q].answered = thread[q].answered
           /\ thread'[q].ends = IF q # t /\ IsFrom(q, c) THEN {t[1]} ELSE thread[q].ends
  <2>1. ASSUME NEW q \in Threads, q # t, IsFrom(q, c)
        PROVE  /\ thread'[q].pc = thread[q].pc /\ thread'[q].conn = thread[q].conn
               /\ thread'[q].block = thread[q].block /\ thread'[q].peer = thread[q].peer
               /\ thread'[q].answered = thread[q].answered /\ thread'[q].ends = {t[1]}
    <3>1. PICK e : e = {t[1]}
      OBVIOUS
    <3>2. thread'[q] = [thread[q] EXCEPT !.ends = e]
      BY <1>3, <2>1, <3>1
    <3> QED
      BY <1>1, <3>1, <3>2 DEF Thread
  <2>2. \A q \in Threads : q # t /\ ~IsFrom(q, c) => thread'[q] = thread[q]
    BY <1>3
  <2>3. /\ thread'[t].pc = "serve" /\ thread'[t].conn = c
        /\ thread'[t].block = thread[t].block /\ thread'[t].peer = thread[t].peer
        /\ thread'[t].answered = thread[t].answered /\ thread'[t].ends = thread[t].ends
    BY <1>1, <1>3 DEF Thread
  <2> QED
    BY <2>1, <2>2, <2>3
<1>6. t \notin Busy /\ t[2] # "client" /\ thread[t].conn = NoConn
  <2>1. t \notin Busy
    BY <1>3, BusyPlaces
  <2>2. t = Client(t[1]) \/ t[2] # "client"
    BY Pairs DEF Client
  <2>3. t[2] # "client"
    BY <1>1, <1>3, <2>2, ServersServe, Pairs DEF Serving
  <2> QED
    BY <1>1, <1>3, <2>1, <2>3 DEF Serves
<1>7. \A q \in Threads : thread'[q].pc \in {"write", "read"} <=> thread[q].pc \in {"write", "read"}
  BY <1>3, <1>5
<1>8. ASSUME NEW r \in Threads, NEW k \in DOMAIN backlog'[r]
      PROVE  \/ r # t /\ k \in DOMAIN backlog[r] /\ backlog'[r][k] = backlog[r][k]
             \/ r = t /\ k + 1 \in DOMAIN backlog[r] /\ k + 1 # 1 /\ backlog'[r][k] = backlog[r][k + 1]
  BY <1>4
<1>9. /\ \A v, r \in Threads : r # t => (AtServer(v, r)' <=> AtServer(v, r))
      /\ \A v \in Threads : AtServer(v, t)' <=> IsFrom(v, c)
  BY <1>5, <1>7 DEF AtServer, IsFrom
<1>10. ASSUME NEW v \in Threads, NEW r \in Threads, NEW k \in DOMAIN backlog'[r], IsFrom(v, backlog[r][k])'
       PROVE  \/ r # t /\ k \in DOMAIN backlog[r] /\ IsFrom(v, backlog[r][k])
              \/ r = t /\ k + 1 \in DOMAIN backlog[r] /\ k + 1 # 1 /\ IsFrom(v, backlog[r][k + 1])
  BY <1>7, <1>8, <1>10 DEF IsFrom
<1>11. \A v, r \in Threads : InQueue(v, r)' => InQueue(v, r)
  BY <1>10 DEF InQueue
<1>12. ASSUME NEW v \in Threads, IsFrom(v, c)
       PROVE  /\ v # t /\ InQueue(v, t) /\ thread[v].peer = t
              /\ \A r \in Threads : ~InQueue(v, r)'
  <2>1. InQueue(v, t) /\ thread[v].peer = t /\ \A l \in DOMAIN backlog[t] : IsFrom(v, backlog[t][l]) => l = 1
    BY <1>1, <1>4, <1>12 DEF Linked, InQueue
  <2>2. v # t
    BY <1>3, <1>12 DEF IsFrom
  <2>3. ASSUME NEW r \in Threads, NEW k \in DOMAIN backlog'[r], IsFrom(v, backlog[r][k])' PROVE FALSE
    <3>1. r # t => thread[v].peer = r
      BY <1>1, <1>10, <2>3 DEF Linked
    <3> QED
      BY <1>10, <2>1, <2>3, <3>1
  <2> QED
    BY <2>1, <2>2, <2>3 DEF InQueue
<1>13. ASSUME NEW v \in Threads, NEW r \in Threads, ~IsFrom(v, c), InQueue(v, r) PROVE InQueue(v, r)'
  <2>1. PICK k \in DOMAIN backlog[r] : IsFrom(v, backlog[r][k])
    BY <1>13 DEF InQueue
  <2>2. CASE r = t
    <3>1. k # 1
      BY <1>4, <1>13, <2>1, <2>2
    <3>2. k - 1 \in DOMAIN backlog'[t] /\ backlog'[t][k - 1] = backlog[t][k]
      BY <1>4, <2>1, <2>2, <3>1
    <3>3. IsFrom(v, backlog[t][k - 1])'
      BY <1>7, <2>1, <2>2, <3>2 DEF IsFrom
    <3> QED
      BY <2>2, <3>2, <3>3 DEF InQueue
  <2>3. CASE r # t
    <3>1. backlog'[r] = backlog[r]
      BY <1>4, <2>3
    <3> QED
      BY <1>7, <2>1, <3>1 DEF InQueue, IsFrom
  <2> QED
    BY <2>2, <2>3
<1>14. ASSUME NEW v \in Threads, thread[v].pc \in {"write", "read"}, PeerOpen(v) # {}
       PROVE  PeerOpen(v)' # {}
  <2>1. PICK r \in Threads : r = thread[v].peer
    BY <1>1, <1>14 DEF Linked
  <2>2. PeerOpen(v) = IF InQueue(v, r) THEN holders[r] ELSE thread[v].ends
    BY <2>1 DEF PeerOpen, InQueue
  <2>3. PeerOpen(v)' = IF InQueue(v, r)' THEN holders'[r] ELSE thread'[v].ends
    BY <1>5, <2>1 DEF PeerOpen, InQueue
  <2>4. CASE IsFrom(v, c)
    <3>1. ~InQueue(v, r)' /\ v # t
      BY <1>12, <2>4
    <3>2. thread'[v].ends = {t[1]}
      BY <1>5, <2>4, <3>1
    <3> QED
      BY <2>3, <3>1, <3>2
  <2>5. CASE ~IsFrom(v, c)
    <3>1. InQueue(v, r)' <=> InQueue(v, r)
      BY <1>11, <1>13, <2>5
    <3>2. thread'[v].ends = thread[v].ends /\ holders' = holders
      BY <1>3, <1>5, <2>5
    <3> QED
      BY <1>14, <2>2, <2>3, <3>1, <3>2
  <2> QED
    BY <2>4, <2>5
<1>15. Busy' = Busy
  <2>1. \A q \in Threads : q \in Busy' <=> thread'[q].pc \in {"scan", "connect", "write", "read", "hung", "answer"}
    BY DEF Busy, InDistribution
  <2>2. \A q \in Threads : q \in Busy' <=> q \in Busy
    BY <1>3, <1>5, <2>1, BusyPlaces
  <2> QED
    BY <2>2 DEF Busy
<1>16. PICK before : Ordered(before) /\ Pending(before)
  BY DEF ChainInv
<1>17. Ordered(before)'
  <2>1. \A v, w \in Busy' : v # w /\ <<v, w>> \in before => Waits(v)'
    <3> SUFFICES ASSUME NEW v \in Busy, NEW w \in Busy, v # w, <<v, w>> \in before PROVE Waits(v)'
      BY <1>15
    <3>1. v \in Threads /\ Waits(v)
      BY <1>16 DEF Busy, Ordered
    <3>2. v # t /\ ~IsFrom(v, c)
      BY <1>6, <1>12, <3>1 DEF Waits
    <3>3. thread'[v].pc = "read" /\ ~thread'[v].answered /\ thread'[v].ends # {}
      BY <1>5, <3>1, <3>2 DEF Waits
    <3>4. \A r \in Threads : AtServer(v, r)' => AtServer(v, r)
      BY <1>9, <3>1, <3>2
    <3> QED
      BY <1>11, <1>15, <3>1, <3>3, <3>4, WaitsOn
  <2>2. \A v \in Threads : \A w \in Busy' : AtServer(v, w)' => AtServer(v, w)
    BY <1>6, <1>9, <1>15 DEF Busy
  <2> QED
    BY <1>3, <1>15, <1>16, <2>1, <2>2, OrderedLess
<1>18. \A b : OfHolder(b)' <=> OfHolder(b)
  BY <1>1, <1>3, <1>5, HolderBusy, HolderKept
<1>19. ASSUME NEW u \in Threads, Asks(u, before) PROVE Asks(u, before)'
  <2>1. PeerOpen(u)' # {}
    BY <1>14, <1>19 DEF Asks
  <2>2. u # t
    BY <1>3, <1>19 DEF Asks
  <2> QED
    BY <1>5, <1>15, <1>19, <2>1, <2>2 DEF Asks
<1>20. Pending(before)'
  <2>1. ASSUME NEW q \in Threads, thread'[q].conn.block # NoBlock
        PROVE  /\ thread'[q].pc = "serve" /\ OfHolder(thread[q].conn.block)'
               /\ \E u \in Threads : AtServer(u, q)' /\ Asks(u, before)'
    <3>1. CASE q = t
      <4>1. c.block # NoBlock
        BY <1>5, <2>1, <3>1
      <4>2. OfHolder(c.block) /\ \E u \in Threads : IsFrom(u, c) /\ Asks(u, before)
        BY <1>4, <1>16, <4>1 DEF Pending
      <4>3. OfHolder(c.block)'
        BY <1>18, <4>2 DEF OfHolder
      <4> QED
        BY <1>5, <1>9, <1>19, <3>1, <4>2, <4>3 DEF OfHolder
    <3>2. CASE q # t
      <4>1. PICK b : b = thread[q].conn.block
        OBVIOUS
      <4>2. thread'[q].conn.block = b /\ b # NoBlock
        BY <1>5, <2>1, <3>2, <4>1
      <4>3. /\ thread[q].pc = "serve" /\ OfHolder(b)
            /\ \E u \in Threads : AtServer(u, q) /\ Asks(u, before)
        BY <1>16, <4>1, <4>2 DEF Pending
      <4>4. OfHolder(b)'
        BY <1>18, <4>3
      <4> QED
        BY <1>5, <1>9, <1>19, <3>2, <4>2, <4>3, <4>4 DEF OfHolder
    <3> QED
      BY <3>1, <3>2
  <2>2. ASSUME NEW q \in Threads, NEW k \in DOMAIN backlog'[q], backlog'[q][k].block # NoBlock
        PROVE  /\ OfHolder(backlog[q][k].block)'
               /\ \E u \in Threads : IsFrom(u, backlog[q][k])' /\ Asks(u, before)'
    <3>1. PICK l \in DOMAIN backlog[q] : backlog'[q][k] = backlog[q][l]
      BY <1>8
    <3>2. PICK d : d = backlog[q][l]
      OBVIOUS
    <3>3. /\ OfHolder(d.block) /\ backlog'[q][k] = d
          /\ \E u \in Threads : IsFrom(u, d) /\ Asks(u, before)
      BY <1>16, <2>2, <3>1, <3>2 DEF Pending
    <3>4. OfHolder(d.block)'
      BY <1>18, <3>3 DEF OfHolder
    <3>5. PICK u \in Threads : IsFrom(u, d) /\ Asks(u, before)
      BY <3>3
    <3>6. IsFrom(u, backlog[q][k])'
      BY <1>7, <3>3, <3>5 DEF IsFrom
    <3> QED
      BY <1>19, <3>3, <3>4, <3>5, <3>6 DEF OfHolder
  <2> QED
    BY <2>1, <2>2 DEF Pending
<1>21. Linked'
  <2>1. \A v \in Threads : thread'[v].pc \in {"write", "read"} => thread'[v].peer \in Threads
    BY <1>1, <1>5, <1>7 DEF Linked
  <2>2. ASSUME NEW v \in Threads, NEW r \in Threads, AtServer(v, r)'
        PROVE  thread'[v].peer = r /\ ~InQueue(v, r)'
    <3>1. CASE r = t
      BY <1>5, <1>9, <1>12, <2>2, <3>1
    <3>2. CASE r # t
      BY <1>1, <1>5, <1>9, <1>11, <2>2, <3>2 DEF Linked
    <3> QED
      BY <3>1, <3>2
  <2>3. ASSUME NEW v \in Threads, NEW r \in Threads, NEW k \in DOMAIN backlog'[r], IsFrom(v, backlog[r][k])'
        PROVE  /\ thread'[v].peer = r
               /\ \A l \in DOMAIN backlog'[r] : IsFrom(v, backlog[r][l])' => l = k
    <3>1. CASE r # t
      <4>1. k \in DOMAIN backlog[r] /\ IsFrom(v, backlog[r][k])
        BY <1>10, <2>3, <3>1
      <4>2. thread[v].peer = r /\ \A l \in DOMAIN backlog[r] : IsFrom(v, backlog[r][l]) => l = k
        BY <1>1, <4>1 DEF Linked
      <4> QED
        BY <1>5, <1>10, <3>1, <4>2
    <3>2. CASE r = t
      <4>1. k + 1 \in DOMAIN backlog[t] /\ IsFrom(v, backlog[t][k + 1])
        BY <1>10, <2>3, <3>2
      <4>2. thread[v].peer = t /\ \A l \in DOMAIN backlog[t] : IsFrom(v, backlog[t][l]) => l = k + 1
        BY <1>1, <4>1 DEF Linked
      <4>3. ASSUME NEW l \in DOMAIN backlog'[t], IsFrom(v, backlog[t][l])' PROVE l = k
        <5>1. l + 1 = k + 1
          BY <1>10, <4>2, <4>3
        <5> QED
          BY <1>4, <3>2, <5>1
      <4> QED
        BY <1>5, <3>2, <4>2, <4>3
    <3> QED
      BY <3>1, <3>2
  <2> QED
    BY <2>1, <2>2, <2>3 DEF Linked
<1>22. Closed'
  <2>1. ASSUME NEW v \in Threads, NEW r \in Threads, thread'[v].pc \notin {"none", "write", "read"}
        PROVE  ~HasConn(v, thread'[r].conn) /\ \A k \in DOMAIN backlog'[r] : ~HasConn(v, backlog'[r][k])
    <3>1. thread[v].pc \notin {"none", "write", "read"}
      BY <1>3, <1>5, <2>1
    <3>2. \A q \in Threads : ~HasConn(v, thread[q].conn) /\ \A k \in DOMAIN backlog[q] : ~HasConn(v, backlog[q][k])
      BY <1>1, <3>1 DEF Closed
    <3>3. ~HasConn(v, c)
      BY <1>4, <3>2
    <3> QED
      BY <1>5, <1>8, <3>2, <3>3
  <2> QED
    BY <2>1 DEF Closed, HasConn
<1>23. Unborn'
  <2>1. ASSUME NEW v \in Threads, Fresh(v) PROVE Fresh(v)'
    <3>1. v # t
      BY <1>3, <2>1 DEF Fresh
    <3>2. thread'[v].pc = "none"
      BY <1>5, <2>1, <3>1 DEF Fresh
    <3>3. c.from # v
      BY <1>4, <2>1 DEF Fresh
    <3>4. ASSUME NEW r \in Threads
          PROVE  thread'[r].conn.from # v /\ \A k \in DOMAIN backlog'[r] : backlog'[r][k].from # v
      BY <1>5, <1>8, <2>1, <3>3 DEF Fresh
    <3> QED
      BY <3>2, <3>4 DEF Fresh
  <2>2. \A p \in Procs : thread'[Client(p)].pc \in {"claim", "claim father"} =>
          thread'[Client(p)].pc = thread[Client(p)].pc
    BY <1>5, Pairs
  <2> QED
    BY <1>1, <1>3, <2>1, <2>2, UnbornKept
<1>24. Serves'
  <2>1. \A r \in Threads : thread'[r].conn # NoConn =>
          r[2] # "client" /\ (thread'[r].pc = "serve" \/ r \in Busy')
    BY <1>1, <1>5, <1>6, <1>15 DEF Serves
  <2>2. \A w \in Busy' : w[2] # "client" => thread'[w].conn.open # {}
    BY <1>1, <1>5, <1>6, <1>15 DEF Serves, Busy
  <2>3. ASSUME NEW v \in Threads, thread'[v].pc = "write" PROVE PeerOpen(v)' # {}
    <3>1. thread[v].pc = "write"
      BY <1>5, <2>3
    <3> QED
      BY <1>1, <1>14, <3>1 DEF Serves
  <2> QED
    BY <2>1, <2>2, <2>3 DEF Serves
<1>25. Changed'
  <2>1. ASSUME NEW v \in Busy' PROVE OfHolder(thread[v].block)' /\ Done(v[1], thread[v].block)'
    <3>1. PICK b : b = thread[v].block
      OBVIOUS
    <3>2. OfHolder(b) /\ Done(v[1], b) /\ thread'[v].block = b
      BY <1>1, <1>5, <1>15, <3>1 DEF Changed, Busy
    <3>3. OfHolder(b)'
      BY <1>18, <3>2
    <3> QED
      BY <1>3, <3>2, <3>3 DEF OfHolder, Done
  <2>2. ASSUME NEW v \in Threads, thread'[v].answered
        PROVE  /\ thread'[v].pc = "read" /\ thread'[v].peer \in Threads
               /\ proc'[thread'[v].peer[1]] # "absent"
               /\ Done(thread[v].peer[1], thread[v].block)'
    <3>1. thread[v].answered /\ v # t
      BY <1>1, <1>3, <1>5, <2>2 DEF Changed
    <3> QED
      BY <1>1, <1>3, <1>5, <3>1 DEF Changed, Done
  <2> QED
    BY <2>1, <2>2 DEF Changed
<1>26. Stays'
  BY <1>1, <1>5 DEF Stays
<1> QED
  BY <1>16, <1>17, <1>20, <1>21, <1>22, <1>23, <1>24, <1>25, <1>26 DEF ChainInv, Links

(* Every step keeps the invariant, while nobody leaves.                    *)
LEMMA NextChain ==
  ASSUME NobodyLeaves, ChainInv, [Next]_vars
  PROVE  ChainInv'
<1>1. Frame'
  BY NextTyped, NextMutex DEF ChainInv, Frame
<1>2. ASSUME NEW t \in Threads, Work(t) PROVE ChainInv'
  <2>1. t[1] \in Procs
    BY Pairs
  <2>2. CASE Scan(t) \/ SocketFails(t) \/ RemoveChild(t)
    BY <1>1, <2>2, LoopChain
  <2>3. CASE Connect(t) \/ Write(t) \/ ReadAnswer(t)
    BY <1>1, <2>3, ConnectChain, WriteChain, ReadChain
  <2>4. CASE Handle(t) \/ Refuse(t) \/ Answer(t)
    BY <1>1, <2>4, HandleChain, RefuseChain, AnswerChain
  <2>5. CASE StartServer(t)
    BY <1>1, <2>5, ServerQuiet, QuietChain
  <2>6. CASE Accept(t)
    <3>1. CASE t[1] \in holders[t]
      BY <1>1, <2>6, <3>1, AcceptChain
    <3>2. CASE t[1] \notin holders[t]
      BY <1>1, <2>6, <3>2, ServerQuiet, QuietChain
    <3> QED
      BY <3>1, <3>2
  <2>7. CASE ClaimSlot(t[1]) \/ ManageFather(t[1]) \/ ClaimFather(t[1])
    BY <1>1, <2>1, <2>7, StartQuiet, QuietChain
  <2>8. ~StopMprotect
    BY ProcessAssumption, Pairs DEF StopMprotect, ChainInv, Links, Stays
  <2> QED
    BY <1>2, <2>2, <2>3, <2>4, <2>5, <2>6, <2>7, <2>8 DEF Work
<1>3. ASSUME NEW p \in Procs, Request(p) PROVE ChainInv'
  <2>1. CASE \E q \in Procs : Fork(p, q)
    BY <1>1, <2>1, ForkQuiet, QuietChain
  <2>2. CASE StartChild(p)
    BY <1>1, <2>2, StartQuiet, QuietChain
  <2>3. CASE \E h \in Headers : Protect(p, h) \/ Unprotect(p, h)
    <3>1. PICK h \in Headers : Protect(p, h) \/ Unprotect(p, h)
      BY <2>3
    <3>2. PICK on \in BOOLEAN : Call(p, [header |-> h, on |-> on, sourcePID |-> p])
      BY <3>1 DEF Protect, Unprotect
    <3> QED
      BY <1>1, <3>2, CallChain
  <2>4. ~ExitChild(p) /\ ~Crash(p)
    BY DEF ExitChild, Crash, NobodyLeaves
  <2> QED
    BY <1>3, <2>1, <2>2, <2>3, <2>4 DEF Request
<1>4. CASE UNCHANGED vars
  BY <1>1, <1>4, StillQuiet, QuietChain DEF vars, table, memory
<1>5. ~ExitMaster
  BY DEF ExitMaster, NobodyLeaves
<1> QED
  BY <1>2, <1>3, <1>4, <1>5 DEF Next

(* However the threads take turns, and whatever the system refuses, all    *)
(* that is at work and every message under way concerns the one change of  *)
(* the mutex's holder: a client that has returned left nothing behind.     *)
THEOREM ChangesAreOne ==
  ASSUME NobodyLeaves
  PROVE  Spec => []OneChangeAtATime
<1>1. ChainInv => OneChangeAtATime
  <2> SUFFICES ASSUME ChainInv PROVE OneChangeAtATime
    OBVIOUS
  <2>1. \A t \in Threads : InDistribution(t) \/ thread[t].pc = "answer" => OfHolder(thread[t].block)
    BY DEF ChainInv, Links, Changed, Busy
  <2>2. \A t \in Threads : thread[t].conn.block # NoBlock => OfHolder(thread[t].conn.block)
    BY DEF ChainInv, Pending
  <2> QED
    BY <2>1, <2>2 DEF OneChangeAtATime, OfHolder
<1>2. Init => ChainInv
  BY InitChain
<1>3. ChainInv /\ [Next]_vars => ChainInv'
  BY NextChain
<1> QED
  BY <1>1, <1>2, <1>3, PTL DEF Spec

(* An answer that has come means that the process asked has made the       *)
(* change, and none has been made there since that says otherwise.         *)
THEOREM AnswersAreTrue ==
  ASSUME NobodyLeaves
  PROVE  Spec => []AnswerMeansDone
<1>1. ChainInv => AnswerMeansDone
  BY DEF ChainInv, Links, Changed, Done, AnswerMeansDone
<1>2. Init => ChainInv
  BY InitChain
<1>3. ChainInv /\ [Next]_vars => ChainInv'
  BY NextChain
<1> QED
  BY <1>1, <1>2, <1>3, PTL DEF Spec

--------------------------------------------------------------------------------
(* What is no change of a guard page, or comes of a beginning or an end. *)
Steady(q) == guard'[q] = guard[q] \/ proc[q] # "up" \/ proc'[q] # "up"

(* The page is now as the process with the mutex asks for in this step.  *)
AsHolderAsks(q, h) ==
  \E p \in Procs : LET block == thread'[Client(p)].block IN
    mutex' = p /\ block.header = h /\ block.on = (h \in guard'[q])

LEMMA EndSteady ==
  ASSUME TypeInv, NEW p \in Procs, NEW how, how # "up", End(p, how), NEW q \in Procs
  PROVE  Steady(q)
  BY DEF End, Steady, TypeInv, Tables

(* Threads change guard pages where they end and where they handle a       *)
(* message.                                                                *)
LEMMA WorkSteady ==
  ASSUME TypeInv, NEW t \in Threads, Work(t), ~Handle(t), NEW q \in Procs
  PROVE  Steady(q)
<1>1. t[1] \in Procs /\ Master \in Procs
  BY Pairs, ProcessAssumption
<1>2. CASE UNCHANGED guard
  BY <1>2 DEF Steady
<1>3. CASE \E p \in Procs, how \in {"ended", "sigpipe", "fault"} : End(p, how)
  BY <1>3, EndSteady
<1>4. CASE \/ Scan(t) \/ SocketFails(t) \/ Connect(t) \/ ReadAnswer(t)
           \/ StartServer(t) \/ Accept(t)
  BY <1>2, <1>4 DEF Scan, SocketFails, Connect, ReadAnswer, StartServer, Accept, memory
<1>5. CASE RemoveChild(t)
  BY <1>1, <1>2, <1>3, <1>5 DEF RemoveChild
<1>6. CASE Write(t)
  BY <1>1, <1>2, <1>3, <1>6 DEF Write
<1>7. CASE Refuse(t) \/ Answer(t)
  BY <1>1, <1>2, <1>3, <1>7 DEF Refuse, Answer
<1>8. CASE ClaimSlot(t[1]) \/ ManageFather(t[1]) \/ ClaimFather(t[1])
  BY <1>2, <1>8 DEF ClaimSlot, ManageFather, ClaimFather, Claim, memory
<1>9. CASE StopMprotect
  BY <1>1, <1>2, <1>3, <1>9 DEF StopMprotect
<1> QED
  BY <1>4, <1>5, <1>6, <1>7, <1>8, <1>9 DEF Work

(* The page that mprotect changes is the one that the block names.         *)
LEMMA SetFollows ==
  ASSUME TypeInv, NEW p \in Procs, NEW block, block.on \in BOOLEAN, SetGuard(p, block),
         NEW q \in Procs, NEW h, ~(h \in guard[q] <=> h \in guard'[q])
  PROVE  block.header = h /\ block.on = (h \in guard'[q])
<1>1. guard' = [guard EXCEPT ![p] = IF block.on THEN guard[p] \cup {block.header}
                                    ELSE guard[p] \ {block.header}]
  BY DEF SetGuard
<1>2. q = p
  BY <1>1 DEF TypeInv, Tables
<1>3. CASE block.on
  <2>1. guard'[q] = guard[q] \cup {block.header}
    BY <1>1, <1>2, <1>3 DEF TypeInv, Tables
  <2> QED
    BY <1>3, <2>1
<1>4. CASE ~block.on
  <2>1. guard'[q] = guard[q] \ {block.header}
    BY <1>1, <1>2, <1>4 DEF TypeInv, Tables
  <2> QED
    BY <1>4, <2>1
<1> QED
  BY <1>3, <1>4

LEMMA CallFollows ==
  ASSUME TypeInv, NEW p \in Procs, NEW header \in Headers, NEW on \in BOOLEAN,
         Call(p, [header |-> header, on |-> on, sourcePID |-> p]),
         NEW q \in Procs, NEW h, ~(h \in guard[q] <=> h \in guard'[q])
  PROVE  AsHolderAsks(q, h)
<1> DEFINE block == [header |-> header, on |-> on, sourcePID |-> p]
<1>1. /\ SetGuard(p, block)
      /\ thread' = Distributing(Client(p), block)
      /\ mutex' = p
  BY DEF Call
<1>2. block.header = h /\ block.on = (h \in guard'[q])
  <2>1. block.on \in BOOLEAN
    OBVIOUS
  <2> HIDE DEF block
  <2> QED
    BY <1>1, <2>1, SetFollows
<1>3. thread'[Client(p)].block = block
  <2>1. thread[Client(p)] \in Thread /\ DOMAIN thread = Threads
    BY Pairs DEF TypeInv, Placed, WellPlaced
  <2> QED
    BY <1>1, <2>1, Pairs DEF Distributing, Thread
<1> QED
  BY <1>1, <1>2, <1>3 DEF AsHolderAsks

(* A server makes the change the holder waits for. *)
LEMMA HandleFollows ==
  ASSUME ChainInv, NEW t \in Threads, Handle(t),
         NEW q \in Procs, NEW h, ~(h \in guard[q] <=> h \in guard'[q])
  PROVE  AsHolderAsks(q, h)
<1>1. PICK block : block = thread[t].conn.block
  OBVIOUS
<1>2. /\ TypeInv /\ MutexInv /\ thread[t] \in Thread /\ DOMAIN thread = Threads
      /\ t[1] \in Procs
  BY Pairs DEF ChainInv, Frame, TypeInv, Placed, WellPlaced
<1>3. thread[t].pc = "serve" /\ block # NoBlock /\ SetGuard(t[1], block) /\ mutex' = mutex
  BY <1>1 DEF Handle
<1>4. OfHolder(block)
  BY <1>1, <1>3 DEF ChainInv, Pending
<1>5. block.on \in BOOLEAN
  <2>1. thread[t].conn \in Connection \cup {NoConn}
    BY <1>2 DEF Thread
  <2>2. block \in MProtectBlock \cup {NoBlock}
    BY <1>1, <2>1 DEF Connection, NoConn
  <2> QED
    BY <1>3, <2>2 DEF MProtectBlock
<1>6. block.header = h /\ block.on = (h \in guard'[q])
  BY <1>2, <1>3, <1>5, SetFollows
<1>7. Client(mutex) # t /\ Client(mutex) \in Threads
  BY <1>2, <1>3, <1>4, ServersServe, Pairs DEF OfHolder, Serving
<1>8. thread'[Client(mutex)].block = thread[Client(mutex)].block
  BY <1>2, <1>7 DEF Handle, Distributing
<1> QED
  BY <1>3, <1>4, <1>6, <1>8 DEF AsHolderAsks, OfHolder

LEMMA RequestFollows ==
  ASSUME TypeInv, NEW p \in Procs, Request(p),
         NEW q \in Procs, NEW h, ~(h \in guard[q] <=> h \in guard'[q])
  PROVE  Steady(q) \/ AsHolderAsks(q, h)
<1>1. ASSUME NEW r \in Procs, Fork(p, r)
      PROVE  Steady(q)
  <2>1. guard' = [guard EXCEPT ![r] = guard[p]] /\ proc[r] = "absent"
    BY <1>1 DEF Fork
  <2>2. q # r => guard'[q] = guard[q]
    BY <2>1 DEF TypeInv, Tables
  <2> QED
    BY <2>1, <2>2 DEF Steady
<1>2. CASE StartChild(p)
  BY <1>2 DEF StartChild, memory
<1>3. CASE \E header \in Headers : Protect(p, header) \/ Unprotect(p, header)
  <2>1. PICK header \in Headers : Protect(p, header) \/ Unprotect(p, header)
    BY <1>3
  <2>2. PICK on \in BOOLEAN : Call(p, [header |-> header, on |-> on, sourcePID |-> p])
    BY <2>1 DEF Protect, Unprotect
  <2> QED
    BY <2>2, CallFollows
<1>4. CASE ExitChild(p) \/ Crash(p)
  BY <1>4, EndSteady DEF ExitChild, Crash
<1> QED
  BY <1>1, <1>2, <1>3, <1>4 DEF Request

(* While nobody leaves, no server makes a change that has been overtaken:  *)
(* every page that changes does so as the mutex's holder asks.             *)
THEOREM ChangesAreAskedFor ==
  ASSUME NobodyLeaves
  PROVE  Spec => PagesFollowHolder
<1> DEFINE AsAsked == \A q \in Procs, h \in Headers :
                        (h \in guard[q]) # (h \in guard'[q]) =>
                          \/ proc[q] # "up" \/ proc'[q] # "up"
                          \/ \E p \in Procs : LET block == thread'[Client(p)].block IN
                               mutex' = p /\ block.header = h /\ block.on = (h \in guard'[q])
<1>1. ASSUME ChainInv, [Next]_vars
      PROVE  [AsAsked]_vars
  <2> SUFFICES ASSUME Next, NEW q \in Procs, NEW h \in Headers,
                      ~(h \in guard[q] <=> h \in guard'[q])
               PROVE  Steady(q) \/ AsHolderAsks(q, h)
    BY <1>1 DEF Steady, AsHolderAsks
  <2>1. TypeInv
    BY <1>1 DEF ChainInv, Frame
  <2>2. ASSUME NEW t \in Threads, Work(t) PROVE Steady(q) \/ AsHolderAsks(q, h)
    BY <1>1, <2>1, <2>2, WorkSteady, HandleFollows
  <2>3. ASSUME NEW p \in Procs, Request(p) PROVE Steady(q) \/ AsHolderAsks(q, h)
    BY <2>1, <2>3, RequestFollows
  <2>4. CASE ExitMaster
    BY <2>4 DEF ExitMaster, memory, Steady
  <2> QED
    BY <2>2, <2>3, <2>4 DEF Next
<1>2. Init => ChainInv
  BY InitChain
<1>3. ChainInv /\ [Next]_vars => ChainInv'
  BY NextChain
<1> QED
  BY <1>1, <1>2, <1>3, PTL DEF Spec, PagesFollowHolder
===============================================================================
