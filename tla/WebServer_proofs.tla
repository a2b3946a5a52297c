-------------------------- MODULE WebServer_proofs --------------------------
(***************************************************************************)
(* Proofs about WebServer for every set of browsers, every request and     *)
(* every file size: the invariants the runs check, and that the threads    *)
(* implement the serial service of HttpService.                            *)
(***************************************************************************)
EXTENDS WebServer, SequenceTheorems, TLAPS

(* The kernel's queue holds each queued connection, and each once.         *)
BacklogInv ==
    /\ \A i \in DOMAIN backlog : phase[backlog[i]] = "queued"
    /\ \A i, j \in DOMAIN backlog : backlog[i] = backlog[j] => i = j
    /\ \A c \in Clients : phase[c] = "queued" => \E i \in DOMAIN backlog : backlog[i] = c

(* Nothing has been written to a client before its request line was read.  *)
Untouched(c) == reply[c] = "none" /\ parts[c] = 0

Target(c) == 1 + (IF Blocks[c] = Missing THEN 0 ELSE Blocks[c])

(* What the thread has found and written, at each of its control points.   *)
ProgressInv ==
    /\ \A c \in Clients : phase[c] \in {"idle", "queued"} => Untouched(c)
    /\ mpc = "create" \/ wpc = "arg" => Untouched(csock)
    /\ wpc \in {"line", "ok", "error", "headers", "head"} => Untouched(sock)
    /\ wpc \in {"ok", "error", "headers", "head", "block"} =>
           line = Method[sock] \/ (sock \in gone /\ sent[sock] = 0)
    /\ wpc = "ok" => line = "POST"
    /\ wpc = "error" => line = "OTHER"
    /\ wpc \in {"headers", "head", "block"} => line = "GET"
    /\ wpc \in {"head", "block"} => sent[sock] = 2
    /\ wpc = "block" => reply[sock] = "page" /\ parts[sock] < Target(sock)
    /\ wpc = "end" =>
           reply[sock] \in {Owed[sock]} \union (IF sock \in gone THEN {"ok", "error"} ELSE {})
    /\ wpc = "end" /\ reply[sock] = "page" => parts[sock] = Target(sock)

-----------------------------------------------------------------------------
(* The thread reads Method[sock] only because sock is a client, and that   *)
(* rests on the handoff: the two invariants are inductive together.        *)
Core == TypeOK /\ Handoff

LEMMA CoreStep == Core /\ [Next]_vars => Core'
  <1> SUFFICES ASSUME Core, [Next]_vars PROVE TypeOK' /\ Handoff'
    BY DEF Core
  <1> USE MethodAssumption DEF Core, clientVars, workerVars, WorkerPC, Replies, Methods
  <1>1. ASSUME NEW c \in Clients, Connect(c) PROVE TypeOK' /\ Handoff'
    <2>1. Append(backlog, c) \in Seq(Clients)
      BY DEF TypeOK
    <2>2. TypeOK'
      BY <1>1, <2>1 DEF Connect, TypeOK
    <2>3. Handoff'
      BY <1>1 DEF Connect, Handoff
    <2>4. QED
      BY <2>2, <2>3
  <1>2. ASSUME NEW c \in Clients, SendLine(c) PROVE TypeOK' /\ Handoff'
    <2>1. sent[c] \in 0..2
      BY DEF TypeOK
    <2>2. sent[c] < 2
      BY <1>2 DEF SendLine
    <2>3. sent[c] + 1 \in 0..2
      BY <2>1, <2>2
    <2>4. QED
      BY <1>2, <2>3 DEF SendLine, TypeOK, Handoff
  <1>3. ASSUME NEW c \in Clients, Leave(c) PROVE TypeOK' /\ Handoff'
    BY <1>3 DEF Leave, TypeOK, Handoff
  <1>4. CASE Accept
    <2>1. Head(backlog) \in Clients /\ Tail(backlog) \in Seq(Clients)
      BY <1>4 DEF Accept, TypeOK, Handoff
    <2>2. QED
      BY <1>4, <2>1 DEF Accept, TypeOK, Handoff
  <1>5. CASE Create \/ Join
    BY <1>5 DEF Create, Join, TypeOK, Handoff
  <1>6. CASE ReadArg
    BY <1>6 DEF ReadArg, TypeOK, Handoff
  <1>7. CASE ReadLine
    <2>1. sock \in Clients
      BY <1>7 DEF ReadLine, TypeOK, Handoff
    <2>2. line' \in Methods
      BY <1>7, <2>1 DEF ReadLine, TypeOK, Handoff
    <2>3. Branch(line') \in {"ok", "error", "headers"}
      BY <2>2 DEF Branch, TypeOK, Handoff
    <2>4. QED
      BY <1>7, <2>2, <2>3 DEF ReadLine, TypeOK, Handoff
  <1>8. CASE SkipHeaders
    BY <1>8 DEF SkipHeaders, TypeOK, Handoff
  <1>9. CASE SendOk \/ SendError
    BY <1>9 DEF SendOk, SendError, SendShort, Killed, TypeOK, Handoff
  <1>10. CASE SendHead
    BY <1>10 DEF SendHead, Killed, TypeOK, Handoff
  <1>11. CASE SendBlock
    <2>1. sock \in Clients
      BY <1>11 DEF SendBlock, TypeOK, Handoff
    <2>2. parts[sock] + 1 \in Nat
      BY <2>1 DEF TypeOK
    <2>3. QED
      BY <1>11, <2>1, <2>2 DEF SendBlock, Killed, TypeOK, Handoff
  <1>12. CASE Close
    BY <1>12 DEF Close, Killed, TypeOK, Handoff
  <1>13. CASE UNCHANGED vars
    BY <1>13 DEF vars, TypeOK, Handoff
  <1>14. QED
    BY <1>1, <1>2, <1>3, <1>4, <1>5, <1>6, <1>7, <1>8, <1>9, <1>10, <1>11, <1>12, <1>13
    DEF Next, Browser, Main, Worker

LEMMA CoreCorrect == Spec => []Core
  <1>1. Init => Core
    BY DEF Init, Core, TypeOK, Handoff, WorkerPC, Replies, Methods
  <1>2. QED
    BY <1>1, CoreStep, PTL DEF Spec

(* Every reachable state is well-typed, whoever connects and hangs up.     *)
THEOREM TypeCorrect == Spec => []TypeOK
  <1>1. Core => TypeOK
    BY DEF Core
  <1>2. QED
    BY <1>1, CoreCorrect, PTL

(* pthread_join makes passing &csock safe: while the thread may dereference *)
(* it, main does not store the next connection there.                      *)
THEOREM HandoffCorrect == Spec => []Handoff
  <1>1. Core => Handoff
    BY DEF Core
  <1>2. QED
    BY <1>1, CoreCorrect, PTL

-----------------------------------------------------------------------------
(* One connection in service, and a queue of untouched ones.               *)

Queue == OneInService /\ BacklogInv

LEMMA AppendDomain ==
    ASSUME NEW S, NEW s \in Seq(S), NEW e \in S, NEW t, t = Append(s, e)
    PROVE  /\ \A i \in DOMAIN t :
               \/ i \in DOMAIN s /\ t[i] = s[i]
               \/ i = Len(s) + 1 /\ t[i] = e
           /\ Len(s) + 1 \in DOMAIN t /\ t[Len(s) + 1] = e
           /\ \A i \in DOMAIN s : i \in DOMAIN t /\ t[i] = s[i]
  <1>1. Len(s) \in Nat /\ DOMAIN s = 1..Len(s)
    OBVIOUS
  <1>2. t \in Seq(S) /\ Len(t) = Len(s) + 1
    OBVIOUS
  <1>3. DOMAIN t = 1..(Len(s) + 1)
    BY <1>2
  <1>4. \A i \in 1..(Len(s) + 1) : i \in 1..Len(s) \/ i = Len(s) + 1
    BY <1>1
  <1>5. \A i \in 1..Len(s) : t[i] = s[i]
    OBVIOUS
  <1>6. t[Len(s) + 1] = e
    OBVIOUS
  <1>7. QED
    BY <1>1, <1>3, <1>4, <1>5, <1>6

LEMMA TailDomain ==
    ASSUME NEW S, NEW s \in Seq(S), s # <<>>
    PROVE  /\ Head(s) = s[1] /\ 1 \in DOMAIN s
           /\ \A i \in DOMAIN Tail(s) : i \in Nat /\ i >= 1 /\ i + 1 \in DOMAIN s /\ Tail(s)[i] = s[i + 1]
           /\ \A i \in DOMAIN s : i # 1 => i - 1 \in DOMAIN Tail(s) /\ Tail(s)[i - 1] = s[i]
  <1>1. Len(s) \in Nat /\ Len(s) > 0 /\ DOMAIN s = 1..Len(s)
    OBVIOUS
  <1>2. DOMAIN Tail(s) = 1..(Len(s) - 1)
    BY <1>1
  <1>3. QED
    BY <1>1, <1>2

LEMMA QueueStep == Core /\ Queue /\ [Next]_vars => Queue'
  <1> SUFFICES ASSUME Core, Queue, [Next]_vars PROVE OneInService' /\ BacklogInv'
    BY DEF Queue
  <1> USE DEF clientVars, workerVars
  <1>0. /\ backlog \in Seq(Clients)
        /\ phase \in [Clients -> {"idle", "queued", "service", "closed"}]
        /\ mpc \in {"accept", "create", "join"}
        /\ mpc = "accept" => wpc = "none"
        /\ mpc = "create" => wpc = "none"
        /\ wpc \notin {"none", "arg"} => sock = csock /\ mpc = "join" /\ sock \in Clients
    BY DEF Core, TypeOK, Handoff
  <1>1. ASSUME NEW c \in Clients, Connect(c) PROVE OneInService' /\ BacklogInv'
    <2>1. \A d \in Clients : phase'[d] = IF d = c THEN "queued" ELSE phase[d]
      BY <1>0, <1>1 DEF Connect
    <2>2. OneInService'
      BY <1>1, <2>1 DEF Connect, Queue, OneInService
    <2>3. \A i \in DOMAIN backlog : backlog[i] \in Clients /\ backlog[i] # c
      BY <1>0, <1>1 DEF Connect, Queue, BacklogInv
    <2>4. \A i \in DOMAIN backlog' :
              \/ i \in DOMAIN backlog /\ backlog'[i] = backlog[i]
              \/ i = Len(backlog) + 1 /\ backlog'[i] = c
      <3>1. backlog' = Append(backlog, c)
        BY <1>1 DEF Connect
      <3>2. QED
        BY <1>0, <3>1, AppendDomain
    <2>5. /\ Len(backlog) + 1 \in DOMAIN backlog' /\ backlog'[Len(backlog) + 1] = c
          /\ \A i \in DOMAIN backlog : i \in DOMAIN backlog' /\ backlog'[i] = backlog[i]
      BY <1>0, <1>1, AppendDomain DEF Connect
    <2>6. BacklogInv'
      BY <2>1, <2>3, <2>4, <2>5 DEF Queue, BacklogInv
    <2>7. QED
      BY <2>2, <2>6
  <1>2. ASSUME NEW c \in Clients, SendLine(c) \/ Leave(c) PROVE OneInService' /\ BacklogInv'
    BY <1>2 DEF SendLine, Leave, Queue, OneInService, BacklogInv
  <1>3. CASE Accept
    <2> DEFINE c == Head(backlog)
    <2>1. c = backlog[1] /\ 1 \in DOMAIN backlog /\ c \in Clients
      BY <1>0, <1>3, TailDomain DEF Accept
    <2>2. \A d \in Clients : phase'[d] = IF d = c THEN "service" ELSE phase[d]
      BY <1>0, <1>3, <2>1 DEF Accept
    <2>3. \A d \in Clients : phase[d] # "service"
      BY <1>3 DEF Accept, Queue, OneInService
    <2>4. OneInService'
      BY <1>0, <1>3, <2>2, <2>3 DEF Accept, OneInService
    <2>5. \A i \in DOMAIN backlog' : /\ i \in Nat /\ i >= 1 /\ i + 1 \in DOMAIN backlog
                                      /\ backlog'[i] = backlog[i + 1]
      BY <1>0, <1>3, TailDomain DEF Accept
    <2>6. \A i \in DOMAIN backlog' : backlog'[i] \in Clients /\ backlog'[i] # c
      <3> SUFFICES ASSUME NEW i \in DOMAIN backlog'
                   PROVE  backlog'[i] \in Clients /\ backlog'[i] # c
        OBVIOUS
      <3>1. i + 1 # 1
        BY <2>5
      <3>2. QED
        BY <1>0, <2>1, <2>5, <3>1 DEF Queue, BacklogInv
    <2>7. \A i \in DOMAIN backlog' : phase'[backlog'[i]] = "queued"
      BY <2>2, <2>5, <2>6 DEF Queue, BacklogInv
    <2>8. \A i, j \in DOMAIN backlog' : backlog'[i] = backlog'[j] => i = j
      <3> SUFFICES ASSUME NEW i \in DOMAIN backlog', NEW j \in DOMAIN backlog',
                          backlog'[i] = backlog'[j]
                   PROVE  i = j
        OBVIOUS
      <3>1. i + 1 = j + 1
        BY <2>5 DEF Queue, BacklogInv
      <3>2. QED
        BY <2>5, <3>1
    <2>9. \A i \in DOMAIN backlog : i # 1 => i - 1 \in DOMAIN backlog' /\ backlog'[i - 1] = backlog[i]
      BY <1>0, <1>3, TailDomain DEF Accept
    <2>10. \A d \in Clients : phase'[d] = "queued" => \E i \in DOMAIN backlog' : backlog'[i] = d
      <3> SUFFICES ASSUME NEW d \in Clients, phase'[d] = "queued"
                   PROVE  \E i \in DOMAIN backlog' : backlog'[i] = d
        OBVIOUS
      <3>1. d # c /\ phase[d] = "queued"
        BY <2>2
      <3>2. PICK i \in DOMAIN backlog : backlog[i] = d
        BY <3>1 DEF Queue, BacklogInv
      <3>3. i # 1
        BY <2>1, <3>1, <3>2
      <3>4. QED
        BY <2>9, <3>2, <3>3
    <2>11. QED
      BY <2>4, <2>7, <2>8, <2>10 DEF BacklogInv
  <1>4. CASE Create \/ Join
    BY <1>0, <1>4 DEF Create, Join, Queue, OneInService, BacklogInv
  <1>5. CASE ReadArg \/ SkipHeaders
    BY <1>5 DEF ReadArg, SkipHeaders, Queue, OneInService, BacklogInv
  <1>6. CASE ReadLine
    <2>1. wpc' # "exited"
      <3>1. sock \in Clients
        BY <1>0, <1>6 DEF ReadLine
      <3>2. line' \in Methods
        BY <1>6, <3>1, MethodAssumption DEF ReadLine
      <3>3. QED
        BY <1>6, <3>2 DEF ReadLine, Branch, Methods
    <2>2. QED
      BY <1>6, <2>1 DEF ReadLine, Queue, OneInService, BacklogInv
  <1>7. CASE SendOk \/ SendError \/ SendHead \/ SendBlock
    BY <1>7 DEF SendOk, SendError, SendShort, SendHead, SendBlock, Killed,
                Queue, OneInService, BacklogInv
  <1>8. CASE Close
    <2>1. CASE Killed
      BY <2>1 DEF Killed, Queue, OneInService, BacklogInv
    <2>2. CASE ~Killed
      <3>1. \A d \in Clients : phase'[d] = IF d = sock THEN "closed" ELSE phase[d]
        BY <1>0, <1>8, <2>2 DEF Close
      <3>2. /\ UNCHANGED <<backlog, mpc, csock>> /\ wpc' = "exited"
            /\ sock \in Clients /\ sock = csock /\ mpc = "join" /\ wpc = "end"
        BY <1>0, <1>8, <2>2 DEF Close
      <3>3. OneInService'
        BY <3>1, <3>2 DEF Queue, OneInService
      <3>4. phase[sock] = "service"
        BY <3>2 DEF Queue, OneInService
      <3>5. \A i \in DOMAIN backlog : backlog[i] \in Clients /\ backlog[i] # sock
        BY <1>0, <3>4 DEF Queue, BacklogInv
      <3>6. BacklogInv'
        BY <3>1, <3>2, <3>5 DEF Queue, BacklogInv
      <3>7. QED
        BY <3>3, <3>6
    <2>3. QED
      BY <2>1, <2>2
  <1>9. CASE UNCHANGED vars
    BY <1>9 DEF vars, Queue, OneInService, BacklogInv
  <1>10. QED
    BY <1>1, <1>2, <1>3, <1>4, <1>5, <1>6, <1>7, <1>8, <1>9
    DEF Next, Browser, Main, Worker

-----------------------------------------------------------------------------
(* The answer under way, from the request line to the last block.          *)

LEMMA OwedIs ==
    ASSUME NEW c \in Clients
    PROVE  /\ Method[c] = "POST" => Owed[c] = "ok"
           /\ Method[c] = "GET" => Owed[c] = "page"
           /\ Method[c] = "OTHER" => Owed[c] = "error"
  BY DEF Owed

LEMMA BlocksLeft ==
    ASSUME NEW c \in Clients, parts \in [Clients -> Nat], parts[c] < Target(c)
    PROVE  /\ FullBlock(c) => parts[c] + 1 < Target(c)
           /\ ~FullBlock(c) => parts[c] + 1 = Target(c)
  <1>1. parts[c] \in Nat /\ Blocks[c] \in Nat \union {Missing}
    BY BlocksAssumption
  <1>2. QED
    BY <1>1 DEF Target, FullBlock, Missing

LEMMA ProgressStep == Core /\ Queue /\ ProgressInv /\ [Next]_vars => ProgressInv'
  <1> SUFFICES ASSUME Core, Queue, ProgressInv, [Next]_vars PROVE ProgressInv'
    OBVIOUS
  <1> USE DEF clientVars, workerVars
  <1>0. /\ phase \in [Clients -> {"idle", "queued", "service", "closed"}]
        /\ sent \in [Clients -> 0..2]
        /\ reply \in [Clients -> Replies]
        /\ parts \in [Clients -> Nat]
        /\ mpc \in {"accept", "create", "join"}
        /\ mpc \in {"accept", "create"} => wpc = "none"
        /\ mpc \in {"create", "join"} => csock \in Clients
        /\ wpc \notin {"none", "arg"} => sock = csock /\ mpc = "join" /\ sock \in Clients
        /\ wpc = "arg" => mpc = "join"
    BY DEF Core, TypeOK, Handoff
  <1>i. wpc \notin {"none", "exited"} => phase[csock] = "service"
    BY <1>0 DEF Queue, OneInService
  <1>1. ASSUME NEW c \in Clients, Connect(c) PROVE ProgressInv'
    BY <1>0, <1>1 DEF Connect, ProgressInv, Untouched, Target
  <1>2. ASSUME NEW c \in Clients, SendLine(c) PROVE ProgressInv'
    <2>1. \A d \in Clients : sent'[d] = IF d = c THEN sent[c] + 1 ELSE sent[d]
      BY <1>0, <1>2 DEF SendLine
    <2>2. sent[c] < 2 /\ sent[c] \in 0..2 /\ c \notin gone
      BY <1>0, <1>2 DEF SendLine
    <2>3. sock \in Clients /\ sock \in gone => sent'[sock] = sent[sock]
      BY <2>1, <2>2
    <2>4. sock \in Clients /\ sent[sock] = 2 => sent'[sock] = 2
      BY <2>1, <2>2
    <2>5. UNCHANGED <<phase, gone, mpc, csock, wpc, sock, line, reply, parts>>
      BY <1>2 DEF SendLine
    <2>6. QED
      BY <1>0, <2>3, <2>4, <2>5 DEF ProgressInv, Untouched, Target
  <1>3. ASSUME NEW c \in Clients, Leave(c) PROVE ProgressInv'
    BY <1>0, <1>3 DEF Leave, ProgressInv, Untouched, Target
  <1>4. CASE Accept
    <2>1. csock' \in Clients /\ phase[csock'] = "queued"
      BY <1>4, TailDomain DEF Accept, Core, TypeOK, Queue, BacklogInv
    <2>2. \A d \in Clients : phase'[d] = IF d = csock' THEN "service" ELSE phase[d]
      BY <1>0, <1>4 DEF Accept
    <2>3. wpc' = "none" /\ UNCHANGED <<wpc, sock, line, reply, parts>>
      BY <1>0, <1>4 DEF Accept
    <2>4. QED
      BY <2>1, <2>2, <2>3 DEF ProgressInv, Untouched
  <1>5. CASE Create
    BY <1>0, <1>5 DEF Create, ProgressInv, Untouched
  <1>6. CASE Join
    BY <1>0, <1>6 DEF Join, ProgressInv, Untouched
  <1>7. CASE ReadArg
    BY <1>0, <1>7 DEF ReadArg, ProgressInv, Untouched
  <1>8. CASE ReadLine
    <2>1. sock \in Clients /\ Method[sock] \in Methods
      BY <1>0, <1>8, MethodAssumption DEF ReadLine
    <2>2. line' \in Methods /\ (line' = Method[sock] \/ (sock \in gone /\ sent[sock] = 0))
      BY <1>8, <2>1 DEF ReadLine
    <2>3. \/ line' = "POST" /\ wpc' = "ok"
          \/ line' = "OTHER" /\ wpc' = "error"
          \/ line' = "GET" /\ wpc' = "headers"
      BY <1>8, <2>2 DEF ReadLine, Branch, Methods
    <2>4. UNCHANGED <<phase, sent, gone, mpc, csock, sock, reply, parts>> /\ wpc = "line" /\ mpc = "join"
      BY <1>0, <1>8 DEF ReadLine
    <2>5. QED
      BY <2>2, <2>3, <2>4 DEF ProgressInv, Untouched
  <1>9. CASE SkipHeaders
    BY <1>0, <1>9 DEF SkipHeaders, ProgressInv, Untouched
  <1>10. CASE Killed
    BY <1>0, <1>10 DEF Killed, ProgressInv, Untouched, Target
  <1>11. ASSUME NEW kind \in {"ok", "error"}, SendShort(kind, kind), ~Killed PROVE ProgressInv'
    <2>1. sock \in Clients /\ sock = csock /\ mpc = "join" /\ wpc = kind
      BY <1>0, <1>11 DEF SendShort
    <2>2. \A d \in Clients : reply'[d] = IF d = sock THEN kind ELSE reply[d]
      BY <1>0, <1>11, <2>1 DEF SendShort
    <2>3. UNCHANGED <<phase, sent, gone, mpc, csock, sock, line, parts>> /\ wpc' = "end"
      BY <1>11 DEF SendShort
    <2>4. kind \in {Owed[sock]} \union (IF sock \in gone THEN {"ok", "error"} ELSE {})
      BY <2>1, OwedIs DEF ProgressInv
    <2>5. phase[sock] = "service"
      BY <1>i, <2>1
    <2>6. QED
      BY <2>1, <2>2, <2>3, <2>4, <2>5 DEF ProgressInv, Untouched
  <1>12. CASE SendHead /\ ~Killed
    <2>1. sock \in Clients /\ sock = csock /\ mpc = "join" /\ wpc = "head"
      BY <1>0, <1>12 DEF SendHead
    <2>2. \A d \in Clients : reply'[d] = IF d = sock THEN "page" ELSE reply[d]
      BY <1>0, <1>12, <2>1 DEF SendHead
    <2>3. UNCHANGED <<phase, sent, gone, mpc, csock, sock, line, parts>> /\ wpc' = "block"
      BY <1>12 DEF SendHead
    <2>4. parts[sock] < Target(sock)
      BY <2>1, BlocksAssumption DEF ProgressInv, Untouched, Target, Missing
    <2>5. phase[sock] = "service"
      BY <1>i, <2>1
    <2>6. Target(sock)' = Target(sock)
      BY <2>3 DEF Target
    <2>7. QED
      BY <2>1, <2>2, <2>3, <2>4, <2>5, <2>6 DEF ProgressInv, Untouched
  <1>13. CASE SendBlock /\ ~Killed
    <2>1. sock \in Clients /\ sock = csock /\ mpc = "join" /\ wpc = "block"
      BY <1>0, <1>13 DEF SendBlock
    <2>2. \A d \in Clients : parts'[d] = IF d = sock THEN parts[d] + 1 ELSE parts[d]
      BY <1>0, <1>13, <2>1 DEF SendBlock
    <2>3. UNCHANGED <<phase, sent, gone, mpc, csock, sock, line, reply>>
      BY <1>13 DEF SendBlock
    <2>4. wpc' = IF FullBlock(sock) THEN "block" ELSE "end"
      BY <1>13 DEF SendBlock
    <2>5. /\ FullBlock(sock) => parts'[sock] < Target(sock)
          /\ ~FullBlock(sock) => parts'[sock] = Target(sock)
      BY <1>0, <2>1, <2>2, BlocksLeft DEF ProgressInv
    <2>6. phase[sock] = "service" /\ reply[sock] = "page"
      BY <1>i, <2>1 DEF ProgressInv
    <2>7. Owed[sock] = "page"
      <3>1. line = "GET" /\ sent[sock] = 2
        BY <2>1 DEF ProgressInv
      <3>2. line = Method[sock]
        BY <2>1, <3>1 DEF ProgressInv
      <3>3. QED
        BY <2>1, <3>1, <3>2, OwedIs
    <2>8. Target(sock)' = Target(sock) /\ Owed' = Owed
      BY <2>3 DEF Target, Owed
    <2>9. QED
      BY <2>1, <2>2, <2>3, <2>4, <2>5, <2>6, <2>7, <2>8 DEF ProgressInv, Untouched
  <1>14. CASE Close /\ ~Killed
    BY <1>0, <1>14 DEF Close, ProgressInv, Untouched
  <1>15. CASE UNCHANGED vars
    BY <1>15 DEF vars, ProgressInv, Untouched, Target
  <1>16. QED
    BY <1>1, <1>2, <1>3, <1>4, <1>5, <1>6, <1>7, <1>8, <1>9, <1>10, <1>11, <1>12, <1>13,
       <1>14, <1>15
    DEF Next, Browser, Main, Worker, SendOk, SendError

LEMMA PageStep == Core /\ Queue /\ ProgressInv /\ PageComplete /\ [Next]_vars => PageComplete'
  <1> SUFFICES ASSUME Core, Queue, ProgressInv, PageComplete, [Next]_vars
               PROVE  PageComplete'
    OBVIOUS
  <1> USE DEF clientVars, workerVars
  <1>0. /\ phase \in [Clients -> {"idle", "queued", "service", "closed"}]
        /\ reply \in [Clients -> Replies]
        /\ parts \in [Clients -> Nat]
        /\ wpc \notin {"none", "arg"} => sock = csock /\ mpc = "join" /\ sock \in Clients
    BY DEF Core, TypeOK, Handoff
  <1>i. wpc \notin {"none", "arg", "exited"} => phase[sock] = "service"
    BY <1>0 DEF Queue, OneInService
  <1>1. ASSUME NEW c \in Clients, Connect(c) PROVE PageComplete'
    BY <1>0, <1>1 DEF Connect, PageComplete
  <1>2. CASE Accept
    <2>1. \A d \in Clients : phase'[d] = "closed" => phase[d] = "closed"
      BY <1>0, <1>2 DEF Accept
    <2>2. QED
      BY <1>2, <2>1 DEF Accept, PageComplete
  <1>3. ASSUME NEW kind \in {"ok", "error"}, SendShort(kind, kind) PROVE PageComplete'
    <2>1. \A d \in Clients : phase[d] = "closed" => reply'[d] = reply[d]
      BY <1>0, <1>i, <1>3 DEF SendShort, Killed
    <2>2. QED
      BY <1>3, <2>1 DEF SendShort, Killed, PageComplete
  <1>4. CASE SendHead
    <2>1. \A d \in Clients : phase[d] = "closed" => reply'[d] = reply[d]
      BY <1>0, <1>i, <1>4 DEF SendHead, Killed
    <2>2. QED
      BY <1>4, <2>1 DEF SendHead, Killed, PageComplete
  <1>5. CASE SendBlock
    <2>1. \A d \in Clients : phase[d] = "closed" => parts'[d] = parts[d]
      BY <1>0, <1>i, <1>5 DEF SendBlock, Killed
    <2>2. QED
      BY <1>5, <2>1 DEF SendBlock, Killed, PageComplete
  <1>6. CASE Close
    <2>1. CASE Killed
      BY <2>1 DEF Killed, PageComplete
    <2>2. CASE ~Killed
      <3>1. \A d \in Clients : phase'[d] = IF d = sock THEN "closed" ELSE phase[d]
        BY <1>0, <1>6, <2>2 DEF Close
      <3>2. reply[sock] = "page" => parts[sock] = Target(sock)
        BY <1>6 DEF Close, ProgressInv
      <3>3. QED
        BY <1>6, <2>2, <3>1, <3>2 DEF Close, PageComplete, Target
    <2>3. QED
      BY <2>1, <2>2
  <1>7. CASE (\E c \in Clients : SendLine(c) \/ Leave(c)) \/ Create \/ Join \/ ReadArg
             \/ ReadLine \/ SkipHeaders \/ UNCHANGED vars
    <2>1. UNCHANGED <<phase, reply, parts>>
      BY <1>7 DEF SendLine, Leave, Create, Join, ReadArg, ReadLine, SkipHeaders, vars
    <2>2. QED
      BY <2>1 DEF PageComplete
  <1>8. QED
    BY <1>1, <1>2, <1>3, <1>4, <1>5, <1>6, <1>7
    DEF Next, Browser, Main, Worker, SendOk, SendError

(* The inductive invariant of the server. *)
IInv == Core /\ Queue /\ ProgressInv /\ PageComplete

LEMMA InvariantHolds == Spec => []IInv
  <1>1. Init => Core
    BY DEF Init, Core, TypeOK, Handoff, WorkerPC, Replies, Methods
  <1>2. Init => Queue
    BY DEF Init, Queue, OneInService, BacklogInv
  <1>3. Init => ProgressInv /\ PageComplete
    BY DEF Init, ProgressInv, Untouched, PageComplete
  <1>4. IInv /\ [Next]_vars => IInv'
    BY CoreStep, QueueStep, ProgressStep, PageStep DEF IInv
  <1>5. QED
    BY <1>1, <1>2, <1>3, <1>4, PTL DEF Spec, IInv

(* No connection is lost between accept and fclose: the one main's csock   *)
(* names is the only one accepted and not closed.                          *)
THEOREM OneInServiceCorrect == Spec => []OneInService
  <1>1. IInv => OneInService
    BY DEF IInv, Queue
  <1>2. QED
    BY <1>1, InvariantHolds, PTL

(* A page that was closed is complete, for files of any number of blocks.  *)
THEOREM PageCompleteCorrect == Spec => []PageComplete
  <1>1. IInv => PageComplete
    BY DEF IInv
  <1>2. QED
    BY <1>1, InvariantHolds, PTL

-----------------------------------------------------------------------------
(* Refinement: main, the thread and the kernel's queue together are the    *)
(* serial service.                                                         *)

InService == IF mpc = "accept" \/ wpc = "exited" THEN <<>> ELSE <<csock>>
Pending == InService \o backlog
Answers == [c \in Clients |-> IF phase[c] = "closed" THEN reply[c] ELSE "none"]

LEMMA ConsTail ==
    ASSUME NEW S, NEW s \in Seq(S), NEW e \in S
    PROVE  /\ <<e>> \o s # <<>>
           /\ Head(<<e>> \o s) = e
           /\ Tail(<<e>> \o s) = s
           /\ <<>> \o s = s
           /\ s # <<>> => <<Head(s)>> \o Tail(s) = s
  OBVIOUS

LEMMA PendingIndex ==
    ASSUME Core, Queue
    PROVE  /\ Pending \in Seq(Clients)
           /\ \A i \in DOMAIN Pending : Pending[i] \in Clients /\ phase[Pending[i]] \in {"queued", "service"}
           /\ \A c \in Clients : phase[c] \in {"queued", "service"} => \E i \in DOMAIN Pending : Pending[i] = c
  <1>1. backlog \in Seq(Clients) /\ phase \in [Clients -> {"idle", "queued", "service", "closed"}]
    BY DEF Core, TypeOK
  <1>2. CASE mpc = "accept" \/ wpc = "exited"
    <2>1. Pending = backlog
      BY <1>1, <1>2, ConsTail DEF Pending, InService
    <2>2. \A c \in Clients : phase[c] # "service"
      BY <1>2 DEF Queue, OneInService
    <2>3. QED
      BY <1>1, <2>1, <2>2 DEF Queue, BacklogInv
  <1>3. CASE ~(mpc = "accept" \/ wpc = "exited")
    <2>1. csock \in Clients /\ phase[csock] = "service"
      BY <1>3 DEF Core, TypeOK, Handoff, Queue, OneInService
    <2>2. Pending = <<csock>> \o backlog
      BY <1>3 DEF Pending, InService
    <2>3. Pending \in Seq(Clients) /\ Len(Pending) = Len(backlog) + 1
      BY <1>1, <2>1, <2>2
    <2>4. 1 \in DOMAIN Pending /\ Pending[1] = csock
      BY <1>1, <2>1, <2>2, <2>3
    <2>5. \A i \in DOMAIN backlog : i + 1 \in DOMAIN Pending /\ Pending[i + 1] = backlog[i]
      BY <1>1, <2>1, <2>2, <2>3
    <2>6. \A i \in DOMAIN Pending : i = 1 \/ (i - 1 \in DOMAIN backlog /\ Pending[i] = backlog[i - 1])
      BY <1>1, <2>1, <2>2, <2>3
    <2>7. \A i \in DOMAIN backlog : backlog[i] \in Clients
      BY <1>1
    <2>8. \A i \in DOMAIN Pending : Pending[i] \in Clients /\ phase[Pending[i]] \in {"queued", "service"}
      BY <2>1, <2>4, <2>6, <2>7 DEF Queue, BacklogInv
    <2>9. ASSUME NEW c \in Clients, phase[c] \in {"queued", "service"}
          PROVE  \E i \in DOMAIN Pending : Pending[i] = c
      <3>1. CASE phase[c] = "service"
        BY <2>4, <3>1 DEF Queue, OneInService
      <3>2. CASE phase[c] = "queued"
        BY <2>5, <3>2 DEF Queue, BacklogInv
      <3>3. QED
        BY <2>9, <3>1, <3>2
    <2>10. QED
      BY <2>3, <2>8, <2>9
  <1>4. QED
    BY <1>2, <1>3

LEMMA RefinementStep == IInv /\ [Next]_vars => [Service!Next]_(Service!absVars)
  <1> SUFFICES ASSUME IInv, [Next]_vars PROVE [Service!Next]_(Service!absVars)
    OBVIOUS
  <1> USE DEF clientVars, workerVars
  <1>0. Core /\ Queue /\ ProgressInv
    BY DEF IInv
  <1>a. /\ backlog \in Seq(Clients)
        /\ phase \in [Clients -> {"idle", "queued", "service", "closed"}]
        /\ mpc \in {"accept", "create", "join"}
        /\ mpc \in {"accept", "create"} => wpc = "none"
        /\ wpc \notin {"none", "arg"} => sock = csock /\ mpc = "join" /\ sock \in Clients
    BY <1>0 DEF Core, TypeOK, Handoff
  <1>b. /\ Pending \in Seq(Clients)
        /\ \A c \in Clients : (\E i \in DOMAIN Pending : Pending[i] = c)
                             <=> phase[c] \in {"queued", "service"}
    BY <1>0, PendingIndex
  <1> DEFINE Same == Pending' = Pending /\ Answers' = Answers /\ gone' = gone /\ alive' = alive
  <1>s. Same => UNCHANGED Service!absVars
    BY DEF Service!absVars, Pending, InService, Answers
  <1>1. ASSUME NEW c \in Clients, Connect(c) PROVE Service!Arrive(c)
    <2>1. Pending' = Append(Pending, c)
      <3>1. InService' = InService /\ InService \in Seq(Clients)
        BY <1>0, <1>1 DEF Connect, InService, Core, TypeOK, Handoff
      <3>2. InService \o Append(backlog, c) = Append(InService \o backlog, c)
        BY <1>a, <3>1
      <3>3. QED
        BY <1>1, <3>1, <3>2 DEF Connect, Pending
    <2>2. Answers' = Answers
      BY <1>a, <1>1 DEF Connect, Answers
    <2>3. Answers[c] = "none" /\ ~\E i \in DOMAIN Pending : Pending[i] = c
      BY <1>b, <1>1 DEF Connect, Answers
    <2>4. alive /\ gone' = gone /\ alive' = alive
      BY <1>1 DEF Connect
    <2>5. QED
      BY <2>1, <2>2, <2>3, <2>4 DEF Service!Arrive, Service!Waiting, Pending, InService, Answers
  <1>2. ASSUME NEW c \in Clients, Leave(c) PROVE Service!HangUp(c)
    <2>1. Pending' = Pending /\ Answers' = Answers
      BY <1>2 DEF Leave, Pending, InService, Answers
    <2>2. \E i \in DOMAIN Pending : Pending[i] = c
      BY <1>b, <1>2 DEF Leave
    <2>3. alive /\ gone' = gone \union {c} /\ alive' = alive
      BY <1>2 DEF Leave
    <2>4. QED
      BY <2>1, <2>2, <2>3 DEF Service!HangUp, Service!Waiting, Pending, InService, Answers
  <1>3. ASSUME Accept PROVE Same
    <2>1. Pending = backlog /\ backlog # <<>> /\ mpc' = "create" /\ wpc' = "none"
      BY <1>a, <1>3, ConsTail DEF Accept, Pending, InService
    <2>2. Pending' = <<Head(backlog)>> \o Tail(backlog)
      BY <1>3, <2>1 DEF Accept, Pending, InService
    <2>3. Head(backlog) \in Clients /\ <<Head(backlog)>> \o Tail(backlog) = backlog
      BY <1>a, <2>1, ConsTail
    <2>4. phase[Head(backlog)] = "queued"
      BY <1>0, <1>a, <2>1, TailDomain DEF Queue, BacklogInv
    <2>5. \A d \in Clients : phase'[d] = "closed" <=> phase[d] = "closed"
      BY <1>a, <1>3, <2>3, <2>4 DEF Accept
    <2>6. Answers' = Answers
      BY <1>3, <2>5 DEF Accept, Answers
    <2>7. QED
      BY <1>3, <2>1, <2>2, <2>3, <2>6 DEF Accept
  <1>4. CASE Close /\ ~Killed
    <2>1. sock \in Clients /\ sock = csock /\ mpc = "join" /\ wpc = "end" /\ wpc' = "exited"
      BY <1>a, <1>4 DEF Close
    <2>2. Pending = <<sock>> \o backlog /\ Pending' = <<>> \o backlog
      BY <1>4, <2>1 DEF Close, Pending, InService
    <2>3. Pending # <<>> /\ Head(Pending) = sock /\ Pending' = Tail(Pending)
      BY <1>a, <2>1, <2>2, ConsTail
    <2>4. reply[sock] \in {Owed[sock]} \union (IF sock \in gone THEN {"ok", "error"} ELSE {})
      BY <1>0, <2>1 DEF ProgressInv
    <2>5. \A d \in Clients : phase'[d] = IF d = sock THEN "closed" ELSE phase[d]
      BY <1>a, <1>4 DEF Close
    <2>6. Answers' = [Answers EXCEPT ![sock] = reply[sock]]
      BY <1>4, <2>1, <2>5 DEF Close, Answers
    <2>7. alive /\ gone' = gone /\ alive' = alive
      BY <1>4 DEF Close
    <2>8. \E a \in {Owed[Head(Pending)]} \union (IF Head(Pending) \in gone THEN {"ok", "error"} ELSE {}) :
             Answers' = [Answers EXCEPT ![Head(Pending)] = a]
      BY <2>3, <2>4, <2>6
    <2>9. Service!Answer
      BY <2>3, <2>7, <2>8 DEF Service!Answer, Pending, InService, Answers
    <2>10. QED
      BY <2>9 DEF Service!Next
  <1>5. ASSUME Killed, alive, wpc \notin {"none", "arg"} PROVE Service!Die
    BY <1>5 DEF Killed, Service!Die, Pending, InService, Answers
  <1>6. ASSUME UNCHANGED <<backlog, phase, gone, csock, alive>>,
               wpc # "exited", wpc' # "exited", mpc = "accept" <=> mpc' = "accept",
               \A c \in Clients : phase[c] = "closed" => reply'[c] = reply[c]
        PROVE  Same
    BY <1>6 DEF Pending, InService, Answers
  <1>7. ASSUME NEW c \in Clients, SendLine(c) PROVE Same
    BY <1>7 DEF SendLine, Pending, InService, Answers
  <1>8. ASSUME Create PROVE Same
    BY <1>a, <1>8, <1>6 DEF Create
  <1>9. ASSUME Join PROVE Same
    BY <1>9 DEF Join, Pending, InService, Answers
  <1>10. ASSUME ReadArg \/ SkipHeaders PROVE Same
    BY <1>6, <1>a, <1>10 DEF ReadArg, SkipHeaders
  <1>11. ASSUME ReadLine PROVE Same
    <2>1. sock \in Clients
      BY <1>a, <1>11 DEF ReadLine
    <2>2. line' \in Methods
      BY <1>11, <2>1, MethodAssumption DEF ReadLine
    <2>3. wpc' # "exited"
      BY <1>11, <2>2 DEF ReadLine, Branch, Methods
    <2>4. QED
      BY <1>6, <1>a, <1>11, <2>3 DEF ReadLine
  <1>i. wpc \notin {"none", "arg", "exited"} => phase[sock] = "service"
    BY <1>0, <1>a DEF Queue, OneInService
  <1>r. reply \in [Clients -> Replies]
    BY <1>0 DEF Core, TypeOK
  <1>12. ASSUME NEW kind \in {"ok", "error"}, SendShort(kind, kind), ~Killed PROVE Same
    <2>1. \A d \in Clients : phase[d] = "closed" => reply'[d] = reply[d]
      BY <1>a, <1>i, <1>r, <1>12 DEF SendShort
    <2>2. QED
      BY <1>6, <1>a, <1>12, <2>1 DEF SendShort
  <1>13. ASSUME SendHead /\ ~Killed PROVE Same
    <2>1. \A d \in Clients : phase[d] = "closed" => reply'[d] = reply[d]
      BY <1>a, <1>i, <1>r, <1>13 DEF SendHead
    <2>2. QED
      BY <1>6, <1>a, <1>13, <2>1 DEF SendHead
  <1>14. ASSUME SendBlock /\ ~Killed PROVE Same
    BY <1>6, <1>a, <1>14 DEF SendBlock
  <1>15. ASSUME UNCHANGED vars PROVE Same
    BY <1>15 DEF vars, Pending, InService, Answers
  <1>16. (SendOk \/ SendError \/ SendHead \/ SendBlock \/ Close) => alive /\ wpc \notin {"none", "arg"}
    BY DEF SendOk, SendError, SendShort, SendHead, SendBlock, Close
  <1>17. QED
    <2>1. CASE Browser
      BY <1>s, <1>1, <1>2, <1>7, <2>1 DEF Browser, Service!Next
    <2>2. CASE Main
      BY <1>s, <1>3, <1>8, <1>9, <2>2 DEF Main
    <2>3. CASE Worker /\ ~Killed
      BY <1>s, <1>4, <1>10, <1>11, <1>12, <1>13, <1>14, <2>3 DEF Worker, SendOk, SendError
    <2>4. CASE Worker /\ Killed
      <3>1. CASE ReadArg \/ ReadLine \/ SkipHeaders
        BY <1>s, <1>10, <1>11, <3>1
      <3>2. CASE SendOk \/ SendError \/ SendHead \/ SendBlock \/ Close
        BY <1>5, <1>16, <2>4, <3>2 DEF Service!Next
      <3>3. QED
        BY <2>4, <3>1, <3>2 DEF Worker
    <2>5. QED
      BY <1>s, <1>15, <2>1, <2>2, <2>3, <2>4 DEF Next

(* What the clients see of main, the thread, the descriptors and the       *)
(* kernel's queue is the serial service: first come first served, one      *)
(* answer each, and down only after somebody hung up.                      *)
THEOREM Refinement == Spec => ImplementsService
  <1>1. Init => Service!Init
    <2> SUFFICES ASSUME Init PROVE Service!Init
      OBVIOUS
    <2>1. Pending = <<>>
      BY DEF Init, Pending, InService
    <2>2. Answers = [c \in Clients |-> "none"]
      BY DEF Init, Answers
    <2>3. QED
      BY <2>1, <2>2 DEF Init, Service!Init, Pending, InService, Answers
  <1>2. QED
    BY <1>1, RefinementStep, InvariantHolds, PTL DEF Spec, Service!Spec, ImplementsService
=============================================================================
