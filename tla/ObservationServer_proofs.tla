----------------------- MODULE ObservationServer_proofs -----------------------
(***************************************************************************)
(* Proofs about ObservationServer for any number of browsers, any requests *)
(* and any number of descriptors: as long as no two threads copied the     *)
(* same csock, every connection has one owner, however often a descriptor  *)
(* number is closed and given again; and a thread that was alone in strtok *)
(* does with a request what the request itself says.                       *)
(***************************************************************************)
EXTENDS ObservationServer, FiniteSetTheorems, SequenceTheorems, WellFoundedInduction, TLAPS

(* The variables' types, in three parts.  The threads have seen nothing of *)
(* a client that is not connected or still queued.                         *)
SceneTypes ==
    /\ scene \in Scene /\ process \in {"running", "ended", "killed"} /\ is_run \in BOOLEAN
    /\ webPc \in {"test", "accept", "spawn", "returned"}
    /\ csock \in Fds \union {NoFd} /\ accepted \in 0..MaxAccepts
NetTypes ==
    /\ fdt \in [Fds -> Clients \union {Nobody}]
    /\ queued \subseteq Clients /\ gone \subseteq Clients
    /\ sent \in [Clients -> 0..3] /\ got \in [Clients -> 1..3]
    /\ answers \in [Clients -> SUBSET Threads]
    /\ \A c \in queued : sent[c] # 0
    /\ \A c \in Clients : sent[c] = 0 \/ c \in queued => got[c] = 1 /\ \A f \in Fds : fdt[f] # c
StrtokType == [by : Threads \union {Nobody}, of : {"line", "query"}, left : Nat]
ThreadTypes ==
    /\ th \in [Threads -> Thread]
    /\ strtok \in StrtokType
    /\ mixed \subseteq Threads
Types == SceneTypes /\ NetTypes /\ ThreadTypes

(* A thread starts after its accept, owns nothing before its copy, and     *)
(* answers last.                                                           *)
StartInv ==
    /\ accepted = 0 => csock = NoFd
    /\ webPc = "spawn" => accepted # 0 /\ th[accepted].pc = "none"
    /\ \A t \in Threads :
         /\ t > accepted => th[t].pc = "none"
         /\ th[t].took = 0 => /\ th[t].pc \in {"none", "arg", "lost"} /\ th[t].rfd = NoFd
                              /\ th[t].wfd = NoFd /\ th[t].asked = Nobody
         /\ th[t].took # 0 => th[t].pc \notin {"none", "arg", "lost"}
         /\ th[t].took <= accepted
         /\ th[t].pc \in {"open", "line"} => th[t].asked = Nobody
         /\ th[t].pc = "open" => th[t].wfd = NoFd
         /\ th[t].pc \notin {"close", "done"} => \A c \in Clients : t \notin answers[c]

(* The descriptors of the threads.                                         *)
Live(t) == th[t].took # 0 /\ th[t].pc # "done"
Mine(t) == {th[t].rfd, th[t].wfd} \ {NoFd}
Untaken(k) == \A t \in Threads : th[t].took # k
Fresh == csock # NoFd /\ Untaken(accepted)

(* They are open, for the one connection, whose first line is the thread's *)
(* to read.                                                                *)
Serving(t) ==
    /\ \A f \in Mine(t) : fdt[f] \in Clients
    /\ th[t].pc # "open" => th[t].rfd # NoFd
    /\ th[t].wfd # NoFd => fdt[th[t].wfd] = fdt[th[t].rfd] /\ th[t].wfd # th[t].rfd
    /\ th[t].asked # Nobody => th[t].asked = fdt[th[t].rfd]
    /\ th[t].asked = Nobody /\ th[t].pc \notin {"open", "line"} => fdt[th[t].rfd] \in gone
    /\ th[t].pc \in {"open", "line"} /\ th[t].rfd # NoFd => got[fdt[th[t].rfd]] = 1

(* And the connection is nobody else's.                                    *)
Ownership ==
    /\ \A t \in Threads : Live(t) => Serving(t)
    /\ \A t, u \in Threads : t # u /\ Live(t) /\ Live(u) =>
          \A f \in Mine(t), g \in Mine(u) : fdt[f] # fdt[g]
    /\ Fresh => /\ fdt[csock] \in Clients /\ got[fdt[csock]] = 1
                /\ \A t \in Threads : Live(t) => \A f \in Mine(t) : fdt[f] # fdt[csock]

(* Every open descriptor is some thread's, or nobody has copied it yet, or *)
(* one csock was overwritten before it was copied.                         *)
Accounted ==
    \A f \in Fds : fdt[f] \in Clients =>
        \/ \E t \in Threads : Live(t) /\ f \in Mine(t)
        \/ Fresh /\ f = csock
        \/ \E k \in 1..(accepted - 1) : Untaken(k)

Answered == \A c \in Clients : \A t \in answers[c] :
    /\ th[t].asked \in {c, Nobody}
    /\ th[t].asked = Nobody => c \in gone

OwnInv == OwnConnections => Ownership /\ Accounted /\ Answered

(* The options a thread has collected and processed, of those in its text. *)
Counting(t) == LET n == Len(th[t].path.options) IN
    /\ th[t].i >= 1
    /\ th[t].pc \notin {"name", "value"} => th[t].i = 1
    /\ th[t].pc = "next" => /\ th[t].count <= n /\ th[t].count >= 1
                            /\ strtok.by = t => th[t].count + strtok.left = n
    /\ th[t].pc \in {"name", "value"} => th[t].i <= th[t].count /\ th[t].count <= n

(* What a thread that was alone in strtok finds there, and has found.      *)
Querying == {"file", "rest", "opts", "next", "name", "value"}
Position(t) == th[t].pc \in Parsing => strtok.by = t
Understood(t, c) == LET r == Request[c] IN
    /\ th[t].from = c
    /\ th[t].pc = "path" => r.method = "GET" /\ strtok.of = "line" /\ strtok.left = 2
    /\ th[t].pc \in Querying => r.method = "GET" /\ th[t].path = r.path /\ r.path.query
    /\ th[t].pc = "rest" => strtok.left = r.path.parts - 1
    /\ th[t].pc \in {"opts", "next", "name", "value"} => r.path.parts = 2
    /\ th[t].pc \in {"name", "value"} =>
          /\ th[t].count = Len(r.path.options)
          /\ \A k \in 1..(th[t].i - 1) : r.path.options[k] = 2
    /\ th[t].pc = "value" => strtok.left = r.path.options[th[t].i] - 1
    /\ th[t].pc \in {"headers", "measure", "capture", "send"} =>
          th[t].path.file = r.path.file /\ ~Dropped(r) /\ ~Crashes(r)
    /\ th[t].pc \in {"ok", "error"} => ~Dropped(r)
    /\ th[t].pc \in {"close", "done"} /\ OwnConnections => (t \in answers[c]) = ~Dropped(r)
ParseOf(t) ==
    /\ Counting(t)
    /\ t \notin mixed =>
         Position(t) /\ (th[t].asked # Nobody => Understood(t, th[t].asked))
ParseInv == \A t \in Threads : ParseOf(t)

IInv == Types /\ StartInv /\ OwnInv /\ ParseInv

-----------------------------------------------------------------------------
(* The least of some natural numbers.                                      *)
LEMMA LeastNatural ==
  ASSUME NEW T, T \subseteq Nat, T # {}
  PROVE  \E x \in T : \A y \in T : x <= y
  <1> DEFINE R == OpToRel(<, Nat)
  <1>1. IsWellFoundedOn(R, Nat)
    BY NatLessThanWellFounded
  <1>2. PICK x \in T : \A y \in T : <<y, x>> \notin R
    <2> HIDE DEF R
    <2> QED BY <1>1, WFMin
  <1>3. ASSUME NEW y \in T PROVE x <= y
    <2>1. x \in Nat /\ y \in Nat
      OBVIOUS
    <2>2. ~(y < x)
      BY <1>2, <2>1 DEF OpToRel
    <2> QED BY <2>1, <2>2
  <1> QED BY <1>3

(* accept and dup return a number that was free.                           *)
LEMMA LowestIsFree ==
  ASSUME FreeFds # {}
  PROVE  LowestFree \in Fds /\ fdt[LowestFree] = Nobody /\ LowestFree # NoFd
  <1>1. FreeFds \subseteq Nat /\ NoFd \notin Nat
    BY MaxFdAssumption DEF FreeFds, Fds, NoFd
  <1>2. \E f \in FreeFds : \A g \in FreeFds : f <= g
    BY <1>1, LeastNatural
  <1>3. LowestFree \in FreeFds
    BY <1>2 DEF LowestFree
  <1> QED BY <1>1, <1>3 DEF FreeFds

LEMMA Numbers ==
  /\ MaxAccepts \in Nat /\ Threads \subseteq Nat \ {0} /\ Threads = 1..MaxAccepts
  /\ Fds \subseteq Nat /\ NoFd \notin Fds
  BY ClientsAssumption, MaxFdAssumption, FS_CardinalityType DEF MaxAccepts, Threads, Fds, NoFd

(* What a thread's step leaves of the others, and of its own locals.       *)
LEMMA Changing ==
  ASSUME ThreadTypes, NEW t \in Threads, NEW r \in Thread, th' = [th EXCEPT ![t] = r]
  PROVE  th' \in [Threads -> Thread] /\ th'[t] = r /\ \A u \in Threads \ {t} : th'[u] = th[u]
  BY DEF ThreadTypes

LEMMA Going ==
  ASSUME ThreadTypes, NEW t \in Threads, NEW q \in ThreadPCs, Goto(t, q)
  PROVE  /\ th' \in [Threads -> Thread] /\ \A u \in Threads \ {t} : th'[u] = th[u]
         /\ th'[t].pc = q /\ th'[t].rfd = th[t].rfd /\ th'[t].wfd = th[t].wfd
         /\ th'[t].took = th[t].took /\ th'[t].asked = th[t].asked /\ th'[t].from = th[t].from
         /\ th'[t].path = th[t].path /\ th'[t].count = th[t].count /\ th'[t].i = th[t].i
         /\ th'[t].whole = th[t].whole
  <1>1. th \in [Threads -> Thread] /\ th' = [th EXCEPT ![t] = [th[t] EXCEPT !.pc = q]]
    BY DEF ThreadTypes, Goto
  <1>2. [th[t] EXCEPT !.pc = q] \in Thread
    BY <1>1 DEF Thread
  <1>3. /\ th'[t] = [th[t] EXCEPT !.pc = q] /\ th' \in [Threads -> Thread]
        /\ \A u \in Threads \ {t} : th'[u] = th[u]
    BY <1>1, <1>2, Changing
  <1>4. th[t] \in Thread
    BY <1>1
  <1> QED BY <1>3, <1>4 DEF Thread

LEMMA NoQueryIsAPath == \A file \in {"PAGE", "BMP"} : NoQuery(file) \in Path /\ NoQuery(file).file = file
  <1> DEFINE e == <<>>
  <1>1. e \in Seq(0..2)
    BY EmptySeq
  <1>2. \A file \in {"PAGE", "BMP"} :
           NoQuery(file) = [file |-> file, query |-> FALSE, parts |-> 1, options |-> e]
    BY DEF NoQuery
  <1> HIDE DEF e
  <1> SUFFICES ASSUME NEW file \in {"PAGE", "BMP"} PROVE NoQuery(file) \in Path /\ NoQuery(file).file = file
    OBVIOUS
  <1>3. NoQuery(file) = [file |-> file, query |-> FALSE, parts |-> 1, options |-> e]
    BY <1>2
  <1> QED BY <1>1, <1>3 DEF Path

(* Leaving the query's block keeps the file and forgets the options.       *)
LEMMA GoingToHeaders ==
  ASSUME ThreadTypes, NEW t \in Threads, GotoHeaders(t)
  PROVE  /\ th' \in [Threads -> Thread] /\ \A u \in Threads \ {t} : th'[u] = th[u]
         /\ th'[t].pc = "headers" /\ th'[t].rfd = th[t].rfd /\ th'[t].wfd = th[t].wfd
         /\ th'[t].took = th[t].took /\ th'[t].asked = th[t].asked /\ th'[t].from = th[t].from
         /\ th'[t].path.file = th[t].path.file /\ th'[t].i = 1
  <1> DEFINE p == NoQuery(th[t].path.file)
             r == [[[[th[t] EXCEPT !.path = p] EXCEPT !.count = 0] EXCEPT !.i = 1] EXCEPT !.pc = "headers"]
  <1>1. th[t] \in Thread /\ th[t].path.file \in {"PAGE", "BMP"}
    BY DEF ThreadTypes, Thread, Path
  <1>2. p \in Path /\ p.file = th[t].path.file
    BY <1>1, NoQueryIsAPath
  <1>3. th' = [th EXCEPT ![t] = r]
    BY <1>1 DEF GotoHeaders, Thread, ThreadTypes
  <1> HIDE DEF p
  <1>4. /\ r \in Thread /\ r.pc = "headers" /\ r.rfd = th[t].rfd /\ r.wfd = th[t].wfd
        /\ r.took = th[t].took /\ r.asked = th[t].asked /\ r.from = th[t].from
        /\ r.path = p /\ r.i = 1
    BY <1>1, <1>2 DEF Thread, ThreadPCs
  <1> HIDE DEF r
  <1> QED BY <1>2, <1>3, <1>4, Changing

(* Connections that differ did so before.                                  *)
LEMMA OwnBefore ==
  ASSUME \A u \in Threads : th[u].took # 0 => th'[u].took = th[u].took
  PROVE  OwnConnections' => OwnConnections
  BY DEF OwnConnections

(* What a strtok call of thread t does to the others.                      *)
Cuts(t) ==
    /\ strtok' \in StrtokType /\ strtok'.by \in {t, Nobody}
    /\ mixed' = mixed \union {u \in Threads \ {t} : th[u].pc \in Parsing}

LEMMA StrtokCuts ==
  ASSUME ThreadTypes, NEW t \in Threads, NEW of \in {"line", "query"}, NEW left \in Nat,
         Strtok(t, of, left)
  PROVE  /\ Cuts(t) /\ mixed' \subseteq Threads /\ (t \in mixed' => t \in mixed)
         /\ strtok'.by = t /\ strtok'.of = of /\ strtok'.left = left
  BY DEF ThreadTypes, StrtokType, Strtok, Cuts

LEMMA NextCuts ==
  ASSUME ThreadTypes, NEW t \in Threads, StrtokNext(t)
  PROVE  /\ Cuts(t) /\ mixed' \subseteq Threads /\ (t \in mixed' => t \in mixed)
         /\ strtok'.by = t => strtok.by = t
         /\ strtok.by = t => /\ strtok'.by = t /\ strtok'.of = strtok.of
                             /\ strtok.left > 0 => strtok'.left = strtok.left - 1
  <1>2. mixed' \subseteq Threads /\ (t \in mixed' => t \in mixed)
    BY DEF ThreadTypes, StrtokNext
  <1>3. CASE strtok.by = t
    <2>1. strtok' = [strtok EXCEPT !.left = IF strtok.left = 0 THEN 0 ELSE strtok.left - 1]
      BY <1>3 DEF StrtokNext
    <2>2. strtok \in StrtokType /\ (IF strtok.left = 0 THEN 0 ELSE strtok.left - 1) \in Nat
      BY DEF ThreadTypes, StrtokType
    <2>3. /\ strtok' \in StrtokType /\ strtok'.by = t /\ strtok'.of = strtok.of
          /\ strtok.left > 0 => strtok'.left = strtok.left - 1
      BY <1>3, <2>1, <2>2 DEF StrtokType
    <2> QED BY <1>2, <1>3, <2>3 DEF Cuts, StrtokNext
  <1>4. CASE strtok.by # t
    <2> DEFINE S == IF strtok.left = 0 \/ strtok.by = Nobody THEN {0} ELSE {0, 1}
    <2>1. PICK n \in S : strtok' = [[strtok EXCEPT !.by = Nobody] EXCEPT !.left = n]
      BY <1>4 DEF StrtokNext, ThreadTypes, StrtokType
    <2>2. n \in Nat
      OBVIOUS
    <2> HIDE DEF S
    <2>3. strtok' \in StrtokType /\ strtok'.by = Nobody
      BY <2>1, <2>2 DEF ThreadTypes, StrtokType
    <2> QED BY <1>2, <1>4, <2>3, NobodyAssumption DEF Cuts, StrtokNext
  <1> QED BY <1>3, <1>4

(* A step leaves the parsing of the other threads right, or mixed.         *)
LEMMA OthersParse ==
  ASSUME ParseInv, ThreadTypes, NEW t \in Threads, \A u \in Threads \ {t} : th'[u] = th[u],
         \A u \in Threads \ {t} : \A c \in Clients : (u \in answers'[c]) = (u \in answers[c]),
         OwnConnections' => OwnConnections,
         UNCHANGED <<strtok, mixed>> \/ Cuts(t)
  PROVE  \A u \in Threads \ {t} : ParseOf(u)'
  <1> SUFFICES ASSUME NEW u \in Threads \ {t} PROVE ParseOf(u)'
    OBVIOUS
  <1>1. th'[u] = th[u] /\ ParseOf(u) /\ th[u].asked \in Clients \cup {Nobody}
    BY DEF ParseInv, ThreadTypes, Thread
  <1>2. mixed \subseteq mixed'
    BY DEF Cuts
  <1>3. u \notin mixed' => u \notin mixed /\ (th[u].pc \in Parsing => strtok' = strtok)
    BY <1>2 DEF Cuts
  <1>4. u \notin mixed' => Position(u)'
    BY <1>1, <1>3 DEF ParseOf, Position
  <1>5. u \notin mixed' /\ th[u].asked # Nobody => Understood(u, th[u].asked)'
    <2> SUFFICES ASSUME u \notin mixed', th[u].asked # Nobody PROVE Understood(u, th[u].asked)'
      OBVIOUS
    <2>1. Understood(u, th[u].asked) /\ th[u].asked \in Clients
      BY <1>1, <1>3 DEF ParseOf
    <2>2. (u \in answers'[th[u].asked]) = (u \in answers[th[u].asked])
      BY <2>1
    <2>3. th[u].pc \in {"path", "rest", "value"} => strtok' = strtok
      BY <1>3 DEF Parsing
    <2> QED BY <1>1, <2>1, <2>2, <2>3 DEF Understood
  <1>6. Counting(u)'
    <2>1. strtok'.by = u => strtok' = strtok
      <3>1. u # Nobody
        BY NobodyAssumption
      <3> QED BY <3>1 DEF Cuts
    <2>2. Counting(u)
      BY <1>1 DEF ParseOf
    <2> QED BY <1>1, <2>1, <2>2 DEF Counting
  <1> QED BY <1>1, <1>4, <1>5, <1>6 DEF ParseOf

(* A step that changes neither threads nor descriptors.                    *)
LEMMA QuietKeeps ==
  ASSUME IInv, SceneTypes', NetTypes', StartInv',
         UNCHANGED <<csock, accepted, fdt, got, th, strtok, mixed, answers>>, gone \subseteq gone'
  PROVE  IInv'
  <1> USE DEF IInv, Types
  <1>1. ThreadTypes'
    BY DEF ThreadTypes
  <1>2. OwnConnections' = OwnConnections
    BY DEF OwnConnections
  <1>3. Ownership => Ownership'
    BY DEF Ownership, Serving, Live, Mine, Fresh, Untaken
  <1>4. Accounted => Accounted'
    BY DEF Accounted, Live, Mine, Fresh, Untaken
  <1>5. Answered => Answered'
    BY DEF Answered
  <1>6. OwnInv'
    BY <1>2, <1>3, <1>4, <1>5 DEF OwnInv
  <1>7. ParseInv'
    <2> SUFFICES ASSUME NEW t \in Threads PROVE ParseOf(t)'
      BY DEF ParseInv
    <2>1. ParseOf(t) /\ th' = th /\ strtok' = strtok /\ mixed' = mixed
      BY DEF ParseInv
    <2>2. Counting(t)' /\ (t \notin mixed => Position(t)')
      BY <2>1 DEF ParseOf, Counting, Position
    <2>3. t \notin mixed /\ th[t].asked # Nobody => Understood(t, th[t].asked)'
      BY <1>2, <2>1 DEF ParseOf, Understood
    <2> QED BY <2>1, <2>2, <2>3 DEF ParseOf
  <1> QED BY <1>1, <1>6, <1>7

(* The steps outside clnt_connection.                                      *)
LEMMA ConnectKeeps ==
  ASSUME IInv, NEW c \in Clients, Connect(c)
  PROVE  IInv'
  <1>1. SceneTypes' /\ StartInv'
    BY DEF IInv, Types, SceneTypes, StartInv, Connect, main, web
  <1>2. NetTypes'
    <2>1. sent' \in [Clients -> 0..3] /\ queued' \subseteq Clients
      BY DEF IInv, Types, NetTypes, Connect
    <2>2. \A d \in Clients : sent'[d] = 0 \/ d \in queued' => sent[d] = 0 \/ d \in queued
      BY DEF IInv, Types, NetTypes, Connect
    <2> QED BY <2>1, <2>2 DEF IInv, Types, NetTypes, Connect
  <1> QED BY <1>1, <1>2, QuietKeeps DEF Connect, main, web

LEMMA SendKeeps ==
  ASSUME IInv, NEW c \in Clients, Send(c)
  PROVE  IInv'
  <1>1. SceneTypes' /\ StartInv'
    BY DEF IInv, Types, SceneTypes, StartInv, Send, main, web
  <1>2. NetTypes'
    <2>1. sent' \in [Clients -> 0..3]
      BY DEF IInv, Types, NetTypes, Send
    <2>2. \A d \in Clients : sent'[d] = 0 => sent[d] = 0
      BY DEF IInv, Types, NetTypes, Send
    <2> QED BY <2>1, <2>2 DEF IInv, Types, NetTypes, Send
  <1> QED BY <1>1, <1>2, QuietKeeps DEF Send, main, web

LEMMA LeaveKeeps ==
  ASSUME IInv, NEW c \in Clients, Leave(c)
  PROVE  IInv'
  <1>1. SceneTypes' /\ NetTypes' /\ StartInv'
    BY DEF IInv, Types, SceneTypes, NetTypes, StartInv, Leave, main, web
  <1> QED BY <1>1, QuietKeeps DEF Leave, main, web

LEMMA JoystickKeeps ==
  ASSUME IInv, JoystickEnter
  PROVE  IInv'
  <1>1. SceneTypes' /\ NetTypes' /\ StartInv'
    BY DEF IInv, Types, SceneTypes, NetTypes, StartInv, JoystickEnter, web, net
  <1> QED BY <1>1, QuietKeeps DEF JoystickEnter, web, net

LEMMA WebTestKeeps ==
  ASSUME IInv, WebTest
  PROVE  IInv'
  <1>1. SceneTypes' /\ NetTypes' /\ StartInv'
    BY DEF IInv, Types, SceneTypes, NetTypes, StartInv, WebTest, main, net
  <1> QED BY <1>1, QuietKeeps DEF WebTest, main, net

-----------------------------------------------------------------------------
(* Before any accept there is nothing to own and nothing to parse.         *)
LEMMA BlankThreads ==
  /\ NoThreads \in [Threads -> Thread] /\ NoText \in StrtokType
  /\ \A t \in Threads : /\ NoThreads[t].pc = "none" /\ NoThreads[t].took = 0 /\ NoThreads[t].i = 1
                        /\ NoThreads[t].rfd = NoFd /\ NoThreads[t].wfd = NoFd
                        /\ NoThreads[t].asked = Nobody
  <1> DEFINE r == [pc |-> "none", rfd |-> NoFd, wfd |-> NoFd, path |-> Plain, count |-> 0, i |-> 1,
                   whole |-> FALSE, took |-> 0, asked |-> Nobody, from |-> Nobody]
  <1>1. Plain \in Path
    BY NoQueryIsAPath DEF Plain
  <1>2. r \in Thread
    <2> HIDE DEF Plain
    <2> QED BY <1>1, Numbers DEF Thread, ThreadPCs
  <1>3. \A t \in Threads : NoThreads[t] = r
    BY DEF NoThreads
  <1>4. NoThreads \in [Threads -> Thread]
    <2>1. NoThreads = [t \in Threads |-> r]
      BY DEF NoThreads
    <2> HIDE DEF r
    <2> QED BY <1>2, <2>1
  <1>5. NoText \in StrtokType
    BY DEF NoText, StrtokType
  <1> QED BY <1>3, <1>4, <1>5

(* The invariant holds initially.                                          *)
LEMMA InitIInv == Init => IInv
  <1> SUFFICES ASSUME Init PROVE IInv
    OBVIOUS
  <1>1. SceneTypes
    BY ScenesAssumption, Numbers DEF Init, SceneTypes
  <1>2. NetTypes
    BY ClientsAssumption DEF Init, NetTypes, NoFds, NoAnswers
  <1>3. \A t \in Threads : /\ th[t].pc = "none" /\ th[t].took = 0 /\ th[t].rfd = NoFd
                           /\ th[t].wfd = NoFd /\ th[t].asked = Nobody /\ th[t].i = 1
    BY BlankThreads DEF Init
  <1>4. ThreadTypes
    BY BlankThreads DEF Init, ThreadTypes
  <1>5. StartInv
    BY <1>3, Numbers DEF Init, StartInv, NoAnswers
  <1>6. OwnInv
    BY <1>3, ClientsAssumption
       DEF Init, OwnInv, Ownership, Accounted, Answered, Live, Fresh, NoFds, NoAnswers
  <1>7. ParseInv
    BY <1>3 DEF Init, ParseInv, ParseOf, Position, Counting, Parsing
  <1> QED BY <1>1, <1>2, <1>4, <1>5, <1>6, <1>7 DEF IInv, Types

(* And when the process has died.                                          *)
LEMMA DiesKeeps ==
  ASSUME IInv, NEW how \in {"ended", "killed"}, Dies(how)
  PROVE  IInv'
  <1>1. SceneTypes'
    BY Numbers DEF IInv, Types, SceneTypes, Dies
  <1>2. NetTypes'
    BY ClientsAssumption DEF IInv, Types, NetTypes, Dies, NoFds, NoAnswers
  <1>3. \A t \in Threads : /\ th'[t].pc = "none" /\ th'[t].took = 0 /\ th'[t].rfd = NoFd
                           /\ th'[t].wfd = NoFd /\ th'[t].asked = Nobody /\ th'[t].i = 1
    BY BlankThreads DEF Dies
  <1>4. ThreadTypes'
    BY BlankThreads DEF Dies, ThreadTypes
  <1>5. StartInv'
    BY <1>3, Numbers DEF Dies, StartInv, NoAnswers
  <1>6. OwnInv'
    BY <1>3, ClientsAssumption
       DEF Dies, OwnInv, Ownership, Accounted, Answered, Live, Fresh, NoFds, NoAnswers
  <1>7. ParseInv'
    BY <1>3 DEF Dies, ParseInv, ParseOf, Position, Counting, Parsing
  <1> QED BY <1>1, <1>2, <1>4, <1>5, <1>6, <1>7 DEF IInv, Types

Standing == {"none", "arg", "lost", "open", "line", "done"}

(* A thread that has its descriptors goes on without touching them; it may *)
(* read from the connection it owns.                                       *)
LEMMA MoveKeeps ==
  ASSUME IInv, NEW t \in Threads, th[t].pc \notin Standing \union {"close"},
         th[t].took # 0, ThreadTypes', NetTypes', \A u \in Threads \ {t} : th'[u] = th[u],
         th'[t].pc \notin Standing,
         th'[t].rfd = th[t].rfd, th'[t].wfd = th[t].wfd,
         th'[t].took = th[t].took, th'[t].asked = th[t].asked,
         \A d \in Clients : got'[d] # got[d] => th[t].rfd \in Fds /\ fdt[th[t].rfd] = d,
         \A u \in Threads \ {t} : \A d \in Clients : (u \in answers'[d]) = (u \in answers[d]),
         th'[t].pc # "close" => answers' = answers,
         UNCHANGED <<csock, accepted, webPc, fdt, gone>>
  PROVE  /\ StartInv' /\ OwnConnections' = OwnConnections
         /\ Ownership => Ownership'
         /\ Accounted => Accounted'
  <1> USE DEF IInv, Types
  <1>1. \A u \in Threads : /\ th'[u].took = th[u].took /\ th'[u].asked = th[u].asked
                           /\ th'[u].rfd = th[u].rfd /\ th'[u].wfd = th[u].wfd
                           /\ (th'[u].pc = "done") = (th[u].pc = "done")
                           /\ (th'[u].pc = "open") = (th[u].pc = "open")
                           /\ (th'[u].pc = "none") = (th[u].pc = "none")
                           /\ (th'[u].pc = "lost") = (th[u].pc = "lost")
                           /\ (th'[u].pc = "arg") = (th[u].pc = "arg")
                           /\ (th'[u].pc \in {"open", "line"}) = (th[u].pc \in {"open", "line"})
    BY DEF Standing
  <1>2. StartInv'
    <2>1. webPc = "spawn" => accepted # 0 /\ th'[accepted].pc = "none"
      <3> SUFFICES ASSUME webPc = "spawn" PROVE accepted # 0 /\ th'[accepted].pc = "none"
        OBVIOUS
      <3>1. accepted # 0 /\ th[accepted].pc = "none"
        BY DEF StartInv
      <3>2. accepted \in Threads
        BY <3>1, Numbers DEF SceneTypes
      <3> QED BY <3>1, <3>2 DEF Standing
    <2>2. \A u \in Threads : th'[u].pc \notin {"close", "done"} => \A d \in Clients : u \notin answers'[d]
      <3> SUFFICES ASSUME NEW u \in Threads, th'[u].pc \notin {"close", "done"}, NEW d \in Clients
                   PROVE  u \notin answers'[d]
        OBVIOUS
      <3>1. CASE u = t
        BY <3>1 DEF StartInv, Standing
      <3>2. CASE u # t
        BY <3>2 DEF StartInv
      <3> QED BY <3>1, <3>2
    <2> QED BY <2>1, <2>2, <1>1 DEF StartInv
  <1>3. OwnConnections' = OwnConnections
    BY <1>1 DEF OwnConnections
  <1>4. \A u \in Threads : Live(u)' = Live(u) /\ Mine(u)' = Mine(u)
    BY <1>1 DEF Live, Mine
  <1>5. \A k : Untaken(k)' = Untaken(k)
    BY <1>1 DEF Untaken
  <1>6. Fresh' = Fresh
    BY <1>5 DEF Fresh, Untaken
  <1>7. Ownership => Ownership'
    <2> SUFFICES ASSUME Ownership PROVE Ownership'
      OBVIOUS
    <2>1. Live(t)
      BY DEF Live, Standing
    <2>2. ASSUME NEW u \in Threads, Live(u) PROVE Serving(u)'
      <3>1. Serving(u)
        BY <2>2 DEF Ownership
      <3>2. th[u].pc \in {"open", "line"} /\ th[u].rfd # NoFd => got'[fdt[th[u].rfd]] = 1
        <4> SUFFICES ASSUME th[u].pc \in {"open", "line"}, th[u].rfd # NoFd
                     PROVE  got'[fdt[th[u].rfd]] = 1
          OBVIOUS
        <4>1. u # t /\ th[u].rfd \in Mine(u)
          BY DEF Standing, Mine
        <4>2. got[fdt[th[u].rfd]] = 1 /\ fdt[th[u].rfd] \in Clients
          BY <3>1, <4>1 DEF Serving
        <4>3. th[t].rfd \in Fds => th[t].rfd \in Mine(t)
          BY Numbers DEF Mine
        <4>4. th[t].rfd \in Fds => fdt[th[t].rfd] # fdt[th[u].rfd]
          BY <2>1, <2>2, <4>1, <4>3 DEF Ownership
        <4> QED BY <4>2, <4>4
      <3> QED BY <1>1, <1>4, <3>1, <3>2 DEF Serving
    <2>3. Fresh => got'[fdt[csock]] = 1
      <3> SUFFICES ASSUME Fresh PROVE got'[fdt[csock]] = 1
        OBVIOUS
      <3>1. got[fdt[csock]] = 1 /\ fdt[csock] \in Clients
        BY DEF Ownership
      <3>2. th[t].rfd \in Fds => fdt[th[t].rfd] # fdt[csock]
        BY <2>1, Numbers DEF Ownership, Mine
      <3> QED BY <3>1, <3>2
    <2> QED BY <1>4, <1>6, <2>2, <2>3 DEF Ownership
  <1>8. Accounted => Accounted'
    BY <1>4, <1>5, <1>6 DEF Accounted
  <1> QED BY <1>2, <1>3, <1>7, <1>8

(* Such a step preserves the invariant if the thread parsed well.          *)
LEMMA MoveIInv ==
  ASSUME IInv, NEW t \in Threads, th[t].pc \notin Standing \union {"close"},
         th[t].took # 0, th' \in [Threads -> Thread], \A u \in Threads \ {t} : th'[u] = th[u],
         th'[t].pc \notin Standing,
         th'[t].rfd = th[t].rfd, th'[t].wfd = th[t].wfd,
         th'[t].took = th[t].took, th'[t].asked = th[t].asked,
         UNCHANGED <<main, web, fdt, net, answers>>,
         UNCHANGED <<strtok, mixed>> \/ (Cuts(t) /\ mixed' \subseteq Threads),
         ParseOf(t)'
  PROVE  IInv'
  <1>1. UNCHANGED <<csock, accepted, webPc, fdt, gone, queued, got, sent>>
    BY DEF web, net
  <1>2. ThreadTypes' /\ SceneTypes' /\ NetTypes'
    BY <1>1 DEF IInv, Types, ThreadTypes, SceneTypes, NetTypes, main, Cuts
  <1>3. /\ StartInv' /\ OwnConnections' = OwnConnections
        /\ Ownership => Ownership'
        /\ Accounted => Accounted'
    BY <1>1, <1>2, MoveKeeps
  <1>4. Answered => Answered'
    <2>1. \A u \in Threads : th'[u].asked = th[u].asked
      OBVIOUS
    <2> QED BY <1>1, <2>1 DEF Answered, IInv, Types, NetTypes
  <1>5. OwnInv'
    BY <1>3, <1>4 DEF IInv, OwnInv
  <1>6. \A u \in Threads \ {t} : ParseOf(u)'
    <2>1. ParseInv /\ ThreadTypes /\ (OwnConnections' => OwnConnections)
      BY <1>3 DEF IInv, Types
    <2> QED BY <2>1, OthersParse
  <1>7. ParseInv'
    BY <1>6 DEF ParseInv
  <1> QED BY <1>2, <1>3, <1>5, <1>7 DEF IInv, Types

(* A parsing thread has its descriptors.                                   *)
LEMMA Started ==
  ASSUME IInv, NEW t \in Threads, th[t].pc \notin {"none", "arg", "lost"}
  PROVE  th[t].took # 0
  BY DEF IInv, StartInv

(* A thread's step that only changes its control point, and strtok.        *)
LEMMA GotoKeeps ==
  ASSUME IInv, NEW t \in Threads, th[t].pc \notin Standing \union {"close"}, th[t].took # 0,
         NEW q \in ThreadPCs \ Standing, Goto(t, q), UNCHANGED <<main, web, fdt, net, answers>>,
         UNCHANGED <<strtok, mixed>> \/ (Cuts(t) /\ mixed' \subseteq Threads),
         ParseOf(t)'
  PROVE  IInv'
  <1>1. /\ th' \in [Threads -> Thread] /\ \A u \in Threads \ {t} : th'[u] = th[u]
        /\ th'[t].pc = q /\ th'[t].rfd = th[t].rfd /\ th'[t].wfd = th[t].wfd
        /\ th'[t].took = th[t].took /\ th'[t].asked = th[t].asked
    BY Going DEF IInv, Types
  <1> QED BY <1>1, MoveIInv

LEMMA RequestType ==
  ASSUME NEW c \in Clients
  PROVE  /\ Request[c].method \in {"POST", "GET", "BAD"} /\ Request[c].path \in Path
         /\ Len(Request[c].path.options) \in Nat
         /\ \A k \in 1..Len(Request[c].path.options) : Request[c].path.options[k] \in 0..2
  <1>1. Request[c] \in [method : {"POST", "GET", "BAD"}, path : Path]
    BY RequestAssumption
  <1>2. Request[c].path \in Path /\ Request[c].path.options \in Seq(0..2)
    BY <1>1 DEF Path
  <1> QED BY <1>1, <1>2

LEMMA ThreadType ==
  ASSUME ThreadTypes, NEW t \in Threads
  PROVE  /\ th[t] \in Thread /\ th[t].path \in Path /\ th[t].path.options \in Seq(0..2)
         /\ th[t].path.parts \in 0..2 /\ th[t].count \in Nat /\ th[t].i \in Nat
         /\ Len(th[t].path.options) \in Nat
         /\ \A k \in 1..Len(th[t].path.options) : th[t].path.options[k] \in 0..2
         /\ th[t].asked \in Clients \union {Nobody} /\ strtok.left \in Nat
  <1>1. th[t] \in Thread
    BY DEF ThreadTypes
  <1>2. th[t].path \in Path
    BY <1>1 DEF Thread
  <1>3. th[t].path.options \in Seq(0..2) /\ th[t].path.parts \in 0..2
    BY <1>2 DEF Path
  <1>4. th[t].asked \in Clients \union {Nobody} /\ th[t].count \in Nat /\ th[t].i \in Nat
    BY <1>1 DEF Thread
  <1>5. strtok.left \in Nat
    BY DEF ThreadTypes, StrtokType
  <1> QED BY <1>1, <1>2, <1>3, <1>4, <1>5

(* What the invariant says of a thread that is parsing alone.              *)
LEMMA Alone ==
  ASSUME IInv, NEW t \in Threads
  PROVE  /\ Counting(t)
         /\ t \notin mixed => (th[t].pc \in Parsing => strtok.by = t)
         /\ t \notin mixed /\ th[t].asked # Nobody => Understood(t, th[t].asked)
  BY DEF IInv, ParseInv, ParseOf, Position

(* A step of a thread leaves its own parsing right.                        *)
LEMMA ParsedWell ==
  ASSUME NEW t \in Threads, th'[t].asked \in Clients \union {Nobody}, Counting(t)',
         t \notin mixed' => Position(t)',
         \A c \in Clients : t \notin mixed' /\ th'[t].asked = c => Understood(t, c)'
  PROVE  ParseOf(t)'
  BY DEF ParseOf

(* Parsing: a thread that was alone reads its own line.                    *)
LEMMA NamedPaths ==
  ASSUME ThreadTypes, SceneTypes
  PROVE  Named \subseteq Path /\ LineOf \in Clients \union {Nobody}
  <1>1. LineOf \in Clients \union {Nobody}
    <2>1. AtPath => strtok.by \in Threads
      BY DEF AtPath, ThreadTypes, StrtokType
    <2> QED BY <2>1, ThreadType DEF LineOf
  <1>2. Plain \in Path
    BY NoQueryIsAPath DEF Plain
  <1>3. scene.callers \subseteq Clients
    BY DEF SceneTypes, Scene
  <1>4. \A c \in Clients : Request[c].path \in Path
    BY RequestType
  <1>5. AtPath \/ ~AtPath
    OBVIOUS
  <1> HIDE DEF Plain
  <1> QED BY <1>1, <1>2, <1>3, <1>4, <1>5 DEF Named

LEMMA ParsePathKeeps ==
  ASSUME IInv, NEW t \in Threads, ParsePath(t)
  PROVE  IInv'
  <1> USE DEF IInv, Types
  <1>1. th[t].pc = "path" /\ th[t].took # 0
    BY Started DEF ParsePath, At
  <1>2. PICK p \in Named :
          th' = [th EXCEPT ![t].path = p, ![t].from = LineOf,
                           ![t].pc = IF p.query THEN "file" ELSE "headers"]
    BY DEF ParsePath
  <1>3. p \in Path /\ LineOf \in Clients \union {Nobody}
    BY NamedPaths
  <1> DEFINE q == IF p.query THEN "file" ELSE "headers"
             l == LineOf
  <1>4. q \in {"file", "headers"} /\ q \in ThreadPCs
    BY DEF ThreadPCs
  <1>5. /\ th' \in [Threads -> Thread] /\ \A u \in Threads \ {t} : th'[u] = th[u]
        /\ th'[t].pc = q /\ th'[t].path = p /\ th'[t].from = l /\ th'[t].i = th[t].i
        /\ th'[t].rfd = th[t].rfd /\ th'[t].wfd = th[t].wfd
        /\ th'[t].took = th[t].took /\ th'[t].asked = th[t].asked
    <2> DEFINE r == [[[th[t] EXCEPT !.path = p] EXCEPT !.from = l] EXCEPT !.pc = q]
    <2>1. th' = [th EXCEPT ![t] = r]
      BY <1>2 DEF ThreadTypes, Thread
    <2>2. l \in Clients \union {Nobody}
      BY <1>3
    <2> HIDE DEF q, l
    <2>3. r \in Thread /\ r.pc = q /\ r.path = p /\ r.from = l /\ r.i = th[t].i /\ r.rfd = th[t].rfd
          /\ r.wfd = th[t].wfd /\ r.took = th[t].took /\ r.asked = th[t].asked
      BY <1>3, <1>4, <2>2, ThreadType DEF Thread
    <2> HIDE DEF r
    <2> QED BY <2>1, <2>3, Changing
  <1>6. Cuts(t) /\ mixed' \subseteq Threads /\ (t \in mixed' => t \in mixed)
        /\ (t \notin mixed' => t \notin mixed)
    BY NextCuts DEF ParsePath, StrtokNext
  <1>7. ParseOf(t)'
    <2>1. Counting(t)'
      BY <1>1, <1>4, <1>5, Alone DEF Counting
    <2>2. Position(t)'
      BY <1>4, <1>5 DEF Position, Parsing
    <2>3. ASSUME NEW c \in Clients, t \notin mixed', th'[t].asked = c PROVE Understood(t, c)'
      <3>1. th[t].asked = c /\ c # Nobody
        BY <1>5, <2>3, ClientsAssumption
      <3>2. Understood(t, c) /\ strtok.by = t
        BY <1>1, <1>6, <2>3, <3>1, Alone DEF Parsing
      <3>3. AtPath /\ LineOf = c /\ Request[c].method = "GET"
        BY <1>1, <3>1, <3>2, NobodyAssumption DEF Understood, AtPath, LineOf
      <3>4. p = Request[c].path
        BY <3>1, <3>3 DEF Named
      <3>5. th'[t].from = c
        BY <1>5, <3>3
      <3>6. p.query => th'[t].pc = "file"
        BY <1>5
      <3>7. ~p.query => th'[t].pc = "headers" /\ ~Dropped(Request[c]) /\ ~Crashes(Request[c])
        BY <1>5, <3>4 DEF Dropped, Crashes
      <3> HIDE DEF q
      <3> QED BY <1>4, <1>5, <3>3, <3>4, <3>5, <3>6, <3>7 DEF Understood, Querying
    <2> QED BY <1>5, <2>1, <2>2, <2>3, ParsedWell, ThreadType
  <1>8. UNCHANGED <<main, web, fdt, net, answers>>
    BY DEF ParsePath
  <1> HIDE DEF q, l
  <1> QED BY <1>1, <1>4, <1>5, <1>6, <1>7, <1>8, MoveIInv DEF Standing

LEMMA QueryFileKeeps ==
  ASSUME IInv, NEW t \in Threads, QueryFile(t)
  PROVE  IInv'
  <1> USE DEF IInv, Types
  <1> DEFINE parts == th[t].path.parts
             q == IF parts = 0 THEN "close" ELSE "rest"
             left == IF parts = 0 THEN 0 ELSE parts - 1
  <1>1. th[t].pc = "file" /\ th[t].took # 0
    BY Started DEF QueryFile, At
  <1>2. parts \in 0..2
    BY ThreadType
  <1>3. q \in {"close", "rest"} /\ q \in ThreadPCs \ Standing /\ left \in Nat
        /\ (q = "close" => parts = 0) /\ (q = "rest" => left = parts - 1)
    BY <1>2 DEF ThreadPCs, Parsing, Standing
  <1>4. Goto(t, q) /\ Strtok(t, "query", left) /\ UNCHANGED <<main, web, fdt, net, answers>>
    BY DEF QueryFile
  <1> HIDE DEF q, left
  <1>5. th'[t].pc = q /\ th'[t].path = th[t].path /\ th'[t].from = th[t].from /\ th'[t].i = th[t].i
        /\ th'[t].asked = th[t].asked
    BY <1>3, <1>4, Going
  <1>6. /\ Cuts(t) /\ mixed' \subseteq Threads /\ (t \notin mixed' => t \notin mixed)
        /\ strtok'.by = t /\ strtok'.left = left
    BY <1>3, <1>4, StrtokCuts DEF Strtok
  <1>7. ParseOf(t)'
    <2>1. Counting(t)'
      BY <1>1, <1>3, <1>5, Alone DEF Counting
    <2>2. Position(t)'
      BY <1>6 DEF Position
    <2>3. ASSUME NEW c \in Clients, t \notin mixed', th'[t].asked = c PROVE Understood(t, c)'
      <3>1. Understood(t, c)
        BY <1>5, <1>6, <2>3, Alone, ClientsAssumption
      <3>2. Request[c].method = "GET" /\ th[t].path = Request[c].path /\ Request[c].path.query
            /\ th[t].from = c
        BY <1>1, <3>1 DEF Understood, Querying
      <3>3. q = "close" => Dropped(Request[c]) /\ t \notin answers'[c]
        BY <1>1, <1>3, <1>4, <3>2 DEF Dropped, StartInv
      <3> QED BY <1>3, <1>5, <1>6, <3>2, <3>3 DEF Understood, Querying
    <2> QED BY <1>5, <2>1, <2>2, <2>3, ParsedWell, ThreadType
  <1> QED BY <1>1, <1>3, <1>4, <1>6, <1>7, GotoKeeps DEF Standing


(* A step that counts the options, or rewrites the one in the text.        *)
Counted(t, k, i, q) == th' = [th EXCEPT ![t].count = k, ![t].i = i, ![t].pc = q]
Collected(t, o, k, q) == th' = [th EXCEPT ![t].path.options = o, ![t].count = k, ![t].pc = q]

LEMMA CountingOn ==
  ASSUME ThreadTypes, NEW t \in Threads, NEW k \in Nat, NEW i \in Nat, NEW q \in ThreadPCs,
         Counted(t, k, i, q)
  PROVE  /\ th' \in [Threads -> Thread] /\ \A u \in Threads \ {t} : th'[u] = th[u]
         /\ th'[t].pc = q /\ th'[t].rfd = th[t].rfd /\ th'[t].wfd = th[t].wfd
         /\ th'[t].took = th[t].took /\ th'[t].asked = th[t].asked /\ th'[t].from = th[t].from
         /\ th'[t].path = th[t].path /\ th'[t].count = k /\ th'[t].i = i
  <1> DEFINE r == [[[th[t] EXCEPT !.count = k] EXCEPT !.i = i] EXCEPT !.pc = q]
  <1>1. th[t] \in Thread
    BY ThreadType
  <1>2. th' = [th EXCEPT ![t] = r]
    BY <1>1 DEF Thread, ThreadTypes, Counted
  <1>3. /\ r \in Thread /\ r.pc = q /\ r.rfd = th[t].rfd /\ r.wfd = th[t].wfd
        /\ r.took = th[t].took /\ r.asked = th[t].asked /\ r.from = th[t].from
        /\ r.path = th[t].path /\ r.count = k /\ r.i = i
    BY <1>1 DEF Thread
  <1> HIDE DEF r
  <1> QED BY <1>2, <1>3, Changing

LEMMA Collecting ==
  ASSUME ThreadTypes, NEW t \in Threads, NEW o \in Seq(0..2), NEW k \in Nat, NEW q \in ThreadPCs,
         Collected(t, o, k, q)
  PROVE  /\ th' \in [Threads -> Thread] /\ \A u \in Threads \ {t} : th'[u] = th[u]
         /\ th'[t].pc = q /\ th'[t].rfd = th[t].rfd /\ th'[t].wfd = th[t].wfd
         /\ th'[t].took = th[t].took /\ th'[t].asked = th[t].asked /\ th'[t].from = th[t].from
         /\ th'[t].path.options = o /\ th'[t].count = k /\ th'[t].i = th[t].i
  <1> DEFINE p == [th[t].path EXCEPT !.options = o]
             r == [[[th[t] EXCEPT !.path = p] EXCEPT !.count = k] EXCEPT !.pc = q]
  <1>1. th[t] \in Thread /\ th[t].path \in Path
    BY ThreadType
  <1>2. p \in Path /\ p.options = o
    BY <1>1 DEF Path
  <1>3. th' = [th EXCEPT ![t] = r]
    BY <1>1 DEF Thread, ThreadTypes, Collected
  <1> HIDE DEF p
  <1>4. /\ r \in Thread /\ r.pc = q /\ r.rfd = th[t].rfd /\ r.wfd = th[t].wfd
        /\ r.took = th[t].took /\ r.asked = th[t].asked /\ r.from = th[t].from
        /\ r.path = p /\ r.count = k /\ r.i = th[t].i
    BY <1>1, <1>2 DEF Thread
  <1> HIDE DEF r
  <1> QED BY <1>2, <1>3, <1>4, Changing

LEMMA QueryRestKeeps ==
  ASSUME IInv, NEW t \in Threads, QueryRest(t)
  PROVE  IInv'
  <1> USE DEF IInv, Types
  <1>1. th[t].pc = "rest" /\ th[t].took # 0 /\ th[t].i = 1
    BY Started, Alone DEF QueryRest, At, Counting
  <1>2. UNCHANGED <<main, web, fdt, net, answers>>
    BY DEF QueryRest
  <1>3. /\ Cuts(t) /\ mixed' \subseteq Threads /\ (t \notin mixed' => t \notin mixed)
        /\ strtok.by = t => strtok'.by = t
    BY NextCuts DEF QueryRest, StrtokNext
  <1>4. t \notin mixed => strtok.by = t
    BY <1>1, Alone DEF Parsing
  <1>5. ASSUME NEW c \in Clients, t \notin mixed, th[t].asked = c
        PROVE  /\ Request[c].method = "GET" /\ th[t].path = Request[c].path
               /\ Request[c].path.query /\ th[t].from = c
               /\ strtok.left = Request[c].path.parts - 1 /\ t \notin answers[c]
    BY <1>1, <1>5, Alone, ClientsAssumption DEF Understood, Querying, StartInv
  <1>6. ASSUME NEW q \in {"close", "opts"}, Goto(t, q), q = "close" => strtok.left = 0,
               q = "opts" => strtok.left > 0
        PROVE  IInv'
    <2>1. q \in ThreadPCs \ Standing
      BY DEF ThreadPCs, Parsing, Standing
    <2>2. th'[t].pc = q /\ th'[t].path = th[t].path /\ th'[t].from = th[t].from
          /\ th'[t].i = th[t].i /\ th'[t].asked = th[t].asked
      BY <1>6, <2>1, Going
    <2>3. Counting(t)'
      BY <1>1, <2>2 DEF Counting
    <2>4. t \notin mixed' => Position(t)'
      BY <1>3, <1>4 DEF Position
    <2>5. ASSUME NEW c \in Clients, t \notin mixed', th'[t].asked = c PROVE Understood(t, c)'
      <3>1. /\ Request[c].method = "GET" /\ th[t].path = Request[c].path
            /\ Request[c].path.query /\ th[t].from = c
            /\ strtok.left = Request[c].path.parts - 1 /\ t \notin answers'[c]
        BY <1>2, <1>3, <1>5, <2>2, <2>5
      <3>2. Request[c].path.parts \in 0..2
        BY RequestType DEF Path
      <3>3. q = "close" => Dropped(Request[c])
        BY <1>6, <3>1, <3>2 DEF Dropped
      <3>4. q = "opts" => Request[c].path.parts = 2
        BY <1>6, <3>1, <3>2
      <3> QED BY <2>2, <3>1, <3>3, <3>4 DEF Understood, Querying
    <2>6. ParseOf(t)'
      BY <2>2, <2>3, <2>4, <2>5, ParsedWell, ThreadType
    <2> QED BY <1>1, <1>2, <1>3, <1>6, <2>1, <2>6, GotoKeeps DEF Standing
  <1>7. CASE strtok.by # t /\ \E n \in {1, 2} : th' = [th EXCEPT ![t].path.options = <<n>>, ![t].pc = "opts"]
    <2>1. PICK n \in {1, 2} : th' = [th EXCEPT ![t].path.options = <<n>>, ![t].pc = "opts"]
      BY <1>7
    <2> DEFINE o == <<n>>
               k == th[t].count
    <2>2. o \in Seq(0..2) /\ k \in Nat /\ "opts" \in ThreadPCs
      BY ThreadType DEF ThreadPCs, Parsing
    <2>3. Collected(t, o, k, "opts")
      BY <2>1, ThreadType DEF Thread, ThreadTypes, Collected
    <2> HIDE DEF o, k
    <2>4. ThreadTypes
      OBVIOUS
    <2>5. /\ th' \in [Threads -> Thread] /\ \A u \in Threads \ {t} : th'[u] = th[u]
          /\ th'[t].pc = "opts" /\ th'[t].rfd = th[t].rfd /\ th'[t].wfd = th[t].wfd
          /\ th'[t].took = th[t].took /\ th'[t].asked = th[t].asked /\ th'[t].i = th[t].i
      <3> HIDE DEF IInv, Types
      <3> QED BY ONLY <2>2, <2>3, <2>4, Collecting
    <2>6. t \in mixed'
      BY <1>3, <1>4, <1>7
    <2>7. ParseOf(t)'
      BY <1>1, <2>5, <2>6 DEF ParseOf, Counting
    <2> QED BY <1>1, <1>2, <1>3, <2>5, <2>7, MoveIInv DEF Standing
  <1>8. \/ strtok.left = 0 /\ Goto(t, "close")
        \/ strtok.left > 0 /\ Goto(t, "opts")
        \/ strtok.by # t /\ \E n \in {1, 2} : th' = [th EXCEPT ![t].path.options = <<n>>, ![t].pc = "opts"]
    BY DEF QueryRest
  <1>9. ~(strtok.left > 0 /\ strtok.left = 0)
    OBVIOUS
  <1>10. CASE strtok.left = 0 /\ Goto(t, "close")
    BY <1>6, <1>10
  <1>11. CASE strtok.left > 0 /\ Goto(t, "opts")
    BY <1>6, <1>11
  <1> QED BY <1>7, <1>8, <1>10, <1>11

LEMMA FirstOptionKeeps ==
  ASSUME IInv, NEW t \in Threads, FirstOption(t)
  PROVE  IInv'
  <1> USE DEF IInv, Types
  <1> DEFINE n == Len(th[t].path.options)
             left == IF n = 0 THEN 0 ELSE n - 1
  <1>1. th[t].pc = "opts" /\ th[t].took # 0 /\ th[t].i = 1
    BY Started, Alone DEF FirstOption, At, Counting
  <1>2. n \in Nat /\ left \in Nat /\ (n # 0 => n >= 1 /\ left = n - 1)
    BY ThreadType
  <1>3. Strtok(t, "query", left) /\ UNCHANGED <<main, web, fdt, net, answers>>
    BY DEF FirstOption
  <1>4. \/ n = 0 /\ GotoHeaders(t)
        \/ n # 0 /\ th' = [th EXCEPT ![t].count = 1, ![t].pc = "next"]
    BY DEF FirstOption
  <1> HIDE DEF left
  <1>5. /\ Cuts(t) /\ mixed' \subseteq Threads /\ (t \notin mixed' => t \notin mixed)
        /\ strtok'.by = t /\ strtok'.left = left
    BY <1>2, <1>3, StrtokCuts DEF Strtok
  <1>6. ASSUME NEW c \in Clients, t \notin mixed', th[t].asked = c
        PROVE  /\ Request[c].method = "GET" /\ th[t].path = Request[c].path
               /\ Request[c].path.query /\ th[t].from = c /\ Request[c].path.parts = 2
    BY <1>1, <1>5, <1>6, Alone, ClientsAssumption DEF Understood, Querying
  <1>7. CASE n = 0 /\ GotoHeaders(t)
    <2>1. /\ th' \in [Threads -> Thread] /\ \A u \in Threads \ {t} : th'[u] = th[u]
          /\ th'[t].pc = "headers" /\ th'[t].rfd = th[t].rfd /\ th'[t].wfd = th[t].wfd
          /\ th'[t].took = th[t].took /\ th'[t].asked = th[t].asked /\ th'[t].from = th[t].from
          /\ th'[t].path.file = th[t].path.file /\ th'[t].i = 1
      BY <1>7, GoingToHeaders
    <2>2. Counting(t)' /\ Position(t)'
      BY <2>1 DEF Counting, Position, Parsing
    <2>3. ASSUME NEW c \in Clients, t \notin mixed', th'[t].asked = c PROVE Understood(t, c)'
      <3>1. /\ Request[c].method = "GET" /\ th[t].path = Request[c].path
            /\ Request[c].path.query /\ th[t].from = c /\ Request[c].path.parts = 2
        BY <1>6, <2>1, <2>3
      <3>2. ~Dropped(Request[c]) /\ ~Crashes(Request[c])
        BY <1>7, <3>1 DEF Dropped, Crashes
      <3> QED BY <2>1, <3>1, <3>2 DEF Understood, Querying
    <2>4. ParseOf(t)'
      BY <2>1, <2>2, <2>3, ParsedWell, ThreadType
    <2> QED BY <1>1, <1>3, <1>5, <2>1, <2>4, MoveIInv DEF Standing
  <1>8. CASE n # 0 /\ th' = [th EXCEPT ![t].count = 1, ![t].pc = "next"]
    <2>1. th[t].i \in Nat /\ "next" \in ThreadPCs /\ 1 \in Nat
      BY ThreadType DEF ThreadPCs, Parsing
    <2>2. Counted(t, 1, th[t].i, "next")
      BY <1>8, ThreadType DEF Thread, ThreadTypes, Counted
    <2>3. /\ th' \in [Threads -> Thread] /\ \A u \in Threads \ {t} : th'[u] = th[u]
          /\ th'[t].pc = "next" /\ th'[t].rfd = th[t].rfd /\ th'[t].wfd = th[t].wfd
          /\ th'[t].took = th[t].took /\ th'[t].asked = th[t].asked /\ th'[t].from = th[t].from
          /\ th'[t].path = th[t].path /\ th'[t].count = 1 /\ th'[t].i = th[t].i
      BY <2>1, <2>2, CountingOn
    <2>4. Counting(t)'
      BY <1>1, <1>2, <1>5, <1>8, <2>3 DEF Counting
    <2>5. Position(t)'
      BY <1>5 DEF Position
    <2>6. ASSUME NEW c \in Clients, t \notin mixed', th'[t].asked = c PROVE Understood(t, c)'
      BY <1>6, <2>3, <2>6 DEF Understood, Querying
    <2>7. ParseOf(t)'
      BY <2>3, <2>4, <2>5, <2>6, ParsedWell, ThreadType
    <2> QED BY <1>1, <1>3, <1>5, <2>3, <2>7, MoveIInv DEF Standing
  <1> QED BY <1>4, <1>7, <1>8

(* A piece of another thread's text joins those collected so far.          *)
LEMMA Joining ==
  ASSUME NEW s \in Seq(0..2), NEW k \in Nat, k <= Len(s), NEW n \in 0..2
  PROVE  /\ Append(SubSeq(s, 1, k), n) \in Seq(0..2)
         /\ Len(Append(SubSeq(s, 1, k), n)) = k + 1
  <1> DEFINE p == SubSeq(s, 1, k)
  <1>1. Len(s) \in Nat /\ \A i \in 1..Len(s) : s[i] \in 0..2
    OBVIOUS
  <1>2. \A i \in 1..k : s[i] \in 0..2
    BY <1>1
  <1>3. p \in Seq(0..2) /\ Len(p) = IF 1 <= k THEN k - 1 + 1 ELSE 0
    BY <1>2, SubSeqProperties
  <1>4. Len(p) = k
    BY <1>3
  <1> HIDE DEF p
  <1> QED BY <1>3, <1>4

LEMMA NextOptionKeeps ==
  ASSUME IInv, NEW t \in Threads, NextOption(t)
  PROVE  IInv'
  <1> USE DEF IInv, Types
  <1> DEFINE k == th[t].count
             s == th[t].path.options
  <1>1. /\ th[t].pc = "next" /\ th[t].took # 0 /\ th[t].i = 1 /\ k <= Len(s) /\ k >= 1
        /\ strtok.by = t => k + strtok.left = Len(s)
    BY Started, Alone DEF NextOption, At, Counting
  <1>2. UNCHANGED <<main, web, fdt, net, answers>>
    BY DEF NextOption
  <1>3. /\ Cuts(t) /\ mixed' \subseteq Threads /\ (t \notin mixed' => t \notin mixed)
        /\ strtok'.by = t => strtok.by = t
        /\ strtok.by = t => /\ strtok'.by = t
                            /\ strtok.left > 0 => strtok'.left = strtok.left - 1
    BY NextCuts DEF NextOption, StrtokNext
  <1>4. t \notin mixed => strtok.by = t
    BY <1>1, Alone DEF Parsing
  <1>5. k \in Nat /\ k + 1 \in Nat /\ Len(s) \in Nat /\ s \in Seq(0..2) /\ strtok.left \in Nat
        /\ th[t].i \in Nat /\ "name" \in ThreadPCs \ Standing /\ "next" \in ThreadPCs
    BY ThreadType DEF ThreadPCs, Parsing, Standing
  <1>6. ASSUME NEW c \in Clients, t \notin mixed, th[t].asked = c
        PROVE  /\ Request[c].method = "GET" /\ th[t].path = Request[c].path
               /\ Request[c].path.query /\ th[t].from = c /\ Request[c].path.parts = 2
    BY <1>1, <1>6, Alone, ClientsAssumption DEF Understood, Querying
  <1>7. CASE (strtok.left = 0 \/ strtok.by # t) /\ Goto(t, "name")
    <2>1. th'[t].pc = "name" /\ th'[t].path = th[t].path /\ th'[t].from = th[t].from
          /\ th'[t].i = th[t].i /\ th'[t].asked = th[t].asked /\ th'[t].count = th[t].count
      BY <1>5, <1>7, Going
    <2>2. Counting(t)'
      BY <1>1, <1>5, <2>1 DEF Counting
    <2>3. t \notin mixed' => Position(t)'
      BY <1>3, <1>4 DEF Position
    <2>4. ASSUME NEW c \in Clients, t \notin mixed', th'[t].asked = c PROVE Understood(t, c)'
      <3>1. /\ Request[c].method = "GET" /\ th[t].path = Request[c].path
            /\ Request[c].path.query /\ th[t].from = c /\ Request[c].path.parts = 2
        BY <1>3, <1>6, <2>1, <2>4
      <3>2. k = Len(s)
        BY <1>1, <1>3, <1>4, <1>5, <1>7, <2>4
      <3>3. \A j \in 1..(th'[t].i - 1) : Request[c].path.options[j] = 2
        BY <1>1, <2>1
      <3> QED BY <2>1, <3>1, <3>2, <3>3 DEF Understood, Querying
    <2>5. ParseOf(t)'
      BY <2>1, <2>2, <2>3, <2>4, ParsedWell, ThreadType
    <2> QED BY <1>1, <1>2, <1>3, <1>5, <1>7, <2>5, GotoKeeps DEF Standing
  <1>8. CASE strtok.left > 0 /\ strtok.by = t /\ th' = [th EXCEPT ![t].count = k + 1]
    <2>1. Counted(t, k + 1, th[t].i, "next")
      BY <1>1, <1>8, ThreadType DEF Thread, ThreadTypes, Counted
    <2>2. /\ th' \in [Threads -> Thread] /\ \A u \in Threads \ {t} : th'[u] = th[u]
          /\ th'[t].pc = "next" /\ th'[t].rfd = th[t].rfd /\ th'[t].wfd = th[t].wfd
          /\ th'[t].took = th[t].took /\ th'[t].asked = th[t].asked /\ th'[t].from = th[t].from
          /\ th'[t].path = th[t].path /\ th'[t].count = k + 1 /\ th'[t].i = th[t].i
      BY <1>5, <2>1, CountingOn
    <2>3. Counting(t)'
      <3>1. strtok'.left = strtok.left - 1
        BY <1>3, <1>8
      <3>2. k + 1 <= Len(s) /\ k + 1 >= 1 /\ (k + 1) + (strtok.left - 1) = Len(s)
        <4> HIDE DEF IInv, k, s
        <4>1. k \in Nat /\ Len(s) \in Nat /\ strtok.left \in Nat /\ k + strtok.left = Len(s)
          BY <1>1, <1>5, <1>8
        <4> QED BY <1>8, <4>1
      <3> QED BY <1>1, <1>5, <2>2, <3>1, <3>2 DEF Counting
    <2>4. t \notin mixed' => Position(t)'
      BY <1>3, <1>4 DEF Position
    <2>5. ASSUME NEW c \in Clients, t \notin mixed', th'[t].asked = c PROVE Understood(t, c)'
      <3>1. /\ Request[c].method = "GET" /\ th[t].path = Request[c].path
            /\ Request[c].path.query /\ th[t].from = c /\ Request[c].path.parts = 2
        BY <1>3, <1>6, <2>2, <2>5
      <3> QED BY <2>2, <3>1 DEF Understood, Querying
    <2>6. ParseOf(t)'
      BY <2>2, <2>3, <2>4, <2>5, ParsedWell, ThreadType
    <2> QED BY <1>1, <1>2, <1>3, <2>2, <2>6, MoveIInv DEF Standing
  <1>9. CASE /\ strtok.by # t
             /\ \E n \in {1, 2} :
                   th' = [th EXCEPT ![t].path.options = Append(SubSeq(@, 1, k), n), ![t].count = k + 1]
    <2>1. PICK n \in {1, 2} :
             th' = [th EXCEPT ![t].path.options = Append(SubSeq(@, 1, k), n), ![t].count = k + 1]
      BY <1>9
    <2> DEFINE o == Append(SubSeq(s, 1, k), n)
               m == k + 1
    <2>2. o \in Seq(0..2) /\ Len(o) = m /\ m \in Nat
      BY <1>1, <1>5, Joining
    <2>3. Collected(t, o, m, "next")
      BY <1>1, <2>1, ThreadType DEF Thread, ThreadTypes, Collected
    <2> HIDE DEF o
    <2>4. ThreadTypes /\ "next" \in ThreadPCs
      BY <1>5
    <2>5. /\ th' \in [Threads -> Thread] /\ \A u \in Threads \ {t} : th'[u] = th[u]
          /\ th'[t].pc = "next" /\ th'[t].rfd = th[t].rfd /\ th'[t].wfd = th[t].wfd
          /\ th'[t].took = th[t].took /\ th'[t].asked = th[t].asked /\ th'[t].i = th[t].i
          /\ th'[t].path.options = o /\ th'[t].count = m
      <3> HIDE DEF IInv, Types, m
      <3> QED BY ONLY <2>2, <2>3, <2>4, Collecting
    <2>6. t \in mixed' /\ strtok'.by # t
      BY <1>3, <1>4, <1>9
    <2>7. Counting(t)'
      BY <1>1, <1>5, <2>2, <2>5, <2>6 DEF Counting
    <2>8. ParseOf(t)'
      BY <2>6, <2>7 DEF ParseOf
    <2> QED BY <1>1, <1>2, <1>3, <2>5, <2>8, MoveIInv DEF Standing
  <1> QED BY <1>7, <1>8, <1>9 DEF NextOption

LEMMA OptionNameKeeps ==
  ASSUME IInv, NEW t \in Threads, OptionName(t)
  PROVE  IInv'
  <1> USE DEF IInv, Types
  <1> DEFINE n == th[t].path.options[th[t].i]
  <1>1. th[t].pc = "name" /\ th[t].took # 0
        /\ th[t].i >= 1 /\ th[t].i <= th[t].count /\ th[t].count <= Len(th[t].path.options)
    BY Started, Alone DEF OptionName, At, Counting
  <1>2. n \in 0..2
    BY <1>1, ThreadType
  <1>3. CASE Dies("killed")
    BY <1>3, DiesKeeps
  <1>4. CASE /\ n > 0
             /\ Goto(t, "value")
             /\ Strtok(t, "query", n - 1)
             /\ UNCHANGED <<main, web, fdt, net, answers>>
    <2>1. "value" \in ThreadPCs \ Standing /\ n - 1 \in Nat
      BY <1>2, <1>4 DEF ThreadPCs, Parsing, Standing
    <2>2. th'[t].pc = "value" /\ th'[t].path = th[t].path /\ th'[t].from = th[t].from
          /\ th'[t].i = th[t].i /\ th'[t].asked = th[t].asked /\ th'[t].count = th[t].count
      BY <1>4, <2>1, Going
    <2>3. /\ Cuts(t) /\ mixed' \subseteq Threads /\ (t \notin mixed' => t \notin mixed)
          /\ strtok'.by = t /\ strtok'.left = n - 1
      BY <1>4, <2>1, StrtokCuts DEF Strtok
    <2>4. Counting(t)' /\ Position(t)'
      BY <1>1, <2>2, <2>3 DEF Counting, Position
    <2>5. ASSUME NEW c \in Clients, t \notin mixed', th'[t].asked = c PROVE Understood(t, c)'
      <3>0. Understood(t, c)
        BY <2>2, <2>3, <2>5, Alone, ClientsAssumption
      <3>1. /\ Request[c].method = "GET" /\ th[t].path = Request[c].path
            /\ Request[c].path.query /\ th[t].from = c /\ Request[c].path.parts = 2
            /\ th[t].count = Len(Request[c].path.options)
            /\ \A j \in 1..(th[t].i - 1) : Request[c].path.options[j] = 2
        BY <1>1, <3>0 DEF Understood, Querying
      <3> QED BY <2>2, <2>3, <3>1 DEF Understood, Querying
    <2>6. ParseOf(t)'
      BY <2>2, <2>4, <2>5, ParsedWell, ThreadType
    <2> QED BY <1>1, <1>4, <2>1, <2>3, <2>6, GotoKeeps DEF Standing
  <1> QED BY <1>3, <1>4 DEF OptionName

LEMMA OptionValueKeeps ==
  ASSUME IInv, NEW t \in Threads, OptionValue(t)
  PROVE  IInv'
  <1> USE DEF IInv, Types
  <1>1. th[t].pc = "value" /\ th[t].took # 0
        /\ th[t].i >= 1 /\ th[t].i <= th[t].count /\ th[t].count <= Len(th[t].path.options)
    BY Started, Alone DEF OptionValue, At, Counting
  <1>2. CASE Dies("killed")
    BY <1>2, DiesKeeps
  <1>3. CASE /\ strtok.left > 0
             /\ IF th[t].i = th[t].count
                  THEN GotoHeaders(t)
                  ELSE th' = [th EXCEPT ![t].i = @ + 1, ![t].pc = "name"]
             /\ StrtokNext(t)
             /\ UNCHANGED <<main, web, fdt, net, answers>>
    <2>1. /\ Cuts(t) /\ mixed' \subseteq Threads /\ (t \notin mixed' => t \notin mixed)
          /\ strtok.by = t => strtok'.by = t
      BY <1>3, NextCuts DEF StrtokNext
    <2>2. t \notin mixed => strtok.by = t
      BY <1>1, Alone DEF Parsing
    <2>3. th[t].i \in Nat /\ th[t].count \in Nat /\ th[t].i + 1 \in Nat /\ "name" \in ThreadPCs
          /\ Len(th[t].path.options) \in Nat
      BY ThreadType DEF ThreadPCs, Parsing
    <2>4. ASSUME NEW c \in Clients, t \notin mixed', th[t].asked = c
          PROVE  /\ Request[c].method = "GET" /\ th[t].path = Request[c].path
                 /\ Request[c].path.query /\ th[t].from = c /\ Request[c].path.parts = 2
                 /\ th[t].count = Len(Request[c].path.options)
                 /\ \A j \in 1..th[t].i : Request[c].path.options[j] = 2
      <3>1. /\ Request[c].method = "GET" /\ th[t].path = Request[c].path
            /\ Request[c].path.query /\ th[t].from = c /\ Request[c].path.parts = 2
            /\ th[t].count = Len(Request[c].path.options)
            /\ \A j \in 1..(th[t].i - 1) : Request[c].path.options[j] = 2
            /\ strtok.left = Request[c].path.options[th[t].i] - 1
        BY <1>1, <2>1, <2>4, Alone, ClientsAssumption DEF Understood, Querying
      <3>2. Request[c].path.options[th[t].i] \in 0..2
        BY <1>1, <2>3, <3>1, RequestType
      <3>3. Request[c].path.options[th[t].i] = 2
        BY <1>3, <3>1, <3>2
      <3>4. \A j \in 1..th[t].i : j = th[t].i \/ j \in 1..(th[t].i - 1)
        BY <2>3
      <3> QED BY <3>1, <3>3, <3>4
    <2>5. CASE th[t].i = th[t].count /\ GotoHeaders(t)
      <3>1. /\ th' \in [Threads -> Thread] /\ \A u \in Threads \ {t} : th'[u] = th[u]
            /\ th'[t].pc = "headers" /\ th'[t].rfd = th[t].rfd /\ th'[t].wfd = th[t].wfd
            /\ th'[t].took = th[t].took /\ th'[t].asked = th[t].asked /\ th'[t].from = th[t].from
            /\ th'[t].path.file = th[t].path.file /\ th'[t].i = 1
        BY <2>5, GoingToHeaders
      <3>2. Counting(t)' /\ Position(t)'
        BY <3>1 DEF Counting, Position, Parsing
      <3>3. ASSUME NEW c \in Clients, t \notin mixed', th'[t].asked = c PROVE Understood(t, c)'
        <4>1. /\ Request[c].method = "GET" /\ th[t].path = Request[c].path
              /\ Request[c].path.query /\ th[t].from = c /\ Request[c].path.parts = 2
              /\ th[t].count = Len(Request[c].path.options)
              /\ \A j \in 1..th[t].i : Request[c].path.options[j] = 2
          BY <2>4, <3>1, <3>3
        <4>2. ~Dropped(Request[c]) /\ ~Crashes(Request[c])
          BY <2>5, <4>1 DEF Dropped, Crashes
        <4> QED BY <3>1, <4>1, <4>2 DEF Understood, Querying
      <3>4. ParseOf(t)'
        BY <3>1, <3>2, <3>3, ParsedWell, ThreadType
      <3> QED BY <1>1, <1>3, <2>1, <3>1, <3>4, MoveIInv DEF Standing
    <2>6. CASE th[t].i # th[t].count /\ th' = [th EXCEPT ![t].i = @ + 1, ![t].pc = "name"]
      <3>1. Counted(t, th[t].count, th[t].i + 1, "name")
        BY <2>6, ThreadType DEF Thread, ThreadTypes, Counted
      <3>2. /\ th' \in [Threads -> Thread] /\ \A u \in Threads \ {t} : th'[u] = th[u]
            /\ th'[t].pc = "name" /\ th'[t].rfd = th[t].rfd /\ th'[t].wfd = th[t].wfd
            /\ th'[t].took = th[t].took /\ th'[t].asked = th[t].asked /\ th'[t].from = th[t].from
            /\ th'[t].path = th[t].path /\ th'[t].count = th[t].count /\ th'[t].i = th[t].i + 1
        BY <2>3, <3>1, CountingOn
      <3>3. Counting(t)'
        BY <1>1, <2>3, <2>6, <3>2 DEF Counting
      <3>4. t \notin mixed' => Position(t)'
        BY <2>1, <2>2 DEF Position
      <3>5. ASSUME NEW c \in Clients, t \notin mixed', th'[t].asked = c PROVE Understood(t, c)'
        <4>1. /\ Request[c].method = "GET" /\ th[t].path = Request[c].path
              /\ Request[c].path.query /\ th[t].from = c /\ Request[c].path.parts = 2
              /\ th[t].count = Len(Request[c].path.options)
              /\ \A j \in 1..th[t].i : Request[c].path.options[j] = 2
          BY <2>4, <3>2, <3>5
        <4>2. th'[t].i - 1 = th[t].i
          BY <2>3, <3>2
        <4> QED BY <3>2, <4>1, <4>2 DEF Understood, Querying
      <3>6. ParseOf(t)'
        BY <3>2, <3>3, <3>4, <3>5, ParsedWell, ThreadType
      <3> QED BY <1>1, <1>3, <2>1, <3>2, <3>6, MoveIInv DEF Standing
    <2> QED BY <1>3, <2>5, <2>6
  <1> QED BY <1>2, <1>3 DEF OptionValue

(* Past the request: nothing of what was understood is lost.               *)
LEMMA StillUnderstood ==
  ASSUME IInv, NEW t \in Threads, th[t].pc \in {"headers", "measure", "capture"},
         th'[t].pc \in {"headers", "measure", "capture", "send"},
         th'[t].path = th[t].path, th'[t].asked = th[t].asked, th'[t].from = th[t].from,
         th'[t].i = th[t].i, mixed' = mixed
  PROVE  ParseOf(t)'
  <1>1. Counting(t)' /\ Position(t)'
    BY Alone DEF Counting, Position, Parsing
  <1>2. ASSUME NEW c \in Clients, t \notin mixed', th'[t].asked = c PROVE Understood(t, c)'
    <2>1. Understood(t, c)
      BY <1>2, Alone, ClientsAssumption
    <2> QED BY <2>1 DEF Understood, Querying
  <1> QED BY <1>1, <1>2, ParsedWell, ThreadType DEF IInv, Types

(* A thread reads on a descriptor that is open: its client is connected.   *)
LEMMA Reading ==
  ASSUME IInv, NEW t \in Threads, Peer(t) \in Clients, got[Peer(t)] < sent[Peer(t)],
         got' = [got EXCEPT ![Peer(t)] = sent[Peer(t)]],
         UNCHANGED <<fdt, queued, sent, gone, answers>>
  PROVE  /\ NetTypes' /\ th[t].rfd \in Fds /\ fdt[th[t].rfd] = Peer(t)
         /\ \A d \in Clients : got'[d] # got[d] => d = Peer(t)
         /\ sent[Peer(t)] \in 2..3
  <1> USE DEF IInv, Types
  <1> DEFINE c == Peer(t)
  <1>1. th[t].rfd \in Fds /\ fdt[th[t].rfd] = c
    BY ClientsAssumption, ThreadType DEF Peer, Open, Thread
  <1>2. sent[c] \in 0..3 /\ got[c] \in 1..3
    BY DEF NetTypes
  <1>3. sent[c] \in 2..3
    BY <1>2
  <1> HIDE DEF c
  <1>4. c \in Clients /\ got' = [got EXCEPT ![c] = sent[c]]
    BY DEF c
  <1>5. got' \in [Clients -> 1..3] /\ \A d \in Clients : got'[d] # got[d] => d = c
    BY <1>3, <1>4 DEF NetTypes
  <1>6. ~(sent[c] = 0 \/ c \in queued)
    BY <1>1, <1>4 DEF NetTypes
  <1>7. \A d \in Clients : sent'[d] = 0 \/ d \in queued' => got'[d] = 1 /\ \A f \in Fds : fdt'[f] # d
    BY <1>5, <1>6 DEF NetTypes
  <1>8. NetTypes'
    BY <1>5, <1>7 DEF NetTypes
  <1> QED BY <1>1, <1>3, <1>5, <1>8 DEF c

LEMMA ReadHeadersKeeps ==
  ASSUME IInv, NEW t \in Threads, ReadHeaders(t)
  PROVE  IInv'
  <1> USE DEF IInv, Types
  <1>1. th[t].pc = "headers" /\ th[t].took # 0
    BY Started DEF ReadHeaders, At
  <1>2. UNCHANGED <<main, web, fdt, queued, sent, gone, strtok, mixed, answers>>
    BY DEF ReadHeaders
  <1>3. PICK q \in {"headers", "measure"} :
           /\ Goto(t, q)
           /\ \/ got' = got
              \/ /\ Peer(t) \in Clients /\ got[Peer(t)] < sent[Peer(t)]
                 /\ got' = [got EXCEPT ![Peer(t)] = sent[Peer(t)]]
    BY DEF ReadHeaders
  <1>4. q \in ThreadPCs \ Standing
    BY DEF ThreadPCs, Standing
  <1>5. /\ th' \in [Threads -> Thread] /\ \A u \in Threads \ {t} : th'[u] = th[u]
        /\ th'[t].pc = q /\ th'[t].rfd = th[t].rfd /\ th'[t].wfd = th[t].wfd
        /\ th'[t].took = th[t].took /\ th'[t].asked = th[t].asked /\ th'[t].from = th[t].from
        /\ th'[t].path = th[t].path /\ th'[t].i = th[t].i
    BY <1>3, <1>4, Going
  <1>6. ParseOf(t)'
    BY <1>1, <1>2, <1>5, StillUnderstood
  <1>7. UNCHANGED <<csock, accepted, webPc, fdt, gone, answers>>
    BY <1>2 DEF web
  <1>8. NetTypes' /\ \A d \in Clients : got'[d] # got[d] => th[t].rfd \in Fds /\ fdt[th[t].rfd] = d
    <2>1. CASE got' = got
      BY <1>2, <2>1 DEF NetTypes
    <2>2. CASE /\ Peer(t) \in Clients /\ got[Peer(t)] < sent[Peer(t)]
               /\ got' = [got EXCEPT ![Peer(t)] = sent[Peer(t)]]
      BY <1>2, <2>2, Reading
    <2> QED BY <1>3, <2>1, <2>2
  <1>9. SceneTypes' /\ ThreadTypes'
    BY <1>2, <1>5 DEF SceneTypes, ThreadTypes, main, web
  <1>10. /\ StartInv' /\ OwnConnections' = OwnConnections
         /\ Ownership => Ownership'
         /\ Accounted => Accounted'
    BY <1>1, <1>4, <1>5, <1>7, <1>8, <1>9, MoveKeeps DEF Standing
  <1>11. Answered => Answered'
    <2>1. \A u \in Threads : th'[u].asked = th[u].asked
      BY <1>5
    <2> QED BY <1>7, <2>1 DEF Answered, NetTypes
  <1>12. OwnInv'
    BY <1>10, <1>11 DEF OwnInv
  <1>13. \A u \in Threads \ {t} : ParseOf(u)'
    BY <1>2, <1>5, <1>10, OthersParse
  <1> QED BY <1>6, <1>8, <1>9, <1>10, <1>12, <1>13 DEF ParseInv

LEMMA ReadSensorsKeeps ==
  ASSUME IInv, NEW t \in Threads, ReadSensors(t)
  PROVE  IInv'
  <1>1. th[t].pc = "measure" /\ th[t].took # 0
    BY Started DEF ReadSensors, At
  <1>2. PICK q \in {"capture", "send"} : Goto(t, q)
    BY DEF ReadSensors
  <1>3. q \in ThreadPCs \ Standing /\ UNCHANGED <<main, web, fdt, net, strtok, mixed, answers>>
    BY DEF ThreadPCs, Standing, ReadSensors
  <1>4. /\ th'[t].pc = q /\ th'[t].asked = th[t].asked /\ th'[t].from = th[t].from
        /\ th'[t].path = th[t].path /\ th'[t].i = th[t].i
    BY <1>2, <1>3, Going DEF IInv, Types
  <1>5. ParseOf(t)'
    BY <1>1, <1>3, <1>4, StillUnderstood
  <1> QED BY <1>1, <1>2, <1>3, <1>5, GotoKeeps DEF Standing

LEMMA CaptureKeeps ==
  ASSUME IInv, NEW t \in Threads, Capture(t)
  PROVE  IInv'
  <1>1. th[t].pc = "capture" /\ th[t].took # 0
    BY Started DEF Capture, At
  <1>2. CASE Dies("killed")
    BY <1>2, DiesKeeps
  <1>3. CASE Goto(t, "send") /\ UNCHANGED <<main, web, fdt, net, strtok, mixed, answers>>
    <2>1. "send" \in ThreadPCs \ Standing
      BY DEF ThreadPCs, Standing
    <2>2. /\ th'[t].pc = "send" /\ th'[t].asked = th[t].asked /\ th'[t].from = th[t].from
          /\ th'[t].path = th[t].path /\ th'[t].i = th[t].i
      BY <1>3, <2>1, Going DEF IInv, Types
    <2>3. ParseOf(t)'
      BY <1>1, <1>3, <2>2, StillUnderstood
    <2> QED BY <1>1, <1>3, <2>1, <2>3, GotoKeeps DEF Standing
  <1> QED BY <1>2, <1>3 DEF Capture

(* The answer goes to the connection the request came from.                *)
LEMMA AnswerKeeps ==
  ASSUME IInv, NEW t \in Threads, NEW pc \in {"ok", "error", "send"}, Answer(t, pc)
  PROVE  IInv'
  <1> USE DEF IInv, Types
  <1> DEFINE f == th[t].wfd
  <1>1. th[t].pc = pc /\ th[t].took # 0 /\ Live(t)
    BY Started DEF Answer, At, Live
  <1>2. CASE Dies("killed")
    BY <1>2, DiesKeeps
  <1>3. CASE /\ f # NoFd
             /\ answers' = [c \in Clients |-> IF fdt[f] = c THEN answers[c] \union {t}
                                                            ELSE answers[c]]
             /\ Goto(t, "close")
             /\ UNCHANGED <<main, web, fdt, net, strtok, mixed>>
    <2>1. "close" \in ThreadPCs
      BY DEF ThreadPCs
    <2>2. /\ th' \in [Threads -> Thread] /\ \A u \in Threads \ {t} : th'[u] = th[u]
          /\ th'[t].pc = "close" /\ th'[t].rfd = th[t].rfd /\ th'[t].wfd = th[t].wfd
          /\ th'[t].took = th[t].took /\ th'[t].asked = th[t].asked /\ th'[t].from = th[t].from
          /\ th'[t].i = th[t].i
      BY <1>3, <2>1, Going
    <2>3. UNCHANGED <<csock, accepted, webPc, fdt, gone, queued, sent, got>>
      BY <1>3 DEF web, net
    <2>4. \A c \in Clients : /\ fdt[f] = c => answers'[c] = answers[c] \union {t}
                             /\ fdt[f] # c => answers'[c] = answers[c]
      BY <1>3
    <2>5. answers' \in [Clients -> SUBSET Threads]
      <3>1. \A c \in Clients : answers[c] \in SUBSET Threads
        BY DEF NetTypes
      <3>2. \A c \in Clients : (IF fdt[f] = c THEN answers[c] \union {t} ELSE answers[c]) \in SUBSET Threads
        BY <3>1
      <3> QED BY <1>3, <3>2
    <2>6. SceneTypes' /\ NetTypes' /\ ThreadTypes'
      BY <1>3, <2>2, <2>3, <2>5 DEF SceneTypes, NetTypes, ThreadTypes, main, web
    <2>7. \A u \in Threads \ {t} : \A d \in Clients : (u \in answers'[d]) = (u \in answers[d])
      BY <2>4
    <2>8. /\ StartInv' /\ OwnConnections' = OwnConnections
          /\ Ownership => Ownership'
          /\ Accounted => Accounted'
      BY <1>1, <2>2, <2>3, <2>6, <2>7, MoveKeeps DEF Standing
    <2>9. ASSUME OwnConnections
          PROVE  /\ fdt[f] \in Clients
                 /\ th[t].asked # Nobody => th[t].asked = fdt[f]
                 /\ th[t].asked = Nobody => fdt[f] \in gone
      <3>1. Serving(t) /\ f \in Mine(t)
        BY <1>1, <1>3, <2>9 DEF OwnInv, Ownership, Mine
      <3> QED BY <1>1, <1>3, <3>1 DEF Serving
    <2>10. OwnConnections => Answered'
      <3> SUFFICES ASSUME OwnConnections, NEW c \in Clients, NEW u \in answers'[c]
                   PROVE  /\ th'[u].asked \in {c, Nobody}
                          /\ th'[u].asked = Nobody => c \in gone'
        BY DEF Answered
      <3>1. u \in Threads /\ th'[u].asked = th[u].asked
        BY <2>2, <2>5
      <3>2. CASE u \in answers[c]
        BY <2>3, <3>1, <3>2 DEF OwnInv, Answered
      <3>3. CASE u \notin answers[c]
        <4>1. u = t /\ fdt[f] = c
          BY <2>4, <3>3
        <4> QED BY <2>3, <2>9, <3>1, <4>1
      <3> QED BY <3>2, <3>3
    <2>11. OwnInv'
      BY <2>8, <2>10 DEF OwnInv
    <2>12. ParseOf(t)'
      <3>1. Counting(t)' /\ Position(t)'
        BY <1>1, <2>2, Alone DEF Counting, Position, Parsing
      <3>2. ASSUME NEW c \in Clients, t \notin mixed', th'[t].asked = c PROVE Understood(t, c)'
        <4>1. Understood(t, c) /\ c # Nobody
          BY <1>3, <2>2, <3>2, Alone, ClientsAssumption
        <4>2. ~Dropped(Request[c]) /\ th[t].from = c
          BY <1>1, <4>1 DEF Understood
        <4>3. OwnConnections => t \in answers'[c]
          BY <2>2, <2>4, <2>9, <3>2, <4>1
        <4> QED BY <2>2, <2>8, <4>2, <4>3 DEF Understood, Querying
      <3> QED BY <2>2, <3>1, <3>2, ParsedWell, ThreadType
    <2>13. \A u \in Threads \ {t} : ParseOf(u)'
      BY <1>3, <2>2, <2>7, <2>8, OthersParse
    <2> QED BY <2>6, <2>8, <2>11, <2>12, <2>13 DEF ParseInv
  <1> QED BY <1>2, <1>3 DEF Answer

(* A thread that has copied csock was started, and the next one was not.   *)
LEMMA SpawnStays ==
  ASSUME IInv, NEW t \in Threads, th[t].took # 0, \A u \in Threads \ {t} : th'[u] = th[u]
  PROVE  /\ webPc = "spawn" => accepted # 0 /\ th'[accepted].pc = "none"
         /\ ~(t > accepted)
  <1> USE DEF IInv, Types
  <1>1. th[t].pc # "none"
    BY DEF StartInv
  <1>2. ASSUME webPc = "spawn" PROVE accepted # 0 /\ th'[accepted].pc = "none"
    <2>1. accepted # 0 /\ th[accepted].pc = "none"
      BY <1>2 DEF StartInv
    <2>2. accepted \in Threads
      BY <2>1, Numbers DEF SceneTypes
    <2> QED BY <1>1, <2>1, <2>2
  <1>3. ~(t > accepted)
    BY <1>1 DEF StartInv
  <1> QED BY <1>2, <1>3

(* A thread closes its own descriptors and no others.                      *)
LEMMA CloseKeeps ==
  ASSUME IInv, NEW t \in Threads, Close(t)
  PROVE  IInv'
  <1> USE DEF IInv, Types
  <1>1. th[t].pc = "close" /\ th[t].took # 0 /\ Live(t)
    BY Started DEF Close, At, Live
  <1>2. CASE Dies("killed")
    BY <1>2, DiesKeeps
  <1>3. CASE /\ th[t].wfd # NoFd
             /\ fdt' = [f \in Fds |-> IF f \in {th[t].rfd, th[t].wfd} THEN Nobody ELSE fdt[f]]
             /\ Goto(t, "done")
             /\ UNCHANGED <<main, web, net, strtok, mixed, answers>>
    <2>1. "done" \in ThreadPCs
      BY DEF ThreadPCs
    <2>2. /\ th' \in [Threads -> Thread] /\ \A u \in Threads \ {t} : th'[u] = th[u]
          /\ th'[t].pc = "done" /\ th'[t].rfd = th[t].rfd /\ th'[t].wfd = th[t].wfd
          /\ th'[t].took = th[t].took /\ th'[t].asked = th[t].asked /\ th'[t].from = th[t].from
          /\ th'[t].i = th[t].i
      BY <1>3, <2>1, Going
    <2>3. \A f \in Fds : fdt'[f] \in {fdt[f], Nobody}
      BY <1>3
    <2>4. UNCHANGED <<csock, accepted, webPc, queued, sent, got, gone, answers, strtok, mixed>>
      BY <1>3 DEF web, net
    <2>5. ThreadTypes' /\ SceneTypes'
      BY <1>3, <2>2 DEF ThreadTypes, SceneTypes, main, web
    <2>6. NetTypes'
      BY <1>3, <2>3, <2>4, ClientsAssumption DEF NetTypes
    <2>7. /\ OwnConnections' = OwnConnections
          /\ \A k : Untaken(k)' = Untaken(k)
      BY <2>2 DEF OwnConnections, Untaken
    <2>8. StartInv'
      BY <1>1, <2>2, <2>4, SpawnStays DEF StartInv
    <2>9. /\ ~Live(t)' /\ \A u \in Threads \ {t} : Live(u)' = Live(u)
          /\ \A u \in Threads : Mine(u)' = Mine(u)
          /\ Fresh' = Fresh
      BY <2>2, <2>4, <2>7 DEF Live, Mine, Fresh, Untaken
    <2>10. \A f \in Fds : f \notin Mine(t) => fdt'[f] = fdt[f]
      BY <1>3, Numbers DEF Mine
    <2>11. OwnConnections /\ Ownership => Ownership'
      <3> SUFFICES ASSUME OwnConnections, Ownership PROVE Ownership'
        OBVIOUS
      <3>1. ASSUME NEW u \in Threads, Live(u)'
            PROVE  u # t /\ Live(u) /\ Serving(u) /\ \A f \in Mine(u) : f \in Fds /\ fdt'[f] = fdt[f]
        <4>1. u # t /\ Live(u) /\ Serving(u)
          BY <2>9, <3>1 DEF Ownership
        <4>2. Mine(u) \subseteq Fds
          BY ThreadType DEF Mine, Thread
        <4>3. Mine(u) \cap Mine(t) = {}
          BY <1>1, <4>1 DEF Ownership
        <4> QED BY <2>10, <4>1, <4>2, <4>3
      <3>2. ASSUME NEW u \in Threads, Live(u)' PROVE Serving(u)'
        <4>1. u # t /\ th'[u] = th[u] /\ Serving(u) /\ \A f \in Mine(u) : fdt'[f] = fdt[f]
          BY <2>2, <3>1, <3>2
        <4>2. /\ th[u].rfd # NoFd => fdt'[th[u].rfd] = fdt[th[u].rfd]
              /\ th[u].wfd # NoFd => fdt'[th[u].wfd] = fdt[th[u].wfd]
          BY <4>1 DEF Mine
        <4>3. th[u].pc # "open" => fdt'[th[u].rfd] = fdt[th[u].rfd]
          BY <4>1, <4>2 DEF Serving
        <4>4. /\ th[u].wfd # NoFd => th[u].pc # "open"
              /\ th[u].asked # Nobody => th[u].pc # "open"
          BY DEF StartInv
        <4> QED BY <2>4, <4>1, <4>2, <4>3, <4>4 DEF Serving, Mine
      <3>3. \A u, v \in Threads : u # v /\ Live(u)' /\ Live(v)' =>
               \A f \in Mine(u), g \in Mine(v) : fdt'[f] # fdt'[g]
        <4> SUFFICES ASSUME NEW u \in Threads, NEW v \in Threads, u # v, Live(u)', Live(v)',
                            NEW f \in Mine(u), NEW g \in Mine(v)
                     PROVE  fdt'[f] # fdt'[g]
          OBVIOUS
        <4>1. fdt'[f] = fdt[f] /\ fdt'[g] = fdt[g] /\ Live(u) /\ Live(v)
          BY <3>1
        <4> QED BY <4>1 DEF Ownership
      <3>4. Fresh => /\ fdt'[csock] = fdt[csock] /\ fdt[csock] \in Clients /\ got[fdt[csock]] = 1
                     /\ \A u \in Threads : Live(u)' => \A f \in Mine(u) : fdt'[f] # fdt'[csock]
        <4> SUFFICES ASSUME Fresh
                     PROVE  /\ fdt'[csock] = fdt[csock] /\ fdt[csock] \in Clients
                            /\ got[fdt[csock]] = 1
                            /\ \A u \in Threads : Live(u)' => \A f \in Mine(u) : fdt'[f] # fdt'[csock]
          OBVIOUS
        <4>1. csock \in Fds /\ csock \notin Mine(t) /\ fdt[csock] \in Clients /\ got[fdt[csock]] = 1
          BY <1>1 DEF Fresh, Ownership, SceneTypes
        <4>2. fdt'[csock] = fdt[csock]
          BY <2>10, <4>1
        <4> QED BY <3>1, <4>1, <4>2 DEF Ownership
      <3> QED BY <2>4, <2>9, <3>2, <3>3, <3>4 DEF Ownership
    <2>12. OwnConnections /\ Ownership /\ Accounted => Accounted'
      <3> SUFFICES ASSUME OwnConnections, Ownership, Accounted, NEW f \in Fds, fdt'[f] \in Clients
                   PROVE  \/ \E u \in Threads : Live(u)' /\ f \in Mine(u)'
                          \/ Fresh' /\ f = csock
                          \/ \E k \in 1..(accepted - 1) : Untaken(k)'
        BY <2>4 DEF Accounted
      <3>1. f \notin Mine(t)
        BY <1>3, ClientsAssumption DEF Mine
      <3>2. fdt[f] \in Clients
        BY <2>10, <3>1
      <3>3. \/ \E u \in Threads : Live(u) /\ f \in Mine(u)
            \/ Fresh /\ f = csock
            \/ \E k \in 1..(accepted - 1) : Untaken(k)
        BY <3>2 DEF Accounted
      <3> QED BY <2>7, <2>9, <3>1, <3>3
    <2>13. Answered => Answered'
      <3>1. \A u \in Threads : th'[u].asked = th[u].asked
        BY <2>2
      <3> QED BY <2>4, <3>1 DEF Answered, NetTypes
    <2>14. OwnInv'
      BY <2>7, <2>11, <2>12, <2>13 DEF OwnInv
    <2>15. ParseOf(t)'
      <3>1. Counting(t)' /\ Position(t)'
        BY <1>1, <2>2, Alone DEF Counting, Position, Parsing
      <3>2. ASSUME NEW c \in Clients, t \notin mixed', th'[t].asked = c PROVE Understood(t, c)'
        <4>1. Understood(t, c)
          BY <2>2, <2>4, <3>2, Alone, ClientsAssumption
        <4> QED BY <1>1, <2>2, <2>4, <2>7, <4>1 DEF Understood, Querying
      <3> QED BY <2>2, <3>1, <3>2, ParsedWell, ThreadType
    <2>16. \A u \in Threads \ {t} : ParseOf(u)'
      BY <2>2, <2>4, <2>7, OthersParse
    <2> QED BY <2>5, <2>6, <2>8, <2>14, <2>15, <2>16 DEF ParseInv
  <1> QED BY <1>2, <1>3 DEF Close

(* The number dup gives was nobody's.                                      *)
LEMMA OpenStreamsKeeps ==
  ASSUME IInv, NEW t \in Threads, OpenStreams(t)
  PROVE  IInv'
  <1> USE DEF IInv, Types
  <1>1. th[t].pc = "open" /\ th[t].took # 0 /\ Live(t) /\ th[t].asked = Nobody /\ th[t].wfd = NoFd
    BY Started DEF OpenStreams, At, Live, StartInv
  <1>2. CASE Dies("killed")
    BY <1>2, DiesKeeps
  <1>3. CASE /\ Open(th[t].rfd)
             /\ IF FreeFds = {}
                  THEN Goto(t, "line") /\ UNCHANGED fdt
                  ELSE /\ fdt' = [fdt EXCEPT ![LowestFree] = fdt[th[t].rfd]]
                       /\ th' = [th EXCEPT ![t].wfd = LowestFree, ![t].pc = "line"]
             /\ UNCHANGED <<main, web, net, strtok, mixed, answers>>
    <2> DEFINE w == th'[t].wfd
               c == fdt[th[t].rfd]
    <2>1. th[t].rfd \in Fds /\ th[t].rfd # NoFd /\ c \in Clients
      BY <1>3, ClientsAssumption, ThreadType DEF Open, Thread, NetTypes
    <2>2. "line" \in ThreadPCs
      BY DEF ThreadPCs
    <2>3. /\ th' \in [Threads -> Thread] /\ \A u \in Threads \ {t} : th'[u] = th[u]
          /\ th'[t].pc = "line" /\ th'[t].rfd = th[t].rfd /\ th'[t].i = th[t].i
          /\ th'[t].took = th[t].took /\ th'[t].asked = th[t].asked
          /\ fdt' \in [Fds -> Clients \union {Nobody}]
          /\ w # NoFd => w \in Fds /\ fdt[w] = Nobody /\ fdt'[w] = c
          /\ \A f \in Fds : f # w => fdt'[f] = fdt[f]
      <3>1. CASE FreeFds = {}
        <4>1. Goto(t, "line") /\ fdt' = fdt
          BY <1>3, <3>1
        <4>2. w = NoFd
          BY <1>1, <2>2, <4>1, Going
        <4> QED BY <2>2, <4>1, <4>2, Going DEF NetTypes
      <3>2. CASE FreeFds # {}
        <4> DEFINE l == LowestFree
                   r == [[th[t] EXCEPT !.wfd = l] EXCEPT !.pc = "line"]
        <4>1. l \in Fds /\ fdt[l] = Nobody /\ l # NoFd
          BY <3>2, LowestIsFree
        <4>2. fdt' = [fdt EXCEPT ![l] = c]
          BY <1>3, <3>2
        <4>3. th' = [th EXCEPT ![t] = r]
          BY <1>3, <3>2 DEF ThreadTypes, Thread
        <4> HIDE DEF l
        <4>4. r \in Thread /\ r.pc = "line" /\ r.rfd = th[t].rfd /\ r.i = th[t].i /\ r.wfd = l
              /\ r.took = th[t].took /\ r.asked = th[t].asked
          BY <2>2, <4>1, ThreadType DEF Thread
        <4> HIDE DEF r, c
        <4>5. /\ th' \in [Threads -> Thread] /\ \A u \in Threads \ {t} : th'[u] = th[u]
              /\ th'[t] = r
          BY <4>3, <4>4, Changing
        <4>6. fdt' \in [Fds -> Clients \union {Nobody}] /\ fdt'[l] = c
              /\ \A f \in Fds : f # l => fdt'[f] = fdt[f]
          BY <2>1, <4>1, <4>2 DEF NetTypes
        <4> QED BY <4>1, <4>4, <4>5, <4>6
      <3> QED BY <3>1, <3>2
    <2>4. UNCHANGED <<csock, accepted, webPc, queued, sent, got, gone, answers, strtok, mixed>>
      BY <1>3 DEF web, net
    <2>5. fdt'[th[t].rfd] = c
      BY <2>1, <2>3
    <2>6. \A f \in Fds : fdt'[f] = fdt[f] \/ (fdt'[f] = c /\ f = w)
      BY <2>1, <2>3, Numbers
    <2> HIDE DEF w
    <2>7. ThreadTypes' /\ SceneTypes'
      BY <1>3, <2>3 DEF ThreadTypes, SceneTypes, main, web
    <2>8. NetTypes'
      BY <2>1, <2>3, <2>4, <2>6 DEF NetTypes
    <2>9. /\ OwnConnections' = OwnConnections
          /\ \A k : Untaken(k)' = Untaken(k)
          /\ \A u \in Threads : Live(u)' = Live(u)
          /\ Fresh' = Fresh
      BY <1>1, <2>3, <2>4 DEF OwnConnections, Untaken, Live, Fresh
    <2>10. StartInv'
      BY <1>1, <2>3, <2>4, SpawnStays DEF StartInv
    <2>11. /\ Mine(t) = {th[t].rfd} /\ Mine(t)' = Mine(t) \union ({w} \ {NoFd})
           /\ \A u \in Threads \ {t} : Mine(u)' = Mine(u)
      BY <1>1, <2>1, <2>3 DEF Mine, w
    <2>12. OwnConnections /\ Ownership => Ownership'
      <3> SUFFICES ASSUME OwnConnections, Ownership PROVE Ownership'
        OBVIOUS
      <3>1. ASSUME NEW u \in Threads, Live(u)
            PROVE  Serving(u) /\ \A f \in Mine(u) : f \in Fds /\ f # w /\ fdt'[f] = fdt[f]
        <4>1. Serving(u) /\ \A f \in Mine(u) : fdt[f] \in Clients /\ f # NoFd
          BY <3>1 DEF Ownership, Serving, Mine
        <4>2. Mine(u) \subseteq Fds
          BY ThreadType DEF Mine, Thread
        <4> QED BY <2>3, <4>1, <4>2, ClientsAssumption
      <3>2. \A f \in Mine(t)' : fdt'[f] = c
        BY <2>1, <2>3, <2>5, <2>11
      <3>3. Serving(t)'
        <4>1. Serving(t) /\ w # th[t].rfd
          BY <1>1, <2>11, <3>1
        <4>2. got[c] = 1
          BY <1>1, <2>1, <4>1 DEF Serving
        <4> QED BY <1>1, <2>1, <2>3, <2>4, <2>5, <3>2, <4>1, <4>2 DEF Serving, w
      <3>4. ASSUME NEW u \in Threads \ {t}, Live(u) PROVE Serving(u)'
        <4>1. th'[u] = th[u] /\ Mine(u)' = Mine(u) /\ Serving(u) /\ \A f \in Mine(u) : fdt'[f] = fdt[f]
          BY <2>3, <2>11, <3>1, <3>4
        <4>2. /\ th[u].rfd # NoFd => fdt'[th[u].rfd] = fdt[th[u].rfd]
              /\ th[u].wfd # NoFd => fdt'[th[u].wfd] = fdt[th[u].wfd]
          BY <4>1 DEF Mine
        <4>3. th[u].pc # "open" => fdt'[th[u].rfd] = fdt[th[u].rfd]
          BY <4>1, <4>2 DEF Serving
        <4>4. /\ th[u].wfd # NoFd => th[u].pc # "open"
              /\ th[u].asked # Nobody => th[u].pc # "open"
          BY DEF StartInv
        <4> QED BY <2>4, <4>1, <4>2, <4>3, <4>4 DEF Serving
      <3>5. \A u \in Threads \ {t} : Live(u) => \A f \in Mine(u) : fdt[f] # c
        BY <1>1, <2>11 DEF Ownership
      <3>6. \A u, v \in Threads : u # v /\ Live(u) /\ Live(v) =>
               \A f \in Mine(u)', g \in Mine(v)' : fdt'[f] # fdt'[g]
        <4> SUFFICES ASSUME NEW u \in Threads, NEW v \in Threads, u # v, Live(u), Live(v),
                            NEW f \in Mine(u)', NEW g \in Mine(v)'
                     PROVE  fdt'[f] # fdt'[g]
          OBVIOUS
        <4>1. u # t => f \in Mine(u) /\ fdt'[f] = fdt[f]
          BY <2>11, <3>1
        <4>2. v # t => g \in Mine(v) /\ fdt'[g] = fdt[g]
          BY <2>11, <3>1
        <4>3. CASE u # t /\ v # t
          BY <4>1, <4>2, <4>3 DEF Ownership
        <4>4. CASE u = t
          BY <3>2, <3>5, <4>2, <4>4
        <4>5. CASE v = t
          BY <3>2, <3>5, <4>1, <4>5
        <4> QED BY <4>3, <4>4, <4>5
      <3>7. Fresh => /\ fdt'[csock] = fdt[csock] /\ fdt[csock] \in Clients /\ got[fdt[csock]] = 1
                     /\ \A u \in Threads : Live(u) => \A f \in Mine(u)' : fdt'[f] # fdt'[csock]
        <4> SUFFICES ASSUME Fresh
                     PROVE  /\ fdt'[csock] = fdt[csock] /\ fdt[csock] \in Clients
                            /\ got[fdt[csock]] = 1
                            /\ \A u \in Threads : Live(u) =>
                                  \A f \in Mine(u)' : fdt'[f] # fdt'[csock]
          OBVIOUS
        <4>1. csock \in Fds /\ fdt[csock] \in Clients /\ csock # NoFd /\ got[fdt[csock]] = 1
              /\ \A u \in Threads : Live(u) => \A f \in Mine(u) : fdt[f] # fdt[csock]
          BY DEF Fresh, Ownership, SceneTypes
        <4>2. fdt'[csock] = fdt[csock]
          BY <2>3, <4>1, ClientsAssumption
        <4>3. c # fdt[csock]
          BY <1>1, <2>11, <4>1
        <4>4. \A u \in Threads \ {t} : Live(u) => \A f \in Mine(u)' : fdt'[f] # fdt'[csock]
          BY <2>11, <3>1, <4>1, <4>2
        <4> QED BY <3>2, <4>1, <4>2, <4>3, <4>4
      <3> QED BY <2>4, <2>9, <3>3, <3>4, <3>6, <3>7 DEF Ownership
    <2>13. Accounted => Accounted'
      <3> SUFFICES ASSUME Accounted, NEW f \in Fds, fdt'[f] \in Clients
                   PROVE  \/ \E u \in Threads : Live(u)' /\ f \in Mine(u)'
                          \/ Fresh' /\ f = csock
                          \/ \E k \in 1..(accepted - 1) : Untaken(k)'
        BY <2>4 DEF Accounted
      <3>1. CASE f = w
        BY <1>1, <2>9, <2>11, <3>1, Numbers
      <3>2. CASE f # w
        <4>1. fdt[f] \in Clients
          BY <2>3, <3>2 DEF w
        <4>2. \/ \E u \in Threads : Live(u) /\ f \in Mine(u)
              \/ Fresh /\ f = csock
              \/ \E k \in 1..(accepted - 1) : Untaken(k)
          BY <4>1 DEF Accounted
        <4> QED BY <2>9, <2>11, <4>2
      <3> QED BY <3>1, <3>2
    <2>14. OwnInv'
      <3>1. \A u \in Threads : th'[u].asked = th[u].asked
        BY <2>3
      <3>2. Answered => Answered'
        BY <2>4, <3>1 DEF Answered, NetTypes
      <3> QED BY <2>9, <2>12, <2>13, <3>2 DEF OwnInv
    <2>15. ParseOf(t)'
      BY <1>1, <2>3, Alone DEF ParseOf, Position, Counting, Parsing
    <2>16. \A u \in Threads \ {t} : ParseOf(u)'
      BY <2>3, <2>4, <2>9, OthersParse
    <2> QED BY <2>7, <2>8, <2>10, <2>14, <2>15, <2>16 DEF ParseInv
  <1> QED BY <1>2, <1>3 DEF OpenStreams

(* The request read on a thread's descriptor is of the connection it owns. *)
LEMMA ReadLineKeeps ==
  ASSUME IInv, NEW t \in Threads, ReadLine(t)
  PROVE  IInv'
  <1> USE DEF IInv, Types
  <1> DEFINE c == Peer(t)
             q == th'[t].pc
             mine == /\ c \in Clients /\ got[c] = 1
                     /\ th'[t].asked = c /\ th'[t].from = c
                     /\ q = Branch(Request[c].method) /\ strtok'.of = "line" /\ strtok'.left = 2
             stolen == th'[t].asked = Nobody /\ c \in Clients /\ got[c] # 1
             ended == th'[t].asked = Nobody /\ (c \in Clients => c \in gone)
  <1>1. th[t].pc = "line" /\ th[t].took # 0 /\ Live(t) /\ th[t].asked = Nobody
    BY Started DEF ReadLine, At, Live, StartInv
  <1>2. UNCHANGED <<main, web, fdt, queued, sent, gone, answers>>
    BY DEF ReadLine
  <1>3. UNCHANGED <<csock, accepted, webPc>>
    BY <1>2 DEF web
  <1>4. \A method : Branch(method) \in {"ok", "error", "path"} /\ Branch(method) \in ThreadPCs
    BY DEF Branch, ThreadPCs, Parsing
  <1>5. /\ th' \in [Threads -> Thread] /\ \A u \in Threads \ {t} : th'[u] = th[u]
        /\ q \in {"ok", "error", "path"} /\ th'[t].rfd = th[t].rfd /\ th'[t].wfd = th[t].wfd
        /\ th'[t].took = th[t].took /\ th'[t].i = th[t].i
        /\ Cuts(t) /\ mixed' \subseteq Threads /\ strtok'.by = t
        /\ mine \/ stolen \/ ended
        /\ \/ got' = got
           \/ c \in Clients /\ got[c] < sent[c] /\ got' = [got EXCEPT ![c] = sent[c]]
    <2>1. CASE /\ c \in Clients /\ got[c] < sent[c] /\ got' = [got EXCEPT ![c] = sent[c]]
               /\ got[c] = 1
               /\ th' = [th EXCEPT ![t].asked = c, ![t].from = c, ![t].whole = (sent[c] = 3),
                                   ![t].pc = Branch(Request[c].method)]
               /\ Strtok(t, "line", 2)
      <3> DEFINE m == sent[c] = 3
                 p == Branch(Request[c].method)
                 r == [[[[th[t] EXCEPT !.asked = c] EXCEPT !.from = c] EXCEPT !.whole = m] EXCEPT !.pc = p]
      <3>1. th' = [th EXCEPT ![t] = r]
        BY <2>1 DEF ThreadTypes, Thread
      <3>2. m \in BOOLEAN /\ c \in Clients /\ p \in ThreadPCs
        BY <1>4, <2>1
      <3> HIDE DEF m, c, p
      <3>3. r \in Thread /\ r.pc = p /\ r.rfd = th[t].rfd /\ r.wfd = th[t].wfd /\ r.i = th[t].i
            /\ r.took = th[t].took /\ r.asked = c /\ r.from = c
        BY <3>2, ThreadType DEF Thread
      <3> HIDE DEF r
      <3>4. th' \in [Threads -> Thread] /\ th'[t] = r /\ \A u \in Threads \ {t} : th'[u] = th[u]
        BY <3>1, <3>3, Changing
      <3>5. /\ Cuts(t) /\ mixed' \subseteq Threads
            /\ strtok'.by = t /\ strtok'.of = "line" /\ strtok'.left = 2
        BY <2>1, StrtokCuts
      <3> QED BY <1>4, <2>1, <3>2, <3>3, <3>4, <3>5 DEF p
    <2>2. CASE /\ c \in Clients /\ got[c] < sent[c] /\ got' = [got EXCEPT ![c] = sent[c]]
               /\ got[c] # 1
               /\ Goto(t, "error") /\ Strtok(t, "line", 1)
      <3>1. "error" \in ThreadPCs
        BY DEF ThreadPCs
      <3>2. Cuts(t) /\ mixed' \subseteq Threads /\ strtok'.by = t
        BY <2>2, StrtokCuts
      <3> QED BY <1>1, <2>2, <3>1, <3>2, Going
    <2>3. CASE /\ c \in Clients => c \in gone
               /\ \E method : Goto(t, Branch(method))
               /\ Strtok(t, "line", 2) /\ got' = got
      <3>1. PICK method : Goto(t, Branch(method))
        BY <2>3
      <3>2. Cuts(t) /\ mixed' \subseteq Threads /\ strtok'.by = t
        BY <2>3, StrtokCuts
      <3> QED BY <1>1, <1>4, <2>3, <3>1, <3>2, Going
    <2> QED BY <2>1, <2>2, <2>3 DEF ReadLine
  <1> HIDE DEF q, c
  <1>6. NetTypes' /\ \A d \in Clients : got'[d] # got[d] => th[t].rfd \in Fds /\ fdt[th[t].rfd] = d
    <2>1. CASE got' = got
      BY <1>2, <2>1 DEF NetTypes
    <2>2. CASE c \in Clients /\ got[c] < sent[c] /\ got' = [got EXCEPT ![c] = sent[c]]
      BY <1>2, <2>2, Reading DEF c
    <2> QED BY <1>5, <2>1, <2>2
  <1>7. ThreadTypes' /\ SceneTypes'
    BY <1>2, <1>5 DEF ThreadTypes, SceneTypes, Cuts, main, web
  <1>8. StartInv'
    <2>1. q \notin {"none", "arg", "lost", "open", "line", "close", "done"}
      BY <1>5
    <2> QED BY <1>1, <1>2, <1>3, <1>5, <2>1, SpawnStays DEF StartInv, q
  <1>9. /\ OwnConnections' = OwnConnections
        /\ \A n : Untaken(n)' = Untaken(n)
        /\ \A u \in Threads : Live(u)' = Live(u) /\ Mine(u)' = Mine(u)
        /\ Fresh' = Fresh
    BY <1>1, <1>3, <1>5 DEF OwnConnections, Untaken, Live, Mine, Fresh, q
  <1>10. OwnConnections /\ Ownership => Ownership'
    <2> SUFFICES ASSUME OwnConnections, Ownership PROVE Ownership'
      OBVIOUS
    <2>1. Serving(t) /\ th[t].rfd # NoFd /\ c = fdt[th[t].rfd] /\ c \in Clients /\ got[c] = 1
      <3>1. Serving(t) /\ th[t].rfd # NoFd /\ fdt[th[t].rfd] \in Clients
        BY <1>1 DEF Ownership, Serving, Mine
      <3>2. c = fdt[th[t].rfd]
        BY <3>1, ClientsAssumption DEF c, Peer, Open
      <3> QED BY <1>1, <3>1, <3>2 DEF Serving
    <2>2. Serving(t)'
      BY <1>2, <1>5, <1>9, <2>1, ClientsAssumption DEF Serving, q
    <2>3. ASSUME NEW u \in Threads \ {t}, Live(u) PROVE Serving(u)'
      <3>1. Serving(u) /\ th'[u] = th[u]
        BY <1>5, <2>3 DEF Ownership
      <3>2. th[u].rfd # NoFd => th[u].rfd \in Mine(u) /\ fdt[th[u].rfd] \in Clients
        BY <3>1 DEF Mine, Serving
      <3>3. th[u].rfd # NoFd => fdt[th[u].rfd] # fdt[th[t].rfd]
        BY <1>1, <2>1, <2>3, <3>2 DEF Ownership, Mine
      <3>4. th[u].rfd # NoFd => got'[fdt[th[u].rfd]] = got[fdt[th[u].rfd]]
        BY <1>6, <3>2, <3>3
      <3> QED BY <1>2, <1>9, <3>1, <3>4 DEF Serving
    <2>4. Fresh => got'[fdt[csock]] = 1
      <3> SUFFICES ASSUME Fresh PROVE got'[fdt[csock]] = 1
        OBVIOUS
      <3>1. got[fdt[csock]] = 1 /\ fdt[csock] \in Clients /\ fdt[th[t].rfd] # fdt[csock]
        BY <1>1, <2>1 DEF Ownership, Mine
      <3> QED BY <1>6, <3>1
    <2> QED BY <1>2, <1>3, <1>9, <2>2, <2>3, <2>4 DEF Ownership
  <1>11. Accounted => Accounted'
    BY <1>2, <1>3, <1>9 DEF Accounted
  <1>12. Answered => Answered'
    <2> SUFFICES ASSUME Answered, NEW d \in Clients, NEW u \in answers[d]
                 PROVE  th'[u].asked \in {d, Nobody} /\ (th'[u].asked = Nobody => d \in gone)
      BY <1>2 DEF Answered
    <2>1. u \in Threads /\ u # t
      BY <1>1 DEF StartInv, NetTypes
    <2> QED BY <1>5, <2>1 DEF Answered
  <1>13. OwnInv'
    BY <1>9, <1>10, <1>11, <1>12 DEF OwnInv
  <1>14. ParseOf(t)'
    <2>1. th'[t].asked \in Clients \union {Nobody}
      BY <1>5
    <2>2. Counting(t)' /\ Position(t)'
      BY <1>1, <1>5, Alone DEF Counting, Position, q
    <2>3. ASSUME NEW d \in Clients, th'[t].asked = d PROVE Understood(t, d)'
      <3>1. mine
        BY <1>5, <2>3, ClientsAssumption
      <3>2. c = d
        BY <2>3, <3>1
      <3>3. q = "path" => Request[d].method = "GET"
        BY <3>1, <3>2 DEF Branch
      <3>4. q \in {"ok", "error"} => ~Dropped(Request[d])
        BY <3>1, <3>2 DEF Branch, Dropped
      <3> QED BY <1>5, <3>1, <3>2, <3>3, <3>4 DEF Understood, Querying, q
    <2> QED BY <2>1, <2>2, <2>3, ParsedWell
  <1>15. \A u \in Threads \ {t} : ParseOf(u)'
    BY <1>2, <1>5, <1>9, OthersParse
  <1> QED BY <1>6, <1>7, <1>8, <1>13, <1>14, <1>15 DEF ParseInv

(* accept overwrites csock: if nobody had copied it, its accept is lost.   *)
LEMMA AcceptKeeps ==
  ASSUME IInv, NEW c \in Clients, Accept(c)
  PROVE  IInv'
  <1> USE DEF IInv, Types
  <1>1. /\ accepted' = accepted + 1 /\ webPc' = "spawn"
        /\ UNCHANGED <<main, sent, got, gone, th, strtok, mixed, answers>>
    BY DEF Accept
  <1>2. accepted' \in Threads /\ accepted \in Nat /\ accepted' > accepted /\ accepted' # 0
    <2>1. scene.callers \in SUBSET Clients
      BY DEF SceneTypes, Scene
    <2>2. Cardinality(scene.callers) <= MaxAccepts /\ Cardinality(scene.callers) \in Nat
      BY <2>1, ClientsAssumption, FS_Subset, FS_CardinalityType DEF MaxAccepts
    <2>3. accepted < Cardinality(scene.callers) /\ accepted \in Nat
      BY DEF Accept, SceneTypes
    <2> QED BY <1>1, <2>2, <2>3, Numbers
  <1>3. got[c] = 1 /\ \A f \in Fds : fdt[f] # c
    BY DEF Accept, NetTypes
  <1>4. /\ csock' \in Fds \union {NoFd} /\ fdt' \in [Fds -> Clients \union {Nobody}]
        /\ queued' \subseteq queued
        /\ csock' # NoFd => /\ csock' \in Fds /\ fdt[csock'] = Nobody /\ fdt'[csock'] = c
                            /\ c \notin queued'
        /\ \A f \in Fds : f # csock' => fdt'[f] = fdt[f]
    <2>1. CASE FreeFds = {}
      BY <2>1 DEF Accept, NetTypes
    <2>2. CASE FreeFds # {}
      <3> DEFINE l == LowestFree
      <3>1. l \in Fds /\ fdt[l] = Nobody /\ l # NoFd
        BY <2>2, LowestIsFree
      <3>2. csock' = l /\ fdt' = [fdt EXCEPT ![l] = c] /\ queued' = queued \ {c}
        BY <2>2 DEF Accept
      <3> HIDE DEF l
      <3> QED BY <3>1, <3>2 DEF NetTypes
    <2> QED BY <2>1, <2>2
  <1>5. SceneTypes' /\ ThreadTypes'
    BY <1>1, <1>2, <1>4, Numbers DEF SceneTypes, ThreadTypes, main
  <1>6. NetTypes'
    <2>1. sent[c] # 0
      BY DEF Accept, NetTypes
    <2>2. ASSUME NEW d \in Clients, sent[d] = 0 \/ d \in queued'
          PROVE  got[d] = 1 /\ \A f \in Fds : fdt'[f] # d
      <3>1. got[d] = 1 /\ \A f \in Fds : fdt[f] # d
        BY <1>4, <2>2 DEF NetTypes
      <3>2. ASSUME NEW f \in Fds PROVE fdt'[f] # d
        <4>1. CASE f = csock'
          <5>1. fdt'[f] = c /\ c \notin queued'
            BY <1>4, <4>1, Numbers
          <5> QED BY <2>1, <2>2, <5>1
        <4>2. CASE f # csock'
          BY <1>4, <3>1, <4>2
        <4> QED BY <4>1, <4>2
      <3> QED BY <3>1, <3>2
    <2> QED BY <1>1, <1>4, <2>2 DEF NetTypes
  <1>7. StartInv'
    <2>1. th[accepted'].pc = "none"
      BY <1>2 DEF StartInv
    <2>2. \A t \in Threads : t > accepted' => t > accepted
      BY <1>1, <1>2, Numbers
    <2>3. \A t \in Threads : th[t].took <= accepted'
      <3> SUFFICES ASSUME NEW t \in Threads PROVE th[t].took <= accepted'
        OBVIOUS
      <3>1. th[t].took <= accepted /\ th[t].took \in Int
        BY Numbers, ThreadType DEF StartInv, Thread
      <3> QED BY <1>1, <1>2, <3>1
    <2> QED BY <1>1, <1>2, <2>1, <2>2, <2>3 DEF StartInv
  <1>8. /\ OwnConnections' = OwnConnections
        /\ \A k : Untaken(k)' = Untaken(k)
        /\ \A t \in Threads : Live(t)' = Live(t) /\ Mine(t)' = Mine(t)
    BY <1>1 DEF OwnConnections, Untaken, Live, Mine
  <1>9. OwnConnections /\ Ownership => Ownership'
    <2> SUFFICES ASSUME OwnConnections, Ownership PROVE Ownership'
      OBVIOUS
    <2>1. ASSUME NEW t \in Threads, Live(t)
          PROVE  Serving(t) /\ \A f \in Mine(t) : f \in Fds /\ fdt'[f] = fdt[f] /\ fdt[f] # c
      <3>1. Serving(t) /\ \A f \in Mine(t) : fdt[f] \in Clients /\ f # NoFd
        BY <2>1 DEF Ownership, Serving, Mine
      <3>2. Mine(t) \subseteq Fds
        BY ThreadType DEF Mine, Thread
      <3>3. \A f \in Mine(t) : f # csock'
        BY <1>4, <3>1, ClientsAssumption
      <3> QED BY <1>3, <1>4, <3>1, <3>2, <3>3
    <2>2. ASSUME NEW t \in Threads, Live(t) PROVE Serving(t)'
      <3>1. Serving(t) /\ \A f \in Mine(t) : fdt'[f] = fdt[f]
        BY <2>1, <2>2
      <3>2. /\ th[t].rfd # NoFd => fdt'[th[t].rfd] = fdt[th[t].rfd]
            /\ th[t].wfd # NoFd => fdt'[th[t].wfd] = fdt[th[t].wfd]
        BY <3>1 DEF Mine
      <3>3. th[t].pc # "open" => fdt'[th[t].rfd] = fdt[th[t].rfd]
        BY <3>1, <3>2 DEF Serving
      <3>4. /\ th[t].wfd # NoFd => th[t].pc # "open"
            /\ th[t].asked # Nobody => th[t].pc # "open"
        BY DEF StartInv
      <3> QED BY <1>1, <1>8, <3>1, <3>2, <3>3, <3>4 DEF Serving
    <2>3. \A t, u \in Threads : t # u /\ Live(t) /\ Live(u) =>
             \A f \in Mine(t), g \in Mine(u) : fdt'[f] # fdt'[g]
      BY <2>1 DEF Ownership
    <2>4. Fresh' => /\ fdt'[csock'] \in Clients /\ got'[fdt'[csock']] = 1
                    /\ \A t \in Threads : Live(t) => \A f \in Mine(t) : fdt'[f] # fdt'[csock']
      BY <1>1, <1>3, <1>4, <2>1 DEF Fresh
    <2> QED BY <1>8, <2>2, <2>3, <2>4 DEF Ownership
  <1>10. Accounted => Accounted'
    <2> SUFFICES ASSUME Accounted, NEW f \in Fds, fdt'[f] \in Clients
                 PROVE  \/ \E t \in Threads : Live(t)' /\ f \in Mine(t)'
                        \/ Fresh' /\ f = csock'
                        \/ \E k \in 1..(accepted' - 1) : Untaken(k)'
      BY DEF Accounted
    <2>1. CASE f = csock'
      <3>1. Untaken(accepted')
        <4> SUFFICES ASSUME NEW t \in Threads PROVE th[t].took # accepted'
          BY DEF Untaken
        <4>1. th[t].took <= accepted /\ th[t].took \in Int
          BY Numbers, ThreadType DEF StartInv, Thread
        <4> QED BY <1>2, <4>1
      <3>2. csock' # NoFd
        BY <2>1, Numbers
      <3>3. Fresh'
        BY <1>1, <3>1, <3>2 DEF Fresh, Untaken
      <3> QED BY <2>1, <3>3
    <2>2. CASE f # csock'
      <3>1. fdt[f] \in Clients
        BY <1>4, <2>2
      <3>2. \/ \E t \in Threads : Live(t) /\ f \in Mine(t)
            \/ Fresh /\ f = csock
            \/ \E k \in 1..(accepted - 1) : Untaken(k)
        BY <3>1 DEF Accounted
      <3>3. CASE Fresh /\ f = csock
        <4>1. Untaken(accepted) /\ accepted # 0
          BY <3>3 DEF Fresh, StartInv
        <4>2. accepted \in 1..(accepted' - 1)
          BY <1>1, <1>2, <4>1
        <4> QED BY <1>8, <4>1, <4>2
      <3>4. CASE \E k \in 1..(accepted - 1) : Untaken(k)
        <4>1. 1..(accepted - 1) \subseteq 1..(accepted' - 1)
          BY <1>1, <1>2
        <4> QED BY <1>8, <3>4, <4>1
      <3> QED BY <1>8, <3>2, <3>3, <3>4
    <2> QED BY <2>1, <2>2
  <1>11. OwnInv'
    <2>1. Answered => Answered'
      BY <1>1 DEF Answered
    <2> QED BY <1>8, <1>9, <1>10, <2>1 DEF OwnInv
  <1>12. ParseInv'
    <2> SUFFICES ASSUME NEW t \in Threads PROVE ParseOf(t)'
      BY DEF ParseInv
    <2>1. th' = th /\ strtok' = strtok /\ mixed' = mixed /\ answers' = answers
      BY <1>1
    <2>2. Counting(t)' /\ (t \notin mixed' => Position(t)')
      BY <2>1, Alone DEF Counting, Position
    <2>3. ASSUME NEW d \in Clients, t \notin mixed', th'[t].asked = d PROVE Understood(t, d)'
      <3>1. Understood(t, d)
        BY <2>1, <2>3, Alone, ClientsAssumption
      <3> QED BY <1>8, <2>1, <3>1 DEF Understood
    <2> QED BY <2>1, <2>2, <2>3, ParsedWell, ThreadType
  <1> QED BY <1>5, <1>6, <1>7, <1>11, <1>12

(* A thread that has copied no csock yet.                                  *)
LEMMA IdleKeeps ==
  ASSUME IInv, NEW t \in Threads, th[t].took = 0, NEW q \in {"arg", "lost"}, Goto(t, q),
         UNCHANGED <<csock, accepted, fdt, got, gone, answers, strtok, mixed>>
  PROVE  OwnInv' /\ ParseInv'
  <1> USE DEF IInv, Types
  <1>1. q \in ThreadPCs
    BY DEF ThreadPCs
  <1>2. /\ \A u \in Threads \ {t} : th'[u] = th[u]
        /\ th'[t].pc = q /\ th'[t].rfd = th[t].rfd /\ th'[t].wfd = th[t].wfd
        /\ th'[t].took = 0 /\ th'[t].asked = Nobody /\ th'[t].i = th[t].i
    BY <1>1, Going DEF StartInv
  <1>3. /\ OwnConnections' = OwnConnections
        /\ \A k : Untaken(k)' = Untaken(k)
        /\ \A u \in Threads : Live(u)' = Live(u) /\ Mine(u)' = Mine(u)
        /\ \A u \in Threads : Live(u) => u # t
        /\ Fresh' = Fresh
    BY <1>2 DEF OwnConnections, Untaken, Live, Mine, Fresh
  <1>4. Ownership => Ownership'
    BY <1>2, <1>3 DEF Ownership, Serving
  <1>5. Accounted => Accounted'
    BY <1>3 DEF Accounted
  <1>6. Answered => Answered'
    <2>1. \A u \in Threads : th'[u].asked = th[u].asked
      BY <1>2 DEF StartInv
    <2> QED BY <2>1 DEF Answered, NetTypes
  <1>7. ParseOf(t)'
    <2>1. th[t].pc \in {"none", "arg", "lost"}
      BY DEF StartInv
    <2> QED BY <1>2, <2>1, Alone DEF ParseOf, Position, Counting, Parsing
  <1>8. \A u \in Threads \ {t} : ParseOf(u)'
    BY <1>2, <1>3, OthersParse
  <1> QED BY <1>3, <1>4, <1>5, <1>6, <1>7, <1>8 DEF OwnInv, ParseInv

LEMMA SpawnKeeps ==
  ASSUME IInv, Spawn
  PROVE  IInv'
  <1> USE DEF IInv, Types
  <1>1. accepted \in Threads /\ th[accepted].pc = "none" /\ th[accepted].took = 0
    BY Numbers DEF Spawn, StartInv, SceneTypes
  <1>2. Goto(accepted, "arg") /\ UNCHANGED <<main, csock, accepted, fdt, net, strtok, mixed, answers>>
        /\ webPc' = "test"
    BY DEF Spawn
  <1>3. "arg" \in ThreadPCs
    BY DEF ThreadPCs
  <1>4. /\ th' \in [Threads -> Thread] /\ \A u \in Threads \ {accepted} : th'[u] = th[u]
        /\ th'[accepted].pc = "arg" /\ th'[accepted].rfd = th[accepted].rfd
        /\ th'[accepted].wfd = th[accepted].wfd
        /\ th'[accepted].took = th[accepted].took /\ th'[accepted].asked = th[accepted].asked
    BY <1>1, <1>2, <1>3, Going
  <1>5. SceneTypes' /\ NetTypes' /\ ThreadTypes'
    BY <1>2, <1>4 DEF SceneTypes, NetTypes, ThreadTypes, main, net
  <1>6. StartInv'
    <2>1. ~(accepted > accepted)
      BY DEF SceneTypes
    <2> QED BY <1>1, <1>2, <1>4, <2>1 DEF StartInv
  <1>7. OwnInv' /\ ParseInv'
    BY <1>1, <1>2, IdleKeeps DEF net
  <1> QED BY <1>5, <1>6, <1>7

(* The thread that copies csock first owns it from then on.                *)
LEMMA ReadArgKeeps ==
  ASSUME IInv, NEW t \in Threads, ReadArg(t)
  PROVE  IInv'
  <1> USE DEF IInv, Types
  <1>1. /\ th[t].pc = "arg" /\ th[t].took = 0 /\ th[t].rfd = NoFd /\ th[t].wfd = NoFd
        /\ th[t].asked = Nobody /\ accepted # 0 /\ accepted \in 1..MaxAccepts
    <2>1. th[t].pc = "arg"
      BY DEF ReadArg, At
    <2>2. ~(t > accepted) /\ th[t].took = 0
      BY <2>1 DEF StartInv
    <2>3. accepted # 0 /\ accepted \in 1..MaxAccepts
      BY <2>2, Numbers DEF SceneTypes
    <2> QED BY <2>1, <2>2, <2>3 DEF StartInv
  <1>2. UNCHANGED <<main, web, fdt, net, strtok, mixed, answers>>
    BY DEF ReadArg
  <1>3. SceneTypes' /\ NetTypes'
    BY <1>2 DEF SceneTypes, NetTypes, main, web, net
  <1>4. UNCHANGED <<csock, accepted, webPc, fdt, got, gone, answers, strtok, mixed>>
    BY <1>2 DEF web, net
  <1>5. ASSUME \A u \in Threads \ {t} : th'[u] = th[u], th'[t].pc \in {"open", "lost"}
        PROVE  webPc = "spawn" => accepted # 0 /\ th'[accepted].pc = "none"
    <2> SUFFICES ASSUME webPc = "spawn" PROVE accepted # 0 /\ th'[accepted].pc = "none"
      OBVIOUS
    <2>1. accepted # 0 /\ th[accepted].pc = "none" /\ accepted \in Threads
      BY <1>1, Numbers DEF StartInv
    <2> QED BY <1>1, <1>5, <2>1
  <1>6. CASE Goto(t, "lost")
    <2>1. "lost" \in ThreadPCs
      BY DEF ThreadPCs
    <2>2. /\ th' \in [Threads -> Thread] /\ \A u \in Threads \ {t} : th'[u] = th[u]
          /\ th'[t].pc = "lost" /\ th'[t].rfd = th[t].rfd /\ th'[t].wfd = th[t].wfd
          /\ th'[t].took = th[t].took /\ th'[t].asked = th[t].asked
      BY <1>6, <2>1, Going
    <2>3. ThreadTypes'
      BY <1>4, <2>2 DEF ThreadTypes
    <2>4. StartInv'
      <3>1. ~(t > accepted)
        BY <1>1 DEF StartInv
      <3> QED BY <1>1, <1>4, <1>5, <2>2, <3>1 DEF StartInv
    <2>5. OwnInv' /\ ParseInv'
      BY <1>1, <1>4, <1>6, IdleKeeps
    <2> QED BY <1>3, <2>3, <2>4, <2>5
  <1>7. CASE th' = [th EXCEPT ![t].rfd = csock, ![t].took = accepted, ![t].pc = "open"]
    <2>1. "open" \in ThreadPCs
      BY DEF ThreadPCs
    <2>2. /\ th' \in [Threads -> Thread] /\ \A u \in Threads \ {t} : th'[u] = th[u]
          /\ th'[t].pc = "open" /\ th'[t].rfd = csock /\ th'[t].wfd = NoFd
          /\ th'[t].took = accepted /\ th'[t].asked = Nobody /\ th'[t].i = th[t].i
      <3> DEFINE r == [[[th[t] EXCEPT !.rfd = csock] EXCEPT !.took = accepted] EXCEPT !.pc = "open"]
      <3>1. th' = [th EXCEPT ![t] = r]
        BY <1>7 DEF ThreadTypes, Thread
      <3>2. csock \in Fds \union {NoFd} /\ accepted \in 0..MaxAccepts
        BY DEF SceneTypes
      <3>3. r \in Thread /\ r.pc = "open" /\ r.rfd = csock /\ r.wfd = NoFd
            /\ r.took = accepted /\ r.asked = Nobody /\ r.i = th[t].i
        BY <1>1, <2>1, <3>2, ThreadType DEF Thread
      <3> HIDE DEF r
      <3> QED BY <3>1, <3>3, Changing
    <2>3. ThreadTypes'
      BY <1>4, <2>2 DEF ThreadTypes
    <2>4. StartInv'
      <3>1. ~(t > accepted) /\ accepted <= accepted
        BY <1>1 DEF StartInv
      <3> QED BY <1>1, <1>4, <1>5, <2>2, <3>1 DEF StartInv
    <2>5. OwnConnections' => OwnConnections
      BY <1>1, <2>2, OwnBefore
    <2>6. OwnConnections' => Untaken(accepted)
      <3> SUFFICES ASSUME OwnConnections', NEW u \in Threads, th[u].took = accepted PROVE FALSE
        BY DEF Untaken
      <3>1. u # t
        BY <1>1
      <3>2. th'[u].took = accepted
        BY <2>2, <3>1
      <3> QED BY <1>1, <2>2, <3>1, <3>2 DEF OwnConnections
    <2>7. /\ \A u \in Threads \ {t} : Live(u)' = Live(u) /\ Mine(u)' = Mine(u)
          /\ Mine(t)' = {csock} \ {NoFd} /\ ~Live(t) /\ Live(t)'
          /\ ~Fresh'
          /\ \A k \in 1..(accepted - 1) : Untaken(k) => Untaken(k)'
      <3>1. \A u \in Threads \ {t} : Live(u)' = Live(u) /\ Mine(u)' = Mine(u)
        BY <2>2 DEF Live, Mine
      <3>2. Mine(t)' = {csock} \ {NoFd} /\ ~Live(t) /\ Live(t)'
        BY <1>1, <2>2 DEF Live, Mine
      <3>3. ~Fresh'
        BY <1>4, <2>2 DEF Fresh, Untaken
      <3>4. \A k \in 1..(accepted - 1) : Untaken(k) => Untaken(k)'
        <4> SUFFICES ASSUME NEW k \in 1..(accepted - 1), Untaken(k), NEW u \in Threads
                     PROVE  th'[u].took # k
          BY DEF Untaken
        <4>1. k # accepted
          BY <1>1
        <4> QED BY <2>2, <4>1 DEF Untaken
      <3> QED BY <3>1, <3>2, <3>3, <3>4
    <2>8. OwnConnections' /\ Ownership => Ownership'
      <3> SUFFICES ASSUME OwnConnections', Ownership PROVE Ownership'
        OBVIOUS
      <3>1. csock # NoFd => Fresh
        BY <2>6 DEF Fresh
      <3>2. Serving(t)'
        <4>1. csock # NoFd => fdt'[csock] \in Clients /\ got'[fdt'[csock]] = 1
          BY <1>4, <3>1 DEF Ownership
        <4> QED BY <2>2, <2>7, <4>1 DEF Serving
      <3>3. \A u \in Threads \ {t} : Live(u) => Serving(u)'
        BY <1>4, <2>2, <2>7 DEF Ownership, Serving
      <3>4. \A u \in Threads \ {t} : Live(u) =>
               \A f \in Mine(u)', g \in Mine(t)' : fdt'[f] # fdt'[g]
        BY <1>4, <2>7, <3>1 DEF Ownership
      <3>5. ASSUME NEW u \in Threads, NEW v \in Threads, u # v, Live(u)', Live(v)',
                   NEW f \in Mine(u)', NEW g \in Mine(v)'
            PROVE  fdt'[f] # fdt'[g]
        <4>1. CASE u # t /\ v # t
          BY <1>4, <2>7, <3>5, <4>1 DEF Ownership
        <4>2. CASE u = t
          BY <2>7, <3>4, <3>5, <4>2
        <4>3. CASE v = t
          BY <2>7, <3>4, <3>5, <4>3
        <4> QED BY <4>1, <4>2, <4>3
      <3>6. \A u \in Threads : Live(u)' => Serving(u)'
        BY <2>7, <3>2, <3>3
      <3> QED BY <2>7, <3>5, <3>6 DEF Ownership
    <2>9. Accounted => Accounted'
      <3> SUFFICES ASSUME Accounted, NEW f \in Fds, fdt'[f] \in Clients
                   PROVE  \/ \E u \in Threads : Live(u)' /\ f \in Mine(u)'
                          \/ Fresh' /\ f = csock
                          \/ \E k \in 1..(accepted - 1) : Untaken(k)'
        BY <1>4 DEF Accounted
      <3>1. \/ \E u \in Threads : Live(u) /\ f \in Mine(u)
            \/ Fresh /\ f = csock
            \/ \E k \in 1..(accepted - 1) : Untaken(k)
        BY <1>4 DEF Accounted
      <3>2. CASE \E u \in Threads : Live(u) /\ f \in Mine(u)
        BY <2>7, <3>2
      <3>3. CASE f = csock
        BY <2>7, <3>3, Numbers
      <3> QED BY <2>7, <3>1, <3>2, <3>3
    <2>10. OwnInv'
      <3>1. Answered => Answered'
        <4>1. \A u \in Threads : th'[u].asked = th[u].asked
          BY <1>1, <2>2
        <4> QED BY <1>4, <4>1 DEF Answered, NetTypes
      <3> QED BY <2>5, <2>8, <2>9, <3>1 DEF OwnInv
    <2>11. ParseOf(t)'
      BY <1>1, <2>2, Alone DEF ParseOf, Position, Counting, Parsing
    <2>12. \A u \in Threads \ {t} : ParseOf(u)'
      BY <1>4, <2>2, <2>5, OthersParse
    <2> QED BY <1>3, <2>3, <2>4, <2>10, <2>11, <2>12 DEF ParseInv
  <1> QED BY <1>6, <1>7 DEF ReadArg

(* Every step preserves IInv.                                              *)
LEMMA NextKeeps == IInv /\ [Next]_vars => IInv'
  <1> SUFFICES ASSUME IInv, [Next]_vars PROVE IInv'
    OBVIOUS
  <1>1. CASE UNCHANGED vars
    <2>1. SceneTypes' /\ NetTypes' /\ StartInv'
      BY <1>1 DEF IInv, Types, SceneTypes, NetTypes, StartInv, vars, main, web, net
    <2> QED BY <1>1, <2>1, QuietKeeps DEF vars, main, web, net
  <1>2. ASSUME NEW c \in Clients, Connect(c) \/ Send(c) \/ Leave(c) PROVE IInv'
    BY <1>2, ConnectKeeps, SendKeeps, LeaveKeeps
  <1>3. CASE JoystickEnter
    BY <1>3, JoystickKeeps
  <1>4. CASE MainEnds
    BY <1>4, DiesKeeps DEF MainEnds
  <1>5. CASE Web
    BY <1>5, WebTestKeeps, AcceptKeeps, SpawnKeeps DEF Web
  <1>6. ASSUME NEW t \in Threads, Parse(t) PROVE IInv'
    BY <1>6, ReadArgKeeps, OpenStreamsKeeps, ReadLineKeeps, ParsePathKeeps, QueryFileKeeps,
       QueryRestKeeps, FirstOptionKeeps, NextOptionKeeps, OptionNameKeeps, OptionValueKeeps,
       ReadHeadersKeeps DEF Parse
  <1>7. ASSUME NEW t \in Threads, Serve(t) PROVE IInv'
    BY <1>7, ReadSensorsKeeps, CaptureKeeps, AnswerKeeps, CloseKeeps
       DEF Serve, SendOk, SendError, SendPage
  <1> QED BY <1>1, <1>2, <1>3, <1>4, <1>5, <1>6, <1>7 DEF Next, Browser

(* The invariant holds in every reachable state.                           *)
LEMMA Invariance == Spec => []IInv
  <1> QED BY InitIInv, NextKeeps, PTL DEF Spec

-----------------------------------------------------------------------------
(* Every variable keeps its type: no path of clnt_connection names a       *)
(* descriptor, an option or a text the process does not have.              *)
THEOREM TypeCorrect == Spec => []TypeOK
  <1>1. IInv => TypeOK
    BY DEF IInv, Types, SceneTypes, NetTypes, ThreadTypes, StrtokType, TypeOK
  <1> QED BY <1>1, Invariance, PTL

(* However often descriptor numbers are closed and given again, an answer  *)
(* comes from a thread that read the request line of the client it goes    *)
(* to, as long as no two threads copied the same csock; and unless another *)
(* thread came between two of its calls of strtok, the answer is to what   *)
(* that client asked for.                                                  *)
THEOREM NoCrossTalkCorrect == Spec => []NoCrossTalk
  <1>1. IInv => NoCrossTalk
    <2> SUFFICES ASSUME IInv, OwnConnections, NEW c \in Clients, NEW t \in answers[c]
                 PROVE  /\ th[t].asked \in {c, Nobody}
                        /\ th[t].asked = Nobody => c \in gone
                        /\ th[t].asked = c /\ t \notin mixed => th[t].from = c
      BY DEF NoCrossTalk
    <2>1. t \in Threads
      BY DEF IInv, Types, NetTypes
    <2>2. th[t].asked = c /\ t \notin mixed => Understood(t, c)
      BY <2>1, Alone, ClientsAssumption
    <2> QED BY <2>2 DEF IInv, OwnInv, Answered, Understood
  <1> QED BY <1>1, Invariance, PTL

(* A thread nobody disturbed in strtok looks for what its client asked     *)
(* for, leaves unanswered just the queries without options, and copies     *)
(* from NULL just for an option that has no name or no value.              *)
THEOREM ParsedAloneCorrect == Spec => []ParsedAlone
  <1>1. IInv => ParsedAlone
    <2> SUFFICES ASSUME IInv, NEW t \in Threads \ mixed, NEW c \in Clients, th[t].asked = c
                 PROVE  LET r == Request[c] IN
                        /\ th[t].pc \in {"headers", "measure", "capture", "send"} =>
                              th[t].path.file = r.path.file /\ ~Dropped(r) /\ ~Crashes(r)
                        /\ th[t].pc \in {"close", "done"} /\ OwnConnections =>
                              (t \in answers[c]) = ~Dropped(r)
                        /\ th[t].pc = "name" /\ th[t].path.options[th[t].i] = 0 => Crashes(r)
                        /\ th[t].pc = "value" /\ strtok.left = 0 => Crashes(r)
      BY DEF ParsedAlone
    <2>1. Understood(t, c) /\ Counting(t)
      BY Alone, ClientsAssumption
    <2>2. ASSUME th[t].pc \in {"name", "value"}, Request[c].path.options[th[t].i] < 2
          PROVE  Crashes(Request[c])
      <3>1. /\ Request[c].method = "GET" /\ Request[c].path.query /\ Request[c].path.parts = 2
            /\ th[t].count = Len(Request[c].path.options)
        BY <2>1, <2>2 DEF Understood, Querying
      <3>2. th[t].i \in 1..Len(Request[c].path.options)
        <4>1. th[t].i \in Nat /\ Len(Request[c].path.options) \in Nat
          BY ThreadType, RequestType DEF IInv, Types
        <4> QED BY <2>1, <2>2, <3>1, <4>1 DEF Counting
      <3> QED BY <2>2, <3>1, <3>2 DEF Crashes
    <2>3. th[t].pc = "name" /\ th[t].path.options[th[t].i] = 0 => Crashes(Request[c])
      <3>1. th[t].pc = "name" => th[t].path = Request[c].path
        BY <2>1 DEF Understood, Querying
      <3> QED BY <2>2, <3>1
    <2>4. th[t].pc = "value" /\ strtok.left = 0 => Crashes(Request[c])
      <3> SUFFICES ASSUME th[t].pc = "value", strtok.left = 0 PROVE Crashes(Request[c])
        OBVIOUS
      <3>1. strtok.left = Request[c].path.options[th[t].i] - 1 /\ th[t].path = Request[c].path
        BY <2>1 DEF Understood, Querying
      <3>2. th[t].path.options[th[t].i] \in 0..2
        <4>1. th[t].i \in 1..Len(th[t].path.options)
          BY <2>1, ThreadType DEF Counting, IInv, Types
        <4> QED BY <4>1, ThreadType DEF IInv, Types
      <3>3. Request[c].path.options[th[t].i] < 2
        BY <3>1, <3>2
      <3> QED BY <2>2, <3>3
    <2> QED BY <2>1, <2>3, <2>4 DEF Understood
  <1> QED BY <1>1, Invariance, PTL

(* n threads that copied n different accepts have copied every accept.     *)
LEMMA AllTaken ==
  ASSUME NEW n \in Nat, NEW g \in [1..n -> 1..n], \A i, j \in 1..n : g[i] = g[j] => i = j
  PROVE  \A k \in 1..n : \E i \in 1..n : g[i] = k
  <1>1. g \in Injection(1..n, 1..n)
    BY DEF Injection, IsInjective
  <1>2. IsFiniteSet(1..n)
    BY FS_Interval
  <1>3. g \in Surjection(1..n, 1..n)
    BY <1>1, <1>2, FS_Injection
  <1> QED BY <1>3 DEF Surjection

(* No path through clnt_connection leaks a descriptor: when each thread    *)
(* had its own connection and all have finished, none is left open.        *)
THEOREM DescriptorsCorrect == Spec => []DescriptorsReturned
  <1>1. IInv => DescriptorsReturned
    <2> SUFFICES ASSUME IInv, OwnConnections, webPc # "spawn",
                        \A t \in 1..accepted : th[t].pc = "done",
                        NEW f \in Fds, fdt[f] \in Clients
                 PROVE  FALSE
      BY DEF DescriptorsReturned
    <2>1. accepted \in Nat /\ 1..accepted \subseteq Threads
      BY Numbers DEF IInv, Types, SceneTypes
    <2>2. \A t \in 1..accepted : th[t].took \in 1..accepted
      <3> SUFFICES ASSUME NEW t \in 1..accepted PROVE th[t].took \in 1..accepted
        OBVIOUS
      <3>1. t \in Threads /\ th[t].took \in 0..MaxAccepts
        BY <2>1 DEF IInv, Types, ThreadTypes, Thread
      <3>2. th[t].took # 0 /\ th[t].took <= accepted
        BY <3>1 DEF IInv, StartInv
      <3> QED BY <2>1, <3>1, <3>2, Numbers
    <2> DEFINE g == [t \in 1..accepted |-> th[t].took]
    <2>3. g \in [1..accepted -> 1..accepted] /\ \A t, u \in 1..accepted : g[t] = g[u] => t = u
      BY <2>1, <2>2 DEF OwnConnections
    <2>4. \A k \in 1..accepted : \E t \in 1..accepted : g[t] = k
      <3> HIDE DEF g
      <3> QED BY <2>1, <2>3, AllTaken
    <2>5. \A k \in 1..accepted : ~Untaken(k)
      BY <2>1, <2>4 DEF Untaken
    <2>6. \A t \in Threads : ~Live(t)
      <3> SUFFICES ASSUME NEW t \in Threads, Live(t) PROVE FALSE
        OBVIOUS
      <3>1. t \notin 1..accepted
        BY DEF Live
      <3>2. t > accepted
        BY <2>1, <3>1, Numbers
      <3>3. th[t].pc = "none" /\ th[t].took # 0
        BY <3>2 DEF IInv, StartInv, Live
      <3> QED BY <3>3 DEF IInv, StartInv
    <2>7. ~Fresh
      <3> SUFFICES ASSUME Fresh PROVE FALSE
        OBVIOUS
      <3>1. accepted # 0
        BY DEF Fresh, IInv, StartInv
      <3> QED BY <2>1, <2>5, <3>1 DEF Fresh
    <2>8. \E k \in 1..(accepted - 1) : Untaken(k)
      BY <2>6, <2>7 DEF IInv, OwnInv, Accounted
    <2>9. 1..(accepted - 1) \subseteq 1..accepted
      BY <2>1
    <2> QED BY <2>5, <2>8, <2>9
  <1> QED BY <1>1, Invariance, PTL
=============================================================================
