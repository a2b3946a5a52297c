------------------------- MODULE ObservationServer -------------------------
(***************************************************************************)
(* The observation servers of the Sense HAT, without their measurements    *)
(* (those are module SensorReading): rpi7.c, withPi.cpp, which has the     *)
(* same functions, and rpi6.c, which has no camera.  A web thread accepts  *)
(* connections and starts one clnt_connection thread per connection        *)
(* WITHOUT joining it.  Every connection thread reads its descriptor       *)
(* through the address of the web thread's local csock, parses the request *)
(* with strtok, measures, answers and closes, while main may end the       *)
(* process.                                                                *)
(*                                                                         *)
(* Descriptors are numbers of one table, allocated lowest-free, so that a  *)
(* number closed by one thread is the next connection's; the table holds   *)
(* the numbers above those main opened.  A browser sends its request at    *)
(* once, or, a slow one, the request line and then the headers, whenever   *)
(* it likes or never.  BOUND: as many accepts as there are callers.        *)
(***************************************************************************)
EXTENDS Integers, FiniteSets, Sequences

CONSTANTS
    Clients,    \* browsers, each making one connection and one request
    Scenes,     \* BOUND: the server, who connects, who of them sends its request in pieces
                \* or never, who may hang up unanswered
    Request,    \* per client, what it asks for
    MaxFd,      \* the last descriptor number the process may use
    Nobody      \* not a client

(* What a path names, and how strtok cuts it: is there a '?', into how     *)
(* many texts does it divide the path (two at most), and, for every option *)
(* of the second text, into how many texts does its '=' divide it.  optStr *)
(* has places for 32 options.                                              *)
Path == [file : {"PAGE", "BMP"}, query : BOOLEAN, parts : 0..2, options : Seq(0..2)]
NoQuery(file) == [file |-> file, query |-> FALSE, parts |-> 1, options |-> <<>>]
Plain == NoQuery("PAGE")
ASSUME RequestAssumption == \A c \in Clients :
    /\ Request[c] \in [method : {"POST", "GET", "BAD"}, path : Path]
    /\ Len(Request[c].path.options) <= 32
ASSUME ClientsAssumption == IsFiniteSet(Clients) /\ Nobody \notin Clients

(* The servers: is there a camera. *)
rpi6   == [camera |-> FALSE]
rpi7   == [camera |-> TRUE]
withPi == rpi7
Scene == [server : {rpi6, rpi7, withPi}, callers : SUBSET Clients,
          slow : SUBSET Clients, impatient : SUBSET Clients]
ASSUME ScenesAssumption == Scenes \subseteq Scene

ASSUME MaxFdAssumption == MaxFd \in Nat

MaxAccepts == Cardinality(Clients)
Threads == 1..MaxAccepts      \* thread t is started for the t-th accept
ASSUME NobodyAssumption == Nobody \notin Threads
Fds == 0..MaxFd
NoFd == -1

VARIABLES
    scene,      \* one of Scenes
    process,    \* "running", "ended" (by main), "killed" (by a thread)
    is_run,     \* the flag main and the threads test
    webPc,      \* webserverFunction: "test", "accept", "spawn", "returned"
    csock,      \* its local csock, whose address every thread gets
    accepted,   \* how many times accept returned
    fdt,        \* what each descriptor number refers to
    queued,     \* connections not accepted yet
    sent,       \* per client: 0 nothing, 1 it connected, 2 the request line, 3 all of it
    got,        \* per client: how much of that the threads have read
    gone,       \* clients that hung up
    th,         \* per thread: its control point, locals and history
    strtok,     \* its static state: who cut the text last, alone; what; how many texts are left
    mixed,      \* history: threads whose parsing another thread's strtok disturbed
    answers     \* history, per client: the threads that wrote an answer to it

main == <<scene, process, is_run>>
web == <<webPc, csock, accepted>>
net == <<queued, sent, got, gone>>
vars == <<main, web, fdt, net, th, strtok, mixed, answers>>

Parsing == {"path", "rest", "next", "value"}    \* relies on strtok's state
ThreadPCs == {"none", "arg", "lost", "open", "line", "ok", "error", "file", "opts", "name",
              "headers", "measure", "capture", "send", "close", "done"} \union Parsing

(* clnt_connection's locals: the descriptors under clnt_read and           *)
(* clnt_write, the path it took, its counters, is the request in           *)
(* clnt_read's buffer.  Its history: the accept whose csock it copied (0:  *)
(* none), the client whose request line it read, the one whose path it     *)
(* took.                                                                   *)
Thread == [pc : ThreadPCs, rfd : Fds \union {NoFd}, wfd : Fds \union {NoFd},
           path : Path, count : Nat, i : Nat, whole : BOOLEAN,
           took : 0..MaxAccepts, asked : Clients \union {Nobody}, from : Clients \union {Nobody}]

TypeOK ==
    /\ scene \in Scene
    /\ process \in {"running", "ended", "killed"}
    /\ is_run \in BOOLEAN
    /\ webPc \in {"test", "accept", "spawn", "returned"}
    /\ csock \in Fds \union {NoFd}
    /\ accepted \in 0..MaxAccepts
    /\ fdt \in [Fds -> Clients \union {Nobody}]
    /\ queued \subseteq Clients /\ gone \subseteq Clients
    /\ sent \in [Clients -> 0..3] /\ got \in [Clients -> 1..3]
    /\ th \in [Threads -> Thread]
    /\ strtok \in [by : Threads \union {Nobody}, of : {"line", "query"}, left : Nat]
    /\ mixed \subseteq Threads
    /\ answers \in [Clients -> SUBSET Threads]

(* What a process has before any accept: descriptors, threads, memory. *)
NoFds == [f \in Fds |-> Nobody]
NoThreads == [t \in Threads |->
    [pc |-> "none", rfd |-> NoFd, wfd |-> NoFd, path |-> Plain, count |-> 0, i |-> 1,
     whole |-> FALSE, took |-> 0, asked |-> Nobody, from |-> Nobody]]
NoText == [by |-> Nobody, of |-> "line", left |-> 0]
NoAnswers == [c \in Clients |-> {}]

Init ==
    /\ scene \in Scenes
    /\ process = "running" /\ is_run = TRUE
    /\ webPc = "test" /\ csock = NoFd /\ accepted = 0
    /\ fdt = NoFds
    /\ queued = {} /\ gone = {}
    /\ sent = [c \in Clients |-> 0] /\ got = [c \in Clients |-> 1]
    /\ th = NoThreads /\ strtok = NoText /\ mixed = {} /\ answers = NoAnswers

Running == process = "running"
At(t, pc) == Running /\ th[t].pc = pc
Goto(t, pc) == th' = [th EXCEPT ![t].pc = pc]
Open(f) == f # NoFd /\ fdt[f] # Nobody
FreeFds == {f \in Fds : fdt[f] = Nobody}
LowestFree == CHOOSE f \in FreeFds : \A g \in FreeFds : f <= g

(* The whole process ends: a fatal signal, a NULL stream or string, exit().*)
(* Its memory goes, and the kernel closes every descriptor.                *)
Dies(how) ==
    /\ process' = how
    /\ webPc' = "test" /\ csock' = NoFd /\ accepted' = 0
    /\ fdt' = NoFds /\ queued' = {}
    /\ th' = NoThreads /\ strtok' = NoText /\ mixed' = {} /\ answers' = NoAnswers
    /\ UNCHANGED <<scene, is_run, sent, got, gone>>

-----------------------------------------------------------------------------
(* The browsers.                                                           *)

Connect(c) ==
    /\ Running
    /\ c \in scene.callers
    /\ sent[c] = 0
    /\ sent' = [sent EXCEPT ![c] = IF c \in scene.slow THEN 1 ELSE 3]
    /\ queued' = queued \union {c}
    /\ UNCHANGED <<main, web, fdt, got, gone, th, strtok, mixed, answers>>

(* The request line, or the headers and the empty line after them. *)
Send(c) ==
    /\ Running
    /\ c \notin gone
    /\ sent[c] \in {1, 2}
    /\ sent' = [sent EXCEPT ![c] = @ + 1]
    /\ UNCHANGED <<main, web, fdt, queued, got, gone, th, strtok, mixed, answers>>

Leave(c) ==
    /\ Running
    /\ c \in scene.impatient
    /\ c \notin gone
    /\ \E f \in Fds : fdt[f] = c
    /\ gone' = gone \union {c}
    /\ UNCHANGED <<main, web, fdt, queued, sent, got, th, strtok, mixed, answers>>

-----------------------------------------------------------------------------
(* main and joystickFunction.                                              *)

(* KEY_ENTER *)
JoystickEnter ==
    /\ Running
    /\ is_run
    /\ is_run' = FALSE
    /\ UNCHANGED <<scene, process, web, fdt, net, th, strtok, mixed, answers>>

(* main ends the process and every thread wherever it is: it returns after *)
(* is_run has been cleared, or the SIGINT of 'q' does it at any time.      *)
MainEnds == Running /\ Dies("ended")

-----------------------------------------------------------------------------
(* webserverFunction.                                                      *)

WebTest ==
    /\ Running
    /\ webPc = "test"
    /\ webPc' = IF is_run THEN "accept" ELSE "returned"
    /\ UNCHANGED <<main, csock, accepted, fdt, net, th, strtok, mixed, answers>>

(* accept returns the lowest free descriptor, or -1 when there is none. *)
Accept(c) ==
    /\ Running
    /\ webPc = "accept"
    /\ accepted < Cardinality(scene.callers)
    /\ c \in queued
    /\ IF FreeFds = {}
         THEN csock' = NoFd /\ UNCHANGED <<fdt, queued>>
         ELSE /\ csock' = LowestFree
              /\ fdt' = [fdt EXCEPT ![LowestFree] = c]
              /\ queued' = queued \ {c}
    /\ accepted' = accepted + 1
    /\ webPc' = "spawn"
    /\ UNCHANGED <<main, sent, got, gone, th, strtok, mixed, answers>>

Spawn ==
    /\ Running
    /\ webPc = "spawn"
    /\ Goto(accepted, "arg")
    /\ webPc' = "test"
    /\ UNCHANGED <<main, csock, accepted, fdt, net, strtok, mixed, answers>>

-----------------------------------------------------------------------------
(* clnt_connection: opening the streams and parsing the request.           *)

(* The thread copies what csock holds NOW.  When the web thread has        *)
(* returned, its stack may have been given back and read as zeros: the     *)
(* thread then waits on standard input and is not followed any further.    *)
ReadArg(t) ==
    /\ At(t, "arg")
    /\ \/ th' = [th EXCEPT ![t].rfd = csock, ![t].took = accepted, ![t].pc = "open"]
       \/ webPc = "returned" /\ Goto(t, "lost")
    /\ UNCHANGED <<main, web, fdt, net, strtok, mixed, answers>>

(* Mutant: clnt_write duplicates csock through the pointer once more. *)
OpenStreamsByPointer(t) ==
    /\ At(t, "open")
    /\ \/ ~(Open(th[t].rfd) /\ Open(csock)) /\ Dies("killed")
       \/ /\ Open(th[t].rfd) /\ Open(csock) /\ FreeFds # {}
          /\ fdt' = [fdt EXCEPT ![LowestFree] = fdt[csock]]
          /\ th' = [th EXCEPT ![t].wfd = LowestFree, ![t].pc = "line"]
          /\ UNCHANGED <<main, web, net, strtok, mixed, answers>>

(* Mutant: dup is taken to give a descriptor even when none is left. *)
OpenStreamsAlways(t) ==
    LET f == IF FreeFds = {} THEN MaxFd + 1 ELSE LowestFree IN
    /\ At(t, "open")
    /\ \/ ~Open(th[t].rfd) /\ Dies("killed")
       \/ /\ Open(th[t].rfd)
          /\ fdt' = [g \in Fds |-> IF g = f THEN fdt[th[t].rfd] ELSE fdt[g]]
          /\ th' = [th EXCEPT ![t].wfd = f, ![t].pc = "line"]
          /\ UNCHANGED <<main, web, net, strtok, mixed, answers>>

(* fdopen(csock) and fdopen(dup(csock)).  On a closed descriptor fdopen    *)
(* yields NULL and the first fgets on it ends the process; when there is   *)
(* no descriptor left for dup only clnt_write is NULL.                     *)
OpenStreams(t) ==
    /\ At(t, "open")
    /\ \/ ~Open(th[t].rfd) /\ Dies("killed")
       \/ /\ Open(th[t].rfd)
          /\ IF FreeFds = {}
               THEN Goto(t, "line") /\ UNCHANGED fdt
               ELSE /\ fdt' = [fdt EXCEPT ![LowestFree] = fdt[th[t].rfd]]
                    /\ th' = [th EXCEPT ![t].wfd = LowestFree, ![t].pc = "line"]
          /\ UNCHANGED <<main, web, net, strtok, mixed, answers>>

(* A strtok call on a new text: `left` more texts can be cut from it.      *)
(* Every other thread that is parsing goes on from there.                  *)
Strtok(t, of, left) ==
    /\ strtok' = [by |-> t, of |-> of, left |-> left]
    /\ mixed' = mixed \union {u \in Threads \ {t} : th[u].pc \in Parsing}

(* strtok(NULL, ...) goes on in whatever text that is.  Cut in another     *)
(* thread's text, it may leave something or not.  BOUND: what two calls    *)
(* have cut there has no third text.                                       *)
StrtokNext(t) ==
    /\ IF strtok.by = t
         THEN strtok' = [strtok EXCEPT !.left = IF @ = 0 THEN 0 ELSE @ - 1]
         ELSE \E left \in IF strtok.left = 0 \/ strtok.by = Nobody THEN {0} ELSE {0, 1} :
                 strtok' = [strtok EXCEPT !.by = Nobody, !.left = left]
    /\ mixed' = mixed \union {u \in Threads \ {t} : th[u].pc \in Parsing}

(* Where the method found in reg_line sends the thread. *)
Branch(method) == CASE method = "POST" -> "ok" [] method = "GET" -> "path" [] OTHER -> "error"

(* The client whose bytes the thread's clnt_read delivers. *)
Peer(t) == IF Open(th[t].rfd) THEN fdt[th[t].rfd] ELSE Nobody

(* fgets and strtok(reg_line, "/ ").  clnt_read takes all that has come.   *)
(* When another thread has taken the request line, a header is read for    *)
(* it.  At end of file, or on a descriptor closed by another thread, fgets *)
(* leaves reg_line uninitialised and any method may be found in it.        *)
ReadLine(t) == LET c == Peer(t) IN
    /\ At(t, "line")
    /\ \/ /\ c \in Clients /\ got[c] < sent[c]
          /\ got' = [got EXCEPT ![c] = sent[c]]
          /\ IF got[c] = 1
               THEN /\ th' = [th EXCEPT ![t].asked = c, ![t].from = c, ![t].whole = (sent[c] = 3),
                                        ![t].pc = Branch(Request[c].method)]
                    /\ Strtok(t, "line", 2)
               ELSE Goto(t, "error") /\ Strtok(t, "line", 1)
       \/ /\ c \in Clients => c \in gone /\ got[c] = sent[c]
          /\ \E method \in {"POST", "GET", "BAD"} : Goto(t, Branch(method))
          /\ Strtok(t, "line", 2)
          /\ UNCHANGED got
    /\ UNCHANGED <<main, web, fdt, queued, sent, gone, answers>>

(* The variables of the query's block end with it: of the path only the    *)
(* file that filename names is left for sendData.                          *)
GotoHeaders(t) ==
    th' = [th EXCEPT ![t].path = NoQuery(th[t].path.file),
                     ![t].count = 0, ![t].i = 1, ![t].pc = "headers"]

(* What the next text of strtok is, cut at " ": the path of a line nobody  *)
(* has gone on with, the thread's or another's, and any path if that line  *)
(* is uninitialised; otherwise the version, a piece of a query, or         *)
(* nothing, which all count as a page.  BOUND: an uninitialised line names *)
(* a page or what some caller asks for.                                    *)
AtPath == strtok.by # Nobody /\ strtok.of = "line" /\ strtok.left = 2
LineOf == IF AtPath THEN th[strtok.by].asked ELSE Nobody
Named == CASE ~AtPath -> {Plain}
           [] AtPath /\ LineOf = Nobody -> {Request[c].path : c \in scene.callers} \union {Plain}
           [] OTHER -> {Request[LineOf].path}

(* Mutant: the path is skipped and the HTTP version is taken for it. *)
ParsePathVersion(t) ==
    /\ At(t, "path")
    /\ th' = [th EXCEPT ![t].path = Plain, ![t].pc = "headers"]
    /\ StrtokNext(t)
    /\ UNCHANGED <<main, web, fdt, net, answers>>

(* strtok(NULL, " ") *)
ParsePath(t) ==
    /\ At(t, "path")
    /\ \E p \in Named :
          th' = [th EXCEPT ![t].path = p, ![t].from = LineOf,
                           ![t].pc = IF p.query THEN "file" ELSE "headers"]
    /\ StrtokNext(t)
    /\ UNCHANGED <<main, web, fdt, net, answers>>

(* strtok(filename, "?"): a query of nothing but '?' goes to END. *)
QueryFile(t) == LET parts == th[t].path.parts IN
    /\ At(t, "file")
    /\ Goto(t, IF parts = 0 THEN "close" ELSE "rest")
    /\ Strtok(t, "query", IF parts = 0 THEN 0 ELSE parts - 1)
    /\ UNCHANGED <<main, web, fdt, net, answers>>

(* strtok(NULL, "?"): the options.  When there are none the thread goes to *)
(* END without an answer.  BOUND: in another thread's text one option is   *)
(* found, of one or two texts.                                             *)
QueryRest(t) ==
    /\ At(t, "rest")
    /\ \/ strtok.left = 0 /\ Goto(t, "close")
       \/ strtok.left > 0 /\ strtok.by = t /\ Goto(t, "opts")
       \/ /\ strtok.left > 0 /\ strtok.by # t
          /\ \E n \in {1, 2} : th' = [th EXCEPT ![t].path.options = <<n>>, ![t].pc = "opts"]
    /\ StrtokNext(t)
    /\ UNCHANGED <<main, web, fdt, net, answers>>

(* strtok(optLine, "&"): the first option, if there is one. *)
FirstOption(t) == LET n == Len(th[t].path.options) IN
    /\ At(t, "opts")
    /\ IF n = 0 THEN GotoHeaders(t) ELSE th' = [th EXCEPT ![t].count = 1, ![t].pc = "next"]
    /\ Strtok(t, "query", IF n = 0 THEN 0 ELSE n - 1)
    /\ UNCHANGED <<main, web, fdt, net, answers>>

(* strtok(NULL, "&"): the next option, of another thread's text if strtok  *)
(* is in one; NULL ends the loop.                                          *)
NextOption(t) == LET k == th[t].count IN
    /\ At(t, "next")
    /\ \/ (strtok.left = 0 \/ strtok.by # t) /\ Goto(t, "name")
       \/ /\ strtok.left > 0 /\ strtok.by = t
          /\ th' = [th EXCEPT ![t].count = k + 1]
       \/ /\ strtok.left > 0 /\ strtok.by # t
          /\ \E n \in {1, 2} :
                th' = [th EXCEPT ![t].path.options = Append(SubSeq(@, 1, k), n), ![t].count = k + 1]
    /\ StrtokNext(t)
    /\ UNCHANGED <<main, web, fdt, net, answers>>

(* strcpy(opt, strtok(optStr[i], "=")): a copy from NULL if the option is  *)
(* nothing but '='.                                                        *)
OptionName(t) == LET n == th[t].path.options[th[t].i] IN
    /\ At(t, "name")
    /\ \/ n = 0 /\ Dies("killed")
       \/ /\ n > 0
          /\ Goto(t, "value")
          /\ Strtok(t, "query", n - 1)
          /\ UNCHANGED <<main, web, fdt, net, answers>>

(* strcpy(var, strtok(NULL, "=")): a copy from NULL if the option has no   *)
(* value; in another thread's text there may be one or not.                *)
OptionValue(t) ==
    /\ At(t, "value")
    /\ \/ (strtok.left = 0 \/ strtok.by # t) /\ Dies("killed")
       \/ /\ strtok.left > 0
          /\ IF th[t].i = th[t].count
               THEN GotoHeaders(t)
               ELSE th' = [th EXCEPT ![t].i = @ + 1, ![t].pc = "name"]
          /\ StrtokNext(t)
          /\ UNCHANGED <<main, web, fdt, net, answers>>

(* The header loop reads to the empty line, from its buffer or as the      *)
(* headers come, also those of the next client that is given its           *)
(* descriptor number.  At end of file it has no end.                       *)
ReadHeaders(t) == LET c == Peer(t) IN
    /\ At(t, "headers")
    /\ \/ th[t].whole /\ Goto(t, "measure") /\ UNCHANGED got
       \/ /\ ~th[t].whole
          /\ c \in Clients /\ got[c] < sent[c]
          /\ got' = [got EXCEPT ![c] = sent[c]]
          /\ Goto(t, IF sent[c] = 3 THEN "measure" ELSE "headers")
    /\ UNCHANGED <<main, web, fdt, queued, sent, gone, strtok, mixed, answers>>

-----------------------------------------------------------------------------
(* sendData and the end of the thread.                                     *)

(* Both sensors are read (module SensorReading); the thread may stay here  *)
(* for ever once main has closed them.                                     *)
ReadSensors(t) ==
    /\ At(t, "measure")
    /\ Goto(t, IF th[t].path.file = "BMP" /\ scene.server.camera THEN "capture" ELSE "send")
    /\ UNCHANGED <<main, web, fdt, net, strtok, mixed, answers>>

(* captureImage and the reading of capture.bmp, new or left by an earlier  *)
(* capture.  V4L2 errors call exit(); with no file at all fwrite is given  *)
(* a length of -1.                                                         *)
Capture(t) ==
    /\ At(t, "capture")
    /\ \/ Dies("killed")
       \/ /\ th[t].wfd # NoFd
          /\ Goto(t, "send")
          /\ UNCHANGED <<main, web, fdt, net, strtok, mixed, answers>>

(* The answer goes out on clnt_write.  A NULL stream, or SIGPIPE from a    *)
(* client that hung up, ends the process.                                  *)
Answer(t, pc) ==
    LET f == th[t].wfd IN
    /\ At(t, pc)
    /\ \/ /\ f # NoFd
          /\ answers' = [c \in Clients |-> IF fdt[f] = c THEN answers[c] \union {t}
                                                         ELSE answers[c]]
          /\ Goto(t, "close")
          /\ UNCHANGED <<main, web, fdt, net, strtok, mixed>>
       \/ (f # NoFd => fdt[f] \in gone) /\ Dies("killed")

SendOk(t) == Answer(t, "ok")
SendError(t) == Answer(t, "error")
SendPage(t) == Answer(t, "send")

(* Mutant: fclose(clnt_read) is taken to close the duplicate as well. *)
CloseReadOnly(t) ==
    /\ At(t, "close")
    /\ fdt' = [f \in Fds |-> IF f = th[t].rfd THEN Nobody ELSE fdt[f]]
    /\ Goto(t, "done")
    /\ UNCHANGED <<main, web, net, strtok, mixed, answers>>

(* END: fclose(clnt_read), fclose(clnt_write), pthread_exit.  A NULL       *)
(* clnt_write ends the process.                                            *)
Close(t) ==
    /\ At(t, "close")
    /\ \/ th[t].wfd = NoFd /\ Dies("killed")
       \/ /\ th[t].wfd # NoFd
          /\ fdt' = [f \in Fds |-> IF f \in {th[t].rfd, th[t].wfd} THEN Nobody ELSE fdt[f]]
          /\ Goto(t, "done")
          /\ UNCHANGED <<main, web, net, strtok, mixed, answers>>

Browser == \E c \in Clients : Connect(c) \/ Send(c) \/ Leave(c)
Web == WebTest \/ (\E c \in Clients : Accept(c)) \/ Spawn
Parse(t) == \/ ReadArg(t) \/ OpenStreams(t) \/ ReadLine(t) \/ ParsePath(t) \/ QueryFile(t)
            \/ QueryRest(t) \/ FirstOption(t) \/ NextOption(t) \/ OptionName(t)
            \/ OptionValue(t) \/ ReadHeaders(t)
Serve(t) == \/ ReadSensors(t) \/ Capture(t) \/ SendOk(t) \/ SendError(t) \/ SendPage(t)
            \/ Close(t)

Next == \/ Browser \/ JoystickEnter \/ MainEnds \/ Web
        \/ \E t \in Threads : Parse(t) \/ Serve(t)

Spec == Init /\ [][Next]_vars

-----------------------------------------------------------------------------
(* Properties.                                                             *)

(* The connections the threads serve are all different. *)
OwnConnections ==
    \A t, u \in Threads : th[t].took # 0 /\ th[t].took = th[u].took => t = u

(* As long as no two threads copied the same csock, whatever is written to *)
(* a client's connection comes from a thread that read that client's       *)
(* request line (or what fgets left uninitialised when the client had hung *)
(* up), whatever numbers the descriptors are given again; and it is what   *)
(* that client asked for, unless another thread used strtok between two    *)
(* calls of this one.  Then it may be what another client asked for.       *)
NoCrossTalk == OwnConnections =>
    \A c \in Clients : \A t \in answers[c] :
        /\ th[t].asked \in {c, Nobody}
        /\ th[t].asked = Nobody => c \in gone
        /\ th[t].asked = c /\ t \notin mixed => th[t].from = c

(* A query without options, '/index.html?' or '/?led=On', is dropped.  An  *)
(* option without '=', or with no text on one side of it, crashes.         *)
Dropped(r) == r.method = "GET" /\ r.path.query /\ r.path.parts < 2
Crashes(r) == /\ r.method = "GET" /\ r.path.query /\ r.path.parts = 2
              /\ \E k \in 1..Len(r.path.options) : r.path.options[k] < 2

(* A thread that was alone in strtok looks for what its client asked for,  *)
(* and nothing but the request itself makes it close the connection        *)
(* without an answer (a query without options) or copy from the NULL of    *)
(* strtok (an option without a value): a request with all its options in   *)
(* the form of led=On is always understood.                                *)
ParsedAlone ==
    \A t \in Threads \ mixed : \A c \in Clients : th[t].asked = c =>
        LET r == Request[c] IN
        /\ th[t].pc \in {"headers", "measure", "capture", "send"} =>
              th[t].path.file = r.path.file /\ ~Dropped(r) /\ ~Crashes(r)
        /\ th[t].pc \in {"close", "done"} /\ OwnConnections => (t \in answers[c]) = ~Dropped(r)
        /\ th[t].pc = "name" /\ th[t].path.options[th[t].i] = 0 => Crashes(r)
        /\ th[t].pc = "value" /\ strtok.left = 0 => Crashes(r)

(* When every thread had its own connection and all have finished, all     *)
(* their descriptors are closed: nothing leaks on any path to END.         *)
DescriptorsReturned ==
    /\ OwnConnections /\ Running /\ webPc # "spawn"
    /\ \A t \in 1..accepted : th[t].pc = "done"
    => \A f \in Fds : fdt[f] \notin Clients

-----------------------------------------------------------------------------
(* What the code's comments say, and the code does not do.                 *)

(* rpi7.c:406 "when a client's request comes in, a thread is created and   *)
(* handles the client's request": once all threads started so far have     *)
(* copied their argument, every accepted connection has been copied.       *)
EveryConnectionGetsAThread ==
    webPc = "accept" /\ (\A t \in 1..accepted : th[t].pc # "arg")
    => \A k \in 1..accepted : \E t \in 1..accepted : th[t].took = k
=============================================================================
