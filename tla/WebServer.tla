----------------------------- MODULE WebServer -----------------------------
(***************************************************************************)
(* Chapter6/webserver.c: main accepts a connection into its local variable *)
(* csock, starts the thread clnt_connection with the ADDRESS of csock, and *)
(* joins the thread before it accepts again.  The thread copies csock,     *)
(* reads the request line, skips the header lines, answers and closes.     *)
(*                                                                         *)
(* A browser is the request it makes: Method[c] and, for a GET, Blocks[c], *)
(* the number of full BUFSIZ blocks of the file it names, -1 if open() of  *)
(* that file fails.  It sends its request line and, later, the empty line  *)
(* that ends its headers, and may hang up at any moment.                   *)
(***************************************************************************)
EXTENDS Integers, Sequences

CONSTANTS
    Clients,        \* browsers, each making one connection
    Method,         \* the method on the request line of each browser
    Blocks,         \* full BUFSIZ blocks of the file a browser asks for
    ListenBacklog,  \* the 10 of listen(ssock, 10)
    NoClient        \* what csock holds before the first accept

Methods == {"POST", "GET", "OTHER"}
Missing == -1

ASSUME MethodAssumption == Method \in [Clients -> Methods]
ASSUME BlocksAssumption == Blocks \in [Clients -> Nat \union {Missing}]
ASSUME ListenBacklogAssumption == ListenBacklog \in Nat \ {0}
ASSUME NoClientAssumption == NoClient \notin Clients

VARIABLES
    backlog,    \* connections the kernel has completed, not yet accepted
    phase,      \* per client: "idle", "queued", "service", "closed"
    sent,       \* per client: lines sent (1 request line, 2 end of headers)
    gone,       \* clients that hung up
    mpc,        \* main: "accept", "create", "join"
    csock,      \* main's local csock, shared with the thread by address
    wpc,        \* clnt_connection's control point, "none" if not running
    sock,       \* clnt_connection's own copy of csock
    line,       \* the method found in reg_line
    reply,      \* per client: the kind of answer written to it
    parts,      \* per client: pieces of the file written to it
    alive       \* FALSE once SIGPIPE has killed the process

clientVars == <<phase, sent, gone>>
workerVars == <<wpc, sock, line, reply, parts>>
vars == <<backlog, phase, sent, gone, mpc, csock, wpc, sock, line, reply,
          parts, alive>>

WorkerPC == {"none", "arg", "line", "ok", "error", "headers", "head",
             "block", "end", "exited"}
Replies == {"none", "ok", "error", "page"}

TypeOK ==
    /\ backlog \in Seq(Clients)
    /\ phase \in [Clients -> {"idle", "queued", "service", "closed"}]
    /\ sent \in [Clients -> 0..2]
    /\ gone \in SUBSET Clients
    /\ mpc \in {"accept", "create", "join"}
    /\ csock \in Clients \union {NoClient}
    /\ wpc \in WorkerPC
    /\ sock \in Clients \union {NoClient}
    /\ line \in Methods
    /\ reply \in [Clients -> Replies]
    /\ parts \in [Clients -> Nat]
    /\ alive \in BOOLEAN

Init ==
    /\ backlog = <<>>
    /\ phase = [c \in Clients |-> "idle"]
    /\ sent = [c \in Clients |-> 0]
    /\ gone = {}
    /\ mpc = "accept"
    /\ csock = NoClient
    /\ wpc = "none"
    /\ sock = NoClient
    /\ line = "OTHER"
    /\ reply = [c \in Clients |-> "none"]
    /\ parts = [c \in Clients |-> 0]
    /\ alive = TRUE

-----------------------------------------------------------------------------
(* The browsers.                                                           *)

(* The kernel completes a connection while its queue has room. *)
Connect(c) ==
    /\ alive
    /\ phase[c] = "idle"
    /\ Len(backlog) < ListenBacklog
    /\ backlog' = Append(backlog, c)
    /\ phase' = [phase EXCEPT ![c] = "queued"]
    /\ UNCHANGED <<sent, gone, mpc, csock, workerVars, alive>>

SendLine(c) ==
    /\ alive
    /\ phase[c] \in {"queued", "service"}
    /\ c \notin gone
    /\ sent[c] < 2
    /\ sent' = [sent EXCEPT ![c] = @ + 1]
    /\ UNCHANGED <<backlog, phase, gone, mpc, csock, workerVars, alive>>

Leave(c) ==
    /\ alive
    /\ phase[c] \in {"queued", "service"}
    /\ gone' = gone \union {c}
    /\ UNCHANGED <<backlog, phase, sent, mpc, csock, workerVars, alive>>

-----------------------------------------------------------------------------
(* main.                                                                   *)

(* Mutant: the newest connection first. *)
AcceptNewest ==
    /\ alive
    /\ mpc = "accept"
    /\ backlog # <<>>
    /\ csock' = backlog[Len(backlog)]
    /\ backlog' = SubSeq(backlog, 1, Len(backlog) - 1)
    /\ phase' = [phase EXCEPT ![csock'] = "service"]
    /\ mpc' = "create"
    /\ UNCHANGED <<sent, gone, workerVars, alive>>

(* Mutant: a non-blocking accept whose -1 is not checked. *)
AcceptUnchecked ==
    /\ alive
    /\ mpc = "accept"
    /\ csock' = IF backlog = <<>> THEN -1 ELSE Head(backlog)
    /\ backlog' = IF backlog = <<>> THEN <<>> ELSE Tail(backlog)
    /\ phase' = [c \in Clients |-> IF backlog # <<>> /\ c = csock' THEN "service" ELSE phase[c]]
    /\ mpc' = "create"
    /\ UNCHANGED <<sent, gone, workerVars, alive>>

Accept ==
    /\ alive
    /\ mpc = "accept"
    /\ backlog # <<>>
    /\ csock' = Head(backlog)
    /\ backlog' = Tail(backlog)
    /\ phase' = [phase EXCEPT ![Head(backlog)] = "service"]
    /\ mpc' = "create"
    /\ UNCHANGED <<sent, gone, workerVars, alive>>

(* Mutant, and what RPi/rpi7.c:408 does: pthread_join commented out. *)
CreateWithoutJoin ==
    /\ alive
    /\ mpc = "create"
    /\ wpc' = "arg"
    /\ mpc' = "accept"
    /\ UNCHANGED <<backlog, clientVars, csock, sock, line, reply, parts, alive>>

Create ==
    /\ alive
    /\ mpc = "create"
    /\ wpc' = "arg"
    /\ mpc' = "join"
    /\ UNCHANGED <<backlog, clientVars, csock, sock, line, reply, parts, alive>>

(* Mutant: main does not wait for the end of the thread. *)
JoinEarly ==
    /\ alive
    /\ mpc = "join"
    /\ wpc \in {"end", "exited"}
    /\ wpc' = "none"
    /\ mpc' = "accept"
    /\ UNCHANGED <<backlog, clientVars, csock, sock, line, reply, parts, alive>>

Join ==
    /\ alive
    /\ mpc = "join"
    /\ wpc = "exited"
    /\ wpc' = "none"
    /\ mpc' = "accept"
    /\ UNCHANGED <<backlog, clientVars, csock, sock, line, reply, parts, alive>>

-----------------------------------------------------------------------------
(* clnt_connection.                                                        *)

ReadArg ==
    /\ alive
    /\ wpc = "arg"
    /\ sock' = csock
    /\ wpc' = "line"
    /\ UNCHANGED <<backlog, clientVars, mpc, csock, line, reply, parts, alive>>

Branch(m) == CASE m = "POST" -> "ok" [] m = "OTHER" -> "error" [] m = "GET" -> "headers"

(* fgets returns a line, or NULL if the client hung up before sending one: *)
(* reg_line is then uninitialised and any method may be found in it.       *)
ReadLine ==
    /\ alive
    /\ wpc = "line"
    /\ \/ sent[sock] >= 1 /\ line' = Method[sock]
       \/ sent[sock] = 0 /\ sock \in gone /\ line' \in Methods
    /\ wpc' = Branch(line')
    /\ UNCHANGED <<backlog, clientVars, mpc, csock, sock, reply, parts, alive>>

(* Mutant: the loop compares with a terminator browsers do not send. *)
SkipHeadersBareLF ==
    /\ alive
    /\ wpc = "headers"
    /\ sent[sock] > 2
    /\ wpc' = "head"
    /\ UNCHANGED <<backlog, clientVars, mpc, csock, sock, line, reply, parts, alive>>

(* The do-while over the headers stops at the empty line only; once the    *)
(* client is gone fgets keeps returning NULL and the loop never ends.      *)
SkipHeaders ==
    /\ alive
    /\ wpc = "headers"
    /\ sent[sock] = 2
    /\ wpc' = "head"
    /\ UNCHANGED <<backlog, clientVars, mpc, csock, sock, line, reply, parts, alive>>

(* Writing to a client that hung up may raise SIGPIPE, which nobody handles. *)
Killed ==
    /\ sock \in gone
    /\ alive' = FALSE
    /\ UNCHANGED <<backlog, clientVars, mpc, csock, workerVars>>

SendShort(pc, kind) ==
    /\ alive
    /\ wpc = pc
    /\ \/ /\ reply' = [reply EXCEPT ![sock] = kind]
          /\ wpc' = "end"
          /\ UNCHANGED <<backlog, clientVars, mpc, csock, sock, line, parts, alive>>
       \/ Killed

SendOk == SendShort("ok", "ok")
SendError == SendShort("error", "error")

(* sendData: the response header, then the file, block by block. *)
SendHead ==
    /\ alive
    /\ wpc = "head"
    /\ \/ /\ reply' = [reply EXCEPT ![sock] = "page"]
          /\ wpc' = "block"
          /\ UNCHANGED <<backlog, clientVars, mpc, csock, sock, line, parts, alive>>
       \/ Killed

(* read() returned BUFSIZ: a full block, and there may be more. *)
FullBlock(c) == parts[c] < Blocks[c]

(* Mutant: a while loop that tests before it reads loses the short last block. *)
SendBlockTestFirst ==
    /\ alive
    /\ wpc = "block"
    /\ \/ /\ parts' = [parts EXCEPT ![sock] = IF FullBlock(sock) THEN @ + 1 ELSE @]
          /\ wpc' = IF FullBlock(sock) THEN "block" ELSE "end"
          /\ UNCHANGED <<backlog, clientVars, mpc, csock, sock, line, reply, alive>>
       \/ Killed

SendBlock ==
    /\ alive
    /\ wpc = "block"
    /\ \/ /\ parts' = [parts EXCEPT ![sock] = @ + 1]
          /\ wpc' = IF FullBlock(sock) THEN "block" ELSE "end"
          /\ UNCHANGED <<backlog, clientVars, mpc, csock, sock, line, reply, alive>>
       \/ Killed

(* END: both streams are closed, which flushes what sendData left. *)
Close ==
    /\ alive
    /\ wpc = "end"
    /\ \/ /\ phase' = [phase EXCEPT ![sock] = "closed"]
          /\ wpc' = "exited"
          /\ UNCHANGED <<backlog, sent, gone, mpc, csock, sock, line, reply, parts, alive>>
       \/ Killed

-----------------------------------------------------------------------------
Browser == \E c \in Clients : Connect(c) \/ SendLine(c) \/ Leave(c)
Main == Accept \/ Create \/ Join
Worker == \/ ReadArg \/ ReadLine \/ SkipHeaders \/ SendOk \/ SendError
          \/ SendHead \/ SendBlock \/ Close

Next == Browser \/ Main \/ Worker

Spec == Init /\ [][Next]_vars

(* The scheduler runs main and the thread; nothing is assumed of browsers. *)
FairSpec == Spec /\ WF_vars(Main) /\ WF_vars(Worker)

-----------------------------------------------------------------------------
(* Properties.                                                             *)

(* While the thread may still dereference its argument, csock holds the    *)
(* connection it was started for; after that main's csock and the thread's *)
(* copy agree until the thread is joined (webserver.c:59-75).              *)
Handoff ==
    /\ mpc = "join" <=> wpc # "none"
    /\ mpc \in {"create", "join"} => csock \in Clients
    /\ wpc \notin {"none", "arg"} => sock = csock

(* The connection being handled is the only one accepted and not closed:   *)
(* none is dropped between accept and fclose (webserver.c:53-68, 123-125). *)
OneInService ==
    \A c \in Clients :
        phase[c] = "service" <=>
            /\ mpc # "accept"
            /\ wpc # "exited"
            /\ c = csock

(* A page that was closed was written once per read of its file: every     *)
(* full block and then the read that came short, which alone ends the      *)
(* do-while (sendData, webserver.c:147-150).  What fputs makes of a block  *)
(* that read has not terminated is not modelled.                           *)
PageComplete ==
    \A c \in Clients :
        phase[c] = "closed" /\ reply[c] = "page" =>
            parts[c] = 1 + (IF Blocks[c] = Missing THEN 0 ELSE Blocks[c])

Owed == [c \in Clients |-> CASE Method[c] = "POST" -> "ok"
                             [] Method[c] = "GET" -> "page"
                             [] Method[c] = "OTHER" -> "error"]

(* Refinement: what a client sees of the threads is the serial service.    *)
Service == INSTANCE HttpService WITH
    pending <- (IF mpc = "accept" \/ wpc = "exited" THEN <<>> ELSE <<csock>>) \o backlog,
    answer <- [c \in Clients |-> IF phase[c] = "closed" THEN reply[c] ELSE "none"],
    left <- gone,
    up <- alive

ImplementsService == Service!Spec

(* If every browser finishes its request and stays, every connection is    *)
(* answered and closed (main's accept loop never stops).                   *)
Polite ==
    /\ [](gone = {})
    /\ \A c \in Clients : (phase[c] \in {"queued", "service"}) ~> (sent[c] = 2)

PoliteClientsServed ==
    Polite => \A c \in Clients : (phase[c] = "queued") ~> (phase[c] = "closed")

(* webserver.c:47: the queue lets up to 10 clients' simultaneous           *)
(* connections be handled.  A client that sent its whole request would be  *)
(* answered whatever the other connected clients do.                       *)
SimultaneousClientsHandled ==
    \A c \in Clients :
        (phase[c] = "queued" /\ sent[c] = 2) ~> (phase[c] = "closed" \/ ~alive)
=============================================================================
