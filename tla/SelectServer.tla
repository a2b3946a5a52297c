---------------------------- MODULE SelectServer ----------------------------
(***************************************************************************)
(* Chapter6/select_server.c: one process that echoes one message to each   *)
(* client and closes it.  It keeps the descriptors of its clients in       *)
(* client_fd[0..client_index-1] and waits for them with select.            *)
(*                                                                         *)
(* Closing a client decrements client_index and leaves client_fd as it     *)
(* is: unless the client was the last of the list, a closed descriptor     *)
(* stays in it and a live one drops out.  The limit of five is tested      *)
(* where it is never reached.  readfd is not cleared between two selects.  *)
(*                                                                         *)
(* A client's message comes in one piece.  BOUND: a client connects once.  *)
(* maxfd, always above every descriptor in use, is left out.               *)
(***************************************************************************)
EXTENDS Integers, FiniteSets

CONSTANTS
    Clients,    \* clients, such as tcp_client.c
    Quitters,   \* those whose message begins with "q"
    Slots,      \* the 5 of client_fd[5]
    Nobody      \* not a client

ASSUME SlotsAssumption == Slots \in Nat \ {0}
ASSUME QuittersAssumption == Quitters \subseteq Clients
ASSUME NobodyAssumption == Nobody \notin Clients

Ssock == 3                  \* after standard input, output and error
Fds == 4..(4 + Slots)       \* what accept can return before client_fd is full

VARIABLES
    server,         \* "up", "closed" (a "q"), "overrun" (beyond client_fd)
    pc,             \* main: at "select", "accept" or "scan"
    start_index,    \* of the for loop of "scan"
    client_fd, client_index,
    readfd,         \* the descriptors in the fd_set
    q,              \* mesg begins with "q"
    fdt,            \* whose connection each descriptor is
    queued,         \* connections not accepted yet
    said,           \* per client: "nothing", "waiting" (in its socket), "echoed"
    hung,           \* clients that closed their end
    gap             \* history: a client that was not the last of the list was closed

loop == <<server, pc, start_index>>
list == <<client_fd, client_index>>
peers == <<queued, said, hung>>
vars == <<loop, list, readfd, q, fdt, peers, gap>>

TypeOK ==
    /\ server \in {"up", "closed", "overrun"}
    /\ pc \in {"select", "accept", "scan"}
    /\ start_index \in Nat
    /\ client_fd \in [0..(Slots - 1) -> Fds \union {0}]
    /\ client_index \in 0..Slots
    /\ readfd \subseteq Fds \union {Ssock}
    /\ q \in BOOLEAN
    /\ fdt \in [Fds -> Clients \union {Nobody}]
    /\ queued \subseteq Clients /\ hung \subseteq Clients
    /\ said \in [Clients -> {"nothing", "waiting", "echoed"}]
    /\ gap \in BOOLEAN

Init ==
    /\ server = "up" /\ pc = "select" /\ start_index = 0
    /\ client_fd = [i \in 0..(Slots - 1) |-> 0] /\ client_index = 0
    /\ readfd = {} /\ q = FALSE
    /\ fdt = [f \in Fds |-> Nobody]
    /\ queued = {} /\ hung = {}
    /\ said = [c \in Clients |-> "nothing"]
    /\ gap = FALSE

Up == server = "up"
OpenFds == {f \in Fds : fdt[f] # Nobody}
LowestFree == CHOOSE f \in Fds \ OpenFds : \A g \in Fds \ OpenFds : f <= g
Connected(c) == c \in queued \/ \E f \in Fds : fdt[f] = c
Listed == {client_fd[i] : i \in 0..(client_index - 1)}

(* read would not block: there is a message, or the end of the file. *)
Readable(f) == fdt[f] # Nobody /\ (said[fdt[f]] = "waiting" \/ fdt[f] \in hung)

-----------------------------------------------------------------------------
(* The clients.                                                            *)

Connect(c) ==
    /\ Up
    /\ ~Connected(c) /\ said[c] = "nothing" /\ c \notin hung
    /\ queued' = queued \union {c}
    /\ UNCHANGED <<loop, list, readfd, q, fdt, said, hung, gap>>

Send(c) ==
    /\ Up
    /\ Connected(c) /\ said[c] = "nothing" /\ c \notin hung
    /\ said' = [said EXCEPT ![c] = "waiting"]
    /\ UNCHANGED <<loop, list, readfd, q, fdt, queued, hung, gap>>

HangUp(c) ==
    /\ Up
    /\ Connected(c)
    /\ hung' = hung \union {c}
    /\ UNCHANGED <<loop, list, readfd, q, fdt, queued, said, gap>>

-----------------------------------------------------------------------------
(* The server.                                                             *)

(* ssock and the listed descriptors join what is left in readfd.  With a   *)
(* closed one among them select fails and leaves readfd as it is;          *)
(* otherwise it waits for, and keeps, the ready ones.                      *)
Select ==
    LET asked == readfd \union Listed \union {Ssock}
        ready == {f \in asked : IF f = Ssock THEN queued # {} ELSE Readable(f)}
    IN  /\ Up
        /\ pc = "select"
        /\ \/ asked \ {Ssock} \subseteq OpenFds /\ ready # {} /\ readfd' = ready
           \/ ~(asked \ {Ssock} \subseteq OpenFds) /\ readfd' = asked
        /\ pc' = IF Ssock \in readfd' THEN "accept" ELSE "scan"
        /\ start_index' = 0
        /\ UNCHANGED <<server, list, q, fdt, peers, gap>>

(* Mutant: the loop goes on to the clients instead of to the next select. *)
AcceptThenScan(c) ==
    /\ Up
    /\ pc = "accept"
    /\ c \in queued
    /\ client_index < Slots
    /\ fdt' = [fdt EXCEPT ![LowestFree] = c]
    /\ queued' = queued \ {c}
    /\ readfd' = readfd \union {LowestFree}
    /\ client_fd' = [client_fd EXCEPT ![client_index] = LowestFree]
    /\ client_index' = client_index + 1
    /\ q' = FALSE
    /\ pc' = "scan"
    /\ UNCHANGED <<server, start_index, said, hung, gap>>

(* accept blocks until there is a client.  The address goes into mesg,     *)
(* and continue goes to the loop's condition.                              *)
Accept(c) ==
    /\ Up
    /\ pc = "accept"
    /\ c \in queued
    /\ client_index < Slots
    /\ fdt' = [fdt EXCEPT ![LowestFree] = c]
    /\ queued' = queued \ {c}
    /\ readfd' = readfd \union {LowestFree}
    /\ client_fd' = [client_fd EXCEPT ![client_index] = LowestFree]
    /\ client_index' = client_index + 1
    /\ q' = FALSE
    /\ pc' = "select"
    /\ UNCHANGED <<server, start_index, said, hung, gap>>

(* Mutant: the sixth client is only counted. *)
AcceptCounting ==
    /\ Up
    /\ pc = "accept"
    /\ queued # {}
    /\ client_index = Slots
    /\ client_index' = client_index + 1
    /\ pc' = "select"
    /\ UNCHANGED <<server, start_index, client_fd, readfd, q, fdt, peers, gap>>

(* One client more than client_fd has room for: nothing is followed after  *)
(* the write behind the array.                                             *)
AcceptBeyond ==
    /\ Up
    /\ pc = "accept"
    /\ queued # {}
    /\ client_index = Slots
    /\ server' = "overrun"
    /\ UNCHANGED <<pc, start_index, list, readfd, q, fdt, peers, gap>>

Examined == client_fd[start_index]
AtClient == Up /\ pc = "scan" /\ start_index < client_index

Skip ==
    /\ AtClient
    /\ Examined \notin readfd
    /\ start_index' = start_index + 1
    /\ UNCHANGED <<server, pc, list, readfd, q, fdt, peers, gap>>

(* Mutant: the client is taken off the list before it is known to be done. *)
EndOfFileDropping ==
    /\ AtClient
    /\ Examined \in readfd
    /\ fdt[Examined] # Nobody /\ said[fdt[Examined]] # "waiting" /\ fdt[Examined] \in hung
    /\ q' = FALSE
    /\ client_index' = client_index - 1
    /\ start_index' = start_index + 1
    /\ UNCHANGED <<server, pc, client_fd, readfd, fdt, peers, gap>>

(* Mutant: a client that hung up ends the for loop. *)
EndOfFileBreak ==
    /\ AtClient
    /\ Examined \in readfd
    /\ fdt[Examined] # Nobody /\ said[fdt[Examined]] # "waiting" /\ fdt[Examined] \in hung
    /\ q' = FALSE
    /\ start_index' = client_index
    /\ UNCHANGED <<server, pc, list, readfd, fdt, peers, gap>>

(* read gives 0: the client hung up, and its descriptor stays. *)
EndOfFile ==
    /\ AtClient
    /\ Examined \in readfd
    /\ fdt[Examined] # Nobody /\ said[fdt[Examined]] # "waiting" /\ fdt[Examined] \in hung
    /\ q' = FALSE
    /\ start_index' = start_index + 1
    /\ UNCHANGED <<server, pc, list, readfd, fdt, peers, gap>>

(* Mutant: client_index is not decremented. *)
EchoKeepIndex ==
    LET c == fdt[Examined] IN
    /\ AtClient
    /\ Examined \in readfd
    /\ c # Nobody /\ said[c] = "waiting"
    /\ said' = [said EXCEPT ![c] = "echoed"]
    /\ q' = (c \in Quitters)
    /\ fdt' = [fdt EXCEPT ![Examined] = Nobody]
    /\ readfd' = readfd \ {Examined}
    /\ gap' = (gap \/ start_index # client_index - 1)
    /\ start_index' = start_index + 1
    /\ UNCHANGED <<server, pc, list, queued, hung>>

(* Mutant: the for loop clears mesg once more at its end. *)
EchoClear ==
    LET c == fdt[Examined] IN
    /\ AtClient
    /\ Examined \in readfd
    /\ c # Nobody /\ said[c] = "waiting"
    /\ said' = [said EXCEPT ![c] = "echoed"]
    /\ q' = FALSE
    /\ fdt' = [fdt EXCEPT ![Examined] = Nobody]
    /\ readfd' = readfd \ {Examined}
    /\ client_index' = client_index - 1
    /\ gap' = (gap \/ start_index # client_index - 1)
    /\ start_index' = start_index + 1
    /\ UNCHANGED <<server, pc, client_fd, queued, hung>>

(* The message is echoed, the client closed and cleared from readfd. *)
Echo ==
    LET c == fdt[Examined] IN
    /\ AtClient
    /\ Examined \in readfd
    /\ c # Nobody /\ said[c] = "waiting"
    /\ said' = [said EXCEPT ![c] = "echoed"]
    /\ q' = (c \in Quitters)
    /\ fdt' = [fdt EXCEPT ![Examined] = Nobody]
    /\ readfd' = readfd \ {Examined}
    /\ client_index' = client_index - 1
    /\ gap' = (gap \/ start_index # client_index - 1)
    /\ start_index' = start_index + 1
    /\ UNCHANGED <<server, pc, client_fd, queued, hung>>

(* The for loop ends, and with a "q" in mesg the server does. *)
ScanEnd ==
    /\ Up
    /\ pc = "scan" /\ start_index >= client_index
    /\ pc' = "select"
    /\ server' = IF q THEN "closed" ELSE "up"
    /\ UNCHANGED <<start_index, list, readfd, q, fdt, peers, gap>>

Peer == \E c \in Clients : Connect(c) \/ Send(c) \/ HangUp(c)
Main == \/ Select \/ (\E c \in Clients : Accept(c)) \/ AcceptBeyond
        \/ Skip \/ EndOfFile \/ Echo \/ ScanEnd

Next == Peer \/ Main

Spec == Init /\ [][Next]_vars

(* The server runs when it can; nothing is assumed of the clients. *)
FairSpec == Spec /\ WF_vars(Main)

-----------------------------------------------------------------------------
(* Properties.                                                             *)

(* client_index counts the open connections, even when the list before it  *)
(* no longer names them: the decrement of l.92 goes with the close of l.88.*)
CountsOpenClients == client_index = Cardinality(OpenFds)

(* The server waits in select and accept only: a client it is about to     *)
(* read from (l.81-85) has a message or has hung up, although readfd is    *)
(* never cleared and select may have failed.                               *)
ReadNeverBlocks ==
    pc = "scan" /\ start_index < client_index /\ Examined \in readfd => Readable(Examined)

(* As long as only the last client of the list has ever been closed, the   *)
(* list names every open connection, and each once.                        *)
ListExactWithoutGap ==
    ~gap => /\ Listed = OpenFds
            /\ \A i, j \in 0..(client_index - 1) : client_fd[i] = client_fd[j] => i = j

(* A "q" that was echoed ends the server (l.96): no later message of the   *)
(* same round takes its place in mesg, unless the list had a gap.          *)
QuitIsHeard ==
    \A c \in Quitters : said[c] = "echoed" => q \/ server = "closed" \/ gap

(* Without a gap and within the room of client_fd nobody starves: whoever  *)
(* has sent a message gets it back, whatever silent or departed clients    *)
(* are in the list.                                                        *)
EchoedWithoutGap ==
    \A c \in Clients : said[c] = "waiting" ~> (said[c] = "echoed" \/ gap \/ ~Up)

(* Refinement: gap or not, what the clients see is the service that echoes *)
(* to whoever spoke, ends by a "q" and breaks only when client_fd is full. *)
Service == INSTANCE EchoService WITH
    Room <- Slots,
    conn <- [c \in Clients |-> IF c \in queued THEN "queued"
                               ELSE IF Connected(c) THEN "open"
                               ELSE IF said[c] = "echoed" THEN "served" ELSE "away"],
    said <- {c \in Clients : said[c] = "waiting"},
    left <- hung,
    state <- IF server = "closed" THEN "ended" ELSE IF server = "overrun" THEN "broken" ELSE "up"

ImplementsService == Service!Spec

-----------------------------------------------------------------------------
(* select_server.c:80 "with a for loop, all the clients are examined": a   *)
(* connected client is in the list.  The code does not keep it there.      *)
AllClientsExamined == OpenFds \subseteq Listed
=============================================================================
