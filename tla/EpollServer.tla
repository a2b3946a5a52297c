----------------------------- MODULE EpollServer -----------------------------
(***************************************************************************)
(* Chapter6/epoll_server.c: one process that echoes one message to each    *)
(* client and closes it, as select_server.c does, but over an epoll set    *)
(* with edge-triggered clients.  The loop goes over nfds entries of        *)
(* events, a count kept by hand of the descriptors in the set, and not     *)
(* over those epoll_wait has written: entries of earlier rounds are looked *)
(* at again, and an entry behind a count that fell meanwhile is not looked *)
(* at.  Its edge is gone, so that client waits for ever, unless its        *)
(* descriptor's number comes up in an old entry.                           *)
(*                                                                         *)
(* A message comes in one piece.  BOUND: a client connects once.           *)
(***************************************************************************)
EXTENDS Integers, FiniteSets

CONSTANTS Peers,      \* the clients
          Quitting,   \* those whose message begins with "q"
          Leaving,    \* those that close their end without a message
          MaxEvent    \* the 32 entries of events

ASSUME EpollAssumption == MaxEvent \in Nat \ {0} /\ Quitting \cup Leaving \subseteq Peers /\ IsFiniteSet(Peers)

VARIABLES
  epc, i,            \* main: at "wait", in the "scan", "closed" or "overrun"; the loop's i
  nfds, events,      \* events[k]: the descriptor that stands there, SSOCK or JUNK
  quit,              \* mesg begins with "q"
  conn, fd,          \* peer: "away", "queued" (not accepted), "open", "gone" (closed);
                     \* its descriptor while it is open, else 0
  inbox, eof,        \* peers with an unread message; that have closed their end
  edge,              \* peers whose edge epoll has not reported yet
  echoed,            \* peers that got their message back
  skipped            \* history: peers whose event stood behind nfds

epollVars == <<epc, i, nfds, events, quit, conn, fd, inbox, eof, edge, echoed, skipped>>
network == <<conn, fd, inbox, eof, edge>>

SSOCK == 0
JUNK == -1           \* what an entry holds before epoll_wait wrote it
Fds == 1..Cardinality(Peers)
OpenPeers == {p \in Peers : conn[p] = "open"}
Up == epc \in {"wait", "scan"}

-----------------------------------------------------------------------------
(* The clients, in any order and at any time.                              *)
PeerConnects(p) ==
  /\ Up /\ conn[p] = "away"
  /\ conn' = [conn EXCEPT ![p] = "queued"]
  /\ UNCHANGED <<epc, i, nfds, events, quit, fd, inbox, eof, edge, echoed, skipped>>

\* Data, or the end of it, is an edge once the connection is in the set.
PeerActs(p) ==
  /\ Up /\ conn[p] \in {"queued", "open"} /\ p \notin eof
  /\ \/ p \notin inbox \cup echoed \cup Leaving /\ inbox' = inbox \cup {p} /\ UNCHANGED eof
     \/ p \in Leaving /\ eof' = eof \cup {p} /\ UNCHANGED inbox
  /\ edge' = IF conn[p] = "open" THEN edge \cup {p} ELSE edge
  /\ UNCHANGED <<epc, i, nfds, events, quit, conn, fd, echoed, skipped>>

-----------------------------------------------------------------------------
\* epoll_wait: it writes an entry for each ready descriptor, in some order, as far as there
\* is room, and leaves the others; after 500 ms it returns with nothing.  Its result is
\* not used.
Ready == {fd[p] : p \in edge} \cup (IF \E p \in Peers : conn[p] = "queued" THEN {SSOCK} ELSE {})
Room == IF Cardinality(Ready) < MaxEvent THEN Cardinality(Ready) ELSE MaxEvent

EpollWait ==
  /\ epc = "wait"
  /\ \E written \in {f \in [0..(Room - 1) -> Ready] : \A k, l \in DOMAIN f : f[k] = f[l] => k = l} :
       /\ events' = [k \in DOMAIN events |-> IF k \in DOMAIN written THEN written[k] ELSE events[k]]
       /\ edge' = {p \in edge : \A k \in DOMAIN written : written[k] # fd[p]}
  /\ epc' = "scan" /\ i' = 0
  /\ UNCHANGED <<nfds, quit, conn, fd, inbox, eof, echoed, skipped>>

\* What the loop finds at i; an entry nobody has written may name anything.
Here(e) == epc = "scan" /\ i < nfds /\ i < MaxEvent /\ events[i] \in {e, JUNK} /\ i' = i + 1

Free == {n \in Fds : \A p \in Peers : fd[p] # n}
LowestFree == CHOOSE n \in Free : \A m \in Free : n <= m

\* accept on the non-blocking socket.  The client's address goes through mesg, and
\* a message that is there before its socket is in the set counts as an edge.
Accept ==
  /\ Here(SSOCK)
  /\ \/ \E p \in Peers :
          /\ conn[p] = "queued" /\ conn' = [conn EXCEPT ![p] = "open"]
          /\ fd' = [fd EXCEPT ![p] = LowestFree]
          /\ edge' = IF p \in inbox \cup eof THEN edge \cup {p} ELSE edge
          /\ nfds' = nfds + 1 /\ quit' = FALSE
     \/ (\A p \in Peers : conn[p] # "queued") /\ UNCHANGED <<conn, fd, edge, nfds, quit>>
  /\ UNCHANGED <<epc, events, inbox, eof, echoed, skipped>>

Unread(f) == {p \in OpenPeers \cap inbox : fd[p] = f}
Closed(p) == conn' = [conn EXCEPT ![p] = "gone"] /\ fd' = [fd EXCEPT ![p] = 0] /\ edge' = edge \ {p}

(* Mutant: the count falls although there was nothing to read. *)
ServeCounting(f) ==
  /\ Here(f) /\ nfds' = nfds - 1
  /\ \/ \E p \in Unread(f) : /\ inbox' = inbox \ {p} /\ echoed' = echoed \cup {p}
                             /\ Closed(p) /\ quit' = (p \in Quitting)
     \/ Unread(f) = {} /\ quit' = FALSE /\ UNCHANGED <<inbox, echoed, conn, fd, edge>>
  /\ UNCHANGED <<epc, events, eof, skipped>>

(* Mutant: the message is read, and the connection closed, before it is answered. *)
ServeLate(f) ==
  /\ Here(f)
  /\ \/ \E p \in Unread(f) : /\ inbox' = inbox \ {p} /\ Closed(p)
                             /\ nfds' = nfds - 1 /\ quit' = (p \in Quitting)
     \/ Unread(f) = {} /\ quit' = FALSE /\ UNCHANGED <<inbox, conn, fd, edge, nfds>>
  /\ UNCHANGED <<epc, events, eof, echoed, skipped>>

\* An entry for a client, of this round or left from an earlier one: mesg is cleared, and
\* a message that can be read from whoever has that number now is echoed, and its
\* connection closed.
Serve(f) ==
  /\ Here(f)
  /\ \/ \E p \in Unread(f) : /\ inbox' = inbox \ {p} /\ echoed' = echoed \cup {p} /\ Closed(p)
                             /\ nfds' = nfds - 1 /\ quit' = (p \in Quitting)
     \/ Unread(f) = {} /\ quit' = FALSE /\ UNCHANGED <<inbox, echoed, conn, fd, edge, nfds>>
  /\ UNCHANGED <<epc, events, eof, skipped>>

\* An entry nobody has written that says no input.
Garbage == Here(JUNK) /\ UNCHANGED <<epc, nfds, events, quit, network, echoed, skipped>>

(* Mutant: the loop ends one entry early. *)
EndOfRoundEarly ==
  /\ epc = "scan" /\ i >= nfds - 1
  /\ epc' = IF quit THEN "closed" ELSE "wait"
  /\ skipped' = skipped \cup {p \in (OpenPeers \cap inbox) \ edge :
                               \E k \in nfds..(MaxEvent - 1) : events[k] = fd[p]}
  /\ UNCHANGED <<i, nfds, events, quit, network, echoed>>

\* The loop's condition.  What stood behind nfds was reported and is not looked at.
EndOfRound ==
  /\ epc = "scan" /\ i >= nfds
  /\ epc' = IF quit THEN "closed" ELSE "wait"
  /\ skipped' = skipped \cup {p \in (OpenPeers \cap inbox) \ edge :
                               \E k \in nfds..(MaxEvent - 1) : events[k] = fd[p]}
  /\ UNCHANGED <<i, nfds, events, quit, network, echoed>>

\* nfds has outgrown the array.
Overrun == epc = "scan" /\ i < nfds /\ i >= MaxEvent /\ epc' = "overrun"
           /\ UNCHANGED <<i, nfds, events, quit, network, echoed, skipped>>

-----------------------------------------------------------------------------
\* mesg is not initialised: it may begin with "q" until something is read or accepted.
EpollInit ==
  /\ epc = "wait" /\ i = 0 /\ nfds = 1 /\ events = [k \in 0..(MaxEvent - 1) |-> JUNK]
  /\ quit \in BOOLEAN
  /\ conn = [p \in Peers |-> "away"] /\ fd = [p \in Peers |-> 0]
  /\ inbox = {} /\ eof = {} /\ edge = {} /\ echoed = {} /\ skipped = {}

EpollServer == EpollWait \/ Accept \/ (\E f \in Fds : Serve(f)) \/ Garbage \/ EndOfRound \/ Overrun
EpollNext == EpollServer \/ \E p \in Peers : PeerConnects(p) \/ PeerActs(p)
EpollFairness == WF_epollVars(EpollServer)
EpollSpec == EpollInit /\ [][EpollNext]_epollVars /\ EpollFairness

-----------------------------------------------------------------------------
(* Properties.                                                             *)

EpollTypeOK ==
  /\ epc \in {"wait", "scan", "closed", "overrun"} /\ i \in Nat /\ nfds \in Int
  /\ events \in [0..(MaxEvent - 1) -> Fds \cup {SSOCK, JUNK}]
  /\ quit \in BOOLEAN
  /\ conn \in [Peers -> {"away", "queued", "open", "gone"}] /\ fd \in [Peers -> {0} \cup Fds]
  /\ inbox \subseteq Peers /\ eof \subseteq Peers /\ edge \subseteq Peers
  /\ echoed \subseteq Peers /\ skipped \subseteq Peers

\* The count kept by hand is right at every step, stale entries or not: the listening
\* socket and the open connections.  So epoll_wait never writes more than nfds entries.
CountIsRight == nfds = 1 + Cardinality(OpenPeers)

\* An unread message of an open connection is never forgotten: epoll still has its edge,
\* or the scan still comes to its entry, unless its entry stood behind a count that fell.
NoEdgeLost ==
  \A p \in OpenPeers \cap inbox :
    \/ p \in edge \cup skipped
    \/ epc = "scan" /\ \E k \in i..(MaxEvent - 1) : events[k] = fd[p]
    \/ epc = "overrun"

\* A client that has sent its message gets it back, unless its event was skipped or the
\* server has ended.
MessagesEchoed ==
  \A p \in Peers : p \in inbox ~> (p \in echoed \cup skipped \/ ~Up)

\* Refinement: what the clients see is the service of select_server.c, whatever old entries
\* are looked at and whichever descriptors are given again.
Service == INSTANCE EchoService WITH
  Clients <- Peers, Quitters <- Quitting, Room <- MaxEvent,
  conn <- [p \in Peers |-> IF p \in echoed THEN "served" ELSE conn[p]],
  said <- inbox, left <- eof,
  state <- IF epc = "closed" THEN "ended" ELSE IF epc = "overrun" THEN "broken" ELSE "up"

ImplementsService == Service!Spec
=============================================================================
