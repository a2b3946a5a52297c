--------------------------- MODULE Processes_proofs ---------------------------
(***************************************************************************)
(* Proofs about EpollServer and NamedSemaphore, and about MCProcesses,     *)
(* which puts them side by side.  For any clients and any size of events,  *)
(* the count kept by hand is right although old entries are served, and an *)
(* edge is lost only behind a count that fell.  For any runs, killed or    *)
(* not, and any number of rounds, the counter outside the semaphore        *)
(* follows its value as long as the two threads do not meet inside of      *)
(* cnt++ and cnt--.                                                        *)
(***************************************************************************)
EXTENDS MCProcesses, FiniteSetTheorems, WellFoundedInduction, TLAPS

(* The least of some natural numbers, as the kernel gives a descriptor.    *)
LEMMA LeastNatural ==
  ASSUME NEW T, T \subseteq Nat, T # {}
  PROVE  \E x \in T : \A y \in T : x <= y
  <1> DEFINE R == OpToRel(<, Nat)
  <1>1. IsWellFoundedOn(R, Nat)
    BY NatLessThanWellFounded
  <1>2. PICK x \in T : \A y \in T : <<y, x>> \notin R
    <2> HIDE DEF R
    <2> QED BY <1>1, WFMin
  <1>3. ASSUME NEW y \in T PROVE x <= y
    <2>1. x \in Nat /\ y \in Nat
      OBVIOUS
    <2>2. ~(y < x)
      BY <1>2, <2>1 DEF OpToRel
    <2> QED BY <2>1, <2>2
  <1> QED BY <1>3

-----------------------------------------------------------------------------
(* The epoll server.                                                       *)

(* A number stands for one connection, and only for an open one.           *)
FdInv ==
  /\ \A p \in Peers : conn[p] = "open" <=> fd[p] # 0
  /\ \A p, q \in OpenPeers : fd[p] = fd[q] => p = q

EpollInv == EpollTypeOK /\ FdInv /\ CountIsRight /\ NoEdgeLost

-----------------------------------------------------------------------------
LEMMA PeersFinite ==
  /\ IsFiniteSet(Peers) /\ Cardinality(Peers) \in Nat
  /\ IsFiniteSet(Fds) /\ Cardinality(Fds) = Cardinality(Peers)
  /\ Fds \subseteq Nat \ {0}
  <1>1. IsFiniteSet(Peers) /\ Cardinality(Peers) \in Nat
    BY EpollAssumption, FS_CardinalityType
  <1>2. IsFiniteSet(1..Cardinality(Peers)) /\ Cardinality(1..Cardinality(Peers)) = Cardinality(Peers)
    BY <1>1, FS_Interval
  <1> QED BY <1>1, <1>2 DEF Fds

(* A client that waits to be accepted leaves a number free: the open ones  *)
(* are fewer than the clients, and each has one.                           *)
LEMMA LowestFreeIsFree ==
  ASSUME EpollTypeOK, FdInv, NEW p \in Peers, conn[p] = "queued"
  PROVE  LowestFree \in Fds /\ \A q \in Peers : fd[q] # LowestFree
  <1>1. Free # {}
    <2> SUFFICES ASSUME Free = {} PROVE FALSE
      OBVIOUS
    <2> DEFINE Others == Peers \ {p}
               owner == [n \in Fds |-> CHOOSE q \in Peers : fd[q] = n]
    <2>1. ASSUME NEW n \in Fds PROVE owner[n] \in Others /\ fd[owner[n]] = n
      <3>1. \E q \in Peers : fd[q] = n
        BY DEF Free
      <3>2. owner[n] \in Peers /\ fd[owner[n]] = n
        BY <3>1
      <3>3. fd[p] = 0 /\ n # 0
        BY PeersFinite DEF FdInv
      <3> QED BY <3>2, <3>3
    <2>2. owner \in Injection(Fds, Others)
      <3>1. owner \in [Fds -> Others]
        BY <2>1
      <3>2. \A m, n \in Fds : owner[m] = owner[n] => m = n
        BY <2>1
      <3> HIDE DEF owner
      <3> QED BY <3>1, <3>2 DEF Injection, IsInjective
    <2>3. IsFiniteSet(Others) /\ Cardinality(Others) = Cardinality(Peers) - 1
      BY PeersFinite, FS_RemoveElement
    <2>4. Cardinality(Fds) <= Cardinality(Others)
      <3> HIDE DEF owner, Others
      <3> QED BY <2>2, <2>3, FS_Injection
    <2> QED BY <2>3, <2>4, PeersFinite
  <1>2. Free \subseteq Fds /\ Free \subseteq Nat
    BY PeersFinite DEF Free
  <1>3. \E n \in Free : \A m \in Free : n <= m
    BY <1>1, <1>2, LeastNatural
  <1>4. LowestFree \in Free
    BY <1>3 DEF LowestFree
  <1> QED BY <1>4 DEF Free

LEMMA OpenFinite ==
  ASSUME EpollTypeOK
  PROVE  IsFiniteSet(OpenPeers) /\ Cardinality(OpenPeers) \in Nat
  <1>1. OpenPeers \subseteq Peers
    BY DEF OpenPeers
  <1> QED BY <1>1, PeersFinite, FS_Subset, FS_CardinalityType

(* epoll_wait writes inside of events.                                     *)
LEMMA WrittenInside ==
  ASSUME EpollTypeOK
  PROVE  /\ Ready \subseteq Fds \cup {SSOCK}
         /\ 0..(Room - 1) \subseteq 0..(MaxEvent - 1)
  <1>1. Ready \subseteq Fds \cup {SSOCK}
    BY DEF EpollTypeOK, Ready, SSOCK
  <1>2. IsFiniteSet(Fds \cup {SSOCK})
    BY PeersFinite, FS_AddElement
  <1>3. Cardinality(Ready) \in Nat
    BY <1>1, <1>2, FS_Subset, FS_CardinalityType
  <1> QED BY <1>1, <1>3, EpollAssumption DEF Room

-----------------------------------------------------------------------------
LEMMA EpollStart == EpollInit => EpollInv
  <1> SUFFICES ASSUME EpollInit PROVE EpollInv
    OBVIOUS
  <1>1. EpollTypeOK
    BY EpollAssumption DEF EpollInit, EpollTypeOK, JUNK
  <1>2. OpenPeers = {}
    BY DEF EpollInit, OpenPeers
  <1>3. FdInv /\ NoEdgeLost
    BY <1>2 DEF EpollInit, FdInv, NoEdgeLost
  <1>4. CountIsRight
    BY <1>2, FS_EmptySet DEF EpollInit, CountIsRight
  <1> QED BY <1>1, <1>3, <1>4 DEF EpollInv

LEMMA EpollTypeStep == EpollTypeOK /\ FdInv /\ [EpollNext]_epollVars => EpollTypeOK'
  <1> SUFFICES ASSUME EpollTypeOK, FdInv, [EpollNext]_epollVars PROVE EpollTypeOK'
    OBVIOUS
  <1> USE EpollAssumption DEF EpollTypeOK
  <1>1. CASE EpollWait
    <2>1. PICK written \in [0..(Room - 1) -> Ready] :
            /\ events' = [k \in DOMAIN events |-> IF k \in DOMAIN written THEN written[k] ELSE events[k]]
            /\ edge' = {p \in edge : \A k \in DOMAIN written : written[k] # fd[p]}
      BY <1>1 DEF EpollWait
    <2>2. events' \in [0..(MaxEvent - 1) -> Fds \cup {SSOCK, JUNK}]
      BY <2>1, WrittenInside
    <2>3. edge' \subseteq Peers
      BY <2>1
    <2> QED BY <1>1, <2>2, <2>3 DEF EpollWait
  <1>2. CASE Accept
    <2>1. CASE \A p \in Peers : conn[p] # "queued"
      BY <1>2, <2>1 DEF Accept, Here
    <2>2. ASSUME NEW p \in Peers, conn[p] = "queued",
                 conn' = [conn EXCEPT ![p] = "open"], fd' = [fd EXCEPT ![p] = LowestFree],
                 edge' = IF p \in inbox \cup eof THEN edge \cup {p} ELSE edge,
                 nfds' = nfds + 1, quit' = FALSE
          PROVE  EpollTypeOK'
      <3>1. LowestFree \in Fds
        BY <2>2, LowestFreeIsFree
      <3>2. fd' \in [Peers -> {0} \cup Fds] /\ conn' \in [Peers -> {"away", "queued", "open", "gone"}]
        BY <2>2, <3>1
      <3>3. edge' \subseteq Peers
        BY <2>2
      <3>4. i' = i + 1 /\ UNCHANGED <<epc, events, inbox, eof, echoed, skipped>>
        BY <1>2 DEF Accept, Here
      <3>5. nfds' \in Int
        BY <2>2
      <3>6. quit' \in BOOLEAN
        <4>1. quit' = FALSE
          BY <2>2
        <4> QED BY <4>1
      <3> QED BY <3>2, <3>3, <3>4, <3>5, <3>6
    <2> QED BY <1>2, <2>1, <2>2 DEF Accept
  <1>3. ASSUME NEW f \in Fds, Serve(f) PROVE EpollTypeOK'
    <2>1. i' = i + 1 /\ UNCHANGED <<epc, events, eof, skipped>>
      BY <1>3 DEF Serve, Here
    <2>2. CASE Unread(f) = {} /\ quit' = FALSE /\ UNCHANGED <<inbox, echoed, conn, fd, edge, nfds>>
      <3>1. quit' \in BOOLEAN
        BY <2>2
      <3> QED BY <2>1, <2>2, <3>1
    <2>3. ASSUME NEW p \in Unread(f), inbox' = inbox \ {p}, echoed' = echoed \cup {p}, Closed(p),
                 nfds' = nfds - 1, quit' = (p \in Quitting)
          PROVE  EpollTypeOK'
      <3> HIDE DEF EpollTypeOK
      <3>1. p \in Peers
        BY DEF Unread, OpenPeers
      <3>2. quit' \in BOOLEAN
        <4>1. CASE p \in Quitting
          BY <2>3, <4>1
        <4>2. CASE p \notin Quitting
          BY <2>3, <4>2
        <4> QED BY <4>1, <4>2
      <3>3. conn' \in [Peers -> {"away", "queued", "open", "gone"}] /\ fd' \in [Peers -> {0} \cup Fds]
        BY <2>3, <3>1 DEF Closed, EpollTypeOK
      <3>4. inbox' \subseteq Peers /\ echoed' \subseteq Peers /\ edge' \subseteq Peers /\ nfds' \in Int
        BY <2>3, <3>1 DEF Closed, EpollTypeOK
      <3> QED BY <2>1, <3>2, <3>3, <3>4 DEF EpollTypeOK
    <2> QED BY <1>3, <2>2, <2>3 DEF Serve
  <1>4. CASE Garbage
    BY <1>4 DEF Garbage, Here, network
  <1>5. CASE EndOfRound \/ Overrun
    BY <1>5 DEF EndOfRound, Overrun, OpenPeers, network
  <1>6. ASSUME NEW p \in Peers, PeerConnects(p) \/ PeerActs(p) PROVE EpollTypeOK'
    BY <1>6 DEF PeerConnects, PeerActs
  <1>7. CASE UNCHANGED epollVars
    BY <1>7 DEF epollVars
  <1> QED BY <1>1, <1>2, <1>3, <1>4, <1>5, <1>6, <1>7 DEF EpollNext, EpollServer

LEMMA FdStep == EpollTypeOK /\ FdInv /\ [EpollNext]_epollVars => FdInv'
  <1> SUFFICES ASSUME EpollTypeOK, FdInv, [EpollNext]_epollVars PROVE FdInv'
    OBVIOUS
  <1>1. CASE UNCHANGED <<conn, fd>>
    BY <1>1 DEF FdInv, OpenPeers
  <1>2. ASSUME NEW p \in Peers, PeerConnects(p) PROVE FdInv'
    BY <1>2 DEF PeerConnects, FdInv, OpenPeers, EpollTypeOK
  <1>3. ASSUME NEW p \in Peers, conn[p] = "queued", conn' = [conn EXCEPT ![p] = "open"],
               fd' = [fd EXCEPT ![p] = LowestFree]
        PROVE  FdInv'
    <2>1. LowestFree # 0 /\ \A q \in Peers : fd[q] # LowestFree
      BY <1>3, LowestFreeIsFree, PeersFinite
    <2>2. conn'[p] = "open" /\ fd'[p] = LowestFree
      BY <1>3 DEF EpollTypeOK
    <2>3. \A q \in Peers \ {p} : conn'[q] = conn[q] /\ fd'[q] = fd[q]
      BY <1>3 DEF EpollTypeOK
    <2> QED BY <2>1, <2>2, <2>3 DEF FdInv, OpenPeers
  <1>4. ASSUME NEW p \in Peers, Closed(p) PROVE FdInv'
    BY <1>4 DEF Closed, FdInv, OpenPeers, EpollTypeOK
  <1>5. CASE Accept
    BY <1>1, <1>3, <1>5 DEF Accept
  <1>6. ASSUME NEW f \in Fds, Serve(f) PROVE FdInv'
    BY <1>1, <1>4, <1>6 DEF Serve, Unread, OpenPeers
  <1>7. CASE EpollWait \/ Garbage \/ EndOfRound \/ Overrun
    BY <1>1, <1>7 DEF EpollWait, Garbage, EndOfRound, Overrun, network
  <1>8. ASSUME NEW p \in Peers, PeerActs(p) PROVE FdInv'
    BY <1>1, <1>8 DEF PeerActs
  <1> QED BY <1>1, <1>2, <1>5, <1>6, <1>7, <1>8 DEF EpollNext, EpollServer, epollVars

(* nfds changes only where a connection opens or closes.                   *)
LEMMA CountStep == EpollTypeOK /\ CountIsRight /\ [EpollNext]_epollVars => CountIsRight'
  <1> SUFFICES ASSUME EpollTypeOK, CountIsRight, [EpollNext]_epollVars PROVE CountIsRight'
    OBVIOUS
  <1>1. CASE UNCHANGED <<nfds, conn>>
    BY <1>1 DEF CountIsRight, OpenPeers
  <1>2. ASSUME NEW p \in Peers, PeerConnects(p) PROVE CountIsRight'
    <2>1. OpenPeers' = OpenPeers
      BY <1>2 DEF PeerConnects, OpenPeers, EpollTypeOK
    <2>2. UNCHANGED nfds
      BY <1>2 DEF PeerConnects
    <2> QED BY <2>1, <2>2 DEF CountIsRight
  <1>3. CASE Accept
    <2>1. CASE UNCHANGED <<conn, nfds>>
      BY <1>1, <2>1
    <2>2. ASSUME NEW p \in Peers, conn[p] = "queued", conn' = [conn EXCEPT ![p] = "open"], nfds' = nfds + 1
          PROVE  CountIsRight'
      <3>1. OpenPeers' = OpenPeers \cup {p} /\ p \notin OpenPeers
        BY <2>2 DEF OpenPeers, EpollTypeOK
      <3>2. Cardinality(OpenPeers') = Cardinality(OpenPeers) + 1
        BY <3>1, OpenFinite, FS_AddElement
      <3> QED BY <2>2, <3>2, OpenFinite DEF CountIsRight
    <2> QED BY <1>3, <2>1, <2>2 DEF Accept
  <1>4. ASSUME NEW f \in Fds, Serve(f) PROVE CountIsRight'
    <2>1. CASE UNCHANGED <<conn, nfds>>
      BY <1>1, <2>1
    <2>2. ASSUME NEW p \in OpenPeers, Closed(p), nfds' = nfds - 1 PROVE CountIsRight'
      <3>1. OpenPeers' = OpenPeers \ {p}
        BY <2>2 DEF Closed, OpenPeers, EpollTypeOK
      <3>2. Cardinality(OpenPeers') = Cardinality(OpenPeers) - 1
        BY <3>1, OpenFinite, FS_RemoveElement
      <3> QED BY <2>2, <3>2, OpenFinite DEF CountIsRight
    <2> QED BY <1>4, <2>1, <2>2 DEF Serve, Unread
  <1>5. CASE EpollWait \/ Garbage \/ EndOfRound \/ Overrun
    BY <1>1, <1>5 DEF EpollWait, Garbage, EndOfRound, Overrun, network
  <1>6. ASSUME NEW p \in Peers, PeerActs(p) PROVE CountIsRight'
    BY <1>1, <1>6 DEF PeerActs
  <1> QED BY <1>1, <1>2, <1>3, <1>4, <1>5, <1>6 DEF EpollNext, EpollServer, epollVars

(* What stands at i names p only if whoever is served is p: numbers are    *)
(* not shared, and JUNK is no number.                                      *)
LEMMA EdgeStep == EpollTypeOK /\ FdInv /\ NoEdgeLost /\ [EpollNext]_epollVars => NoEdgeLost'
  <1> SUFFICES ASSUME EpollTypeOK, FdInv, NoEdgeLost, [EpollNext]_epollVars,
                      NEW p \in Peers, conn'[p] = "open", p \in inbox'
               PROVE  \/ p \in edge' \cup skipped'
                      \/ epc' = "scan" /\ \E k \in i'..(MaxEvent - 1) : events'[k] = fd'[p]
                      \/ epc' = "overrun"
    BY DEF NoEdgeLost, OpenPeers
  <1> DEFINE Kept == \/ p \in edge' \cup skipped'
                     \/ epc' = "scan" /\ \E k \in i'..(MaxEvent - 1) : events'[k] = fd'[p]
                     \/ epc' = "overrun"
  <1> DEFINE Listed == \E k \in i..(MaxEvent - 1) : events[k] = fd[p]
  <1>1. conn[p] = "open" /\ p \in inbox =>
          p \in edge \cup skipped \/ (epc = "scan" /\ Listed) \/ epc = "overrun"
    BY DEF NoEdgeLost, OpenPeers
  <1>2. conn[p] = "open" => fd[p] \in Fds /\ fd[p] # SSOCK /\ fd[p] # JUNK
    BY PeersFinite DEF FdInv, EpollTypeOK, SSOCK, JUNK
  <1>3. i \in Nat /\ MaxEvent \in Nat
    BY EpollAssumption DEF EpollTypeOK
  <1>4. CASE EpollWait
    <2>1. PICK written \in [0..(Room - 1) -> Ready] :
            /\ events' = [k \in DOMAIN events |-> IF k \in DOMAIN written THEN written[k] ELSE events[k]]
            /\ edge' = {q \in edge : \A k \in DOMAIN written : written[k] # fd[q]}
      BY <1>4 DEF EpollWait
    <2>2. epc = "wait" /\ epc' = "scan" /\ i' = 0 /\ UNCHANGED <<conn, fd, inbox, skipped>>
      BY <1>4 DEF EpollWait
    <2>3. p \in edge \cup skipped
      BY <1>1, <2>2
    <2>4. ASSUME p \notin edge', p \notin skipped' PROVE \E k \in 0..(MaxEvent - 1) : events'[k] = fd[p]
      <3>1. PICK k \in DOMAIN written : written[k] = fd[p]
        BY <2>1, <2>2, <2>3, <2>4
      <3>2. k \in 0..(MaxEvent - 1) /\ k \in DOMAIN events
        BY WrittenInside DEF EpollTypeOK
      <3> QED BY <2>1, <3>1, <3>2
    <2> QED BY <2>2, <2>4
  <1>5. CASE Accept
    <2>1. i < MaxEvent /\ i' = i + 1 /\ epc = "scan" /\ events[i] \in {SSOCK, JUNK}
          /\ UNCHANGED <<epc, events, inbox, skipped>>
      BY <1>5 DEF Accept, Here
    <2>2. CASE conn[p] = "open"
      <3>1. fd'[p] = fd[p] /\ (p \in edge => p \in edge')
        BY <1>5, <2>2 DEF Accept, EpollTypeOK
      <3>2. Listed => \E k \in i'..(MaxEvent - 1) : events[k] = fd[p]
        BY <1>2, <1>3, <2>1, <2>2
      <3> QED BY <1>1, <2>1, <2>2, <3>1, <3>2
    <2>3. CASE conn[p] # "open"
      BY <1>5, <2>1, <2>3 DEF Accept, EpollTypeOK
    <2> QED BY <2>2, <2>3
  <1>6. ASSUME NEW f \in Fds, Serve(f)
        PROVE  Kept
    <2>1. i < MaxEvent /\ i' = i + 1 /\ epc = "scan" /\ events[i] \in {f, JUNK}
          /\ UNCHANGED <<epc, events, skipped>>
      BY <1>6 DEF Serve, Here
    <2>2. conn[p] = "open" /\ p \in inbox /\ fd'[p] = fd[p] /\ (p \in edge => p \in edge') /\ fd[p] # f
      <3>1. CASE Unread(f) = {} /\ UNCHANGED <<inbox, conn, fd, edge>>
        BY <3>1 DEF Unread, OpenPeers
      <3>2. ASSUME NEW q \in Unread(f), inbox' = inbox \ {q}, Closed(q)
            PROVE  conn[p] = "open" /\ p \in inbox /\ fd'[p] = fd[p] /\ (p \in edge => p \in edge') /\ fd[p] # f
        <4>1. p # q /\ p \in inbox /\ q \in OpenPeers /\ fd[q] = f
          BY <3>2 DEF Unread
        <4>2. conn[p] = "open" /\ fd'[p] = fd[p] /\ (p \in edge => p \in edge')
          BY <3>2, <4>1 DEF Closed, EpollTypeOK
        <4> QED BY <4>1, <4>2 DEF FdInv, OpenPeers
      <3> QED BY <1>6, <3>1, <3>2 DEF Serve
    <2>3. Listed => \E k \in i'..(MaxEvent - 1) : events[k] = fd[p]
      BY <1>2, <1>3, <2>1, <2>2
    <2> QED BY <1>1, <2>1, <2>2, <2>3
  <1>7. CASE Garbage
    <2>1. i < MaxEvent /\ i' = i + 1 /\ epc = "scan" /\ events[i] = JUNK
          /\ UNCHANGED <<epc, events, conn, fd, inbox, edge, skipped>>
      BY <1>7 DEF Garbage, Here, network
    <2>2. Listed => \E k \in i'..(MaxEvent - 1) : events[k] = fd[p]
      BY <1>2, <1>3, <2>1
    <2> QED BY <1>1, <2>1, <2>2
  <1>8. CASE EndOfRound
    <2>1. epc = "scan" /\ i >= nfds /\ UNCHANGED <<i, events, conn, fd, inbox, edge>>
          /\ skipped' = skipped \cup {q \in (OpenPeers \cap inbox) \ edge :
                                        \E k \in nfds..(MaxEvent - 1) : events[k] = fd[q]}
      BY <1>8 DEF EndOfRound, network
    <2>2. Listed => \E k \in nfds..(MaxEvent - 1) : events[k] = fd[p]
      BY <1>3, <2>1 DEF EpollTypeOK
    <2> QED BY <1>1, <2>1, <2>2 DEF OpenPeers
  <1>9. CASE Overrun
    BY <1>9 DEF Overrun
  <1>10. ASSUME NEW q \in Peers, PeerConnects(q)
         PROVE  Kept
    <2>1. conn[p] = "open" /\ epc # "overrun"
          /\ UNCHANGED <<epc, i, events, fd, inbox, edge, skipped>>
      BY <1>10 DEF PeerConnects, EpollTypeOK, Up
    <2> QED BY <1>1, <2>1
  <1>11. ASSUME NEW q \in Peers, PeerActs(q)
         PROVE  Kept
    <2>1. epc # "overrun" /\ UNCHANGED <<epc, i, events, conn, fd, skipped>>
      BY <1>11 DEF PeerActs, Up
    <2>2. edge \subseteq edge' /\ (p \notin inbox => p \in edge')
      BY <1>11, <2>1 DEF PeerActs
    <2> QED BY <1>1, <2>1, <2>2
  <1>12. CASE UNCHANGED epollVars
    BY <1>1, <1>12 DEF epollVars
  <1> QED BY <1>4, <1>5, <1>6, <1>7, <1>8, <1>9, <1>10, <1>11, <1>12 DEF EpollNext, EpollServer

-----------------------------------------------------------------------------
LEMMA EpollInvariance == EpollSpec => []EpollInv
  <1>1. EpollInv /\ [EpollNext]_epollVars => EpollInv'
    BY EpollTypeStep, FdStep, CountStep, EdgeStep DEF EpollInv
  <1> QED BY EpollStart, <1>1, PTL DEF EpollSpec

(* The variables keep their types for any clients and any size of events.  *)
THEOREM EpollTypeCorrect == EpollSpec => []EpollTypeOK
  <1>1. EpollInv => EpollTypeOK
    BY DEF EpollInv
  <1> QED BY EpollInvariance, <1>1, PTL

(* nfds is one more than the number of open connections at every step, for *)
(* any clients, whatever old entries are served.                           *)
THEOREM EpollCountCorrect == EpollSpec => []CountIsRight
  <1>1. EpollInv => CountIsRight
    BY DEF EpollInv
  <1> QED BY EpollInvariance, <1>1, PTL

(* For any clients: an unread message is known to epoll, or still to be    *)
(* looked at in this round, or stood behind a count that fell.             *)
THEOREM EpollEdgeCorrect == EpollSpec => []NoEdgeLost
  <1>1. EpollInv => NoEdgeLost
    BY DEF EpollInv
  <1> QED BY EpollInvariance, <1>1, PTL

-----------------------------------------------------------------------------
(* Refinement: the epoll server is the service of EchoService.             *)

Seen == [p \in Peers |-> IF p \in echoed THEN "served" ELSE conn[p]]
State == IF epc = "closed" THEN "ended" ELSE IF epc = "overrun" THEN "broken" ELSE "up"

(* A connection that was closed is one that got its message back.          *)
GoneInv == \A p \in Peers : conn[p] = "gone" <=> p \in echoed

(* A "q" in mesg was echoed, or mesg is as it was when the program began   *)
(* and nobody has been accepted.                                           *)
HeardInv == quit => \/ \E p \in Quitting : conn[p] = "gone"
                    \/ \A p \in Peers : conn[p] \in {"away", "queued"}

LEMMA HeardStart == EpollInit => GoneInv /\ HeardInv
  BY DEF EpollInit, GoneInv, HeardInv

LEMMA GoneStep == EpollTypeOK /\ GoneInv /\ [EpollNext]_epollVars => GoneInv'
  <1> SUFFICES ASSUME EpollTypeOK, GoneInv, [EpollNext]_epollVars PROVE GoneInv'
    OBVIOUS
  <1>t. conn \in [Peers -> {"away", "queued", "open", "gone"}]
    BY DEF EpollTypeOK
  <1>1. CASE UNCHANGED <<conn, echoed>>
    BY <1>1 DEF GoneInv
  <1>2. ASSUME NEW p \in Peers, NEW new \in {"queued", "open"}, conn[p] # "gone",
               conn' = [conn EXCEPT ![p] = new], UNCHANGED echoed
        PROVE  GoneInv'
    BY <1>t, <1>2 DEF GoneInv
  <1>3. ASSUME NEW p \in Peers, PeerConnects(p) PROVE GoneInv'
    BY <1>2, <1>3 DEF PeerConnects
  <1>4. CASE Accept
    BY <1>1, <1>2, <1>4 DEF Accept
  <1>5. ASSUME NEW f \in Fds, Serve(f) PROVE GoneInv'
    <2>1. ASSUME NEW p \in Unread(f), Closed(p), echoed' = echoed \cup {p} PROVE GoneInv'
      BY <1>t, <2>1 DEF Unread, OpenPeers, Closed, GoneInv
    <2> QED BY <1>1, <1>5, <2>1 DEF Serve
  <1>6. CASE EpollWait \/ Garbage \/ EndOfRound \/ Overrun
    BY <1>1, <1>6 DEF EpollWait, Garbage, EndOfRound, Overrun, network
  <1>7. ASSUME NEW p \in Peers, PeerActs(p) PROVE GoneInv'
    BY <1>1, <1>7 DEF PeerActs
  <1> QED BY <1>1, <1>3, <1>4, <1>5, <1>6, <1>7 DEF EpollNext, EpollServer, epollVars

LEMMA HeardStep == EpollTypeOK /\ HeardInv /\ [EpollNext]_epollVars => HeardInv'
  <1> SUFFICES ASSUME EpollTypeOK, HeardInv, [EpollNext]_epollVars PROVE HeardInv'
    OBVIOUS
  <1>t. conn \in [Peers -> {"away", "queued", "open", "gone"}] /\ Quitting \subseteq Peers
    BY EpollAssumption DEF EpollTypeOK
  <1>1. CASE UNCHANGED <<quit, conn>>
    BY <1>1 DEF HeardInv
  <1>2. CASE quit' = FALSE
    BY <1>2 DEF HeardInv
  <1>3. ASSUME NEW p \in Peers, PeerConnects(p) PROVE HeardInv'
    BY <1>t, <1>3 DEF PeerConnects, HeardInv
  <1>4. CASE Accept
    BY <1>1, <1>2, <1>4 DEF Accept
  <1>5. ASSUME NEW f \in Fds, Serve(f) PROVE HeardInv'
    <2>1. ASSUME NEW p \in Unread(f), Closed(p), quit' = (p \in Quitting) PROVE HeardInv'
      <3>1. p \in Peers /\ conn'[p] = "gone"
        BY <1>t, <2>1 DEF Unread, OpenPeers, Closed
      <3> QED BY <2>1, <3>1 DEF HeardInv
    <2> QED BY <1>2, <1>5, <2>1 DEF Serve
  <1>6. CASE EpollWait \/ Garbage \/ EndOfRound \/ Overrun
    BY <1>1, <1>6 DEF EpollWait, Garbage, EndOfRound, Overrun, network
  <1>7. ASSUME NEW p \in Peers, PeerActs(p) PROVE HeardInv'
    BY <1>1, <1>7 DEF PeerActs
  <1> QED BY <1>1, <1>3, <1>4, <1>5, <1>6, <1>7 DEF EpollNext, EpollServer, epollVars

LEMMA SameCardinality == \A S : Service!Cardinality(S) = Cardinality(S)
  BY DEF Service!Cardinality, Cardinality, Service!IsFiniteSet, IsFiniteSet

LEMMA ServiceStart == EpollInit => Service!Init
  <1> SUFFICES ASSUME EpollInit PROVE Service!Init
    OBVIOUS
  <1>1. Seen = [p \in Peers |-> "away"] /\ State = "up" /\ inbox = {} /\ eof = {}
    BY DEF EpollInit, Seen, State
  <1> QED BY <1>1 DEF Service!Init, Seen, State

LEMMA ServiceStep ==
  EpollInv /\ GoneInv /\ HeardInv /\ [EpollNext]_epollVars => [Service!Next]_(Service!echoVars)
  <1> SUFFICES ASSUME EpollInv, GoneInv, HeardInv, [EpollNext]_epollVars
               PROVE  [Service!Next]_(Service!echoVars)
    OBVIOUS
  <1>t. /\ conn \in [Peers -> {"away", "queued", "open", "gone"}]
        /\ epc \in {"wait", "scan", "closed", "overrun"}
        /\ i \in Nat /\ nfds \in Int /\ Quitting \subseteq Peers
    BY EpollAssumption DEF EpollInv, EpollTypeOK
  <1>u. epc \in {"wait", "scan"} => State = "up"
    BY DEF State
  <1> DEFINE Same == Seen' = Seen /\ inbox' = inbox /\ eof' = eof /\ State' = State
  <1>s. Same => UNCHANGED Service!echoVars
    BY DEF Service!echoVars, Seen, State
  <1>a. \A p \in Peers : Seen[p] = IF conn[p] = "gone" THEN "served" ELSE conn[p]
    BY DEF Seen, GoneInv
  <1>b. ASSUME UNCHANGED <<conn, echoed, epc>> PROVE Seen' = Seen /\ State' = State
    BY <1>b DEF Seen, State
  <1>1. ASSUME NEW p \in Peers, PeerConnects(p) PROVE Service!Next
    <2>1. /\ epc \in {"wait", "scan"} /\ conn[p] = "away" /\ conn' = [conn EXCEPT ![p] = "queued"]
          /\ UNCHANGED <<epc, inbox, eof, echoed>>
      BY <1>1 DEF PeerConnects, Up
    <2>2. Seen[p] = "away" /\ Seen' = [Seen EXCEPT ![p] = "queued"]
      BY <1>t, <2>1 DEF Seen, GoneInv
    <2>3. State' = State /\ State = "up"
      BY <1>u, <2>1 DEF State
    <2>4. Service!Connect(p)
      BY <2>1, <2>2, <2>3 DEF Service!Connect, Service!Moves, Seen, State
    <2> QED BY <2>3, <2>4 DEF Service!Next, State
  <1>2. ASSUME NEW p \in Peers, PeerActs(p) PROVE Service!Next
    <2>1. /\ epc \in {"wait", "scan"} /\ conn[p] \in {"queued", "open"} /\ p \notin eof
          /\ UNCHANGED <<epc, conn, echoed>>
          /\ \/ p \notin inbox /\ inbox' = inbox \cup {p} /\ UNCHANGED eof
             \/ eof' = eof \cup {p} /\ UNCHANGED inbox
      BY <1>2 DEF PeerActs, Up
    <2>2. Seen[p] \in {"queued", "open"} /\ Seen' = Seen /\ State' = State /\ State = "up"
      BY <1>a, <1>b, <1>u, <2>1
    <2>3. Service!Speak(p) \/ Service!Leave(p)
      BY <2>1, <2>2 DEF Service!Speak, Service!Leave, Service!Connected, Seen, State
    <2> QED BY <2>2, <2>3 DEF Service!Next, State
  <1>3. ASSUME NEW p \in Peers, conn[p] = "queued", conn' = [conn EXCEPT ![p] = "open"],
               epc = "scan", UNCHANGED <<epc, inbox, eof, echoed>>
        PROVE  Service!Next
    <2>1. Seen[p] = "queued" /\ Seen' = [Seen EXCEPT ![p] = "open"]
      BY <1>t, <1>3 DEF Seen, GoneInv
    <2>2. State' = State /\ State = "up"
      BY <1>u, <1>3 DEF State
    <2>3. Service!Admit(p)
      BY <1>3, <2>1, <2>2 DEF Service!Admit, Service!Moves, Seen, State
    <2> QED BY <2>2, <2>3 DEF Service!Next, State
  <1>4. CASE Accept
    <2>1. epc = "scan" /\ UNCHANGED <<epc, inbox, eof, echoed>>
      BY <1>4 DEF Accept, Here
    <2>2. CASE UNCHANGED conn
      BY <1>b, <1>s, <2>1, <2>2
    <2> QED BY <1>3, <1>4, <2>1, <2>2 DEF Accept
  <1>5. ASSUME NEW f \in Fds, NEW p \in Unread(f), Closed(p), inbox' = inbox \ {p},
               echoed' = echoed \cup {p}, epc = "scan", UNCHANGED <<epc, eof>>
        PROVE  Service!Next
    <2>1. p \in Peers /\ p \in inbox /\ conn[p] = "open" /\ conn' = [conn EXCEPT ![p] = "gone"]
      BY <1>5 DEF Unread, OpenPeers, Closed
    <2>2. Seen[p] = "open" /\ Seen' = [Seen EXCEPT ![p] = "served"]
      BY <1>t, <1>5, <2>1 DEF Seen, GoneInv
    <2>3. State' = State /\ State = "up"
      BY <1>u, <1>5 DEF State
    <2>4. Service!SendBack(p)
      BY <1>5, <2>1, <2>2, <2>3 DEF Service!SendBack, Service!Moves, Seen, State
    <2> QED BY <2>1, <2>3, <2>4 DEF Service!Next, State
  <1>6. ASSUME NEW f \in Fds, Serve(f) PROVE [Service!Next]_(Service!echoVars)
    <2>1. epc = "scan" /\ UNCHANGED <<epc, eof>>
      BY <1>6 DEF Serve, Here
    <2>2. CASE UNCHANGED <<inbox, conn, echoed>>
      BY <1>b, <1>s, <2>1, <2>2
    <2> QED BY <1>5, <1>6, <2>1, <2>2 DEF Serve
  <1>7. CASE EndOfRound
    <2>1. epc = "scan" /\ epc' = (IF quit THEN "closed" ELSE "wait") /\ UNCHANGED <<conn, inbox, eof, echoed>>
      BY <1>7 DEF EndOfRound, network
    <2>2. Seen' = Seen /\ State = "up" /\ State' = IF quit THEN "ended" ELSE "up"
      BY <1>u, <2>1 DEF Seen, State
    <2>3. CASE ~quit
      BY <1>s, <2>1, <2>2, <2>3
    <2>4. CASE quit
      <3>1. \/ \E p \in Quitting : Seen[p] = "served"
            \/ \A p \in Peers : Seen[p] \in {"away", "queued"}
        BY <1>a, <1>t, <2>4 DEF HeardInv
      <3>2. Service!End
        BY <2>1, <2>2, <2>4, <3>1 DEF Service!End, Seen, State
      <3> QED BY <2>2, <3>2 DEF Service!Next, State
    <2> QED BY <2>3, <2>4
  <1>8. CASE Overrun
    <2>1. /\ epc = "scan" /\ epc' = "overrun" /\ i < nfds /\ i >= MaxEvent
          /\ UNCHANGED <<conn, inbox, eof, echoed>>
      BY <1>8 DEF Overrun, network
    <2>2. Seen' = Seen /\ State = "up" /\ State' = "broken"
      BY <1>u, <2>1 DEF Seen, State
    <2>3. {p \in Peers : Seen[p] = "open"} = OpenPeers
      BY <1>a DEF OpenPeers
    <2>4. Cardinality(OpenPeers) \in Nat /\ nfds = 1 + Cardinality(OpenPeers)
      BY OpenFinite DEF EpollInv, CountIsRight
    <2>5. Service!Cardinality({p \in Peers : Seen[p] = "open"}) >= MaxEvent
      <3> DEFINE S == {p \in Peers : Seen[p] = "open"}
      <3>1. Service!Cardinality(S) = Cardinality(OpenPeers)
        BY <2>3, SameCardinality, Zenon
      <3> HIDE DEF S
      <3>2. Service!Cardinality(S) >= MaxEvent
        BY <1>t, <2>1, <2>4, <3>1, EpollAssumption
      <3> QED BY <3>2 DEF S
    <2>6. Service!Break
      BY <2>1, <2>2, <2>5 DEF Service!Break, Seen, State
    <2> QED BY <2>2, <2>6 DEF Service!Next, State
  <1>9. CASE EpollWait
    <2>1. epc = "wait" /\ epc' = "scan" /\ UNCHANGED <<conn, inbox, eof, echoed>>
      BY <1>9 DEF EpollWait
    <2>2. Seen' = Seen /\ State' = State
      BY <2>1 DEF Seen, State
    <2> QED BY <1>s, <2>1, <2>2
  <1>10. CASE Garbage \/ UNCHANGED epollVars
    <2>1. UNCHANGED <<epc, conn, inbox, eof, echoed>>
      BY <1>10 DEF Garbage, network, epollVars
    <2> QED BY <1>b, <1>s, <2>1
  <1> QED
    BY <1>1, <1>2, <1>4, <1>6, <1>7, <1>8, <1>9, <1>10 DEF EpollNext, EpollServer

(* Whatever old entries are looked at and whichever numbers are given      *)
(* again, the clients see the service of EchoService: a connection is      *)
(* closed with its client's message sent back and in no other way, the     *)
(* server ends after a "q" or before it has accepted anybody, and leaves   *)
(* events only with MaxEvent connections open.                             *)
THEOREM EpollRefinement == EpollSpec => ImplementsService
  <1>1. EpollSpec => [](GoneInv /\ HeardInv)
    <2>1. EpollInv => EpollTypeOK
      BY DEF EpollInv
    <2> QED BY <2>1, HeardStart, GoneStep, HeardStep, EpollInvariance, PTL DEF EpollSpec
  <1> QED
    BY <1>1, ServiceStart, ServiceStep, EpollInvariance, PTL
       DEF EpollSpec, Service!Spec, ImplementsService

-----------------------------------------------------------------------------
(* The programs round a semaphore.                                         *)

Made == {n \in DOMAIN value : value[n] # -1}
Started == {r \in Runs : rpc[r] # "new"}

(* There are no more semaphores than runs that have opened one.            *)
MadeInv == Cardinality(Made) <= Cardinality(Started)

(* A run has a semaphore that was made; two that have the same one know.   *)
OpenInv ==
  /\ \A r \in Runs : Running(r) => sem[r] \in Made
  /\ \A r, q \in Runs : r # q /\ Running(r) /\ Running(q) /\ sem[r] = sem[q] => crowded[r]
  /\ named # 0 => named \in Made
  /\ \A r \in Runs : rpc[r] = "new" =>
        /\ cnt[r] = 0 /\ up[r] = "idle" /\ down[r] = "idle"

(* A round of ptheadP that has begun is one of Rounds, and of thread.c.     *)
RoundInv == \A r \in Runs : down[r] # "idle" => downs[r] < Rounds /\ job[r] = "thread"

(* Between the rounds and inside of them: what a thread has counted and    *)
(* not yet taken, and what was posted and not yet counted.                 *)
Ahead(r) == (IF up[r] = "wait" THEN 1 ELSE 0) + (IF down[r] # "idle" THEN 1 ELSE 0)
Tracks(r) ==
  /\ cnt[r] = found[r] - value[sem[r]] + Ahead(r)
  /\ up[r] = "store" => upLoad[r] = cnt[r] /\ down[r] # "store"
  /\ down[r] = "store" => downLoad[r] = cnt[r]
TrackInv == \A r \in Runs : Running(r) /\ ~crowded[r] /\ ~raced[r] => Tracks(r)

SemInv == SemTypeOK /\ RoundInv /\ MadeInv /\ OpenInv /\ TrackInv

-----------------------------------------------------------------------------
LEMMA RunsFinite ==
  /\ IsFiniteSet(Runs) /\ Cardinality(Runs) \in Nat
  /\ IsFiniteSet(1..Cardinality(Runs)) /\ Cardinality(1..Cardinality(Runs)) = Cardinality(Runs)
  BY SemaphoreAssumption, FS_CardinalityType, FS_Interval

LEMMA PartsFinite ==
  ASSUME SemTypeOK
  PROVE  /\ IsFiniteSet(Made) /\ IsFiniteSet(Started)
         /\ Cardinality(Made) \in Nat /\ Cardinality(Started) \in Nat
  <1>1. Made \subseteq 1..Cardinality(Runs) /\ Started \subseteq Runs
    BY DEF Made, Started, SemTypeOK
  <1> QED BY <1>1, RunsFinite, FS_Subset, FS_CardinalityType

(* A run that begins finds a number for a new semaphore.                   *)
NextFree == CHOOSE n \in DOMAIN value : value[n] = -1 /\ \A m \in 1..(n - 1) : value[m] # -1

LEMMA NextFreeIsFree ==
  ASSUME SemTypeOK, MadeInv, NEW r \in Runs, rpc[r] = "new"
  PROVE  NextFree \in DOMAIN value /\ value[NextFree] = -1
  <1> DEFINE All == 1..Cardinality(Runs)
             Unmade == {n \in All : value[n] = -1}
  <1>0. DOMAIN value = All
    BY DEF SemTypeOK
  <1>1. Cardinality(Started) < Cardinality(Runs)
    <2>1. Started \subseteq Runs \ {r}
      BY DEF Started
    <2>2. IsFiniteSet(Runs \ {r}) /\ Cardinality(Runs \ {r}) = Cardinality(Runs) - 1
      BY RunsFinite, FS_RemoveElement
    <2>3. Cardinality(Started) <= Cardinality(Runs \ {r})
      BY <2>1, <2>2, FS_Subset
    <2> QED BY <2>2, <2>3, PartsFinite, RunsFinite
  <1>2. Cardinality(Made) < Cardinality(All)
    BY <1>1, PartsFinite, RunsFinite DEF MadeInv
  <1>3. Made # All
    BY <1>2, PartsFinite
  <1>4. Unmade # {} /\ Unmade \subseteq Nat
    BY <1>0, <1>3 DEF Made
  <1>5. PICK n \in Unmade : \A m \in Unmade : n <= m
    <2> HIDE DEF Unmade
    <2> QED BY <1>4, LeastNatural
  <1>6. \A m \in 1..(n - 1) : value[m] # -1
    <2> SUFFICES ASSUME NEW m \in 1..(n - 1), value[m] = -1 PROVE FALSE
      OBVIOUS
    <2>1. m \in All /\ m < n
      BY RunsFinite
    <2> QED BY <1>5, <2>1
  <1>7. n \in DOMAIN value /\ value[n] = -1
    BY <1>0
  <1> QED BY <1>6, <1>7 DEF NextFree

-----------------------------------------------------------------------------
LEMMA SemStart == SemInit(Jobs) => SemInv
  <1> SUFFICES ASSUME SemInit(Jobs) PROVE SemInv
    OBVIOUS
  <1>1. SemTypeOK
    BY SemaphoreAssumption DEF SemInit, SemTypeOK
  <1>2. Made = {} /\ Started = {}
    BY DEF SemInit, Made, Started
  <1>3. MadeInv
    BY <1>2, FS_EmptySet DEF MadeInv
  <1>4. OpenInv /\ TrackInv /\ RoundInv
    BY DEF SemInit, OpenInv, TrackInv, RoundInv, Running
  <1> QED BY <1>1, <1>3, <1>4 DEF SemInv

(* What sem_open gives: the semaphore of that name, or a new one.          *)
LEMMA Opened ==
  ASSUME SemTypeOK, MadeInv, OpenInv, NEW r \in Runs, SemOpen(r)
  PROVE  /\ named' \in DOMAIN value /\ value'[named'] \in Nat
         /\ value' \in [1..Cardinality(Runs) -> Nat \cup {-1}]
         /\ \A n \in Made : value'[n] = value[n]
         /\ Made' \subseteq Made \cup {named'}
         /\ named = 0 => named' \notin Made
  <1>1. CASE named # 0
    <2>1. named' = named /\ value' = value
      BY <1>1 DEF SemOpen
    <2> QED BY <1>1, <2>1 DEF OpenInv, Made, SemTypeOK
  <1>2. CASE named = 0
    <2> DEFINE v == IF job[r] = "thread" THEN ThreadValue ELSE PosixValue
    <2>1. named' = NextFree /\ value' = [value EXCEPT ![named'] = v]
      BY <1>2 DEF SemOpen, NextFree
    <2>2. NextFree \in DOMAIN value /\ value[NextFree] = -1
      BY NextFreeIsFree DEF SemOpen
    <2>3. v \in Nat
      BY SemaphoreAssumption
    <2> HIDE DEF v
    <2> QED BY <2>1, <2>2, <2>3 DEF Made, SemTypeOK
  <1> QED BY <1>1, <1>2

LEMMA OrType ==
  ASSUME NEW S, NEW f \in [S -> BOOLEAN], NEW r \in S, NEW b
  PROVE  [f EXCEPT ![r] = @ \/ b] \in [S -> BOOLEAN]
  BY Zenon

(* A value that is put into one place of a function keeps its type.        *)
LEMMA CountTypes ==
  ASSUME NEW f \in [Runs -> Int], NEW g \in [Runs -> Int], NEW r \in Runs
  PROVE  /\ [f EXCEPT ![r] = g[r]] \in [Runs -> Int]
         /\ [f EXCEPT ![r] = g[r] + 1] \in [Runs -> Int]
         /\ [f EXCEPT ![r] = g[r] - 1] \in [Runs -> Int]
         /\ [f EXCEPT ![r] = 0] \in [Runs -> Int]
  OBVIOUS

LEMMA SemTypeStep == SemTypeOK /\ RoundInv /\ MadeInv /\ OpenInv /\ [SemNext]_semVars => SemTypeOK'
  <1> SUFFICES ASSUME SemTypeOK, RoundInv, MadeInv, OpenInv, [SemNext]_semVars PROVE SemTypeOK'
    OBVIOUS
  <1> USE SemaphoreAssumption DEF Unchanged
  <1>1. ASSUME NEW r \in Runs, SemOpen(r) PROVE SemTypeOK'
    <2>1. /\ named' \in DOMAIN value /\ value'[named'] \in Nat
          /\ value' \in [1..Cardinality(Runs) -> Nat \cup {-1}]
      BY <1>1, Opened
    <2>2. crowded' \in [Runs -> BOOLEAN]
      BY <1>1 DEF SemOpen, SemTypeOK
    <2>3. /\ rpc' \in [Runs -> {"new", "running", "ended", "killed"}]
          /\ sem' \in [Runs -> {0} \cup DOMAIN value'] /\ found' \in [Runs -> Nat]
      BY <1>1, <2>1 DEF SemOpen, SemTypeOK
    <2>4. UNCHANGED <<job, cnt, up, ups, upLoad, down, downs, downLoad, raced>>
      BY <1>1 DEF SemOpen
    <2> QED BY <2>1, <2>2, <2>3, <2>4 DEF SemTypeOK
  <1>2. ASSUME NEW r \in Runs, CountUp(r) PROVE SemTypeOK'
    <2>1. raced' \in [Runs -> BOOLEAN]
      <3>1. raced' = raced \/ raced' = [raced EXCEPT ![r] = @ \/ down[r] = "store"]
        BY <1>2 DEF CountUp
      <3>2. raced \in [Runs -> BOOLEAN]
        BY DEF SemTypeOK
      <3> QED BY <3>1, <3>2, OrType, Zenon
    <2>2. up' \in [Runs -> {"idle", "store", "wait"}]
      BY <1>2 DEF CountUp, SemTypeOK
    <2>4. cnt' \in [Runs -> Int] /\ upLoad' \in [Runs -> Int]
      BY <1>2, CountTypes DEF CountUp, SemTypeOK
    <2>3. UNCHANGED <<job, rpc, named, sem, found, crowded, value, ups, down, downs, downLoad>>
      BY <1>2 DEF CountUp
    <2> QED BY <2>1, <2>2, <2>3, <2>4 DEF SemTypeOK
  <1>3. ASSUME NEW r \in Runs, V(r) PROVE SemTypeOK'
    <2>1. value' \in [1..Cardinality(Runs) -> Nat \cup {-1}]
      BY <1>3 DEF V, At, OpenInv, Made, SemTypeOK
    <2>2. up' \in [Runs -> {"idle", "store", "wait"}] /\ ups' \in [Runs -> Nat]
      BY <1>3 DEF V, SemTypeOK
    <2>3. UNCHANGED <<job, rpc, named, sem, found, crowded, cnt, upLoad, down, downs, downLoad, raced>>
      BY <1>3 DEF V
    <2> QED BY <2>1, <2>2, <2>3 DEF SemTypeOK
  <1>4. ASSUME NEW r \in Runs, PosixP(r) \/ P(r) PROVE SemTypeOK'
    <2>1. value' \in [1..Cardinality(Runs) -> Nat \cup {-1}]
      <3>1. sem[r] \in DOMAIN value /\ value[sem[r]] # -1
        BY <1>4 DEF PosixP, P, At, DownAt, OpenInv, Made
      <3>2. value' = [value EXCEPT ![sem[r]] = @ + 1]
        BY <1>4 DEF PosixP, P
      <3>3. value \in [1..Cardinality(Runs) -> Nat \cup {-1}]
        BY DEF SemTypeOK
      <3>4. value[sem[r]] + 1 \in Nat
        BY <3>1, <3>3
      <3> QED BY <3>2, <3>3, <3>4
    <2>2. cnt' \in [Runs -> Int]
      <3>1. cnt' = cnt \/ cnt' = [cnt EXCEPT ![r] = cnt[r] - 1]
        BY <1>4 DEF PosixP, P
      <3> QED BY <3>1, CountTypes DEF SemTypeOK
    <2>4. downs' \in [Runs -> 0..Rounds \cup {1}] /\ down' \in [Runs -> {"idle", "load", "store"}]
      <3>1. /\ downs' = downs \/ downs' = [downs EXCEPT ![r] = 1]
            /\ down' = down \/ down' = [down EXCEPT ![r] = "load"]
        BY <1>4 DEF PosixP, P
      <3> QED BY <3>1 DEF SemTypeOK
    <2>3. UNCHANGED <<job, rpc, named, sem, found, crowded, up, ups, upLoad, downLoad, raced>>
      BY <1>4 DEF PosixP, P
    <2> QED BY <2>1, <2>2, <2>3, <2>4 DEF SemTypeOK
  <1>5. ASSUME NEW r \in Runs, CountDown(r) PROVE SemTypeOK'
    <2>1. raced' \in [Runs -> BOOLEAN]
      <3>1. raced' = raced \/ raced' = [raced EXCEPT ![r] = @ \/ up[r] = "store"]
        BY <1>5 DEF CountDown
      <3>2. raced \in [Runs -> BOOLEAN]
        BY DEF SemTypeOK
      <3> QED BY <3>1, <3>2, OrType, Zenon
    <2>2. down' \in [Runs -> {"idle", "load", "store"}]
      BY <1>5 DEF CountDown, SemTypeOK
    <2>5. cnt' \in [Runs -> Int] /\ downLoad' \in [Runs -> Int]
      BY <1>5, CountTypes DEF CountDown, SemTypeOK
    <2>3. downs' \in [Runs -> 0..Rounds \cup {1}]
      <3>1. CASE downs' = downs
        BY <3>1 DEF SemTypeOK
      <3>2. CASE downs' = [downs EXCEPT ![r] = @ + 1] /\ down[r] = "store"
        <4>1. downs[r] < Rounds /\ downs[r] \in Nat
          BY <3>2 DEF RoundInv, SemTypeOK
        <4>2. downs[r] + 1 \in 0..Rounds
          BY <4>1
        <4> QED BY <3>2, <4>2 DEF SemTypeOK
      <3> QED BY <1>5, <3>1, <3>2 DEF CountDown, DownAt
    <2>4. UNCHANGED <<job, rpc, named, sem, found, crowded, value, up, ups, upLoad>>
      BY <1>5 DEF CountDown
    <2> QED BY <2>1, <2>2, <2>3, <2>4, <2>5 DEF SemTypeOK
  <1>6. ASSUME NEW r \in Runs, SemUnlink(r) \/ Kill(r) PROVE SemTypeOK'
    <2>1. Gone(r) /\ named' \in {0, named}
      BY <1>6 DEF SemUnlink, Kill
    <2>2. rpc' \in [Runs -> {"new", "running", "ended", "killed"}]
      BY <1>6 DEF SemUnlink, Kill, SemTypeOK
    <2>3. /\ sem' \in [Runs -> {0} \cup DOMAIN value] /\ cnt' \in [Runs -> Int]
          /\ up' \in [Runs -> {"idle", "store", "wait"}] /\ ups' \in [Runs -> Nat]
          /\ upLoad' \in [Runs -> Int]
      BY <2>1 DEF Gone, SemTypeOK
    <2>4. /\ down' \in [Runs -> {"idle", "load", "store"}] /\ downs' \in [Runs -> 0..Rounds \cup {1}]
          /\ downLoad' \in [Runs -> Int] /\ found' \in [Runs -> Nat]
      BY <2>1 DEF Gone, SemTypeOK
    <2>5. crowded' \in [Runs -> BOOLEAN] /\ raced' \in [Runs -> BOOLEAN]
      BY <2>1 DEF Gone, SemTypeOK
    <2>6. UNCHANGED <<job, value>>
      BY <2>1 DEF Gone
    <2> QED BY <2>1, <2>2, <2>3, <2>4, <2>5, <2>6 DEF SemTypeOK
  <1>7. CASE UNCHANGED semVars
    BY <1>7 DEF semVars, SemTypeOK
  <1> QED BY <1>1, <1>2, <1>3, <1>4, <1>5, <1>6, <1>7 DEF SemNext, UpThread, DownThread

(* No action but sem_open makes a semaphore or starts a run.               *)
LEMMA Stable ==
  ASSUME SemTypeOK, OpenInv, NEW r \in Runs,
         CountUp(r) \/ V(r) \/ PosixP(r) \/ P(r) \/ CountDown(r) \/ SemUnlink(r) \/ Kill(r)
  PROVE  Made' = Made /\ Started' = Started
  <1>1. Running(r)
    BY DEF CountUp, V, PosixP, P, CountDown, SemUnlink, Kill, At, DownAt
  <1>2. Started' = Started
    <2>1. rpc' = rpc \/ rpc' = [rpc EXCEPT ![r] = "ended"] \/ rpc' = [rpc EXCEPT ![r] = "killed"]
      BY DEF CountUp, V, PosixP, P, CountDown, SemUnlink, Kill, Unchanged
    <2> QED BY <1>1, <2>1 DEF Started, Running, SemTypeOK
  <1>3. Made' = Made
    <2>1. \/ value' = value
          \/ value' = [value EXCEPT ![sem[r]] = @ - 1] /\ value[sem[r]] > 0
          \/ value' = [value EXCEPT ![sem[r]] = @ + 1]
      BY DEF CountUp, V, PosixP, P, CountDown, SemUnlink, Kill, Gone
    <2>2. sem[r] \in DOMAIN value /\ value[sem[r]] \in Nat
      BY <1>1 DEF OpenInv, Made, SemTypeOK
    <2>3. DOMAIN value' = DOMAIN value
      BY <2>1
    <2>4. ASSUME NEW n \in DOMAIN value PROVE value'[n] # -1 <=> value[n] # -1
      <3>1. CASE n # sem[r]
        BY <2>1, <3>1 DEF SemTypeOK
      <3>2. CASE n = sem[r]
        <4> DEFINE v == value[sem[r]]
        <4>1. v \in Nat /\ value[n] = v
          BY <2>2, <3>2
        <4>2. \/ value'[n] = v
              \/ value'[n] = v - 1 /\ v > 0
              \/ value'[n] = v + 1
          BY <2>1, <2>2, <3>2
        <4> HIDE DEF v
        <4> QED BY <4>1, <4>2
      <3> QED BY <3>1, <3>2
    <2> QED BY <2>3, <2>4 DEF Made
  <1> QED BY <1>2, <1>3

LEMMA Steps ==
  SemNext <=> \E r \in Runs : \/ SemOpen(r)
                             \/ \/ CountUp(r) \/ V(r) \/ PosixP(r) \/ P(r)
                                \/ CountDown(r) \/ SemUnlink(r) \/ Kill(r)
  BY DEF SemNext, UpThread, DownThread

LEMMA MadeStep == SemTypeOK /\ MadeInv /\ OpenInv /\ [SemNext]_semVars => MadeInv'
  <1> SUFFICES ASSUME SemTypeOK, MadeInv, OpenInv, [SemNext]_semVars PROVE MadeInv'
    OBVIOUS
  <1>1. ASSUME NEW r \in Runs, SemOpen(r) PROVE MadeInv'
    <2>1. Started' = Started \cup {r} /\ r \notin Started
      BY <1>1 DEF SemOpen, Started, SemTypeOK
    <2>2. Cardinality(Started') = Cardinality(Started) + 1
      BY <2>1, PartsFinite, FS_AddElement
    <2>3. Made' \subseteq Made \cup {named'}
      BY <1>1, Opened
    <2>0. IsFiniteSet(Made) /\ Cardinality(Made) \in Nat
      BY PartsFinite
    <2>4. IsFiniteSet(Made \cup {named'}) /\ Cardinality(Made \cup {named'}) <= Cardinality(Made) + 1
      <3>1. CASE named' \in Made
        <4>1. Made \cup {named'} = Made
          BY <3>1
        <4> QED BY <2>0, <4>1
      <3>2. CASE named' \notin Made
        <4>1. /\ IsFiniteSet(Made \cup {named'})
              /\ Cardinality(Made \cup {named'}) = Cardinality(Made) + 1
          BY <2>0, <3>2, FS_AddElement
        <4> QED BY <2>0, <4>1
      <3> QED BY <3>1, <3>2
    <2>5. IsFiniteSet(Made') /\ Cardinality(Made') <= Cardinality(Made \cup {named'})
      BY <2>3, <2>4, FS_Subset
    <2>6. Cardinality(Made') \in Nat /\ Cardinality(Made \cup {named'}) \in Nat
      BY <2>4, <2>5, FS_CardinalityType
    <2> QED BY <2>2, <2>4, <2>5, <2>6, PartsFinite DEF MadeInv
  <1>2. ASSUME NEW r \in Runs,
               CountUp(r) \/ V(r) \/ PosixP(r) \/ P(r) \/ CountDown(r) \/ SemUnlink(r) \/ Kill(r)
        PROVE  MadeInv'
    BY <1>2, Stable DEF MadeInv
  <1>3. CASE UNCHANGED semVars
    BY <1>3 DEF semVars, MadeInv, Made, Started
  <1> QED BY <1>1, <1>2, <1>3, Steps

LEMMA RoundStep == SemTypeOK /\ RoundInv /\ [SemNext]_semVars => RoundInv'
  <1> SUFFICES ASSUME SemTypeOK, RoundInv, [SemNext]_semVars PROVE RoundInv'
    OBVIOUS
  <1>1. CASE UNCHANGED <<job, down, downs>>
    BY <1>1 DEF RoundInv
  <1>2. ASSUME NEW r \in Runs, P(r) \/ CountDown(r) \/ PosixP(r) PROVE RoundInv'
    <2>1. \A q \in Runs \ {r} : down'[q] = down[q] /\ downs'[q] = downs[q]
      BY <1>2 DEF P, CountDown, PosixP, SemTypeOK
    <2>2. down'[r] # "idle" => downs'[r] < Rounds /\ job[r] = "thread"
      <3>1. CASE P(r)
        BY <3>1 DEF P, SemTypeOK
      <3>2. CASE CountDown(r)
        BY <3>2 DEF CountDown, DownAt, RoundInv, SemTypeOK
      <3>3. CASE PosixP(r)
        BY <3>3 DEF PosixP, RoundInv
      <3> QED BY <1>2, <3>1, <3>2, <3>3
    <2>3. job' = job
      BY <1>2 DEF P, CountDown, PosixP, Unchanged
    <2> QED BY <2>1, <2>2, <2>3 DEF RoundInv
  <1>3. ASSUME NEW r \in Runs, Gone(r) PROVE RoundInv'
    BY <1>3 DEF Gone, RoundInv, SemTypeOK
  <1> QED
    BY <1>1, <1>2, <1>3 DEF SemNext, SemOpen, UpThread, DownThread, CountUp, V, SemUnlink, Kill,
                            Unchanged, semVars

LEMMA OpenStep == SemTypeOK /\ MadeInv /\ OpenInv /\ [SemNext]_semVars => OpenInv'
  <1> SUFFICES ASSUME SemTypeOK, MadeInv, OpenInv, [SemNext]_semVars PROVE OpenInv'
    OBVIOUS
  <1>1. ASSUME NEW r \in Runs, SemOpen(r) PROVE OpenInv'
    <2>1. Made \subseteq Made' /\ named' \in Made'
      <3>1. DOMAIN value' = DOMAIN value
        BY <1>1, Opened DEF SemTypeOK
      <3> QED BY <1>1, <3>1, Opened DEF Made
    <2>2. /\ \A q \in Runs : rpc'[q] = IF q = r THEN "running" ELSE rpc[q]
          /\ \A q \in Runs : sem'[q] = IF q = r THEN named' ELSE sem[q]
      BY <1>1 DEF SemOpen, SemTypeOK
    <2>3. \A q \in Runs : Running(q)' => sem'[q] \in Made'
      BY <2>1, <2>2 DEF OpenInv, Running
    <2>4. ASSUME NEW p \in Runs, NEW q \in Runs, p # q, Running(p)', Running(q)', sem'[p] = sem'[q]
          PROVE  crowded'[p]
      <3> DEFINE others == {o \in Runs \ {r} : Running(o) /\ sem[o] = named'}
      <3>1. crowded' = [o \in Runs |-> crowded[o] \/ (others # {} /\ o \in others \cup {r})]
        BY <1>1 DEF SemOpen
      <3>2. CASE p = r
        BY <2>2, <2>4, <3>1, <3>2 DEF Running
      <3>3. CASE q = r
        BY <2>2, <2>4, <3>1, <3>3 DEF Running
      <3>4. CASE p # r /\ q # r
        <4>1. crowded[p]
          BY <2>2, <2>4, <3>4 DEF OpenInv, Running
        <4> QED BY <4>1, <3>1
      <3> QED BY <3>2, <3>3, <3>4
    <2>5. \A q \in Runs : rpc'[q] = "new" => cnt'[q] = 0 /\ up'[q] = "idle" /\ down'[q] = "idle"
      BY <1>1, <2>2 DEF SemOpen, OpenInv
    <2> QED BY <2>1, <2>3, <2>4, <2>5 DEF OpenInv
  <1>2. ASSUME NEW r \in Runs, CountUp(r) \/ V(r) \/ PosixP(r) \/ P(r) \/ CountDown(r)
        PROVE  OpenInv'
    <2>1. Made' = Made
      BY <1>2, Stable
    <2>2. UNCHANGED <<rpc, named, sem, crowded>>
      BY <1>2 DEF CountUp, V, PosixP, P, CountDown, Unchanged
    <2>3. rpc[r] = "running"
      BY <1>2 DEF CountUp, V, PosixP, P, CountDown, At, DownAt, Running
    <2>4. \A q \in Runs \ {r} : cnt'[q] = cnt[q] /\ up'[q] = up[q] /\ down'[q] = down[q]
      BY <1>2 DEF CountUp, V, PosixP, P, CountDown, SemTypeOK
    <2> QED BY <2>1, <2>2, <2>3, <2>4 DEF OpenInv, Running
  <1>3. ASSUME NEW r \in Runs, SemUnlink(r) \/ Kill(r) PROVE OpenInv'
    <2>1. Made' = Made
      BY <1>3, Stable
    <2>2. Gone(r) /\ named' \in {0, named}
      BY <1>3 DEF SemUnlink, Kill
    <2>3. rpc' = [rpc EXCEPT ![r] = "ended"] \/ rpc' = [rpc EXCEPT ![r] = "killed"]
      BY <1>3 DEF SemUnlink, Kill
    <2>4. ~Running(r)' /\ rpc'[r] # "new" /\ \A q \in Runs \ {r} : rpc'[q] = rpc[q]
      BY <2>3 DEF Running, SemTypeOK
    <2>5. \A q \in Runs \ {r} : /\ sem'[q] = sem[q] /\ crowded'[q] = crowded[q]
                                /\ cnt'[q] = cnt[q] /\ up'[q] = up[q] /\ down'[q] = down[q]
      BY <2>2 DEF Gone, SemTypeOK
    <2> QED BY <2>1, <2>2, <2>4, <2>5 DEF OpenInv, Running
  <1>4. CASE UNCHANGED semVars
    BY <1>4 DEF semVars, OpenInv, Made, Running
  <1> QED BY <1>1, <1>2, <1>3, <1>4, Steps

-----------------------------------------------------------------------------
(* A step of one run leaves the count of every other right: whoever has    *)
(* the same semaphore open is crowded.                                     *)
LEMMA OthersTrack ==
  ASSUME SemTypeOK, OpenInv, TrackInv, NEW r \in Runs,
         CountUp(r) \/ V(r) \/ PosixP(r) \/ P(r) \/ CountDown(r) \/ SemUnlink(r) \/ Kill(r),
         NEW q \in Runs, q # r, Running(q)', ~crowded'[q], ~raced'[q]
  PROVE  Tracks(q)'
  <1>1. /\ cnt'[q] = cnt[q] /\ up'[q] = up[q] /\ upLoad'[q] = upLoad[q]
        /\ down'[q] = down[q] /\ downLoad'[q] = downLoad[q]
    BY DEF CountUp, V, PosixP, P, CountDown, SemUnlink, Kill, Gone, SemTypeOK
  <1>2. /\ found'[q] = found[q] /\ sem'[q] = sem[q] /\ rpc'[q] = rpc[q]
        /\ crowded'[q] = crowded[q]
    BY DEF CountUp, V, PosixP, P, CountDown, SemUnlink, Kill, Gone, Unchanged, SemTypeOK
  <1>3. raced'[q] = raced[q]
    BY DEF CountUp, V, PosixP, P, CountDown, SemUnlink, Kill, Gone, SemTypeOK
  <1>4. Running(r) /\ Running(q) /\ ~crowded[q] /\ ~raced[q]
    BY <1>2, <1>3 DEF CountUp, V, PosixP, P, CountDown, SemUnlink, Kill, At, DownAt, Running
  <1>5. sem[q] # sem[r] /\ sem[q] \in DOMAIN value
    BY <1>4 DEF OpenInv, Made
  <1>6. value'[sem[q]] = value[sem[q]]
    BY <1>5 DEF CountUp, V, PosixP, P, CountDown, SemUnlink, Kill, Gone, SemTypeOK
  <1>7. Tracks(q)
    BY <1>4 DEF TrackInv
  <1> QED BY <1>1, <1>2, <1>6, <1>7 DEF Tracks, Ahead

(* A step of a run leaves its own count right.                             *)
LEMMA OwnTracks ==
  ASSUME SemTypeOK, OpenInv, RoundInv, TrackInv, NEW r \in Runs,
         CountUp(r) \/ V(r) \/ PosixP(r) \/ P(r) \/ CountDown(r),
         ~crowded'[r], ~raced'[r]
  PROVE  Tracks(r)'
  <1>1. Running(r) /\ sem[r] \in DOMAIN value /\ value[sem[r]] \in Nat
    BY DEF CountUp, V, PosixP, P, CountDown, At, DownAt, OpenInv, Made, SemTypeOK
  <1>2. found'[r] = found[r] /\ sem'[r] = sem[r] /\ ~crowded[r]
    BY DEF CountUp, V, PosixP, P, CountDown, Unchanged
  <1>3. ~raced[r]
    BY DEF CountUp, V, PosixP, P, CountDown, SemTypeOK
  <1>4. Tracks(r)
    BY <1>1, <1>2, <1>3 DEF TrackInv
  <1>5. cnt[r] \in Int /\ found[r] \in Nat /\ upLoad[r] \in Int /\ downLoad[r] \in Int
    BY DEF SemTypeOK
  <1>6. CASE CountUp(r)
    <2>1. /\ down'[r] = down[r] /\ downLoad'[r] = downLoad[r] /\ value' = value
      BY <1>6 DEF CountUp
    <2>2. CASE up[r] = "idle"
      <3>1. up'[r] = "store" /\ upLoad'[r] = cnt[r] /\ cnt'[r] = cnt[r]
        BY <1>6, <2>2 DEF CountUp, At, SemTypeOK
      <3>2. down[r] # "store"
        BY <1>6, <2>2 DEF CountUp, At, SemTypeOK
      <3> QED BY <1>2, <1>4, <2>1, <2>2, <3>1, <3>2 DEF Tracks, Ahead
    <2>3. CASE up[r] = "store"
      <3>1. up'[r] = "wait" /\ cnt'[r] = upLoad[r] + 1
        BY <1>6, <2>3 DEF CountUp, At, SemTypeOK
      <3> QED BY <1>1, <1>2, <1>4, <1>5, <2>1, <2>3, <3>1 DEF Tracks, Ahead
    <2> QED BY <1>6, <2>2, <2>3 DEF CountUp, At
  <1>7. CASE V(r)
    <2>1. /\ up[r] = "wait" /\ up'[r] = "idle" /\ value'[sem[r]] = value[sem[r]] - 1
          /\ cnt'[r] = cnt[r] /\ down'[r] = down[r] /\ downLoad'[r] = downLoad[r]
      BY <1>1, <1>7 DEF V, At, SemTypeOK
    <2> QED BY <1>1, <1>2, <1>4, <1>5, <2>1 DEF Tracks, Ahead
  <1>8. CASE PosixP(r)
    <2>1. /\ up[r] = "idle" /\ up'[r] = "idle" /\ value'[sem[r]] = value[sem[r]] + 1
          /\ cnt'[r] = cnt[r] - 1 /\ down[r] = "idle" /\ down'[r] = "idle"
      BY <1>1, <1>8 DEF PosixP, At, RoundInv, SemTypeOK
    <2> QED BY <1>1, <1>2, <1>4, <1>5, <2>1 DEF Tracks, Ahead
  <1>9. CASE P(r)
    <2>1. /\ down[r] = "idle" /\ down'[r] = "load" /\ value'[sem[r]] = value[sem[r]] + 1
          /\ cnt'[r] = cnt[r] /\ up'[r] = up[r] /\ upLoad'[r] = upLoad[r]
      BY <1>1, <1>9 DEF P, DownAt, SemTypeOK
    <2>2. Ahead(r)' = Ahead(r) + 1 /\ Ahead(r) \in Int
      BY <2>1 DEF Ahead
    <2>3. cnt[r] = found[r] - value[sem[r]] + Ahead(r)
      BY <1>4 DEF Tracks
    <2>4. cnt'[r] = found'[r] - value'[sem'[r]] + Ahead(r)'
      BY <1>1, <1>2, <1>5, <2>1, <2>2, <2>3
    <2> QED BY <1>4, <2>1, <2>4 DEF Tracks
  <1>10. CASE CountDown(r)
    <2>1. up'[r] = up[r] /\ upLoad'[r] = upLoad[r] /\ value' = value
      BY <1>10 DEF CountDown
    <2>2. CASE down[r] = "load"
      <3>1. down'[r] = "store" /\ downLoad'[r] = cnt[r] /\ cnt'[r] = cnt[r]
        BY <1>10, <2>2 DEF CountDown, DownAt, SemTypeOK
      <3>2. up[r] # "store"
        BY <1>10, <2>2 DEF CountDown, DownAt, SemTypeOK
      <3> QED BY <1>2, <1>4, <2>1, <2>2, <3>1, <3>2 DEF Tracks, Ahead
    <2>3. CASE down[r] = "store"
      <3>1. down'[r] = "idle" /\ cnt'[r] = downLoad[r] - 1
        BY <1>10, <2>3 DEF CountDown, DownAt, SemTypeOK
      <3> QED BY <1>1, <1>2, <1>4, <1>5, <2>1, <2>3, <3>1 DEF Tracks, Ahead
    <2> QED BY <1>10, <2>2, <2>3 DEF CountDown, DownAt
  <1> QED BY <1>6, <1>7, <1>8, <1>9, <1>10

LEMMA TrackStep ==
  SemTypeOK /\ MadeInv /\ OpenInv /\ RoundInv /\ TrackInv /\ [SemNext]_semVars => TrackInv'
  <1> SUFFICES ASSUME SemTypeOK, MadeInv, OpenInv, RoundInv, TrackInv, [SemNext]_semVars
               PROVE  TrackInv'
    OBVIOUS
  <1>1. ASSUME NEW r \in Runs, SemOpen(r), NEW q \in Runs,
               Running(q)', ~crowded'[q], ~raced'[q]
        PROVE  Tracks(q)'
    <2>1. UNCHANGED <<cnt, up, upLoad, down, downLoad, raced>>
      BY <1>1 DEF SemOpen
    <2>2. CASE q = r
      <3>1. cnt[r] = 0 /\ up[r] = "idle" /\ down[r] = "idle"
        BY <1>1 DEF SemOpen, OpenInv
      <3>2. sem'[r] = named' /\ found'[r] = value'[named'] /\ value'[named'] \in Nat
        BY <1>1, Opened DEF SemOpen, SemTypeOK
      <3> QED BY <2>1, <2>2, <3>1, <3>2 DEF Tracks, Ahead
    <2>3. CASE q # r
      <3> DEFINE others == {o \in Runs \ {r} : Running(o) /\ sem[o] = named'}
      <3>1. crowded' = [o \in Runs |-> crowded[o] \/ (others # {} /\ o \in others \cup {r})]
        BY <1>1 DEF SemOpen
      <3>2. rpc'[q] = rpc[q] /\ sem'[q] = sem[q] /\ found'[q] = found[q]
        BY <1>1, <2>3 DEF SemOpen, SemTypeOK
      <3>3. Running(q) /\ ~crowded[q] /\ ~raced[q]
        BY <1>1, <2>1, <3>1, <3>2 DEF Running
      <3>4. value'[sem[q]] = value[sem[q]]
        BY <1>1, <3>3, Opened DEF OpenInv
      <3>5. Tracks(q)
        BY <3>3 DEF TrackInv
      <3> QED BY <2>1, <3>2, <3>4, <3>5 DEF Tracks, Ahead
    <2> QED BY <2>2, <2>3
  <1>2. ASSUME NEW r \in Runs,
               CountUp(r) \/ V(r) \/ PosixP(r) \/ P(r) \/ CountDown(r) \/ SemUnlink(r) \/ Kill(r),
               NEW q \in Runs, Running(q)', ~crowded'[q], ~raced'[q]
        PROVE  Tracks(q)'
    <2>1. CASE q # r
      BY <1>2, <2>1, OthersTrack
    <2>2. CASE q = r
      <3>1. ~(SemUnlink(r) \/ Kill(r))
        BY <1>2, <2>2 DEF SemUnlink, Kill, Running, SemTypeOK
      <3> QED BY <1>2, <2>2, <3>1, OwnTracks
    <2> QED BY <2>1, <2>2
  <1>3. CASE UNCHANGED semVars
    BY <1>3 DEF semVars, TrackInv, Tracks, Ahead, Running
  <1> QED BY <1>1, <1>2, <1>3, Steps DEF TrackInv

-----------------------------------------------------------------------------
LEMMA SemInvariance == SemSpec => []SemInv
  <1>1. SemInit(Jobs) => SemInv
    BY SemStart
  <1>2. SemInv /\ [SemNext]_semVars => SemInv'
    BY SemTypeStep, RoundStep, MadeStep, OpenStep, TrackStep DEF SemInv
  <1> QED BY <1>1, <1>2, PTL DEF SemSpec

LEMMA Tracked == SemInv => CountTracksSemaphore
  <1> SUFFICES ASSUME SemInv, NEW r \in Runs, Running(r), up[r] = "idle", down[r] = "idle",
                      ~crowded[r], ~raced[r]
               PROVE  cnt[r] = found[r] - value[sem[r]]
    BY DEF CountTracksSemaphore
  <1>1. Tracks(r)
    BY DEF SemInv, TrackInv
  <1>2. found[r] - value[sem[r]] \in Int
    BY DEF SemInv, OpenInv, Made, SemTypeOK
  <1> QED BY <1>1, <1>2 DEF Tracks, Ahead

(* The variables of the two programs keep their types: no value of a       *)
(* semaphore is ever below 0, and every run that opens one finds a number. *)
THEOREM SemTypeCorrect == SemSpec => []SemTypeOK
  <1>1. SemInv => SemTypeOK
    BY DEF SemInv
  <1> QED BY <1>1, SemInvariance, PTL

(* Whatever killed runs have left in the semaphore, between the rounds the *)
(* counter of thread.c and posix_sem.c says how many were taken from it,   *)
(* unless another run has it open too or cnt++ met cnt--.                  *)
THEOREM SemCountCorrect == SemSpec => []CountTracksSemaphore
  BY Tracked, SemInvariance, PTL

-----------------------------------------------------------------------------
(* Both, side by side.                                                     *)

LEMMA BothHold == Spec => [](EpollInv /\ SemInv)
  <1>1. Init => EpollInit /\ SemInit(Jobs)
    <2>1. [r \in Runs |-> "posix"] \in Jobs
      BY DEF Jobs
    <2> QED BY <2>1 DEF Init, SemInit
  <1>2. [Next]_vars => [EpollNext]_epollVars /\ [SemNext]_semVars
    BY DEF Next, Epoll, Semaphore, vars
  <1>3. EpollInv /\ [EpollNext]_epollVars => EpollInv'
    BY EpollTypeStep, FdStep, CountStep, EdgeStep DEF EpollInv
  <1>4. SemInv /\ [SemNext]_semVars => SemInv'
    BY SemTypeStep, RoundStep, MadeStep, OpenStep, TrackStep DEF SemInv
  <1> QED BY <1>1, <1>2, <1>3, <1>4, EpollStart, SemStart, PTL DEF Spec

(* The variables of both keep their types.                                 *)
THEOREM ProcessesTypeCorrect == Spec => []TypeOK
  <1> DEFINE Kind == running \in {"epoll", "semaphore"}
  <1>1. Init => Kind
    BY DEF Init
  <1>2. Kind /\ [Next]_vars => Kind'
    BY DEF Next, Epoll, Semaphore, vars
  <1>3. EpollInv /\ SemInv /\ Kind => TypeOK
    BY DEF EpollInv, SemInv, TypeOK
  <1> HIDE DEF Kind
  <1> QED BY <1>1, <1>2, <1>3, BothHold, PTL DEF Spec

(* What is true of each program holds of the specification that the runs   *)
(* check, where one of the two goes and the other stands still.            *)
THEOREM ProcessesCorrect == Spec => [](CountIsRight /\ NoEdgeLost /\ CountTracksSemaphore)
  <1>1. EpollInv => CountIsRight /\ NoEdgeLost
    BY DEF EpollInv
  <1> QED BY <1>1, BothHold, Tracked, PTL

(* The epoll server is the service of EchoService in the specification the *)
(* runs check too.                                                         *)
THEOREM ProcessesRefinement == Spec => ImplementsService
  <1>1. Init => EpollInit
    BY DEF Init
  <1>2. [Next]_vars => [EpollNext]_epollVars
    BY DEF Next, Epoll, Semaphore, vars
  <1>3. EpollInv => EpollTypeOK
    BY DEF EpollInv
  <1> QED
    BY <1>1, <1>2, <1>3, HeardStart, GoneStep, HeardStep, ServiceStart, ServiceStep, BothHold, PTL
       DEF Spec, Service!Spec, ImplementsService
=============================================================================
