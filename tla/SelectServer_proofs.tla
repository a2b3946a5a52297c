------------------------ MODULE SelectServer_proofs ------------------------
(***************************************************************************)
(* Proofs about SelectServer for any clients and any size of client_fd:    *)
(* what client_index counts, what the list names while it has no gap, that *)
(* read never blocks, and that an echoed "q" ends the server.              *)
(***************************************************************************)
EXTENDS SelectServer, FiniteSetTheorems, WellFoundedInduction, TLAPS

(* A connection has one descriptor, and none while it is queued.           *)
FdtInv ==
    /\ \A f, g \in OpenFds : fdt[f] = fdt[g] => f = g
    /\ \A f \in OpenFds : fdt[f] \notin queued

(* Every listed number was once returned by accept.                        *)
ListedInv == \A i \in 0..(client_index - 1) : client_fd[i] \in Fds

(* The scan starts after a select that succeeded, and nothing happens to a *)
(* descriptor between that and its read.                                   *)
ReadInv == pc = "scan" => \A f \in readfd : f \in Fds /\ Readable(f)

(* Without a gap the client that was echoed was the last of the list, so   *)
(* the for loop is over and mesg keeps its "q".                            *)
QuitInv ==
    \A c \in Quitters : said[c] = "echoed" =>
        \/ server = "closed"
        \/ gap
        \/ q /\ pc = "scan" /\ start_index >= client_index

IInv ==
    /\ TypeOK
    /\ FdtInv
    /\ ListedInv
    /\ CountsOpenClients
    /\ ReadInv
    /\ ListExactWithoutGap
    /\ QuitInv

-----------------------------------------------------------------------------
(* A set of naturals that is not empty has a least element.                *)
LEMMA LeastNatural ==
    ASSUME NEW T, T \subseteq Nat, T # {}
    PROVE  \E x \in T : \A y \in T : x <= y
  <1> DEFINE R == OpToRel(<, Nat)
  <1>1. IsWellFoundedOn(R, Nat)
    BY NatLessThanWellFounded
  <1>2. PICK x \in T : \A y \in T : <<y, x>> \notin R
    <2> HIDE DEF R
    <2> QED BY <1>1, WFMin
  <1>3. ASSUME NEW y \in T PROVE x <= y
    <2>1. x \in Nat /\ y \in Nat
      OBVIOUS
    <2>2. ~(y < x)
      BY <1>2, <2>1 DEF OpToRel
    <2> QED BY <2>1, <2>2
  <1> QED BY <1>3

LEMMA FdsFacts ==
    /\ Fds \subseteq Nat /\ IsFiniteSet(Fds) /\ Cardinality(Fds) = Slots + 1
    /\ Ssock \notin Fds /\ 0 \notin Fds
  <1>1. 4 \in Int /\ 4 + Slots \in Int
    BY SlotsAssumption
  <1>2. IsFiniteSet(4..(4 + Slots)) /\ Cardinality(4..(4 + Slots)) = Slots + 1
    BY <1>1, FS_Interval, SlotsAssumption
  <1> QED BY <1>2, SlotsAssumption DEF Fds, Ssock

LEMMA OpenFdsFinite ==
    IsFiniteSet(OpenFds) /\ OpenFds \subseteq Fds
  BY FdsFacts, FS_Subset DEF OpenFds

(* While client_index is below the size of client_fd, accept finds a free  *)
(* descriptor among Fds.                                                   *)
LEMMA LowestFreeIsFree ==
    ASSUME TypeOK, CountsOpenClients, client_index < Slots
    PROVE  LowestFree \in Fds \ OpenFds
  <1>1. Cardinality(OpenFds) # Cardinality(Fds)
    BY FdsFacts, SlotsAssumption DEF CountsOpenClients, TypeOK
  <1>2. Fds \ OpenFds # {}
    <2>1. OpenFds \subseteq Fds /\ OpenFds # Fds
      BY <1>1, OpenFdsFinite
    <2> QED BY <2>1
  <1>3. Fds \ OpenFds \subseteq Nat
    BY FdsFacts
  <1> DEFINE Free == Fds \ OpenFds
  <1>4. \E f \in Free : \A g \in Free : f <= g
    <2> HIDE DEF Free
    <2>1. Free \subseteq Nat /\ Free # {}
      BY <1>2, <1>3 DEF Free
    <2> QED BY <2>1, LeastNatural
  <1> QED BY <1>4 DEF LowestFree

(* The type invariant.  It needs ListedInv and CountsOpenClients: what      *)
(* select is asked about, and what accept returns, are descriptors.        *)
LEMMA TypeStep ==
    TypeOK /\ ListedInv /\ CountsOpenClients /\ [Next]_vars => TypeOK'
  <1> SUFFICES ASSUME TypeOK, ListedInv, CountsOpenClients, [Next]_vars
               PROVE  TypeOK'
    OBVIOUS
  <1> USE SlotsAssumption DEF loop, list, peers
  <1>1. ASSUME NEW c \in Clients, Connect(c) PROVE TypeOK'
    BY <1>1 DEF Connect, TypeOK
  <1>2. ASSUME NEW c \in Clients, Send(c) PROVE TypeOK'
    BY <1>2 DEF Send, TypeOK
  <1>3. ASSUME NEW c \in Clients, HangUp(c) PROVE TypeOK'
    BY <1>3 DEF HangUp, TypeOK
  <1>4. CASE Select
    <2>1. Listed \subseteq Fds
      BY DEF Listed, ListedInv
    <2>2. readfd' \subseteq Fds \union {Ssock}
      BY <1>4, <2>1 DEF Select, TypeOK
    <2>3. pc' \in {"accept", "scan"} /\ start_index' = 0
      BY <1>4 DEF Select
    <2>4. UNCHANGED <<server, list, q, fdt, peers, gap>>
      BY <1>4 DEF Select
    <2> QED BY <2>2, <2>3, <2>4 DEF TypeOK
  <1>5. ASSUME NEW c \in Clients, Accept(c) PROVE TypeOK'
    <2>1. client_index \in 0..(Slots - 1) /\ client_index' \in 0..Slots
      BY <1>5 DEF Accept, TypeOK
    <2>2. LowestFree \in Fds
      BY <1>5, LowestFreeIsFree DEF Accept
    <2> QED BY <1>5, <2>1, <2>2 DEF Accept, TypeOK
  <1>6. CASE AcceptBeyond
    BY <1>6 DEF AcceptBeyond, TypeOK
  <1>7. CASE Skip
    BY <1>7 DEF Skip, AtClient, TypeOK
  <1>8. CASE EndOfFile
    <2>1. q' \in BOOLEAN
      BY <1>8, Zenon DEF EndOfFile
    <2>2. start_index' = start_index + 1
      BY <1>8, Zenon DEF EndOfFile
    <2>3. start_index' \in Nat
      BY <2>2 DEF TypeOK
    <2>4. UNCHANGED <<server, pc, list, readfd, fdt, peers, gap>>
      BY <1>8, Zenon DEF EndOfFile
    <2> QED BY <2>1, <2>3, <2>4 DEF TypeOK
  <1>9. CASE Echo
    <2>1. client_index' \in 0..Slots /\ start_index' \in Nat
      BY <1>9 DEF Echo, AtClient, TypeOK
    <2>2. fdt' \in [Fds -> Clients \union {Nobody}]
      BY <1>9 DEF Echo, TypeOK
    <2>3. said' \in [Clients -> {"nothing", "waiting", "echoed"}]
      BY <1>9 DEF Echo, TypeOK
    <2>4. readfd' \subseteq Fds \union {Ssock} /\ q' \in BOOLEAN /\ gap' \in BOOLEAN
      BY <1>9 DEF Echo, TypeOK
    <2>5. UNCHANGED <<server, pc, client_fd, queued, hung>>
      BY <1>9 DEF Echo
    <2> QED BY <2>1, <2>2, <2>3, <2>4, <2>5 DEF TypeOK
  <1>10. CASE ScanEnd
    BY <1>10 DEF ScanEnd, Up, TypeOK
  <1>11. CASE UNCHANGED vars
    BY <1>11 DEF vars, TypeOK
  <1> QED
    BY <1>1, <1>2, <1>3, <1>4, <1>5, <1>6, <1>7, <1>8, <1>9, <1>10, <1>11
       DEF Next, Peer, Main

(* What the two steps that change the table of descriptors do to the open  *)
(* ones and to the list.                                                   *)
LEMMA AcceptOpens ==
    ASSUME IInv, NEW c \in Clients, Accept(c)
    PROVE  /\ LowestFree \in Fds \ OpenFds
           /\ OpenFds' = OpenFds \union {LowestFree}
           /\ \A i \in 0..client_index :
                 client_fd'[i] = IF i = client_index THEN LowestFree ELSE client_fd[i]
           /\ client_index \in Nat /\ client_index' = client_index + 1
           /\ Listed' = Listed \union {LowestFree}
  <1>1. client_index \in 0..(Slots - 1) /\ client_index' = client_index + 1
    BY SlotsAssumption DEF Accept, IInv, TypeOK
  <1>2. LowestFree \in Fds \ OpenFds
    BY LowestFreeIsFree DEF Accept, IInv
  <1>3. OpenFds' = OpenFds \union {LowestFree}
    BY <1>2, NobodyAssumption DEF Accept, OpenFds, IInv, TypeOK
  <1>4. \A i \in 0..client_index :
           client_fd'[i] = IF i = client_index THEN LowestFree ELSE client_fd[i]
    BY <1>1, SlotsAssumption DEF Accept, IInv, TypeOK
  <1>5. 0..(client_index' - 1) = 0..(client_index - 1) \union {client_index}
    BY <1>1, SlotsAssumption
  <1>6. Listed' = Listed \union {LowestFree}
    BY <1>1, <1>4, <1>5, SlotsAssumption DEF Listed
  <1> QED BY <1>1, <1>2, <1>3, <1>4, <1>6, SlotsAssumption

LEMMA EchoCloses ==
    ASSUME IInv, Echo
    PROVE  /\ start_index \in 0..(client_index - 1)
           /\ client_index \in Nat /\ client_index' = client_index - 1
           /\ Examined \in OpenFds
           /\ OpenFds' = OpenFds \ {Examined}
  <1>1. start_index \in 0..(client_index - 1) /\ client_index \in Nat
    BY SlotsAssumption DEF Echo, AtClient, IInv, TypeOK
  <1>2. Examined \in OpenFds
    BY <1>1 DEF Echo, Examined, OpenFds, IInv, ListedInv
  <1>3. fdt' = [fdt EXCEPT ![Examined] = Nobody] /\ client_index' = client_index - 1
    BY DEF Echo
  <1>4. OpenFds' = OpenFds \ {Examined}
    BY <1>2, <1>3 DEF OpenFds, IInv, TypeOK
  <1> QED BY <1>1, <1>2, <1>3, <1>4

(* A step that leaves the table, the list and the gap alone keeps what is  *)
(* said about them.                                                        *)
LEMMA TableKept ==
    ASSUME IInv, UNCHANGED <<fdt, queued, list, gap>>
    PROVE  /\ OpenFds' = OpenFds /\ Listed' = Listed
           /\ FdtInv' /\ ListedInv' /\ CountsOpenClients' /\ ListExactWithoutGap'
  <1>1. OpenFds' = OpenFds /\ Listed' = Listed
    BY DEF OpenFds, Listed, list
  <1> QED
    BY <1>1 DEF IInv, FdtInv, ListedInv, CountsOpenClients, ListExactWithoutGap, list

(* FdtInv: accept gives the head of the queue a free descriptor.           *)
LEMMA FdtStep == IInv /\ [Next]_vars => FdtInv'
  <1> SUFFICES ASSUME IInv, [Next]_vars PROVE FdtInv'
    OBVIOUS
  <1>1. ASSUME NEW c \in Clients, Connect(c) PROVE FdtInv'
    <2>1. \A f \in OpenFds : fdt[f] # c
      BY <1>1 DEF Connect, Connected, OpenFds
    <2>2. OpenFds' = OpenFds /\ fdt' = fdt /\ queued' = queued \union {c}
      BY <1>1 DEF Connect, OpenFds
    <2> QED BY <2>1, <2>2 DEF IInv, FdtInv
  <1>2. ASSUME NEW c \in Clients, Accept(c) PROVE FdtInv'
    <2>1. OpenFds' = OpenFds \union {LowestFree} /\ LowestFree \in Fds \ OpenFds
      BY <1>2, AcceptOpens
    <2>2. fdt'[LowestFree] = c /\ \A f \in OpenFds : fdt'[f] = fdt[f]
      BY <1>2, <2>1 DEF Accept, IInv, TypeOK, OpenFds
    <2>3. c \in queued /\ queued' = queued \ {c}
      BY <1>2 DEF Accept
    <2> QED BY <2>1, <2>2, <2>3 DEF IInv, FdtInv
  <1>3. CASE Echo
    <2>1. OpenFds' = OpenFds \ {Examined}
      BY <1>3, EchoCloses
    <2>2. \A f \in OpenFds' : fdt'[f] = fdt[f]
      BY <1>3, <2>1 DEF Echo, IInv, TypeOK, OpenFds
    <2>3. queued' = queued
      BY <1>3 DEF Echo
    <2> QED BY <2>1, <2>2, <2>3 DEF IInv, FdtInv
  <1>4. ASSUME UNCHANGED <<fdt, queued, list, gap>> PROVE FdtInv'
    BY <1>4, TableKept
  <1> QED
    BY <1>1, <1>2, <1>3, <1>4
       DEF Next, Peer, Main, Send, HangUp, Select, AcceptBeyond, Skip, EndOfFile,
           ScanEnd, vars, peers

(* The list and its counter: accept appends, an echo takes one off the end *)
(* of the list and one out of the table.                                   *)
LEMMA ListStep ==
    IInv /\ [Next]_vars => ListedInv' /\ CountsOpenClients' /\ ListExactWithoutGap'
  <1> DEFINE Goal == ListedInv' /\ CountsOpenClients' /\ ListExactWithoutGap'
  <1> SUFFICES ASSUME IInv, [Next]_vars PROVE Goal
    OBVIOUS
  <1>1. ASSUME NEW c \in Clients, Accept(c) PROVE Goal
    <2>1. /\ LowestFree \in Fds \ OpenFds
          /\ OpenFds' = OpenFds \union {LowestFree}
          /\ \A i \in 0..client_index :
                client_fd'[i] = IF i = client_index THEN LowestFree ELSE client_fd[i]
          /\ client_index \in Nat /\ client_index' = client_index + 1
          /\ Listed' = Listed \union {LowestFree}
      BY <1>1, AcceptOpens
    <2>2. 0..(client_index' - 1) = 0..client_index
      BY <2>1
    <2>3. ListedInv'
      BY <2>1, <2>2 DEF ListedInv, IInv, Fds
    <2>4. CountsOpenClients'
      <3>1. Cardinality(OpenFds \union {LowestFree}) = Cardinality(OpenFds) + 1
        BY <2>1, OpenFdsFinite, FS_AddElement
      <3> QED BY <2>1, <3>1 DEF CountsOpenClients, IInv
    <2>5. ListExactWithoutGap'
      <3>1. gap' = gap
        BY <1>1 DEF Accept
      <3>2. SUFFICES ASSUME ~gap PROVE
              /\ Listed' = OpenFds'
              /\ \A i, j \in 0..client_index : client_fd'[i] = client_fd'[j] => i = j
        BY <2>2, <3>1 DEF ListExactWithoutGap
      <3>3. /\ Listed = OpenFds
            /\ \A i, j \in 0..(client_index - 1) : client_fd[i] = client_fd[j] => i = j
        BY <3>2 DEF ListExactWithoutGap, IInv
      <3>4. \A i \in 0..(client_index - 1) : client_fd[i] # LowestFree
        BY <2>1, <3>3 DEF Listed
      <3>5. \A i \in 0..client_index : i # client_index => i \in 0..(client_index - 1)
        BY <2>1
      <3> QED BY <2>1, <3>3, <3>4, <3>5
    <2> QED BY <2>3, <2>4, <2>5
  <1>2. CASE Echo
    <2>1. /\ start_index \in 0..(client_index - 1)
          /\ client_index \in Nat /\ client_index' = client_index - 1
          /\ Examined \in OpenFds
          /\ OpenFds' = OpenFds \ {Examined}
      BY <1>2, EchoCloses
    <2>2. /\ client_fd' = client_fd
          /\ 0..(client_index' - 1) \subseteq 0..(client_index - 1)
      BY <1>2, <2>1 DEF Echo
    <2>3. ListedInv'
      BY <2>2 DEF ListedInv, IInv, Fds
    <2>4. CountsOpenClients'
      <3>1. Cardinality(OpenFds \ {Examined}) = Cardinality(OpenFds) - 1
        BY <2>1, OpenFdsFinite, FS_RemoveElement
      <3> QED BY <2>1, <3>1 DEF CountsOpenClients, IInv
    <2>5. ListExactWithoutGap'
      <3>1. SUFFICES ASSUME ~gap' PROVE
              /\ Listed' = OpenFds'
              /\ \A i, j \in 0..(client_index' - 1) : client_fd'[i] = client_fd'[j] => i = j
        BY DEF ListExactWithoutGap
      <3>2. ~gap /\ start_index = client_index - 1
        BY <1>2, <3>1 DEF Echo
      <3>3. /\ Listed = OpenFds
            /\ \A i, j \in 0..(client_index - 1) : client_fd[i] = client_fd[j] => i = j
        BY <3>2 DEF ListExactWithoutGap, IInv
      <3>4. Examined = client_fd[client_index - 1]
        BY <3>2 DEF Examined
      <3>5. 0..(client_index' - 1) = 0..(client_index - 1) \ {client_index - 1}
        BY <2>1
      <3>6. client_index - 1 \in 0..(client_index - 1)
        BY <2>1
      <3>7. Listed' = Listed \ {Examined}
        BY <2>2, <3>3, <3>4, <3>5, <3>6 DEF Listed
      <3> QED BY <2>1, <2>2, <3>3, <3>7
    <2> QED BY <2>3, <2>4, <2>5
  <1>3. ASSUME OpenFds' = OpenFds, UNCHANGED <<client_fd, client_index, gap>> PROVE Goal
    BY <1>3 DEF IInv, ListedInv, CountsOpenClients, ListExactWithoutGap, Listed
  <1>4. ASSUME NEW c \in Clients, Connect(c) PROVE Goal
    BY <1>3, <1>4 DEF Connect, OpenFds, list
  <1>5. ASSUME UNCHANGED <<fdt, queued, list, gap>> PROVE Goal
    BY <1>5, TableKept
  <1> QED
    BY <1>1, <1>2, <1>4, <1>5
       DEF Next, Peer, Main, Send, HangUp, Select, AcceptBeyond, Skip, EndOfFile,
           ScanEnd, vars, peers

(* What the clients do leaves a message or an end of file where it is.     *)
(* select keeps only what is ready, and accept is never followed by a scan.*)
LEMMA ReadStep == IInv /\ [Next]_vars => ReadInv'
  <1> SUFFICES ASSUME IInv, [Next]_vars, pc' = "scan"
               PROVE  \A f \in readfd' : f \in Fds /\ Readable(f)'
    BY DEF ReadInv
  <1>1. CASE Select
    <2>1. Ssock \notin readfd'
      BY <1>1 DEF Select
    <2> DEFINE asked == readfd \union Listed \union {Ssock}
    <2>2. asked \ {Ssock} \subseteq OpenFds
      BY <1>1, <2>1 DEF Select
    <2>3. \A f \in readfd' : f \in OpenFds /\ Readable(f)
      BY <1>1, <2>1, <2>2 DEF Select
    <2>4. UNCHANGED <<fdt, said, hung>>
      BY <1>1 DEF Select, peers
    <2> QED BY <2>3, <2>4 DEF Readable, OpenFds
  <1>2. CASE Echo
    <2>1. pc = "scan" /\ \A f \in readfd : f \in Fds /\ Readable(f)
      BY <1>2 DEF Echo, AtClient, IInv, ReadInv
    <2>2. Examined \in OpenFds
      BY <1>2, EchoCloses
    <2>3. ASSUME NEW f \in readfd' PROVE f \in Fds /\ Readable(f)'
      <3>1. f \in readfd /\ f # Examined
        BY <1>2 DEF Echo
      <3>2. f \in OpenFds /\ fdt[f] # fdt[Examined]
        BY <2>1, <2>2, <3>1 DEF IInv, FdtInv, OpenFds, Readable
      <3>3. fdt'[f] = fdt[f] /\ hung' = hung
        BY <1>2, <2>2, <3>1, <3>2 DEF Echo, OpenFds, IInv, TypeOK
      <3>4. said'[fdt[f]] = said[fdt[f]]
        BY <1>2, <2>2, <3>2 DEF Echo, OpenFds, IInv, TypeOK
      <3> QED BY <2>1, <3>1, <3>3, <3>4 DEF Readable
    <2> QED BY <2>3
  <1>3. ASSUME NEW c \in Clients, Send(c)
        PROVE  \A f \in readfd' : f \in Fds /\ Readable(f)'
    <2>1. \A f \in readfd : f \in Fds /\ Readable(f)
      BY <1>3 DEF Send, loop, IInv, ReadInv
    <2>2. \A d \in Clients : said[d] = "waiting" => said'[d] = "waiting"
      BY <1>3 DEF Send, IInv, TypeOK
    <2>3. UNCHANGED <<fdt, hung, readfd>>
      BY <1>3 DEF Send
    <2> QED BY <2>1, <2>2, <2>3 DEF Readable, IInv, TypeOK
  <1>4. ASSUME pc = "scan", UNCHANGED <<fdt, said, readfd>>, hung \subseteq hung'
        PROVE  \A f \in readfd' : f \in Fds /\ Readable(f)'
    BY <1>4 DEF IInv, ReadInv, Readable
  <1>5. ASSUME NEW c \in Clients, Connect(c)
        PROVE  pc = "scan" /\ UNCHANGED <<fdt, said, readfd>> /\ hung \subseteq hung'
    BY <1>5 DEF Connect, loop
  <1>6. ASSUME NEW c \in Clients, HangUp(c)
        PROVE  pc = "scan" /\ UNCHANGED <<fdt, said, readfd>> /\ hung \subseteq hung'
    BY <1>6 DEF HangUp, loop
  <1>7. ASSUME Skip \/ EndOfFile
        PROVE  pc = "scan" /\ UNCHANGED <<fdt, said, readfd>> /\ hung \subseteq hung'
    BY <1>7 DEF Skip, EndOfFile, AtClient, peers
  <1>8. ASSUME UNCHANGED vars
        PROVE  pc = "scan" /\ UNCHANGED <<fdt, said, readfd>> /\ hung \subseteq hung'
    BY <1>8 DEF vars, loop, peers
  <1>9. ASSUME NEW c \in Clients, Accept(c) PROVE FALSE
    BY <1>9 DEF Accept
  <1>10. ASSUME AcceptBeyond \/ ScanEnd PROVE FALSE
    BY <1>10 DEF AcceptBeyond, ScanEnd
  <1> QED
    BY <1>1, <1>2, <1>3, <1>4, <1>5, <1>6, <1>7, <1>8, <1>9, <1>10
       DEF Next, Peer, Main

(* An echo that leaves no gap ends the for loop; any other step of the     *)
(* server finds the loop already over, or clears no q.                     *)
LEMMA QuitStep == IInv /\ [Next]_vars => QuitInv'
  <1> SUFFICES ASSUME IInv, [Next]_vars,
                      NEW c \in Quitters, said'[c] = "echoed"
               PROVE  \/ server' = "closed"
                      \/ gap'
                      \/ q' /\ pc' = "scan" /\ start_index' >= client_index'
    BY DEF QuitInv
  <1> DEFINE Kept == \/ server' = "closed"
                     \/ gap'
                     \/ q' /\ pc' = "scan" /\ start_index' >= client_index'
  <1>0. c \in Clients
    BY QuittersAssumption
  <1>1. ASSUME said[c] = "echoed"
        PROVE  server = "closed" \/ gap \/ (q /\ pc = "scan" /\ start_index >= client_index)
    BY <1>1 DEF IInv, QuitInv
  <1>2. CASE Echo
    <2>1. CASE gap \/ start_index # client_index - 1
      BY <1>2, <2>1 DEF Echo
    <2>2. CASE ~gap /\ start_index = client_index - 1
      <3>1. said[c] # "echoed"
        BY <1>1, <1>2, <2>2, EchoCloses DEF Echo, AtClient, Up
      <3>2. c = fdt[Examined]
        BY <1>0, <1>2, <3>1 DEF Echo, IInv, TypeOK
      <3>3. q' = TRUE /\ pc' = "scan"
        BY <1>2, <3>2 DEF Echo, AtClient
      <3>4. start_index' >= client_index'
        BY <1>2, <2>2, EchoCloses DEF Echo
      <3> QED BY <3>3, <3>4
    <2> QED BY <2>1, <2>2
  <1>3. ASSUME NEW d \in Clients, Send(d) PROVE Kept
    <2>1. said[c] = "echoed"
      BY <1>0, <1>3 DEF Send, IInv, TypeOK
    <2> QED BY <1>1, <1>3, <2>1 DEF Send, loop, list
  <1>4. CASE ScanEnd
    BY <1>1, <1>4 DEF ScanEnd, Up, peers
  <1>5. ASSUME NEW d \in Clients, Connect(d) \/ HangUp(d) PROVE Kept
    BY <1>1, <1>5 DEF Connect, HangUp, loop, list
  <1>6. ASSUME NEW d \in Clients, Accept(d) PROVE Kept
    BY <1>1, <1>6 DEF Accept, Up
  <1>7. CASE Select
    BY <1>1, <1>7 DEF Select, Up, peers
  <1>8. CASE AcceptBeyond
    BY <1>1, <1>8 DEF AcceptBeyond, Up, peers
  <1>9. CASE Skip \/ EndOfFile
    <2>1. Up /\ ~(start_index >= client_index)
      BY <1>9 DEF Skip, EndOfFile, AtClient, IInv, TypeOK
    <2>2. gap' = gap /\ said' = said
      BY <1>9 DEF Skip, EndOfFile, peers
    <2> QED BY <1>1, <2>1, <2>2 DEF Up
  <1>10. CASE UNCHANGED vars
    BY <1>1, <1>10 DEF vars, loop, list, peers
  <1> QED
    BY <1>2, <1>3, <1>4, <1>5, <1>6, <1>7, <1>8, <1>9, <1>10 DEF Next, Peer, Main

-----------------------------------------------------------------------------
LEMMA InitIInv == Init => IInv
  <1> SUFFICES ASSUME Init PROVE IInv
    OBVIOUS
  <1>1. OpenFds = {} /\ client_index = 0 /\ Listed = {}
    BY DEF Init, OpenFds, Listed
  <1>2. TypeOK
    <2>1. q \in BOOLEAN /\ gap \in BOOLEAN
      BY Zenon DEF Init
    <2>2. start_index \in Nat /\ client_index \in 0..Slots
      BY SlotsAssumption DEF Init
    <2>3. client_fd \in [0..(Slots - 1) -> Fds \union {0}]
      BY DEF Init
    <2>4. fdt \in [Fds -> Clients \union {Nobody}]
      BY DEF Init
    <2>5. said \in [Clients -> {"nothing", "waiting", "echoed"}]
      BY DEF Init
    <2>6. readfd \subseteq Fds \union {Ssock} /\ queued \subseteq Clients /\ hung \subseteq Clients
      BY DEF Init
    <2>7. server \in {"up", "closed", "overrun"} /\ pc \in {"select", "accept", "scan"}
      BY DEF Init
    <2> QED BY <2>1, <2>2, <2>3, <2>4, <2>5, <2>6, <2>7 DEF TypeOK
  <1>3. FdtInv /\ ListedInv /\ ReadInv /\ ListExactWithoutGap
    BY <1>1 DEF Init, FdtInv, ListedInv, ReadInv, ListExactWithoutGap
  <1>4. CountsOpenClients
    BY <1>1, FS_EmptySet DEF CountsOpenClients
  <1>5. QuitInv
    BY QuittersAssumption DEF Init, QuitInv
  <1> QED BY <1>2, <1>3, <1>4, <1>5 DEF IInv

LEMMA StepIInv == IInv /\ [Next]_vars => IInv'
  <1> SUFFICES ASSUME IInv, [Next]_vars PROVE IInv'
    OBVIOUS
  <1>1. TypeOK'
    BY TypeStep DEF IInv
  <1>2. FdtInv' /\ ReadInv' /\ QuitInv'
    BY FdtStep, ReadStep, QuitStep
  <1>3. ListedInv' /\ CountsOpenClients' /\ ListExactWithoutGap'
    BY ListStep
  <1> QED BY <1>1, <1>2, <1>3 DEF IInv

THEOREM Invariance == Spec => []IInv
  BY InitIInv, StepIInv, PTL DEF Spec

(* The variables of SelectServer keep their types: within the room of      *)
(* client_fd the list holds descriptors, and client_index never exceeds it *)
(* before the server is overrun.                                           *)
THEOREM TypeCorrect == Spec => []TypeOK
  <1>1. IInv => TypeOK
    BY DEF IInv
  <1> QED BY <1>1, Invariance, PTL

(* client_index counts the open connections, gap or not.                   *)
THEOREM CountCorrect == Spec => []CountsOpenClients
  <1>1. IInv => CountsOpenClients
    BY DEF IInv
  <1> QED BY <1>1, Invariance, PTL

(* The server never blocks in read.                                        *)
THEOREM ReadCorrect == Spec => []ReadNeverBlocks
  <1>1. IInv => ReadNeverBlocks
    BY DEF IInv, ReadInv, ReadNeverBlocks
  <1> QED BY <1>1, Invariance, PTL

(* While only last clients were closed, the list names every open          *)
(* connection, and each once.                                              *)
THEOREM ListCorrect == Spec => []ListExactWithoutGap
  <1>1. IInv => ListExactWithoutGap
    BY DEF IInv
  <1> QED BY <1>1, Invariance, PTL

(* An echoed "q" ends the server unless the list had a gap.                *)
THEOREM QuitCorrect == Spec => []QuitIsHeard
  <1>1. IInv => QuitIsHeard
    BY DEF IInv, QuitInv, QuitIsHeard
  <1> QED BY <1>1, Invariance, PTL

-----------------------------------------------------------------------------
(* Refinement: the service of EchoService.                                 *)

Seen == [c \in Clients |-> IF c \in queued THEN "queued"
                           ELSE IF Connected(c) THEN "open"
                           ELSE IF said[c] = "echoed" THEN "served" ELSE "away"]
Unanswered == {c \in Clients : said[c] = "waiting"}
State == IF server = "closed" THEN "ended" ELSE IF server = "overrun" THEN "broken" ELSE "up"

(* Who got an echo is not connected any more, and a "q" in mesg has been   *)
(* echoed: accept puts an address there, and a read without a message      *)
(* nothing.                                                                *)
EchoedInv == \A c \in Clients : said[c] = "echoed" => ~Connected(c)
HeardInv == q => \E c \in Quitters : said[c] = "echoed"

(* Who is connected after the two steps that change the table.             *)
LEMMA AcceptConnects ==
    ASSUME IInv, NEW c \in Clients, Accept(c)
    PROVE  /\ c \in queued /\ c \notin queued' /\ Connected(c)'
           /\ \A d \in Clients \ {c} : (d \in queued' <=> d \in queued) /\ (Connected(d)' <=> Connected(d))
  <1>1. LowestFree \in Fds /\ fdt[LowestFree] = Nobody
    BY AcceptOpens DEF OpenFds
  <1>2. fdt' = [fdt EXCEPT ![LowestFree] = c] /\ c \in queued /\ queued' = queued \ {c}
    BY DEF Accept
  <1>3. fdt \in [Fds -> Clients \union {Nobody}]
    BY DEF IInv, TypeOK
  <1>4. \A f \in Fds : fdt'[f] = IF f = LowestFree THEN c ELSE fdt[f]
    BY <1>1, <1>2, <1>3
  <1>5. Connected(c)'
    BY <1>1, <1>4 DEF Connected
  <1>6. ASSUME NEW d \in Clients \ {c} PROVE Connected(d)' <=> Connected(d)
    <2>1. \A f \in Fds : fdt'[f] = d <=> fdt[f] = d
      BY <1>1, <1>4, NobodyAssumption
    <2> QED BY <1>2, <2>1 DEF Connected
  <1> QED BY <1>2, <1>5, <1>6

LEMMA EchoDisconnects ==
    ASSUME IInv, Echo, NEW c, c = fdt[Examined]
    PROVE  /\ c \in Clients \ queued
           /\ Connected(c) /\ ~Connected(c)'
           /\ \A d \in Clients \ {c} : Connected(d)' <=> Connected(d)
  <1>1. Examined \in OpenFds /\ Examined \in Fds /\ c # Nobody
    BY EchoCloses DEF OpenFds
  <1>2. fdt' = [fdt EXCEPT ![Examined] = Nobody] /\ queued' = queued
    BY DEF Echo
  <1>3. fdt \in [Fds -> Clients \union {Nobody}]
    BY DEF IInv, TypeOK
  <1>4. \A f \in Fds : fdt'[f] = IF f = Examined THEN Nobody ELSE fdt[f]
    BY <1>1, <1>2, <1>3
  <1>5. c \in Clients /\ c \notin queued
    BY <1>1, <1>3 DEF IInv, FdtInv
  <1>6. \A f \in Fds : fdt[f] = c => f = Examined
    BY <1>1 DEF IInv, FdtInv, OpenFds
  <1>7. Connected(c)
    BY <1>1 DEF Connected
  <1>8. ~\E f \in Fds : fdt'[f] = c
    BY <1>1, <1>4, <1>6
  <1>9. ASSUME NEW d \in Clients \ {c} PROVE Connected(d)' <=> Connected(d)
    <2>1. \A f \in Fds : fdt'[f] = d <=> fdt[f] = d
      BY <1>1, <1>4, NobodyAssumption
    <2> QED BY <1>2, <2>1 DEF Connected
  <1>10. ~Connected(c)'
    BY <1>2, <1>5, <1>8 DEF Connected
  <1> QED BY <1>5, <1>7, <1>9, <1>10

LEMMA EchoedStep == IInv /\ EchoedInv /\ HeardInv /\ [Next]_vars => EchoedInv' /\ HeardInv'
  <1> SUFFICES ASSUME IInv, EchoedInv, HeardInv, [Next]_vars PROVE EchoedInv' /\ HeardInv'
    OBVIOUS
  <1> DEFINE Goal == EchoedInv' /\ HeardInv'
  <1>t. said \in [Clients -> {"nothing", "waiting", "echoed"}]
    BY DEF IInv, TypeOK
  <1>1. ASSUME NEW c \in Clients, Connect(c) PROVE Goal
    <2>1. said[c] = "nothing" /\ queued' = queued \union {c} /\ UNCHANGED <<fdt, said, q>>
      BY <1>1 DEF Connect
    <2>2. \A d \in Clients \ {c} : Connected(d)' <=> Connected(d)
      BY <2>1 DEF Connected
    <2> QED BY <2>1, <2>2 DEF EchoedInv, HeardInv
  <1>2. ASSUME NEW c \in Clients, Send(c) PROVE Goal
    <2>1. said[c] = "nothing" /\ said' = [said EXCEPT ![c] = "waiting"] /\ UNCHANGED <<queued, fdt, q>>
      BY <1>2 DEF Send
    <2>2. \A d \in Clients : (Connected(d)' <=> Connected(d)) /\ (said'[d] = "echoed" <=> said[d] = "echoed")
      BY <1>t, <2>1 DEF Connected
    <2> QED BY <2>1, <2>2, QuittersAssumption DEF EchoedInv, HeardInv
  <1>3. ASSUME NEW c \in Clients, Accept(c) PROVE Goal
    <2>1. said' = said /\ q' = FALSE /\ c \in queued
      BY <1>3 DEF Accept, peers
    <2>2. said[c] # "echoed"
      BY <2>1 DEF EchoedInv, Connected
    <2>3. \A d \in Clients \ {c} : Connected(d)' <=> Connected(d)
      BY <1>3, AcceptConnects
    <2> QED BY <2>1, <2>2, <2>3 DEF EchoedInv, HeardInv
  <1>4. CASE Echo
    <2>1. PICK c : c = fdt[Examined]
      OBVIOUS
    <2>2. /\ c \in Clients /\ ~Connected(c)'
          /\ \A d \in Clients \ {c} : Connected(d)' <=> Connected(d)
      BY <1>4, <2>1, EchoDisconnects
    <2>3. said' = [said EXCEPT ![c] = "echoed"] /\ q' = (c \in Quitters)
      BY <1>4, <2>1 DEF Echo
    <2>4. \A d \in Clients : said'[d] = IF d = c THEN "echoed" ELSE said[d]
      BY <1>t, <2>2, <2>3
    <2>5. EchoedInv'
      BY <2>2, <2>4 DEF EchoedInv
    <2>6. HeardInv'
      BY <2>2, <2>3, <2>4 DEF HeardInv
    <2> QED BY <2>5, <2>6
  <1>5. ASSUME UNCHANGED <<fdt, queued, said>>, q' = q \/ q' = FALSE PROVE Goal
    <2>1. \A d \in Clients : Connected(d)' <=> Connected(d)
      BY <1>5 DEF Connected
    <2> QED BY <1>5, <2>1 DEF EchoedInv, HeardInv
  <1> QED
    BY <1>1, <1>2, <1>3, <1>4, <1>5
       DEF Next, Peer, Main, HangUp, Select, AcceptBeyond, Skip, EndOfFile, ScanEnd, vars, peers

(* The clients that are seen with an open connection are as many as the    *)
(* open descriptors.                                                       *)
LEMMA SeenOpen ==
    ASSUME IInv
    PROVE  /\ \A c \in Clients : Seen[c] = "open" <=> \E f \in OpenFds : fdt[f] = c
           /\ Cardinality({c \in Clients : Seen[c] = "open"}) = client_index
  <1> DEFINE T == {c \in Clients : Seen[c] = "open"}
             owner == [f \in OpenFds |-> fdt[f]]
  <1>1. \A f \in OpenFds : fdt[f] \in Clients /\ fdt[f] \notin queued
    BY DEF OpenFds, IInv, TypeOK, FdtInv
  <1>2. \A c \in Clients : (\E f \in Fds : fdt[f] = c) <=> \E f \in OpenFds : fdt[f] = c
    BY NobodyAssumption DEF OpenFds
  <1>3. \A c \in Clients : Seen[c] = "open" <=> c \notin queued /\ Connected(c)
    BY DEF Seen
  <1>4. \A c \in Clients : Seen[c] = "open" <=> \E f \in OpenFds : fdt[f] = c
    BY <1>1, <1>2, <1>3 DEF Connected
  <1>5. owner \in Surjection(OpenFds, T)
    <2>1. owner \in [OpenFds -> T]
      BY <1>1, <1>4
    <2>2. \A c \in T : \E f \in OpenFds : owner[f] = c
      BY <1>4
    <2> HIDE DEF owner, T
    <2> QED BY <2>1, <2>2 DEF Surjection
  <1>6. owner \in Injection(OpenFds, T)
    <2>1. \A f, g \in OpenFds : owner[f] = owner[g] => f = g
      BY DEF IInv, FdtInv
    <2>2. owner \in [OpenFds -> T]
      BY <1>1, <1>4
    <2> HIDE DEF owner, T
    <2> QED BY <2>1, <2>2 DEF Injection, IsInjective
  <1>7. IsFiniteSet(OpenFds) /\ client_index = Cardinality(OpenFds)
    BY OpenFdsFinite DEF IInv, CountsOpenClients
  <1>8. Cardinality(T) = Cardinality(OpenFds)
    <2> HIDE DEF owner, T
    <2> QED BY <1>5, <1>6, <1>7, FS_Surjection
  <1> QED BY <1>4, <1>7, <1>8

(* The abstract module has its own name for it.                            *)
LEMMA SameCardinality == \A S : Service!Cardinality(S) = Cardinality(S)
  BY DEF Service!Cardinality, Cardinality, Service!IsFiniteSet, IsFiniteSet

LEMMA ServiceStep == IInv /\ EchoedInv /\ HeardInv /\ [Next]_vars => [Service!Next]_(Service!echoVars)
  <1> SUFFICES ASSUME IInv, EchoedInv, HeardInv, [Next]_vars
               PROVE  [Service!Next]_(Service!echoVars)
    OBVIOUS
  <1> USE DEF peers
  <1>t. /\ said \in [Clients -> {"nothing", "waiting", "echoed"}]
        /\ server \in {"up", "closed", "overrun"} /\ queued \subseteq Clients
    BY DEF IInv, TypeOK
  <1>u. Up => State = "up"
    BY DEF Up, State
  <1>v. Seen = [c \in Clients |-> Seen[c]]
    BY DEF Seen
  <1> DEFINE Same == Seen' = Seen /\ Unanswered' = Unanswered /\ hung' = hung /\ State' = State
  <1>s. Same => UNCHANGED Service!echoVars
    BY DEF Service!echoVars, Seen, Unanswered, State
  <1>a. \A c \in Clients : Seen[c] = IF c \in queued THEN "queued" ELSE IF Connected(c) THEN "open"
                                     ELSE IF said[c] = "echoed" THEN "served" ELSE "away"
    BY DEF Seen
  <1>b. \A c \in Clients : Connected(c) <=> Seen[c] \in {"queued", "open"}
    BY <1>a DEF Connected
  <1>1. ASSUME NEW c \in Clients, Connect(c) PROVE Service!Next
    <2>1. /\ Up /\ ~Connected(c) /\ said[c] = "nothing" /\ queued' = queued \union {c}
          /\ UNCHANGED <<server, fdt, said, hung>>
      BY <1>1 DEF Connect, loop
    <2>2. Seen[c] = "away"
      BY <1>a, <2>1 DEF Connected
    <2>3. \A d \in Clients \ {c} : (d \in queued' <=> d \in queued) /\ (Connected(d)' <=> Connected(d))
      BY <2>1 DEF Connected
    <2>4. Seen' = [Seen EXCEPT ![c] = "queued"]
      BY <2>1, <2>3 DEF Seen
    <2>5. Unanswered' = Unanswered /\ State' = State /\ State = "up"
      BY <1>u, <2>1 DEF Unanswered, State
    <2>6. Service!Connect(c)
      BY <2>1, <2>2, <2>4, <2>5 DEF Service!Connect, Service!Moves, Seen, Unanswered, State
    <2> QED BY <2>5, <2>6 DEF Service!Next, State
  <1>2. ASSUME NEW c \in Clients, Send(c) PROVE Service!Next
    <2>1. /\ Up /\ Connected(c) /\ said[c] = "nothing" /\ c \notin hung
          /\ said' = [said EXCEPT ![c] = "waiting"] /\ UNCHANGED <<server, fdt, queued, hung>>
      BY <1>2 DEF Send, loop
    <2>2. \A d \in Clients : /\ said'[d] = IF d = c THEN "waiting" ELSE said[d]
                             /\ Connected(d)' <=> Connected(d)
      BY <1>t, <2>1 DEF Connected
    <2>3. Seen' = Seen
      BY <2>1, <2>2 DEF Seen
    <2>4. Unanswered' = Unanswered \cup {c} /\ c \notin Unanswered
      BY <2>1, <2>2 DEF Unanswered
    <2>5. State' = State /\ State = "up"
      BY <1>u, <2>1 DEF State
    <2>6. Seen[c] \in {"queued", "open"}
      BY <1>b, <2>1
    <2>7. Service!Speak(c)
      BY <2>1, <2>3, <2>4, <2>5, <2>6 DEF Service!Speak, Service!Connected, Seen, Unanswered, State
    <2> QED BY <2>5, <2>7 DEF Service!Next, State
  <1>3. ASSUME NEW c \in Clients, HangUp(c) PROVE Service!Next
    <2>1. Up /\ Connected(c) /\ hung' = hung \cup {c} /\ UNCHANGED <<server, fdt, said, queued>>
      BY <1>3 DEF HangUp, loop
    <2>2. \A d \in Clients : Connected(d)' <=> Connected(d)
      BY <2>1 DEF Connected
    <2>3. Seen' = Seen /\ Unanswered' = Unanswered
      BY <2>1, <2>2 DEF Seen, Unanswered
    <2>4. State' = State /\ State = "up"
      BY <1>u, <2>1 DEF State
    <2>5. Seen[c] \in {"queued", "open"}
      BY <1>b, <2>1
    <2>6. Service!Leave(c)
      BY <2>1, <2>3, <2>4, <2>5 DEF Service!Leave, Service!Connected, Seen, Unanswered, State
    <2> QED BY <2>4, <2>6 DEF Service!Next, State
  <1>4. ASSUME NEW c \in Clients, Accept(c) PROVE Service!Next
    <2>1. /\ c \in queued /\ c \notin queued' /\ Connected(c)'
          /\ \A d \in Clients \ {c} : (d \in queued' <=> d \in queued) /\ (Connected(d)' <=> Connected(d))
      BY <1>4, AcceptConnects
    <2>2. Up /\ UNCHANGED <<server, said, hung>>
      BY <1>4 DEF Accept
    <2>3. Seen[c] = "queued"
      BY <1>a, <2>1
    <2>4. Seen' = [Seen EXCEPT ![c] = "open"]
      BY <2>1, <2>2 DEF Seen
    <2>5. Unanswered' = Unanswered /\ State' = State /\ State = "up"
      BY <1>u, <2>2 DEF Unanswered, State
    <2>6. Service!Admit(c)
      BY <2>2, <2>3, <2>4, <2>5 DEF Service!Admit, Service!Moves, Seen, Unanswered, State
    <2> QED BY <2>5, <2>6 DEF Service!Next, State
  <1>5. CASE Echo
    <2>1. PICK c : c = fdt[Examined]
      OBVIOUS
    <2>2. /\ c \in Clients \ queued /\ Connected(c) /\ ~Connected(c)'
          /\ \A d \in Clients \ {c} : Connected(d)' <=> Connected(d)
      BY <1>5, <2>1, EchoDisconnects
    <2>3. /\ Up /\ said[c] = "waiting" /\ said' = [said EXCEPT ![c] = "echoed"]
          /\ UNCHANGED <<server, queued, hung>>
      BY <1>5, <2>1 DEF Echo, AtClient
    <2>4. \A d \in Clients : said'[d] = IF d = c THEN "echoed" ELSE said[d]
      BY <1>t, <2>2, <2>3
    <2>5. Seen[c] = "open" /\ c \in Unanswered
      BY <1>a, <2>2, <2>3 DEF Unanswered
    <2>6. Seen' = [Seen EXCEPT ![c] = "served"]
      BY <2>2, <2>3, <2>4 DEF Seen
    <2>7. Unanswered' = Unanswered \ {c}
      BY <2>3, <2>4 DEF Unanswered
    <2>8. State' = State /\ State = "up"
      BY <1>u, <2>3 DEF State
    <2>9. Service!SendBack(c)
      BY <2>3, <2>5, <2>6, <2>7, <2>8 DEF Service!SendBack, Service!Moves, Seen, Unanswered, State
    <2> QED BY <2>2, <2>8, <2>9 DEF Service!Next, State
  <1>6. CASE AcceptBeyond
    <2>1. Up /\ client_index = Slots /\ server' = "overrun" /\ UNCHANGED <<fdt, queued, said, hung>>
      BY <1>6 DEF AcceptBeyond
    <2>2. \A d \in Clients : Connected(d)' <=> Connected(d)
      BY <2>1 DEF Connected
    <2>3. Seen' = Seen /\ Unanswered' = Unanswered /\ State' = "broken" /\ State = "up"
      BY <1>u, <2>1, <2>2 DEF Seen, Unanswered, State
    <2>4. Service!Cardinality({c \in Clients : Seen[c] = "open"}) >= Slots
      BY <2>1, SeenOpen, SameCardinality, SlotsAssumption
    <2>5. Service!Break
      BY <2>1, <2>3, <2>4 DEF Service!Break, Seen, Unanswered, State
    <2> QED BY <2>3, <2>5 DEF Service!Next, State
  <1>7. ASSUME UNCHANGED <<fdt, queued, said, hung>>
        PROVE  Seen' = Seen /\ Unanswered' = Unanswered
    <2>1. \A d \in Clients : Connected(d)' <=> Connected(d)
      BY <1>7 DEF Connected
    <2> QED BY <1>7, <2>1 DEF Seen, Unanswered
  <1>8. CASE ScanEnd
    <2>1. Up /\ UNCHANGED <<fdt, queued, said, hung>> /\ server' = IF q THEN "closed" ELSE "up"
      BY <1>8 DEF ScanEnd
    <2>2. CASE ~q
      <3>1. State' = State
        BY <2>1, <2>2 DEF State, Up
      <3> QED BY <1>7, <1>s, <2>1, <3>1
    <2>3. CASE q
      <3>1. PICK c \in Quitters : said[c] = "echoed"
        BY <2>3 DEF HeardInv
      <3>2. c \in Clients /\ Seen[c] = "served"
        BY <1>a, <3>1, QuittersAssumption DEF EchoedInv, Connected
      <3>3. State' = "ended" /\ State = "up"
        BY <1>u, <2>1, <2>3 DEF State
      <3>4. Seen' = Seen /\ Unanswered' = Unanswered
        BY <1>7, <2>1
      <3>5. Service!End
        BY <2>1, <3>1, <3>2, <3>3, <3>4 DEF Service!End, Seen, Unanswered, State
      <3> QED BY <3>3, <3>5 DEF Service!Next, State
    <2> QED BY <2>2, <2>3
  <1>9. ASSUME UNCHANGED <<server, fdt, queued, said, hung>> PROVE Same
    BY <1>7, <1>9 DEF State
  <1> QED
    BY <1>1, <1>2, <1>3, <1>4, <1>5, <1>6, <1>8, <1>9, <1>s
       DEF Next, Peer, Main, Select, Skip, EndOfFile, vars, loop

(* Whatever the list has come to, the clients see the service of           *)
(* EchoService: a connection is closed with its client's message sent back *)
(* and in no other way, the server ends only after a "q", and leaves       *)
(* client_fd only with as many connections open as it has room for.        *)
THEOREM Refinement == Spec => ImplementsService
  <1>1. Init => EchoedInv /\ HeardInv
    BY DEF Init, EchoedInv, HeardInv
  <1>2. Init => Service!Init
    <2> SUFFICES ASSUME Init PROVE Service!Init
      OBVIOUS
    <2>1. \A c \in Clients : c \notin queued /\ said[c] = "nothing" /\ ~Connected(c)
      BY NobodyAssumption DEF Init, Connected
    <2>2. Seen = [c \in Clients |-> "away"] /\ Unanswered = {} /\ State = "up"
      BY <2>1 DEF Init, Seen, Unanswered, State
    <2> QED BY <2>2 DEF Init, Service!Init, Seen, Unanswered, State
  <1>3. Spec => [](IInv /\ EchoedInv /\ HeardInv)
    BY <1>1, InitIInv, StepIInv, EchoedStep, PTL DEF Spec
  <1> QED BY <1>2, <1>3, ServiceStep, PTL DEF Spec, Service!Spec, ImplementsService
=============================================================================
