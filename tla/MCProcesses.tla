---------------------------- MODULE MCProcesses ----------------------------
(* The epoll server with four clients, and two runs of the programs round  *)
(* one semaphore; running says which of the two a behaviour is about.      *)
EXTENDS EpollServer, NamedSemaphore

CONSTANTS p1, p2, p3, p4, r1, r2

VARIABLE running

vars == <<running, epollVars, semVars>>

Init == \/ running = "epoll" /\ EpollInit /\ SemInit({[r \in Runs |-> "posix"]})
        \/ running = "semaphore" /\ EpollInit /\ ~quit /\ SemInit(Jobs)

Epoll == running = "epoll" /\ EpollNext /\ UNCHANGED <<running, semVars>>
Semaphore == running = "semaphore" /\ SemNext /\ UNCHANGED <<running, epollVars>>
Next == Epoll \/ Semaphore

Fairness ==
  /\ WF_vars(running = "epoll" /\ EpollServer /\ UNCHANGED <<running, semVars>>)
  /\ \A r \in Runs :
       /\ WF_vars(running = "semaphore" /\ UpThread(r) /\ UNCHANGED <<running, epollVars>>)
       /\ WF_vars(running = "semaphore" /\ DownThread(r) /\ UNCHANGED <<running, epollVars>>)

Spec == Init /\ [][Next]_vars /\ Fairness

\* The values are of their types, in both parts.
TypeOK == EpollTypeOK /\ SemTypeOK /\ running \in {"epoll", "semaphore"}
=============================================================================
