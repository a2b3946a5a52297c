---------------------------- MODULE EchoService ----------------------------
(***************************************************************************)
(* What Chapter6/select_server.c and epoll_server.c both promise, without  *)
(* descriptors, lists, events or edges: a connection is closed by having   *)
(* its client's message sent back, and in no other way; the service ends   *)
(* after it has sent a "q" back, and breaks only when it has as many       *)
(* connections open as its array has room for.  mesg is tested before      *)
(* anything was read into it if nobody has connected yet, so that the      *)
(* service may also end before it has accepted anybody.                    *)
(***************************************************************************)
EXTENDS Integers, FiniteSets

CONSTANTS Clients, Quitters,   \* the clients, and those whose message begins with "q"
          Room                 \* the entries of the array

VARIABLES
  conn,    \* per client: "away", "queued" (not accepted), "open", "served" (closed)
  said,    \* clients with a message that has not come back
  left,    \* clients that closed their end
  state    \* "up", "ended" or "broken"

echoVars == <<conn, said, left, state>>

Init ==
  /\ conn = [c \in Clients |-> "away"]
  /\ said = {} /\ left = {} /\ state = "up"

Moves(c, from, to) == conn[c] = from /\ conn' = [conn EXCEPT ![c] = to]
Connected(c) == conn[c] \in {"queued", "open"}

Connect(c) ==
  /\ Moves(c, "away", "queued")
  /\ UNCHANGED <<said, left, state>>

Speak(c) ==
  /\ Connected(c) /\ c \notin said \cup left
  /\ said' = said \cup {c}
  /\ UNCHANGED <<conn, left, state>>

Leave(c) ==
  /\ Connected(c)
  /\ left' = left \cup {c}
  /\ UNCHANGED <<conn, said, state>>

Admit(c) ==
  /\ Moves(c, "queued", "open")
  /\ UNCHANGED <<said, left, state>>

\* Also to a client that has left after it spoke.
SendBack(c) ==
  /\ c \in said /\ Moves(c, "open", "served")
  /\ said' = said \ {c}
  /\ UNCHANGED <<left, state>>

End ==
  /\ \/ \E c \in Quitters : conn[c] = "served"
     \/ \A c \in Clients : conn[c] \in {"away", "queued"}
  /\ state' = "ended"
  /\ UNCHANGED <<conn, said, left>>

Break ==
  /\ Cardinality({c \in Clients : conn[c] = "open"}) >= Room
  /\ state' = "broken"
  /\ UNCHANGED <<conn, said, left>>

Next ==
  /\ state = "up"
  /\ \/ \E c \in Clients : Connect(c) \/ Speak(c) \/ Leave(c) \/ Admit(c) \/ SendBack(c)
     \/ End
     \/ Break

Spec == Init /\ [][Next]_echoVars
=============================================================================
