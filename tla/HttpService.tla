---------------------------- MODULE HttpService ----------------------------
(***************************************************************************)
(* What Chapter6/webserver.c promises its clients, without threads,        *)
(* descriptors or stdio: connections are taken in the order they arrived,  *)
(* one at a time, and each gets exactly one answer, the one its request    *)
(* line asks for.  A client that hangs up may get an answer to a line it   *)
(* never sent, and its departure may take the whole service down.          *)
(***************************************************************************)
EXTENDS Sequences

CONSTANTS
    Clients,    \* the browsers that may connect
    Owed        \* per client, the kind of answer its request line asks for

VARIABLES
    pending,    \* connected clients not answered yet, in order of arrival
    answer,     \* the answer a client got, "none" while it has none
    left,       \* clients that hung up before they were answered
    up          \* FALSE once the server process has died

absVars == <<pending, answer, left, up>>

Init ==
    /\ pending = <<>>
    /\ answer = [c \in Clients |-> "none"]
    /\ left = {}
    /\ up = TRUE

Waiting(c) == \E i \in DOMAIN pending : pending[i] = c

Arrive(c) ==
    /\ up
    /\ answer[c] = "none"
    /\ ~Waiting(c)
    /\ pending' = Append(pending, c)
    /\ UNCHANGED <<answer, left, up>>

HangUp(c) ==
    /\ up
    /\ Waiting(c)
    /\ left' = left \union {c}
    /\ UNCHANGED <<pending, answer, up>>

(* The oldest connection is answered; an interrupted one arbitrarily. *)
Answer ==
    /\ up
    /\ pending # <<>>
    /\ pending' = Tail(pending)
    /\ LET c == Head(pending) IN
       \E a \in {Owed[c]} \union (IF c \in left THEN {"ok", "error"} ELSE {}) :
           answer' = [answer EXCEPT ![c] = a]
    /\ UNCHANGED <<left, up>>

(* Only somebody's departure (SIGPIPE) stops the service. *)
Die ==
    /\ up
    /\ left # {}
    /\ up' = FALSE
    /\ UNCHANGED <<pending, answer, left>>

Next == (\E c \in Clients : Arrive(c) \/ HangUp(c)) \/ Answer \/ Die

Spec == Init /\ [][Next]_absVars
=============================================================================
