--------------------------- MODULE SerialService ---------------------------
(***************************************************************************)
(* What the control channel promises its clients, without its messages:    *)
(* clients that arrive are served one at a time, in the order in which     *)
(* they came, each at most once; a service ends with an answer or without  *)
(* one, and a client succeeds only with an answer.                         *)
(***************************************************************************)
EXTENDS Naturals, Sequences

CONSTANTS Clients, NoClient

VARIABLES
    waiting,    \* clients that have arrived and wait, in order
    serving,    \* the client being served, or NoClient
    arrived,    \* clients that have ever arrived
    answered,   \* clients whose service ended with an answer
    succeeded,  \* clients that have got their answer
    down        \* the service has ended

vars == <<waiting, serving, arrived, answered, succeeded, down>>

Init ==
    /\ waiting = <<>>
    /\ serving = NoClient
    /\ arrived = {} /\ answered = {} /\ succeeded = {}
    /\ down = FALSE

Arrive(c) ==
    /\ ~down /\ c \notin arrived
    /\ arrived' = arrived \cup {c}
    /\ waiting' = Append(waiting, c)
    /\ UNCHANGED <<serving, answered, succeeded, down>>

Begin ==
    /\ serving = NoClient /\ waiting # <<>>
    /\ serving' = Head(waiting)
    /\ waiting' = Tail(waiting)
    /\ UNCHANGED <<arrived, answered, succeeded, down>>

End ==
    /\ serving # NoClient
    /\ serving' = NoClient
    /\ answered' \in {answered, answered \cup {serving}}
    /\ UNCHANGED <<waiting, arrived, succeeded, down>>

Succeed(c) ==
    /\ c \in answered \ succeeded
    /\ succeeded' = succeeded \cup {c}
    /\ UNCHANGED <<waiting, serving, arrived, answered, down>>

GoDown ==
    /\ ~down
    /\ down' = TRUE
    /\ serving' = NoClient /\ waiting' = <<>>
    /\ UNCHANGED <<arrived, answered, succeeded>>

Next ==
    \/ \E c \in Clients : Arrive(c) \/ Succeed(c)
    \/ Begin \/ End \/ GoDown

Spec == Init /\ [][Next]_vars

=============================================================================
