----------------------------- MODULE MsgChannel -----------------------------
(***************************************************************************)
(* One direction of a control connection as the session code sees it: a    *)
(* queue of whole messages.  A message that has been written is read next, *)
(* in order and once, or the read fails because the peer has closed, has   *)
(* reset, or has written something that is no message.                     *)
(***************************************************************************)
EXTENDS Sequences

CONSTANTS Msgs, Junk

VARIABLES
    queue,  \* written and not yet read
    got,    \* read so far
    end,    \* the writer's end: "open", "fin" or "rst"
    failed  \* a read has failed; no other follows

vars == <<queue, got, end, failed>>

Init == queue = <<>> /\ got = <<>> /\ end = "open" /\ failed = FALSE

Write(x) ==
    /\ end = "open"
    /\ queue' = Append(queue, x)
    /\ UNCHANGED <<got, end, failed>>

Read ==
    /\ ~failed /\ queue # <<>> /\ Head(queue) \in Msgs
    /\ got' = Append(got, Head(queue))
    /\ queue' = Tail(queue)
    /\ UNCHANGED <<end, failed>>

Fail ==
    /\ ~failed
    /\ \/ queue = <<>> /\ end # "open"
       \/ end = "rst"
       \/ queue # <<>> /\ Head(queue) \in Junk
    /\ failed' = TRUE
    /\ UNCHANGED <<queue, got, end>>

Close ==
    /\ \/ end = "open" /\ end' \in {"fin", "rst"}
       \/ end = "fin"  /\ end' = "rst"
    /\ UNCHANGED <<queue, got, failed>>

Next == (\E x \in Msgs \cup Junk : Write(x)) \/ Read \/ Fail \/ Close

Spec == Init /\ [][Next]_vars

=============================================================================
