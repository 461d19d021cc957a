------------------------ MODULE ControlSessionProofs ------------------------
(***************************************************************************)
(* Proofs about ControlSession, for every set of clients, every set of     *)
(* command lines and every bound.  The inductive invariant has a part for  *)
(* the server's slot and its backlog, a part for the data connections of   *)
(* the session, and a part for each client taken alone; a step disturbs    *)
(* the part of one client, and every other client is a bystander of it.    *)
(***************************************************************************)
EXTENDS ControlSession, SequenceTheorems, TLAPS

(* The server's open end is that of the client it serves; the queued ends  *)
(* in the backlog are there once each.                                     *)
SlotInv ==
    /\ \A c \in Clients : sEnd[c] = "open" <=> (c = cur)
    /\ \A i \in 1..Len(backlog) : backlog[i] \in Clients /\ sEnd[backlog[i]] = "queued"
    /\ \A i, j \in 1..Len(backlog) : backlog[i] = backlog[j] => i = j

(* The queue of the data listener is of this session only, and is taken    *)
(* from as often as was negotiated.                                        *)
StreamsInv ==
    /\ sPc \notin SessionPcs => conns = <<>>
    /\ sPc \in SessionPcs => accepted <= Len(conns)
    /\ \A i \in 1 .. Len(conns) : conns[i] \in {cur} \cup Foreign
    /\ sPc \in {"hello", "negotiate", "run"} => accepted = 0
    /\ sPc = "data" => accepted < Need(opts[cur])
    /\ sPc \in {"receive", "stalled", "measure", "drain", "report"} =>
          accepted = Need(opts[cur])

(* A Result is the last thing said, on a connection closed cleanly; and a  *)
(* client can only fail at "result" once the server has closed.            *)
AnswerInv(c) ==
    /\ failedAt[c] = "result" => sEnd[c] \in Closed /\ c \notin answered
    /\ c \in answered /\ cPc[c] \notin Terminal =>
          cPc[c] = "result" /\ s2c[c] = <<"Result">> /\ sEnd[c] = "fin"

ClientInv(c) ==
    /\ cPc[c] = "idle" => sEnd[c] = "none" /\ c2s[c] = <<>> /\ s2c[c] = <<>>
    /\ cPc[c] \notin Terminal \cup {"idle"} => cEnd[c] = "open" /\ sEnd[c] # "none"
    /\ c \in answered => sEnd[c] \in Closed
    /\ c \in Native => InStepWith(c) /\ AnswerInv(c)

IInv == /\ TypeOK /\ SlotInv /\ StreamsInv
        /\ \A c \in Clients : ClientInv(c)

(* A step that leaves client d as it is. *)
Same(d) ==
    /\ cPc'[d] = cPc[d] /\ failedAt'[d] = failedAt[d]
    /\ c2s'[d] = c2s[d] /\ s2c'[d] = s2c[d]
    /\ cEnd'[d] = cEnd[d] /\ sEnd'[d] = sEnd[d]

-----------------------------------------------------------------------------

(* What the queue operations of the model do to the short queues of a      *)
(* conversation.                                                           *)
LEMMA ShortQueues ==
    /\ \A m : /\ Append(<<>>, m) = <<m>> /\ <<>> \o <<m>> = <<m>>
             /\ Head(<<m>>) = m /\ Tail(<<m>>) = <<>> /\ <<m>> # <<>>
    /\ Append(<<"Run">>, "Stop") = <<"Run", "Stop">>
    /\ Head(<<"Run", "Stop">>) = "Run" /\ Tail(<<"Run", "Stop">>) = <<"Stop">>
    /\ <<"Run", "Stop">> # <<>>
<1>1. \A m : /\ Append(<<>>, m) = <<m>> /\ <<>> \o <<m>> = <<m>>
             /\ Head(<<m>>) = m /\ Tail(<<m>>) = <<>> /\ <<m>> # <<>>
  OBVIOUS
<1>2. Append(<<"Run">>, "Stop") = <<"Run", "Stop">>
  <2> DEFINE s == Append(<<"Run">>, "Stop")
             t == <<"Run", "Stop">>
  <2>1. s \in Seq({"Run", "Stop"}) /\ t \in Seq({"Run", "Stop"}) /\ Len(s) = Len(t)
    OBVIOUS
  <2>2. \A i \in 1..Len(s) : s[i] = t[i]
    OBVIOUS
  <2> QED BY <2>1, <2>2, SeqEqual
<1>3. /\ Head(<<"Run", "Stop">>) = "Run" /\ Tail(<<"Run", "Stop">>) = <<"Stop">>
      /\ <<"Run", "Stop">> # <<>>
  OBVIOUS
<1> QED BY <1>1, <1>2, <1>3

(* The inductive invariant holds at first. *)
LEMMA InitIInv == Init => IInv
BY ClientsAssumption, BoundsAssumption DEF Init, IInv, TypeOK, SlotInv, StreamsInv, ClientInv,
   AnswerInv, InStepWith, ClientPcs, Terminal, ServerPcs, SessionPcs, Native, Closed

-----------------------------------------------------------------------------
(* What the building blocks of the actions do. *)

(* Taking a message off one queue leaves the others alone. *)
LEMMA TakeEffect ==
    ASSUME NEW S, NEW q \in [Clients -> Seq(S)], NEW c \in Clients, q[c] # <<>>
    PROVE  /\ Take(q, c) \in [Clients -> Seq(S)]
           /\ Take(q, c)[c] = Tail(q[c])
           /\ \A d \in Clients : d # c => Take(q, c)[d] = q[d]
BY DEF Take

ReadOne(c) ==
    /\ c2s' \in [Clients -> Seq(ClientMsgs)] /\ c2s[c] # <<>>
    /\ c2s'[c] = Tail(c2s[c])
    /\ \A d \in Clients : d # c => c2s'[d] = c2s[d]

(* A read of the server consumes the head of its client's queue. *)
LEMMA ServerReadEffect ==
    ASSUME TypeOK, NEW c \in Clients, c2s[c] # <<>>, c2s' = Take(c2s, c)
    PROVE  ReadOne(c)
<1>1. c2s \in [Clients -> Seq(ClientMsgs)]
  BY DEF TypeOK
<1> QED BY <1>1, TakeEffect DEF ReadOne

Got(c) ==
    /\ s2c' \in [Clients -> Seq(ServerMsgs)] /\ s2c[c] # <<>>
    /\ s2c'[c] = Tail(s2c[c])
    /\ \A d \in Clients : d # c => s2c'[d] = s2c[d]

(* A read of the client consumes the head of its queue. *)
LEMMA ClientReadEffect ==
    ASSUME TypeOK, NEW c \in Clients, s2c[c] # <<>>, s2c' = Take(s2c, c)
    PROVE  Got(c)
<1>1. s2c \in [Clients -> Seq(ServerMsgs)]
  BY DEF TypeOK
<1> QED BY <1>1, TakeEffect DEF Got

Wrote(c, m) ==
    /\ c2s' \in [Clients -> Seq(ClientMsgs)]
    /\ sEnd' \in [Clients -> {"none", "queued", "open"} \cup Closed]
    /\ \A d \in Clients : d # c => c2s'[d] = c2s[d] /\ sEnd'[d] = sEnd[d]
    /\ sEnd[c] \in Closed => sEnd'[c] = "rst"
    /\ sEnd[c] \notin Closed =>
          sEnd'[c] = sEnd[c] /\ c2s'[c] = Append(c2s[c], m)

(* What write_msg of the client does to both ends. *)
LEMMA ClientWriteEffect ==
    ASSUME TypeOK, NEW c \in Clients, NEW m \in ClientMsgs, ClientWrite(c, m)
    PROVE  Wrote(c, m)
<1>1. CASE sEnd[c] \in Closed
  BY <1>1 DEF ClientWrite, TypeOK, Closed, Wrote
<1>2. CASE sEnd[c] \notin Closed
  <2>1. c2s' = [c2s EXCEPT ![c] = Append(@, m)] /\ sEnd' = sEnd
    BY <1>2 DEF ClientWrite, Put
  <2>2. Append(c2s[c], m) \in Seq(ClientMsgs)
    BY DEF TypeOK
  <2> QED BY <1>2, <2>1, <2>2 DEF TypeOK, Wrote
<1> QED BY <1>1, <1>2

Exited(c, pc) ==
    /\ cPc' = [cPc EXCEPT ![c] = pc]
    /\ cEnd' \in [Clients -> {"none", "open"} \cup Closed]
    /\ \A d \in Clients : d # c => cEnd'[d] = cEnd[d]

(* What the end of a client does to its connection. *)
LEMMA ClientExitEffect ==
    ASSUME TypeOK, NEW c \in Clients, NEW pc, ClientExit(c, pc)
    PROVE  Exited(c, pc)
BY DEF ClientExit, Goto, ClosedEnd, Closed, TypeOK, Exited

Replied(ms) ==
    /\ s2c' \in [Clients -> Seq(ServerMsgs)]
    /\ cEnd' \in [Clients -> {"none", "open"} \cup Closed]
    /\ s2c'[cur] = s2c[cur] \o ms
    /\ \A d \in Clients : d # cur => s2c'[d] = s2c[d] /\ cEnd'[d] = cEnd[d]
    /\ \A d \in Clients : cEnd[d] = "open" => cEnd'[d] = "open"

(* What the server may write in one go. *)
LEMMA Replies ==
    {<<>>, <<"Welcome">>, <<"Refused", "Error">>, <<"Start">>, <<"Error">>, <<"Result">>}
        \subseteq Seq(ServerMsgs)
BY DEF ServerMsgs

(* What write_msg of the server does. *)
LEMMA ServerWriteEffect ==
    ASSUME TypeOK, cur \in Clients, NEW ms \in Seq(ServerMsgs), ServerWrite(ms)
    PROVE  Replied(ms)
BY DEF ServerWrite, TypeOK, Closed, Replied

Ended ==
    /\ sPc' = "accept" /\ cur' = NoClient /\ conns' = <<>> /\ conns' \in Seq(Clients)
    /\ sEnd' \in [Clients -> {"none", "queued", "open"} \cup Closed]
    /\ \A d \in Clients : d # cur => sEnd'[d] = sEnd[d]
    /\ sEnd'[cur] \in Closed
    /\ c2s'[cur] = <<>> => sEnd'[cur] = "fin"

(* What the return of serve_session does. *)
LEMMA EndSessionEffect ==
    ASSUME TypeOK, cur \in Clients, EndSession
    PROVE  Ended
BY DEF EndSession, ClosedEnd, TypeOK, Closed, Ended

(* A client that a step leaves alone keeps its part of the invariant. *)
LEMMA Bystander ==
    ASSUME NEW d \in Clients, ClientInv(d), Same(d),
           sEnd[d] = "open" => sPc' = sPc, d \in answered' <=> d \in answered
    PROVE  ClientInv(d)'
<1>1. sEnd[d] \in {"queued", "open"} => ServerPos(d)' = ServerPos(d)
  BY DEF ServerPos, Same
<1> QED BY <1>1 DEF ClientInv, InStepWith, AnswerInv, Same

(* A client's step after which its own part of the invariant holds. *)
LEMMA ClientAction ==
    ASSUME IInv, NEW x \in Clients, TypeOK',
           \A d \in Clients : d # x => Same(d),
           UNCHANGED <<opts, backlog, sPc, cur, conns, accepted, answered>>,
           sEnd'[x] = sEnd[x] \/ (sEnd[x] \in Closed /\ sEnd'[x] \in Closed),
           ClientInv(x)'
    PROVE  IInv'
<1>1. SlotInv'
  BY DEF IInv, SlotInv, Same, Closed
<1>2. StreamsInv'
  BY DEF IInv, StreamsInv
<1>3. \A d \in Clients : d # x => ClientInv(d)'
  BY Bystander DEF IInv
<1> QED BY <1>1, <1>2, <1>3 DEF IInv

(* A step of the server in its session, after which the part of the client *)
(* it serves holds.                                                        *)
LEMMA SessionAction ==
    ASSUME IInv, NEW x \in Clients, cur = x, TypeOK',
           \A d \in Clients : d # x => Same(d),
           UNCHANGED backlog,
           \A d \in Clients : d # x => (d \in answered' <=> d \in answered),
           \/ cur' = cur /\ sEnd'[x] = "open"
           \/ cur' = NoClient /\ sEnd'[x] \in Closed,
           StreamsInv', ClientInv(x)'
    PROVE  IInv'
<1>1. sEnd[x] = "open" /\ NoClient \notin Clients
  BY ClientsAssumption DEF IInv, SlotInv
<1>2. SlotInv'
  <2>1. \A d \in Clients : sEnd'[d] = "open" <=> (d = cur')
    BY <1>1 DEF IInv, SlotInv, Same, Closed
  <2>2. \A i \in 1..Len(backlog) : backlog[i] \in Clients /\ backlog[i] # x
    BY <1>1 DEF IInv, SlotInv
  <2> QED BY <2>1, <2>2 DEF IInv, SlotInv, Same
<1>3. \A d \in Clients : d # x => ClientInv(d)'
  BY <1>1, Bystander DEF IInv, SlotInv
<1> QED BY <1>2, <1>3 DEF IInv

(* A step with which the session of x ends and x gets no Result. *)
LEMMA SessionEnds ==
    ASSUME IInv, NEW x \in Clients, cur = x, Ended, TypeOK',
           \A d \in Clients : d # x => Same(d),
           UNCHANGED <<cPc, failedAt, backlog, answered>>,
           cEnd[x] = "open" => cEnd'[x] = "open"
    PROVE  IInv'
<1>1. sEnd[x] = "open" /\ ClientInv(x) /\ sEnd'[x] \in Closed
  BY DEF IInv, SlotInv, Ended
<1>2. ClientInv(x)'
  BY <1>1 DEF ClientInv, InStepWith, AnswerInv, Closed
<1>3. StreamsInv'
  BY DEF Ended, StreamsInv, SessionPcs
<1> QED BY <1>1, <1>2, <1>3, SessionAction DEF Ended

(* A session needs a whole number of data connections. *)
LEMMA NeedType == TypeOK => \A c \in Clients : Need(opts[c]) \in Nat
<1> SUFFICES ASSUME TypeOK, NEW c \in Clients PROVE Need(opts[c]) \in Nat
  OBVIOUS
<1>1. opts[c].parallel \in Nat
  BY OptsAssumption DEF TypeOK
<1> QED BY <1>1 DEF Need

(* A data connection of the session's client or of a foreign program. *)
LEMMA DataConnectStep ==
    ASSUME IInv, NEW x \in Clients, x = cur \/ x \in Foreign,
           DataConnect(x), opened' \in [Clients -> Nat]
    PROVE  IInv'
<1>1. /\ UNCHANGED <<opts, faulty, cPc, failedAt, fileSent, c2s, s2c, cEnd, sEnd>>
      /\ UNCHANGED <<backlog, sPc, cur, accepted, answered>>
      /\ sPc \in SessionPcs /\ conns' = Append(conns, x)
  BY DEF DataConnect, Listening, envVars, ctrlVars, SessionPcs
<1>2. conns \in Seq(Clients) /\ accepted \in Nat
  BY DEF IInv, TypeOK
<1>3. /\ conns' \in Seq(Clients) /\ Len(conns') = Len(conns) + 1 /\ Len(conns) \in Nat
      /\ conns'[Len(conns) + 1] = x
      /\ \A i \in 1 .. Len(conns) : conns'[i] = conns[i]
  BY <1>1, <1>2
<1>4. TypeOK'
  BY <1>1, <1>3 DEF IInv, TypeOK
<1>5. StreamsInv'
  <2>1. \A i \in 1 .. Len(conns') : i \in 1 .. Len(conns) \/ i = Len(conns) + 1
    BY <1>3
  <2>2. \A i \in 1 .. Len(conns') : conns'[i] \in {cur} \cup Foreign
    BY <1>3, <2>1 DEF IInv, StreamsInv
  <2>3. accepted <= Len(conns')
    BY <1>1, <1>2, <1>3 DEF IInv, StreamsInv
  <2> QED BY <1>1, <2>2, <2>3 DEF IInv, StreamsInv
<1>6. SlotInv'
  BY <1>1 DEF IInv, SlotInv
<1>7. ASSUME NEW d \in Clients PROVE ClientInv(d)'
  BY <1>1, Bystander DEF IInv, Same
<1> QED BY <1>4, <1>5, <1>6, <1>7 DEF IInv

-----------------------------------------------------------------------------
(* The steps of a client preserve the invariant. *)

(* The actions of `connect`. *)
LEMMA ClientSteps ==
    ASSUME IInv, NEW x \in Clients,
           CFailFast(x) \/ CConnect(x) \/ ClientStep(x) \/ CDriveFails(x) \/ CCrash(x)
    PROVE  IInv'
<1> USE DEF envVars, clientVars, ctrlVars, serverVars
<1>0. /\ TypeOK /\ ClientInv(x) /\ \A d \in Clients : opened[d] \in Nat
      /\ sEnd[x] \in {"none", "queued", "open"} \cup Closed
  BY DEF IInv, TypeOK
<1>1. ASSUME CFailFast(x) PROVE IInv'
  <2>1. TypeOK' /\ \A d \in Clients : d # x => Same(d)
    BY <1>0, <1>1 DEF CFailFast, Goto, TypeOK, ClientPcs, Terminal, Same
  <2>2. cPc'[x] = "failed" /\ failedAt'[x] = "idle"
    BY <1>0, <1>1 DEF CFailFast, Goto, TypeOK
  <2>3. ClientInv(x)'
    BY <1>0, <1>1, <2>2 DEF CFailFast, ClientInv, InStepWith, AnswerInv, Terminal
  <2> QED BY <1>0, <1>1, <2>1, <2>3, ClientAction DEF CFailFast
<1>2. ASSUME CConnect(x) PROVE IInv'
  <2>1. TypeOK' /\ \A d \in Clients : d # x => Same(d)
    BY <1>0, <1>2 DEF CConnect, Goto, TypeOK, ClientPcs, Same
  <2>2. /\ cPc'[x] = IF x \in Foreign THEN "foreign" ELSE "connected"
        /\ cEnd'[x] = "open" /\ sEnd'[x] = "queued"
        /\ sEnd[x] = "none" /\ c2s'[x] = <<>> /\ s2c'[x] = <<>>
    BY <1>0, <1>2 DEF CConnect, Goto, TypeOK, ClientInv
  <2>3. ClientInv(x)'
    BY <1>0, <1>2, <2>2 DEF CConnect, ClientInv, InStepWith, ServerPos,
       Conversation, AnswerInv, Closed, Native
  <2>4. SlotInv'
    <3>1. /\ Len(backlog') = Len(backlog) + 1 /\ Len(backlog) \in Nat
          /\ backlog'[Len(backlog) + 1] = x
          /\ \A i \in 1..Len(backlog) : backlog'[i] = backlog[i]
      BY <1>0, <1>2 DEF CConnect, TypeOK
    <3>2. SlotInv /\ cur' = cur
      BY <1>2 DEF IInv, CConnect
    <3>3. \A d \in Clients : sEnd'[d] = "open" <=> (d = cur')
      BY <2>1, <2>2, <3>2 DEF SlotInv, Same
    <3>4. \A i \in 1..Len(backlog) : backlog[i] \in Clients /\ backlog[i] # x
      BY <2>2, <3>2 DEF SlotInv
    <3>5. \A i \in 1..Len(backlog') : i \in 1..Len(backlog) \/ i = Len(backlog) + 1
      BY <3>1
    <3> QED BY <2>1, <2>2, <3>1, <3>2, <3>3, <3>4, <3>5 DEF SlotInv, Same
  <2>5. StreamsInv'
    BY <1>2 DEF CConnect, StreamsInv, IInv
  <2>6. \A d \in Clients : d # x => ClientInv(d)'
    BY <1>2, <2>1, Bystander DEF IInv, CConnect
  <2> QED BY <2>1, <2>3, <2>4, <2>5, <2>6 DEF IInv
<1>3. ASSUME CHello(x) PROVE IInv'
  <2>1. Wrote(x, "Hello")
    BY <1>0, <1>3, ClientWriteEffect DEF CHello, ClientMsgs
  <2>2. /\ TypeOK' /\ \A d \in Clients : d # x => Same(d)
        /\ cPc[x] = "connected" /\ cPc'[x] = "welcome"
    BY <1>0, <1>3, <2>1 DEF CHello, Goto, TypeOK, ClientPcs, Same, Wrote
  <2>3. ClientInv(x)'
    BY <1>0, <1>3, <2>1, <2>2, ShortQueues DEF CHello, ClientInv, InStepWith,
       ServerPos, Conversation, AnswerInv, Terminal, Closed, Wrote
  <2> QED BY <1>0, <1>3, <2>1, <2>2, <2>3, ClientAction DEF CHello, Closed, Wrote
<1>4. ASSUME CNegotiate(x) PROVE IInv'
  <2>1. /\ s2c' \in [Clients -> Seq(ServerMsgs)]
        /\ s2c[x] # <<>> /\ s2c'[x] = Tail(s2c[x])
        /\ \A d \in Clients : d # x => s2c'[d] = s2c[d]
        /\ cPc[x] = "welcome"
    BY <1>0, <1>4, ClientReadEffect DEF CNegotiate, CRequest, Got
  <2>2. CASE Head(s2c[x]) = "Welcome"
    <3>1. Wrote(x, "Negotiate")
      BY <1>0, <1>4, <2>2, ClientWriteEffect DEF CNegotiate, CRequest, ClientMsgs
    <3>2. /\ TypeOK' /\ \A d \in Clients : d # x => Same(d)
          /\ cPc'[x] = "start" /\ UNCHANGED <<failedAt, cEnd>>
      BY <1>0, <1>4, <2>1, <2>2, <3>1
         DEF CNegotiate, CRequest, Goto, TypeOK, ClientPcs, Same, Wrote
    <3>3. ClientInv(x)'
      <4>1. x \in Native /\ sEnd[x] \in {"queued", "open"} =>
               ServerPos(x) = "negotiate" /\ c2s[x] = <<>> /\ s2c[x] = <<"Welcome">>
        BY <1>0, <2>1 DEF ClientInv, InStepWith, Conversation, Terminal
      <4>2. ServerPos(x)' = ServerPos(x) \/ sEnd[x] \in Closed
        BY <1>0, <1>4, <3>1 DEF CNegotiate, CRequest, ServerPos, Wrote
      <4>3. x \in Native => InStepWith(x)'
        BY <1>0, <2>1, <3>1, <3>2, <4>1, <4>2, ShortQueues, ZenonT(30)
           DEF InStepWith, Conversation, Closed, Wrote
      <4> QED BY <1>0, <1>4, <2>1, <3>1, <3>2, <4>3
              DEF CNegotiate, CRequest, ClientInv, AnswerInv, Terminal, Closed, Wrote
    <3> QED BY <1>0, <1>4, <3>1, <3>2, <3>3, ClientAction
            DEF CNegotiate, CRequest, Closed, Wrote
  <2>3. CASE Head(s2c[x]) # "Welcome"
    <3>1. Exited(x, "failed") /\ failedAt' = [failedAt EXCEPT ![x] = cPc[x]]
      BY <1>0, <1>4, <2>3, ClientExitEffect DEF CNegotiate, CRequest, ClientFail
    <3>2. /\ TypeOK' /\ \A d \in Clients : d # x => Same(d)
          /\ cPc'[x] = "failed" /\ failedAt'[x] = "welcome" /\ UNCHANGED <<c2s, sEnd>>
      BY <1>0, <1>4, <2>1, <2>3, <3>1
         DEF CNegotiate, CRequest, TypeOK, ClientPcs, Terminal, Same, Exited
    <3>3. ClientInv(x)'
      BY <1>0, <1>4, <2>1, <3>2
         DEF CNegotiate, CRequest, ClientInv, InStepWith, AnswerInv, Terminal
    <3> QED BY <1>0, <1>4, <3>2, <3>3, ClientAction DEF CNegotiate, CRequest
  <2> QED BY <2>2, <2>3
<1>5. ASSUME CRun(x) PROVE IInv'
  <2>1. /\ s2c' \in [Clients -> Seq(ServerMsgs)]
        /\ s2c[x] # <<>> /\ s2c'[x] = Tail(s2c[x])
        /\ \A d \in Clients : d # x => s2c'[d] = s2c[d]
        /\ cPc[x] = "start"
    BY <1>0, <1>5, ClientReadEffect DEF CRun, CRequest, Got
  <2>2. CASE Head(s2c[x]) = "Start"
    <3>1. Wrote(x, "Run")
      BY <1>0, <1>5, <2>2, ClientWriteEffect DEF CRun, CRequest, ClientMsgs
    <3>2. /\ TypeOK' /\ \A d \in Clients : d # x => Same(d)
          /\ cPc'[x] = "data" /\ UNCHANGED <<failedAt, cEnd>>
      BY <1>0, <1>5, <2>1, <2>2, <3>1
         DEF CRun, CRequest, Goto, TypeOK, ClientPcs, Same, Wrote
    <3>3. ClientInv(x)'
      <4>1. x \in Native /\ sEnd[x] \in {"queued", "open"} =>
               ServerPos(x) = "run" /\ c2s[x] = <<>> /\ s2c[x] = <<"Start">>
        BY <1>0, <2>1 DEF ClientInv, InStepWith, Conversation, Terminal
      <4>2. ServerPos(x)' = ServerPos(x) \/ sEnd[x] \in Closed
        BY <1>0, <1>5, <3>1 DEF CRun, CRequest, ServerPos, Wrote
      <4>3. x \in Native => InStepWith(x)'
        BY <1>0, <2>1, <3>1, <3>2, <4>1, <4>2, ShortQueues, ZenonT(30)
           DEF InStepWith, Conversation, Closed, Wrote
      <4> QED BY <1>0, <1>5, <2>1, <3>1, <3>2, <4>3
              DEF CRun, CRequest, ClientInv, AnswerInv, Terminal, Closed, Wrote
    <3> QED BY <1>0, <1>5, <3>1, <3>2, <3>3, ClientAction
            DEF CRun, CRequest, Closed, Wrote
  <2>3. CASE Head(s2c[x]) # "Start"
    <3>1. Exited(x, "failed") /\ failedAt' = [failedAt EXCEPT ![x] = cPc[x]]
      BY <1>0, <1>5, <2>3, ClientExitEffect DEF CRun, CRequest, ClientFail
    <3>2. /\ TypeOK' /\ \A d \in Clients : d # x => Same(d)
          /\ cPc'[x] = "failed" /\ failedAt'[x] = "start" /\ UNCHANGED <<c2s, sEnd>>
      BY <1>0, <1>5, <2>1, <2>3, <3>1
         DEF CRun, CRequest, TypeOK, ClientPcs, Terminal, Same, Exited
    <3>3. ClientInv(x)'
      BY <1>0, <1>5, <2>1, <3>2
         DEF CRun, CRequest, ClientInv, InStepWith, AnswerInv, Terminal
    <3> QED BY <1>0, <1>5, <3>2, <3>3, ClientAction DEF CRun, CRequest
  <2> QED BY <2>2, <2>3
<1>6. ASSUME CDataConnect(x) PROVE IInv'
  <2>1. opened' \in [Clients -> Nat]
    BY <1>0, <1>6 DEF CDataConnect, TypeOK
  <2> QED BY <1>6, <2>1, DataConnectStep DEF CDataConnect
<1>7. ASSUME CFileSend(x) PROVE IInv'
  <2>1. TypeOK' /\ \A d \in Clients : Same(d)
    BY <1>0, <1>7 DEF CFileSend, TypeOK, Same
  <2>2. ClientInv(x)'
    BY <1>0, <1>7, <2>1, Bystander DEF CFileSend
  <2> QED BY <1>0, <1>7, <2>1, <2>2, ClientAction DEF CFileSend
<1>8. ASSUME CStop(x) PROVE IInv'
  <2>1. Wrote(x, "Stop")
    BY <1>0, <1>8, ClientWriteEffect DEF CStop, ClientMsgs
  <2>2. /\ TypeOK' /\ \A d \in Clients : d # x => Same(d)
        /\ cPc[x] = "data" /\ cPc'[x] = "result"
    BY <1>0, <1>8, <2>1 DEF CStop, Goto, TypeOK, ClientPcs, Same, Wrote
  <2>3. ClientInv(x)'
    BY <1>0, <1>8, <2>1, <2>2, ShortQueues DEF CStop, ClientInv, InStepWith,
       ServerPos, Conversation, DataPcs, AnswerInv, Terminal, Closed, Wrote
  <2> QED BY <1>0, <1>8, <2>1, <2>2, <2>3, ClientAction DEF CStop, Closed, Wrote
<1>9. ASSUME CDriveFails(x) PROVE IInv'
  <2>1. Exited(x, "failed") /\ failedAt' = [failedAt EXCEPT ![x] = "data"]
    BY <1>0, <1>9, ClientExitEffect DEF CDriveFails, ClientFail
  <2>2. /\ TypeOK' /\ \A d \in Clients : d # x => Same(d)
        /\ cPc'[x] = "failed" /\ failedAt'[x] = "data"
    BY <1>0, <1>9, <2>1 DEF CDriveFails, TypeOK, ClientPcs, Terminal, Same, Exited
  <2>3. ClientInv(x)'
    BY <1>0, <1>9, <2>2 DEF CDriveFails, ClientInv, InStepWith, AnswerInv, Terminal
  <2> QED BY <1>0, <1>9, <2>2, <2>3, ClientAction DEF CDriveFails
<1>10. ASSUME CResult(x) PROVE IInv'
  <2>1. /\ s2c' \in [Clients -> Seq(ServerMsgs)]
        /\ s2c[x] # <<>> /\ s2c'[x] = Tail(s2c[x])
        /\ \A d \in Clients : d # x => s2c'[d] = s2c[d]
        /\ cPc[x] = "result"
    BY <1>0, <1>10, ClientReadEffect DEF CResult, Got
  <2>2. CASE Head(s2c[x]) = "Result"
    <3>1. Exited(x, "ok") /\ UNCHANGED failedAt
      BY <1>0, <1>10, <2>2, ClientExitEffect DEF CResult
    <3>2. /\ TypeOK' /\ \A d \in Clients : d # x => Same(d)
          /\ cPc'[x] = "ok"
      BY <1>0, <1>10, <2>1, <3>1
         DEF CResult, TypeOK, ClientPcs, Terminal, Same, Exited
    <3>3. ClientInv(x)'
      BY <1>0, <1>10, <2>1, <3>1, <3>2
         DEF CResult, ClientInv, InStepWith, AnswerInv, Terminal
    <3> QED BY <1>0, <1>10, <3>2, <3>3, ClientAction DEF CResult
  <2>3. CASE Head(s2c[x]) # "Result"
    <3>1. Exited(x, "failed") /\ failedAt' = [failedAt EXCEPT ![x] = cPc[x]]
      BY <1>0, <1>10, <2>3, ClientExitEffect DEF CResult, ClientFail
    <3>2. /\ TypeOK' /\ \A d \in Clients : d # x => Same(d)
          /\ cPc'[x] = "failed"
      BY <1>0, <1>10, <2>1, <3>1
         DEF CResult, TypeOK, ClientPcs, Terminal, Same, Exited
    <3>3. x \in Native => sEnd[x] \in Closed /\ x \notin answered
      BY <1>0, <2>1, <2>3, ShortQueues
         DEF ClientInv, InStepWith, Conversation, AnswerInv, Terminal
    <3>4. ClientInv(x)'
      BY <1>0, <1>10, <3>2, <3>3
         DEF CResult, ClientInv, InStepWith, AnswerInv, Terminal
    <3> QED BY <1>0, <1>10, <3>2, <3>4, ClientAction DEF CResult
  <2> QED BY <2>2, <2>3
<1>11. ASSUME CIoError(x) PROVE IInv'
  <2>1. Exited(x, "failed") /\ failedAt' = [failedAt EXCEPT ![x] = cPc[x]]
    BY <1>0, <1>11, ClientExitEffect DEF CIoError, ClientFail
  <2>2. /\ TypeOK' /\ \A d \in Clients : d # x => Same(d)
        /\ cPc'[x] = "failed" /\ failedAt'[x] = cPc[x]
    BY <1>0, <1>11, <2>1 DEF CIoError, TypeOK, ClientPcs, Terminal, Same, Exited
  <2>3. x \in Native => sEnd[x] \in Closed /\ x \notin answered
    BY <1>0, <1>11, ShortQueues DEF CIoError, ReadFails, Closed, ClientInv,
       AnswerInv, Terminal
  <2>4. ClientInv(x)'
    BY <1>0, <1>11, <2>2, <2>3 DEF CIoError, ClientInv, InStepWith, AnswerInv, Terminal
  <2> QED BY <1>0, <1>11, <2>2, <2>4, ClientAction DEF CIoError
<1>12. ASSUME CCrash(x) PROVE IInv'
  <2>1. Exited(x, "crashed")
    BY <1>0, <1>12, ClientExitEffect DEF CCrash
  <2>2. /\ TypeOK' /\ \A d \in Clients : d # x => Same(d)
        /\ cPc'[x] = "crashed"
    BY <1>0, <1>12, <2>1 DEF CCrash, TypeOK, ClientPcs, Terminal, Same, Exited
  <2>3. ClientInv(x)'
    BY <1>0, <1>12, <2>2 DEF CCrash, ClientInv, InStepWith, AnswerInv, Terminal
  <2> QED BY <1>0, <1>12, <2>2, <2>3, ClientAction DEF CCrash
<1> QED BY <1>1, <1>2, <1>3, <1>4, <1>5, <1>6, <1>7, <1>8, <1>9, <1>10, <1>11,
           <1>12 DEF ClientStep

(* The steps of some other program on the control port. *)
LEMMA ForeignSteps ==
    ASSUME IInv, NEW x \in Foreign, FSend(x) \/ FDataConnect(x)
    PROVE  IInv'
<1> USE DEF envVars, clientVars, ctrlVars, serverVars
<1>0. /\ TypeOK /\ x \in Clients /\ x \notin Native /\ ClientInv(x)
      /\ \A d \in Clients : opened[d] \in Nat
  BY ClientsAssumption DEF IInv, TypeOK, Native
<1>1. ASSUME FSend(x) PROVE IInv'
  <2>1. PICK m \in ClientMsgs : ClientWrite(x, m)
    BY <1>1 DEF FSend
  <2>2. Wrote(x, m)
    BY <1>0, <2>1, ClientWriteEffect
  <2>3. TypeOK' /\ \A d \in Clients : d # x => Same(d)
    BY <1>0, <1>1, <2>2 DEF FSend, TypeOK, Same, Wrote
  <2>4. ClientInv(x)'
    BY <1>0, <1>1, <2>2 DEF FSend, ClientInv, Closed, Wrote
  <2> QED BY <1>0, <1>1, <2>2, <2>3, <2>4, ClientAction DEF FSend, Closed, Wrote
<1>2. ASSUME FDataConnect(x) PROVE IInv'
  <2>1. opened' \in [Clients -> Nat]
    BY <1>0, <1>2 DEF FDataConnect, TypeOK
  <2> QED BY <1>0, <1>2, <2>1, DataConnectStep DEF FDataConnect
<1> QED BY <1>1, <1>2

-----------------------------------------------------------------------------
(* The steps of the server preserve the invariant. *)

(* The next connection of the backlog is accepted. *)
LEMMA AcceptStep ==
    ASSUME IInv, SAccept
    PROVE  IInv'
<1> USE DEF envVars, clientVars
<1>0. TypeOK /\ SlotInv /\ cur = NoClient /\ NoClient \notin Clients
  BY ClientsAssumption DEF IInv, TypeOK, SAccept
<1>1. PICK x \in Clients :
         /\ x = Head(backlog) /\ x = backlog[1] /\ Len(backlog) \in Nat \ {0}
         /\ Len(backlog') = Len(backlog) - 1
         /\ \A i \in 1..Len(backlog') : backlog'[i] = backlog[i + 1]
  BY <1>0 DEF SAccept, TypeOK
<1>2. sEnd[x] = "queued" /\ ClientInv(x)
  BY <1>0, <1>1 DEF SlotInv, IInv
<1>3. TypeOK' /\ sEnd'[x] = "open" /\ cur' = x /\ sPc' = "hello"
  BY <1>0, <1>1 DEF SAccept, TypeOK, ServerPcs, SessionPcs
<1>4. \A d \in Clients : d # x => Same(d)
  BY <1>0, <1>1 DEF SAccept, TypeOK, Same
<1>5. SlotInv'
  <2>1. \A d \in Clients : sEnd'[d] = "open" <=> (d = cur')
    BY <1>0, <1>3, <1>4 DEF SlotInv, Same
  <2>2. \A i \in 1..Len(backlog') : i + 1 \in 1..Len(backlog) /\ i + 1 # 1
    BY <1>1
  <2>3. \A i \in 1..Len(backlog') :
           backlog'[i] \in Clients /\ backlog'[i] # x /\ sEnd[backlog'[i]] = "queued"
    <3>1. 1 \in 1..Len(backlog)
      BY <1>1
    <3> QED BY <1>0, <1>1, <2>2, <3>1 DEF SlotInv
  <2>4. \A i \in 1..Len(backlog') : sEnd'[backlog'[i]] = "queued"
    BY <1>4, <2>3 DEF Same
  <2>5. \A i, j \in 1..Len(backlog') : backlog'[i] = backlog'[j] => i = j
    <3> TAKE i, j \in 1..Len(backlog')
    <3> HAVE backlog'[i] = backlog'[j]
    <3>1. i + 1 = j + 1
      BY <1>0, <1>1, <2>2 DEF SlotInv
    <3> QED BY <1>1, <3>1
  <2> QED BY <2>1, <2>3, <2>4, <2>5 DEF SlotInv
<1>6. StreamsInv'
  <2>1. conns' = <<>> /\ accepted' = 0
    BY <1>0 DEF SAccept, IInv, StreamsInv, SessionPcs
  <2> QED BY <1>3, <2>1 DEF StreamsInv, SessionPcs
<1>7. ClientInv(x)'
  BY <1>1, <1>2, <1>3 DEF SAccept, ClientInv, InStepWith, ServerPos, AnswerInv, Closed
<1>8. \A d \in Clients : d # x => ClientInv(d)'
  BY <1>0, <1>4, Bystander DEF IInv, SAccept, SlotInv
<1> QED BY <1>1, <1>3, <1>5, <1>6, <1>7, <1>8 DEF IInv

(* The server process ends. *)
LEMMA ExitStep ==
    ASSUME IInv, SExit
    PROVE  IInv'
<1> USE DEF envVars, clientVars
<1>0. TypeOK /\ SlotInv /\ NoClient \notin Clients
  BY ClientsAssumption DEF IInv
<1>1. TypeOK'
  BY <1>0 DEF SExit, TypeOK, ServerPcs, Closed, ClosedEnd
<1>2. \A d \in Clients :
         /\ sEnd[d] \in {"queued", "open"} => sEnd'[d] \in Closed
         /\ sEnd[d] \notin {"queued", "open"} => sEnd'[d] = sEnd[d]
         /\ sEnd'[d] \notin {"queued", "open"}
  BY <1>0 DEF SExit, TypeOK, Closed, ClosedEnd
<1>3. SlotInv'
  BY <1>0, <1>2 DEF SExit, SlotInv
<1>4. StreamsInv'
  <2>1. sPc' = "exited" /\ conns' = <<>>
    BY DEF SExit
  <2> QED BY <2>1 DEF StreamsInv, SessionPcs
<1>5. ASSUME NEW d \in Clients PROVE ClientInv(d)'
  BY <1>2, <1>5 DEF IInv, SExit, ClientInv, InStepWith, AnswerInv, Closed
<1> QED BY <1>1, <1>3, <1>4, <1>5 DEF IInv

(* The actions of serve_session. *)
LEMMA SessionSteps ==
    ASSUME IInv, NEW x \in Clients, cur = x,
           \/ SHello \/ SNegotiate \/ SRun \/ SReject \/ SIoError
           \/ SDataAccept \/ SStop \/ SFileEnd \/ SDrain \/ SReport \/ SDataFails
    PROVE  IInv'
<1> USE DEF envVars, clientVars, ctrlVars
<1>0. /\ TypeOK /\ ClientInv(x) /\ sEnd[x] = "open" /\ StreamsInv
      /\ x \notin answered
  BY DEF IInv, SlotInv, ClientInv, Closed
<1>1. ASSUME SHello PROVE IInv'
  <2>1. ReadOne(x) /\ sPc = "hello"
    BY <1>0, <1>1, ServerReadEffect DEF SHello, ServerRead
  <2>2. CASE opts[x].version = ProtocolVersion
    <3>1. Replied(<<"Welcome">>)
      BY <1>0, <1>1, <2>2, ServerWriteEffect, Replies DEF SHello
    <3>2. /\ TypeOK' /\ \A d \in Clients : d # x => Same(d)
          /\ sPc' = "negotiate" /\ sEnd'[x] = "open" /\ cur' = cur
      BY <1>0, <1>1, <2>1, <2>2, <3>1
         DEF SHello, TypeOK, ServerPcs, SessionPcs, Same, Replied, ReadOne
    <3>3. x \in Native /\ cPc[x] \notin Terminal =>
             cPc[x] = "welcome" /\ c2s[x] = <<"Hello">> /\ s2c[x] = <<>>
      BY <1>0, <2>1 DEF ClientInv, InStepWith, ServerPos, Conversation, DataPcs, ReadOne
    <3>4. x \in Native => InStepWith(x)'
      <4>1. UNCHANGED cPc /\ ServerPos(x)' = "negotiate"
        BY <1>1, <3>2 DEF SHello, ServerPos
      <4>2. x \in Native /\ cPc[x] \notin Terminal =>
               c2s'[x] = <<>> /\ s2c'[x] = <<"Welcome">>
        BY <2>1, <3>1, <3>3, ShortQueues DEF Replied, ReadOne
      <4> QED BY <3>2, <3>3, <4>1, <4>2 DEF InStepWith, Conversation
    <3>5. ClientInv(x)'
      BY <1>0, <1>1, <3>1, <3>2, <3>4 DEF SHello, ClientInv, AnswerInv, Replied
    <3>6. StreamsInv'
      <4>1. UNCHANGED <<cur, conns, accepted>>
        BY <1>1, <2>2 DEF SHello
      <4> QED BY <1>0, <2>1, <3>2, <4>1 DEF StreamsInv, SessionPcs
    <3> QED BY <1>0, <1>1, <3>2, <3>5, <3>6, SessionAction DEF SHello
  <2>3. CASE opts[x].version # ProtocolVersion
    <3>1. Replied(<<"Refused", "Error">>) /\ Ended
      BY <1>0, <1>1, <2>3, ServerWriteEffect, EndSessionEffect, Replies
         DEF SHello
    <3>2. TypeOK' /\ \A d \in Clients : d # x => Same(d)
      BY <1>0, <1>1, <2>1, <3>1 DEF SHello, TypeOK, ServerPcs, Same, Replied, Ended, ReadOne
    <3> QED BY <1>1, <3>1, <3>2, SessionEnds DEF SHello, Replied
  <2> QED BY <2>2, <2>3
<1>2. ASSUME SNegotiate PROVE IInv'
  <2>1. ReadOne(x) /\ sPc = "negotiate"
    BY <1>0, <1>2, ServerReadEffect DEF SNegotiate, ServerRead
  <2>2. CASE ServerWrite(<<"Start">>) /\ sPc' = "run" /\ UNCHANGED <<cur, conns, sEnd>>
    <3>1. Replied(<<"Start">>)
      BY <1>0, <2>2, ServerWriteEffect, Replies
    <3>2. /\ TypeOK' /\ \A d \in Clients : d # x => Same(d)
          /\ cPc' = cPc /\ sEnd'[x] = "open"
      BY <1>0, <1>2, <2>1, <2>2, <3>1
         DEF SNegotiate, TypeOK, ServerPcs, SessionPcs, Same, Replied, ReadOne
    <3>3. x \in Native /\ cPc[x] \notin Terminal =>
             cPc[x] = "start" /\ c2s[x] = <<"Negotiate">> /\ s2c[x] = <<>>
      BY <1>0, <2>1 DEF ClientInv, InStepWith, ServerPos, Conversation, DataPcs, ReadOne
    <3>4. x \in Native => InStepWith(x)'
      BY <2>1, <2>2, <3>1, <3>2, <3>3, ShortQueues
         DEF InStepWith, ServerPos, Conversation, Replied, ReadOne
    <3>5. ClientInv(x)'
      BY <1>0, <1>2, <2>2, <3>1, <3>4 DEF SNegotiate, ClientInv, AnswerInv, Replied
    <3>6. StreamsInv'
      BY <1>0, <1>2, <2>1, <2>2 DEF SNegotiate, StreamsInv, SessionPcs
    <3> QED BY <1>0, <1>2, <2>2, <3>2, <3>5, <3>6, SessionAction DEF SNegotiate
  <2>3. CASE ServerWrite(<<>>) /\ EndSession
    <3>1. Replied(<<>>) /\ Ended
      BY <1>0, <2>3, ServerWriteEffect, EndSessionEffect, Replies
    <3>2. TypeOK' /\ \A d \in Clients : d # x => Same(d)
      BY <1>0, <1>2, <2>1, <3>1 DEF SNegotiate, TypeOK, ServerPcs, Same, Replied, Ended, ReadOne
    <3> QED BY <1>2, <3>1, <3>2, SessionEnds DEF SNegotiate, Replied
  <2> QED BY <1>2, <2>2, <2>3 DEF SNegotiate
<1>3. ASSUME SRun PROVE IInv'
  <2>1. ReadOne(x) /\ sPc = "run"
    BY <1>0, <1>3, ServerReadEffect DEF SRun, ServerRead
  <2>2. /\ sPc' \in {"data", "receive", "measure"}
        /\ sPc' = "data" <=> 0 < Need(opts[x])
    BY <1>0, <1>3, NeedType DEF SRun, DataPhase, Complete
  <2>3. TypeOK' /\ \A d \in Clients : d # x => Same(d)
    BY <1>0, <1>3, <2>1, <2>2 DEF SRun, TypeOK, ServerPcs, SessionPcs, Same, ReadOne
  <2>4. ClientInv(x)'
    <3>1. x \in Native /\ cPc[x] \notin Terminal =>
             /\ s2c[x] = <<>>
             /\ \/ cPc[x] = "data" /\ c2s[x] = <<"Run">>
                \/ cPc[x] = "result" /\ c2s[x] = <<"Run", "Stop">>
      BY <1>0, <2>1 DEF ClientInv, InStepWith, ServerPos, Conversation, DataPcs, ReadOne
    <3>2. x \in Native => InStepWith(x)'
      BY <1>0, <1>3, <2>1, <2>2, <3>1, ShortQueues
         DEF SRun, InStepWith, ServerPos, Conversation, DataPcs, ReadOne
    <3> QED BY <1>0, <1>3, <3>2 DEF SRun, ClientInv, AnswerInv
  <2>5. StreamsInv'
    <3>1. accepted = 0 /\ accepted <= Len(conns) /\ Need(opts[x]) \in Nat
      BY <1>0, <2>1, NeedType DEF StreamsInv, SessionPcs
    <3>2. UNCHANGED <<opts, cur, conns, accepted>>
      BY <1>3 DEF SRun
    <3> QED BY <1>0, <2>2, <3>1, <3>2 DEF StreamsInv, SessionPcs
  <2> QED BY <1>0, <1>3, <2>3, <2>4, <2>5, SessionAction DEF SRun
<1>4. ASSUME SReject PROVE IInv'
  <2>1. ReadOne(x)
    BY <1>0, <1>4, ServerReadEffect DEF SReject
  <2>2. PICK ms \in Seq(ServerMsgs) : Replied(ms)
    <3>1. <<>> \in Seq(ServerMsgs) /\ <<"Error">> \in Seq(ServerMsgs)
      BY Replies
    <3>2. \E ms \in Seq(ServerMsgs) : ServerWrite(ms)
      BY <1>4, <3>1 DEF SReject
    <3> QED BY <1>0, <3>2, ServerWriteEffect
  <2>3. Ended
    BY <1>0, <1>4, EndSessionEffect DEF SReject
  <2>4. TypeOK' /\ \A d \in Clients : d # x => Same(d)
    BY <1>0, <1>4, <2>1, <2>2, <2>3 DEF SReject, TypeOK, ServerPcs, Same, Replied, Ended, ReadOne
  <2> QED BY <1>4, <2>2, <2>3, <2>4, SessionEnds DEF SReject, Replied
<1>5. ASSUME SIoError \/ SDataFails PROVE IInv'
  <2>1. Ended
    BY <1>0, <1>5, EndSessionEffect DEF SIoError, SDataFails
  <2>2. TypeOK' /\ \A d \in Clients : d # x => Same(d)
    BY <1>0, <1>5, <2>1 DEF SIoError, SDataFails, TypeOK, ServerPcs, Same, Ended
  <2> QED BY <1>5, <2>1, <2>2, SessionEnds DEF SIoError, SDataFails
<1>6. ASSUME SDataAccept PROVE IInv'
  <2>1. /\ sPc' \in {"data", "receive", "measure"} /\ accepted' = accepted + 1
        /\ sPc' = "data" <=> accepted + 1 < Need(opts[x])
        /\ accepted \in Nat /\ Need(opts[x]) \in Nat
    <3>1. accepted \in Nat /\ Need(opts[x]) \in Nat
      BY <1>0, NeedType DEF TypeOK
    <3> QED BY <1>6, <3>1 DEF SDataAccept, DataPhase, Complete
  <2>2. TypeOK' /\ \A d \in Clients : Same(d)
    BY <1>0, <1>6, <2>1 DEF SDataAccept, TypeOK, ServerPcs, SessionPcs, Same
  <2>3. ClientInv(x)'
    BY <1>0, <1>6, <2>1 DEF SDataAccept, ClientInv, InStepWith,
       ServerPos, Conversation, DataPcs, AnswerInv
  <2>4. StreamsInv'
    <3>1. /\ accepted < Need(opts[x]) /\ accepted < Len(conns) /\ Len(conns) \in Nat
          /\ UNCHANGED <<opts, cur, conns>>
      BY <1>0, <1>6 DEF SDataAccept, StreamsInv, TypeOK
    <3> QED BY <1>0, <2>1, <3>1 DEF StreamsInv, SessionPcs
  <2> QED BY <1>0, <1>6, <2>2, <2>3, <2>4, SessionAction DEF SDataAccept
<1>7. ASSUME SStop \/ SDrain PROVE IInv'
  <2>1. /\ c2s' \in [Clients -> Seq(ClientMsgs)]
        /\ \A d \in Clients : d # x => c2s'[d] = c2s[d]
        /\ \/ c2s[x] # <<>> /\ c2s'[x] = Tail(c2s[x])
           \/ cEnd[x] \in Closed
    <3>1. \/ ReadOne(x)
          \/ UNCHANGED c2s /\ cEnd[x] \in Closed
      BY <1>0, <1>7, ServerReadEffect DEF SStop, SDrain, ReadStop, ReadFails, Closed
    <3> QED BY <1>0, <3>1 DEF ReadOne, TypeOK
  <2>2. sPc \in {"measure", "drain"} /\ sPc' = "report"
    BY <1>7 DEF SStop, SDrain
  <2>3. TypeOK' /\ \A d \in Clients : d # x => Same(d)
    BY <1>0, <1>7, <2>1, <2>2 DEF SStop, SDrain, TypeOK, ServerPcs, SessionPcs, Same
  <2>4. cPc[x] \notin Terminal => cEnd[x] = "open"
    BY <1>0 DEF ClientInv, Terminal
  <2>5. ClientInv(x)'
    <3>1. UNCHANGED <<cPc, failedAt, s2c, cEnd, sEnd, answered>>
      BY <1>7 DEF SStop, SDrain
    <3>2. x \in Native /\ cPc[x] \notin Terminal =>
             /\ s2c[x] = <<>>
             /\ \/ cPc[x] = "data" /\ c2s[x] = <<>>
                \/ cPc[x] = "result" /\ c2s[x] = <<"Stop">>
      BY <1>0, <2>2 DEF ClientInv, InStepWith, ServerPos, Conversation, DataPcs
    <3>3. x \in Native /\ cPc[x] \notin Terminal =>
             cPc[x] = "result" /\ c2s'[x] = <<>> /\ s2c[x] = <<>>
      BY <2>1, <2>4, <3>2, ShortQueues DEF Closed
    <3>4. x \in Native => InStepWith(x)'
      BY <1>0, <2>2, <3>1, <3>3 DEF InStepWith, ServerPos, Conversation
    <3>5. cPc[x] = "idle" => c2s'[x] = <<>>
      BY <1>0 DEF ClientInv
    <3> QED BY <1>0, <3>1, <3>4, <3>5 DEF ClientInv, AnswerInv
  <2>6. StreamsInv'
    BY <1>0, <1>7, <2>2 DEF SStop, SDrain, StreamsInv, SessionPcs
  <2> QED BY <1>0, <1>7, <2>3, <2>5, <2>6, SessionAction DEF SStop, SDrain
<1>8. ASSUME SFileEnd PROVE IInv'
  <2>1. sPc = "receive" /\ sPc' \in {"drain", "stalled"}
    BY <1>8 DEF SFileEnd
  <2>2. TypeOK' /\ \A d \in Clients : Same(d)
    BY <1>0, <1>8, <2>1 DEF SFileEnd, TypeOK, ServerPcs, SessionPcs, Same
  <2>3. ClientInv(x)'
    BY <1>0, <1>8, <2>1 DEF SFileEnd, ClientInv, InStepWith,
       ServerPos, Conversation, DataPcs, AnswerInv
  <2>4. StreamsInv'
    BY <1>0, <1>8, <2>1 DEF SFileEnd, StreamsInv, SessionPcs
  <2> QED BY <1>0, <1>8, <2>2, <2>3, <2>4, SessionAction DEF SFileEnd
<1>9. ASSUME SReport PROVE IInv'
  <2>1. CASE ResultFits(opts[x])
    <3>1. Replied(<<"Result">>) /\ Ended
      BY <1>0, <1>9, <2>1, ServerWriteEffect, EndSessionEffect, Replies DEF SReport
    <3>2. /\ TypeOK' /\ \A d \in Clients : d # x => Same(d)
          /\ answered' = answered \cup {x}
      BY <1>0, <1>9, <2>1, <3>1 DEF SReport, TypeOK, ServerPcs, Same, Replied, Ended, ReadOne
    <3>3. x \in Native /\ cPc[x] \notin Terminal =>
             cPc[x] = "result" /\ c2s[x] = <<>> /\ s2c[x] = <<>>
      BY <1>0, <1>9 DEF SReport, ClientInv, InStepWith, ServerPos, Conversation, DataPcs
    <3>4. ClientInv(x)'
      BY <1>0, <1>9, <3>1, <3>2, <3>3, ShortQueues, ZenonT(30)
         DEF SReport, ClientInv, InStepWith, AnswerInv, Closed, Replied, Ended
    <3>5. StreamsInv'
      BY <3>1 DEF StreamsInv, SessionPcs, Ended
    <3> QED BY <1>0, <1>9, <3>1, <3>2, <3>4, <3>5, SessionAction DEF SReport, Ended
  <2>2. CASE ~ResultFits(opts[x])
    <3>1. Replied(<<>>) /\ Ended
      BY <1>0, <1>9, <2>2, ServerWriteEffect, EndSessionEffect, Replies DEF SReport
    <3>2. TypeOK' /\ \A d \in Clients : d # x => Same(d)
      BY <1>0, <1>9, <2>2, <3>1 DEF SReport, TypeOK, ServerPcs, Same, Replied, Ended, ReadOne
    <3> QED BY <1>9, <2>2, <3>1, <3>2, SessionEnds DEF SReport, Replied
  <2> QED BY <2>1, <2>2
<1> QED BY <1>1, <1>2, <1>3, <1>4, <1>5, <1>6, <1>7, <1>8, <1>9

-----------------------------------------------------------------------------

(* Every step, and a stutter, preserves the inductive invariant. *)
LEMMA NextIInv == IInv /\ [Next]_vars => IInv'
<1> SUFFICES ASSUME IInv, [Next]_vars PROVE IInv'
  OBVIOUS
<1>1. ASSUME NEW x \in Clients,
             CFailFast(x) \/ CConnect(x) \/ ClientStep(x) \/ CDriveFails(x) \/ CCrash(x)
      PROVE  IInv'
  BY <1>1, ClientSteps
<1>2. ASSUME NEW x \in Foreign, FSend(x) \/ FDataConnect(x) PROVE IInv'
  BY <1>2, ForeignSteps
<1>3. ASSUME ServerStep \/ SDataFails PROVE IInv'
  <2>1. CASE SAccept
    BY <2>1, AcceptStep
  <2>2. CASE \/ SHello \/ SNegotiate \/ SRun \/ SReject \/ SIoError
             \/ SDataAccept \/ SStop \/ SFileEnd \/ SDrain \/ SReport \/ SDataFails
    <3>1. sPc \in SessionPcs
      BY <2>2 DEF SHello, SNegotiate, SRun, SReject, SIoError, SDataAccept, SStop,
         SFileEnd, SDrain, SReport, SDataFails, ServerRead, SessionPcs
    <3>2. cur \in Clients
      BY <3>1 DEF IInv, TypeOK, SessionPcs
    <3> QED BY <2>2, <3>2, SessionSteps
  <2> QED BY <1>3, <2>1, <2>2 DEF ServerStep
<1>4. ASSUME SExit PROVE IInv'
  BY <1>4, ExitStep
<1>5. ASSUME UNCHANGED vars PROVE IInv'
  <2>1. /\ TypeOK' = TypeOK /\ SlotInv' = SlotInv /\ StreamsInv' = StreamsInv
        /\ \A c \in Clients : ClientInv(c)' = ClientInv(c)
    BY <1>5 DEF vars, envVars, clientVars, ctrlVars, serverVars, TypeOK, SlotInv, StreamsInv,
       ClientInv, InStepWith, AnswerInv, ServerPos
  <2> QED BY <2>1 DEF IInv
<1> QED BY <1>1, <1>2, <1>3, <1>4, <1>5 DEF Next, AllDone

(* The inductive invariant always holds. *)
LEMMA Invariance == Spec => []IInv
BY InitIInv, NextIInv, PTL DEF Spec

-----------------------------------------------------------------------------

(* The types, and the slot of the server: see TypeOK. *)
THEOREM TypeCorrect == Spec => []TypeOK
BY Invariance, PTL DEF IInv

(* Client and server never get out of step, for any number of clients with *)
(* any command lines: see InStep.                                          *)
THEOREM AlwaysInStep == Spec => []InStep
<1>1. IInv => InStep
  BY DEF IInv, ClientInv, InStep, Native
<1> QED BY <1>1, Invariance, PTL

(* A Result written by the server is never lost to a reset connection: see *)
(* NoResultLost and the comment in serve_session on draining Stop.         *)
THEOREM ResultDelivery == Spec => []NoResultLost
<1>1. IInv => NoResultLost
  BY DEF IInv, ClientInv, AnswerInv, NoResultLost, Native
<1> QED BY <1>1, Invariance, PTL

(* The server writes no Result for a run that goes on: its client has      *)
(* written Stop, or is gone.  See ResultOnlyAfterStop.                     *)
THEOREM NoEarlyResult == Spec => []ResultOnlyAfterStop
<1>1. IInv => ResultOnlyAfterStop
  BY DEF IInv, ClientInv, AnswerInv, ResultOnlyAfterStop, Native
<1> QED BY <1>1, Invariance, PTL

(* A measurement is of as many data connections as were negotiated, none   *)
(* of them opened by another andri client, whatever was left in the queues *)
(* of earlier sessions: see MeasuresItsOwnStreams.                         *)
THEOREM StreamsAreOwn == Spec => []MeasuresItsOwnStreams
<1>1. IInv => MeasuresItsOwnStreams
  <2> SUFFICES ASSUME IInv, sPc \in {"receive", "stalled", "measure", "drain", "report"}
               PROVE  /\ accepted = Need(opts[cur])
                      /\ \A i \in 1 .. accepted : conns[i] \in {cur} \cup Foreign
    BY DEF MeasuresItsOwnStreams
  <2>1. accepted \in Nat /\ Len(conns) \in Nat /\ accepted <= Len(conns)
    BY DEF IInv, TypeOK, StreamsInv, SessionPcs
  <2> QED BY <2>1 DEF IInv, StreamsInv
<1> QED BY <1>1, Invariance, PTL

=============================================================================
