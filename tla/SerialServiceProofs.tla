------------------------ MODULE SerialServiceProofs ------------------------
(***************************************************************************)
(* ControlSession implements SerialService, for every set of clients,      *)
(* foreign ones included, and every set of command lines.  On top of the   *)
(* inductive invariant of ControlSessionProofs the argument needs to know  *)
(* that nobody holds or has read a Result the server did not write, and    *)
(* that a server that has ended has no backlog.                            *)
(***************************************************************************)
EXTENDS ControlSessionProofs

(* A Result is on its way to the client. *)
Coming(c) == \E i \in 1 .. Len(s2c[c]) : s2c[c][i] = "Result"

ServiceInv ==
    /\ \A c \in Clients : cPc[c] = "ok" \/ Coming(c) => c \in answered
    /\ sPc = "exited" => backlog = <<>>

Arrived   == {c \in Clients : sEnd[c] # "none"}
Succeeded == {c \in Clients : cPc[c] = "ok"}

(* What every step but an arrival and a success leaves alone. *)
Known ==
    /\ Arrived' = Arrived /\ Succeeded' = Succeeded
    /\ \A c \in Clients : Coming(c)' => Coming(c) \/ c \in answered'

(* A step the service does not show. *)
Hidden ==
    /\ Known
    /\ UNCHANGED <<backlog, cur, answered>>
    /\ sPc' = "exited" <=> sPc = "exited"

(* A step with which a session ends. *)
Returns ==
    /\ Known
    /\ cur \in Clients /\ cur' = NoClient /\ UNCHANGED backlog
    /\ sPc # "exited" /\ sPc' # "exited"
    /\ answered' \in {answered, answered \cup {cur}}

-----------------------------------------------------------------------------

(* A hidden step keeps the invariant, and so does the end of a session. *)
LEMMA HiddenStep ==
    ASSUME ServiceInv, Hidden
    PROVE  ServiceInv' /\ [Service!Next]_(Service!vars)
<1>1. ServiceInv'
  BY DEF ServiceInv, Hidden, Known, Succeeded
<1>2. (sPc = "exited")' = (sPc = "exited")
  BY Zenon DEF Hidden
<1> QED BY <1>1, <1>2, Zenon DEF Hidden, Known, Arrived, Succeeded, Service!vars

(* The end of a session is the end of a service. *)
LEMMA ReturnStep ==
    ASSUME ServiceInv, Returns
    PROVE  ServiceInv' /\ Service!End
<1>1. ServiceInv'
  BY DEF ServiceInv, Returns, Known, Succeeded
<1>2. (sPc = "exited")' = (sPc = "exited")
  BY Zenon DEF Returns
<1>3. cur # NoClient
  BY ClientsAssumption DEF Returns
<1> QED BY <1>1, <1>2, <1>3, Zenon DEF Returns, Known, Arrived, Succeeded, Service!End

(* What is left of a queue that is read has nothing new in it. *)
LEMMA NothingNew ==
    ASSUME TypeOK, NEW x \in Clients, Got(x)
    PROVE  \A c \in Clients : Coming(c)' => Coming(c)
<1>1. \A c \in Clients : c # x => (Coming(c)' <=> Coming(c))
  BY DEF Got, Coming
<1>2. Coming(x)' => Coming(x)
  <2> SUFFICES ASSUME NEW i \in 1 .. Len(s2c'[x]), s2c'[x][i] = "Result"
               PROVE  Coming(x)
    BY DEF Coming
  <2>1. s2c[x] \in Seq(ServerMsgs) /\ s2c[x] # <<>> /\ s2c'[x] = Tail(s2c[x])
    BY DEF TypeOK, Got
  <2>2. i + 1 \in 1 .. Len(s2c[x]) /\ s2c[x][i + 1] = s2c'[x][i]
    BY <2>1
  <2> QED BY <2>2 DEF Coming
<1> QED BY <1>1, <1>2

(* What the server writes is all that is new. *)
LEMMA WhatIsNew ==
    ASSUME TypeOK, NEW x \in Clients, cur = x, NEW ms \in Seq(ServerMsgs), Replied(ms)
    PROVE  \A c \in Clients : Coming(c)' =>
              \/ Coming(c)
              \/ c = x /\ \E i \in 1 .. Len(ms) : ms[i] = "Result"
<1>1. \A c \in Clients : c # x => (Coming(c)' <=> Coming(c))
  BY DEF Replied, Coming
<1>2. ASSUME NEW i \in 1 .. Len(s2c'[x]), s2c'[x][i] = "Result"
      PROVE  Coming(x) \/ \E j \in 1 .. Len(ms) : ms[j] = "Result"
  <2>1. s2c[x] \in Seq(ServerMsgs) /\ s2c'[x] = s2c[x] \o ms
    BY DEF TypeOK, Replied
  <2>2. \/ i \in 1 .. Len(s2c[x]) /\ s2c[x][i] = s2c'[x][i]
        \/ i - Len(s2c[x]) \in 1 .. Len(ms) /\ ms[i - Len(s2c[x])] = s2c'[x][i]
    BY <2>1
  <2> QED BY <1>2, <2>2 DEF Coming
<1>3. Coming(x)' => Coming(x) \/ \E j \in 1 .. Len(ms) : ms[j] = "Result"
  BY <1>2 DEF Coming
<1> QED BY <1>1, <1>3

(* Only a Result is a Result. *)
LEMMA OtherReplies ==
    \A ms \in {<<>>, <<"Welcome">>, <<"Refused", "Error">>, <<"Start">>, <<"Error">>} :
        \A i \in 1 .. Len(ms) : ms[i] # "Result"
OBVIOUS

-----------------------------------------------------------------------------
(* The clients. *)

(* A client's own steps are hidden, but for an arrival and a success. *)
LEMMA ClientHidden ==
    ASSUME IInv, NEW x \in Clients,
           \/ CFailFast(x) \/ CHello(x) \/ CNegotiate(x) \/ CRun(x) \/ CDataConnect(x)
           \/ CFileSend(x) \/ CStop(x) \/ CIoError(x) \/ CDriveFails(x) \/ CCrash(x)
           \/ CResult(x) /\ Head(s2c[x]) # "Result"
           \/ FSend(x) \/ FDataConnect(x)
    PROVE  Hidden
<1> USE DEF envVars, clientVars, ctrlVars, serverVars
<1>0. TypeOK
  BY DEF IInv
<1>1. UNCHANGED <<backlog, cur, answered, sPc>>
  BY DEF CFailFast, CHello, CNegotiate, CRun, CRequest, CDataConnect, DataConnect, CFileSend, CStop,
         CIoError, CDriveFails, CCrash, CResult, FSend, FDataConnect
<1>2. Succeeded' = Succeeded
  <2>1. \A c \in Clients : cPc'[c] = "ok" <=> cPc[c] = "ok"
    BY <1>0 DEF TypeOK, Goto, ClientExit, ClientFail, Terminal, CFailFast, CHello, CNegotiate,
       CRun, CRequest, CDataConnect, DataConnect, CFileSend, CStop, CIoError, CDriveFails, CCrash, CResult,
       FSend, FDataConnect
  <2> QED BY <2>1 DEF Succeeded
<1>3. Arrived' = Arrived
  <2>1. (\E m \in ClientMsgs : Wrote(x, m)) \/ UNCHANGED sEnd
    <3>1. (\E m \in ClientMsgs : ClientWrite(x, m)) \/ UNCHANGED sEnd
      BY DEF ClientMsgs, CFailFast, CHello, CNegotiate, CRun, CRequest, CDataConnect, DataConnect,
         CFileSend, CStop, CIoError, CDriveFails, CCrash, CResult, FSend, FDataConnect
    <3> QED BY <1>0, <3>1, ClientWriteEffect
  <2>2. \A c \in Clients : sEnd'[c] = "none" <=> sEnd[c] = "none"
    BY <2>1 DEF Wrote, Closed
  <2> QED BY <2>2 DEF Arrived
<1>4. \A c \in Clients : Coming(c)' => Coming(c)
  <2>1. Got(x) \/ UNCHANGED s2c
    BY <1>0, ClientReadEffect DEF CFailFast, CHello, CNegotiate, CRun, CRequest, CDataConnect, DataConnect,
       CFileSend, CStop, CIoError, CDriveFails, CCrash, CResult, FSend, FDataConnect
  <2>2. UNCHANGED s2c => \A c \in Clients : Coming(c)' => Coming(c)
    BY DEF Coming
  <2> QED BY <1>0, <2>1, <2>2, NothingNew
<1> QED BY <1>1, <1>2, <1>3, <1>4 DEF Hidden, Known

(* A client that connects arrives, for the first time. *)
LEMMA ConnectStep ==
    ASSUME IInv, ServiceInv, NEW x \in Clients, CConnect(x)
    PROVE  ServiceInv' /\ Service!Arrive(x)
<1>0. TypeOK /\ ClientInv(x)
  BY DEF IInv
<1>1. /\ sEnd[x] = "none" /\ sPc # "exited" /\ backlog' = Append(backlog, x)
      /\ UNCHANGED <<s2c, sPc, cur, answered>>
  BY <1>0 DEF CConnect, ClientInv
<1>2. Arrived' = Arrived \cup {x} /\ x \notin Arrived
  BY <1>0, <1>1 DEF CConnect, Arrived, TypeOK
<1>3. Succeeded' = Succeeded
  <2>1. \A c \in Clients : cPc'[c] = "ok" <=> cPc[c] = "ok"
    BY <1>0 DEF CConnect, Goto, TypeOK
  <2> QED BY <2>1 DEF Succeeded
<1>4. ServiceInv'
  BY <1>1, <1>3 DEF ServiceInv, Coming, Succeeded
<1>5. (sPc = "exited")' = (sPc = "exited") /\ ~(sPc = "exited")
  BY <1>1, Zenon
<1> QED BY <1>1, <1>2, <1>3, <1>4, <1>5, Zenon DEF Arrived, Succeeded, Service!Arrive

(* A client that reads a Result reads one that was written for it. *)
LEMMA ResultStep ==
    ASSUME IInv, ServiceInv, NEW x \in Clients, CResult(x), Head(s2c[x]) = "Result"
    PROVE  ServiceInv' /\ Service!Succeed(x)
<1>0. TypeOK
  BY DEF IInv
<1>1. UNCHANGED <<sEnd, backlog, cur, answered, sPc>>
  BY DEF CResult, serverVars
<1>2. x \in answered
  <2>1. s2c[x] \in Seq(ServerMsgs) /\ s2c[x] # <<>>
    BY <1>0 DEF CResult, TypeOK
  <2>2. 1 \in 1 .. Len(s2c[x]) /\ s2c[x][1] = "Result"
    BY <2>1
  <2> QED BY <2>2 DEF ServiceInv, Coming
<1>3. x \notin Succeeded /\ Succeeded' = Succeeded \cup {x}
  BY <1>0 DEF CResult, ClientExit, Goto, Succeeded, TypeOK
<1>4. \A c \in Clients : Coming(c)' => Coming(c)
  BY <1>0, ClientReadEffect, NothingNew DEF CResult
<1>5. ServiceInv'
  BY <1>1, <1>2, <1>3, <1>4 DEF ServiceInv, Succeeded
<1>6. (sPc = "exited")' = (sPc = "exited") /\ Arrived' = Arrived
  BY <1>1, Zenon DEF Arrived
<1> QED BY <1>1, <1>2, <1>3, <1>5, <1>6, Zenon DEF Arrived, Succeeded, Service!Succeed

-----------------------------------------------------------------------------
(* The server. *)

(* The head of the backlog is served next. *)
LEMMA BeginStep ==
    ASSUME IInv, ServiceInv, SAccept
    PROVE  ServiceInv' /\ Service!Begin
<1>0. TypeOK /\ cur = NoClient /\ backlog # <<>> /\ Head(backlog) \in Clients
  BY DEF IInv, TypeOK, SAccept
<1>1. /\ sPc # "exited" /\ sPc' # "exited" /\ cur' = Head(backlog) /\ backlog' = Tail(backlog)
      /\ UNCHANGED <<cPc, s2c, answered>>
  BY DEF SAccept, clientVars
<1>2. Arrived' = Arrived
  <2>1. sEnd[Head(backlog)] = "queued"
    <3>1. 1 \in 1 .. Len(backlog) /\ Head(backlog) = backlog[1]
      BY <1>0 DEF TypeOK
    <3> QED BY <3>1 DEF IInv, SlotInv
  <2>2. \A c \in Clients : sEnd'[c] = "none" <=> sEnd[c] = "none"
    BY <1>0, <2>1 DEF SAccept, TypeOK
  <2> QED BY <2>2 DEF Arrived
<1>3. ServiceInv'
  BY <1>1 DEF ServiceInv, Coming
<1>4. (sPc = "exited")' = (sPc = "exited") /\ Succeeded' = Succeeded
  BY <1>1, Zenon DEF Succeeded
<1> QED BY <1>0, <1>1, <1>2, <1>3, <1>4, Zenon DEF Arrived, Succeeded, Service!Begin

(* A step within a session is hidden, and its last one ends a service. *)
LEMMA SessionStep ==
    ASSUME IInv, NEW x \in Clients, cur = x,
           \/ SHello \/ SNegotiate \/ SRun \/ SReject \/ SIoError
           \/ SDataAccept \/ SStop \/ SFileEnd \/ SDrain \/ SReport \/ SDataFails
    PROVE  Hidden \/ Returns
<1> USE DEF envVars, clientVars, ctrlVars
<1>0. TypeOK /\ sEnd[x] = "open" /\ sPc # "exited" /\ NoClient \notin Clients
  BY ClientsAssumption DEF IInv, SlotInv, TypeOK
<1>1. UNCHANGED <<cPc, backlog>>
  BY DEF SHello, SNegotiate, SRun, SReject, SIoError, SDataAccept, SStop, SFileEnd, SDrain,
         SReport, SDataFails
<1>2. Succeeded' = Succeeded
  BY <1>1 DEF Succeeded
<1>3. \/ UNCHANGED <<sEnd, cur>> /\ sPc' # "exited"
      \/ Ended
  BY <1>0, EndSessionEffect DEF SHello, SNegotiate, SRun, SReject, SIoError, SDataAccept,
     SStop, SFileEnd, SDrain, SReport, SDataFails, DataPhase
<1>4. Arrived' = Arrived
  <2>1. \A c \in Clients : sEnd'[c] = "none" <=> sEnd[c] = "none"
    BY <1>0, <1>3 DEF Ended, Closed
  <2> QED BY <2>1 DEF Arrived
<1>5. CASE SReport /\ ResultFits(opts[x])
  <2>1. Replied(<<"Result">>) /\ Ended /\ answered' = answered \cup {x}
    BY <1>0, <1>5, ServerWriteEffect, EndSessionEffect, Replies DEF SReport
  <2>2. \A c \in Clients : Coming(c)' => Coming(c) \/ c = x
    BY <1>0, <2>1, WhatIsNew, Replies
  <2> QED BY <1>0, <1>1, <1>2, <1>4, <2>1, <2>2 DEF Returns, Known, Ended
<1>6. CASE ~(SReport /\ ResultFits(opts[x]))
  <2>1. UNCHANGED answered
    BY <1>6 DEF SHello, SNegotiate, SRun, SReject, SIoError, SDataAccept, SStop, SFileEnd,
       SDrain, SReport, SDataFails
  <2>2. \/ UNCHANGED s2c
        \/ \E ms \in {<<>>, <<"Welcome">>, <<"Refused", "Error">>, <<"Start">>, <<"Error">>} :
              ServerWrite(ms)
    BY <1>6 DEF SHello, SNegotiate, SRun, SReject, SIoError, SDataAccept, SStop, SFileEnd,
       SDrain, SReport, SDataFails
  <2>3. \A c \in Clients : Coming(c)' => Coming(c)
    <3>1. UNCHANGED s2c => \A c \in Clients : Coming(c)' => Coming(c)
      BY DEF Coming
    <3>2. ASSUME NEW ms \in {<<>>, <<"Welcome">>, <<"Refused", "Error">>, <<"Start">>, <<"Error">>},
                 ServerWrite(ms)
          PROVE  \A c \in Clients : Coming(c)' => Coming(c)
      <4>1. ms \in Seq(ServerMsgs)
        BY Replies
      <4>2. \A i \in 1 .. Len(ms) : ms[i] # "Result"
        BY OtherReplies
      <4>3. Replied(ms)
        BY <1>0, <3>2, <4>1, ServerWriteEffect
      <4> QED BY <1>0, <4>1, <4>2, <4>3, WhatIsNew
    <3> QED BY <2>2, <3>1, <3>2
  <2> QED BY <1>0, <1>1, <1>2, <1>3, <1>4, <2>1, <2>3 DEF Hidden, Returns, Known, Ended
<1> QED BY <1>5, <1>6

(* The end of the process is the end of the service, for those who wait    *)
(* and the one being served alike.                                         *)
LEMMA DownStep ==
    ASSUME IInv, ServiceInv, SExit
    PROVE  ServiceInv' /\ Service!GoDown
<1>0. TypeOK
  BY DEF IInv
<1>1. /\ sPc # "exited" /\ sPc' = "exited" /\ cur' = NoClient /\ backlog' = <<>>
      /\ UNCHANGED <<cPc, s2c, answered>>
  BY DEF SExit, clientVars
<1>2. Arrived' = Arrived
  <2>1. \A c \in Clients : sEnd'[c] = "none" <=> sEnd[c] = "none"
    BY <1>0 DEF SExit, TypeOK, ClosedEnd, Closed
  <2> QED BY <2>1 DEF Arrived
<1>3. ServiceInv'
  BY <1>1 DEF ServiceInv, Coming
<1>4. (sPc = "exited")' = TRUE /\ ~(sPc = "exited") /\ Succeeded' = Succeeded
  BY <1>1, Zenon DEF Succeeded
<1> QED BY <1>1, <1>2, <1>3, <1>4, Zenon DEF Arrived, Succeeded, Service!GoDown

-----------------------------------------------------------------------------

(* At first nobody has arrived. *)
LEMMA InitService == Init => ServiceInv /\ Service!Init
<1> SUFFICES ASSUME Init PROVE ServiceInv /\ Service!Init
  OBVIOUS
<1>1. ServiceInv
  BY DEF Init, ServiceInv, Coming
<1>2. Arrived = {} /\ Succeeded = {}
  BY DEF Init, Arrived, Succeeded
<1>3. (sPc = "exited") = FALSE
  BY DEF Init
<1> QED BY <1>1, <1>2, <1>3, Zenon DEF Init, Arrived, Succeeded, Service!Init

(* Every step of the control session is one of the service, or hidden. *)
LEMMA NextService ==
    IInv /\ ServiceInv /\ [Next]_vars => ServiceInv' /\ [Service!Next]_(Service!vars)
<1> SUFFICES ASSUME IInv, ServiceInv, [Next]_vars
             PROVE  ServiceInv' /\ [Service!Next]_(Service!vars)
  OBVIOUS
<1>1. ASSUME NEW x \in Clients, CConnect(x) PROVE ServiceInv' /\ [Service!Next]_(Service!vars)
  BY <1>1, ConnectStep, Zenon DEF Service!Next
<1>2. ASSUME NEW x \in Clients, CResult(x), Head(s2c[x]) = "Result"
      PROVE  ServiceInv' /\ [Service!Next]_(Service!vars)
  BY <1>2, ResultStep, Zenon DEF Service!Next
<1>3. ASSUME NEW x \in Clients,
             \/ CFailFast(x) \/ CHello(x) \/ CNegotiate(x) \/ CRun(x) \/ CDataConnect(x)
             \/ CFileSend(x) \/ CStop(x) \/ CIoError(x) \/ CDriveFails(x) \/ CCrash(x)
             \/ CResult(x) /\ Head(s2c[x]) # "Result"
             \/ FSend(x) \/ FDataConnect(x)
      PROVE  ServiceInv' /\ [Service!Next]_(Service!vars)
  <2>1. Hidden
    BY <1>3, ClientHidden
  <2> QED BY <2>1, HiddenStep
<1>4. ASSUME SAccept PROVE ServiceInv' /\ [Service!Next]_(Service!vars)
  BY <1>4, BeginStep, Zenon DEF Service!Next
<1>5. ASSUME \/ SHello \/ SNegotiate \/ SRun \/ SReject \/ SIoError
             \/ SDataAccept \/ SStop \/ SFileEnd \/ SDrain \/ SReport \/ SDataFails
      PROVE  ServiceInv' /\ [Service!Next]_(Service!vars)
  <2>1. sPc \in SessionPcs
    BY <1>5 DEF SHello, SNegotiate, SRun, SReject, SIoError, SDataAccept, SStop,
       SFileEnd, SDrain, SReport, SDataFails, ServerRead, SessionPcs
  <2>2. cur \in Clients
    BY <2>1 DEF IInv, TypeOK, SessionPcs
  <2>3. Hidden \/ Returns
    BY <1>5, <2>2, SessionStep
  <2> QED BY <2>3, HiddenStep, ReturnStep, Zenon DEF Service!Next
<1>6. ASSUME SExit PROVE ServiceInv' /\ [Service!Next]_(Service!vars)
  BY <1>6, DownStep, Zenon DEF Service!Next
<1>7. ASSUME UNCHANGED vars PROVE ServiceInv' /\ [Service!Next]_(Service!vars)
  <2>1. Hidden
    BY <1>7, Zenon DEF vars, envVars, clientVars, ctrlVars, serverVars, Hidden, Known, Arrived, Succeeded, Coming
  <2> QED BY <2>1, HiddenStep
<1>8. Foreign \subseteq Clients
  BY ClientsAssumption
<1> QED BY <1>1, <1>2, <1>3, <1>4, <1>5, <1>6, <1>7, <1>8, Zenon
        DEF Next, ClientStep, ServerStep, AllDone

(* Clients are served one at a time, in the order in which they connected, *)
(* each at most once, and none succeeds without an answer of the server:   *)
(* `serve` and `connect` implement SerialService, whatever other programs  *)
(* do on the control port and wherever anybody crashes.                    *)
THEOREM ImplementsService == Spec => ServesOneAtATime
<1>1. Spec => []ServiceInv
  BY InitService, NextService, Invariance, PTL DEF Spec
<1> QED BY <1>1, InitService, NextService, Invariance, PTL DEF Spec, ServesOneAtATime, Service!Spec

=============================================================================
