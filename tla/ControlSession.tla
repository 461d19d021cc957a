--------------------------- MODULE ControlSession ---------------------------
(***************************************************************************)
(* The control channel of andri: the server's accept loop and session      *)
(* (src/session.rs `serve`, `serve_session`, `reject`), the client's run   *)
(* (`connect`), and as much of the per-mode data paths as decides when a   *)
(* session moves on: data connections, end of the window, end of the file. *)
(*                                                                         *)
(* The server handles one control connection at a time; every other client *)
(* that connects sits in the listener's backlog, where the kernel already  *)
(* takes its bytes.  Neither side has a timeout anywhere.                  *)
(*                                                                         *)
(* A client's command line never changes, so a control message is modelled *)
(* by its kind: the fields of Hello and Negotiate are those of opts[c].    *)
(* The nonce is one constant of the program, echoed unchanged, and the     *)
(* seed and port of Start carry no control decision: they are left out.    *)
(***************************************************************************)
EXTENDS Naturals, Sequences, FiniteSets

CONSTANTS
    Clients,            \* client processes, each runs `connect` once
    Foreign,            \* those that run some other program on andri's port
    NoClient,           \* the server is in no session
    Opts,               \* command lines a client may be started with
    ProtocolVersion,    \* proto::PROTOCOL_VERSION of the server
    MaxFrameBytes,      \* proto::MAX_FRAME_BYTES
    ResultBytes,        \* JSON size of a Result with no samples
    SampleBytes,        \* JSON size of one Sample
    MaxUnread,          \* bound: unread messages a foreign program leaves
    MaxStray,           \* bound: data connections it opens in a session
    Faults,             \* values of `faulty`
    ServerMayExit       \* the server process may end

ASSUME ClientsAssumption == Foreign \subseteq Clients /\ NoClient \notin Clients

(* version: protocol_version of its Hello; mode "none" stands for a command *)
(* line that `connect` refuses; secs: whole seconds the run lasts.          *)
ASSUME OptsAssumption ==
    Opts \subseteq [version : Nat, mode : {"none", "tcp", "udp", "file"},
                    parallel : Nat, secs : Nat]

ASSUME BoundsAssumption ==
    /\ MaxFrameBytes \in Nat /\ ResultBytes \in Nat /\ SampleBytes \in Nat
    /\ MaxUnread \in Nat /\ MaxStray \in Nat
    /\ Faults \subseteq BOOLEAN /\ ServerMayExit \in BOOLEAN

VARIABLES
    opts,       \* [Clients -> Opts]: command line of each client
    faulty,     \* crashes, failing data paths and binds may happen
    cPc,        \* where each client is in `connect`
    failedAt,   \* history: the point of `connect` at which a client failed
    opened,     \* data connections `drive` of each client has opened
    fileSent,   \* file::drive: "none", then "all" of file_len or "short"
    c2s, s2c,   \* control messages written and not yet read, per client
    cEnd, sEnd, \* the two ends of each control connection
    backlog,    \* control connections not yet accepted, in order
    sPc,        \* where the server is in `serve` / `serve_session`
    cur,        \* the client whose session is being served
    conns,      \* who opened each connection to the data listener, in order
    accepted,   \* how many of them, from the first on, are accepted
    answered    \* history: clients the server has written a Result to

envVars    == <<opts, faulty>>
clientVars == <<cPc, failedAt, opened, fileSent>>
ctrlVars   == <<c2s, s2c, cEnd, sEnd>>
serverVars == <<backlog, sPc, cur, conns, accepted, answered>>
vars       == <<envVars, clientVars, ctrlVars, serverVars>>

ClientMsgs == {"Hello", "Negotiate", "Run", "Stop", "Junk"}
ServerMsgs == {"Welcome", "Refused", "Start", "Result", "Error"}
    \* "Refused" is a Welcome with accepted = false; "Junk" is a frame that
    \* read_msg refuses: an oversized length or a payload that is no Msg.
Terminal   == {"ok", "failed", "crashed"}
ClientPcs  == {"idle", "connected", "welcome", "start", "data", "result",
               "foreign"} \cup Terminal
SessionPcs == {"hello", "negotiate", "run", "data", "receive", "stalled",
               "measure", "drain", "report"}
ServerPcs  == SessionPcs \cup {"accept", "exited"}
Closed     == {"fin", "rst"}

Native == Clients \ Foreign

(***************************************************************************)
(* Data connections a session needs: tcp::serve accepts `parallel` of them *)
(* before it measures, file::serve one, udp::serve none.                   *)
(***************************************************************************)
Need(o) == CASE o.mode = "tcp"  -> o.parallel
             [] o.mode = "file" -> 1
             [] OTHER           -> 0

Complete(o, n) == n >= Need(o)

(* The phase of serve_session once n data connections are accepted. *)
DataPhase(o, n) == IF ~Complete(o, n) THEN "data"
                   ELSE IF o.mode = "file" THEN "receive" ELSE "measure"

(* write_msg refuses a payload above MAX_FRAME_BYTES; a Result carries one *)
(* sample per second of the run.                                           *)
ResultFits(o) == ResultBytes + SampleBytes * o.secs <= MaxFrameBytes

(***************************************************************************)
(* TCP, as the code uses it.  An end closed with unread input, or written  *)
(* to after it closed, answers with a reset; a reader whose peer has reset *)
(* may get an error even if messages are still unread.                     *)
(***************************************************************************)
Put(q, c, m)  == [q EXCEPT ![c] = Append(@, m)]
Take(q, c)    == [q EXCEPT ![c] = Tail(@)]
ClosedEnd(q)  == IF q = <<>> THEN "fin" ELSE "rst"

(* Mutant: the end of the connection is not taken for an error. *)
ReadFailsOnReset(q, end) == end = "rst"

ReadFails(q, end) == (q = <<>> /\ end \in Closed) \/ end = "rst"

Init ==
    /\ opts \in [Clients -> Opts]
    /\ faulty \in Faults
    /\ cPc = [c \in Clients |-> "idle"]
    /\ failedAt = [c \in Clients |-> "none"]
    /\ opened = [c \in Clients |-> 0]
    /\ fileSent = [c \in Clients |-> "none"]
    /\ c2s = [c \in Clients |-> <<>>]
    /\ s2c = [c \in Clients |-> <<>>]
    /\ cEnd = [c \in Clients |-> "none"]
    /\ sEnd = [c \in Clients |-> "none"]
    /\ backlog = <<>>
    /\ sPc = "accept"
    /\ cur = NoClient
    /\ conns = <<>>
    /\ accepted = 0
    /\ answered = {}

(***************************************************************************)
(* serve_session binds a data listener for itself, on a port of the        *)
(* kernel's choice, and it is dropped when tcp::serve or file::serve       *)
(* returns.  Whoever connects meanwhile is queued, and accept() takes the  *)
(* next whoever it is: the address of the peer is thrown away.  (That the  *)
(* kernel gives no port out again while an old client still knows it is    *)
(* taken for granted.)                                                     *)
(***************************************************************************)
Listening ==
    /\ sPc \in {"run", "data", "receive", "stalled", "measure"}
    /\ opts[cur].mode \in {"tcp", "file"}

(* A data connection of c is refused, or is reset while it is queued. *)
DataRefused(c) ==
    /\ cur = c /\ ~Listening
    /\ \/ opened[c] < Need(opts[c])
       \/ \E i \in (accepted + 1) .. Len(conns) : conns[i] = c

-----------------------------------------------------------------------------
(* The client: `connect`. *)

Goto(c, pc) == cPc' = [cPc EXCEPT ![c] = pc]

(* The process ends: the kernel closes its sockets. *)
ClientExit(c, pc) ==
    /\ Goto(c, pc)
    /\ cEnd' = [cEnd EXCEPT ![c] = ClosedEnd(s2c'[c])]

ClientFail(c) ==
    /\ ClientExit(c, "failed")
    /\ failedAt' = [failedAt EXCEPT ![c] = cPc[c]]

(* write_msg on the control connection. *)
ClientWrite(c, m) ==
    IF sEnd[c] \in Closed
    THEN c2s' = c2s /\ sEnd' = [sEnd EXCEPT ![c] = "rst"]
    ELSE c2s' = Put(c2s, c, m) /\ sEnd' = sEnd

(* The command line is refused, or nothing listens on the control port. *)
CFailFast(c) ==
    /\ cPc[c] = "idle"
    /\ opts[c].mode = "none" \/ sPc = "exited"
    /\ Goto(c, "failed")
    /\ failedAt' = [failedAt EXCEPT ![c] = "idle"]
    /\ UNCHANGED <<envVars, opened, fileSent, ctrlVars, serverVars>>

CConnect(c) ==
    /\ cPc[c] = "idle"
    /\ opts[c].mode # "none" /\ sPc # "exited"
    /\ Goto(c, IF c \in Foreign THEN "foreign" ELSE "connected")
    /\ cEnd' = [cEnd EXCEPT ![c] = "open"]
    /\ sEnd' = [sEnd EXCEPT ![c] = "queued"]
    /\ backlog' = Append(backlog, c)
    /\ UNCHANGED <<envVars, failedAt, opened, fileSent, c2s, s2c,
                   sPc, cur, conns, accepted, answered>>

CHello(c) ==
    /\ cPc[c] = "connected"
    /\ ClientWrite(c, "Hello")
    /\ Goto(c, "welcome")
    /\ UNCHANGED <<envVars, failedAt, opened, fileSent, s2c, cEnd, serverVars>>

(* Read the expected reply and write the next request, or give up. *)
CRequest(c, at, reply, request, pc) ==
    /\ cPc[c] = at
    /\ s2c[c] # <<>>
    /\ s2c' = Take(s2c, c)
    /\ IF Head(s2c[c]) = reply
       THEN /\ ClientWrite(c, request)
            /\ Goto(c, pc)
            /\ UNCHANGED <<failedAt, cEnd>>
       ELSE ClientFail(c) /\ UNCHANGED <<c2s, sEnd>>
    /\ UNCHANGED <<envVars, opened, fileSent, serverVars>>

CNegotiate(c) == CRequest(c, "welcome", "Welcome", "Negotiate", "start")
CRun(c)       == CRequest(c, "start", "Start", "Run", "data")

(* The next connection in the data listener's queue is one of c. *)
DataConnect(c) ==
    /\ Listening
    /\ conns' = Append(conns, c)
    /\ UNCHANGED <<envVars, cPc, failedAt, fileSent, ctrlVars,
                   backlog, sPc, cur, accepted, answered>>

(* tcp::drive / file::drive open their data connections after Run. *)
CDataConnect(c) ==
    /\ cPc[c] = "data" /\ cur = c
    /\ opened[c] < Need(opts[c])
    /\ opened' = [opened EXCEPT ![c] = @ + 1]
    /\ DataConnect(c)

(* file::drive ends with every byte written, or at an early end of file. *)
CFileSend(c) ==
    /\ cPc[c] = "data"
    /\ opts[c].mode = "file" /\ opened[c] = 1
    /\ fileSent[c] = "none"
    /\ \E f \in IF faulty THEN {"all", "short"} ELSE {"all"} :
          fileSent' = [fileSent EXCEPT ![c] = f]
    /\ UNCHANGED <<envVars, cPc, failedAt, opened, ctrlVars, serverVars>>

(* The data path has returned: the window is over, or the file is sent. *)
CStop(c) ==
    /\ cPc[c] = "data"
    /\ opened[c] = Need(opts[c])
    /\ opts[c].mode = "file" => fileSent[c] # "none"
    /\ ClientWrite(c, "Stop")
    /\ Goto(c, "result")
    /\ UNCHANGED <<envVars, failedAt, opened, fileSent, s2c, cEnd, serverVars>>

(* The server is gone, or has no data listener for c any more. *)
DriveBroken(c) == sEnd[c] \in Closed \/ DataRefused(c)

(* The data path returns an error: no more descriptors, an unreadable file, *)
(* or nobody at the other end.                                              *)
CDriveFails(c) ==
    /\ cPc[c] = "data"
    /\ faulty \/ DriveBroken(c)
    /\ s2c' = s2c
    /\ ClientFail(c)
    /\ UNCHANGED <<envVars, opened, fileSent, c2s, sEnd, serverVars>>

CResult(c) ==
    /\ cPc[c] = "result"
    /\ s2c[c] # <<>>
    /\ s2c' = Take(s2c, c)
    /\ IF Head(s2c[c]) = "Result"
       THEN ClientExit(c, "ok") /\ UNCHANGED failedAt
       ELSE ClientFail(c)
    /\ UNCHANGED <<envVars, opened, fileSent, c2s, sEnd, serverVars>>

(* read_msg or write_msg fails on the control connection. *)
CIoError(c) ==
    /\ cPc[c] \in {"connected", "welcome", "start", "result"}
    /\ ReadFails(s2c[c], sEnd[c])
    /\ s2c' = s2c
    /\ ClientFail(c)
    /\ UNCHANGED <<envVars, opened, fileSent, c2s, sEnd, serverVars>>

CCrash(c) ==
    /\ faulty
    /\ cPc[c] \notin Terminal \cup {"idle"}
    /\ s2c' = s2c
    /\ ClientExit(c, "crashed")
    /\ UNCHANGED <<envVars, failedAt, opened, fileSent, c2s, sEnd, serverVars>>

(* Some other program on the control port: messages in any order. *)
FSend(c) ==
    /\ cPc[c] = "foreign"
    /\ Len(c2s[c]) < MaxUnread
    /\ \E m \in ClientMsgs : ClientWrite(c, m)
    /\ UNCHANGED <<envVars, clientVars, s2c, cEnd, serverVars>>

(* And on the data port of whichever session is on, its own or not. *)
FDataConnect(c) ==
    /\ cPc[c] = "foreign"
    /\ Cardinality({i \in DOMAIN conns : conns[i] = c}) < MaxStray
    /\ DataConnect(c)
    /\ UNCHANGED opened

-----------------------------------------------------------------------------
(* The server: `serve` and `serve_session`. *)

(* Mutant: the session's slot is not given back. *)
EndSessionKeepsSlot ==
    /\ sPc' = "accept"
    /\ cur' = cur
    /\ conns' = <<>>
    /\ sEnd' = [sEnd EXCEPT ![cur] = ClosedEnd(c2s'[cur])]

(* Mutant: the data listener is kept from one session to the next. *)
EndSessionKeepsListener ==
    /\ sPc' = "accept"
    /\ cur' = NoClient
    /\ conns' = SubSeq(conns, accepted + 1, Len(conns))
    /\ sEnd' = [sEnd EXCEPT ![cur] = ClosedEnd(c2s'[cur])]

(* serve_session returns: its control stream is dropped, and what is left  *)
(* of its data connections.                                                *)
EndSession ==
    /\ sPc' = "accept"
    /\ cur' = NoClient
    /\ conns' = <<>>
    /\ sEnd' = [sEnd EXCEPT ![cur] = ClosedEnd(c2s'[cur])]

(* write_msg: a peer that has closed answers with a reset. *)
ServerWrite(ms) ==
    /\ s2c' = [s2c EXCEPT ![cur] = @ \o ms]
    /\ cEnd' = IF ms # <<>> /\ cEnd[cur] = "fin"
               THEN [cEnd EXCEPT ![cur] = "rst"] ELSE cEnd

(* Mutant: the connection that came last is served first. *)
SAcceptLast ==
    /\ sPc = "accept"
    /\ backlog # <<>>
    /\ cur' = backlog[Len(backlog)]
    /\ backlog' = SubSeq(backlog, 1, Len(backlog) - 1)
    /\ sEnd' = [sEnd EXCEPT ![backlog[Len(backlog)]] = "open"]
    /\ sPc' = "hello"
    /\ accepted' = 0
    /\ UNCHANGED <<envVars, clientVars, c2s, s2c, cEnd, conns, answered>>

SAccept ==
    /\ sPc = "accept"
    /\ backlog # <<>>
    /\ cur' = Head(backlog)
    /\ backlog' = Tail(backlog)
    /\ sEnd' = [sEnd EXCEPT ![Head(backlog)] = "open"]
    /\ sPc' = "hello"
    /\ accepted' = 0
    /\ UNCHANGED <<envVars, clientVars, c2s, s2c, cEnd, conns, answered>>

(* Read the message serve_session waits for at `at`. *)
ServerRead(at, m) ==
    /\ sPc = at
    /\ c2s[cur] # <<>>
    /\ Head(c2s[cur]) = m
    /\ c2s' = Take(c2s, cur)

SHello ==
    /\ ServerRead("hello", "Hello")
    /\ IF opts[cur].version = ProtocolVersion
       THEN ServerWrite(<<"Welcome">>) /\ sPc' = "negotiate"
                                       /\ UNCHANGED <<cur, conns, sEnd>>
       ELSE ServerWrite(<<"Refused", "Error">>) /\ EndSession
    /\ UNCHANGED <<envVars, clientVars, backlog, accepted, answered>>

(* Bind the data listener or socket, then say where it is. *)
SNegotiate ==
    /\ ServerRead("negotiate", "Negotiate")
    /\ \/ ServerWrite(<<"Start">>) /\ sPc' = "run" /\ UNCHANGED <<cur, conns, sEnd>>
       \/ faulty /\ ServerWrite(<<>>) /\ EndSession
    /\ UNCHANGED <<envVars, clientVars, backlog, accepted, answered>>

SRun ==
    /\ ServerRead("run", "Run")
    /\ sPc' = DataPhase(opts[cur], 0)
    /\ UNCHANGED <<envVars, clientVars, s2c, cEnd, sEnd,
                   backlog, cur, conns, accepted, answered>>

(* Any other message is rejected with Error(UnexpectedMessage); a frame *)
(* that cannot be decoded ends the session with no reply.               *)
SReject ==
    /\ \/ sPc = "hello"     /\ c2s[cur] # <<>> /\ Head(c2s[cur]) # "Hello"
       \/ sPc = "negotiate" /\ c2s[cur] # <<>> /\ Head(c2s[cur]) # "Negotiate"
       \/ sPc = "run"       /\ c2s[cur] # <<>> /\ Head(c2s[cur]) # "Run"
    /\ c2s' = Take(c2s, cur)
    /\ ServerWrite(IF Head(c2s[cur]) = "Junk" THEN <<>> ELSE <<"Error">>)
    /\ EndSession
    /\ UNCHANGED <<envVars, clientVars, backlog, accepted, answered>>

(* read_msg? or write_msg? fails because the client has gone. *)
SIoError ==
    /\ sPc \in {"hello", "negotiate", "run"}
    /\ ReadFails(c2s[cur], cEnd[cur])
    /\ c2s' = c2s
    /\ EndSession
    /\ UNCHANGED <<envVars, clientVars, s2c, cEnd, backlog, accepted, answered>>

(* tcp::serve / file::serve: accept the next data connection, whosever it *)
(* is.  Nothing else is awaited meanwhile, neither a timer nor the control *)
(* connection.                                                             *)
SDataAccept ==
    /\ sPc = "data"
    /\ accepted < Len(conns)
    /\ accepted' = accepted + 1
    /\ sPc' = DataPhase(opts[cur], accepted + 1)
    /\ UNCHANGED <<envVars, clientVars, ctrlVars, backlog, cur, conns, answered>>

(* accept, recv_from or a stream read fails: `?` ends the session with no *)
(* word to the client, whatever it has written unread.                    *)
SDataFails ==
    /\ faulty
    /\ sPc \in {"data", "receive"} \/ (sPc = "measure" /\ opts[cur].mode = "udp")
    /\ c2s' = c2s
    /\ EndSession
    /\ UNCHANGED <<envVars, clientVars, s2c, cEnd, backlog, accepted, answered>>

(* Mutant: the read may give up before anything has come. *)
ReadStopGivesUp ==
    \/ c2s[cur] # <<>> /\ c2s' = Take(c2s, cur)
    \/ c2s' = c2s

(* Mutant: the end of the connection does not end the read. *)
ReadStopBlocks == c2s[cur] # <<>> /\ c2s' = Take(c2s, cur)

(* `let _ = read_msg(ctrl)`: any message, or the end of the connection. *)
ReadStop ==
    \/ c2s[cur] # <<>> /\ c2s' = Take(c2s, cur)
    \/ ReadFails(c2s[cur], cEnd[cur]) /\ c2s' = c2s

(* tcp::serve / udp::serve: `stop` resolves, the counters are frozen. *)
SStop ==
    /\ sPc = "measure"
    /\ ReadStop
    /\ sPc' = "report"
    /\ UNCHANGED <<envVars, clientVars, s2c, cEnd, sEnd,
                   backlog, cur, conns, accepted, answered>>

(* file::serve: all file_len bytes are in, and the sampler sees them; or  *)
(* the stream ends early, and the sampler is awaited that never will.     *)
(* The bytes are those of whoever opened the one connection.              *)
SFileEnd ==
    /\ sPc = "receive"
    /\ LET o == conns[1] IN
         \/ (fileSent[o] = "all" \/ o \in Foreign) /\ sPc' = "drain"
         \/ fileSent[o] # "all" /\ cPc[o] # "data" /\ sPc' = "stalled"
    /\ UNCHANGED <<envVars, clientVars, ctrlVars, backlog, cur, conns, accepted, answered>>

(* File mode drains the client's Stop before it answers. *)
SDrain ==
    /\ sPc = "drain"
    /\ ReadStop
    /\ sPc' = "report"
    /\ UNCHANGED <<envVars, clientVars, s2c, cEnd, sEnd,
                   backlog, cur, conns, accepted, answered>>

(* Write the Result, unless its frame is too large, and end the session. *)
SReport ==
    /\ sPc = "report"
    /\ c2s' = c2s
    /\ IF ResultFits(opts[cur])
       THEN ServerWrite(<<"Result">>) /\ answered' = answered \cup {cur}
       ELSE ServerWrite(<<>>) /\ UNCHANGED answered
    /\ EndSession
    /\ UNCHANGED <<envVars, clientVars, backlog, accepted>>

(* `accept()?` fails, or the process is interrupted. *)
SExit ==
    /\ ServerMayExit
    /\ sPc # "exited"
    /\ sPc' = "exited"
    /\ cur' = NoClient
    /\ backlog' = <<>> /\ conns' = <<>>
    /\ sEnd' = [c \in Clients |->
                  CASE sEnd[c] = "queued" -> "rst"
                    [] sEnd[c] = "open"   -> ClosedEnd(c2s[c])
                    [] OTHER              -> sEnd[c]]
    /\ UNCHANGED <<envVars, clientVars, c2s, s2c, cEnd, accepted, answered>>

-----------------------------------------------------------------------------

(* Steps a running client takes by itself once started. *)
ClientStep(c) ==
    \/ CHello(c) \/ CNegotiate(c) \/ CRun(c) \/ CDataConnect(c)
    \/ CFileSend(c) \/ CStop(c) \/ CResult(c) \/ CIoError(c)

ServerStep ==
    \/ SAccept \/ SHello \/ SNegotiate \/ SRun \/ SReject \/ SIoError
    \/ SDataAccept \/ SStop \/ SFileEnd \/ SDrain \/ SReport

(* Every client is done and the server waits for the next, or has ended. *)
AllDone ==
    /\ \A c \in Clients : cPc[c] \in Terminal
    /\ sPc \in {"accept", "exited"} /\ backlog = <<>>
    /\ UNCHANGED vars

Next ==
    \/ \E c \in Clients : CFailFast(c) \/ CConnect(c) \/ ClientStep(c)
    \/ \E c \in Clients : CDriveFails(c) \/ CCrash(c)
    \/ \E c \in Foreign : FSend(c) \/ FDataConnect(c)
    \/ ServerStep \/ SDataFails
    \/ SExit
    \/ AllDone

Spec == Init /\ [][Next]_vars

(***************************************************************************)
(* The runtime polls every task that can make progress, on both machines;  *)
(* a data path whose server is gone gets an error from the kernel.  Nobody *)
(* has to start a client, to crash, or to end the server.  That a data path *)
(* returns is assumed of a client whose connections are all accepted: the  *)
(* fair specification is checked without foreign programs, which could     *)
(* take their place.                                                       *)
(***************************************************************************)
Fairness ==
    /\ WF_vars(ServerStep)
    /\ \A c \in Clients :
         WF_vars(ClientStep(c) \/ (DriveBroken(c) /\ CDriveFails(c)))

FairSpec == Spec /\ Fairness

-----------------------------------------------------------------------------
(* Properties. *)

(* Types, and the server is in a session exactly while it serves someone: *)
(* every return of serve_session, early ones included, frees the slot.    *)
TypeOK ==
    /\ opts \in [Clients -> Opts] /\ faulty \in BOOLEAN
    /\ cPc \in [Clients -> ClientPcs]
    /\ failedAt \in [Clients -> ClientPcs \cup {"none"}]
    /\ opened \in [Clients -> Nat]
    /\ fileSent \in [Clients -> {"none", "all", "short"}]
    /\ c2s \in [Clients -> Seq(ClientMsgs)]
    /\ s2c \in [Clients -> Seq(ServerMsgs)]
    /\ cEnd \in [Clients -> {"none", "open"} \cup Closed]
    /\ sEnd \in [Clients -> {"none", "queued", "open"} \cup Closed]
    /\ backlog \in Seq(Clients)
    /\ sPc \in ServerPcs
    /\ cur \in Clients \cup {NoClient}
    /\ (cur = NoClient) <=> (sPc \in {"accept", "exited"})
    /\ conns \in Seq(Clients) /\ accepted \in Nat
    /\ answered \subseteq Clients

(* A client the server has written a Result to never loses it: it does not *)
(* fail while it reads it.  This is why session.rs drains the Stop of a    *)
(* file run: closing with the Stop unread would reset the connection.      *)
NoResultLost ==
    \A c \in Native : c \in answered => failedAt[c] # "result"

(* The server never answers a run that goes on: whoever it has written a   *)
(* Result to has written its Stop, or is gone.  In file mode the bytes end *)
(* the measurement, and the drain is what keeps the answer back.           *)
ResultOnlyAfterStop ==
    \A c \in Native : c \in answered => cPc[c] \in Terminal \cup {"result"}

(* Data connections are counted, not identified (`let (s, _) = accept()`), *)
(* so any program may be in the place of one.  Still a measurement is of   *)
(* exactly as many as were negotiated, and none of them is one of another  *)
(* andri client: what an earlier session left in its queue, crashed or     *)
(* failed as it may have, is never measured in a later one.                *)
MeasuresItsOwnStreams ==
    sPc \in {"receive", "stalled", "measure", "drain", "report"} =>
        /\ accepted = Need(opts[cur])
        /\ \A i \in 1 .. accepted : conns[i] \in {cur} \cup Foreign

(***************************************************************************)
(* The conversation of a client and the server that has its connection,    *)
(* message by message: where the client is, where the server is with it,   *)
(* and what is written and not yet read in each direction.                 *)
(***************************************************************************)
DataPcs == {"data", "receive", "stalled", "measure", "drain"}

Conversation(pc, pos, up, down) ==
    \/ pc = "connected" /\ pos = "hello"     /\ up = <<>>              /\ down = <<>>
    \/ pc = "welcome"   /\ pos = "hello"     /\ up = <<"Hello">>       /\ down = <<>>
    \/ pc = "welcome"   /\ pos = "negotiate" /\ up = <<>>              /\ down = <<"Welcome">>
    \/ pc = "start"     /\ pos = "negotiate" /\ up = <<"Negotiate">>   /\ down = <<>>
    \/ pc = "start"     /\ pos = "run"       /\ up = <<>>              /\ down = <<"Start">>
    \/ pc = "data"      /\ pos = "run"       /\ up = <<"Run">>         /\ down = <<>>
    \/ pc = "data"      /\ pos \in DataPcs   /\ up = <<>>              /\ down = <<>>
    \/ pc = "result"    /\ pos = "run"       /\ up = <<"Run", "Stop">> /\ down = <<>>
    \/ pc = "result"    /\ pos \in DataPcs   /\ up = <<"Stop">>        /\ down = <<>>
    \/ pc = "result"    /\ pos = "report"    /\ up = <<>>              /\ down = <<>>

(* A connection in the backlog is one the server has read nothing from. *)
ServerPos(c) == IF sEnd[c] = "queued" THEN "hello" ELSE sPc

InStepWith(c) ==
    cPc[c] \notin Terminal /\ sEnd[c] \in {"queued", "open"} =>
        Conversation(cPc[c], ServerPos(c), c2s[c], s2c[c])

(* Client and server stay in step, whatever other clients do meanwhile: as *)
(* long as both hold the connection, their conversation is one of the      *)
(* rows above, so no message is ever read by the wrong `let Msg::... else`. *)
InStep == \A c \in Native : InStepWith(c)

(* The backlog is first come, first served, a connection is served once,   *)
(* and a client only succeeds with an answer of the server.                *)
Service == INSTANCE SerialService WITH
    waiting   <- backlog,
    serving   <- cur,
    arrived   <- {c \in Clients : sEnd[c] # "none"},
    succeeded <- {c \in Clients : cPc[c] = "ok"},
    down      <- (sPc = "exited")

ServesOneAtATime == Service!Spec

Honoured(c) == opts[c].version = ProtocolVersion /\ ResultFits(opts[c])

(* When nothing fails, every run whose parameters the server can honour    *)
(* ends in a Result.                                                       *)
RunsSucceed ==
    \A c \in Native :
        (~faulty /\ cPc[c] = "connected" /\ Honoured(c)) ~> (cPc[c] = "ok")

(* When nothing fails, every client run comes to an end, whatever its      *)
(* command line and that of the client before it.                          *)
ClientsTerminate ==
    \A c \in Native : (~faulty /\ cPc[c] # "idle") ~> (cPc[c] \in Terminal)

(* Every session ends: the server gets back to accepting the next client. *)
ServerReturns == (sPc \in SessionPcs) ~> (sPc \in {"accept", "exited"})

(* The two waits that outlive the client, and only where something has     *)
(* failed: accept() for a data connection that it will never open, and the *)
(* sampler of a transfer that was short.                                   *)
Starved ==
    /\ faulty
    /\ \/ sPc = "data" /\ cPc[cur] \in Terminal /\ Len(conns) = accepted
       \/ sPc = "stalled"

(* Whatever crashes or fails on the way, and at whatever point, a session  *)
(* ends, except in those two waits: every other await of serve_session,    *)
(* tcp::serve, udp::serve and file::serve notices that its client is gone; *)
(* and when nothing fails it ends without exception.  (A client that lives *)
(* and says nothing holds its session: no await has a timeout.)            *)
SessionsEnd ==
    (sPc \in SessionPcs) ~> (sPc \in {"accept", "exited"} \/ Starved)

(* A run that got as far as its Stop gets its Result, however long it was. *)
FinishedRunsAreAnswered ==
    \A c \in Native : failedAt[c] # "result"

=============================================================================
