---------------------------- MODULE FileTransfer ----------------------------
(***************************************************************************)
(* A file run (src/modes/file.rs): the client takes the length of a file,  *)
(* opens it only after the handshake and streams it; the server reads that *)
(* many bytes while a second task samples its counter until it has seen    *)
(* them all.  Only their interplay is modelled: partial reads and writes,  *)
(* a file that changes between `file_len` and the last read, a sampler     *)
(* that looks whenever it likes, and the sockets in between.               *)
(*                                                                         *)
(* A byte is worth what the properties need: counts.  The time series is   *)
(* kept as its sum, since no bound of its length is claimed.               *)
(***************************************************************************)
EXTENDS Naturals

CONSTANTS
    Sizes,          \* sizes the file may have
    Buf,            \* BUF, the copy buffer of both sides
    PipeCap,        \* what the socket buffers of the connection hold
    MayChange,      \* the file may be written to by others meanwhile
    MayFail,        \* the client may die, or its disk may fail
    None            \* no result yet

ASSUME FileAssumption ==
    /\ Sizes \subseteq Nat
    /\ Buf \in Nat \ {0} /\ PipeCap \in Nat \ {0}
    /\ MayChange \in BOOLEAN /\ MayFail \in BOOLEAN
    /\ None \notin Nat

VARIABLES
    disk,       \* size of the file now
    nullSource, \* --null-source: the bytes come from memory
    cPc,        \* "stat", "open", "copy", "stop", "failed"
    total,      \* neg.file_len
    pos,        \* read position in the file
    buf,        \* bytes of the buffer write_all has still to write
    sent,       \* bytes given to the socket
    pipe,       \* bytes on their way
    sPc,        \* "receive", "await", "done" (returned Ok), "error" (returned Err)
    received,   \* bytes read; the counter of the sampler
    sampling,   \* the sampler still runs
    lastBytes,  \* last_bytes of the sampler
    sampled,    \* sum of the bytes of all samples
    result      \* bytes of the TestResult

clientVars == <<nullSource, cPc, total, pos, buf, sent>>
serverVars == <<sPc, received, sampling, lastBytes, sampled, result>>
vars       == <<disk, clientVars, pipe, serverVars>>

Least(a, b) == IF a <= b THEN a ELSE b

Init ==
    /\ disk \in Sizes /\ nullSource \in BOOLEAN
    /\ cPc = "stat" /\ total = 0 /\ pos = 0 /\ buf = 0 /\ sent = 0
    /\ pipe = 0
    /\ sPc = "receive" /\ received = 0
    /\ sampling = TRUE /\ lastBytes = 0 /\ sampled = 0 /\ result = None

(* Someone else truncates or extends the file. *)
DiskChanges ==
    /\ MayChange
    /\ disk' \in Sizes
    /\ UNCHANGED <<clientVars, pipe, serverVars>>

-----------------------------------------------------------------------------
(* The client: file_len, then `drive`. *)

(* file_len, before the control connection is even opened. *)
CStat ==
    /\ cPc = "stat"
    /\ total' = disk
    /\ cPc' = "open"
    /\ UNCHANGED <<disk, nullSource, pos, buf, sent, pipe, serverVars>>

(* The data connection is made, the file opened. *)
COpen ==
    /\ cPc = "open"
    /\ cPc' = "copy"
    /\ UNCHANGED <<disk, nullSource, total, pos, buf, sent, pipe, serverVars>>

(* Fill the buffer: from memory as much as is wanted, from the disk as     *)
(* much as a read gives, which is not bounded by what is wanted.           *)
CRead ==
    /\ cPc = "copy" /\ buf = 0 /\ sent < total
    /\ IF nullSource
       THEN buf' = Least(total - sent, Buf) /\ pos' = pos
       ELSE /\ pos < disk
            /\ \E n \in 1 .. Least(Buf, disk - pos) : buf' = n /\ pos' = pos + n
    /\ UNCHANGED <<disk, nullSource, cPc, total, sent, pipe, serverVars>>

(* Part of a write_all: the socket takes what its buffers hold, even if the *)
(* server has closed its end and the reset is still to come.                *)
CWrite ==
    /\ cPc = "copy"
    /\ \E n \in 1 .. Least(buf, PipeCap - pipe) :
          pipe' = pipe + n /\ buf' = buf - n /\ sent' = sent + n
    /\ UNCHANGED <<disk, nullSource, cPc, total, pos, serverVars>>

(* All is sent, or the file ended early: the stream is closed, Stop written. *)
CFinish ==
    /\ cPc = "copy" /\ buf = 0
    /\ sent >= total \/ (~nullSource /\ pos >= disk)
    /\ cPc' = "stop"
    /\ UNCHANGED <<disk, nullSource, total, pos, buf, sent, pipe, serverVars>>

(* The write is answered with a reset, the disk fails, or the process ends. *)
CFail ==
    /\ cPc = "copy"
    /\ MayFail \/ (buf > 0 /\ sPc \in {"done", "error"})
    /\ cPc' = "failed"
    /\ UNCHANGED <<disk, nullSource, total, pos, buf, sent, pipe, serverVars>>

-----------------------------------------------------------------------------
(* The server: `serve` and `sample_until_done`. *)

(* Mutant: what is wanted is not bounded by what is missing. *)
WantWholeBuffer == Buf

Want == Least(Buf, total - received)

SRead ==
    /\ sPc = "receive" /\ received < total
    /\ \E n \in 1 .. Least(Want, pipe) : pipe' = pipe - n /\ received' = received + n
    /\ UNCHANGED <<disk, clientVars, sPc, sampling, lastBytes, sampled, result>>

(* The loop ends: all bytes are in, or the peer has closed. *)
SEnd ==
    /\ sPc = "receive" /\ cPc \notin {"stat", "open"}
    /\ received >= total \/ (pipe = 0 /\ cPc \in {"stop", "failed"})
    /\ sPc' = "await"
    /\ UNCHANGED <<disk, clientVars, pipe, received, sampling, lastBytes, sampled, result>>

(* The connection is reset by a client that died: `?` ends the session. *)
SReset ==
    /\ sPc = "receive" /\ cPc = "failed" /\ received < total
    /\ sPc' = "error"
    /\ UNCHANGED <<disk, clientVars, pipe, received, sampling, lastBytes, sampled, result>>

(* Mutant: the difference is taken the wrong way round. *)
IntervalSwapped == lastBytes - received

Interval == received - lastBytes

(* Mutant: the sampler ends one byte late. *)
SamplerGoesOnLate == received <= total

SamplerGoesOn == received < total

(* A tick of the sampler, a task of its own: it outlives an error of `serve`. *)
SSample ==
    /\ sampling /\ cPc \notin {"stat", "open"}
    /\ sampled' = sampled + Interval
    /\ lastBytes' = received
    /\ sampling' = SamplerGoesOn
    /\ UNCHANGED <<disk, clientVars, pipe, sPc, received, result>>

(* Mutant: the sampler is left to itself. *)
SamplerLeft == TRUE

SamplerJoined == ~sampling

(* The sampler is joined and the data connection dropped with the result.  *)
SResult ==
    /\ sPc = "await" /\ SamplerJoined
    /\ sPc' = "done"
    /\ result' = received
    /\ UNCHANGED <<disk, clientVars, pipe, received, sampling, lastBytes, sampled>>

Finished == sPc \in {"done", "error"} /\ cPc \in {"stop", "failed"} /\ UNCHANGED vars

Next ==
    \/ DiskChanges
    \/ CStat \/ COpen \/ CRead \/ CWrite \/ CFinish \/ CFail
    \/ SRead \/ SEnd \/ SReset \/ SSample \/ SResult
    \/ Finished

Spec == Init /\ [][Next]_vars

(* Every task runs on, every second a tick comes. *)
Fairness ==
    /\ WF_vars(CStat) /\ WF_vars(COpen) /\ WF_vars(CRead) /\ WF_vars(CWrite)
    /\ WF_vars(CFinish) /\ WF_vars(CFail /\ sPc \in {"done", "error"})
    /\ WF_vars(SRead) /\ WF_vars(SEnd) /\ WF_vars(SSample) /\ WF_vars(SResult)

FairSpec == Spec /\ Fairness

-----------------------------------------------------------------------------
(* Properties. *)

(* Types and ranges. *)
TypeOK ==
    /\ disk \in Nat /\ nullSource \in BOOLEAN /\ total \in Nat /\ pos \in Nat /\ sent \in Nat
    /\ cPc \in {"stat", "open", "copy", "stop", "failed"}
    /\ buf \in 0 .. Buf /\ pipe \in 0 .. PipeCap
    /\ sPc \in {"receive", "await", "done", "error"}
    /\ received \in Nat /\ lastBytes \in Nat /\ sampled \in Nat
    /\ sampling \in BOOLEAN
    /\ result \in Nat \cup {None}

(* No byte is made or counted twice between the buffer of the client and   *)
(* the counter of the server, and the server never takes more than the     *)
(* length it was told, whatever the file has become meanwhile.             *)
BytesConserved ==
    /\ received + pipe = sent
    /\ cPc \notin {"stat", "open"} => received <= total

(* A result is of the whole file, and its time series adds up to it: the   *)
(* sampler cannot be joined before it has recorded the last byte.          *)
ResultIsWhole ==
    result # None => result = total /\ sampled = total

(* A file run as the control session sees it. *)
SentSeen  == IF cPc \in {"stat", "open"} THEN "none"
             ELSE IF sent >= total THEN "all"
             ELSE IF cPc = "stop" THEN "short" ELSE "none"
DriveSeen == IF cPc = "stop" THEN "returned"
             ELSE IF cPc = "failed" THEN "failed" ELSE "running"
ServeSeen == IF sPc = "done" THEN "returned"
             ELSE IF sPc = "error" THEN "failed"
             ELSE IF sPc = "await" /\ received < total THEN "stalled" ELSE "running"

(* The control session, which knows of a file run only when `drive` and    *)
(* `serve` return and whether all was sent, knows enough: `serve` returns  *)
(* only after all was sent, and a transfer that ends short, whoever is to  *)
(* blame, has `serve` wait for ever rather than return.                    *)
Phase == INSTANCE FilePhase WITH sent <- SentSeen, drive <- DriveSeen, serve <- ServeSeen

ReturnsWithTheWhole == Phase!Spec

(* A file nobody touches, sent by a client that lasts, arrives whatever    *)
(* its size relative to the buffers, the empty one included: the server    *)
(* has its result, the client gets to its Stop and waits for it.           *)
StableFileArrives ==
    \A n \in Sizes :
        [](disk = n /\ cPc # "failed") => <>(result # None /\ cPc = "stop")

(* However short the transfer, the server reports it once the stream has   *)
(* ended (file.rs, serve: "peer closed early (short transfer)").           *)
ShortTransferReported == (sPc = "await") ~> (sPc = "done")

=============================================================================
