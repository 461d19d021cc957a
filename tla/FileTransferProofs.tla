------------------------- MODULE FileTransferProofs -------------------------
(***************************************************************************)
(* Proofs about FileTransfer, for every file size, buffer and socket       *)
(* buffer, and for a file that changes at any moment: bytes are conserved, *)
(* and a result is always that of the whole length that was negotiated.    *)
(***************************************************************************)
EXTENDS FileTransfer, TLAPS

Started == cPc \notin {"stat", "open"}

(* Before the connection is there nothing is sent, sampled or ended. *)
BeforeStart == ~Started => /\ sent = 0 /\ received = 0 /\ lastBytes = 0
                           /\ sampling = TRUE /\ sPc = "receive" /\ result = None

(* The series so far is what the sampler has seen, and the sampler ends    *)
(* only when that is everything.                                           *)
SamplerInv == /\ sampled = lastBytes /\ lastBytes <= received
              /\ ~sampling => lastBytes = total

(* `serve` returns after the sampler, and nothing changes any more. *)
ResultInv == result # None => result = total /\ sPc = "done" /\ ~sampling

IInv == /\ TypeOK /\ BytesConserved /\ BeforeStart /\ SamplerInv /\ ResultInv

-----------------------------------------------------------------------------

(* The inductive invariant holds at first. *)
LEMMA InitIInv == Init => IInv
<1> SUFFICES ASSUME Init PROVE IInv
  OBVIOUS
<1>1. TypeOK
  BY FileAssumption DEF Init, TypeOK
<1>2. BytesConserved /\ BeforeStart /\ SamplerInv /\ ResultInv
  BY DEF Init, BytesConserved, BeforeStart, SamplerInv, ResultInv, Started
<1> QED BY <1>1, <1>2 DEF IInv

(* What the server does leaves the client alone, and the other way round. *)
LEMMA NextIInv == IInv /\ [Next]_vars => IInv'
<1> SUFFICES ASSUME IInv, [Next]_vars PROVE IInv'
  OBVIOUS
<1> USE FileAssumption
<1> USE DEF IInv, TypeOK, BytesConserved, BeforeStart, SamplerInv, ResultInv, Started,
            clientVars, serverVars
<1>1. CASE DiskChanges
  BY <1>1 DEF DiskChanges
<1>2. CASE CStat
  BY <1>2 DEF CStat
<1>3. CASE COpen
  BY <1>3 DEF COpen
<1>4. CASE CRead
  BY <1>4 DEF CRead, Least
<1>5. CASE CWrite
  BY <1>5 DEF CWrite, Least
<1>6. CASE CFinish
  BY <1>6 DEF CFinish
<1>7. CASE CFail
  BY <1>7 DEF CFail
<1>8. CASE SRead
  BY <1>8 DEF SRead, Want, Least
<1>9. CASE SEnd
  BY <1>9 DEF SEnd
<1>10. CASE SReset
  BY <1>10 DEF SReset
<1>11. CASE SSample
  <2>1. sampling' = (received < total)
    BY <1>11, Zenon DEF SSample, SamplerGoesOn
  <2>2. CASE received < total
    <3>1. sampling' = TRUE
      BY <2>1, <2>2, Zenon
    <3> QED BY <1>11, <2>2, <3>1 DEF SSample, Interval, SamplerGoesOn
  <2>3. CASE ~(received < total)
    <3>1. sampling' = FALSE
      <4>1. (received < total) = FALSE
        BY <2>3
      <4> QED BY <2>1, <4>1, Zenon
    <3>2. received = total /\ received' = received /\ total' = total /\ lastBytes' = received
      BY <1>11, <2>3 DEF SSample
    <3>3. sampled' = sampled + (received - lastBytes)
      BY <1>11 DEF SSample, Interval
    <3>4. UNCHANGED <<disk, nullSource, cPc, pos, buf, sent, pipe, sPc, result>>
      BY <1>11 DEF SSample
    <3>5. cPc \notin {"stat", "open"} /\ sampling /\ result = None
      BY <1>11, Zenon DEF SSample
    <3>6. TypeOK'
      <4>1. sampling' \in BOOLEAN
        BY <3>1, Zenon
      <4>2. sampled' \in Nat
        BY <3>3
      <4> QED BY <3>2, <3>4, <4>1, <4>2
    <3>7. BytesConserved' /\ ResultInv'
      BY <3>2, <3>4, <3>5
    <3>8. SamplerInv'
      BY <3>2, <3>3
    <3>9. BeforeStart'
      BY <3>4, <3>5
    <3> QED BY <3>6, <3>7, <3>8, <3>9 DEF IInv
  <2> QED BY <2>2, <2>3
<1>12. CASE SResult
  BY <1>12 DEF SResult, SamplerJoined
<1>13. CASE UNCHANGED vars
  BY <1>13 DEF vars
<1> QED
  BY <1>1, <1>2, <1>3, <1>4, <1>5, <1>6, <1>7, <1>8, <1>9, <1>10, <1>11, <1>12, <1>13
     DEF Next, Finished

(* The inductive invariant always holds. *)
LEMMA Invariance == Spec => []IInv
BY InitIInv, NextIInv, PTL DEF Spec

(* Every counter stays in its range: no subtraction of `serve` or of the   *)
(* sampler goes below zero.                                                *)
THEOREM TypeCorrect == Spec => []TypeOK
<1>1. IInv => TypeOK
  BY DEF IInv
<1> QED BY <1>1, Invariance, PTL

(* No byte is lost, made or counted twice, and the server never takes more *)
(* than the length it was told.                                            *)
THEOREM NoByteLost == Spec => []BytesConserved
<1>1. IInv => BytesConserved
  BY DEF IInv
<1> QED BY <1>1, Invariance, PTL

(* A result, if there is one, is of the whole file, and so is its series. *)
THEOREM ResultsAreWhole == Spec => []ResultIsWhole
<1>1. IInv => ResultIsWhole
  BY DEF IInv, ResultInv, SamplerInv, ResultIsWhole
<1> QED BY <1>1, Invariance, PTL

-----------------------------------------------------------------------------
(* FileTransfer implements FilePhase. *)

(* At first nothing is sent and both sides run. *)
LEMMA InitPhase == Init => Phase!Init
BY DEF Init, Phase!Init, SentSeen, DriveSeen, ServeSeen

(* Every step of the transfer is a step of the phase or leaves it alone.   *)
(* An end of the stream before the last byte is ServeStalls, for then      *)
(* nothing is under way (BytesConserved); a result is ServeReturns, for    *)
(* the sampler has ended and so has seen everything (SamplerInv).          *)
LEMMA NextPhase == IInv /\ [Next]_vars => [Phase!Next]_(Phase!vars)
<1> SUFFICES ASSUME IInv, [Next]_vars PROVE Phase!Next \/ UNCHANGED <<SentSeen, DriveSeen, ServeSeen>>
  BY DEF Phase!vars, SentSeen, DriveSeen, ServeSeen
<1> USE FileAssumption
<1> USE DEF IInv, TypeOK, BytesConserved, BeforeStart, SamplerInv, ResultInv, Started,
            clientVars, serverVars, SentSeen, DriveSeen, ServeSeen
<1>1. CASE DiskChanges \/ CStat \/ CRead \/ SRead \/ SSample \/ UNCHANGED vars
  <2>1. UNCHANGED SentSeen
    BY <1>1 DEF DiskChanges, CStat, CRead, SRead, SSample, vars
  <2>2. UNCHANGED DriveSeen
    BY <1>1 DEF DiskChanges, CStat, CRead, SRead, SSample, vars
  <2>3. UNCHANGED ServeSeen
    BY <1>1 DEF DiskChanges, CStat, CRead, SRead, SSample, vars
  <2> QED BY <2>1, <2>2, <2>3
<1>2. CASE COpen
  BY <1>2 DEF COpen, Phase!Next, Phase!SendAll
<1>3. CASE CWrite
  BY <1>3 DEF CWrite, Least, Phase!Next, Phase!SendAll
<1>4. CASE CFinish
  BY <1>4 DEF CFinish, Phase!Next, Phase!DriveReturns
<1>5. CASE CFail
  BY <1>5 DEF CFail, Phase!Next, Phase!DriveFails
<1>6. CASE SEnd
  BY <1>6 DEF SEnd, Phase!Next, Phase!ServeStalls
<1>7. CASE SReset
  BY <1>7 DEF SReset, Phase!Next, Phase!ServeFails
<1>8. CASE SResult
  BY <1>8 DEF SResult, SamplerJoined, Phase!Next, Phase!ServeReturns
<1> QED
  BY <1>1, <1>2, <1>3, <1>4, <1>5, <1>6, <1>7, <1>8 DEF Next, Finished

(* However the bytes go through the buffers and whatever happens to the    *)
(* file, `serve` returns only when all was sent, and never after a short   *)
(* transfer: the control session's view of a file run is the right one.    *)
THEOREM ImplementsPhase == Spec => ReturnsWithTheWhole
BY InitPhase, NextPhase, Invariance, PTL DEF Spec, ReturnsWithTheWhole, Phase!Spec

=============================================================================
