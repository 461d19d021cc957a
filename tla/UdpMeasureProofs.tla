-------------------------- MODULE UdpMeasureProofs --------------------------
(***************************************************************************)
(* Proofs about UdpMeasure, for every rate, packet size, clock offset and  *)
(* bound: the loss the receiver reports, the sender's pacing, and that     *)
(* unsynchronised clocks leave the jitter alone.                           *)
(***************************************************************************)
EXTENDS UdpMeasure, TotalsProofs, FiniteSetTheorems, TLAPS

(* What the three counters of the accumulator know of the datagrams seen. *)
SeenInv ==
    /\ IsFiniteSet(seen)
    /\ acc.received = Cardinality(seen) + dups
    /\ seen = {} => acc.minSeq = None /\ acc.maxSeq = 0 /\ acc.received = 0
    /\ seen # {} => acc.minSeq \in seen /\ acc.maxSeq \in seen
    /\ \A s \in seen : acc.minSeq <= s /\ s <= acc.maxSeq
    /\ \A s \in seen : WarmupPackets <= s /\ s < seq

(* Only datagrams that were sent are in flight. *)
NetInv == \A p \in net : p.seq < seq

(* The two accumulators saw the same transit times, apart from the offset. *)
TwinInv ==
    /\ acc.jitter = twin.jitter /\ acc.scale = twin.scale
    /\ acc.prevTransit = None <=> twin.prevTransit = None
    /\ acc.prevTransit # None => acc.prevTransit = twin.prevTransit + ClockOffset

(* The measured time starts in the past. *)
StartInv == measureStart # None => measureStart <= now

(* A result is that of the accumulator, which nothing changes any more. *)
ResultInv ==
    result # None => result.lost = Lost(acc) /\ result.received = acc.received

IInv == /\ TypeOK /\ SeenInv /\ NetInv /\ TwinInv /\ ResultInv /\ StartInv
        /\ PacingExact /\ WindowAgrees /\ JitterBounded

-----------------------------------------------------------------------------

(* A datagram has a size, and the threshold is a sequence number. *)
LEMMA Rates ==
    /\ BitsPerPacket \in Nat \ {0} /\ UnitsPerPacket \in Nat \ {0}
    /\ WarmupPackets \in Nat
<1>1. BitsPerPacket \in Nat \ {0}
  BY RatesAssumption DEF BitsPerPacket
<1>2. \A a, b \in Nat \ {0} : a * b \in Nat \ {0}
  OBVIOUS
<1>3. UnitsPerPacket \in Nat \ {0}
  BY <1>1, <1>2, RatesAssumption DEF UnitsPerPacket
<1>4. BitRate \div BitsPerPacket \in Nat
  BY <1>1, RatesAssumption
<1>5. WarmupPackets \in Nat
  BY <1>4, RatesAssumption DEF WarmupPackets
<1> QED BY <1>1, <1>3, <1>5

(* Division with remainder. *)
LEMMA DivMod ==
    ASSUME NEW a \in Nat, NEW b \in Nat \ {0}
    PROVE  /\ a \div b \in Nat /\ a % b \in Nat /\ (a % b) < b
           /\ b * (a \div b) + (a % b) = a
OBVIOUS

(* An accumulator stays one, whatever the datagram. *)
LEMMA ObserveType ==
    ASSUME NEW a \in AccType, NEW w \in Nat, NEW q \in Nat, NEW send \in Int,
           NEW recv \in Int, NEW n \in Nat
    PROVE  Observe(a, w, q, send, recv, n) \in AccType
<1>1. \A x \in Int, y \in Nat \ {0} : Abs(x) * y \in Nat
  BY DEF Abs
<1>2. a.prevTransit # None =>
         15 * a.jitter + Abs((recv - send) - a.prevTransit) * a.scale \in Nat
  BY <1>1 DEF AccType
<1> QED BY <1>2 DEF AccType, Observe, Deviation, Max2, Min2

(* The loss of an accumulator never is negative. *)
LEMMA LostType ==
    ASSUME NEW a \in AccType
    PROVE  Expected(a) \in Int /\ Lost(a) \in Nat
BY NoneAssumption DEF AccType, Expected, Lost, SaturatingSub

(* The inductive invariant holds at first. *)
LEMMA InitIInv == Init => IInv
<1> SUFFICES ASSUME Init PROVE IInv
  OBVIOUS
<1>1. New \in AccType /\ Snapshot(New) \in [bytes : Nat, lost : Nat]
  BY NoneAssumption DEF New, AccType, Snapshot, Lost, Expected, SaturatingSub
<1>2. TypeOK
  <2>1. result \in {None} \cup [bytes : Nat, secs : Nat, expected : Nat,
                               received : Nat, lost : Nat, jitter : Nat]
    BY DEF Init
  <2>2. cDone \in BOOLEAN
    BY Zenon DEF Init
  <2>3. acc \in AccType /\ twin \in AccType /\ last \in [bytes : Nat, lost : Nat]
    BY <1>1 DEF Init
  <2>4. samples \in Seq([bytes : Nat, lost : Nat])
    BY DEF Init
  <2>5. /\ now \in Nat /\ ticks \in Nat /\ carry \in Nat /\ toSend \in Nat /\ seq \in Nat
        /\ dups \in Nat /\ maxD \in Nat /\ measureStart \in Nat \cup {None}
    BY DEF Init
  <2>6. net \subseteq [seq : Nat, sent : Nat, copy : Nat] /\ seen \subseteq Nat
    BY DEF Init
  <2> QED BY <2>1, <2>2, <2>3, <2>4, <2>5, <2>6, Zenon DEF TypeOK
<1>3. SeenInv /\ NetInv /\ TwinInv /\ ResultInv /\ StartInv
  BY FS_EmptySet DEF Init, StartInv, SeenInv, NetInv, TwinInv, ResultInv, New
<1>4. PacingExact /\ WindowAgrees /\ JitterBounded
  BY Rates, RatesAssumption DEF Init, PacingExact, WindowAgrees, JitterBounded, New
<1> QED BY <1>2, <1>3, <1>4 DEF IInv

-----------------------------------------------------------------------------
(* Steps that leave the accumulators and what was seen alone. *)
LEMMA Quiet ==
    ASSUME IInv, UNCHANGED <<acc, twin, seen, dups, maxD, measureStart>>,
           result' = result, seq' >= seq, seq' \in Nat, now' >= now, now' \in Nat
    PROVE  SeenInv' /\ TwinInv' /\ ResultInv' /\ WindowAgrees' /\ StartInv' /\ JitterBounded'
<1>1. SeenInv'
  BY DEF IInv, TypeOK, SeenInv
<1>2. TwinInv' /\ ResultInv' /\ WindowAgrees' /\ JitterBounded'
  BY DEF IInv, JitterBounded, TwinInv, ResultInv, WindowAgrees
<1>3. StartInv'
  BY DEF IInv, TypeOK, StartInv
<1> QED BY <1>1, <1>2, <1>3

(* The steps of the clock and of the sender. *)
LEMMA SenderSteps ==
    ASSUME IInv, Clock \/ CTick \/ CSend \/ CEnd
    PROVE  IInv'
<1>1. /\ now' \in Nat /\ ticks' \in Nat /\ carry' \in Nat /\ toSend' \in Nat /\ seq' \in Nat
      /\ seq' >= seq /\ now' >= now
  <2>1. /\ now \in Nat /\ ticks \in Nat /\ carry \in Nat /\ toSend \in Nat /\ seq \in Nat
    BY DEF IInv, TypeOK
  <2>2. CASE CTick
    <3>1. carry + BitRate \in Nat
      BY <2>1, RatesAssumption
    <3>2. /\ (carry + BitRate) \div UnitsPerPacket \in Nat
          /\ (carry + BitRate) % UnitsPerPacket \in Nat
      BY <3>1, Rates, DivMod
    <3> QED BY <2>1, <2>2, <3>2 DEF CTick, Credit
  <2>3. CASE Clock \/ CSend \/ CEnd
    BY <2>1, <2>3 DEF Clock, CSend, CEnd, senderVars
  <2> QED BY <2>2, <2>3
<1>2. cDone' \in BOOLEAN
  BY Zenon DEF Clock, CTick, CSend, CEnd, IInv, TypeOK, senderVars, serverVars, history
<1>3. UNCHANGED <<serverVars, history>>
  BY Zenon DEF Clock, CTick, CSend, CEnd
<1>4. net' \subseteq [seq : Nat, sent : Nat, copy : Nat] /\ NetInv'
  <2>1. now \in Nat /\ seq \in Nat /\ net \subseteq [seq : Nat, sent : Nat, copy : Nat] /\ NetInv
    BY DEF IInv, TypeOK
  <2>2. CASE CSend
    BY <2>1, <2>2 DEF CSend, NetInv
  <2>3. CASE Clock \/ CTick \/ CEnd
    BY <2>1, <2>3 DEF Clock, CTick, CEnd, NetInv, senderVars
  <2> QED BY <2>2, <2>3
<1>5. TypeOK'
  BY <1>1, <1>2, <1>3, <1>4, Zenon DEF IInv, TypeOK, serverVars, history
<1>6. SeenInv' /\ TwinInv' /\ ResultInv' /\ WindowAgrees' /\ StartInv' /\ JitterBounded'
  BY <1>1, <1>3, Quiet DEF serverVars, history
<1>7. PacingExact'
  <2>1. CASE Clock \/ CEnd
    BY <2>1 DEF Clock, CEnd, IInv, PacingExact, senderVars
  <2>2. CASE CSend
    <3>1. seq' + toSend' = seq + toSend
      BY <2>2 DEF CSend, IInv, TypeOK
    <3> QED BY <2>2, <3>1 DEF CSend, IInv, PacingExact
  <2>3. CASE CTick
    <3> DEFINE c == carry + BitRate
               U == UnitsPerPacket
    <3>1. c \in Nat /\ U \in Nat \ {0} /\ seq \in Nat /\ ticks \in Nat /\ BitRate \in Nat
      BY Rates, RatesAssumption DEF IInv, TypeOK
    <3>2. toSend = 0 /\ toSend' = c \div U /\ carry' = c % U /\ ticks' = ticks + 1 /\ seq' = seq
      BY <2>3 DEF CTick, Credit
    <3>3. seq * U + carry = ticks * BitRate
      BY <3>1, <3>2 DEF IInv, PacingExact
    <3> HIDE DEF U, c
    <3>4. U * (c \div U) + (c % U) = c /\ (c % U) < U /\ c \div U \in Nat /\ c % U \in Nat
      BY <3>1, DivMod
    <3> QED
      <4> DEFINE q == c \div U
                 r == c % U
      <4>1. q \in Nat /\ r \in Nat /\ U * q + r = c
        BY <3>4
      <4> HIDE DEF q, r
      <4>2. (seq + q) * U = seq * U + q * U /\ q * U = U * q /\ (ticks + 1) * BitRate = ticks * BitRate + BitRate
        BY <4>1, <3>1
      <4>3. (seq + q) * U + r = (ticks + 1) * BitRate
        <5>1. carry \in Nat /\ c = carry + BitRate
          BY DEF IInv, TypeOK, c
        <5> QED BY <4>1, <4>2, <5>1, <3>1, <3>3
      <4> QED BY <4>3, <3>2, <3>4 DEF q, r, c, U, PacingExact
  <2> QED BY <2>1, <2>2, <2>3
<1> QED BY <1>4, <1>5, <1>6, <1>7 DEF IInv

(* The network loses and duplicates only what was sent. *)
LEMMA NetworkSteps ==
    ASSUME IInv, NEW p \in net, NLose(p) \/ NDuplicate(p)
    PROVE  IInv'
<1>1. UNCHANGED <<now, senderVars, serverVars, history>>
  BY Zenon DEF NLose, NDuplicate
<1>2. net' \subseteq [seq : Nat, sent : Nat, copy : Nat] /\ NetInv'
  <2>1. net \subseteq [seq : Nat, sent : Nat, copy : Nat] /\ NetInv /\ seq' = seq
    BY <1>1 DEF IInv, TypeOK, senderVars
  <2>2. \A c \in Nat : /\ [p EXCEPT !.copy = c] \in [seq : Nat, sent : Nat, copy : Nat]
                       /\ [p EXCEPT !.copy = c].seq = p.seq
    BY <2>1
  <2> QED BY <2>1, <2>2 DEF NLose, NDuplicate, NetInv
<1>3. TypeOK'
  BY <1>1, <1>2, Zenon DEF IInv, TypeOK, senderVars, serverVars, history
<1>4. SeenInv' /\ TwinInv' /\ ResultInv' /\ WindowAgrees' /\ StartInv' /\ JitterBounded'
  <2>1. seq' >= seq /\ seq' \in Nat /\ now' >= now /\ now' \in Nat
    BY <1>1 DEF IInv, TypeOK, senderVars
  <2> QED BY <1>1, <2>1, Quiet DEF serverVars, history
<1>5. PacingExact'
  BY <1>1 DEF IInv, PacingExact, senderVars
<1> QED BY <1>2, <1>3, <1>4, <1>5 DEF IInv

(* Sampling and Stop read the accumulator and leave it alone. *)
LEMMA ReportSteps ==
    ASSUME IInv, SSample \/ SStop
    PROVE  IInv'
<1>1. /\ UNCHANGED <<now, senderVars, net, acc, measureStart, history>>
      /\ result = None
  BY Zenon DEF SSample, SStop
<1>2. acc \in AccType /\ twin \in AccType /\ last \in [bytes : Nat, lost : Nat]
  BY DEF IInv, TypeOK
<1>3. Lost(acc) \in Nat /\ Expected(acc) \in Nat
  <2>1. acc.minSeq # None => acc.minSeq \in Nat /\ acc.maxSeq \in Nat /\ acc.minSeq <= acc.maxSeq
    BY <1>2 DEF IInv, SeenInv, AccType
  <2> QED BY <1>2, <2>1, LostType DEF Expected
<1>4. /\ samples' \in Seq([bytes : Nat, lost : Nat])
      /\ last' \in [bytes : Nat, lost : Nat]
  <2>1. CASE SSample
    <3> DEFINE new == [bytes |-> SaturatingSub(acc.bytes, last.bytes),
                       lost  |-> SaturatingSub(Lost(acc), last.lost)]
    <3>1. new \in [bytes : Nat, lost : Nat] /\ Snapshot(acc) \in [bytes : Nat, lost : Nat]
      BY <1>2, <1>3 DEF AccType, SaturatingSub, Snapshot
    <3>2. samples \in Seq([bytes : Nat, lost : Nat])
      BY DEF IInv, TypeOK
    <3> HIDE DEF new
    <3>3. Append(samples, new) \in Seq([bytes : Nat, lost : Nat])
      BY <3>1, <3>2
    <3> QED BY <2>1, <3>1, <3>3 DEF SSample, NextBase, new
  <2>2. CASE SStop
    BY <2>2 DEF SStop, IInv, TypeOK
  <2> QED BY <2>1, <2>2
<1>5. /\ result' \in {None} \cup [bytes : Nat, secs : Nat, expected : Nat,
                                  received : Nat, lost : Nat, jitter : Nat]
      /\ ResultInv'
  <2>1. CASE SSample
    BY <2>1, <1>1 DEF SSample, ResultInv
  <2>2. CASE SStop
    <3>1. measureStart # None => now - measureStart \in Nat
      BY DEF IInv, TypeOK, StartInv
    <3> QED BY <1>1, <1>2, <1>3, <2>2, <3>1 DEF SStop, ResultInv, AccType
  <2> QED BY <2>1, <2>2
<1>6. TypeOK'
  BY <1>1, <1>4, <1>5, Zenon DEF IInv, TypeOK, senderVars, history
<1>7. SeenInv' /\ NetInv' /\ TwinInv' /\ PacingExact' /\ WindowAgrees' /\ StartInv' /\ JitterBounded'
  BY <1>1 DEF IInv, SeenInv, NetInv, TwinInv, PacingExact, WindowAgrees, StartInv,
              JitterBounded, senderVars, history
<1> QED BY <1>5, <1>6, <1>7 DEF IInv

(* A datagram of the measured window, field by field. *)
LEMMA CountedEffect ==
    ASSUME IInv, NEW p \in net, SRecv(p), Counted(p)
    PROVE  /\ acc'.bytes = acc.bytes + PacketBytes
           /\ acc'.received = acc.received + 1
           /\ acc'.minSeq = IF acc.minSeq = None THEN p.seq ELSE Min2(acc.minSeq, p.seq)
           /\ acc'.maxSeq = Max2(acc.maxSeq, p.seq)
           /\ acc'.prevTransit = now + ClockOffset - p.sent
           /\ twin'.prevTransit = now - p.sent
           /\ acc.prevTransit = None => /\ acc'.jitter = acc.jitter /\ acc'.scale = acc.scale
                                        /\ twin'.jitter = twin.jitter /\ twin'.scale = twin.scale
           /\ acc.prevTransit # None =>
                LET D == Abs((now - p.sent) - twin.prevTransit)
                IN  /\ acc'.jitter = 15 * acc.jitter + D * acc.scale
                    /\ acc'.scale = 16 * acc.scale
                    /\ twin'.jitter = 15 * twin.jitter + D * twin.scale
                    /\ twin'.scale = 16 * twin.scale
                    /\ maxD' = Max2(maxD, D)
           /\ acc.prevTransit = None => maxD' = maxD
           /\ acc' \in AccType /\ twin' \in AccType
<1>1. /\ p.seq \in Nat /\ p.sent \in Nat /\ now \in Nat /\ WarmupPackets \in Nat
      /\ p.seq >= WarmupPackets /\ PacketBytes \in Nat /\ ClockOffset \in Int
      /\ acc \in AccType /\ twin \in AccType
  BY Rates, RatesAssumption DEF IInv, TypeOK, Counted
<1>2. /\ acc' = Observe(acc, WarmupPackets, p.seq, p.sent, now + ClockOffset, PacketBytes)
      /\ twin' = Observe(twin, WarmupPackets, p.seq, p.sent, now, PacketBytes)
      /\ maxD' = IF twin.prevTransit # None
                 THEN Max2(maxD, Abs((now - p.sent) - twin.prevTransit)) ELSE maxD
  BY DEF SRecv, StartsWindow, Remember, Counted
<1>3. acc' \in AccType /\ twin' \in AccType
  BY <1>1, <1>2, ObserveType
<1>4. /\ acc.prevTransit = None <=> twin.prevTransit = None
      /\ acc.prevTransit # None => /\ acc.prevTransit = twin.prevTransit + ClockOffset
                                   /\ twin.prevTransit \in Int
  BY <1>1 DEF IInv, TwinInv, AccType
<1>5. acc.prevTransit # None =>
        (now + ClockOffset - p.sent) - acc.prevTransit = (now - p.sent) - twin.prevTransit
  BY <1>1, <1>4
<1>6. ~(p.seq < WarmupPackets)
  BY <1>1
<1>7. /\ acc'.bytes = acc.bytes + PacketBytes
      /\ acc'.received = acc.received + 1
      /\ acc'.minSeq = IF acc.minSeq = None THEN p.seq ELSE Min2(acc.minSeq, p.seq)
      /\ acc'.maxSeq = Max2(acc.maxSeq, p.seq)
      /\ acc'.prevTransit = now + ClockOffset - p.sent
  BY <1>1, <1>2, <1>6 DEF Observe, Deviation, AccType
<1>8. acc.prevTransit = None => acc'.jitter = acc.jitter /\ acc'.scale = acc.scale
  BY <1>2, <1>6 DEF Observe, Deviation
<1>9. acc.prevTransit # None =>
         /\ acc'.jitter = 15 * acc.jitter
                          + Abs((now + ClockOffset - p.sent) - acc.prevTransit) * acc.scale
         /\ acc'.scale = 16 * acc.scale
  BY <1>1, <1>2, <1>4, <1>6 DEF Observe, Deviation, AccType
<1>10. /\ twin'.prevTransit = now - p.sent
       /\ twin.prevTransit = None => twin'.jitter = twin.jitter /\ twin'.scale = twin.scale
       /\ twin.prevTransit # None =>
            /\ twin'.jitter = 15 * twin.jitter
                              + Abs((now - p.sent) - twin.prevTransit) * twin.scale
            /\ twin'.scale = 16 * twin.scale
  BY <1>1, <1>2, <1>4, <1>6 DEF Observe, Deviation, AccType
<1> HIDE DEF Counted
<1> QED BY <1>2, <1>3, <1>4, <1>5, <1>7, <1>8, <1>9, <1>10

(* The set of sequence numbers seen, and the three counters that stand for it. *)
LEMMA CountedSeen ==
    ASSUME IInv, NEW p \in net, SRecv(p), Counted(p)
    PROVE  SeenInv'
<1>1. /\ p.seq \in Nat /\ p.seq < seq /\ WarmupPackets \in Nat /\ WarmupPackets <= p.seq
      /\ seq' = seq /\ seq \in Nat /\ seen \subseteq Nat /\ dups \in Nat
  BY Rates DEF IInv, TypeOK, NetInv, SRecv, StartsWindow, senderVars, Counted
<1>2. /\ seen' = seen \cup {p.seq}
      /\ dups' = IF p.seq \in seen THEN dups + 1 ELSE dups
  BY DEF SRecv, StartsWindow, Remember
<1>3. /\ acc'.received = acc.received + 1
      /\ acc'.minSeq = IF acc.minSeq = None THEN p.seq ELSE Min2(acc.minSeq, p.seq)
      /\ acc'.maxSeq = Max2(acc.maxSeq, p.seq)
  BY CountedEffect
<1>4. SeenInv /\ IsFiniteSet(seen) /\ Cardinality(seen) \in Nat
  BY FS_CardinalityType DEF IInv, SeenInv
<1>5. /\ IsFiniteSet(seen')
      /\ Cardinality(seen') = IF p.seq \in seen THEN Cardinality(seen) ELSE Cardinality(seen) + 1
  BY <1>2, <1>4, FS_AddElement
<1>6. acc'.received = Cardinality(seen') + dups'
  BY <1>1, <1>2, <1>3, <1>4, <1>5 DEF SeenInv
<1>7. /\ acc'.minSeq \in seen' /\ acc'.maxSeq \in seen'
      /\ \A s \in seen' : acc'.minSeq <= s /\ s <= acc'.maxSeq
  <2>1. CASE seen = {}
    <3>1. acc.minSeq = None /\ acc.maxSeq = 0
      BY <1>4, <2>1 DEF SeenInv
    <3> QED BY <1>1, <1>2, <1>3, <2>1, <3>1 DEF Max2
  <2>2. CASE seen # {}
    <3>1. /\ acc.minSeq \in seen /\ acc.maxSeq \in seen
          /\ \A s \in seen : acc.minSeq <= s /\ s <= acc.maxSeq
      BY <1>4, <2>2 DEF SeenInv
    <3>2. acc.minSeq \in Nat /\ acc.maxSeq \in Nat
      BY <1>1, <3>1
    <3>3. acc.minSeq # None
      BY <3>2, NoneAssumption
    <3> QED BY <1>1, <1>2, <1>3, <3>1, <3>2, <3>3 DEF Max2, Min2
  <2> QED BY <2>1, <2>2
<1>8. \A s \in seen' : WarmupPackets <= s /\ s < seq'
  BY <1>1, <1>2, <1>4 DEF SeenInv
<1> QED BY <1>2, <1>5, <1>6, <1>7, <1>8 DEF SeenInv

(* The accumulator and its twin move together, and the jitter stays between *)
(* zero and the largest change of transit time.                             *)
LEMMA CountedJitter ==
    ASSUME IInv, NEW p \in net, SRecv(p), Counted(p)
    PROVE  TwinInv' /\ JitterBounded' /\ maxD' \in Nat
<1>1. /\ p.sent \in Nat /\ now \in Nat /\ ClockOffset \in Int /\ maxD \in Nat
      /\ acc.jitter \in Nat /\ acc.scale \in Nat /\ TwinInv /\ JitterBounded
      /\ twin.prevTransit \in Int \cup {None}
  BY RatesAssumption DEF IInv, TypeOK, AccType
<1>2. now + ClockOffset - p.sent \in Int /\ now - p.sent \in Int
  BY <1>1
<1>3. acc'.prevTransit # None /\ twin'.prevTransit # None
      /\ acc'.prevTransit = twin'.prevTransit + ClockOffset
  BY <1>1, <1>2, CountedEffect, NoneAssumption
<1>4. CASE acc.prevTransit = None
  <2>1. /\ acc'.jitter = acc.jitter /\ acc'.scale = acc.scale
        /\ twin'.jitter = twin.jitter /\ twin'.scale = twin.scale /\ maxD' = maxD
    BY <1>4, CountedEffect
  <2> QED BY <1>1, <1>3, <2>1 DEF TwinInv, JitterBounded
<1>5. CASE acc.prevTransit # None
  <2> DEFINE D == Abs((now - p.sent) - twin.prevTransit)
             J == acc.jitter
             S == acc.scale
             M == Max2(maxD, D)
  <2>1. /\ acc'.jitter = 15 * J + D * S /\ acc'.scale = 16 * S /\ maxD' = M
        /\ twin'.jitter = 15 * twin.jitter + D * twin.scale /\ twin'.scale = 16 * twin.scale
    BY <1>5, CountedEffect
  <2>2. twin.prevTransit \in Int
    BY <1>1, <1>5 DEF TwinInv
  <2>3. D \in Nat
    BY <1>2, <2>2 DEF Abs
  <2>4. M \in Nat /\ maxD <= M /\ D <= M
    BY <1>1, <2>3 DEF Max2
  <2>5. J \in Nat /\ S \in Nat /\ J <= maxD * S
    BY <1>1 DEF JitterBounded
  <2>6. acc'.jitter = twin'.jitter /\ acc'.scale = twin'.scale
    BY <1>1, <2>1 DEF TwinInv
  <2> HIDE DEF D, J, S, M
  <2>7. maxD * S <= M * S /\ D * S <= M * S
    BY <1>1, <2>3, <2>4, <2>5
  <2>8. M * S \in Nat /\ D * S \in Nat /\ maxD * S \in Nat /\ M * (16 * S) = 16 * (M * S)
    BY <1>1, <2>3, <2>4, <2>5
  <2>9. 0 <= 15 * J + D * S /\ 15 * J + D * S <= M * (16 * S)
    BY <2>5, <2>7, <2>8
  <2>10. 0 <= acc'.jitter /\ acc'.jitter <= maxD' * acc'.scale
    BY <2>1, <2>9
  <2> QED BY <1>3, <2>1, <2>4, <2>6, <2>10 DEF TwinInv, JitterBounded
<1>6. maxD' \in Nat
  <2>1. CASE acc.prevTransit = None
    BY <1>1, <2>1, CountedEffect
  <2>2. CASE acc.prevTransit # None
    <3>1. maxD' = Max2(maxD, Abs((now - p.sent) - twin.prevTransit)) /\ twin.prevTransit \in Int
      BY <1>1, <2>2, CountedEffect DEF TwinInv
    <3> QED BY <1>1, <1>2, <3>1 DEF Max2, Abs
  <2> QED BY <2>1, <2>2
<1> QED BY <1>4, <1>5, <1>6

(* A datagram is received. *)
LEMMA ReceiveStep ==
    ASSUME IInv, NEW p \in net, SRecv(p)
    PROVE  IInv'
<1>1. /\ UNCHANGED <<now, senderVars, samples, last, result>> /\ result = None
      /\ net' = net \ {p} /\ now \in Nat /\ seq \in Nat /\ seq' = seq /\ now' = now
      /\ p.seq \in Nat /\ p.sent \in Nat /\ WarmupPackets \in Nat
  BY Rates DEF SRecv, StartsWindow, IInv, TypeOK, senderVars
<1>2. net' \subseteq [seq : Nat, sent : Nat, copy : Nat] /\ NetInv' /\ PacingExact' /\ ResultInv'
  BY <1>1 DEF IInv, TypeOK, NetInv, PacingExact, ResultInv, senderVars
<1>3. CASE ~Counted(p)
  <2>1. UNCHANGED <<acc, twin, seen, dups, maxD, measureStart>>
    BY <1>1, <1>3 DEF SRecv, Remember, Counted, Observe, StartsWindow
  <2>2. SeenInv' /\ TwinInv' /\ ResultInv' /\ WindowAgrees' /\ StartInv' /\ JitterBounded'
    BY <1>1, <2>1, Quiet
  <2>3. TypeOK'
    BY <1>1, <1>2, <2>1, Zenon DEF IInv, TypeOK, senderVars
  <2> QED BY <1>2, <2>2, <2>3 DEF IInv
<1>4. CASE Counted(p)
  <2>1. SeenInv' /\ TwinInv' /\ JitterBounded' /\ maxD' \in Nat
    BY <1>4, CountedSeen, CountedJitter
  <2>2. acc' \in AccType /\ twin' \in AccType
    BY <1>4, CountedEffect
  <2>3. /\ measureStart' = IF measureStart = None THEN now ELSE measureStart
        /\ seen' = seen \cup {p.seq} /\ dups' = IF p.seq \in seen THEN dups + 1 ELSE dups
    BY <1>4 DEF SRecv, StartsWindow, Remember, Counted
  <2>4. /\ measureStart' \in Nat \cup {None} /\ measureStart' # None /\ StartInv'
        /\ seen' \subseteq Nat /\ dups' \in Nat
    <3>1. /\ measureStart \in Nat \cup {None} /\ seen \subseteq Nat /\ dups \in Nat /\ StartInv
      BY DEF IInv, TypeOK
    <3>2. now # None
      BY <1>1, NoneAssumption
    <3>3. measureStart' \in Nat \cup {None} /\ measureStart' # None
      BY <1>1, <2>3, <3>1, <3>2
    <3>4. StartInv'
      BY <1>1, <2>3, <3>1, <3>3 DEF StartInv
    <3>5. seen' \subseteq Nat
      BY <1>1, <2>3, <3>1, Zenon
    <3>6. dups' \in Nat
      BY <2>3, <3>1
    <3> QED BY <3>3, <3>4, <3>5, <3>6
  <2>5. TypeOK'
    BY <1>1, <1>2, <2>1, <2>2, <2>4, Zenon DEF IInv, TypeOK, senderVars
  <2>6. WindowAgrees'
    <3>1. /\ acc.bytes = acc.received * PacketBytes /\ acc.received \in Nat
          /\ PacketBytes \in Nat
      BY RatesAssumption DEF IInv, TypeOK, AccType, WindowAgrees
    <3>2. acc'.bytes = acc.bytes + PacketBytes /\ acc'.received = acc.received + 1
      BY <1>4, CountedEffect
    <3>3. (acc.received + 1) * PacketBytes = acc.received * PacketBytes + PacketBytes
      BY <3>1
    <3>4. acc'.minSeq >= WarmupPackets
      <4>1. seen' # {}
        BY <2>3
      <4>2. acc'.minSeq \in seen' /\ (\A s \in seen' : WarmupPackets <= s) /\ seen' \subseteq Nat
        BY <2>1, <2>4, <4>1 DEF SeenInv
      <4>3. acc'.minSeq \in Nat /\ WarmupPackets <= acc'.minSeq
        BY <4>2
      <4> QED BY <1>1, <4>3
    <3> QED BY <2>4, <3>1, <3>2, <3>3, <3>4 DEF WindowAgrees
  <2> QED BY <1>2, <2>1, <2>4, <2>5, <2>6 DEF IInv
<1> QED BY <1>3, <1>4

-----------------------------------------------------------------------------

(* Every step, and a stutter, preserves the inductive invariant. *)
LEMMA NextIInv == IInv /\ [Next]_vars => IInv'
<1> SUFFICES ASSUME IInv, [Next]_vars PROVE IInv'
  OBVIOUS
<1>1. CASE Clock \/ CTick \/ CSend \/ CEnd
  BY <1>1, SenderSteps
<1>2. CASE \E p \in net : NLose(p) \/ NDuplicate(p) \/ SRecv(p)
  BY <1>2, NetworkSteps, ReceiveStep
<1>3. CASE SSample \/ SStop
  BY <1>3, ReportSteps
<1>4. CASE Finished \/ UNCHANGED vars
  <2>1. UNCHANGED <<now, net, senderVars, serverVars, history>>
    BY <1>4 DEF Finished, vars
  <2>2. SeenInv' /\ NetInv' /\ TwinInv' /\ ResultInv' /\ StartInv'
    BY <2>1 DEF IInv, SeenInv, NetInv, TwinInv, ResultInv, StartInv,
                senderVars, serverVars, history
  <2>3. TypeOK' /\ PacingExact' /\ WindowAgrees' /\ JitterBounded'
    BY <2>1, Zenon DEF IInv, TypeOK, PacingExact, WindowAgrees, JitterBounded,
                senderVars, serverVars, history
  <2> QED BY <2>2, <2>3 DEF IInv
<1> QED BY <1>1, <1>2, <1>3, <1>4 DEF Next

(* The inductive invariant always holds. *)
LEMMA Invariance == Spec => []IInv
BY InitIInv, NextIInv, PTL DEF Spec

(* `observe` counts a duplicate like any other datagram, so that each hides *)
(* a gap.                                                                   *)
LossWithDuplicates ==
    /\ acc.received = Cardinality(seen) + dups
    /\ Lost(acc) = SaturatingSub(Cardinality(Gaps), dups)
    /\ Cardinality(Gaps) \in Nat

(* The counters and the set of gaps, in one state. *)
LEMMA CountersAndGaps == IInv => LossWithDuplicates
<1> SUFFICES ASSUME IInv PROVE LossWithDuplicates
  OBVIOUS
<1>1. /\ IsFiniteSet(seen) /\ Cardinality(seen) \in Nat /\ dups \in Nat
      /\ acc.received = Cardinality(seen) + dups
  BY FS_CardinalityType DEF IInv, TypeOK, SeenInv
<1>2. CASE seen = {}
  <2>1. acc.minSeq = None
    BY <1>2 DEF IInv, SeenInv
  <2> QED BY <1>1, <1>2, <2>1, FS_EmptySet DEF LossWithDuplicates, Lost, Expected, SaturatingSub, Gaps
<1>3. CASE seen # {}
  <2> DEFINE lo == acc.minSeq
             hi == acc.maxSeq
  <2>1. /\ lo \in seen /\ hi \in seen /\ seen \subseteq Nat
        /\ \A s \in seen : lo <= s /\ s <= hi
    BY <1>3 DEF IInv, SeenInv, TypeOK
  <2>2. lo \in Nat /\ hi \in Nat /\ lo <= hi
    BY <2>1
  <2>3. lo # None
    BY <2>2, NoneAssumption
  <2> HIDE DEF lo, hi
  <2>4. (lo .. hi) \cap seen = seen
    <3>1. \A s \in seen : s \in Nat /\ lo <= s /\ s <= hi
      BY <2>1, Zenon
    <3>2. \A s \in seen : s \in lo .. hi
      BY <2>2, <3>1
    <3> QED BY <3>2, Zenon
  <2>5. IsFiniteSet(lo .. hi) /\ Cardinality(lo .. hi) = hi - lo + 1
    BY <2>2, FS_Interval
  <2>6. Cardinality((lo .. hi) \ seen) = (hi - lo + 1) - Cardinality(seen)
    <3>1. Cardinality((lo .. hi) \ seen) = Cardinality(lo .. hi) - Cardinality((lo .. hi) \cap seen)
      BY <2>5, FS_Difference, Zenon
    <3> QED BY <2>4, <2>5, <3>1
  <2>7. Gaps = (lo .. hi) \ seen /\ Expected(acc) = hi - lo + 1
    BY <1>3, <2>3 DEF Gaps, Expected, lo, hi
  <2>8. Cardinality((lo .. hi) \ seen) \in Nat
    <3>1. IsFiniteSet((lo .. hi) \ seen)
      BY <2>5, FS_Difference, Zenon
    <3> QED BY <3>1, FS_CardinalityType
  <2> QED BY <1>1, <2>2, <2>6, <2>7, <2>8 DEF LossWithDuplicates, Lost, SaturatingSub
<1> QED BY <1>2, <1>3

(* Every gap is a datagram that was sent in the window and not received. *)
LEMMA GapsWereSent == IInv => NoFalseLoss
<1> SUFFICES ASSUME IInv PROVE NoFalseLoss
  OBVIOUS
<1> DEFINE missing == {s \in WarmupPackets .. (seq - 1) : s \notin seen}
<1>1. WarmupPackets \in Nat /\ seq \in Nat /\ dups \in Nat
  BY Rates DEF IInv, TypeOK
<1>2. IsFiniteSet(missing)
  <2>1. IsFiniteSet(WarmupPackets .. (seq - 1))
    BY <1>1, FS_Interval
  <2> QED BY <2>1, FS_Subset
<1>3. Gaps \in SUBSET missing
  <2>1. CASE seen = {}
    BY <2>1 DEF Gaps
  <2>2. CASE seen # {}
    <3>1. /\ acc.minSeq \in Nat /\ acc.maxSeq \in Nat
          /\ WarmupPackets <= acc.minSeq /\ acc.maxSeq < seq
      <4>1. acc.minSeq \in seen /\ acc.maxSeq \in seen /\ seen \subseteq Nat
            /\ \A s \in seen : WarmupPackets <= s /\ s < seq
        BY <2>2 DEF IInv, SeenInv, TypeOK
      <4> QED BY <4>1
    <3> QED BY <1>1, <2>2, <3>1 DEF Gaps
  <2> QED BY <2>1, <2>2
<1>4. IsFiniteSet(Gaps) /\ Cardinality(Gaps) <= Cardinality(missing)
  BY <1>2, <1>3, FS_Subset
<1>5. Lost(acc) = SaturatingSub(Cardinality(Gaps), dups)
  BY CountersAndGaps DEF LossWithDuplicates
<1>6. Cardinality(Gaps) \in Nat /\ Cardinality(missing) \in Nat
  BY <1>2, <1>4, FS_CardinalityType
<1>7. Lost(acc) <= Cardinality(missing)
  BY <1>1, <1>4, <1>5, <1>6 DEF SaturatingSub
<1> QED BY <1>7 DEF NoFalseLoss, IInv, ResultInv

-----------------------------------------------------------------------------
(* The warm-up of the two sides. *)

(* What a product of naturals tells of its factors. *)
LEMMA Products ==
    /\ \A p \in Nat \ {0}, a, b \in Int : p * a < p * b => a < b
    /\ \A p, a, b \in Int : a <= b /\ p >= 0 => p * a <= p * b
<1>1. \A p, c \in Int : p >= 0 /\ c >= 0 => p * c >= 0
  OBVIOUS
<1>2. ASSUME NEW p \in Int, NEW a \in Int, NEW b \in Int, a <= b, p >= 0
      PROVE  p * a <= p * b
  <2>1. p * (b - a) >= 0 /\ p * (b - a) = p * b - p * a
    BY <1>1, <1>2
  <2> QED BY <2>1
<1>3. ASSUME NEW p \in Nat \ {0}, NEW a \in Int, NEW b \in Int, p * a < p * b
      PROVE  a < b
  <2>1. b <= a => p * b <= p * a
    BY <1>2
  <2> QED BY <1>3, <2>1
<1> QED BY <1>2, <1>3

(* The datagrams a sender of whole ticks is past when its warm-up is over, *)
(* against the threshold the server works out for itself.                  *)
LEMMA WarmupThreshold ==
    ASSUME IInv, ticks = WarmupSecs * TicksPerSec, toSend = 0
    PROVE  WarmupPackets <= seq /\ seq < WarmupPackets + Max2(1, WarmupSecs)
<1> DEFINE B == BitsPerPacket
           T == TicksPerSec
           W == WarmupSecs
           q == BitRate \div B
           r == BitRate % B
           d == seq - q * W
           P == B * T
<1>1. /\ B \in Nat \ {0} /\ T \in Nat \ {0} /\ W \in Nat /\ BitRate \in Nat
      /\ seq \in Nat /\ carry \in Nat
  BY Rates, RatesAssumption DEF IInv, TypeOK
<1>2. q \in Nat /\ r \in Nat /\ r < B /\ B * q + r = BitRate
  BY <1>1, DivMod
<1>3. seq * P + carry = (W * T) * BitRate /\ carry < P
  BY <1>1 DEF IInv, PacingExact, UnitsPerPacket
<1>4. WarmupPackets = q * W
  BY DEF WarmupPackets
<1> HIDE DEF B, T, W, q, r
<1>5. P \in Nat \ {0} /\ q * W \in Nat /\ d \in Int
  <2>1. \A a, b \in Nat \ {0} : a * b \in Nat \ {0}
    OBVIOUS
  <2>2. \A a, b \in Nat : a * b \in Nat
    OBVIOUS
  <2> QED BY <1>1, <1>2, <2>1, <2>2
<1>6. P * d = (T * W) * r - carry
  <2>1. (W * T) * (B * q + r) = (B * T) * (q * W) + (T * W) * r
    BY <1>1, <1>2
  <2>2. seq * P = P * seq /\ P * d = P * seq - P * (q * W)
    BY <1>1, <1>5
  <2>3. /\ (T * W) * r \in Int /\ P * (q * W) \in Int /\ P * seq \in Int
    BY <1>1, <1>2, <1>5
  <2>4. P * seq + carry = P * (q * W) + (T * W) * r
    BY <1>2, <1>3, <2>1, <2>2
  <2> HIDE DEF d, P
  <2> QED BY <1>1, <2>2, <2>3, <2>4
<1>7. (T * W) * r \in Nat /\ T * W \in Nat
  <2>1. \A a, b \in Nat : a * b \in Nat
    OBVIOUS
  <2> QED BY <1>1, <1>2, <2>1
<1>8. WarmupPackets <= seq
  <2>1. P * (0 - 1) < P * d
    <3> HIDE DEF P, d
    <3> QED BY <1>1, <1>3, <1>5, <1>6, <1>7
  <2>2. 0 - 1 < d
    <3> HIDE DEF P, d
    <3> QED BY <1>5, <2>1, Products
  <2> QED BY <1>1, <1>4, <1>5, <2>2
<1>9. CASE W = 0
  <2>1. (T * W) * r = 0
    BY <1>1, <1>2, <1>9
  <2>2. P * d < P * 1
    <3> HIDE DEF P, d
    <3> QED BY <1>1, <1>5, <1>6, <2>1
  <2>3. d < 1
    <3> HIDE DEF P, d
    <3> QED BY <1>5, <2>2, Products
  <2>4. Max2(1, WarmupSecs) = 1
    BY <1>9 DEF Max2, W
  <2> QED BY <1>1, <1>4, <1>5, <1>8, <2>3, <2>4
<1>10. CASE W # 0
  <2>1. (T * W) * r < P * W
    <3>1. T * W \in Nat \ {0}
      <4>1. \A a, b \in Nat \ {0} : a * b \in Nat \ {0}
        OBVIOUS
      <4> QED BY <1>1, <1>10, <4>1
    <3>2. (T * W) * (r + 1) <= (T * W) * B
      BY <1>1, <1>2, <3>1, Products
    <3>3. (T * W) * (r + 1) = (T * W) * r + T * W /\ (T * W) * B = P * W
      BY <1>1, <1>2
    <3>4. P * W \in Int
      BY <1>1, <1>5
    <3> HIDE DEF P
    <3> QED BY <1>7, <3>1, <3>2, <3>3, <3>4
  <2>2. P * d < P * W
    <3>1. P * W \in Int
      BY <1>1, <1>5
    <3> HIDE DEF P, d
    <3> QED BY <1>1, <1>6, <1>7, <2>1, <3>1
  <2>3. d < W
    <3> HIDE DEF P, d
    <3> QED BY <1>1, <1>5, <2>2, Products
  <2>4. Max2(1, WarmupSecs) = WarmupSecs
    BY <1>1, <1>10 DEF Max2, W
  <2> QED BY <1>1, <1>4, <1>5, <1>8, <2>3, <2>4 DEF W
<1> QED BY <1>9, <1>10

-----------------------------------------------------------------------------
(* The time series. *)

(* What the samples add up to, and that the bytes counted only grow. *)
SeriesInv ==
    /\ Total(BytesOf(samples)) = last.bytes /\ last.bytes <= acc.bytes
    /\ Total(LossesOf(samples)) >= last.lost
    /\ result # None => result.bytes = acc.bytes

(* A field of the samples is a sequence, and a sample more is one more of  *)
(* its elements.                                                           *)
LEMMA Fields ==
    ASSUME NEW s \in Seq([bytes : Nat, lost : Nat])
    PROVE  /\ BytesOf(s) \in Seq(Nat) /\ LossesOf(s) \in Seq(Nat)
           /\ \A x \in [bytes : Nat, lost : Nat] :
                 /\ BytesOf(Append(s, x)) = Append(BytesOf(s), x.bytes)
                 /\ LossesOf(Append(s, x)) = Append(LossesOf(s), x.lost)
<1> DEFINE R == [bytes : Nat, lost : Nat]
<1>1. Len(s) \in Nat /\ DOMAIN s = 1 .. Len(s) /\ \A i \in 1 .. Len(s) : s[i] \in R
  <2> HIDE DEF R
  <2>1. \A S : \A z \in Seq(S) : Len(z) \in Nat /\ DOMAIN z = 1 .. Len(z) /\ \A i \in 1 .. Len(z) : z[i] \in S
    OBVIOUS
  <2>2. s \in Seq(R)
    BY DEF R
  <2> QED BY <2>1, <2>2
<1>2. /\ BytesOf(s) \in Seq(Nat) /\ Len(BytesOf(s)) = Len(s)
      /\ \A i \in 1 .. Len(s) : BytesOf(s)[i] = s[i].bytes
  <2>1. BytesOf(s) = [i \in 1 .. Len(s) |-> s[i].bytes]
    BY <1>1 DEF BytesOf
  <2>2. BytesOf(s) \in [1 .. Len(s) -> Nat]
    BY <1>1, <2>1
  <2> QED BY <1>1, <2>1, <2>2
<1>3. /\ LossesOf(s) \in Seq(Nat) /\ Len(LossesOf(s)) = Len(s)
      /\ \A i \in 1 .. Len(s) : LossesOf(s)[i] = s[i].lost
  <2>1. LossesOf(s) = [i \in 1 .. Len(s) |-> s[i].lost]
    BY <1>1 DEF LossesOf
  <2>2. LossesOf(s) \in [1 .. Len(s) -> Nat]
    BY <1>1, <2>1
  <2> QED BY <1>1, <2>1, <2>2
<1>4. ASSUME NEW x \in [bytes : Nat, lost : Nat]
      PROVE  /\ BytesOf(Append(s, x)) = Append(BytesOf(s), x.bytes)
             /\ LossesOf(Append(s, x)) = Append(LossesOf(s), x.lost)
  <2> DEFINE t == Append(s, x)
  <2>1. /\ DOMAIN t = 1 .. Len(s) + 1 /\ t[Len(s) + 1] = x
        /\ \A i \in 1 .. Len(s) : t[i] = s[i]
    BY <1>1
  <2> HIDE DEF t
  <2>2. BytesOf(t) = [i \in 1 .. Len(s) + 1 |-> t[i].bytes]
        /\ LossesOf(t) = [i \in 1 .. Len(s) + 1 |-> t[i].lost]
    BY <2>1 DEF BytesOf, LossesOf
  <2>3. BytesOf(t) = Append(BytesOf(s), x.bytes)
    BY <1>1, <1>2, <2>1, <2>2
  <2>4. LossesOf(t) = Append(LossesOf(s), x.lost)
    BY <1>1, <1>3, <2>1, <2>2
  <2> QED BY <2>3, <2>4 DEF t
<1> QED BY <1>2, <1>3, <1>4

(* The series has nothing at first. *)
LEMMA InitSeries == Init => SeriesInv
<1> SUFFICES ASSUME Init PROVE SeriesInv
  OBVIOUS
<1>1. BytesOf(samples) = <<>> /\ LossesOf(samples) = <<>>
  BY DEF Init, BytesOf, LossesOf
<1>2. last.bytes = 0 /\ last.lost = 0 /\ acc.bytes = 0
  BY DEF Init, New, Snapshot, Lost, Expected, SaturatingSub
<1> QED BY <1>1, <1>2, TotalEmpty DEF Init, SeriesInv

(* Every step, and a stutter, keeps what the series adds up to. *)
LEMMA NextSeries == ASSUME IInv, IInv', SeriesInv, [Next]_vars PROVE SeriesInv'
<1>0. /\ acc \in AccType /\ acc.bytes \in Nat /\ last \in [bytes : Nat, lost : Nat]
      /\ last.bytes \in Nat /\ last.lost \in Nat /\ samples \in Seq([bytes : Nat, lost : Nat])
      /\ Lost(acc) \in Nat
  BY LostType DEF IInv, TypeOK, AccType
<1>1. CASE UNCHANGED <<acc, samples, last, result>>
  BY <1>1 DEF SeriesInv
<1>2. CASE Clock \/ CTick \/ CSend \/ CEnd \/ (\E p \in net : NLose(p) \/ NDuplicate(p)) \/ Finished
           \/ UNCHANGED vars
  BY <1>1, <1>2 DEF Clock, CTick, CSend, CEnd, NLose, NDuplicate, Finished, vars, serverVars
<1>3. ASSUME NEW p \in net, SRecv(p) PROVE SeriesInv'
  <2>1. UNCHANGED <<samples, last, result>> /\ result = None
    BY <1>3 DEF SRecv
  <2>2. acc.bytes <= acc'.bytes /\ acc'.bytes \in Nat
    <3>1. CASE Counted(p)
      BY <1>0, <1>3, <3>1, CountedEffect, RatesAssumption
    <3>2. CASE ~Counted(p)
      <4>1. p.seq \in Nat /\ WarmupPackets \in Nat
        BY Rates DEF IInv, TypeOK
      <4>2. p.seq < WarmupPackets
        BY <3>2, <4>1 DEF Counted
      <4>3. acc' = acc
        BY <1>3, <4>2 DEF SRecv, Observe
      <4> QED BY <1>0, <4>3
    <3> QED BY <3>1, <3>2
  <2> QED BY <1>0, <2>1, <2>2 DEF SeriesInv
<1>4. CASE SSample
  <2> DEFINE x == [bytes |-> SaturatingSub(acc.bytes, last.bytes),
                   lost  |-> SaturatingSub(Lost(acc), last.lost)]
  <2>1. /\ samples' = Append(samples, x) /\ last' = [bytes |-> acc.bytes, lost |-> Lost(acc)]
        /\ acc' = acc /\ result' = result /\ result = None
    BY <1>4 DEF SSample, NextBase, Snapshot
  <2>2. /\ x \in [bytes : Nat, lost : Nat] /\ x.bytes \in Nat /\ x.lost \in Nat
        /\ last.bytes + x.bytes = acc.bytes /\ last.lost + x.lost >= Lost(acc)
    BY <1>0 DEF SaturatingSub, SeriesInv
  <2> HIDE DEF x
  <2>3. /\ BytesOf(samples) \in Seq(Nat) /\ LossesOf(samples) \in Seq(Nat)
        /\ BytesOf(samples') = Append(BytesOf(samples), x.bytes)
        /\ LossesOf(samples') = Append(LossesOf(samples), x.lost)
    BY <1>0, <2>1, <2>2, Fields
  <2>4. /\ Total(BytesOf(samples')) = Total(BytesOf(samples)) + x.bytes
        /\ Total(LossesOf(samples')) = Total(LossesOf(samples)) + x.lost
        /\ Total(BytesOf(samples)) \in Nat /\ Total(LossesOf(samples)) \in Nat
    BY <2>2, <2>3, TotalAppend, PartialSumsAre
  <2>5. last'.bytes = acc.bytes /\ last'.lost = Lost(acc)
    BY <2>1
  <2>6. Total(BytesOf(samples')) = acc.bytes /\ Total(LossesOf(samples')) >= Lost(acc)
    BY <1>0, <2>2, <2>4 DEF SeriesInv
  <2> QED BY <1>0, <2>1, <2>5, <2>6 DEF SeriesInv
<1>5. CASE SStop
  BY <1>5 DEF SStop, SeriesInv
<1> QED BY <1>2, <1>3, <1>4, <1>5 DEF Next

-----------------------------------------------------------------------------

(* Every field of the accumulator, the series and the result stays in its  *)
(* type: in particular no subtraction of `serve` goes below zero.          *)
THEOREM TypeCorrect == Spec => []TypeOK
<1>1. IInv => TypeOK
  BY DEF IInv
<1> QED BY <1>1, Invariance, PTL

(* The loss `into_result` computes from three counters is the number of    *)
(* gaps when no datagram came twice, and never more, for any order of      *)
(* arrival.                                                                *)
THEOREM LossIsExact == Spec => []LossAccounting
<1>1. IInv => LossAccounting
  <2> SUFFICES ASSUME IInv PROVE LossAccounting
    OBVIOUS
  <2>1. LossWithDuplicates
    BY CountersAndGaps
  <2>2. dups \in Nat /\ Cardinality(seen) \in Nat
    BY FS_CardinalityType DEF IInv, TypeOK, SeenInv
  <2> QED BY <2>1, <2>2 DEF LossWithDuplicates, LossAccounting, SaturatingSub
<1> QED BY <1>1, Invariance, PTL

(* No loss is reported that did not happen. *)
THEOREM LossIsReal == Spec => []NoFalseLoss
BY Invariance, GapsWereSent, PTL

(* `serve` and `observe` agree on the window. *)
THEOREM OneWindow == Spec => []WindowAgrees
<1>1. IInv => WindowAgrees
  BY DEF IInv
<1> QED BY <1>1, Invariance, PTL

(* The carry of `drive` never loses or invents a fraction of a datagram. *)
THEOREM PacingIsExact == Spec => []PacingExact
<1>1. IInv => PacingExact
  BY DEF IInv
<1> QED BY <1>1, Invariance, PTL

(* The smoothed jitter is bounded by the largest change of transit time. *)
THEOREM JitterIsSound == Spec => []JitterBounded
<1>1. IInv => JitterBounded
  BY DEF IInv
<1> QED BY <1>1, Invariance, PTL

(* No offset between the clocks of the two machines changes the jitter. *)
THEOREM JitterNeedsNoClock == Spec => []OffsetCancels
<1>1. IInv => OffsetCancels
  BY DEF IInv, TwinInv, OffsetCancels
<1> QED BY <1>1, Invariance, PTL

(* The threshold `serve` works out from the rate and the sequence number   *)
(* `drive` has reached agree at the end of the warm-up.                    *)
THEOREM WarmupIsAligned == Spec => []WarmupAligned
<1>1. IInv => WarmupAligned
  BY WarmupThreshold DEF WarmupAligned
<1> QED BY <1>1, Invariance, PTL

(* The samples of `serve` add up to the bytes it has counted, and hide no  *)
(* loss.                                                                   *)
THEOREM SeriesIsExact == Spec => []SamplesAddUp
<1>1. Init => IInv /\ SeriesInv
  BY InitIInv, InitSeries
<1>2. IInv /\ SeriesInv /\ [Next]_vars => (IInv /\ SeriesInv)'
  BY NextIInv, NextSeries
<1>3. SeriesInv => SamplesAddUp
  BY DEF SeriesInv, SamplesAddUp
<1> QED BY <1>1, <1>2, <1>3, PTL DEF Spec

=============================================================================
