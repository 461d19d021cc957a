----------------------------- MODULE UdpMeasure -----------------------------
(***************************************************************************)
(* A UDP run (src/modes/udp.rs): the paced sender `drive`, a network that  *)
(* loses, duplicates and reorders datagrams, and the receiver `serve`,     *)
(* which races the datagrams against its once-per-second sampler and the   *)
(* Stop that comes over the control connection.                            *)
(*                                                                         *)
(* The rate of the sender is kept exactly where the code has an f64: a     *)
(* tick adds BitRate units to `carry`, and a datagram costs UnitsPerPacket *)
(* of them.  Every datagram has PacketBytes bytes.  Time is counted in     *)
(* units of which nothing but order and differences matter.                *)
(***************************************************************************)
EXTENDS LossJitter, Totals, FiniteSets

CONSTANTS
    BitRate,        \* bitrate_bps
    PacketBytes,    \* packet_bytes, at least the 16 of the header
    TicksPerSec,    \* TICKS_PER_SEC
    WarmupSecs,     \* warmup_secs
    ClockOffset,    \* the server's clock minus the client's
    MaxTicks,       \* bound: pacing ticks of a run
    MayDuplicate,   \* the network may make a second copy of a datagram
    MaxSamples,     \* bound: ticks of the sampler
    MaxNow          \* bound: time

ASSUME RatesAssumption ==
    /\ BitRate \in Nat /\ PacketBytes \in Nat \ {0} /\ TicksPerSec \in Nat \ {0}
    /\ WarmupSecs \in Nat /\ ClockOffset \in Int

ASSUME UdpBoundsAssumption ==
    MaxTicks \in Nat /\ MayDuplicate \in BOOLEAN /\ MaxSamples \in Nat /\ MaxNow \in Nat

VARIABLES
    now,            \* time, on the client's clock
    ticks,          \* pacing ticks so far
    carry,          \* units carried to the next tick
    toSend,         \* datagrams of this tick still to send
    seq,            \* sequence number of the next datagram
    cDone,          \* Stop is written, or the client is gone
    net,            \* datagrams in flight
    acc,            \* the server's accumulator
    measureStart,   \* when the first datagram after the warm-up came
    samples,        \* the time series
    last,           \* snapshot of the latest sample
    result,         \* None, then what into_result makes of the accumulator
    seen,           \* history: sequence numbers counted after the warm-up
    dups,           \* history: datagrams counted that had been counted before
    twin,           \* history: the accumulator had the clocks been synchronised
    maxD            \* history: largest |D| so far

senderVars == <<ticks, carry, toSend, seq, cDone>>
serverVars == <<acc, measureStart, samples, last, result>>
history    == <<seen, dups, twin, maxD>>
vars       == <<now, senderVars, net, serverVars, history>>

BitsPerPacket  == PacketBytes * 8
UnitsPerPacket == BitsPerPacket * TicksPerSec

(* Mutant: the threshold is rounded up. *)
WarmupRoundedUp == ((BitRate + BitsPerPacket - 1) \div BitsPerPacket) * WarmupSecs

(* The server's idea of how many datagrams the warm-up has. *)
WarmupPackets == (BitRate \div BitsPerPacket) * WarmupSecs

Init ==
    /\ now = 0
    /\ ticks = 0 /\ carry = 0 /\ toSend = 0 /\ seq = 0 /\ cDone = FALSE
    /\ net = {}
    /\ acc = New /\ measureStart = None /\ samples = <<>>
    /\ last = Snapshot(New) /\ result = None
    /\ seen = {} /\ dups = 0 /\ twin = New /\ maxD = 0

Clock ==
    /\ now < MaxNow
    /\ now' = now + 1
    /\ UNCHANGED <<senderVars, net, serverVars, history>>

-----------------------------------------------------------------------------
(* The sender: `drive`. *)

(* Mutant: the fraction of a datagram is dropped at every tick. *)
CreditForgets == BitRate

Credit == carry + BitRate

CTick ==
    /\ ~cDone /\ toSend = 0 /\ ticks < MaxTicks
    /\ ticks' = ticks + 1
    /\ toSend' = Credit \div UnitsPerPacket
    /\ carry' = Credit % UnitsPerPacket
    /\ UNCHANGED <<now, seq, cDone, net, serverVars, history>>

(* Stamp a datagram and hand it to the network. *)
CSend ==
    /\ ~cDone /\ toSend > 0
    /\ net' = net \cup {[seq |-> seq, sent |-> now, copy |-> 0]}
    /\ seq' = seq + 1
    /\ toSend' = toSend - 1
    /\ UNCHANGED <<now, ticks, carry, cDone, serverVars, history>>

(* The window is over and Stop is on its way; or a send failed, and what   *)
(* the server reads is the end of the control connection.                  *)
CEnd ==
    /\ ~cDone
    /\ cDone' = TRUE
    /\ UNCHANGED <<now, ticks, carry, toSend, seq, net, serverVars, history>>

-----------------------------------------------------------------------------
(* The network. *)

NLose(p) ==
    /\ net' = net \ {p}
    /\ UNCHANGED <<now, senderVars, serverVars, history>>

NDuplicate(p) ==
    /\ MayDuplicate /\ p.copy = 0
    /\ net' = (net \ {p}) \cup {[p EXCEPT !.copy = 1], [p EXCEPT !.copy = 2]}
    /\ UNCHANGED <<now, senderVars, serverVars, history>>

-----------------------------------------------------------------------------
(* The receiver: the three arms of the select! in `serve`. *)

Counted(p) == p.seq >= WarmupPackets

(* The bookkeeping of the properties, no part of the code. *)
Remember(p) ==
    /\ seen' = IF Counted(p) THEN seen \cup {p.seq} ELSE seen
    /\ dups' = IF Counted(p) /\ p.seq \in seen THEN dups + 1 ELSE dups
    /\ twin' = Observe(twin, WarmupPackets, p.seq, p.sent, now, PacketBytes)
    /\ maxD' = IF Counted(p) /\ twin.prevTransit # None
               THEN Max2(maxD, Abs((now - p.sent) - twin.prevTransit)) ELSE maxD

(* Mutant: any datagram starts the measured time. *)
StartsWindowEarly(p) == measureStart = None

StartsWindow(p) == p.seq >= WarmupPackets /\ measureStart = None

SRecv(p) ==
    /\ result = None
    /\ net' = net \ {p}
    /\ measureStart' = IF StartsWindow(p) THEN now ELSE measureStart
    /\ acc' = Observe(acc, WarmupPackets, p.seq, p.sent, now + ClockOffset, PacketBytes)
    /\ Remember(p)
    /\ UNCHANGED <<now, senderVars, samples, last, result>>

(* Mutant: the sample is not remembered as the base of the next. *)
NextBaseKept == last

NextBase == Snapshot(acc)

SSample ==
    /\ result = None /\ Len(samples) < MaxSamples
    /\ samples' = Append(samples, [bytes |-> SaturatingSub(acc.bytes, last.bytes),
                                   lost  |-> SaturatingSub(Lost(acc), last.lost)])
    /\ last' = NextBase
    /\ UNCHANGED <<now, senderVars, net, acc, measureStart, result, history>>

(* Stop is read: the datagrams still in flight are never looked at. *)
SStop ==
    /\ result = None /\ cDone
    /\ result' = [bytes    |-> acc.bytes,
                  secs     |-> IF measureStart = None THEN 0 ELSE now - measureStart,
                  expected |-> Expected(acc),
                  received |-> acc.received,
                  lost     |-> Lost(acc),
                  jitter   |-> acc.jitter]
    /\ UNCHANGED <<now, senderVars, net, acc, measureStart, samples, last, history>>

Finished == result # None /\ UNCHANGED vars

Next ==
    \/ Clock \/ CTick \/ CSend \/ CEnd
    \/ \E p \in net : NLose(p) \/ NDuplicate(p) \/ SRecv(p)
    \/ SSample \/ SStop
    \/ Finished

Spec == Init /\ [][Next]_vars

-----------------------------------------------------------------------------
(* Properties. *)

AccType ==
    [bytes : Nat, received : Nat, minSeq : Nat \cup {None}, maxSeq : Nat,
     prevTransit : Int \cup {None}, jitter : Nat, scale : Nat \ {0}]

(* Types; None is what an Option or an unfinished result has. *)
TypeOK ==
    /\ now \in Nat
    /\ ticks \in Nat /\ carry \in Nat /\ toSend \in Nat /\ seq \in Nat
    /\ cDone \in BOOLEAN
    /\ net \subseteq [seq : Nat, sent : Nat, copy : Nat]
    /\ acc \in AccType /\ twin \in AccType
    /\ measureStart \in Nat \cup {None}
    /\ samples \in Seq([bytes : Nat, lost : Nat])
    /\ last \in [bytes : Nat, lost : Nat]
    /\ result \in {None} \cup [bytes : Nat, secs : Nat, expected : Nat,
                              received : Nat, lost : Nat, jitter : Nat]
    /\ seen \subseteq Nat /\ dups \in Nat /\ maxD \in Nat

(* Sequence numbers of the span counted so far that never came. *)
Gaps == IF seen = {} THEN {} ELSE (acc.minSeq .. acc.maxSeq) \ seen

(* What LossJitter computes from three counters is the number of gaps, in  *)
(* whatever order the datagrams come, as long as none comes twice; and it  *)
(* is never more than that.                                                *)
LossAccounting ==
    /\ dups = 0 => acc.received = Cardinality(seen) /\ Lost(acc) = Cardinality(Gaps)
    /\ Lost(acc) <= Cardinality(Gaps)

(* docs/udp.md, 4.1: duplicates are counted separately from what was       *)
(* received and what was lost.  (`observe` adds every datagram to          *)
(* `received`, so each duplicate hides a loss.)                            *)
DuplicatesCountedApart ==
    result # None =>
        result.received = Cardinality(seen) /\ result.lost = Cardinality(Gaps)

(* A loss is never invented: at most what was sent after the warm-up and   *)
(* has not been received is ever reported.                                 *)
NoFalseLoss ==
    /\ Lost(acc) <= Cardinality({s \in WarmupPackets .. (seq - 1) : s \notin seen})
    /\ result # None => result.lost = Lost(acc) /\ result.received = acc.received

(* `serve` and `observe` each decide by themselves whether a datagram is   *)
(* in the window; they agree, so the measured time covers exactly the      *)
(* counted bytes.                                                          *)
WindowAgrees ==
    /\ measureStart = None <=> acc.received = 0
    /\ acc.bytes = acc.received * PacketBytes
    /\ acc.minSeq # None => acc.minSeq >= WarmupPackets

(* The carry loses nothing: datagrams sent and owed and the fraction       *)
(* carried are what the ticks have earned.                                 *)
PacingExact ==
    /\ (seq + toSend) * UnitsPerPacket + carry = ticks * BitRate
    /\ carry < UnitsPerPacket

(* The sequence number at which the server starts counting is the one the  *)
(* client has reached at the end of its warm-up, to within a datagram per  *)
(* further second of it.                                                   *)
WarmupAligned ==
    ticks = WarmupSecs * TicksPerSec /\ toSend = 0 =>
        /\ WarmupPackets <= seq
        /\ seq < WarmupPackets + Max2(1, WarmupSecs)

BytesOf(series)  == [i \in DOMAIN series |-> series[i].bytes]
LossesOf(series) == [i \in DOMAIN series |-> series[i].lost]

(* The bytes of the samples add up to those counted when the latest was    *)
(* taken, in the sampler of `serve`.  Its losses do not: a datagram that   *)
(* comes late lowers the running loss, which the unsigned difference hides *)
(* from the series, so they only bound the running loss from above.        *)
SamplesAddUp ==
    /\ Total(BytesOf(samples)) = last.bytes
    /\ Total(LossesOf(samples)) >= last.lost
    /\ result # None => Total(BytesOf(samples)) <= result.bytes

(* The smoothed jitter lies between zero and the largest change of transit *)
(* time so far.                                                            *)
JitterBounded ==
    0 <= acc.jitter /\ acc.jitter <= maxD * acc.scale

(* Clocks that are not synchronised do not matter to the jitter.           *)
OffsetCancels == acc.jitter = twin.jitter /\ acc.scale = twin.scale

=============================================================================
