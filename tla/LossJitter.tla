----------------------------- MODULE LossJitter -----------------------------
(***************************************************************************)
(* The accumulator of a UDP measurement, struct LossJitter of              *)
(* src/modes/udp.rs, as a record and the operators of its methods.         *)
(*                                                                         *)
(* The smoothed jitter is kept exactly where the code has an f64: after k  *)
(* updates it is a multiple of 1/16^k, so the record has the numerator     *)
(* `jitter` and the denominator `scale` = 16^k.                            *)
(***************************************************************************)
EXTENDS Integers

CONSTANT None   \* an Option without a value

ASSUME NoneAssumption == None \notin Int

Max2(a, b) == IF a >= b THEN a ELSE b
Min2(a, b) == IF a <= b THEN a ELSE b
Abs(a)     == IF a >= 0 THEN a ELSE -a
SaturatingSub(a, b) == IF a >= b THEN a - b ELSE 0

New == [bytes |-> 0, received |-> 0, minSeq |-> None, maxSeq |-> 0,
        prevTransit |-> None, jitter |-> 0, scale |-> 1]

(* Mutant: the jitter is fed with the transit times themselves. *)
DeviationOfTransit(acc, transit) == Abs(transit)

(* Mutant: the signed difference is smoothed, not its magnitude. *)
DeviationSigned(acc, transit) == transit - acc.prevTransit

(* |D|, the change of transit time. *)
Deviation(acc, transit) == Abs(transit - acc.prevTransit)

(* One datagram of n bytes: J += (|D| - J) / 16. *)
Observe(acc, warmup, seq, send, recv, n) ==
    IF seq < warmup THEN acc
    ELSE LET transit == recv - send
             first   == acc.prevTransit = None
         IN  [bytes       |-> acc.bytes + n,
              received    |-> acc.received + 1,
              minSeq      |-> IF acc.minSeq = None THEN seq ELSE Min2(acc.minSeq, seq),
              maxSeq      |-> Max2(acc.maxSeq, seq),
              prevTransit |-> transit,
              jitter      |-> IF first THEN acc.jitter
                              ELSE 15 * acc.jitter + Deviation(acc, transit) * acc.scale,
              scale       |-> IF first THEN acc.scale ELSE 16 * acc.scale]

(* Mutant: the span starts at sequence number zero, warm-up included. *)
ExpectedFromZero(acc) == IF acc.minSeq = None THEN 0 ELSE acc.maxSeq + 1

Expected(acc) == IF acc.minSeq = None THEN 0 ELSE acc.maxSeq - acc.minSeq + 1

(* Mutant: a span that ends before its last packet. *)
LostOffByOne(acc) == SaturatingSub(Expected(acc), acc.received + 1)

Lost(acc) == SaturatingSub(Expected(acc), acc.received)

Snapshot(acc) == [bytes |-> acc.bytes, lost |-> Lost(acc)]

=============================================================================
