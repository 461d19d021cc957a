----------------------------- MODULE TcpMeasure -----------------------------
(***************************************************************************)
(* A TCP run once its data connections are open (src/modes/tcp.rs, with    *)
(* the counters and the sampler of src/meter.rs): one send_loop and one    *)
(* recv_loop per stream, and on the server three tasks that add up the     *)
(* same relaxed counters one by one while they move: the sampler, the      *)
(* warm-up snapshot, and `serve` itself when Stop comes.                   *)
(*                                                                         *)
(* Time is in seconds; every task may be scheduled as late as it likes.    *)
(* A read and the counter.add after it are two steps to the other threads, *)
(* but no abort can come between them: there is no await there.            *)
(***************************************************************************)
EXTENDS Totals

CONSTANTS
    Parallel,       \* neg.parallel, the number of streams
    Chunk,          \* neg.buffer_bytes
    PipeCap,        \* what the socket buffers of one connection hold
    WarmupSecs, DurationSecs,
    Quiet,          \* --json: the client runs no sampler of its own
    Faults,         \* streams may break, the client may vanish
    MaxBytes,       \* bound: bytes per stream
    MaxSkew,        \* bound: both sides and the sampler have started by then
    MaxNow,         \* bound: time
    None

ASSUME TcpAssumption ==
    /\ Parallel \in Nat \ {0} /\ Chunk \in Nat \ {0} /\ PipeCap \in Nat \ {0}
    /\ WarmupSecs \in Nat /\ DurationSecs \in Nat
    /\ Quiet \in BOOLEAN /\ Faults \in BOOLEAN
    /\ MaxBytes \in Nat /\ MaxSkew \in Nat /\ MaxNow \in Nat
    /\ None \notin Nat

VARIABLES
    now,
    cT0,        \* t0 of `drive`
    left,       \* bytes of the current write_all still to write, per stream
    sending,    \* streams whose send_loop runs
    stop,       \* Stop is written, or the control connection has ended
    pipe,       \* bytes on their way, per stream
    hand,       \* bytes read and not yet counted, per stream
    counter,    \* the Counter of each stream
    receiving,  \* streams whose recv_loop runs
    sT0,        \* t0 of `serve`
    pc,         \* where each of the three tasks is
    at, sum,    \* the counter each task adds next, and its sum so far
    tick,       \* when the sampler's ticker fires next
    tickAt,     \* `now` of the sample being taken
    base, last, \* last_bytes of the sampler: at first, and now
    samples,    \* bytes of each sample
    stamp,      \* warmup_at and final_at
    result,
    lo, hi      \* history: the counters' total when a sum began and ended

Streams == 1 .. Parallel
Tasks   == {"sampler", "warmup", "serve"}
Window  == DurationSecs + WarmupSecs

clientVars  == <<cT0, left, sending, stop>>
recvVars    == <<hand, counter, receiving>>
sumVars     == <<at, sum, lo, hi>>
samplerVars == <<tick, tickAt, base, last, samples>>
vars == <<now, clientVars, pipe, recvVars, sT0, pc, sumVars, samplerVars, stamp, result>>

Least(a, b)         == IF a <= b THEN a ELSE b
SaturatingSub(a, b) == IF a >= b THEN a - b ELSE 0

Init ==
    /\ now = 0 /\ cT0 = None /\ sT0 = None
    /\ left = [s \in Streams |-> 0]
    /\ sending = Streams /\ stop = FALSE
    /\ pipe = [s \in Streams |-> 0] /\ hand = [s \in Streams |-> 0]
    /\ counter = [s \in Streams |-> 0] /\ receiving = Streams
    /\ pc = [t \in Tasks |-> "idle"]
    /\ at = [t \in Tasks |-> 1] /\ sum = [t \in Tasks |-> 0]
    /\ tick = 0 /\ tickAt = 0 /\ base = 0 /\ last = 0 /\ samples = <<>>
    /\ stamp = [t \in {"warmup", "serve"} |-> 0]
    /\ result = None
    /\ lo = [t \in Tasks |-> 0] /\ hi = [t \in Tasks |-> 0]

Clock ==
    /\ now < MaxNow
    /\ now >= MaxSkew => cT0 # None /\ pc["sampler"] \notin {"idle", "begin"}
    /\ now' = now + 1
    /\ UNCHANGED <<clientVars, pipe, recvVars, sT0, pc, sumVars, samplerVars, stamp, result>>

-----------------------------------------------------------------------------
(* The client: `drive` and its send_loops. *)

ClientOnly == UNCHANGED <<now, recvVars, sT0, pc, sumVars, samplerVars, stamp, result>>

CStart ==
    /\ cT0 = None
    /\ cT0' = now
    /\ UNCHANGED <<left, sending, stop, pipe>> /\ ClientOnly

PastDeadline == cT0 # None /\ now >= cT0 + Window

(* The next write_all begins; the deadline is looked at nowhere else. *)
CFill(s) ==
    /\ cT0 # None /\ s \in sending /\ left[s] = 0
    /\ ~PastDeadline
    /\ counter[s] + hand[s] + pipe[s] + Chunk <= MaxBytes
    /\ left' = [left EXCEPT ![s] = Chunk]
    /\ UNCHANGED <<cT0, sending, stop, pipe>> /\ ClientOnly

CWrite(s) ==
    /\ s \in sending
    /\ \E n \in 1 .. Least(left[s], PipeCap - pipe[s]) :
          /\ left' = [left EXCEPT ![s] = @ - n]
          /\ pipe' = [pipe EXCEPT ![s] = @ + n]
    /\ UNCHANGED <<cT0, sending, stop>> /\ ClientOnly

(* send_loop returns at its deadline, or because a write fails: the server  *)
(* has dropped its end, or the network breaks.  Nobody looks at the error. *)
SenderLeaves(s) ==
    /\ cT0 # None /\ s \in sending
    /\ sending' = sending \ {s}
    /\ left' = [left EXCEPT ![s] = 0]
    /\ UNCHANGED <<cT0, stop, pipe>> /\ ClientOnly

CSenderEnds(s) ==
    /\ (PastDeadline /\ left[s] = 0) \/ (left[s] > 0 /\ s \notin receiving)
    /\ SenderLeaves(s)

CSenderBreaks(s) == Faults /\ SenderLeaves(s)

(* `drive` joins its senders and its sampler; then Stop is written. *)
CStop ==
    /\ cT0 # None /\ ~stop /\ sending = {}
    /\ Quiet \/ PastDeadline
    /\ stop' = TRUE
    /\ UNCHANGED <<cT0, left, sending, pipe>> /\ ClientOnly

(* The client process ends. *)
CGone ==
    /\ Faults /\ ~stop
    /\ cT0' = IF cT0 = None THEN now ELSE cT0
    /\ sending' = {} /\ stop' = TRUE
    /\ left' = [s \in Streams |-> 0]
    /\ UNCHANGED pipe /\ ClientOnly

-----------------------------------------------------------------------------
(* The receivers. *)

RecvOnly == UNCHANGED <<now, clientVars, sT0, pc, sumVars, samplerVars, stamp, result>>

(* Mutant: nothing is read once the sampler has ended. *)
CanReadInWindow(s) == sT0 # None /\ s \in receiving /\ hand[s] = 0 /\ pc["sampler"] # "done"

CanRead(s) == sT0 # None /\ s \in receiving /\ hand[s] = 0

RRead(s) ==
    /\ CanRead(s)
    /\ \E n \in 1 .. pipe[s] : /\ hand' = [hand EXCEPT ![s] = n]
                               /\ pipe' = [pipe EXCEPT ![s] = @ - n]
    /\ UNCHANGED <<counter, receiving>> /\ RecvOnly

RCount(s) ==
    /\ hand[s] > 0
    /\ counter' = [counter EXCEPT ![s] = @ + hand[s]]
    /\ hand' = [hand EXCEPT ![s] = 0]
    /\ UNCHANGED <<pipe, receiving>> /\ RecvOnly

(* recv_loop ends: the peer has closed, the read fails, or the task is    *)
(* aborted, which may come as late as the next read that has to wait.     *)
REnd(s) ==
    /\ sT0 # None /\ s \in receiving /\ hand[s] = 0
    /\ (s \notin sending /\ pipe[s] = 0) \/ Faults \/ pc["serve"] \in {"join", "done"}
    /\ receiving' = receiving \ {s}
    /\ pipe' = [pipe EXCEPT ![s] = 0]
    /\ UNCHANGED <<hand, counter>> /\ RecvOnly

-----------------------------------------------------------------------------
(* The server's tasks. *)

Goto(t, label) == pc' = [pc EXCEPT ![t] = label]

(* A sum begins ... *)
StartSum(t) ==
    /\ at' = [at EXCEPT ![t] = 1]
    /\ sum' = [sum EXCEPT ![t] = 0]
    /\ lo' = [lo EXCEPT ![t] = IF t = "sampler" THEN 0 ELSE Total(counter)]
    /\ hi' = hi

(* ... and loads one counter after the other (`total`, `sum_bytes`). *)
Add(t) ==
    /\ pc[t] \in {"base", "sum"} /\ at[t] <= Parallel
    /\ sum' = [sum EXCEPT ![t] = @ + counter[at[t]]]
    /\ at' = [at EXCEPT ![t] = @ + 1]
    /\ hi' = [hi EXCEPT ![t] = IF t = "sampler" THEN 0 ELSE Total(counter)]
    /\ UNCHANGED <<now, clientVars, pipe, recvVars, sT0, pc, lo, samplerVars, stamp, result>>

Summed(t) == at[t] > Parallel

(* The sampler's sum goes out of scope. *)
Forget ==
    /\ at' = [at EXCEPT !["sampler"] = 1]
    /\ sum' = [sum EXCEPT !["sampler"] = 0]
    /\ UNCHANGED <<lo, hi>>

ServerOnly == UNCHANGED <<now, clientVars, pipe, recvVars>>

(* All streams are accepted: t0 is taken and the tasks are spawned. *)
SStart ==
    /\ sT0 = None
    /\ sT0' = now
    /\ pc' = [sampler |-> "begin", warmup |-> "sleep", serve |-> "run"]
    /\ UNCHANGED <<sumVars, samplerVars, stamp, result>> /\ ServerOnly

(* run_sampler: the ticker starts when the task does. *)
MBegin ==
    /\ pc["sampler"] = "begin"
    /\ tick' = now + 1
    /\ StartSum("sampler") /\ Goto("sampler", "base")
    /\ UNCHANGED <<sT0, tickAt, base, last, samples, stamp, result>> /\ ServerOnly

MBase ==
    /\ pc["sampler"] = "base" /\ Summed("sampler")
    /\ base' = sum["sampler"] /\ last' = sum["sampler"]
    /\ Goto("sampler", "wait") /\ Forget
    /\ UNCHANGED <<sT0, tick, tickAt, samples, stamp, result>> /\ ServerOnly

(* A tick; missed ones are made up for at once. *)
MTick ==
    /\ pc["sampler"] = "wait" /\ now >= tick
    /\ tick' = tick + 1 /\ tickAt' = now
    /\ StartSum("sampler") /\ Goto("sampler", "sum")
    /\ UNCHANGED <<sT0, base, last, samples, stamp, result>> /\ ServerOnly

(* Mutant: one more sample is taken when the window has just ended. *)
WindowOverLate == tickAt - sT0 > Window

WindowOver == tickAt - sT0 >= Window

(* Mutant: last_bytes is not brought up to date. *)
LastBytesKept == last

LastBytes == sum["sampler"]

MSample ==
    /\ pc["sampler"] = "sum" /\ Summed("sampler")
    /\ samples' = Append(samples, SaturatingSub(sum["sampler"], last))
    /\ last' = LastBytes
    /\ Goto("sampler", IF WindowOver THEN "done" ELSE "wait") /\ Forget
    /\ tickAt' = 0
    /\ UNCHANGED <<sT0, tick, base, stamp, result>> /\ ServerOnly

(* The warm-up snapshot: a sleep, a sum, and only then the time. *)
WWake ==
    /\ pc["warmup"] = "sleep" /\ now >= sT0 + WarmupSecs
    /\ StartSum("warmup") /\ Goto("warmup", "sum")
    /\ UNCHANGED <<sT0, samplerVars, stamp, result>> /\ ServerOnly

WStamp ==
    /\ pc["warmup"] = "sum" /\ Summed("warmup")
    /\ stamp' = [stamp EXCEPT !["warmup"] = now]
    /\ Goto("warmup", "done")
    /\ UNCHANGED <<sT0, sumVars, samplerVars, result>> /\ ServerOnly

(* `stop` resolves: the final sum, its time, the abort of the receivers. *)
SStop ==
    /\ pc["serve"] = "run" /\ stop
    /\ StartSum("serve") /\ Goto("serve", "sum")
    /\ UNCHANGED <<sT0, samplerVars, stamp, result>> /\ ServerOnly

SStamp ==
    /\ pc["serve"] = "sum" /\ Summed("serve")
    /\ stamp' = [stamp EXCEPT !["serve"] = now]
    /\ Goto("serve", "join")
    /\ UNCHANGED <<sT0, sumVars, samplerVars, result>> /\ ServerOnly

(* Mutant: a plain subtraction of the warm-up. *)
MeasuredSigned(final, warmup) == final - warmup

(* Mutant: the magnitude of the difference is reported. *)
MeasuredAbsolute(final, warmup) == IF final >= warmup THEN final - warmup ELSE warmup - final

Measured(final, warmup) == SaturatingSub(final, warmup)

(* Mutant: the warm-up snapshot is taken as it stands, not joined. *)
JoinedSampler == pc["sampler"] = "done"

Joined == pc["sampler"] = "done" /\ pc["warmup"] = "done"

(* The sampler and the snapshot are joined; both differences saturate. *)
SResult ==
    /\ pc["serve"] = "join" /\ Joined
    /\ result' = [bytes |-> Measured(sum["serve"], sum["warmup"]),
                  secs  |-> Measured(stamp["serve"], stamp["warmup"])]
    /\ Goto("serve", "done")
    /\ UNCHANGED <<sT0, sumVars, samplerVars, stamp>> /\ ServerOnly

Finished == result # None /\ UNCHANGED vars

Next ==
    \/ Clock \/ CStart \/ CStop \/ CGone
    \/ \E s \in Streams : \/ CFill(s) \/ CWrite(s) \/ CSenderEnds(s) \/ CSenderBreaks(s)
                          \/ RRead(s) \/ RCount(s) \/ REnd(s)
    \/ SStart \/ MBegin \/ MBase \/ MTick \/ MSample
    \/ WWake \/ WStamp \/ SStop \/ SStamp \/ SResult
    \/ \E t \in Tasks : Add(t)
    \/ Finished

Spec == Init /\ [][Next]_vars

(* Time passes and tokio runs every task that is ready, one step of its    *)
(* own after the other; the client is a working andri.                     *)
Sampler == MBegin \/ MBase \/ MTick \/ MSample \/ Add("sampler")
Warmup  == WWake \/ WStamp \/ Add("warmup")
Serve   == SStart \/ SStop \/ SStamp \/ SResult \/ Add("serve")

Fairness ==
    /\ WF_vars(Clock) /\ WF_vars(Sampler) /\ WF_vars(Warmup) /\ WF_vars(Serve)
    /\ WF_vars(CStart \/ CStop)
    /\ \A s \in Streams : /\ WF_vars(RRead(s) \/ RCount(s))
                          /\ WF_vars(CWrite(s) \/ CSenderEnds(s))

FairSpec == Spec /\ Fairness

-----------------------------------------------------------------------------
(* Properties. *)

Bytes == 0 .. MaxBytes

(* Types and ranges. *)
TypeOK ==
    /\ now \in Nat /\ cT0 \in Nat \cup {None} /\ sT0 \in Nat \cup {None}
    /\ left \in [Streams -> 0 .. Chunk]
    /\ sending \subseteq Streams /\ receiving \subseteq Streams /\ stop \in BOOLEAN
    /\ pipe \in [Streams -> 0 .. PipeCap]
    /\ hand \in [Streams -> Bytes] /\ counter \in [Streams -> Bytes]
    /\ pc \in [Tasks -> {"idle", "begin", "base", "wait", "sleep", "run", "sum", "join", "done"}]
    /\ at \in [Tasks -> 1 .. Parallel + 1] /\ sum \in [Tasks -> Nat]
    /\ tick \in Nat /\ tickAt \in Nat /\ base \in Nat /\ last \in Nat
    /\ samples \in Seq(Nat) /\ stamp \in [{"warmup", "serve"} -> Nat]
    /\ result \in {None} \cup [bytes : Nat, secs : Nat]

(* Though the counters move while they are added up, a sum lies between    *)
(* their totals when it began and when it ended; so the bytes reported are *)
(* those of the window, give or take what came during the two sums.        *)
WindowBytes ==
    result # None =>
        /\ result.bytes >= SaturatingSub(lo["serve"], hi["warmup"])
        /\ result.bytes <= SaturatingSub(hi["serve"], lo["warmup"])

(* No sample counts a byte twice or misses one: the series adds up to what *)
(* the sampler saw last less what it started from, and its subtraction     *)
(* never has to saturate.                                                  *)
SeriesAddsUp ==
    /\ Total(samples) = last - base
    /\ base <= last /\ last <= Total(counter)

(* The series has at most one sample per second of the window, however     *)
(* late the ticks: its size is what the client asked for.                  *)
SamplesBounded == Len(samples) <= IF Window = 0 THEN 1 ELSE Window

(* A client that is gone before the warm-up is over has measured nothing:  *)
(* the snapshot it is compared with is taken later, and nothing wraps.     *)
EarlyStopMeasuresNothing ==
    result # None /\ stamp["serve"] < sT0 + WarmupSecs => result = [bytes |-> 0, secs |-> 0]

(* A run that is under way is reported, though every stream may break and  *)
(* the client may vanish: `drive` drops the errors of its send_loops and   *)
(* joins them all, and no task of the server waits for a stream that ended. *)
RunReported == pc["serve"] = "run" ~> result # None

=============================================================================
