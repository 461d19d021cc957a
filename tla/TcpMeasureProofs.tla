-------------------------- MODULE TcpMeasureProofs --------------------------
(***************************************************************************)
(* Proofs about TcpMeasure, for every number of streams, window and        *)
(* scheduling: types, that the time series never has more samples than the *)
(* window has seconds, and, in the second half, that sums of counters that *)
(* move meanwhile still measure the window.                                *)
(***************************************************************************)
EXTENDS TcpMeasure, TotalsProofs, TLAPS

(* What a stream holds is within the bound of the model. *)
StreamsInv ==
    /\ left \in [Streams -> 0 .. Chunk] /\ pipe \in [Streams -> 0 .. PipeCap]
    /\ hand \in [Streams -> Bytes] /\ counter \in [Streams -> Bytes]
    /\ \A s \in Streams : counter[s] + hand[s] + pipe[s] + left[s] <= MaxBytes

(* t0 is in the past, and `serve` has its tasks once it has t0. *)
StartInv ==
    /\ sT0 # None => sT0 <= now
    /\ sT0 = None => pc["sampler"] = "idle" /\ pc["warmup"] = "idle" /\ pc["serve"] = "idle"
    /\ pc["sampler"] \notin {"sleep", "run", "join"}

(* The k-th tick comes k seconds after t0 or later, and the sampler goes   *)
(* on only from a tick before the end of the window.                       *)
SamplerInv ==
    LET n == Len(samples) IN
    /\ pc["sampler"] \in {"idle", "begin", "base"} => n = 0
    /\ pc["sampler"] \in {"base", "wait"} => tick >= sT0 + n + 1
    /\ pc["sampler"] = "sum" => tick >= sT0 + n + 2 /\ tickAt >= sT0 + n + 1
    /\ pc["sampler"] \in {"wait", "sum"} => n = 0 \/ n < Window
    /\ pc["sampler"] = "done" => n = 1 \/ n <= Window

IInv == TypeOK /\ StreamsInv /\ StartInv /\ SamplerInv

-----------------------------------------------------------------------------

(* The inductive invariant holds at first. *)
LEMMA InitIInv == Init => IInv
<1> SUFFICES ASSUME Init PROVE IInv
  OBVIOUS
<1> USE TcpAssumption
<1>1. StreamsInv /\ StartInv /\ SamplerInv
  BY DEF Init, StreamsInv, StartInv, SamplerInv, Tasks, Bytes
<1>2. TypeOK
  <2>1. stop \in BOOLEAN
    BY Zenon DEF Init
  <2>2. samples \in Seq(Nat)
    BY DEF Init
  <2>3. result \in {None} \cup [bytes : Nat, secs : Nat]
    BY DEF Init
  <2>4. pc \in [Tasks -> {"idle", "begin", "base", "wait", "sleep", "run", "sum", "join", "done"}]
    BY DEF Init
  <2>5. at \in [Tasks -> 1 .. Parallel + 1] /\ sum \in [Tasks -> Nat]
    BY DEF Init
  <2> QED BY <2>1, <2>2, <2>3, <2>4, <2>5 DEF Init, TypeOK, Bytes
<1> QED BY <1>1, <1>2 DEF IInv

(* Steps of the clients and receivers touch no task of the server. *)
LEMMA DataSteps ==
    ASSUME IInv,
           \/ CStart \/ CStop \/ CGone
           \/ \E s \in Streams : \/ CFill(s) \/ CWrite(s) \/ CSenderEnds(s) \/ CSenderBreaks(s)
                                 \/ RRead(s) \/ RCount(s) \/ REnd(s)
    PROVE  IInv'
<1> USE TcpAssumption
<1>1. UNCHANGED <<now, sT0, pc, sumVars, samplerVars, stamp, result>>
  BY Zenon DEF CStart, CStop, CGone, CFill, CWrite, CSenderEnds, CSenderBreaks, SenderLeaves, RRead, RCount, REnd,
         ClientOnly, RecvOnly
<1>2. StartInv' /\ SamplerInv'
  BY <1>1 DEF IInv, StartInv, SamplerInv, samplerVars
<1>3. StreamsInv'
  <2>0. StreamsInv
    BY DEF IInv
  <2>1. CASE CStart \/ CStop
    BY <2>0, <2>1 DEF CStart, CStop, ClientOnly, recvVars, StreamsInv
  <2>2. CASE CGone
    BY <2>0, <2>2 DEF CGone, ClientOnly, recvVars, StreamsInv, Bytes
  <2>3. ASSUME NEW s \in Streams, CFill(s) PROVE StreamsInv'
    BY <2>0, <2>3 DEF CFill, ClientOnly, recvVars, StreamsInv, Bytes
  <2>4. ASSUME NEW s \in Streams, CWrite(s) PROVE StreamsInv'
    BY <2>0, <2>4 DEF CWrite, Least, ClientOnly, recvVars, StreamsInv, Bytes
  <2>5. ASSUME NEW s \in Streams, CSenderEnds(s) \/ CSenderBreaks(s) PROVE StreamsInv'
    BY <2>0, <2>5 DEF CSenderEnds, CSenderBreaks, SenderLeaves, ClientOnly, recvVars, StreamsInv, Bytes
  <2>6. ASSUME NEW s \in Streams, RRead(s) PROVE StreamsInv'
    BY <2>0, <2>6 DEF RRead, CanRead, RecvOnly, clientVars, StreamsInv, Bytes
  <2>7. ASSUME NEW s \in Streams, RCount(s) PROVE StreamsInv'
    BY <2>0, <2>7 DEF RCount, RecvOnly, clientVars, StreamsInv, Bytes
  <2>8. ASSUME NEW s \in Streams, REnd(s) PROVE StreamsInv'
    BY <2>0, <2>8 DEF REnd, RecvOnly, clientVars, StreamsInv, Bytes
  <2> QED BY <2>1, <2>2, <2>3, <2>4, <2>5, <2>6, <2>7, <2>8
<1>4. cT0' \in Nat \cup {None} /\ sending' \subseteq Streams /\ receiving' \subseteq Streams
  BY DEF CStart, CStop, CGone, CFill, CWrite, CSenderEnds, CSenderBreaks, SenderLeaves, RRead, RCount, REnd,
         ClientOnly, RecvOnly, clientVars, recvVars, IInv, TypeOK
<1>5. stop' \in BOOLEAN
  BY Zenon DEF CStart, CStop, CGone, CFill, CWrite, CSenderEnds, CSenderBreaks, SenderLeaves, RRead, RCount, REnd,
         ClientOnly, RecvOnly, clientVars, recvVars, IInv, TypeOK
<1>6. TypeOK'
  BY <1>1, <1>3, <1>4, <1>5, Zenon DEF IInv, TypeOK, StreamsInv, sumVars, samplerVars
<1> QED BY <1>2, <1>3, <1>6 DEF IInv

(* Types of what the server's tasks keep. *)
TaskType ==
    /\ now \in Nat /\ sT0 \in Nat \cup {None}
    /\ pc \in [Tasks -> {"idle", "begin", "base", "wait", "sleep", "run", "sum", "join", "done"}]
    /\ at \in [Tasks -> 1 .. Parallel + 1] /\ sum \in [Tasks -> Nat]
    /\ tick \in Nat /\ tickAt \in Nat /\ base \in Nat /\ last \in Nat
    /\ samples \in Seq(Nat) /\ stamp \in [{"warmup", "serve"} -> Nat]
    /\ result \in {None} \cup [bytes : Nat, secs : Nat]

(* A step that leaves the streams alone keeps the types if it keeps those. *)
LEMMA TaskFrame ==
    ASSUME IInv, UNCHANGED <<clientVars, pipe, recvVars>>, TaskType'
    PROVE  TypeOK' /\ StreamsInv'
<1>1. StreamsInv'
  BY DEF IInv, StreamsInv, clientVars, recvVars
<1>2. TypeOK'
  BY Zenon DEF IInv, TypeOK, TaskType, clientVars, recvVars
<1> QED BY <1>1, <1>2

(* Time passes. *)
LEMMA ClockStep == ASSUME IInv, Clock PROVE IInv'
<1>1. TaskType'
  BY DEF Clock, IInv, TypeOK, TaskType, sumVars, samplerVars
<1>2. StartInv' /\ SamplerInv'
  BY DEF Clock, IInv, TypeOK, StartInv, SamplerInv, samplerVars
<1>3. UNCHANGED <<clientVars, pipe, recvVars>>
  BY DEF Clock
<1> QED BY <1>1, <1>2, <1>3, TaskFrame DEF IInv

(* `serve` takes t0 and spawns its tasks. *)
LEMMA StartStep == ASSUME IInv, SStart PROVE IInv'
<1>1. TaskType'
  BY DEF SStart, ServerOnly, IInv, TypeOK, TaskType, sumVars, samplerVars, Tasks
<1>2. StartInv' /\ SamplerInv'
  BY TcpAssumption DEF SStart, ServerOnly, IInv, TypeOK, StartInv, SamplerInv, samplerVars, Tasks
<1>3. UNCHANGED <<clientVars, pipe, recvVars>>
  BY DEF SStart, ServerOnly
<1> QED BY <1>1, <1>2, <1>3, TaskFrame DEF IInv

(* A task loads one more counter. *)
LEMMA AddStep == ASSUME IInv, NEW t \in Tasks, Add(t) PROVE IInv'
<1>1. TaskType'
  <2>1. at[t] \in Streams /\ counter[at[t]] \in Nat
    BY TcpAssumption DEF Add, IInv, TypeOK, Streams, Bytes
  <2>2. at' \in [Tasks -> 1 .. Parallel + 1] /\ sum' \in [Tasks -> Nat]
    <3>1. /\ at \in [Tasks -> 1 .. Parallel + 1] /\ sum \in [Tasks -> Nat] /\ sum[t] \in Nat
          /\ Parallel \in Nat
      BY TcpAssumption DEF IInv, TypeOK
    <3>2. /\ at' = [at EXCEPT ![t] = at[t] + 1]
          /\ sum' = [sum EXCEPT ![t] = sum[t] + counter[at[t]]]
      BY DEF Add
    <3>3. at[t] + 1 \in 1 .. Parallel + 1 /\ sum[t] + counter[at[t]] \in Nat
      BY <2>1, <3>1 DEF Streams
    <3> QED BY <3>1, <3>2, <3>3
  <2> QED BY <2>2, Zenon DEF Add, IInv, TypeOK, TaskType, samplerVars
<1>2. StartInv' /\ SamplerInv'
  BY DEF Add, IInv, StartInv, SamplerInv, samplerVars
<1>3. UNCHANGED <<clientVars, pipe, recvVars>>
  BY DEF Add
<1> QED BY <1>1, <1>2, <1>3, TaskFrame DEF IInv

(* Every step of the sampler. *)
LEMMA SamplerSteps == ASSUME IInv, MBegin \/ MBase \/ MTick \/ MSample PROVE IInv'
<1> USE TcpAssumption
<1>0. /\ TaskType /\ StartInv /\ SamplerInv /\ Len(samples) \in Nat /\ Window \in Nat
      /\ sum["sampler"] \in Nat
  BY DEF IInv, TypeOK, TaskType, Tasks, Window
<1>1. /\ UNCHANGED <<now, clientVars, pipe, recvVars, sT0, stamp, result>>
      /\ sT0 # None => sT0 \in Nat
  BY <1>0 DEF MBegin, MBase, MTick, MSample, ServerOnly, TaskType
<1>2. at' \in [Tasks -> 1 .. Parallel + 1] /\ sum' \in [Tasks -> Nat]
  <2>1. /\ at' = [at EXCEPT !["sampler"] = 1]
        /\ sum' = [sum EXCEPT !["sampler"] = 0]
    BY DEF MBegin, MBase, MTick, MSample, StartSum, Forget
  <2>2. 1 \in 1 .. Parallel + 1 /\ 0 \in Nat
    OBVIOUS
  <2>3. at \in [Tasks -> 1 .. Parallel + 1] /\ sum \in [Tasks -> Nat]
    BY <1>0 DEF TaskType
  <2> QED BY <2>1, <2>2, <2>3
<1>3. CASE MBegin
  <2>1. /\ pc["sampler"] = "begin" /\ pc' = [pc EXCEPT !["sampler"] = "base"]
        /\ tick' = now + 1 /\ UNCHANGED <<tickAt, base, last, samples>>
    BY <1>3 DEF MBegin, Goto
  <2>p. pc' \in [Tasks -> {"idle", "begin", "base", "wait", "sleep", "run", "sum", "join", "done"}]
    BY <1>0, <2>1, Zenon DEF TaskType
  <2>q. tick' \in Nat /\ tickAt' \in Nat /\ base' \in Nat /\ last' \in Nat /\ samples' \in Seq(Nat)
    BY <1>0, <2>1 DEF TaskType
  <2>2. TaskType'
    BY <1>0, <1>1, <1>2, <2>p, <2>q, Zenon DEF TaskType
  <2>3. StartInv' /\ SamplerInv'
    BY <1>0, <1>1, <2>1 DEF TaskType, StartInv, SamplerInv, Tasks
  <2> QED BY <1>1, <2>2, <2>3, TaskFrame DEF IInv
<1>4. CASE MBase
  <2>1. /\ pc["sampler"] = "base" /\ pc' = [pc EXCEPT !["sampler"] = "wait"]
        /\ base' = sum["sampler"] /\ last' = sum["sampler"] /\ UNCHANGED <<tick, tickAt, samples>>
    BY <1>4 DEF MBase, Goto
  <2>p. pc' \in [Tasks -> {"idle", "begin", "base", "wait", "sleep", "run", "sum", "join", "done"}]
    BY <1>0, <2>1, Zenon DEF TaskType
  <2>q. tick' \in Nat /\ tickAt' \in Nat /\ base' \in Nat /\ last' \in Nat /\ samples' \in Seq(Nat)
    BY <1>0, <2>1 DEF TaskType
  <2>2. TaskType'
    BY <1>0, <1>1, <1>2, <2>p, <2>q, Zenon DEF TaskType
  <2>3. StartInv' /\ SamplerInv'
    BY <1>0, <1>1, <2>1 DEF TaskType, StartInv, SamplerInv, Tasks
  <2> QED BY <1>1, <2>2, <2>3, TaskFrame DEF IInv
<1>5. CASE MTick
  <2>1. /\ pc["sampler"] = "wait" /\ pc' = [pc EXCEPT !["sampler"] = "sum"] /\ now >= tick
        /\ tick' = tick + 1 /\ tickAt' = now /\ UNCHANGED <<base, last, samples>>
    BY <1>5 DEF MTick, Goto
  <2>p. pc' \in [Tasks -> {"idle", "begin", "base", "wait", "sleep", "run", "sum", "join", "done"}]
    BY <1>0, <2>1, Zenon DEF TaskType
  <2>q. tick' \in Nat /\ tickAt' \in Nat /\ base' \in Nat /\ last' \in Nat /\ samples' \in Seq(Nat)
    BY <1>0, <2>1 DEF TaskType
  <2>2. TaskType'
    BY <1>0, <1>1, <1>2, <2>p, <2>q, Zenon DEF TaskType
  <2>3. StartInv' /\ SamplerInv'
    BY <1>0, <1>1, <2>1 DEF TaskType, StartInv, SamplerInv, Tasks
  <2> QED BY <1>1, <2>2, <2>3, TaskFrame DEF IInv
<1>6. CASE MSample
  <2> DEFINE e     == SaturatingSub(sum["sampler"], last)
             label == IF tickAt - sT0 >= Window THEN "done" ELSE "wait"
  <2>1. /\ pc["sampler"] = "sum" /\ pc' = [pc EXCEPT !["sampler"] = label]
        /\ samples' = Append(samples, e)
        /\ last' = sum["sampler"] /\ tickAt' = 0 /\ UNCHANGED <<tick, base>>
    BY <1>6 DEF MSample, Goto, WindowOver, LastBytes
  <2>2. e \in Nat
    BY <1>0 DEF SaturatingSub, TaskType
  <2>3. sT0 \in Nat
    BY <1>0, <1>1, <2>1 DEF StartInv
  <2> HIDE DEF e
  <2>4. samples' \in Seq(Nat) /\ Len(samples') = Len(samples) + 1
    BY <1>0, <2>1, <2>2 DEF TaskType
  <2>5. TaskType'
    BY <1>0, <1>1, <1>2, <2>1, <2>4 DEF TaskType, Tasks
  <2>6. pc'["sampler"] = label /\ pc'["warmup"] = pc["warmup"] /\ pc'["serve"] = pc["serve"]
    BY <1>0, <2>1 DEF TaskType, Tasks
  <2>7. StartInv'
    BY <1>0, <1>1, <2>3, <2>6 DEF TaskType, StartInv
  <2>8. SamplerInv'
    <3>1. /\ tick >= sT0 + Len(samples) + 2 /\ tickAt >= sT0 + Len(samples) + 1
          /\ Len(samples) = 0 \/ Len(samples) < Window
          /\ tick \in Nat /\ tickAt \in Nat
      BY <1>0, <2>1 DEF SamplerInv, TaskType
    <3>2. CASE tickAt - sT0 >= Window
      BY <1>0, <1>1, <2>1, <2>3, <2>4, <2>6, <3>1, <3>2 DEF SamplerInv
    <3>3. CASE ~(tickAt - sT0 >= Window)
      BY <1>0, <1>1, <2>1, <2>3, <2>4, <2>6, <3>1, <3>3 DEF SamplerInv
    <3> QED BY <3>2, <3>3
  <2> QED BY <1>1, <2>5, <2>7, <2>8, TaskFrame DEF IInv
<1> QED BY <1>3, <1>4, <1>5, <1>6

(* The warm-up snapshot and `serve` never touch the sampler's state. *)
LEMMA ReportSteps ==
    ASSUME IInv, WWake \/ WStamp \/ SStop \/ SStamp \/ SResult
    PROVE  IInv'
<1> USE TcpAssumption
<1>0. TaskType /\ StartInv /\ SamplerInv
  BY DEF IInv, TypeOK, TaskType
<1>1. UNCHANGED <<now, clientVars, pipe, recvVars, sT0, samplerVars>>
  BY DEF WWake, WStamp, SStop, SStamp, SResult, ServerOnly
<1>2. at' \in [Tasks -> 1 .. Parallel + 1] /\ sum' \in [Tasks -> Nat]
  <2>1. CASE WWake \/ SStop
    <3>1. PICK t \in Tasks : at' = [at EXCEPT ![t] = 1] /\ sum' = [sum EXCEPT ![t] = 0]
      BY <2>1 DEF WWake, SStop, StartSum, Tasks
    <3> QED BY <1>0, <3>1 DEF TaskType
  <2>2. CASE WStamp \/ SStamp \/ SResult
    BY <1>0, <2>2 DEF WStamp, SStamp, SResult, sumVars, TaskType
  <2> QED BY <2>1, <2>2
<1>3. PICK t \in {"warmup", "serve"}, label \in {"sum", "join", "done"} :
        pc[t] # "idle" /\ pc' = [pc EXCEPT ![t] = label]
  BY DEF WWake, WStamp, SStop, SStamp, SResult, Goto
<1>4. result' \in {None} \cup [bytes : Nat, secs : Nat]
  <2>1. CASE SResult
    <3>1. \A a, b \in Nat : SaturatingSub(a, b) \in Nat
      BY DEF SaturatingSub
    <3>2. /\ sum["serve"] \in Nat /\ sum["warmup"] \in Nat
          /\ stamp["serve"] \in Nat /\ stamp["warmup"] \in Nat
      BY <1>0 DEF TaskType, Tasks, IInv, TypeOK
    <3> QED BY <2>1, <3>1, <3>2 DEF SResult, Measured
  <2>2. CASE ~SResult
    BY <1>0, <2>2 DEF WWake, WStamp, SStop, SStamp, TaskType
  <2> QED BY <2>1, <2>2
<1>5. TaskType'
  <2>1. stamp' \in [{"warmup", "serve"} -> Nat]
    BY <1>0 DEF WWake, WStamp, SStop, SStamp, SResult, TaskType
  <2>2. pc' \in [Tasks -> {"idle", "begin", "base", "wait", "sleep", "run", "sum", "join", "done"}]
    BY <1>0, <1>3 DEF TaskType
  <2> QED BY <1>0, <1>1, <1>2, <1>4, <2>1, <2>2, Zenon DEF TaskType, samplerVars
<1>6. pc'["sampler"] = pc["sampler"] /\ sT0 # None
  BY <1>0, <1>3 DEF TaskType, Tasks, StartInv
<1>7. StartInv' /\ SamplerInv'
  BY <1>0, <1>1, <1>6 DEF StartInv, SamplerInv, samplerVars
<1> QED BY <1>1, <1>5, <1>7, TaskFrame DEF IInv

(* Every step, and a stutter, preserves the inductive invariant. *)
LEMMA NextIInv == IInv /\ [Next]_vars => IInv'
<1> SUFFICES ASSUME IInv, [Next]_vars PROVE IInv'
  OBVIOUS
<1>1. CASE UNCHANGED vars
  <2>1. UNCHANGED <<now, sT0, pc, at, sum, samplerVars, stamp, result>>
        /\ UNCHANGED <<clientVars, pipe, recvVars>>
    BY <1>1 DEF vars, sumVars
  <2>2. TaskType'
    BY <2>1, Zenon DEF IInv, TypeOK, TaskType, samplerVars
  <2>3. StartInv' /\ SamplerInv'
    BY <2>1 DEF IInv, StartInv, SamplerInv, samplerVars
  <2> QED BY <2>1, <2>2, <2>3, TaskFrame DEF IInv
<1> QED
  BY <1>1, DataSteps, ClockStep, StartStep, AddStep, SamplerSteps, ReportSteps DEF Next, Finished

(* The inductive invariant always holds. *)
LEMMA Invariance == Spec => []IInv
BY InitIInv, NextIInv, PTL DEF Spec

(* Every variable stays in its type: in particular no measured difference  *)
(* goes below zero.                                                        *)
THEOREM TypeCorrect == Spec => []TypeOK
<1>1. IInv => TypeOK
  BY DEF IInv
<1> QED BY <1>1, Invariance, PTL

(* run_sampler records at most one sample per second of the window. *)
THEOREM SeriesIsBounded == Spec => []SamplesBounded
<1>1. IInv => SamplesBounded
  <2> SUFFICES ASSUME IInv PROVE SamplesBounded
    OBVIOUS
  <2>1. Len(samples) \in Nat /\ Window \in Nat /\ pc["sampler"] \in
          {"idle", "begin", "base", "wait", "sum", "done"}
    BY TcpAssumption DEF IInv, TypeOK, StartInv, Tasks, Window
  <2>2. Len(samples) = 0 \/ Len(samples) = 1 \/ Len(samples) <= Window
    BY <2>1 DEF IInv, SamplerInv
  <2>3. CASE Window = 0
    BY <2>1, <2>2, <2>3 DEF SamplesBounded
  <2>4. CASE Window # 0
    BY <2>1, <2>2, <2>4 DEF SamplesBounded
  <2> QED BY <2>3, <2>4
<1> QED BY <1>1, Invariance, PTL

-----------------------------------------------------------------------------

(* What the counters before the k-th hold, and the k-th and those after it. *)
Added(f, k) == PartialSums(f)[k - 1]
Rest(f, k)  == Total(f) - Added(f, k)

Counters  == [Streams -> Nat]
Positions == 1 .. Parallel + 1

(* The counters are a sequence. *)
LEMMA CountersAreSeq ==
    ASSUME NEW f \in Counters
    PROVE  f \in Seq(Nat) /\ Len(f) = Parallel
<1>1. Parallel \in Nat /\ f \in [1 .. Parallel -> Nat]
  BY TcpAssumption DEF Counters, Streams
<1> HIDE DEF Counters
<1>2. f \in Seq(Nat)
  BY <1>1
<1>3. Len(f) = Parallel
  BY <1>1
<1> QED BY <1>2, <1>3

(* Every counter is before the k-th or is not. *)
LEMMA AddedAndRest ==
    ASSUME NEW f \in Counters, NEW k \in Positions
    PROVE  /\ Total(f) \in Nat /\ Added(f, k) \in Nat /\ Rest(f, k) \in Nat
           /\ Total(f) = Added(f, k) + Rest(f, k)
           /\ k = 1 => Added(f, k) = 0 /\ Rest(f, k) = Total(f)
           /\ k > Parallel => Added(f, k) = Total(f) /\ Rest(f, k) = 0
           /\ k <= Parallel => /\ f[k] \in Nat
                               /\ Added(f, k + 1) = Added(f, k) + f[k]
                               /\ Rest(f, k) = Rest(f, k + 1) + f[k]
<1>0. Parallel \in Nat /\ k \in Nat /\ k - 1 \in 0 .. Parallel /\ Parallel \in 0 .. Parallel
  BY TcpAssumption DEF Positions
<1>1. f \in Seq(Nat) /\ Len(f) = Parallel
  BY CountersAreSeq
<1>2. IsSums(PartialSums(f), f, Parallel) /\ Total(f) \in Nat
  BY <1>1, PartialSumsAre
<1>3. Added(f, k) \in Nat
  BY <1>0, <1>2 DEF Added, IsSums
<1>4. Added(f, k) <= Total(f)
  <2>1. \A i \in 1 .. Len(f) : f[i] <= f[i]
    BY <1>1
  <2>2. k - 1 <= Parallel
    BY <1>0
  <2> QED BY <1>0, <1>1, <2>1, <2>2, SumsGrow DEF Added, Total
<1>5. Rest(f, k) \in Nat /\ Total(f) = Added(f, k) + Rest(f, k)
  BY <1>2, <1>3, <1>4 DEF Rest
<1>6. k = 1 => Added(f, k) = 0
  BY <1>2 DEF Added, IsSums
<1>7. k > Parallel => Added(f, k) = Total(f)
  <2>1. k > Parallel => k - 1 = Parallel
    BY <1>0
  <2> QED BY <1>1, <2>1 DEF Added, Total
<1>8. ASSUME k <= Parallel
      PROVE  f[k] \in Nat /\ Added(f, k + 1) = Added(f, k) + f[k] /\ Rest(f, k) = Rest(f, k + 1) + f[k]
  <2>1. k \in 1 .. Parallel /\ (k + 1) - 1 = k
    BY <1>0, <1>8 DEF Positions
  <2>2. f[k] \in Nat
    BY <1>1, <2>1
  <2>3. Added(f, k + 1) = Added(f, k) + f[k]
    BY <1>2, <2>1 DEF Added, IsSums
  <2> QED BY <1>2, <1>3, <2>2, <2>3 DEF Rest
<1> QED BY <1>2, <1>3, <1>5, <1>6, <1>7, <1>8

(* Both parts grow with the counters. *)
LEMMA PartsGrow ==
    ASSUME NEW f \in Counters, NEW g \in Counters, \A s \in Streams : f[s] <= g[s],
           NEW k \in Positions
    PROVE  Added(f, k) <= Added(g, k) /\ Rest(f, k) <= Rest(g, k)
<1>0. Parallel \in Nat /\ k - 1 \in 0 .. Parallel /\ 0 \in 0 .. Parallel /\ Parallel \in 0 .. Parallel
      /\ 0 <= k - 1 /\ k - 1 <= Parallel
  BY TcpAssumption DEF Positions
<1>1. /\ f \in Seq(Nat) /\ Len(f) = Parallel /\ g \in Seq(Nat) /\ Len(g) = Parallel
      /\ \A i \in 1 .. Len(f) : f[i] <= g[i]
  BY CountersAreSeq DEF Streams
<1>2. /\ IsSums(PartialSums(f), f, Parallel) /\ Total(f) \in Nat
      /\ IsSums(PartialSums(g), g, Parallel) /\ Total(g) \in Nat
  BY <1>1, PartialSumsAre
<1>3. Added(f, k) \in Nat /\ Added(g, k) \in Nat /\ PartialSums(f)[0] = 0 /\ PartialSums(g)[0] = 0
  BY <1>0, <1>2 DEF Added, IsSums
<1>4. PartialSums(f)[k - 1] - PartialSums(f)[0] <= PartialSums(g)[k - 1] - PartialSums(g)[0]
  BY <1>0, <1>1, SumsGrow
<1>5. PartialSums(f)[Parallel] - PartialSums(f)[k - 1] <= PartialSums(g)[Parallel] - PartialSums(g)[k - 1]
  BY <1>0, <1>1, SumsGrow
<1> QED BY <1>1, <1>3, <1>4, <1>5 DEF Added, Rest, Total
-----------------------------------------------------------------------------

(* A sum in the making has no more than the counters it has been through   *)
(* hold by now, and will come to no less than they all held at first.      *)
SumInv ==
    /\ lo \in [Tasks -> Nat] /\ hi \in [Tasks -> Nat]
    /\ \A t \in Tasks : /\ sum[t] <= Added(counter, at[t])
                        /\ lo[t] <= sum[t] + Rest(counter, at[t])
                        /\ t # "sampler" => sum[t] <= hi[t]
    /\ pc["warmup"] = "done" => Summed("warmup")
    /\ pc["serve"] \in {"join", "done"} => Summed("serve")

(* The samples so far, and that the next sum is at least the last one. *)
SeriesInv ==
    /\ pc["sampler"] \in {"idle", "begin", "base"} => base = 0 /\ last = 0
    /\ base + Total(samples) = last
    /\ last <= sum["sampler"] + Rest(counter, at["sampler"])

(* The warm-up snapshot is taken after the warm-up, so a final sum of      *)
(* before then is no more than what the snapshot will come to.             *)
EarlyInv ==
    /\ pc["warmup"] \in {"idle", "sleep", "sum", "done"}
    /\ pc["serve"] \in {"idle", "run", "sum", "join", "done"}
    /\ pc["warmup"] \in {"sum", "done"} => now >= sT0 + WarmupSecs
    /\ pc["warmup"] = "done" => stamp["warmup"] >= sT0 + WarmupSecs
    /\ pc["warmup"] \in {"idle", "sleep"} => sum["warmup"] = 0 /\ at["warmup"] = 1
    /\ pc["serve"] \in {"join", "done"} /\ stamp["serve"] < sT0 + WarmupSecs =>
          sum["serve"] <= sum["warmup"] + Rest(counter, at["warmup"])

(* The result is made of the two finished sums and their times. *)
ResultInv ==
    result # None =>
        /\ pc["serve"] = "done" /\ pc["warmup"] = "done"
        /\ result = [bytes |-> Measured(sum["serve"], sum["warmup"]),
                     secs  |-> Measured(stamp["serve"], stamp["warmup"])]

MeasureInv == SumInv /\ SeriesInv /\ EarlyInv /\ ResultInv

-----------------------------------------------------------------------------

(* The types these proofs need, and the two parts of the counters at the   *)
(* place of every task.                                                    *)
LEMMA Parts ==
    ASSUME IInv
    PROVE  /\ counter \in Counters /\ Total(counter) \in Nat
           /\ now \in Nat /\ (sT0 # None => sT0 \in Nat) /\ WarmupSecs \in Nat
           /\ base \in Nat /\ last \in Nat /\ samples \in Seq(Nat)
           /\ stamp["warmup"] \in Nat /\ stamp["serve"] \in Nat
           /\ \A t \in Tasks :
                /\ at[t] \in Positions /\ sum[t] \in Nat
                /\ Added(counter, at[t]) \in Nat /\ Rest(counter, at[t]) \in Nat
                /\ Total(counter) = Added(counter, at[t]) + Rest(counter, at[t])
                /\ Summed(t) => Rest(counter, at[t]) = 0
<1>1. /\ counter \in Counters
      /\ \A t \in Tasks : at[t] \in Positions /\ sum[t] \in Nat
  BY DEF IInv, TypeOK, Counters, Positions, Bytes
<1>2. /\ now \in Nat /\ (sT0 # None => sT0 \in Nat) /\ WarmupSecs \in Nat
      /\ base \in Nat /\ last \in Nat /\ samples \in Seq(Nat)
      /\ stamp["warmup"] \in Nat /\ stamp["serve"] \in Nat
  BY TcpAssumption DEF IInv, TypeOK
<1>3. ASSUME NEW t \in Tasks
      PROVE  /\ Total(counter) \in Nat /\ Added(counter, at[t]) \in Nat
             /\ Rest(counter, at[t]) \in Nat
             /\ Total(counter) = Added(counter, at[t]) + Rest(counter, at[t])
             /\ Summed(t) => Rest(counter, at[t]) = 0
  BY <1>1, AddedAndRest DEF Summed
<1>4. Total(counter) \in Nat
  BY <1>3 DEF Tasks
<1> QED BY <1>1, <1>2, <1>3, <1>4

(* Nothing is measured at first. *)
LEMMA InitMeasure == ASSUME Init, IInv PROVE MeasureInv
<1>1. \A t \in Tasks : sum[t] = 0 /\ at[t] = 1 /\ lo[t] = 0 /\ hi[t] = 0 /\ pc[t] = "idle"
  BY DEF Init
<1>2. lo \in [Tasks -> Nat] /\ hi \in [Tasks -> Nat]
  BY DEF Init
<1>3. SumInv
  <2>1. ASSUME NEW t \in Tasks
        PROVE  /\ sum[t] <= Added(counter, at[t]) /\ lo[t] <= sum[t] + Rest(counter, at[t])
               /\ sum[t] <= hi[t]
    BY <1>1, Parts
  <2>2. pc["warmup"] = "idle" /\ pc["serve"] = "idle"
    BY <1>1 DEF Tasks
  <2> QED BY <1>2, <2>1, <2>2 DEF SumInv
<1>4. SeriesInv
  BY <1>1, Parts, TotalEmpty DEF Init, SeriesInv, Tasks
<1>5. EarlyInv
  BY <1>1, Parts DEF EarlyInv, Tasks
<1>6. ResultInv
  BY DEF Init, ResultInv
<1> QED BY <1>3, <1>4, <1>5, <1>6 DEF MeasureInv

(* A step of the clock, of the client or of a receiver lets time and the   *)
(* counters grow, and no more.                                             *)
LEMMA GrowthStep ==
    ASSUME IInv, IInv', MeasureInv, now <= now', \A s \in Streams : counter[s] <= counter'[s],
           UNCHANGED <<sT0, pc, sumVars, samplerVars, stamp, result>>
    PROVE  MeasureInv'
<1>0. /\ UNCHANGED <<sT0, pc, at, sum, lo, hi, base, last, samples, stamp, result>>
  BY DEF sumVars, samplerVars
<1>1. /\ counter \in Counters /\ counter' \in Counters
      /\ \A t \in Tasks : at[t] \in Positions
  BY DEF IInv, TypeOK, Counters, Positions, Bytes
<1>2. ASSUME NEW t \in Tasks
      PROVE  /\ Added(counter, at[t]) <= Added(counter', at[t])
             /\ Rest(counter, at[t]) <= Rest(counter', at[t])
             /\ Added(counter, at[t]) \in Nat /\ Rest(counter, at[t]) \in Nat
             /\ Added(counter', at[t]) \in Nat /\ Rest(counter', at[t]) \in Nat
  BY <1>1, AddedAndRest, PartsGrow
<1>3. SumInv'
  <2>1. SumInv
    BY DEF MeasureInv
  <2>2. ASSUME NEW t \in Tasks
        PROVE  sum[t] <= Added(counter', at[t]) /\ lo[t] <= sum[t] + Rest(counter', at[t])
    <3>1. sum[t] \in Nat /\ lo[t] \in Nat
      BY <2>1, Parts DEF SumInv
    <3>2. sum[t] <= Added(counter, at[t]) /\ lo[t] <= sum[t] + Rest(counter, at[t])
      BY <2>1 DEF SumInv
    <3> QED BY <1>2, <3>1, <3>2
  <2> QED BY <1>0, <2>1, <2>2 DEF SumInv, Summed
<1>4. SeriesInv'
  <2>1. last <= sum["sampler"] + Rest(counter', at["sampler"])
    <3>1. last <= sum["sampler"] + Rest(counter, at["sampler"])
      BY DEF MeasureInv, SeriesInv
    <3>2. "sampler" \in Tasks /\ sum["sampler"] \in Nat /\ last \in Nat
      BY Parts DEF Tasks
    <3> QED BY <1>2, <3>1, <3>2
  <2> QED BY <1>0, <2>1 DEF MeasureInv, SeriesInv
<1>5. EarlyInv'
  <2>1. /\ pc["warmup"] \in {"sum", "done"} => sT0 # None
        /\ now \in Nat /\ now' \in Nat /\ WarmupSecs \in Nat /\ (sT0 # None => sT0 \in Nat)
    BY TcpAssumption DEF IInv, TypeOK, StartInv
  <2>2. pc["warmup"] \in {"sum", "done"} => now' >= sT0 + WarmupSecs
    BY <2>1 DEF MeasureInv, EarlyInv
  <2>3. "warmup" \in Tasks /\ sum["warmup"] \in Nat /\ sum["serve"] \in Nat
    BY Parts DEF Tasks
  <2>4. sum["serve"] <= sum["warmup"] + Rest(counter, at["warmup"]) =>
        sum["serve"] <= sum["warmup"] + Rest(counter', at["warmup"])
    BY <1>2, <2>3
  <2> QED BY <1>0, <2>2, <2>4 DEF MeasureInv, EarlyInv
<1>6. ResultInv'
  BY <1>0 DEF MeasureInv, ResultInv
<1> QED BY <1>3, <1>4, <1>5, <1>6 DEF MeasureInv

(* A task goes past one more counter: what its sum comes to at least stays *)
(* the same.                                                               *)
LEMMA AddMeasure ==
    ASSUME IInv, MeasureInv, NEW t \in Tasks, Add(t)
    PROVE  MeasureInv'
<1> DEFINE k == at[t]
           x == counter[k]
<1>0. /\ UNCHANGED <<now, counter, sT0, pc, lo, base, last, samples, stamp, result>>
      /\ k <= Parallel /\ pc[t] \in {"base", "sum"}
      /\ at' = [at EXCEPT ![t] = k + 1] /\ sum' = [sum EXCEPT ![t] = sum[t] + x]
      /\ hi' = [hi EXCEPT ![t] = IF t = "sampler" THEN 0 ELSE Total(counter)]
  BY DEF Add, recvVars, samplerVars
<1>1. /\ counter \in Counters /\ Total(counter) \in Nat /\ k \in Positions /\ k + 1 \in Positions
      /\ sum[t] \in Nat /\ Parallel \in Nat /\ k \in Nat
  <2>1. counter \in Counters /\ Total(counter) \in Nat /\ k \in Positions /\ sum[t] \in Nat
    BY Parts
  <2>2. Parallel \in Nat /\ k <= Parallel
    BY <1>0, TcpAssumption
  <2>3. k \in Nat /\ k + 1 \in Positions
    <3> HIDE DEF k
    <3> QED BY <2>1, <2>2 DEF Positions
  <2> QED BY <2>1, <2>2, <2>3
<1>2. /\ x \in Nat /\ Added(counter, k + 1) = Added(counter, k) + x
      /\ Rest(counter, k) = Rest(counter, k + 1) + x
      /\ Added(counter, k) \in Nat /\ Rest(counter, k) \in Nat
      /\ Added(counter, k + 1) \in Nat /\ Rest(counter, k + 1) \in Nat
      /\ Added(counter, k + 1) <= Total(counter)
  BY <1>0, <1>1, AddedAndRest
<1>3. /\ at'[t] = k + 1 /\ sum'[t] = sum[t] + x
      /\ hi'[t] = IF t = "sampler" THEN 0 ELSE Total(counter)
      /\ \A u \in Tasks \ {t} : at'[u] = at[u] /\ sum'[u] = sum[u] /\ hi'[u] = hi[u]
      /\ hi' \in [Tasks -> Nat]
  <2>1. at \in [Tasks -> Positions] /\ sum \in [Tasks -> Nat] /\ hi \in [Tasks -> Nat]
    BY DEF IInv, TypeOK, Positions, MeasureInv, SumInv
  <2> HIDE DEF k, x
  <2> QED BY <1>0, <1>1, <2>1
<1> HIDE DEF k, x
<1>4. ASSUME NEW u \in Tasks
      PROVE  sum'[u] + Rest(counter, at'[u]) = sum[u] + Rest(counter, at[u])
  <2>1. CASE u = t
    BY <1>1, <1>2, <1>3, <2>1 DEF k
  <2>2. CASE u # t
    BY <1>3, <2>2
  <2> QED BY <2>1, <2>2
<1>5. SumInv'
  <2>1. SumInv
    BY DEF MeasureInv
  <2>2. sum[t] <= Added(counter, k) /\ lo[t] \in Nat
    BY <2>1 DEF SumInv, k
  <2>3. /\ sum'[t] <= Added(counter, at'[t])
        /\ t # "sampler" => sum'[t] <= hi'[t]
    BY <1>1, <1>2, <1>3, <2>2
  <2>4. ASSUME NEW u \in Tasks
        PROVE  /\ sum'[u] <= Added(counter, at'[u]) /\ lo[u] <= sum'[u] + Rest(counter, at'[u])
               /\ u # "sampler" => sum'[u] <= hi'[u]
    <3>1. lo[u] <= sum'[u] + Rest(counter, at'[u])
      BY <1>4, <2>1 DEF SumInv
    <3>2. CASE u = t
      BY <2>3, <3>1, <3>2
    <3>3. CASE u # t
      BY <1>3, <2>1, <3>1, <3>3 DEF SumInv
    <3> QED BY <3>2, <3>3
  <2>5. (pc["warmup"] = "done" => t # "warmup") /\ (pc["serve"] \in {"join", "done"} => t # "serve")
    BY <1>0
  <2>6. (pc["warmup"] = "done" => at'["warmup"] > Parallel)
        /\ (pc["serve"] \in {"join", "done"} => at'["serve"] > Parallel)
    BY <1>3, <2>1, <2>5 DEF SumInv, Summed, Tasks
  <2> QED BY <1>0, <1>3, <2>1, <2>4, <2>6 DEF SumInv, Summed
<1>6. SeriesInv'
  <2>1. "sampler" \in Tasks
    BY DEF Tasks
  <2> QED BY <1>0, <1>4, <2>1 DEF MeasureInv, SeriesInv
<1>7. EarlyInv'
  <2>1. "warmup" \in Tasks /\ "serve" \in Tasks
    BY DEF Tasks
  <2>2. /\ pc["serve"] \in {"join", "done"} => sum'["serve"] = sum["serve"]
        /\ pc["warmup"] \in {"idle", "sleep"} => sum'["warmup"] = sum["warmup"] /\ at'["warmup"] = at["warmup"]
    BY <1>0, <1>3, <2>1
  <2> QED BY <1>0, <1>4, <2>1, <2>2 DEF MeasureInv, EarlyInv
<1>8. ResultInv'
  <2>1. pc["warmup"] = "done" /\ pc["serve"] = "done" =>
          sum'["serve"] = sum["serve"] /\ sum'["warmup"] = sum["warmup"]
    BY <1>0, <1>3 DEF Tasks
  <2> QED BY <1>0, <2>1 DEF MeasureInv, ResultInv
<1> QED BY <1>5, <1>6, <1>7, <1>8 DEF MeasureInv
(* A task's sum begins again: it will come to the counters' total. *)
LEMMA SumBegins ==
    ASSUME IInv, SumInv, NEW t \in Tasks,
           at' = [at EXCEPT ![t] = 1], sum' = [sum EXCEPT ![t] = 0], counter' = counter, hi' = hi,
           \/ lo' = lo
           \/ lo' = [lo EXCEPT ![t] = IF t = "sampler" THEN 0 ELSE Total(counter)]
    PROVE  /\ lo' \in [Tasks -> Nat] /\ hi' \in [Tasks -> Nat]
           /\ \A u \in Tasks : /\ sum'[u] <= Added(counter', at'[u])
                               /\ lo'[u] <= sum'[u] + Rest(counter', at'[u])
                               /\ u # "sampler" => sum'[u] <= hi'[u]
           /\ at'[t] = 1 /\ sum'[t] = 0 /\ Rest(counter', at'[t]) = Total(counter)
           /\ \A u \in Tasks \ {t} : at'[u] = at[u] /\ sum'[u] = sum[u]
<1>1. /\ at \in [Tasks -> Positions] /\ sum \in [Tasks -> Nat]
      /\ lo \in [Tasks -> Nat] /\ hi \in [Tasks -> Nat] /\ 1 \in Positions
      /\ counter \in Counters /\ Total(counter) \in Nat
  <2>1. 1 \in Positions
    BY TcpAssumption DEF Positions
  <2>2. at \in [Tasks -> Positions] /\ sum \in [Tasks -> Nat]
    BY DEF IInv, TypeOK, Positions
  <2> QED BY <2>1, <2>2, Parts DEF SumInv
<1>2. /\ at'[t] = 1 /\ sum'[t] = 0
      /\ \A u \in Tasks \ {t} : at'[u] = at[u] /\ sum'[u] = sum[u]
  BY <1>1
<1>3. Added(counter, 1) = 0 /\ Rest(counter, 1) = Total(counter)
  BY <1>1, AddedAndRest
<1>4. /\ lo' \in [Tasks -> Nat] /\ \A u \in Tasks \ {t} : lo'[u] = lo[u]
      /\ lo'[t] <= Total(counter)
  <2>1. CASE lo' = lo
    <3>1. /\ sum[t] <= Added(counter, at[t]) /\ lo[t] <= sum[t] + Rest(counter, at[t])
          /\ Total(counter) = Added(counter, at[t]) + Rest(counter, at[t])
          /\ lo[t] \in Nat /\ sum[t] \in Nat /\ Added(counter, at[t]) \in Nat /\ Rest(counter, at[t]) \in Nat
      BY <1>1, Parts DEF SumInv
    <3> QED BY <1>1, <2>1, <3>1
  <2>2. CASE lo' = [lo EXCEPT ![t] = IF t = "sampler" THEN 0 ELSE Total(counter)]
    BY <1>1, <2>2
  <2> QED BY <2>1, <2>2
<1>5. ASSUME NEW u \in Tasks
      PROVE  /\ sum'[u] <= Added(counter, at'[u]) /\ lo'[u] <= sum'[u] + Rest(counter, at'[u])
             /\ u # "sampler" => sum'[u] <= hi'[u]
  <2>1. CASE u = t
    <3>1. hi[t] \in Nat /\ lo'[t] \in Nat
      BY <1>1, <1>4
    <3> QED BY <1>1, <1>2, <1>3, <1>4, <2>1, <3>1
  <2>2. CASE u # t
    BY <1>2, <1>4, <2>2 DEF SumInv
  <2> QED BY <2>1, <2>2
<1> QED BY <1>1, <1>2, <1>3, <1>4, <1>5

(* `serve` takes t0. *)
LEMMA StartMeasure == ASSUME IInv, MeasureInv, SStart PROVE MeasureInv'
<1>0. /\ UNCHANGED <<now, counter, at, sum, lo, hi, base, last, samples, stamp, result>>
      /\ pc["sampler"] = "idle" /\ pc["warmup"] = "idle" /\ pc["serve"] = "idle"
      /\ pc'["sampler"] = "begin" /\ pc'["warmup"] = "sleep" /\ pc'["serve"] = "run"
  BY DEF SStart, ServerOnly, recvVars, sumVars, samplerVars, IInv, StartInv
<1>1. SumInv' /\ SeriesInv' /\ ResultInv'
  BY <1>0 DEF MeasureInv, SumInv, SeriesInv, ResultInv, Summed
<1>2. EarlyInv'
  BY <1>0 DEF MeasureInv, EarlyInv
<1> QED BY <1>1, <1>2 DEF MeasureInv

(* The sampler begins a sum, or uses the one it has finished. *)
LEMMA SamplerMeasure ==
    ASSUME IInv, MeasureInv, MBegin \/ MBase \/ MTick \/ MSample
    PROVE  MeasureInv'
<1>0. /\ UNCHANGED <<now, counter, sT0, stamp, result, hi>>
      /\ at' = [at EXCEPT !["sampler"] = 1] /\ sum' = [sum EXCEPT !["sampler"] = 0]
      /\ \/ lo' = lo
         \/ lo' = [lo EXCEPT !["sampler"] = IF "sampler" = "sampler" THEN 0 ELSE Total(counter)]
  BY DEF MBegin, MBase, MTick, MSample, StartSum, Forget, ServerOnly, recvVars
<1>1. /\ pc'["warmup"] = pc["warmup"] /\ pc'["serve"] = pc["serve"]
      /\ "sampler" \in Tasks /\ "warmup" \in Tasks \ {"sampler"} /\ "serve" \in Tasks \ {"sampler"}
  BY DEF MBegin, MBase, MTick, MSample, Goto, IInv, TypeOK, Tasks
<1>2. SumInv
  BY DEF MeasureInv
<1>3. /\ lo' \in [Tasks -> Nat] /\ hi' \in [Tasks -> Nat]
      /\ \A u \in Tasks : /\ sum'[u] <= Added(counter', at'[u])
                          /\ lo'[u] <= sum'[u] + Rest(counter', at'[u])
                          /\ u # "sampler" => sum'[u] <= hi'[u]
      /\ sum'["sampler"] = 0 /\ Rest(counter', at'["sampler"]) = Total(counter)
      /\ \A u \in Tasks \ {"sampler"} : at'[u] = at[u] /\ sum'[u] = sum[u]
  BY <1>0, <1>1, <1>2, SumBegins
<1>4. at'["warmup"] = at["warmup"] /\ sum'["warmup"] = sum["warmup"]
      /\ at'["serve"] = at["serve"] /\ sum'["serve"] = sum["serve"]
  BY <1>1, <1>3
<1>5. SumInv'
  BY <1>1, <1>2, <1>3, <1>4 DEF SumInv, Summed
<1>6. EarlyInv' /\ ResultInv'
  BY <1>0, <1>1, <1>4 DEF MeasureInv, EarlyInv, ResultInv
<1>7. SeriesInv'
  <2>0. /\ last \in Nat /\ base \in Nat /\ Total(counter) \in Nat /\ sum["sampler"] \in Nat
        /\ samples \in Seq(Nat) /\ Total(samples) \in Nat
        /\ last <= sum["sampler"] + Rest(counter, at["sampler"])
        /\ sum["sampler"] <= Added(counter, at["sampler"])
        /\ Added(counter, at["sampler"]) \in Nat /\ Rest(counter, at["sampler"]) \in Nat
        /\ Total(counter) = Added(counter, at["sampler"]) + Rest(counter, at["sampler"])
        /\ Summed("sampler") => Rest(counter, at["sampler"]) = 0
        /\ base + Total(samples) = last
    BY <1>1, <1>2, Parts, PartialSumsAre DEF MeasureInv, SeriesInv, SumInv
  <2>1. last <= Total(counter) /\ sum["sampler"] <= Total(counter)
    BY <2>0
  <2>2. pc \in [Tasks -> {"idle", "begin", "base", "wait", "sleep", "run", "sum", "join", "done"}]
    BY DEF IInv, TypeOK
  <2>3. CASE MBegin \/ MTick
    <3>1. UNCHANGED <<base, last, samples>> /\ (MBegin => pc["sampler"] = "begin")
          /\ (MTick => pc'["sampler"] = "sum")
      BY <1>1, <2>2, <2>3 DEF MBegin, MTick, Goto
    <3>2. pc'["sampler"] \in {"idle", "begin", "base"} => base = 0 /\ last = 0
      BY <2>3, <3>1 DEF MeasureInv, SeriesInv
    <3>3. last <= 0 + Total(counter)
      BY <2>0, <2>1
    <3> QED BY <1>0, <1>3, <2>0, <3>1, <3>2, <3>3 DEF SeriesInv
  <2>4. CASE MBase
    <3>1. /\ pc["sampler"] = "base" /\ pc'["sampler"] = "wait" /\ samples' = samples
          /\ base' = sum["sampler"] /\ last' = sum["sampler"]
      BY <1>1, <2>2, <2>4 DEF MBase, Goto
    <3>2. Total(samples) = 0
      BY <2>0, <3>1 DEF MeasureInv, SeriesInv
    <3>3. sum["sampler"] <= 0 + Total(counter) /\ sum["sampler"] + 0 = sum["sampler"]
      BY <2>0, <2>1
    <3> QED BY <1>0, <1>3, <3>1, <3>2, <3>3 DEF SeriesInv
  <2>5. CASE MSample
    <3> DEFINE e == SaturatingSub(sum["sampler"], last)
    <3>1. /\ pc'["sampler"] \in {"wait", "done"} /\ samples' = Append(samples, e) /\ base' = base
          /\ last' = sum["sampler"] /\ Summed("sampler")
      BY <1>1, <2>2, <2>5 DEF MSample, Goto, LastBytes
    <3>2. e \in Nat /\ last + e = sum["sampler"]
      BY <2>0, <3>1 DEF SaturatingSub
    <3> HIDE DEF e
    <3>3. Total(samples') = Total(samples) + e
      BY <2>0, <3>1, <3>2, TotalAppend
    <3>4. base + (Total(samples) + e) = sum["sampler"] /\ sum["sampler"] <= 0 + Total(counter)
      <4> DEFINE n == Total(samples)
                 c == Total(counter)
                 s == sum["sampler"]
      <4>1. base \in Nat /\ n \in Nat /\ last \in Nat /\ s \in Nat /\ c \in Nat
        BY <2>0
      <4>2. base + n = last /\ last + e = s /\ s <= c
        BY <2>0, <2>1, <3>2
      <4> HIDE DEF n, c, s
      <4>3. base + (n + e) = s /\ s <= 0 + c
        BY <3>2, <4>1, <4>2
      <4> QED BY <4>3 DEF n, c, s
    <3> QED BY <1>0, <1>3, <3>1, <3>3, <3>4 DEF SeriesInv
  <2> QED BY <2>3, <2>4, <2>5
<1> QED BY <1>5, <1>6, <1>7 DEF MeasureInv
(* The warm-up snapshot and `serve` begin their sums, time them and use    *)
(* them.                                                                   *)
LEMMA ReportMeasure ==
    ASSUME IInv, MeasureInv, WWake \/ WStamp \/ SStop \/ SStamp \/ SResult
    PROVE  MeasureInv'
<1>0. /\ UNCHANGED <<now, counter, sT0, base, last, samples>>
      /\ SumInv /\ SeriesInv /\ EarlyInv /\ ResultInv
      /\ pc \in [Tasks -> {"idle", "begin", "base", "wait", "sleep", "run", "sum", "join", "done"}]
      /\ {"sampler", "warmup", "serve"} = Tasks
  BY DEF WWake, WStamp, SStop, SStamp, SResult, ServerOnly, recvVars, samplerVars,
         MeasureInv, IInv, TypeOK, Tasks
<1>1. /\ now \in Nat /\ WarmupSecs \in Nat
      /\ sum["warmup"] \in Nat /\ sum["serve"] \in Nat /\ Total(counter) \in Nat
      /\ stamp \in [{"warmup", "serve"} -> Nat]
  BY <1>0, Parts DEF IInv, TypeOK
<1>2. CASE WWake
  <2>1. /\ pc["warmup"] = "sleep" /\ now >= sT0 + WarmupSecs
        /\ at' = [at EXCEPT !["warmup"] = 1] /\ sum' = [sum EXCEPT !["warmup"] = 0]
        /\ lo' = [lo EXCEPT !["warmup"] = IF "warmup" = "sampler" THEN 0 ELSE Total(counter)]
        /\ hi' = hi /\ UNCHANGED <<stamp, result>>
        /\ pc'["warmup"] = "sum" /\ pc'["sampler"] = pc["sampler"] /\ pc'["serve"] = pc["serve"]
    BY <1>0, <1>2 DEF WWake, StartSum, Goto
  <2>2. /\ lo' \in [Tasks -> Nat] /\ hi' \in [Tasks -> Nat]
        /\ \A u \in Tasks : /\ sum'[u] <= Added(counter', at'[u])
                            /\ lo'[u] <= sum'[u] + Rest(counter', at'[u])
                            /\ u # "sampler" => sum'[u] <= hi'[u]
        /\ at'["warmup"] = 1 /\ sum'["warmup"] = 0
        /\ \A u \in Tasks \ {"warmup"} : at'[u] = at[u] /\ sum'[u] = sum[u]
    BY <1>0, <2>1, SumBegins
  <2>3. /\ at'["serve"] = at["serve"] /\ sum'["serve"] = sum["serve"]
        /\ at'["sampler"] = at["sampler"] /\ sum'["sampler"] = sum["sampler"]
        /\ at["warmup"] = 1 /\ sum["warmup"] = 0
    BY <1>0, <2>1, <2>2 DEF EarlyInv
  <2>4. SumInv'
    BY <1>0, <2>1, <2>2, <2>3 DEF SumInv, Summed
  <2>5. SeriesInv'
    BY <1>0, <2>1, <2>3 DEF SeriesInv
  <2>6. EarlyInv'
    BY <1>0, <2>1, <2>2, <2>3 DEF EarlyInv
  <2>7. ResultInv'
    BY <1>0, <2>1 DEF ResultInv
  <2> QED BY <2>4, <2>5, <2>6, <2>7 DEF MeasureInv
<1>3. CASE SStop
  <2>1. /\ pc["serve"] = "run"
        /\ at' = [at EXCEPT !["serve"] = 1] /\ sum' = [sum EXCEPT !["serve"] = 0]
        /\ lo' = [lo EXCEPT !["serve"] = IF "serve" = "sampler" THEN 0 ELSE Total(counter)]
        /\ hi' = hi /\ UNCHANGED <<stamp, result>>
        /\ pc'["serve"] = "sum" /\ pc'["sampler"] = pc["sampler"] /\ pc'["warmup"] = pc["warmup"]
    BY <1>0, <1>3 DEF SStop, StartSum, Goto
  <2>2. /\ lo' \in [Tasks -> Nat] /\ hi' \in [Tasks -> Nat]
        /\ \A u \in Tasks : /\ sum'[u] <= Added(counter', at'[u])
                            /\ lo'[u] <= sum'[u] + Rest(counter', at'[u])
                            /\ u # "sampler" => sum'[u] <= hi'[u]
        /\ \A u \in Tasks \ {"serve"} : at'[u] = at[u] /\ sum'[u] = sum[u]
    BY <1>0, <2>1, SumBegins
  <2>3. /\ at'["warmup"] = at["warmup"] /\ sum'["warmup"] = sum["warmup"]
        /\ at'["sampler"] = at["sampler"] /\ sum'["sampler"] = sum["sampler"]
    BY <1>0, <2>2
  <2>4. SumInv'
    BY <1>0, <2>1, <2>2, <2>3 DEF SumInv, Summed
  <2>5. SeriesInv' /\ EarlyInv'
    BY <1>0, <2>1, <2>3 DEF SeriesInv, EarlyInv
  <2>6. ResultInv'
    BY <1>0, <2>1 DEF ResultInv
  <2> QED BY <2>4, <2>5, <2>6 DEF MeasureInv
<1>4. CASE WStamp
  <2>1. /\ pc["warmup"] = "sum" /\ Summed("warmup") /\ UNCHANGED <<at, sum, lo, hi, result>>
        /\ pc'["warmup"] = "done" /\ pc'["sampler"] = pc["sampler"] /\ pc'["serve"] = pc["serve"]
        /\ stamp'["warmup"] = now /\ stamp'["serve"] = stamp["serve"]
    BY <1>0, <1>1, <1>4 DEF WStamp, Goto, sumVars
  <2>2. SumInv' /\ SeriesInv'
    BY <1>0, <2>1 DEF SumInv, SeriesInv, Summed
  <2>3. EarlyInv'
    BY <1>0, <2>1 DEF EarlyInv
  <2>4. ResultInv'
    BY <1>0, <2>1 DEF ResultInv
  <2> QED BY <2>2, <2>3, <2>4 DEF MeasureInv
<1>5. CASE SStamp
  <2>1. /\ pc["serve"] = "sum" /\ Summed("serve") /\ UNCHANGED <<at, sum, lo, hi, result>>
        /\ pc'["serve"] = "join" /\ pc'["sampler"] = pc["sampler"] /\ pc'["warmup"] = pc["warmup"]
        /\ stamp'["serve"] = now /\ stamp'["warmup"] = stamp["warmup"]
    BY <1>0, <1>1, <1>5 DEF SStamp, Goto, sumVars
  <2>2. SumInv' /\ SeriesInv'
    BY <1>0, <2>1 DEF SumInv, SeriesInv, Summed
  <2>3. EarlyInv'
    <3>1. ASSUME now < sT0 + WarmupSecs
          PROVE  sum["serve"] <= sum["warmup"] + Rest(counter, at["warmup"])
      <4>1. sT0 # None
        BY <2>1 DEF IInv, StartInv
      <4>2. sT0 \in Nat
        BY <4>1, Parts
      <4>3. ~(now >= sT0 + WarmupSecs)
        BY <1>1, <3>1, <4>2
      <4>4. sum["warmup"] = 0 /\ at["warmup"] = 1
        BY <1>0, <4>3 DEF EarlyInv
      <4>5. Rest(counter, 1) = Total(counter)
        BY AddedAndRest, Parts, <1>0, <4>4
      <4>6. sum["serve"] <= Added(counter, at["serve"]) /\ Added(counter, at["serve"]) \in Nat
            /\ Rest(counter, at["serve"]) \in Nat
            /\ Total(counter) = Added(counter, at["serve"]) + Rest(counter, at["serve"])
        BY <1>0, Parts DEF SumInv
      <4> QED BY <1>1, <4>4, <4>5, <4>6
    <3> QED BY <1>0, <2>1, <3>1 DEF EarlyInv
  <2>4. ResultInv'
    BY <1>0, <2>1 DEF ResultInv
  <2> QED BY <2>2, <2>3, <2>4 DEF MeasureInv
<1>6. CASE SResult
  <2>1. /\ pc["serve"] = "join" /\ pc["warmup"] = "done" /\ UNCHANGED <<at, sum, lo, hi, stamp>>
        /\ pc'["serve"] = "done" /\ pc'["sampler"] = pc["sampler"] /\ pc'["warmup"] = pc["warmup"]
        /\ result' = [bytes |-> Measured(sum["serve"], sum["warmup"]),
                      secs  |-> Measured(stamp["serve"], stamp["warmup"])]
    BY <1>0, <1>6 DEF SResult, Joined, Goto, sumVars
  <2>2. SumInv' /\ SeriesInv'
    BY <1>0, <2>1 DEF SumInv, SeriesInv, Summed
  <2>3. EarlyInv'
    BY <1>0, <2>1 DEF EarlyInv
  <2>4. ResultInv'
    BY <1>0, <2>1 DEF ResultInv
  <2> QED BY <2>2, <2>3, <2>4 DEF MeasureInv
<1> QED BY <1>2, <1>3, <1>4, <1>5, <1>6

(* Every step, and a stutter, keeps the measurement sound. *)
LEMMA NextMeasure == ASSUME IInv, IInv', MeasureInv, [Next]_vars PROVE MeasureInv'
<1>0. /\ now \in Nat /\ \A s \in Streams : counter[s] \in Nat /\ hand[s] \in Nat
      /\ counter \in [Streams -> Bytes]
  BY DEF IInv, TypeOK, Bytes
<1>1. CASE UNCHANGED vars
  BY <1>0, <1>1, GrowthStep DEF vars, recvVars
<1>2. CASE Clock
  BY <1>0, <1>2, GrowthStep DEF Clock, recvVars
<1>3. CASE CStart \/ CStop \/ CGone
  BY <1>0, <1>3, GrowthStep DEF CStart, CStop, CGone, ClientOnly, recvVars
<1>4. ASSUME NEW s \in Streams,
             CFill(s) \/ CWrite(s) \/ CSenderEnds(s) \/ CSenderBreaks(s) \/ RRead(s) \/ REnd(s)
      PROVE  MeasureInv'
  <2>1. UNCHANGED <<now, counter, sT0, pc, sumVars, samplerVars, stamp, result>>
    BY <1>4, Zenon DEF CFill, CWrite, CSenderEnds, CSenderBreaks, SenderLeaves, RRead, REnd,
                       ClientOnly, RecvOnly, recvVars
  <2> QED BY <1>0, <2>1, GrowthStep
<1>5. ASSUME NEW s \in Streams, RCount(s) PROVE MeasureInv'
  <2>1. \A u \in Streams : counter[u] <= counter'[u]
    BY <1>0, <1>5 DEF RCount
  <2> QED BY <1>0, <1>5, <2>1, GrowthStep DEF RCount, RecvOnly
<1> QED
  BY <1>1, <1>2, <1>3, <1>4, <1>5, StartMeasure, SamplerMeasure, ReportMeasure, AddMeasure
  DEF Next, Finished

(* What is measured is always sound. *)
LEMMA Measurement == Spec => [](IInv /\ MeasureInv)
<1>1. Init => IInv /\ MeasureInv
  BY InitIInv, InitMeasure
<1>2. IInv /\ MeasureInv /\ [Next]_vars => (IInv /\ MeasureInv)'
  BY NextIInv, NextMeasure
<1> QED BY <1>1, <1>2, PTL DEF Spec

(* sum_bytes over moving counters: the bytes reported lie between what the *)
(* window must have had and what it can have had.                          *)
THEOREM WindowIsMeasured == Spec => []WindowBytes
<1>1. IInv /\ MeasureInv => WindowBytes
  <2> SUFFICES ASSUME IInv, MeasureInv, result # None PROVE WindowBytes
    BY DEF WindowBytes
  <2>1. /\ result.bytes = SaturatingSub(sum["serve"], sum["warmup"])
        /\ Summed("serve") /\ Summed("warmup") /\ "serve" \in Tasks /\ "warmup" \in Tasks
    BY DEF MeasureInv, ResultInv, SumInv, Measured, Tasks
  <2>2. /\ Rest(counter, at["serve"]) = 0 /\ Rest(counter, at["warmup"]) = 0
        /\ sum["serve"] \in Nat /\ sum["warmup"] \in Nat
    BY <2>1, Parts
  <2>3. /\ lo["serve"] <= sum["serve"] + Rest(counter, at["serve"]) /\ sum["serve"] <= hi["serve"]
        /\ lo["warmup"] <= sum["warmup"] + Rest(counter, at["warmup"]) /\ sum["warmup"] <= hi["warmup"]
        /\ lo["serve"] \in Nat /\ hi["serve"] \in Nat /\ lo["warmup"] \in Nat /\ hi["warmup"] \in Nat
    BY <2>1 DEF MeasureInv, SumInv
  <2>4. \A a, b, c, d \in Nat : a <= c /\ d <= b => SaturatingSub(a, b) <= SaturatingSub(c, d)
    BY DEF SaturatingSub
  <2>5. lo["serve"] <= sum["serve"] /\ lo["warmup"] <= sum["warmup"]
    BY <2>2, <2>3
  <2>6. /\ SaturatingSub(lo["serve"], hi["warmup"]) <= SaturatingSub(sum["serve"], sum["warmup"])
        /\ SaturatingSub(sum["serve"], sum["warmup"]) <= SaturatingSub(hi["serve"], lo["warmup"])
    BY <2>2, <2>3, <2>4, <2>5
  <2>7. \A a, b \in Nat : SaturatingSub(a, b) \in Nat
    BY DEF SaturatingSub
  <2> QED BY <2>1, <2>2, <2>3, <2>6, <2>7 DEF WindowBytes
<1> QED BY <1>1, Measurement, PTL

(* The saturating_sub of run_sampler never saturates, and its samples add  *)
(* up to what has been received since it started.                          *)
THEOREM SeriesIsExact == Spec => []SeriesAddsUp
<1>1. IInv /\ MeasureInv => SeriesAddsUp
  <2> SUFFICES ASSUME IInv, MeasureInv PROVE SeriesAddsUp
    OBVIOUS
  <2>1. /\ base \in Nat /\ last \in Nat /\ Total(samples) \in Nat /\ base + Total(samples) = last
    BY Parts, PartialSumsAre DEF MeasureInv, SeriesInv
  <2>2. /\ last <= sum["sampler"] + Rest(counter, at["sampler"])
        /\ sum["sampler"] <= Added(counter, at["sampler"])
        /\ Total(counter) = Added(counter, at["sampler"]) + Rest(counter, at["sampler"])
        /\ sum["sampler"] \in Nat /\ Added(counter, at["sampler"]) \in Nat
        /\ Rest(counter, at["sampler"]) \in Nat
    BY Parts DEF MeasureInv, SeriesInv, SumInv, Tasks
  <2> QED BY <2>1, <2>2 DEF SeriesAddsUp
<1> QED BY <1>1, Measurement, PTL

(* A run stopped before its warm-up is over reports zero bytes in zero     *)
(* seconds: neither difference of `serve` wraps.                           *)
THEOREM EarlyStopIsEmpty == Spec => []EarlyStopMeasuresNothing
<1>1. IInv /\ MeasureInv => EarlyStopMeasuresNothing
  <2> SUFFICES ASSUME IInv, MeasureInv, result # None, stamp["serve"] < sT0 + WarmupSecs
               PROVE  result = [bytes |-> 0, secs |-> 0]
    BY DEF EarlyStopMeasuresNothing
  <2>1. /\ pc["serve"] = "done" /\ pc["warmup"] = "done"
        /\ result = [bytes |-> SaturatingSub(sum["serve"], sum["warmup"]),
                     secs  |-> SaturatingSub(stamp["serve"], stamp["warmup"])]
    BY DEF MeasureInv, ResultInv, Measured
  <2>2. sT0 \in Nat /\ stamp["serve"] \in Nat /\ stamp["warmup"] \in Nat /\ WarmupSecs \in Nat
    BY <2>1, Parts DEF IInv, StartInv
  <2>3. /\ stamp["warmup"] >= sT0 + WarmupSecs
        /\ sum["serve"] <= sum["warmup"] + Rest(counter, at["warmup"]) /\ Summed("warmup")
    BY <2>1 DEF MeasureInv, EarlyInv, SumInv
  <2>4. /\ Rest(counter, at["warmup"]) = 0 /\ sum["serve"] \in Nat /\ sum["warmup"] \in Nat
    BY <2>3, Parts DEF Tasks
  <2>5. \A a, b \in Nat : a <= b => SaturatingSub(a, b) = 0
    BY DEF SaturatingSub
  <2>6. sum["serve"] <= sum["warmup"] /\ stamp["serve"] <= stamp["warmup"]
    BY <2>2, <2>3, <2>4
  <2> QED BY <2>1, <2>2, <2>4, <2>5, <2>6
<1> QED BY <1>1, Measurement, PTL

=============================================================================
