---------------------------- MODULE CommandLine ----------------------------
(***************************************************************************)
(* From the command line to the parameters of a run: what clap accepts     *)
(* (src/cli.rs), what `main` does with it, the checks `connect` makes      *)
(* before it touches the network, the Negotiate it builds, and what the    *)
(* data path of each side makes of that Negotiate and its Options.         *)
(*                                                                         *)
(* A rate on the command line is a number and an SI suffix; a number is    *)
(* kept exactly, in halves, where the code has an f64.  What happens on    *)
(* the control connection is in ControlSession; here it works or fails.    *)
(***************************************************************************)
EXTENDS Naturals, FiniteSets

CONSTANTS
    Halves,         \* numbers a rate is written with, times two
    Packets,        \* values of --packet
    Windows,        \* values of --duration
    Streams,        \* values of --parallel
    FileSizes,      \* sizes of files given with --file
    Kilo,           \* the SI suffix K (1000)
    U64Max,         \* u64::MAX
    HeaderLen,      \* udp::HEADER_LEN
    DefaultPacket,  \* 1472
    WarmupSecs,     \* WARMUP_SECS
    None

ASSUME CommandLineAssumption ==
    /\ Halves \subseteq Nat /\ Packets \subseteq Nat /\ Windows \subseteq Nat
    /\ Streams \subseteq Nat /\ FileSizes \subseteq Nat
    /\ Kilo \in Nat \ {0} /\ U64Max \in Nat /\ HeaderLen \in Nat \ {0}
    /\ DefaultPacket \in Nat /\ WarmupSecs \in Nat
    /\ None \notin Nat /\ None \notin {"usage", "failure", "success"}

VARIABLES
    args,       \* the command line
    pc,         \* "start", "serve", "check", "connect", "greet", "run", "exit"
    bitrate,    \* opts.bitrate, parsed
    fileLen,    \* file_len, resolved
    neg,        \* the Negotiate sent
    cRun, sRun, \* the parameters each side runs with
    code        \* exit code

vars == <<args, pc, bitrate, fileLen, neg, cRun, sRun, code>>

(* "bad" does not parse as an f64; `power` is the suffix: none, K, M or G. *)
Rates ==
    [kind : {"number"}, halves : Halves, power : 0 .. 3] \cup
    [kind : {"absent", "bad", "negative", "nan", "inf"}, halves : {0}, power : {0, 3}]

CmdLines ==
    [role : SUBSET {"server", "client"}, modes : SUBSET {"tcp", "udp", "file"},
     rate : Rates, packet : Packets, duration : Windows, parallel : Streams,
     file : FileSizes \cup {None}]      \* None: there is no such file

Greater(a, b) == IF a >= b THEN a ELSE b
Least(a, b)   == IF a <= b THEN a ELSE b

(* Mutant: a suffix too small. *)
MultiplierOff(power) == Kilo ^ (IF power = 3 THEN 2 ELSE power)

Multiplier(power) ==
    CASE power = 0 -> 1
      [] power = 1 -> Kilo
      [] power = 2 -> Kilo * Kilo
      [] power = 3 -> Kilo * Kilo * Kilo

(* The cast to u64 rounds down, saturates, and makes zero of NaN. *)
ParseBitrate(r) ==
    CASE r.kind \in {"absent", "bad", "negative"} -> None
      [] r.kind = "nan"    -> 0
      [] r.kind = "inf"    -> U64Max
      [] r.kind = "number" -> Least(U64Max, (r.halves * Multiplier(r.power)) \div 2)

(* The two groups of clap, and the value parser. *)
Accepted(a) ==
    /\ Cardinality(a.role) = 1
    /\ Cardinality(a.modes) <= 1
    /\ a.rate.kind # "absent" => ParseBitrate(a.rate) # None

(* ModeFlags::selected. *)
Selected(modes) ==
    IF "tcp" \in modes THEN "tcp" ELSE IF "udp" \in modes THEN "udp"
    ELSE IF "file" \in modes THEN "file" ELSE None

Init ==
    /\ args \in CmdLines
    /\ pc = "start" /\ bitrate = None /\ fileLen = None
    /\ neg = None /\ cRun = None /\ sRun = None /\ code = None

Exit(c) == pc' = "exit" /\ code' = c

(* Cli::parse, and main's choice of a role. *)
Start ==
    /\ pc = "start"
    /\ IF Accepted(args)
       THEN /\ pc' = IF "server" \in args.role THEN "serve" ELSE "check"
            /\ bitrate' = ParseBitrate(args.rate)
            /\ code' = code
       ELSE Exit("usage") /\ bitrate' = bitrate
    /\ UNCHANGED <<args, fileLen, neg, cRun, sRun>>

(* `serve` only returns with an error: the port is taken, accept fails. *)
ServeFails ==
    /\ pc = "serve"
    /\ Exit("failure")
    /\ UNCHANGED <<args, bitrate, fileLen, neg, cRun, sRun>>

(* What `connect` asks of its options before it connects. *)
Usable(mode) ==
    /\ mode # None
    /\ mode = "udp" => bitrate # None
    /\ mode = "file" => args.file # None

Check ==
    /\ pc = "check"
    /\ LET mode == Selected(args.modes) IN
         IF Usable(mode)
         THEN /\ pc' = "connect" /\ code' = code
              /\ fileLen' = IF mode = "file" THEN args.file ELSE None
         ELSE Exit("failure") /\ fileLen' = fileLen
    /\ UNCHANGED <<args, bitrate, neg, cRun, sRun>>

Connect ==
    /\ pc = "connect"
    /\ pc' = "greet"
    /\ UNCHANGED <<args, bitrate, fileLen, neg, cRun, sRun, code>>

(* Each mode fills only its own fields. *)
NegotiateOf ==
    LET mode == Selected(args.modes) IN
    [mode |-> mode, duration |-> args.duration, parallel |-> args.parallel,
     warmup  |-> IF mode = "file" THEN 0 ELSE WarmupSecs,
     bitrate |-> IF mode = "udp" THEN bitrate ELSE None,
     packet  |-> IF mode = "udp" THEN args.packet ELSE None,
     fileLen |-> fileLen]

Negotiate ==
    /\ pc = "greet"
    /\ neg' = NegotiateOf /\ pc' = "run"
    /\ UNCHANGED <<args, bitrate, fileLen, cRun, sRun, code>>

UnwrapOr(v, default) == IF v = None THEN default ELSE v

U64Add(a, b) == (a + b) % (U64Max + 1)

-----------------------------------------------------------------------------
(* What each data path makes of the Negotiate, side by side. *)

TcpServe(n) == [streams |-> n.parallel, window |-> U64Add(n.duration, n.warmup),
                warmup |-> n.warmup]

TcpDrive(n) == [streams |-> n.parallel, window |-> U64Add(n.duration, n.warmup),
                warmup |-> n.warmup]

(* The receiver has no window; of the rate it only needs to know at which  *)
(* sequence number the warm-up is over, in whole datagrams per second.     *)
UdpServe(n) ==
    LET packet == Greater(UnwrapOr(n.packet, DefaultPacket), HeaderLen)
        pps    == UnwrapOr(n.bitrate, 0) \div Greater(packet * 8, 1)
    IN  [packet |-> packet, warmupPackets |-> pps * n.warmup]

(* Mutant: the sender does not make room for the header. *)
UdpDriveUnpadded(n) ==
    [packet |-> UnwrapOr(n.packet, DefaultPacket),
     rate   |-> UnwrapOr(n.bitrate, Kilo ^ 3),
     window |-> U64Add(n.duration, n.warmup), warmup |-> n.warmup]

(* The sender paces `rate` bits a second for the whole of its window. *)
UdpDrive(n) ==
    [packet |-> Greater(UnwrapOr(n.packet, DefaultPacket), HeaderLen),
     rate   |-> UnwrapOr(n.bitrate, Kilo ^ 3),
     window |-> U64Add(n.duration, n.warmup), warmup |-> n.warmup]

FileServe(n) == [expected |-> UnwrapOr(n.fileLen, 0)]
FileDrive(n) == [total |-> UnwrapOr(n.fileLen, 0)]

ServeOf(n) == CASE n.mode = "tcp"  -> TcpServe(n)
                [] n.mode = "udp"  -> UdpServe(n)
                [] n.mode = "file" -> FileServe(n)

DriveOf(n) == CASE n.mode = "tcp"  -> TcpDrive(n)
                [] n.mode = "udp"  -> UdpDrive(n)
                [] n.mode = "file" -> FileDrive(n)

Serve ==
    /\ neg # None /\ sRun = None
    /\ sRun' = ServeOf(neg)
    /\ UNCHANGED <<args, pc, bitrate, fileLen, neg, cRun, code>>

Drive ==
    /\ pc = "run" /\ cRun = None
    /\ cRun' = DriveOf(neg)
    /\ UNCHANGED <<args, pc, bitrate, fileLen, neg, sRun, code>>

(* The Result is read and printed. *)
Succeed ==
    /\ pc = "run" /\ cRun # None /\ sRun # None
    /\ Exit("success")
    /\ UNCHANGED <<args, bitrate, fileLen, neg, cRun, sRun>>

(* Any `?` of `connect` from the control connection on. *)
Fail ==
    /\ pc \in {"connect", "greet", "run"}
    /\ Exit("failure")
    /\ UNCHANGED <<args, bitrate, fileLen, neg, cRun, sRun>>

Done == pc = "exit" /\ UNCHANGED vars

Next ==
    \/ Start \/ ServeFails \/ Check \/ Connect \/ Negotiate \/ Serve \/ Drive
    \/ Succeed \/ Fail \/ Done

Spec == Init /\ [][Next]_vars

-----------------------------------------------------------------------------
(* Properties. *)

(***************************************************************************)
(* The two sides of a run, each of which works out its parameters for      *)
(* itself and with defaults of its own (a missing rate is 0 to udp::serve  *)
(* and 1G to udp::drive), measure the same thing: as many streams for the  *)
(* same time; as many bytes of the file; and datagrams of one size, of     *)
(* which the server's threshold leaves out what the client sends in its    *)
(* warm-up, to within a datagram for each second of it.                    *)
(***************************************************************************)
SidesAgree ==
    cRun # None /\ sRun # None =>
        CASE neg.mode = "tcp"  -> sRun = cRun
          [] neg.mode = "file" -> sRun.expected = cRun.total
          [] neg.mode = "udp"  ->
               LET bits == cRun.packet * 8
                   sent == cRun.rate * cRun.warmup
               IN  /\ sRun.packet = cRun.packet
                   /\ sRun.warmupPackets * bits <= sent
                   /\ sent < (sRun.warmupPackets + Greater(1, cRun.warmup)) * bits

(* Each SI suffix is Kilo times the one before it. *)
SiFactor[power \in 0 .. 3] == IF power = 0 THEN 1 ELSE Kilo * SiFactor[power - 1]

(* The greatest u64 that is not above the number times its suffix. *)
IsRate(b, r) ==
    IF r.kind = "inf" THEN b = U64Max
    ELSE /\ 2 * b <= r.halves * SiFactor[r.power]
         /\ b < U64Max => 2 * (b + 1) > r.halves * SiFactor[r.power]

(* What a completed run was run with is what its command line says, through *)
(* value parser, checks, Negotiate and defaults: its one mode, the streams, *)
(* the rate as written with its SI suffix, the size of a datagram with room *)
(* for its header, the size of the file.                                    *)
RunAsAsked ==
    code = "success" =>
        /\ args.role = {"client"} /\ args.modes = {neg.mode}
        /\ neg.mode = "tcp" => cRun.streams = args.parallel
        /\ neg.mode = "udp" =>
              /\ args.rate.kind \in {"number", "inf"} => IsRate(cRun.rate, args.rate)
              /\ cRun.packet = Greater(args.packet, HeaderLen)
        /\ neg.mode = "file" => cRun.total = args.file

=============================================================================
