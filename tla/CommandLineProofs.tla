------------------------- MODULE CommandLineProofs -------------------------
(***************************************************************************)
(* Proofs about CommandLine, for every number, packet size, window, file   *)
(* and limit: a run has the parameters its command line asks for, on both  *)
(* sides.                                                                  *)
(***************************************************************************)
EXTENDS CommandLine, FiniteSetTheorems, TLAPS

Mode == Selected(args.modes)

(* What `main` and `connect` have established once they connect. *)
Checked ==
    /\ Accepted(args) /\ "server" \notin args.role /\ Usable(Mode)
    /\ bitrate = ParseBitrate(args.rate)
    /\ fileLen = IF Mode = "file" THEN args.file ELSE None

(* Where the program is, and what is then known of its state. *)
PathInv ==
    /\ args \in CmdLines
    /\ pc = "check" =>
          /\ Accepted(args) /\ "server" \notin args.role
          /\ bitrate = ParseBitrate(args.rate)
    /\ pc \in {"start", "serve", "check", "connect", "greet"} =>
          neg = None /\ cRun = None /\ sRun = None
    /\ pc \in {"connect", "greet"} => Checked
    /\ pc = "run" \/ neg # None \/ cRun # None \/ sRun # None => Checked /\ neg = NegotiateOf

(* Each side's parameters come from the Negotiate alone. *)
RunInv ==
    /\ cRun # None => cRun = DriveOf(neg)
    /\ sRun # None => sRun = ServeOf(neg)
    /\ code = "success" => cRun # None /\ sRun # None

IInv == PathInv /\ RunInv

-----------------------------------------------------------------------------

(* The inductive invariant holds at first. *)
LEMMA InitIInv == Init => IInv
BY CommandLineAssumption DEF Init, IInv, PathInv, RunInv

(* What has been checked stays so, since nothing assigns to the options    *)
(* once they are resolved.                                                 *)
LEMMA Resolved ==
    ASSUME UNCHANGED <<args, bitrate, fileLen>>
    PROVE  Checked' = Checked /\ NegotiateOf' = NegotiateOf
BY DEF Checked, NegotiateOf, Mode, Usable, Accepted, Selected, ParseBitrate

(* The value parser, the choice of a role and the checks of `connect`. *)
LEMMA OptionSteps ==
    ASSUME IInv, Start \/ ServeFails \/ Check
    PROVE  IInv'
<1>1. /\ args' = args /\ UNCHANGED <<neg, cRun, sRun>> /\ neg = None /\ cRun = None /\ sRun = None
      /\ args \in CmdLines
  BY DEF Start, ServeFails, Check, IInv, PathInv
<1>2. RunInv'
  BY <1>1, CommandLineAssumption DEF Start, ServeFails, Check, Exit, IInv, RunInv
<1>3. CASE Start
  <2>1. CASE Accepted(args)
    <3>1. /\ pc' = IF "server" \in args.role THEN "serve" ELSE "check"
          /\ bitrate' = ParseBitrate(args.rate)
      BY <1>3, <2>1 DEF Start
    <3>2. pc' = "check" => Accepted(args)' /\ "server" \notin args'.role /\ bitrate' = ParseBitrate(args.rate)'
      BY <1>1, <2>1, <3>1
    <3> QED BY <1>1, <1>2, <3>1, <3>2 DEF IInv, PathInv
  <2>2. CASE ~Accepted(args)
    <3>1. pc' = "exit"
      BY <1>3, <2>2 DEF Start, Exit
    <3> QED BY <1>1, <1>2, <3>1 DEF IInv, PathInv
  <2> QED BY <2>1, <2>2
<1>4. CASE ServeFails
  <2>1. pc' = "exit"
    BY <1>4 DEF ServeFails, Exit
  <2> QED BY <1>1, <1>2, <2>1 DEF IInv, PathInv
<1>5. CASE Check
  <2>0. bitrate' = bitrate /\ pc = "check"
    BY <1>5 DEF Check
  <2>1. CASE Usable(Mode)
    <3>1. pc' = "connect" /\ fileLen' = IF Mode = "file" THEN args.file ELSE None
      BY <1>5, <2>1 DEF Check, Mode
    <3>2. Accepted(args) /\ "server" \notin args.role /\ bitrate = ParseBitrate(args.rate)
      BY <2>0 DEF IInv, PathInv
    <3>3. Usable(Mode)' /\ Mode' = Mode
      BY <1>1, <2>0, <2>1 DEF Usable, Mode
    <3>4. Checked'
      BY <1>1, <2>0, <3>1, <3>2, <3>3 DEF Checked
    <3> QED BY <1>1, <1>2, <3>1, <3>4 DEF IInv, PathInv
  <2>2. CASE ~Usable(Mode)
    <3>1. pc' = "exit"
      BY <1>5, <2>2 DEF Check, Exit, Mode
    <3> QED BY <1>1, <1>2, <3>1 DEF IInv, PathInv
  <2> QED BY <2>1, <2>2
<1> QED BY <1>3, <1>4, <1>5

(* The steps of a run, which leave the options alone. *)
LEMMA RunSteps ==
    ASSUME IInv, Connect \/ Negotiate \/ Serve \/ Drive \/ Succeed \/ Fail
    PROVE  IInv'
<1>1. UNCHANGED <<args, bitrate, fileLen>>
  BY DEF Connect, Negotiate, Serve, Drive, Succeed, Fail
<1>2. Checked' = Checked /\ NegotiateOf' = NegotiateOf
  BY <1>1, Resolved
<1>3. PathInv'
  BY <1>1, <1>2 DEF Connect, Negotiate, Serve, Drive, Succeed, Fail, Exit, IInv, PathInv
<1>4. RunInv'
  <2>1. CASE Negotiate
    <3>1. cRun = None /\ sRun = None /\ UNCHANGED <<cRun, sRun, code>>
      BY <2>1 DEF Negotiate, IInv, PathInv
    <3> QED BY <3>1 DEF IInv, RunInv
  <2>2. CASE ~Negotiate
    <3>1. neg' = neg
      BY <2>2 DEF Connect, Serve, Drive, Succeed, Fail
    <3>2. ServeOf(neg)' = ServeOf(neg) /\ DriveOf(neg)' = DriveOf(neg)
      BY <3>1
    <3> QED BY <2>2, <3>2, CommandLineAssumption DEF Connect, Serve, Drive, Succeed, Fail, Exit, IInv, RunInv
  <2> QED BY <2>1, <2>2
<1> QED BY <1>3, <1>4 DEF IInv

(* Every step, and a stutter, preserves the inductive invariant. *)
LEMMA NextIInv == IInv /\ [Next]_vars => IInv'
<1> SUFFICES ASSUME IInv, [Next]_vars PROVE IInv'
  OBVIOUS
<1>1. CASE UNCHANGED vars
  <2>1. UNCHANGED <<args, pc, bitrate, fileLen, neg, cRun, sRun, code>>
    BY <1>1 DEF vars
  <2>2. Checked' = Checked /\ NegotiateOf' = NegotiateOf
    BY <2>1, Resolved
  <2>3. PathInv'
    BY <2>1, <2>2 DEF IInv, PathInv
  <2>4. RunInv'
    BY <2>1 DEF IInv, RunInv
  <2> QED BY <2>3, <2>4 DEF IInv
<1> QED BY <1>1, OptionSteps, RunSteps DEF Next, Done

(* The inductive invariant always holds. *)
LEMMA Invariance == Spec => []IInv
BY InitIInv, NextIInv, PTL DEF Spec

-----------------------------------------------------------------------------

(* A mode that is usable is one the command line has, and no other. *)
LEMMA OneMode ==
    ASSUME args \in CmdLines, Accepted(args), Mode # None
    PROVE  args.modes = {Mode} /\ Mode \in {"tcp", "udp", "file"}
<1>1. args.modes \subseteq {"tcp", "udp", "file"} /\ Cardinality(args.modes) <= 1
  BY DEF CmdLines, Accepted
<1>2. Mode \in args.modes
  BY DEF Mode, Selected
<1>3. IsFiniteSet(args.modes)
  <2>1. IsFiniteSet({"tcp", "udp", "file"})
    <3>1. IsFiniteSet({"tcp"} \cup {"udp"} \cup {"file"})
      BY FS_Singleton, FS_Union
    <3>2. {"tcp"} \cup {"udp"} \cup {"file"} = {"tcp", "udp", "file"}
      OBVIOUS
    <3> QED BY <3>1, <3>2
  <2> QED BY <1>1, <2>1, FS_Subset
<1>4. ASSUME NEW m \in args.modes, m # Mode PROVE FALSE
  <2>1. Cardinality({m, Mode}) = 2
    <3>1. IsFiniteSet({m}) /\ Cardinality({m}) = 1
      BY FS_Singleton
    <3>2. Cardinality({m} \cup {Mode}) = Cardinality({m}) + 1
      BY <1>4, <3>1, FS_AddElement
    <3>3. {m} \cup {Mode} = {m, Mode}
      OBVIOUS
    <3> QED BY <3>1, <3>2, <3>3
  <2>2. {m, Mode} \in SUBSET args.modes
    BY <1>2, <1>4
  <2>3. Cardinality({m, Mode}) <= Cardinality(args.modes)
    BY <1>3, <2>2, FS_Subset
  <2>4. Cardinality(args.modes) \in Nat
    BY <1>3, FS_CardinalityType
  <2> QED BY <1>1, <2>1, <2>3, <2>4
<1> QED BY <1>1, <1>2, <1>4

(* A command line that is no server's is a client's. *)
LEMMA OneRole ==
    ASSUME args \in CmdLines, Accepted(args), "server" \notin args.role
    PROVE  args.role = {"client"}
<1>1. args.role \subseteq {"server", "client"} /\ Cardinality(args.role) = 1
  BY DEF CmdLines, Accepted
<1>2. args.role # {}
  BY <1>1, FS_EmptySet
<1> QED BY <1>1, <1>2

(* The table of suffixes in parse_bitrate is that of the SI factors. *)
LEMMA Suffixes ==
    \A power \in 0 .. 3 : Multiplier(power) \in Nat /\ SiFactor[power] = Multiplier(power)
<1> DEFINE Rec(g) == [p \in 0 .. 3 |-> IF p = 0 THEN 1 ELSE Kilo * g[p - 1]]
           table  == [p \in 0 .. 3 |-> Multiplier(p)]
<1>1. /\ Kilo \in Nat /\ Kilo * Kilo \in Nat /\ Kilo * Kilo * Kilo \in Nat
      /\ Kilo * 1 = Kilo /\ Kilo * (Kilo * Kilo) = Kilo * Kilo * Kilo
  BY CommandLineAssumption
<1>2. /\ Multiplier(0) = 1 /\ Multiplier(1) = Kilo /\ Multiplier(2) = Kilo * Kilo
      /\ Multiplier(3) = Kilo * Kilo * Kilo
  BY DEF Multiplier
<1>3. 0 .. 3 = {0, 1, 2, 3} /\ 1 - 1 = 0 /\ 2 - 1 = 1 /\ 3 - 1 = 2
  OBVIOUS
<1>4. table = Rec(table)
  <2>1. \A p \in 0 .. 3 : Multiplier(p) = IF p = 0 THEN 1 ELSE Kilo * table[p - 1]
    BY <1>1, <1>2, <1>3
  <2> QED BY <2>1
<1>5. SiFactor = CHOOSE g : g = Rec(g)
  BY DEF SiFactor
<1> HIDE DEF Rec, table
<1>6. SiFactor = Rec(SiFactor)
  BY <1>4, <1>5
<1>7. /\ SiFactor[0] = 1 /\ SiFactor[1] = Kilo * SiFactor[0] /\ SiFactor[2] = Kilo * SiFactor[1]
      /\ SiFactor[3] = Kilo * SiFactor[2]
  <2>1. \A p \in 0 .. 3 : SiFactor[p] = IF p = 0 THEN 1 ELSE Kilo * SiFactor[p - 1]
    BY <1>6 DEF Rec
  <2> QED BY <1>3, <2>1
<1>8. /\ SiFactor[1] = Kilo /\ SiFactor[2] = Kilo * Kilo /\ SiFactor[3] = Kilo * Kilo * Kilo
  BY <1>1, <1>7
<1> QED BY <1>1, <1>2, <1>3, <1>7, <1>8

(* The cast of parse_bitrate rounds down, and saturates at the limit. *)
LEMMA ParsedRate ==
    ASSUME args \in CmdLines, args.rate.kind \in {"number", "inf"}
    PROVE  IsRate(ParseBitrate(args.rate), args.rate)
<1>0. CASE args.rate.kind = "inf"
  BY <1>0 DEF ParseBitrate, IsRate
<1>1. CASE args.rate.kind = "number"
  <2> DEFINE n == args.rate.halves * Multiplier(args.rate.power)
             d == n \div 2
  <2>1. args.rate.halves \in Nat /\ args.rate.power \in 0 .. 3
    <3>1. args.rate \in [kind : {"number"}, halves : Halves, power : 0 .. 3]
      BY <1>1 DEF CmdLines, Rates
    <3>2. args.rate.halves \in Halves /\ args.rate.power \in 0 .. 3
      BY <3>1
    <3> QED BY <3>2, CommandLineAssumption
  <2>2. n \in Nat /\ SiFactor[args.rate.power] = Multiplier(args.rate.power)
    BY <2>1, Suffixes
  <2>3. ParseBitrate(args.rate) = Least(U64Max, d)
    BY <1>1 DEF ParseBitrate
  <2> HIDE DEF n
  <2>4. d \in Nat /\ 2 * d <= n /\ n < 2 * (d + 1)
    BY <2>2
  <2> HIDE DEF d
  <2>5. /\ 2 * Least(U64Max, d) <= n
        /\ Least(U64Max, d) < U64Max => 2 * (Least(U64Max, d) + 1) > n
    BY <2>2, <2>4, CommandLineAssumption DEF Least
  <2> QED BY <1>1, <2>2, <2>3, <2>5 DEF IsRate, n
<1> QED BY <1>0, <1>1

(* A rate the value parser lets through is a u64. *)
LEMMA RateIsNat ==
    ASSUME args \in CmdLines, ParseBitrate(args.rate) # None
    PROVE  ParseBitrate(args.rate) \in Nat
<1>1. args.rate \in Rates
  BY DEF CmdLines
<1>2. CASE args.rate \in [kind : {"number"}, halves : Halves, power : 0 .. 3]
  <2>1. args.rate.kind = "number" /\ args.rate.halves \in Nat /\ args.rate.power \in 0 .. 3
    BY <1>2, CommandLineAssumption
  <2> DEFINE n == args.rate.halves * Multiplier(args.rate.power)
  <2>2. n \in Nat
    BY <2>1, Suffixes
  <2>3. ParseBitrate(args.rate) = Least(U64Max, n \div 2)
    BY <2>1 DEF ParseBitrate
  <2> HIDE DEF n
  <2> QED BY <2>2, <2>3, CommandLineAssumption DEF Least
<1>3. CASE args.rate \in [kind : {"absent", "bad", "negative", "nan", "inf"}, halves : {0}, power : {0, 3}]
  <2>1. args.rate.kind \in {"absent", "bad", "negative", "nan", "inf"}
    BY <1>3
  <2> QED BY <2>1, CommandLineAssumption DEF ParseBitrate
<1> QED BY <1>1, <1>2, <1>3 DEF Rates

(* Whole datagrams per second, times the seconds of warm-up, against what  *)
(* the rate comes to in that time: the remainder of the division is lost   *)
(* once a second.                                                          *)
LEMMA Threshold ==
    ASSUME NEW rate \in Nat, NEW bits \in Nat \ {0}, NEW w \in Nat
    PROVE  /\ ((rate \div bits) * w) * bits <= rate * w
           /\ rate * w < ((rate \div bits) * w + Greater(1, w)) * bits
<1> DEFINE q == rate \div bits
           r == rate % bits
<1>1. q \in Nat /\ r \in Nat /\ r < bits /\ rate = q * bits + r
  OBVIOUS
<1> HIDE DEF q, r
<1>2. rate * w = (q * w) * bits + r * w
  BY <1>1
<1>3. (q * w) * bits \in Nat /\ r * w \in Nat /\ q * w \in Nat
  BY <1>1
<1>4. CASE w = 0
  <2>1. Greater(1, w) = 1 /\ q * w = 0 /\ rate * w = 0
    BY <1>1, <1>4 DEF Greater
  <2> QED BY <2>1 DEF q
<1>5. CASE w >= 1
  <2>1. Greater(1, w) = w
    BY <1>5 DEF Greater
  <2>2. r * w < w * bits
    BY <1>1, <1>5
  <2>3. (q * w + w) * bits = (q * w) * bits + w * bits
    BY <1>3
  <2> HIDE DEF q
  <2>4. w * bits \in Nat
    OBVIOUS
  <2> QED BY <1>2, <1>3, <2>1, <2>2, <2>3, <2>4 DEF q
<1> QED BY <1>4, <1>5

(* What the data paths are given, mode by mode. *)
LEMMA Given ==
    ASSUME args \in CmdLines, Checked, neg = NegotiateOf
    PROVE  /\ args \in CmdLines /\ neg.mode = Mode /\ Mode \in {"tcp", "udp", "file"}
           /\ args.modes = {Mode} /\ args.role = {"client"}
           /\ neg.parallel = args.parallel /\ neg.warmup \in Nat
           /\ Mode = "udp" => /\ neg.bitrate = bitrate /\ bitrate \in Nat
                              /\ bitrate = ParseBitrate(args.rate)
                              /\ neg.packet = args.packet /\ args.packet \in Nat
           /\ Mode = "file" => neg.fileLen = args.file /\ args.file # None
<1>1. Checked /\ neg = NegotiateOf /\ args \in CmdLines
  OBVIOUS
<1>2. /\ Mode \in {"tcp", "udp", "file"} /\ neg.mode = Mode /\ args.modes = {Mode}
      /\ args.role = {"client"}
  BY <1>1, OneMode, OneRole DEF Checked, Usable, NegotiateOf, Mode
<1>3. neg.parallel = args.parallel /\ neg.warmup \in Nat
  BY <1>1, CommandLineAssumption DEF NegotiateOf
<1>4. Mode = "udp" => /\ neg.bitrate = bitrate /\ bitrate \in Nat
                      /\ bitrate = ParseBitrate(args.rate)
                      /\ neg.packet = args.packet /\ args.packet \in Nat
  <2> SUFFICES ASSUME Mode = "udp"
               PROVE  /\ neg.bitrate = bitrate /\ bitrate \in Nat
                      /\ bitrate = ParseBitrate(args.rate)
                      /\ neg.packet = args.packet /\ args.packet \in Nat
    OBVIOUS
  <2>1. neg.bitrate = bitrate /\ neg.packet = args.packet
    BY <1>1 DEF NegotiateOf, Mode
  <2>2. bitrate = ParseBitrate(args.rate) /\ bitrate # None
    BY <1>1 DEF Checked, Usable
  <2>3. args.packet \in Nat
    BY <1>1, CommandLineAssumption DEF CmdLines
  <2> QED BY <1>1, <2>1, <2>2, <2>3, RateIsNat
<1>5. Mode = "file" => neg.fileLen = args.file /\ args.file # None
  BY <1>1 DEF Checked, Usable, NegotiateOf, Mode
<1> QED BY <1>1, <1>2, <1>3, <1>4, <1>5

(* The two sides of a run agree on what is measured: Usable leaves no      *)
(* field that a mode reads to the differing defaults of unwrap_or, and the *)
(* server's integer threshold is within a datagram a second of the warm-up *)
(* that the client paces.                                                  *)
THEOREM SidesRunAlike == Spec => []SidesAgree
<1>1. IInv => SidesAgree
  <2> SUFFICES ASSUME IInv, cRun # None, sRun # None PROVE SidesAgree
    BY DEF SidesAgree
  <2>0. args \in CmdLines /\ Checked /\ neg = NegotiateOf
    BY DEF IInv, PathInv
  <2>1. cRun = DriveOf(neg) /\ sRun = ServeOf(neg) /\ neg.mode = Mode
    BY <2>0, Given DEF IInv, RunInv
  <2>2. CASE Mode = "tcp"
    <3>1. cRun = TcpDrive(neg) /\ sRun = TcpServe(neg)
      BY <2>1, <2>2 DEF DriveOf, ServeOf
    <3> QED BY <2>1, <2>2, <3>1 DEF SidesAgree, TcpDrive, TcpServe
  <2>3. CASE Mode = "file"
    <3>1. cRun = FileDrive(neg) /\ sRun = FileServe(neg)
      BY <2>1, <2>3 DEF DriveOf, ServeOf
    <3> QED BY <2>1, <2>3, <3>1 DEF SidesAgree, FileDrive, FileServe
  <2>4. CASE Mode = "udp"
    <3> DEFINE packet == Greater(args.packet, HeaderLen)
               bits   == packet * 8
               w      == neg.warmup
    <3>1. cRun = UdpDrive(neg) /\ sRun = UdpServe(neg)
      BY <2>1, <2>4 DEF DriveOf, ServeOf
    <3>2. /\ UnwrapOr(neg.packet, DefaultPacket) = args.packet
          /\ \A default : UnwrapOr(neg.bitrate, default) = bitrate
          /\ args.packet \in Nat /\ bitrate \in Nat /\ w \in Nat
      BY <2>0, <2>4, Given, CommandLineAssumption DEF UnwrapOr
    <3>3. packet \in Nat \ {0}
      BY <3>2, CommandLineAssumption DEF Greater
    <3>4. bits \in Nat \ {0} /\ Greater(bits, 1) = bits
      <4> HIDE DEF packet
      <4> QED BY <3>3 DEF Greater
    <3>5. cRun.packet = packet /\ cRun.rate = bitrate /\ cRun.warmup = w
      BY <3>1, <3>2 DEF UdpDrive
    <3>6. sRun.packet = packet /\ sRun.warmupPackets = (bitrate \div bits) * w
      BY <3>1, <3>2, <3>4 DEF UdpServe
    <3> HIDE DEF bits
    <3>7. /\ sRun.warmupPackets * bits <= cRun.rate * cRun.warmup
          /\ cRun.rate * cRun.warmup < (sRun.warmupPackets + Greater(1, cRun.warmup)) * bits
      BY <3>2, <3>4, <3>5, <3>6, Threshold
    <3> QED BY <2>1, <2>4, <3>5, <3>6, <3>7 DEF SidesAgree, bits
  <2> QED BY <2>0, <2>2, <2>3, <2>4, Given
<1> QED BY <1>1, Invariance, PTL

(* A completed run was run with what parse_bitrate, ModeFlags::selected    *)
(* and the checks of `connect` made of the command line, unchanged.        *)
THEOREM RunsAsAsked == Spec => []RunAsAsked
<1>1. IInv => RunAsAsked
  <2> SUFFICES ASSUME IInv, code = "success" PROVE RunAsAsked
    BY DEF RunAsAsked
  <2>0. args \in CmdLines /\ Checked /\ neg = NegotiateOf /\ cRun = DriveOf(neg)
    BY DEF IInv, PathInv, RunInv
  <2>1. args.role = {"client"} /\ args.modes = {neg.mode} /\ neg.mode = Mode
    BY <2>0, Given
  <2>2. CASE Mode = "tcp"
    <3>1. cRun.streams = args.parallel
      BY <2>0, <2>1, <2>2, Given DEF DriveOf, TcpDrive
    <3> QED BY <2>1, <2>2, <3>1 DEF RunAsAsked
  <2>3. CASE Mode = "udp"
    <3>1. cRun = UdpDrive(neg)
      BY <2>0, <2>1, <2>3 DEF DriveOf
    <3>2. cRun.rate = bitrate /\ cRun.packet = Greater(args.packet, HeaderLen)
      BY <2>0, <2>3, <3>1, Given, CommandLineAssumption DEF UdpDrive, UnwrapOr
    <3>3. args.rate.kind \in {"number", "inf"} => IsRate(cRun.rate, args.rate)
      BY <2>0, <2>3, <3>2, Given, ParsedRate
    <3> QED BY <2>1, <2>3, <3>2, <3>3 DEF RunAsAsked
  <2>4. CASE Mode = "file"
    <3>1. cRun = FileDrive(neg)
      BY <2>0, <2>1, <2>4 DEF DriveOf
    <3>2. cRun.total = args.file
      BY <2>0, <2>4, <3>1, Given DEF FileDrive, UnwrapOr
    <3> QED BY <2>1, <2>4, <3>2 DEF RunAsAsked
  <2> QED BY <2>0, <2>2, <2>3, <2>4, Given
<1> QED BY <1>1, Invariance, PTL

=============================================================================
