# andri: a verification project

andri measures the throughput of a link between two machines. One runs
`andri --server`, the other `andri --client <host>`. They talk over a control connection
(TCP, length-prefixed JSON) and move bytes in one of three modes: over several
TCP data connections, as paced UDP datagrams, or as one file over one TCP
connection. The program is written with tokio: many tasks, `select!`, and
the kernel's sockets in between.

This directory holds TLA+ modules that model the program, the TLC
configurations that check them on small instances, and TLAPS proofs that hold
for all values of the constants. `PROJECT.json` lists components, runs, the
line-by-line map from definitions to source, hazards, mutants, findings and
theorems. Paths below are those of the source tree.

## 1. Inventory

| Component | State | Operations | What makes it correct |
|---|---|---|---|
| Control session, server (`session.rs`: `serve`, `serve_session`, `reject`) | listener and its backlog, the one session, the point in the handshake | accept, Hello, Negotiate, Run, data phase, Stop, Result; reject and every early return | one session at a time in the order of arrival; the slot is always given back; no Result before the client's Stop, none lost |
| Control session, client (`session.rs`: `connect`) | point in the handshake, options | connect, Hello, Negotiate, Run, drive, Stop, read Result | in step with the server message for message; always comes to an end |
| Framing (`proto.rs`) | the bytes a read has so far, the length it waits for | `read_msg`, `write_msg` | whole messages in order, or an error; the same limit both ways; a read that is interrupted loses nothing; a cut frame is noticed |
| TCP mode (`modes/tcp.rs`) | one counter per stream, `warmup_at`, the snapshot, `t0` | `serve`, `drive`, `send_loop`, `recv_loop` | bytes reported are those of the window; nobody waits for ever |
| Metering (`meter.rs`) | `Counter`s, `last_bytes`, the series | `total`, `run_sampler` | every byte in one sample; a bounded series |
| UDP mode (`modes/udp.rs`) | sender: sequence number and carry; receiver: `LossJitter`, series | `drive`, `serve`, `observe`, `into_result` | loss is what is missing; jitter is independent of the clocks; rate is exact |
| File mode (`modes/file.rs`) | file length, position, the counter, the sampler | `file_len`, `drive`, `serve`, `sample_until_done` | every byte once, none beyond the negotiated length; a result is whole |
| Command line (`cli.rs`), entry (`main.rs`, `modes/mod.rs`) | the options | parse, dispatch, the checks of `connect`, the Negotiate it builds, the defaults of the data paths | one role and at most one mode; both sides run with the same parameters, and with those asked for |
| Web dashboard (`docs/web.md`) | - | - | a design without code |

How they interact. `connect` and `serve_session` exchange messages over one
connection. After `Run` each calls the mode's `drive` or `serve`; the server
hands its mode a future `stop` that reads the control connection, except in
file mode, where the bytes end the measurement and the Stop is drained
afterwards. The data paths share nothing with the control connection but that
future and their return. Within a mode, tasks share relaxed atomic counters.

What is hard here:

- Nothing has a timeout. What ends a wait is another message, the end of a
  connection, or nothing.
- The server is serial, so one session that never ends stops the service.
- Closing a TCP connection with unread input resets it and may destroy what
  was written just before: the reason for the drain in file mode.
- Counters are added up one by one while they move, by three tasks.
- Datagrams come late, twice, in any order or not at all, and Stop takes
  another path than they do.
- A file changes between `stat` and `read`.
- Every `?` is an early return in the middle of a protocol.
- The read of the Stop is an arm of a `select!`: it is interrupted at any byte.
- Optional parameters have a default on each side, and they are not the same.

## 2. Modules

| Module | Models | Used by |
|---|---|---|
| `SerialService` | what the control channel promises: first come, first served, one at a time, each at most once | refined by `ControlSession`, proved in `SerialServiceProofs` |
| `MsgChannel` | what the session takes a direction of the control connection for: a queue of whole messages that may end or be reset | refined by `Framing`, proved in `FramingProofs` |
| `FilePhase` | what the session knows of a file run: what was sent, and when `drive` and `serve` return, fail or wait for ever | refined by `FileTransfer`, proved in `FileTransferProofs` |
| `ControlSession` | `session.rs`, the frame limit of `proto.rs`, and as much of the modes as decides when a session moves on | `MCControlSession`, `ControlSessionProofs`, `SerialServiceProofs` |
| `Framing` | `write_msg` and `read_msg` of `proto.rs`, byte by byte | `MCFraming`, `FramingProofs` |
| `CommandLine` | `cli.rs`, `main.rs`, the checks and the Negotiate of `connect`, what each data path makes of it | run as it is, `CommandLineProofs` |
| `Totals` | the sum over the counters (`total`, `sum_bytes`) and over a series | `TcpMeasure`, `UdpMeasure`; lemmas in `TotalsProofs` |
| `LossJitter` | the struct of that name in `udp.rs`, as a record and operators | `UdpMeasure` |
| `UdpMeasure` | a UDP run: pacing, network, the receiver's `select!` | `MCUdpMeasure`, `UdpMeasureProofs` |
| `TcpMeasure` | a TCP run: streams, the sampler, the warm-up snapshot, `serve` | `TcpMeasureProofs` |
| `FileTransfer` | a file run: disk, copy loop, receive loop, sampler | `FileTransferProofs` |

The run models are separate because the program separates them: a mode sees of
the control session only `stop`, and the session sees of a mode only how many
data connections it wants and when it returns. Where the session relies on
more, the reliance is a module of its own: `ControlSession` moves whole
messages from queue to queue, ends and resets included, which is
`MsgChannel`, and it takes `CFileSend`, `CStop`, `CDriveFails`, `SFileEnd` and
`SDataFails` for the steps of `FilePhase`. `Framing` and `FileTransfer` are
shown to implement these two, by TLC and by proof.

### ControlSession

`cPc[c]` is where client `c` is in `connect`; `sPc` where the server is in
`serve_session`, and `cur` whose session it is. `c2s` and `s2c` are the bytes
written and unread in each direction, one element per message; they exist from
`connect()` on, since the kernel takes a client's Hello before the server has
accepted it. `cEnd` and `sEnd` are the two ends of the connection: `open`,
closed with a FIN, or reset. An end that closes with unread input resets, and a
write to a closed end provokes a reset; a reader behind a reset may get an
error even though messages are left. These are external (TCP), taken from how
the code relies on them.

Each `let Msg::X = read_msg(...) else { ... }` is one action that reads and
replies or rejects, as the code does with no await in which another task of the
session could interfere.

`conns` is the queue of the session's data listener, by who opened each
connection; the listener is there from the Negotiate until the data path
returns (`Listening`), and is dropped with whatever is still in its queue.
`SDataAccept` is one turn of the accept loop of `tcp::serve` and
`file::serve`, which takes whoever is next: the code throws the peer's address
away. `SFileEnd` is the end of `file::serve`: with
all bytes it goes on to the drain, with a short transfer it ends in `stalled`,
the join of a sampler that cannot end (shown in detail by `FileTransfer`).
The bytes are those of whoever opened the connection. Every session has a port
of its own; that the kernel does not give it out again while a client of an
earlier session still knows it is assumed.

A client in `Foreign` is any other program: on the control port it writes any
message at any time, undecodable ones included, and it connects to the data
port of whichever session is on, its own or not. It may take the place of a
data connection, and then its bytes are what is measured.

`faulty` is chosen at the beginning and stays: whether crashes and failing
data paths are among what may happen in this behaviour.

Left out: the nonce, seed and port (no decision depends on them), printing; the
bytes of a message are in `Framing`. `parallel`, mode and duration are a client's `opts[c]`, chosen
in `Init` from the command lines.

### Framing

One direction of a control connection. `out` is what `write_all` has still to
write, `wire` what the socket buffers hold, `buf` what the current `read_exact`
has got. Every write and read moves as many bytes as it likes. `WClose` is the
end of a session or of a process at any byte; a `write_msg` refused for its
length ends the writer too, since every caller returns its error. `ROtherArm`
is a turn of the `select!` of `udp::serve` in which a datagram or a tick was
ready first: `stop` is pinned outside the loop and keeps what it has. The
mutant that makes a new future every turn loses bytes and, with them, the place
where the next frame starts. `Payload` maps messages to bytes one to one
(serde_json, external); other bytes are `JunkBytes`.

### CommandLine

One process from `Cli::parse` to its exit code. A rate is a number in halves
and a power of `Kilo`, so that the truncating cast has something to cut off;
words that are no number, negative ones, `nan` and `inf` are kinds of their
own. `Check` is everything `connect` refuses before it touches the network,
`NegotiateOf` the message. `TcpServe` and `TcpDrive`, `UdpServe` and
`UdpDrive`, `FileServe` and `FileDrive` are what the two sides of a mode make
of it, each translated from its own function: they have defaults of their own,
`udp::serve` turns rate and warm-up into a sequence number by integer
division, and `udp::drive` keeps a rate and a window. The conversation itself
is in `ControlSession`; here any step of it may fail.

### UdpMeasure and LossJitter

`f64` would hide the questions: the pacing carry is kept as an integer number
of units of which a datagram costs `UnitsPerPacket`, and the jitter as a
numerator over `16^k` after `k` updates. Both are exact; the rounding of the
program's `f64` is not modelled. The network is a set of datagrams from which
any may be lost, doubled or received next. `twin`, `seen`, `dups` and `maxD`
are history for the properties: `twin` is the accumulator of a receiver whose
clock agrees with the sender's.

### TcpMeasure

Three server tasks (`sampler`, `warmup`, `serve`) add up the same counters,
each load a step of its own (`Add`). `hand` holds bytes a receiver has read and
not counted. A task may be scheduled arbitrarily late; `MTick` makes up for
missed ticks in a burst, as tokio's interval does by default. `lo` and `hi` are
history: the true total when a sum began and ended. `CFill` and `CWrite` keep
`write_all` apart from the check of the deadline, so that a sender may hang in
a full socket when its deadline passes. `CSenderBreaks` is a `send_loop` that
returns an error, which `drive` joins and drops: the run goes on with the
streams that are left.

### FileTransfer

Bytes are counted. Reads and writes are partial, `DiskChanges` truncates or
extends the file at any moment, and `SSample` looks at the counter whenever it
likes. The time series is kept as its sum, since its length has no bound.
`SentSeen`, `DriveSeen` and `ServeSeen` are the refinement mapping to
`FilePhase`. `SRead` has the read and both counts of it, `received` and the
counter, in one step, because nobody else sees `received`. A `serve` that waits for its sampler with bytes missing is
`stalled`, and no step of `FilePhase` leads out of that.

## 3. Runs

A passing run, what it checks:

- `session_safety` (one andri client, one foreign program, all modes, wrong
  versions, refused command lines, crashes, failing data paths, end of the
  server). `InStep`: as long as both sides hold a connection, the pair of
  program counters and unread messages is one of the rows of `Conversation`,
  so no message is ever taken by the wrong read. `NoResultLost`: whoever was
  answered never fails while reading the answer. `ResultOnlyAfterStop`: no
  answer to a run that goes on. `MeasuresItsOwnStreams`: a measurement is of
  exactly as many data connections as were negotiated, and although nobody
  looks at who they are, none is another andri client's, such as one that an
  earlier session left in its queue. (Foreign programs may be among them: the
  code does not prevent that.) `ServesOneAtATime`: the whole specification
  implements `SerialService`. `TypeOK` has the slot: in a session exactly
  while serving.
- `session_live` (two clients, in behaviours in which nothing fails and in
  behaviours in which everything may but the server process). If nothing
  fails, every client ends (`ClientsTerminate`) and every run the server can
  honour succeeds (`RunsSucceed`); runs of an hour are among the command lines
  and are not honoured, see finding 2. `SessionsEnd`: without failures every
  session ends; with them it ends too, unless it waits for a data connection of
  a client that is gone, or for the sampler of a short file (`Starved`). Both
  are findings; the property says that every other wait of a session notices
  a client that is gone. It does not speak of a client that is there and
  silent: both clients run on, by fairness. Such a client, suspended or stuck,
  also holds the server, at any read, since no read has a timeout.
  Deadlock is not checked, because in the two waits the system does stop.
- `framing` (three messages, one of exactly the limit and one above, three
  frames that are none, cut anywhere). `FramesAreMessages`: the byte stream
  implements `MsgChannel`, so messages come in order, once and whole, and a
  read fails only for a reason the queue shows. `StreamInSync`: what is held
  anywhere between the two sides is, byte for byte, the frames not yet read.
  `FramesArrive`: what is written is read although the read is interrupted.
  `EndIsNoticed`: nobody waits for the rest of a frame whose writer is gone.
- `command_line` (every combination of roles, modes and values).
  `SidesAgree`: what `serve` and `drive` each work out for themselves fits
  together: the same streams for the same time, the same length of the file,
  datagrams of the same size, and a threshold on the server that leaves out what
  the client paces in its warm-up, to within a datagram per second; though a
  missing rate is 0 to one and 1G to the other. `RunAsAsked`: what a completed
  run was run with is what its command line says (mode, streams, rate, `inf`
  included, packet size, length), through parser, checks, Negotiate and defaults.
- `udp_faults`: as long as nothing comes twice loss is exactly the gaps, in any
  order of arrival, and it is never more (`LossAccounting`; for duplicates see
  finding 4); never more than was sent and not received
  (`NoFalseLoss`, an upper bound: datagrams that Stop overtakes, or behind the
  last one received, are simply not counted, which lowers the loss); `serve` and `observe`, which each test the warm-up for
  themselves, agree (`WindowAgrees`); the carry loses nothing (`PacingExact`),
  and the server's integer threshold meets the client's fractional rate
  (`WarmupAligned`); samples add up (`SamplesAddUp`); jitter lies below the
  largest change of transit time (`JitterBounded`) and no clock offset reaches
  it (`OffsetCancels`).
- `tcp_safety` (two streams, three summing tasks, streams that break, a client
  that vanishes): `WindowBytes` brackets the reported bytes by the true totals
  at the ends of the two sums; `SeriesAddsUp`; `EarlyStopMeasuresNothing`: a
  Stop before the end of the warm-up reports zero, not a wrapped difference.
- `tcp_live` (a run with `--duration 0`, so of its warm-up only): `write_all`
  larger than the socket buffers, sides and sampler that start at different
  times, streams that break and a client that vanishes. `RunReported`: the run
  ends although client and server wait for each other's tasks, and whichever of
  its streams are left; `SamplesBounded`: at most one sample
  per second of the window.
- `file_run`: `BytesConserved`, `ResultIsWhole` (the sampler's last sample is
  in), `ReturnsWithTheWhole` (the run implements `FilePhase`), and `StableFileArrives`: a file that stays as it is arrives, whatever
  its size relative to the buffer.

A violation run, and the sentence of the repository it refutes:

1. `session_wedged`: `docs/protocol.md` gives data connections 5 seconds and has
   both ends abort when the control connection drops. `tcp::serve` waits in
   `accept()` with no timer and no eye on the control connection.
2. `session_long_run`: durations up to 3600 s are allowed, a Result has a
   sample per second, and `write_msg` refuses frames above 64 KiB: the client
   gets end of file in place of a result.
3. `file_short`: the receive loop leaves on a short transfer in order to report
   it, and then joins a sampler that only ends with the whole file.
4. `udp_duplicates`: `docs/udp.md` (4.1) has duplicates "counted separately" and
   reported. `observe` counts them as received, so each hides one loss.

Further divergences met on the way and not given a run:

- `docs/udp.md` (4.1) has datagrams that come after the window reported as loss.
  Those behind the last one received before the Stop are not in the span, so they
  are not.
- `drive` of `file.rs` is "bounded by the negotiated `file_len`", but its disk
  read is not: a file that has grown is sent beyond it. The server reads no more
  than it wants (`BytesConserved`), so only the claim is wrong.
- A test of `cli.rs` says invalid rates are "rejected, not silently coerced".
  `nan` parses as an `f64`, is not below zero, and the cast makes it 0; `inf`
  becomes `u64::MAX`. `ParseBitrate` has both.
- `docs/protocol.md` has a handshake timeout and a run grace (section 6),
  parameters the server validates (section 5), and data connections opened
  before Run (section 3.4). The code has none of them; `duration_secs +
  warmup_secs` is added without a check.
- `docs/tcp.md` flags a degraded number of streams. The Result has no field for
  it, so a run whose streams broke looks like any other.
- The client's progress line of a file run divides the bytes of the last second
  by the time since the start.

### Bounds

| Constant | Value | Why it is enough |
|---|---|---|
| `Clients` | 2 | one is served while one waits, and they change places; what a third adds is the order of the backlog, which the proofs have for any number |
| `MaxUnread` | 2 | a foreign program may be one message ahead of the one being read |
| `MaxStray` | 2 | a foreign program can take every place of a session, or one of them |
| `Faults` | {TRUE}, or both in `session_live` | what may fail is a superset for safety; liveness is asked of both kinds of behaviour |
| `Parallels` | {2} | some data connections open and others not |
| `Durations` | 10, 3600 | a Result that fits and one that does not; 219 and 80 are JSON sizes of the fixed part and of the smallest sample |
| UDP: `BitRate` 160, `PacketBytes` 16, `TicksPerSec` 2, `MaxTicks` 7 | 5/8 of a datagram per tick | a fraction is carried at every tick and some ticks send nothing; one datagram of warm-up, 3 measured, so a gap, a duplicate and a reordering fit together |
| UDP: `MaxNow`, `MaxSamples`, `ClockOffset` | 1, 2, -3 | transit times that grow and shrink; a sample before and after any datagram; larger transit times are left to the proof |
| TCP safety: `Parallel`, `MaxBytes`, `WarmupSecs`, `DurationSecs` | 2, 1, 1, 1 | a byte may come between any two loads of any two sums |
| TCP live: `Chunk`, `PipeCap`, `MaxBytes`, `MaxSkew`, `MaxNow` | 2, 1, 2, 1, 2 | a blocked write at the deadline; one more tick than the window has, so that a sampler that starts late ends late |
| TCP live: `Parallel`, `WarmupSecs`, `DurationSecs` | 1, 1, 0 | the shortest window there is; with several streams the joins only repeat. A broken stream leaves none here; runs with one of two broken are in `tcp_safety`, and series of longer windows in the proof of `SeriesIsBounded` |
| UDP duplicates | 2 datagrams a second for 2 ticks | room for a loss and a duplicate among four datagrams |
| Framing: `Base`, `MaxFrameBytes` | 2, 3 | four bytes of prefix count to 15, so a length below, at and above the limit differ in one byte each; its order of bytes matters |
| Framing: `PipeCap`, `MaxItems`, `MaxArms` | 3, 3, 2 | less than a frame fits on the wire; a frame follows a frame that was cut or interrupted, in its prefix and in its payload |
| Command line: `Kilo`, `U64Max`, `Halves` | 10, 9999, {0, 1, 3, 20} | a rate of zero, one below a bit, one that is cut, and one that saturates |
| Command line: `Windows`, `Packets`, `HeaderLen` | {0, 10, 9999}, {8, 1472}, 16 | a window whose sum with the warm-up wraps; a packet too small for its header |
| File: `Sizes`, `Buf`, `PipeCap` | {0, 2, 4, 6}, 3, 2 | empty, below, above and at a multiple of the buffer; truncated and extended between reads |

### Fairness

Weak fairness of every step of a task that can run: tokio polls whatever is
ready, and the kernel reports ends and resets. Time passes (`Clock`). A client
must run on once started, and its data path returns when its connections are
accepted, which is why the fair specification is checked without foreign
programs that could take their places; no client has to start, nobody has to crash, and the
network has to deliver nothing. Sampler ticks are fair since the interval
fires. In `Framing` the kernel moves bytes and a read that can go on is polled;
nobody has to write or to close, and the other arms of the `select!` come a
bounded number of times per read (`MaxArms`), as `select!` picks among ready
arms at random. No strong fairness is assumed.

## 4. Proofs

All with TLAPS, for every value of the constants under the named assumptions
of the modules (`ClientsAssumption`, `OptsAssumption`, `BoundsAssumption`,
`NoneAssumption`, `RatesAssumption`, `UdpBoundsAssumption`, `TcpAssumption`,
`FileAssumption`, `FramingAssumption`, `JunkAssumption`,
`CommandLineAssumption`). They say what the constants are: numbers, finite sets
where the code has finite ones, a `None` that is no number. Two say more.
`FramingAssumption` has different messages serialise differently, which
serde_json provides; `JunkAssumption` has a frame that is none be either a prefix
above the limit or a frame whose payload decodes to no message. TLC evaluates
them in every run.

Every invariant and every refinement that a passing run checks is
proved. The theorems, and the inductive invariants behind them:

- `ControlSessionProofs`: `TypeCorrect`, `AlwaysInStep`, `ResultDelivery`,
  `NoEarlyResult`, `StreamsAreOwn`, for any number of clients, foreign ones and failures
  included. `InStep` is not inductive: that the next message is the expected
  one needs to know whose connection is open (`SlotInv`: an accepted, open
  connection is `cur`'s, and the backlog has each queued connection once), how
  many data connections are accepted and that those queued were opened by the
  session's client or by a foreign program (`StreamsInv`), that a client
  that runs holds an open connection and one that has not started has written
  nothing (`ClientInv`), and that an answered client has written its Stop and
  has nothing but its Result unread (`AnswerInv`). The invariant is their
  conjunction with `InStep`; one proof step per action, in lemmas for the
  client's, the foreign program's and the server's actions. What the queue
  operations do to the short queues of a conversation is one lemma
  (`ShortQueues`) that all of them cite.
- `SerialServiceProofs`: `ImplementsService`, the refinement of
  `SerialService`. The invariant above is not enough for it: that a client ends
  in success only when the service has answered it needs that whoever has read a
  Result, or has one unread, is `answered`, and that a server that has ended has
  no backlog (`ServiceInv`). Every action is then shown to be an arrival, the begin
  or the end of a session, an answer, the end of the server, or to be hidden.
- `FramingProofs`: `TypeCorrect`, `StreamsAgree`, `ImplementsChannel`. The first
  lemmas are about numbers: a prefix is read as the number it was written from
  (`FromTo`), and the other way round (`ToFrom`). The next are about
  concatenating a sequence of frames: what it is when one more is written
  (`FlatAppend`) or the first is taken off (`FlatHead`), and that the first
  frame of a stream is determined by its bytes (`FirstFrame`): two frames
  that begin a stream have the same prefix, so the same length, so they are the
  same. The inductive invariant (`SyncInv`) says that the stream of frames is cut in
  two, what the writer has let go of and what it still holds, and in the first of these lies
  what the reader has consumed, holds and has still to come (`Cut`). `StreamInSync` follows by
  counting lengths. For the refinement, a decoded payload is the head of the
  queue because of `FirstFrame`, a refused prefix shows a frame above the limit
  there (`RPrefixRefuses`), and an end of file in the middle of a frame is an end of
  the queue since the writer has closed (`REofIsEnd`).
- `CommandLineProofs`: `SidesRunAlike`, `RunsAsAsked`. What the checks of
  `connect` have established once it connects, and that a Negotiate is the one
  built from those options (`PathInv`); each side's parameters come from it
  by its own operator (`RunInv`). The defaults differ, so the first point is that
  `connect` leaves nothing to them where they matter: UDP always carries a rate
  (`Given`). The second is division: whole datagrams per second lose the
  remainder once for each second of warm-up (`Threshold`).
- `UdpMeasureProofs`: `LossIsExact`, `LossIsReal`, `OneWindow`,
  `PacingIsExact`, `WarmupIsAligned`, `SeriesIsExact`, `JitterIsSound`,
  `JitterNeedsNoClock`, `TypeCorrect`. `seen` lies within
  `minSeq .. maxSeq` with both ends in it (`SeenInv`), datagrams in flight were
  sent (`NetInv`), the twin differs by the offset and nothing else (`TwinInv`).
  The rest is cardinality of intervals, and for the jitter the bound
  `jitter <= maxD * scale`, inductive because `15 + 1 = 16`. `WarmupIsAligned`
  is division: the client rounds down once, after the warm-up, the server once a
  second, so they part by less than a datagram per second. `SeriesIsExact` has its
  own invariant (`SeriesInv`).
- `TcpMeasureProofs`: `TypeCorrect`, `SeriesIsBounded`, `WindowIsMeasured`,
  `SeriesIsExact`, `EarlyStopIsEmpty`. `SeriesIsBounded` needs that a
  tick is never before its due time, that ticks are a second apart and that the
  sampler ends with the first tick taken at or after the window's end
  (`SamplerInv`). The other three rest on a bracket for a sum that is under way
  (`SumInv`): what a task has so far is at most what the counters it has passed
  hold now, and with what the others hold now (`Rest`) at least the total when
  it began. Counters only grow, so both survive a `recv_loop` that counts
  between two loads. That the sampler never subtracts more than it has is the
  same bracket with its previous reading in place of that total (`SeriesInv`). An early Stop
  measures nothing because the snapshot begins after the final sum has ended, and
  the same bracket holds between these two (`EarlyInv`).
- `FileTransferProofs`: `TypeCorrect`, `NoByteLost`, `ResultsAreWhole`,
  `ImplementsPhase`. The last two need what the sampler has added up and what
  its end says about the counter (`SamplerInv`). For the refinement, the end of
  the stream before the last byte is `ServeStalls` because then nothing is
  under way (`BytesConserved`), and the result is `ServeReturns` because the
  sampler that was joined has seen every byte.
- `TotalsProofs`: lemmas on which `FramingProofs`, `TcpMeasureProofs` and
  `UdpMeasureProofs` rest. The library's induction theorems take a predicate as
  a parameter, which the provers at hand cannot instantiate. `NatSetInduction`
  states induction for a *set* of numbers instead: a subset of `Nat` with 0 in
  it and closed under successor is `Nat`, since otherwise its complement would
  have a least element (`LeastNat`). With the set of lengths for which a statement
  holds, it gives that the recursive function of `PartialSums` exists and
  satisfies its recursion, and what it computes; `FramingProofs` does the same
  for concatenation.

Each inductive invariant was checked by TLC on the instances of the runs before
its proof.

Only model-checked: liveness, which is outside the prover's reach
(`RunsSucceed`, `ClientsTerminate`, `SessionsEnd`,
`FramesArrive`, `EndIsNoticed`, `RunReported`, `StableFileArrives`), and the
four violations, which are counterexamples. The refinements are proved for the
safety part of the specifications; the abstract ones state no fairness.

## 5. Not modelled

- Of `cli.rs`, `Format::render` and `Display`, which only make text. The rounding
  of `f64`, there, in the pacing and in the jitter: the models are exact.
- JSON itself (`serde_json`): a message is its payload, one to one.
- `fill_random`, `payload_preview`, rates in Mbit/s, progress lines.
- How long sending a datagram takes: a UDP burst does not look at the deadline, so
  at a rate far above the link's `drive` outlives its window.
- `--bidir`: it is parsed and sent, and neither side acts on it.
- A host that disappears without a FIN; keepalive is not used by the program.
- Datagrams of other senders on the data port, and `u64` overflow of the span
  they could cause.
- The number of streams that lasted to the end: the Result has no field for it.

## 6. Plan

Done: the control session with its abstract specification; UDP; file; TCP with
metering; framing and the queue of messages it implements; the command line;
the file phase as the session sees it, refined by the file run; proofs of every
invariant and every refinement the passing runs check.

Next, in this order:

1. The safety half of the liveness properties: that a state in which a session
   or a run waits is one of those the liveness runs allow (a wait for a message
   that is on its way, for a task that can run, or one of the two findings), as
   an invariant, for any number of clients and streams.
2. What the findings say, for every value of the constants: that a session in
   one of its two endless waits stays there whatever its client does.
3. Action properties of the accumulator: the sequence numbers `LossJitter` has
   seen only widen, and its loss falls only with a late datagram.
