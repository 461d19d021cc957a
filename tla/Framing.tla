------------------------------ MODULE Framing ------------------------------
(***************************************************************************)
(* The frames of the control protocol (src/proto.rs: write_msg, read_msg), *)
(* one direction of a connection, byte by byte: a 4-byte big-endian length *)
(* and the JSON payload.  Writes and reads are partial, the writer may die *)
(* or be refused in the middle of a frame, and the read of a Stop is one   *)
(* arm of the select! in udp::serve: it is left and polled again whenever  *)
(* another arm is ready, and must not lose the bytes it already has.       *)
(*                                                                         *)
(* serde_json is external: Payload gives the bytes of every message, and   *)
(* whatever is no message's payload is refused.                            *)
(***************************************************************************)
EXTENDS Naturals, SequencesExt

CONSTANTS
    Payload,        \* the JSON of each message; its domain are the messages
    JunkBytes,      \* what another program on the port may write instead
    Base,           \* values of a byte (256)
    MaxFrameBytes,  \* proto::MAX_FRAME_BYTES
    PipeCap,        \* what the socket buffers hold
    MaxItems,       \* bound: frames written
    MaxArms,        \* bound: other arms of the select! taken during a read
    None

Byte    == 0 .. (Base - 1)
U32     == 0 .. (Base * Base * Base * Base - 1)
Msgs    == DOMAIN Payload
Junk    == DOMAIN JunkBytes

ASSUME FramingAssumption ==
    /\ Base \in Nat \ {0, 1} /\ MaxFrameBytes \in U32
    /\ \A m \in Msgs : Payload[m] \in Seq(Byte)
    /\ \A m, n \in Msgs : Payload[m] = Payload[n] => m = n
    /\ \A j \in Junk : JunkBytes[j] \in Seq(Byte)
    /\ PipeCap \in Nat \ {0} /\ MaxItems \in Nat /\ MaxArms \in Nat
    /\ Msgs \cap Junk = {} /\ None \notin Msgs \cup Junk

VARIABLES
    item,   \* what is being written, or was when the connection closed
    out,    \* its bytes still to write
    end,    \* the writer's end: "open", "fin" or "rst"
    wire,   \* bytes on their way
    rPc,    \* where read_msg is: "idle", "prefix", "payload", "failed"
    buf,    \* what the current read_exact has got
    want,   \* `len`
    arms,   \* other arms of the select! taken during this read
    sent,   \* history: items written to their last byte
    got     \* messages read

writerVars == <<item, out, end>>
readerVars == <<rPc, buf, want, arms, got>>
vars       == <<writerVars, wire, readerVars, sent>>

Least(a, b) == IF a <= b THEN a ELSE b
Drop(s, n)  == SubSeq(s, n + 1, Len(s))

(* u32::to_be_bytes and u32::from_be_bytes. *)
ToBeBytes(n) ==
    LET q1 == n \div Base   q2 == q1 \div Base   q3 == q2 \div Base
    IN  <<q3 % Base, q2 % Base, q1 % Base, n % Base>>

(* Mutant: the prefix is read as the datagrams' header is, little-endian. *)
FromLeBytes(b) == ((b[4] * Base + b[3]) * Base + b[2]) * Base + b[1]

FromBeBytes(b) == ((b[1] * Base + b[2]) * Base + b[3]) * Base + b[4]

Frame(x) == IF x \in Msgs THEN ToBeBytes(Len(Payload[x])) \o Payload[x] ELSE JunkBytes[x]

(* Junk ends where a reader that starts with it has enough to refuse it:   *)
(* behind a length above the limit, or a payload that is no message's.     *)
ASSUME JunkAssumption ==
    \A j \in Junk :
        \/ \E n \in U32 : n > MaxFrameBytes /\ JunkBytes[j] = ToBeBytes(n)
        \/ LET body == SubSeq(JunkBytes[j], 5, Len(JunkBytes[j])) IN
           /\ JunkBytes[j] = ToBeBytes(Len(body)) \o body /\ Len(body) <= MaxFrameBytes
           /\ \A m \in Msgs : Payload[m] # body

Init ==
    /\ item = None /\ out = <<>> /\ end = "open" /\ wire = <<>>
    /\ rPc = "idle" /\ buf = <<>> /\ want = 0 /\ arms = 0
    /\ sent = <<>> /\ got = <<>>

-----------------------------------------------------------------------------
(* The writer: write_msg, whose every caller gives up on an error. *)

(* Mutant: the limit is left to the reader. *)
TooLongNever(x) == FALSE

TooLong(x) == x \in Msgs /\ Len(Payload[x]) > MaxFrameBytes

WWrite(x) ==
    /\ end = "open" /\ out = <<>> /\ Len(sent) < MaxItems
    /\ IF TooLong(x)
       THEN end' = "fin" /\ UNCHANGED <<item, out>>
       ELSE item' = x /\ out' = Frame(x) /\ end' = end
    /\ UNCHANGED <<wire, readerVars, sent>>

(* Part of a write_all. *)
WPush ==
    /\ end = "open"
    /\ \E n \in 1 .. Least(Len(out), PipeCap - Len(wire)) :
          /\ wire' = wire \o SubSeq(out, 1, n)
          /\ out' = Drop(out, n)
          /\ IF n = Len(out) THEN sent' = Append(sent, item) /\ item' = None
             ELSE UNCHANGED <<sent, item>>
    /\ UNCHANGED <<end, readerVars>>

(* The session ends or its process dies; unread input makes it a reset,    *)
(* and so does what is written to it afterwards.                           *)
WClose ==
    /\ \/ end = "open" /\ end' \in {"fin", "rst"}
       \/ end = "fin"  /\ end' = "rst"
    /\ out' = <<>>
    /\ UNCHANGED <<item, wire, readerVars, sent>>

-----------------------------------------------------------------------------
(* The reader: read_msg. *)

Reading == rPc \in {"prefix", "payload"}
Missing == (IF rPc = "prefix" THEN 4 ELSE want) - Len(buf)

RStart ==
    /\ rPc = "idle"
    /\ rPc' = "prefix" /\ buf' = <<>> /\ want' = 0 /\ arms' = 0
    /\ UNCHANGED <<writerVars, wire, sent, got>>

(* Part of a read_exact. *)
RRead ==
    /\ Reading
    /\ \E n \in 1 .. Least(Missing, Len(wire)) :
          /\ buf' = buf \o SubSeq(wire, 1, n)
          /\ wire' = Drop(wire, n)
    /\ UNCHANGED <<writerVars, rPc, want, arms, sent, got>>

(* Mutant: every turn of the loop makes a new future of the read. *)
ROtherArmRestarts ==
    /\ Reading /\ Missing > 0 /\ arms < MaxArms
    /\ arms' = arms + 1
    /\ rPc' = "prefix" /\ buf' = <<>> /\ want' = 0
    /\ UNCHANGED <<writerVars, wire, sent, got>>

(* A datagram or a tick comes first: `stop` is pinned and keeps its state. *)
ROtherArm ==
    /\ Reading /\ Missing > 0 /\ arms < MaxArms
    /\ arms' = arms + 1
    /\ UNCHANGED <<writerVars, wire, rPc, buf, want, sent, got>>

Declared == FromBeBytes(buf)

(* Mutant: the limit of the declared length is off by one. *)
OversizedLate(n) == n > MaxFrameBytes + 1

Oversized(n) == n > MaxFrameBytes

(* The prefix is complete: too long a frame is refused before its body. *)
RPrefix ==
    /\ rPc = "prefix" /\ Missing = 0
    /\ rPc' = IF Oversized(Declared) THEN "failed" ELSE "payload"
    /\ buf' = <<>> /\ want' = Declared
    /\ UNCHANGED <<writerVars, wire, arms, sent, got>>

RPayload ==
    /\ rPc = "payload" /\ Missing = 0
    /\ \/ \E m \in Msgs : /\ Payload[m] = buf
                          /\ got' = Append(got, m)
                          /\ rPc' = "idle"
       \/ /\ \A m \in Msgs : Payload[m] # buf
          /\ rPc' = "failed" /\ got' = got
    /\ buf' = <<>>
    /\ UNCHANGED <<writerVars, wire, want, arms, sent>>

(* Mutant: the end of the stream is no error to a read that has begun. *)
REofBetween ==
    /\ Reading /\ Missing > 0 /\ buf = <<>> /\ wire = <<>> /\ end # "open"
    /\ rPc' = "failed"
    /\ UNCHANGED <<writerVars, wire, buf, want, arms, sent, got>>

(* The stream ends, within a frame or between two, or is reset. *)
REof ==
    /\ Reading /\ Missing > 0
    /\ (wire = <<>> /\ end # "open") \/ end = "rst"
    /\ rPc' = "failed"
    /\ UNCHANGED <<writerVars, wire, buf, want, arms, sent, got>>

Finished == rPc = "failed" /\ UNCHANGED vars

Next ==
    \/ \E x \in Msgs \cup Junk : WWrite(x)
    \/ WPush \/ WClose
    \/ RStart \/ RRead \/ ROtherArm \/ RPrefix \/ RPayload \/ REof
    \/ Finished

Spec == Init /\ [][Next]_vars

(* The kernel moves bytes and tokio polls a read that can go on; nobody    *)
(* has to write or to close.                                               *)
FairSpec ==
    /\ Spec
    /\ WF_vars(WPush) /\ WF_vars(RStart) /\ WF_vars(RRead)
    /\ WF_vars(RPrefix) /\ WF_vars(RPayload) /\ WF_vars(REof)

-----------------------------------------------------------------------------
(* Properties. *)

(* Types; no buffer is ever larger than the frame limit or the prefix. *)
TypeOK ==
    /\ item \in Msgs \cup Junk \cup {None} /\ end \in {"open", "fin", "rst"}
    /\ out \in Seq(Byte) /\ wire \in Seq(Byte) /\ Len(wire) <= PipeCap
    /\ rPc \in {"idle", "prefix", "payload", "failed"}
    /\ buf \in Seq(Byte) /\ want \in U32 /\ arms \in 0 .. MaxArms
    /\ rPc = "prefix" => Len(buf) <= 4
    /\ rPc = "payload" => Len(buf) <= want /\ want <= MaxFrameBytes
    /\ sent \in Seq(Msgs \cup Junk) /\ got \in Seq(Msgs)

Written == SubSeq(sent, Len(got) + 1, Len(sent))
Unread  == Written \o (IF item = None THEN <<>> ELSE <<item>>)
Stream  == FlattenSeq([i \in 1 .. Len(Unread) |-> Frame(Unread[i])])
Arrived == (IF rPc = "payload" THEN ToBeBytes(want) ELSE <<>>) \o buf \o wire
Held    == Arrived \o out

(* Reader and writer agree, byte for byte, on where the next frame starts: *)
(* what is held anywhere between them is the frames not yet read.          *)
StreamInSync ==
    rPc # "failed" =>
        /\ IsPrefix(Held, Stream)
        /\ end = "open" => Held = Stream

(* The session may take the byte stream for a queue of whole messages: in  *)
(* order, none lost, none read twice or made up, whatever the boundaries   *)
(* of writes and reads and however often the read was left; a read fails   *)
(* only for a reason the queue shows, so a frame cut off by a dying writer *)
(* is an end of the connection and nothing else.                           *)
Channel == INSTANCE MsgChannel WITH
    queue  <- Written,
    failed <- (rPc = "failed")

FramesAreMessages == Channel!Spec

(* Whatever is written to its last byte is read, unless a read fails. *)
FramesArrive ==
    \A k \in 1 .. MaxItems : (Len(sent) >= k) ~> (Len(got) >= k \/ rPc = "failed")

(* A reader never waits for the rest of a frame whose writer is gone. *)
EndIsNoticed == (end # "open") ~> (rPc = "failed")

=============================================================================
