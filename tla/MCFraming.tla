----------------------------- MODULE MCFraming -----------------------------
(* Framing for TLC: bytes of one bit, so that the prefix counts to 15. *)
EXTENDS Framing

(* A short message, one of exactly the limit, one above it. *)
MCPayload == [Stop |-> <<1>>, Hello |-> <<0, 1, 1>>, Result |-> <<1, 0, 1, 1>>]

(* An oversized length, an empty payload, one that is no message. *)
MCJunk == [oversized |-> <<0, 1, 0, 0>>, empty |-> <<0, 0, 0, 0>>,
           garbled |-> <<0, 0, 1, 0, 1, 1>>]

=============================================================================
