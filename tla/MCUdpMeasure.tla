---------------------------- MODULE MCUdpMeasure ----------------------------
(* UdpMeasure for TLC. *)
EXTENDS UdpMeasure

Behind == -3   \* a server clock that is behind the client's

=============================================================================
