--------------------------- MODULE MCSctpStreams ----------------------------
(* Instances of SctpStreams for TLC. *)
EXTENDS SctpStreams
=============================================================================
