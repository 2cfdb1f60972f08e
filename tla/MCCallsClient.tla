--------------------------- MODULE MCCallsClient ----------------------------
(* Instances of CallsClient for TLC. *)
EXTENDS CallsClient
=============================================================================
