--------------------------- MODULE MCServiceClient --------------------------
(* An instance of ServiceClient for TLC. *)
EXTENDS ServiceClient
=============================================================================
