----------------------------- MODULE MCWSServer -----------------------------
(* An instance of WSServer for TLC. *)
EXTENDS WSServer

CONSTANTS x, y
=============================================================================
