---------------------------- MODULE MCCallTracks ----------------------------
(* Instances of CallTracks for TLC. *)
EXTENDS CallTracks, TLC

CONSTANTS a, b, c

twins == Permutations(Sessions)
=============================================================================
