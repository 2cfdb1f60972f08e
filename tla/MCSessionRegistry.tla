-------------------------- MODULE MCSessionRegistry --------------------------
(* Instances of SessionRegistry for TLC. *)
EXTENDS SessionRegistry, TLC

CONSTANTS j1, j2, j3, A, B, c1, g1

\* Session A joins a call, may leave and join it again while B comes and goes.
rejoin == [j \in Joins |-> [group |-> g1, call |-> c1,
                            session |-> IF j = j3 THEN B ELSE A]]

\* j1 and j2 join with the same configuration.
twins == Permutations({j1, j2})
=============================================================================
