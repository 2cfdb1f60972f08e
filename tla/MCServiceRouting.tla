-------------------------- MODULE MCServiceRouting --------------------------
(* Instances of ServiceRouting for TLC. *)
EXTENDS ServiceRouting

CONSTANTS j1, j2, A, B, c1, n1, n2

\* A joins its call twice, from one node and from another.  B only reconnects.
rejoin == [j \in Joins |-> [call |-> c1, session |-> A]]
nodes == [j \in Joins |-> IF j = j2 THEN n2 ELSE n1]
=============================================================================
