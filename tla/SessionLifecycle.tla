-------------------------- MODULE SessionLifecycle --------------------------
(***************************************************************************)
(* What rtc.Server promises about the sessions it is given, whatever it    *)
(* does with locks and goroutines inside: a session enters a call once or  *)
(* is rejected, leaves it once, and its close callback runs once, after    *)
(* that.  Two sessions with one ID are never in one call together, as long *)
(* as no InitSession was disturbed by a CloseSession that emptied its call *)
(* at the wrong moment.                                                    *)
(***************************************************************************)
CONSTANTS
  Joins,      \* calls of InitSession and the sessions they make
  cfg         \* the configuration each is given

VARIABLES
  life,       \* what became of each session
  disturbed   \* whether an InitSession lost a race with a CloseSession

Stages == {"new", "rejected", "member", "closing", "closed"}

Init ==
  /\ life = [j \in Joins |-> "new"]
  /\ disturbed = FALSE

\* Another session of the call has j's session ID.
taken(j) == \E i \in Joins \ {j} : life[i] = "member" /\ cfg[i] = cfg[j]

Add(j) ==
  /\ life[j] = "new"
  /\ life' = [life EXCEPT ![j] = "member"]
  /\ disturbed' \in {disturbed, TRUE}
  /\ disturbed' \/ ~taken(j)

Reject(j) ==
  /\ life[j] = "new"
  /\ life' = [life EXCEPT ![j] = "rejected"]
  /\ UNCHANGED disturbed

\* CloseSession takes the session out of its call.
Close(j) ==
  /\ life[j] = "member"
  /\ life' = [life EXCEPT ![j] = "closing"]
  /\ UNCHANGED disturbed

\* The signaling goroutine has ended and closeCb runs.
Finish(j) ==
  /\ life[j] = "closing"
  /\ life' = [life EXCEPT ![j] = "closed"]
  /\ UNCHANGED disturbed

Disturb ==
  /\ ~disturbed
  /\ disturbed' = TRUE
  /\ UNCHANGED life

Next ==
  \/ \E j \in Joins : Add(j) \/ Reject(j) \/ Close(j) \/ Finish(j)
  \/ Disturb

Spec == Init /\ [][Next]_<<life, disturbed>>
=============================================================================
