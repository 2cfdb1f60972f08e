------------------------------ MODULE MCMedia -------------------------------
(***************************************************************************)
(* The media path of a session for TLC: voice activity, screen levels,     *)
(* rate monitor and sockets.  They share no variable, so a behaviour in    *)
(* which the others stand still shows as much of one as any: the initial   *)
(* state says which one runs.                                              *)
(***************************************************************************)
EXTENDS VoiceActivity, ScreenLevels, RateMonitor, MultiConn

VARIABLE running

\* Once one of these is set, and neither is ever taken back, ViewerServed asks
\* nothing more of the screen levels.
exempt == cut \/ stale

Init ==
  /\ VoiceInit /\ ScreenInit /\ RateInit /\ ConnInit
  /\ running \in {"voice", "screen", "rate", "sockets"}

Next ==
  /\ UNCHANGED running
  /\ \/ running = "voice" /\ VoiceNext /\ UNCHANGED <<screenVars, rateVars, connVars>>
     \/ running = "screen" /\ ~exempt /\ ScreenNext /\ UNCHANGED <<voiceVars, rateVars, connVars>>
     \/ running = "rate" /\ RateNext /\ UNCHANGED <<voiceVars, screenVars, connVars>>
     \/ running = "sockets" /\ ConnNext /\ UNCHANGED <<voiceVars, screenVars, rateVars>>

allVars == <<running, voiceVars, screenVars, rateVars, connVars>>

\* The goroutines of the sockets run; nobody need call ReadFrom.
Fairness ==
  /\ \A s \in Sockets : WF_connVars(running = "sockets" /\ ReaderStep(s))
  /\ WF_connVars(running = "sockets" /\ (CloseResults \/ \E s \in Sockets : CloseSocket(s)))

Spec == Init /\ [][Next]_allVars /\ Fairness
=============================================================================
