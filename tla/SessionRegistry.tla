--------------------------- MODULE SessionRegistry ---------------------------
(***************************************************************************)
(* The session registry of rtc.Server: how InitSession and addSession      *)
(* (service/rtc/sfu.go, session.go) put a session under its group and its  *)
(* call, how CloseSession takes it out again, how the goroutine that       *)
(* handleNegotiations runs ends, and how Stop drains the server.           *)
(*                                                                         *)
(* Every mutex section of the code is one step here; steps of different    *)
(* goroutines interleave freely.  CloseSession holds call.mut, group.mut   *)
(* and Server.mut together while it unlinks a session and releases them    *)
(* in the reverse order, so that section is one step as well.              *)
(*                                                                         *)
(* A Join is one call of InitSession.  It also names the objects that call *)
(* allocates: the session, and the group and the call if they are missing. *)
(* Maps from IDs to pointers are functions into Joins with Nil for a       *)
(* missing key.  A Closer is a goroutine that may call CloseSession: the   *)
(* handler of a leave message or a connection state callback of pion, both *)
(* of which know no more than a session ID and run at any time.  The       *)
(* negotiation goroutine of a session closes it too: it is the thread with *)
(* the name of its Join.                                                   *)
(***************************************************************************)
EXTENDS Integers, FiniteSets

CONSTANTS
  Joins,      \* calls of InitSession, and the objects they allocate
  Closers,    \* goroutines that call CloseSession (bounds the concurrency)
  GroupIDs,
  CallIDs,
  SessionIDs,
  cfg,        \* the SessionConfig each call of InitSession is given
  MayStop,    \* whether Stop is called
  Nil

ASSUME CfgAssumption ==
  cfg \in [Joins -> [group : GroupIDs, call : CallIDs, session : SessionIDs]]

ASSUME StopAssumption == MayStop \in BOOLEAN

ASSUME NilAssumption == Nil \notin Joins

ASSUME ThreadAssumption == Joins \cap Closers = {}

VARIABLES
  groups,     \* Server.groups: GroupID -> group object
  calls,      \* group.calls of each group object: CallID -> call object
  members,    \* call.sessions of each call object: SessionID -> session object
  sessions,   \* Server.sessions: SessionID -> the Join whose config it holds
  ipc,        \* where each InitSession is
  g,          \* its local variable g, later group
  c,          \* the call object it adds its session to (session.call)
  rcall,      \* the call it hands to handleNegotiations
  cpc,        \* where each CloseSession is
  entry,      \* its local cfg: the Join that registered it
  cgrp,       \* its local group
  ccall,      \* its local call
  us,         \* its local us
  closeCh,    \* session.closeCh
  doneCh,     \* session.doneCh
  neg,        \* where the goroutine of handleNegotiations is
  closeCb,    \* how many times session.closeCb ran
  stop,       \* where Server.Stop is
  drainCh,    \* Server.drainCh
  gauge,      \* the gauge of IncRTCSessions and DecRTCSessions
  panic,      \* why the process died, if it did
  raced       \* history: the Joins that lost a race with CloseSession

regVars == <<groups, calls, members, sessions>>
initVars == <<ipc, g, c, rcall>>
closeVars == <<cpc, entry, cgrp, ccall, us>>
sessVars == <<closeCh, doneCh, neg, closeCb>>
stopVars == <<stop, drainCh>>
vars == <<regVars, initVars, closeVars, sessVars, stopVars, gauge, panic, raced>>

Threads == Joins \cup Closers
Obj == Joins \cup {Nil}

gid(j) == cfg[j].group
cid(j) == cfg[j].call
sid(j) == cfg[j].session

InitPC == {"idle", "group", "call", "add", "register", "getGroup", "getCall",
           "done", "failed"}
ClosePC == {"idle", "getGroup", "getCall", "getSession", "detach", "signal", "wait"}
NegPC == {"none", "wait", "tracks", "failed", "closing", "exit"}

\* The last conjuncts: the pointers a goroutine is about to follow are set.
TypeOK ==
  /\ groups \in [GroupIDs -> Obj]
  /\ calls \in [Joins -> [CallIDs -> Obj]]
  /\ members \in [Joins -> [SessionIDs -> Obj]]
  /\ sessions \in [SessionIDs -> Obj]
  /\ ipc \in [Joins -> InitPC]
  /\ g \in [Joins -> Obj] /\ c \in [Joins -> Obj] /\ rcall \in [Joins -> Obj]
  /\ cpc \in [Threads -> ClosePC]
  /\ entry \in [Threads -> Obj] /\ cgrp \in [Threads -> Obj]
  /\ ccall \in [Threads -> Obj] /\ us \in [Threads -> Obj]
  /\ closeCh \in [Joins -> {"open", "closed"}]
  /\ doneCh \in [Joins -> {"open", "closed"}]
  /\ neg \in [Joins -> NegPC]
  /\ closeCb \in [Joins -> Nat]
  /\ stop \in {"running", "draining", "stopped"}
  /\ drainCh \in {"nil", "open", "closed"}
  /\ gauge \in Int
  /\ panic \in {"none", "nilGroup", "nilCall", "closeClosed", "sendClosed"}
  /\ raced \in SUBSET Joins
  /\ \A j \in Joins :
       /\ ipc[j] \in {"call", "getCall"} => g[j] # Nil
       /\ ipc[j] \in {"add", "register", "getGroup", "getCall", "done"} => c[j] # Nil
  /\ \A t \in Threads :
       /\ cpc[t] # "idle" => entry[t] # Nil
       /\ cpc[t] \in {"getCall", "getSession", "detach", "signal", "wait"} => cgrp[t] # Nil
       /\ cpc[t] \in {"getSession", "detach", "signal", "wait"} => ccall[t] # Nil
       /\ cpc[t] \in {"detach", "signal", "wait"} => us[t] # Nil

Init ==
  /\ groups = [x \in GroupIDs |-> Nil]
  /\ calls = [j \in Joins |-> [x \in CallIDs |-> Nil]]
  /\ members = [j \in Joins |-> [x \in SessionIDs |-> Nil]]
  /\ sessions = [x \in SessionIDs |-> Nil]
  /\ ipc = [j \in Joins |-> "idle"]
  /\ g = [j \in Joins |-> Nil]
  /\ c = [j \in Joins |-> Nil]
  /\ rcall = [j \in Joins |-> Nil]
  /\ cpc = [t \in Threads |-> "idle"]
  /\ entry = [t \in Threads |-> Nil]
  /\ cgrp = [t \in Threads |-> Nil]
  /\ ccall = [t \in Threads |-> Nil]
  /\ us = [t \in Threads |-> Nil]
  /\ closeCh = [j \in Joins |-> "open"]
  /\ doneCh = [j \in Joins |-> "open"]
  /\ neg = [j \in Joins |-> "none"]
  /\ closeCb = [j \in Joins |-> 0]
  /\ stop = "running"
  /\ drainCh = "nil"
  /\ gauge = 0
  /\ panic = "none"
  /\ raced = {}

-----------------------------------------------------------------------------
(* Nothing runs after a panic.  Guards by the position of a goroutine:      *)

alive == panic = "none"
initAt(j, p) == alive /\ ipc[j] = p
closeAt(t, p) == alive /\ cpc[t] = p
negIn(j, P) == alive /\ neg[j] \in P

-----------------------------------------------------------------------------
(* InitSession (service/rtc/sfu.go) and addSession (service/rtc/session.go). *)

\* The call object that j's group and call IDs lead to at the moment.
linkedCall(j) == IF groups[gid(j)] = Nil THEN Nil ELSE calls[groups[gid(j)]][cid(j)]

\* InitSession counts the session before anything can fail.
InitSession(j) ==
  /\ initAt(j, "idle")
  /\ ipc' = [ipc EXCEPT ![j] = "group"]
  /\ gauge' = gauge + 1
  /\ UNCHANGED <<regVars, g, c, rcall, closeVars, sessVars, stopVars, panic, raced>>

\* Setting up the pion engines or the peer connection may fail.
InitFails(j) ==
  /\ initAt(j, "group")
  /\ ipc' = [ipc EXCEPT ![j] = "failed"]
  /\ UNCHANGED <<regVars, g, c, rcall, closeVars, sessVars, stopVars, gauge, panic, raced>>

\* Under Server.mut: take the group, or create it.
AddGetGroup(j) ==
  LET found == groups[gid(j)]
      grp == IF found = Nil THEN j ELSE found
  IN /\ initAt(j, "group")
     /\ groups' = [groups EXCEPT ![gid(j)] = grp]
     /\ g' = [g EXCEPT ![j] = grp]
     /\ ipc' = [ipc EXCEPT ![j] = "call"]
     /\ UNCHANGED <<calls, members, sessions, c, rcall, closeVars, sessVars,
                    stopVars, gauge, panic, raced>>

\* Under group.mut: take the call, or create it.
AddGetCall(j) ==
  LET found == calls[g[j]][cid(j)]
      call == IF found = Nil THEN j ELSE found
  IN /\ initAt(j, "call")
     /\ calls' = [calls EXCEPT ![g[j]][cid(j)] = call]
     /\ c' = [c EXCEPT ![j] = call]
     /\ ipc' = [ipc EXCEPT ![j] = "add"]
     /\ UNCHANGED <<groups, members, sessions, g, rcall, closeVars, sessVars,
                    stopVars, gauge, panic, raced>>

\* Under call.mut: call.addSession.  raced records that the call was unlinked
\* after addSession fetched it.
AddToCall(j) ==
  /\ initAt(j, "add")
  /\ members[c[j]][sid(j)] = Nil
  /\ members' = [members EXCEPT ![c[j]][sid(j)] = j]
  /\ ipc' = [ipc EXCEPT ![j] = "register"]
  /\ raced' = IF linkedCall(j) = c[j] THEN raced ELSE raced \cup {j}
  /\ UNCHANGED <<groups, calls, sessions, g, c, rcall, closeVars, sessVars,
                 stopVars, gauge, panic>>

\* call.addSession refuses a session ID the call already has.
AddRefused(j) ==
  /\ initAt(j, "add")
  /\ members[c[j]][sid(j)] # Nil
  /\ ipc' = [ipc EXCEPT ![j] = "failed"]
  /\ UNCHANGED <<regVars, g, c, rcall, closeVars, sessVars, stopVars, gauge, panic, raced>>

\* Under Server.mut: from here on CloseSession finds the session.
AddRegister(j) ==
  /\ initAt(j, "register")
  /\ sessions' = [sessions EXCEPT ![sid(j)] = j]
  /\ ipc' = [ipc EXCEPT ![j] = "getGroup"]
  /\ UNCHANGED <<groups, calls, members, g, c, rcall, closeVars, sessVars,
                 stopVars, gauge, panic, raced>>

\* group := s.getGroup(cfg.GroupID).
InitGetGroup(j) ==
  /\ initAt(j, "getGroup")
  /\ groups[gid(j)] # Nil
  /\ g' = [g EXCEPT ![j] = groups[gid(j)]]
  /\ ipc' = [ipc EXCEPT ![j] = "getCall"]
  /\ UNCHANGED <<regVars, c, rcall, closeVars, sessVars, stopVars, gauge, panic, raced>>

\* group.getCall dereferences the group that getGroup did not find.
InitNilGroup(j) ==
  /\ initAt(j, "getGroup")
  /\ groups[gid(j)] = Nil
  /\ panic' = "nilGroup"
  /\ UNCHANGED <<regVars, initVars, closeVars, sessVars, stopVars, gauge, raced>>

\* call := group.getCall(cfg.CallID), then go s.handleNegotiations(us, call).
InitGetCall(j) ==
  /\ initAt(j, "getCall")
  /\ rcall' = [rcall EXCEPT ![j] = calls[g[j]][cid(j)]]
  /\ neg' = [neg EXCEPT ![j] = "wait"]
  /\ ipc' = [ipc EXCEPT ![j] = "done"]
  /\ g' = [g EXCEPT ![j] = Nil]
  /\ UNCHANGED <<regVars, c, closeVars, closeCh, doneCh, closeCb, stopVars,
                 gauge, panic, raced>>

-----------------------------------------------------------------------------
(* CloseSession (service/rtc/sfu.go), run by thread t.                      *)

\* Plausible slip: the entry stays, so that two closers take it.
withoutEntry_kept(s) == sessions

\* Server.sessions once CloseSession took the entry of s out of it.
withoutEntry(s) == [sessions EXCEPT ![s] = Nil]

\* Plausible slip: nobody closes Server.drainCh.
drainAfter_never(left) == drainCh

\* Server.drainCh is closed by the call that leaves no session registered.
drainAfter(left) ==
  IF drainCh = "open" /\ \A s \in SessionIDs : left[s] = Nil THEN "closed" ELSE drainCh

\* Joins whose entry is taken while InitSession has yet to look its call up again.
takenEarly(j) == IF ipc[j] \in {"getGroup", "getCall"} THEN {j} ELSE {}

\* The section under Server.mut that begins CloseSession(s) in thread t.
closeLookup(t, s) ==
  /\ closeAt(t, "idle")
  /\ sessions' = withoutEntry(s)
  /\ drainCh' = drainAfter(sessions')
  /\ UNCHANGED <<groups, calls, members, initVars, cgrp, ccall, us, closeCh, doneCh,
                 closeCb, stop, gauge, panic>>

\* The session is registered, and this CloseSession is the one that closes it.
closeTakes(t, s) ==
  /\ sessions[s] # Nil
  /\ closeLookup(t, s)
  /\ cpc' = [cpc EXCEPT ![t] = "getGroup"]
  /\ entry' = [entry EXCEPT ![t] = sessions[s]]
  /\ raced' = raced \cup takenEarly(sessions[s])

\* A session that is not registered makes CloseSession return nil.
closeIgnores(t, s) ==
  /\ sessions[s] = Nil
  /\ closeLookup(t, s)
  /\ UNCHANGED <<cpc, entry, raced>>

\* A leave message, or a peer connection that failed or closed.
CloseSession(t, s) == (closeTakes(t, s) \/ closeIgnores(t, s)) /\ UNCHANGED neg

\* DecRTCSessions, then group := s.getGroup(cfg.GroupID).
CloseGetGroup(t) ==
  /\ closeAt(t, "getGroup")
  /\ groups[gid(entry[t])] # Nil
  /\ gauge' = gauge - 1
  /\ cgrp' = [cgrp EXCEPT ![t] = groups[gid(entry[t])]]
  /\ cpc' = [cpc EXCEPT ![t] = "getCall"]
  /\ UNCHANGED <<regVars, initVars, entry, ccall, us, sessVars, stopVars, panic, raced>>

\* call := group.getCall(cfg.CallID).
CloseGetCall(t) ==
  /\ closeAt(t, "getCall")
  /\ calls[cgrp[t]][cid(entry[t])] # Nil
  /\ ccall' = [ccall EXCEPT ![t] = calls[cgrp[t]][cid(entry[t])]]
  /\ cpc' = [cpc EXCEPT ![t] = "getSession"]
  /\ UNCHANGED <<regVars, initVars, entry, cgrp, us, sessVars, stopVars, gauge,
                 panic, raced>>

\* us := call.getSession(cfg.SessionID).
CloseGetSession(t) ==
  /\ closeAt(t, "getSession")
  /\ members[ccall[t]][sid(entry[t])] # Nil
  /\ us' = [us EXCEPT ![t] = members[ccall[t]][sid(entry[t])]]
  /\ cpc' = [cpc EXCEPT ![t] = "detach"]
  /\ UNCHANGED <<regVars, initVars, entry, cgrp, ccall, sessVars, stopVars, gauge,
                 panic, raced>>

\* The lookup that CloseSession is about to make finds nothing.
notFound(t) ==
  \/ cpc[t] = "getGroup" /\ groups[gid(entry[t])] = Nil
  \/ cpc[t] = "getCall" /\ calls[cgrp[t]][cid(entry[t])] = Nil
  \/ cpc[t] = "getSession" /\ members[ccall[t]][sid(entry[t])] = Nil

\* What is left of a thread's CloseSession when it returns: the negotiation
\* goroutine ends with the call it made.
closeReturns(t) ==
  /\ cpc' = [cpc EXCEPT ![t] = "idle"]
  /\ entry' = [entry EXCEPT ![t] = Nil]
  /\ cgrp' = [cgrp EXCEPT ![t] = Nil]
  /\ ccall' = [ccall EXCEPT ![t] = Nil]
  /\ us' = [us EXCEPT ![t] = Nil]
  /\ neg' = IF t \in Joins THEN [neg EXCEPT ![t] = "exit"] ELSE neg

\* CloseSession returns "group not found", "call not found" or "session not found".
CloseNotFound(t) ==
  /\ alive /\ notFound(t)
  /\ gauge' = IF cpc[t] = "getGroup" THEN gauge - 1 ELSE gauge
  /\ closeReturns(t)
  /\ UNCHANGED <<regVars, initVars, closeCh, doneCh, closeCb, stopVars, panic, raced>>

\* Plausible slips: one session left is taken for none; no group ever goes.
emptyCall_offByOne(call, ms) == Cardinality({s \in SessionIDs : ms[call][s] # Nil}) <= 1
emptyGroup_never(grp, cs) == FALSE

\* Whether a call object, or a group object, has nothing left in it.
emptyCall(call, ms) == \A s \in SessionIDs : ms[call][s] = Nil
emptyGroup(grp, cs) == \A x \in CallIDs : cs[grp][x] = Nil

\* Plausible slip: the session stays in its call.
CloseDetach_kept(t) ==
  /\ closeAt(t, "detach")
  /\ cpc' = [cpc EXCEPT ![t] = "signal"]
  /\ UNCHANGED <<regVars, initVars, entry, cgrp, ccall, us, sessVars, stopVars,
                 gauge, panic, raced>>

\* Under call.mut, group.mut and Server.mut: delete the session from its call,
\* the call from its group when it was the last one, and likewise the group.
\* All three deletions go by ID.
CloseDetach(t) ==
  LET e == entry[t] IN
  /\ closeAt(t, "detach")
  /\ members' = [members EXCEPT ![ccall[t]][sid(e)] = Nil]
  /\ calls' = IF emptyCall(ccall[t], members')
              THEN [calls EXCEPT ![cgrp[t]][cid(e)] = Nil]
              ELSE calls
  /\ groups' = IF emptyCall(ccall[t], members') /\ emptyGroup(cgrp[t], calls')
               THEN [groups EXCEPT ![gid(e)] = Nil]
               ELSE groups
  /\ cpc' = [cpc EXCEPT ![t] = "signal"]
  /\ UNCHANGED <<sessions, initVars, entry, cgrp, ccall, us, sessVars, stopVars,
                 gauge, panic, raced>>

\* close(us.closeCh) under us.mut, then us.rtcConn.Close().
CloseSignal(t) ==
  /\ closeAt(t, "signal")
  /\ closeCh[us[t]] = "open"
  /\ closeCh' = [closeCh EXCEPT ![us[t]] = "closed"]
  /\ cpc' = [cpc EXCEPT ![t] = "wait"]
  /\ UNCHANGED <<regVars, initVars, entry, cgrp, ccall, us, doneCh, neg, closeCb,
                 stopVars, gauge, panic, raced>>

\* close(us.closeCh) when another CloseSession closed it already.
CloseTwice(t) ==
  /\ closeAt(t, "signal")
  /\ closeCh[us[t]] = "closed"
  /\ panic' = "closeClosed"
  /\ UNCHANGED <<regVars, initVars, closeVars, sessVars, stopVars, gauge, raced>>

\* Plausible slip: nobody waits for the signaling goroutines.
signalingDone_unawaited(j) == TRUE

\* The signaling goroutines of session j are done.
signalingDone(j) == doneCh[j] = "closed"

\* <-us.doneCh, then us.closeCb().
CloseWait(t) ==
  /\ closeAt(t, "wait")
  /\ signalingDone(us[t])
  /\ closeCb' = [closeCb EXCEPT ![us[t]] = @ + 1]
  /\ closeReturns(t)
  /\ UNCHANGED <<regVars, initVars, closeCh, doneCh, stopVars, gauge, panic, raced>>

-----------------------------------------------------------------------------
(* handleNegotiations (service/rtc/session.go), one goroutine per session.  *)

\* The first offer is answered, and handleTracks begins.
FirstOffer(j) ==
  /\ negIn(j, {"wait"})
  /\ rcall[j] # Nil
  /\ neg' = [neg EXCEPT ![j] = "tracks"]
  /\ UNCHANGED <<regVars, initVars, closeVars, closeCh, doneCh, closeCb, stopVars,
                 gauge, panic, raced>>

\* handleTracks dereferences the call that InitSession did not find.
FirstOfferNilCall(j) ==
  /\ negIn(j, {"wait"})
  /\ rcall[j] = Nil
  /\ panic' = "nilCall"
  /\ UNCHANGED <<regVars, initVars, closeVars, sessVars, stopVars, gauge, raced>>

\* Plausible slip: doneCh is left to the deferred function.
SignalingFails_deferred(j) ==
  /\ negIn(j, {"wait"})
  /\ neg' = [neg EXCEPT ![j] = "failed"]
  /\ UNCHANGED <<regVars, initVars, closeVars, closeCh, doneCh, closeCb, stopVars,
                 gauge, panic, raced>>

\* No offer came in time, or answering it failed: close doneCh, so that the
\* CloseSession that follows does not wait for this very goroutine.
SignalingFails(j) ==
  /\ negIn(j, {"wait"})
  /\ doneCh' = [doneCh EXCEPT ![j] = "closed"]
  /\ neg' = [neg EXCEPT ![j] = "failed"]
  /\ UNCHANGED <<regVars, initVars, closeVars, closeCh, closeCb, stopVars, gauge,
                 panic, raced>>

\* The goroutine calls CloseSession with its session ID.
CloseFailed(j) ==
  /\ negIn(j, {"failed"})
  /\ closeTakes(j, sid(j))
  /\ neg' = [neg EXCEPT ![j] = "closing"]

\* The session was gone, and the goroutine ends.
CloseFailedGone(j) ==
  /\ negIn(j, {"failed"})
  /\ closeIgnores(j, sid(j))
  /\ neg' = [neg EXCEPT ![j] = "exit"]

\* closeCh ends the wait for an offer, handleTracks and handleICE; the deferred
\* function closes doneCh.
NegotiationsEnd(j) ==
  /\ negIn(j, {"wait", "tracks"})
  /\ closeCh[j] = "closed"
  /\ neg' = [neg EXCEPT ![j] = "exit"]
  /\ doneCh' = [doneCh EXCEPT ![j] = "closed"]
  /\ UNCHANGED <<regVars, initVars, closeVars, closeCh, closeCb, stopVars, gauge,
                 panic, raced>>

-----------------------------------------------------------------------------
(* Stop (service/rtc/server.go).                                            *)

anySession == \E s \in SessionIDs : sessions[s] # Nil

\* Without a session Stop goes on to close the message channels.
Stop ==
  /\ alive /\ MayStop
  /\ stop = "running"
  /\ IF anySession
     THEN stop' = "draining" /\ drainCh' = "open"
     ELSE stop' = "stopped" /\ UNCHANGED drainCh
  /\ UNCHANGED <<regVars, initVars, closeVars, sessVars, gauge, panic, raced>>

\* <-drainCh, then close(s.receiveCh) and close(s.sendCh).
StopDrained ==
  /\ alive /\ stop = "draining"
  /\ drainCh = "closed"
  /\ stop' = "stopped"
  /\ UNCHANGED <<regVars, initVars, closeVars, sessVars, drainCh, gauge, panic, raced>>

\* An answer, an offer, an ICE candidate or a voice message of a session whose
\* goroutines still run; before Stop is through it goes out and changes nothing.
SendAfterStop(j) ==
  /\ stop = "stopped"
  /\ negIn(j, {"wait", "tracks"})
  /\ panic' = "sendClosed"
  /\ UNCHANGED <<regVars, initVars, closeVars, sessVars, stopVars, gauge, raced>>

\* A panic nobody recovers from ends the process.
Dead == panic # "none" /\ UNCHANGED vars

-----------------------------------------------------------------------------
InitStep(j) ==
  \/ InitFails(j) \/ AddGetGroup(j) \/ AddGetCall(j) \/ AddToCall(j) \/ AddRefused(j)
  \/ AddRegister(j) \/ InitGetGroup(j) \/ InitNilGroup(j) \/ InitGetCall(j)

CloseStep(t) ==
  \/ CloseGetGroup(t) \/ CloseGetCall(t) \/ CloseGetSession(t) \/ CloseNotFound(t)
  \/ CloseDetach(t) \/ CloseSignal(t) \/ CloseTwice(t) \/ CloseWait(t)

\* What the negotiation goroutine does without waiting for the client.
NegStep(j) == NegotiationsEnd(j) \/ CloseFailed(j) \/ CloseFailedGone(j)

Next ==
  \/ \E j \in Joins : InitSession(j) \/ InitStep(j)
  \/ \E t \in Closers, s \in SessionIDs : CloseSession(t, s)
  \/ \E t \in Threads : CloseStep(t)
  \/ \E j \in Joins : FirstOffer(j) \/ FirstOfferNilCall(j) \/ SignalingFails(j) \/ NegStep(j)
  \/ Stop \/ StopDrained
  \/ \E j \in Joins : SendAfterStop(j)
  \/ Dead

\* Go runs every goroutine that can run.  Nothing makes a client join, leave or
\* send an offer.
Fairness ==
  /\ \A j \in Joins : WF_vars(InitStep(j))
  /\ \A t \in Threads : WF_vars(CloseStep(t))
  /\ \A j \in Joins : WF_vars(NegStep(j))
  /\ WF_vars(StopDrained)

Spec == Init /\ [][Next]_vars
FairSpec == Spec /\ Fairness

-----------------------------------------------------------------------------
(* Properties.                                                              *)

\* A session is in the call that its IDs lead to.
reachable(j) == linkedCall(j) # Nil /\ members[linkedCall(j)][sid(j)] = j

\* Unless an InitSession lost a race with a CloseSession, neither of them ever
\* dereferences a missing group or call (sfu.go:260, 774) and no close channel
\* is closed twice (sfu.go:757), whoever closes what at the same time.
NoRegistryPanic == raced = {} => panic \in {"none", "sendClosed"}

\* Unless a race was lost, every session in Server.sessions is found by the
\* lookups by group, call and session ID that msgReader and CloseSession make
\* (server.go:203-233, sfu.go:727-738).
RegisteredReachable ==
  raced = {} => \A s \in SessionIDs : sessions[s] # Nil => reachable(sessions[s])

\* Unless a race was lost, CloseSession finds the session it took out of
\* Server.sessions and returns none of its lookup errors (sfu.go:727-738),
\* although it releases Server.mut before each lookup.
CloseFindsSession ==
  raced = {} =>
    \A t \in Threads :
      /\ cpc[t] \in {"getGroup", "getCall", "getSession", "detach"} => reachable(entry[t])
      /\ cpc[t] = "detach" => us[t] = entry[t]

\* A step deletes no call and no group with something left in it.
keepsLive ==
  /\ \A grp \in Joins, x \in CallIDs :
       calls[grp][x] # Nil /\ calls'[grp][x] = Nil
         => \A s \in SessionIDs : members'[calls[grp][x]][s] = Nil
  /\ \A x \in GroupIDs :
       groups[x] # Nil /\ groups'[x] = Nil
         => \A y \in CallIDs : calls'[groups[x]][y] = Nil

\* Unless a race was lost, CloseSession deletes a call from its group only when
\* that very call has no session left, and a group only when that very group has
\* no call left: it deletes by ID what it looked up before it held the locks
\* (sfu.go:744-752).
LiveCallKept == [][raced' = {} => keepsLive]_vars

\* The sessions that are in the call object they were added to and whose IDs lead
\* to that object.
Linked == {j \in Joins : c[j] # Nil /\ linkedCall(j) = c[j] /\ members[c[j]][sid(j)] = j}

\* What the entry of s in Server.sessions stands for.
entryInv(s) ==
  sessions[s] # Nil =>
    LET j == sessions[s] IN
      /\ sid(j) = s /\ j \in Linked /\ closeCh[j] = "open"
      /\ ipc[j] \in {"getGroup", "getCall", "done"}
      /\ \A t \in Threads : cpc[t] # "idle" => entry[t] # j

\* What an InitSession, and the goroutine it starts, rely on.
joinInv(j) ==
  /\ ipc[j] \in {"register", "getGroup", "getCall"} => j \in Linked
  /\ ipc[j] = "getCall" => g[j] = groups[gid(j)]
  /\ closeCh[j] = "closed" => ipc[j] = "done"
  /\ neg[j] = "wait" => rcall[j] # Nil

\* What a CloseSession relies on.
ownerInv(t) ==
  cpc[t] # "idle" =>
    /\ ipc[entry[t]] = "done"
    /\ \A u \in Threads \ {t} : cpc[u] # "idle" => entry[u] # entry[t]
    /\ cpc[t] \notin {"signal", "wait"} => entry[t] \in Linked
    /\ cpc[t] # "wait" => closeCh[entry[t]] = "open"
    /\ cpc[t] \in {"getCall", "getSession", "detach"} => cgrp[t] = groups[gid(entry[t])]
    /\ cpc[t] \in {"getSession", "detach"} => ccall[t] = c[entry[t]]
    /\ cpc[t] \in {"detach", "signal", "wait"} => us[t] = entry[t]

\* A session has one owner at a time: its InitSession, its entry in
\* Server.sessions, or the one CloseSession that took that entry.  It stays linked
\* until its owner detaches it, and its owner holds the pointers its IDs lead to.
Owned ==
  /\ panic \in {"none", "sendClosed"}
  /\ \A s \in SessionIDs : entryInv(s)
  /\ \A j \in Joins : joinInv(j)
  /\ \A t \in Threads : ownerInv(t)

\* Why, as long as no race was lost, the lookups of CloseSession succeed and no
\* closeCh is closed twice (sfu.go:709-757): sessions have one owner.
RegistryInv == raced = {} => Owned

\* Once closeCh is closed the session is in no call any more (sfu.go:743-757):
\* nobody can hand a track or a message to a session that is going away.
ClosedIsDetached ==
  \A j, call \in Joins : closeCh[j] = "closed" => members[call][sid(j)] # j

\* closeCb runs at most once per session, after closeCh was closed and after the
\* signaling goroutine left its loops ("Wait for the signaling goroutines to be
\* done.", sfu.go:761-766).
CallbackLast ==
  \A j \in Joins :
    closeCb[j] > 0 => /\ closeCb[j] = 1
                      /\ closeCh[j] = "closed"
                      /\ neg[j] \in {"failed", "closing", "exit"}

\* The places of InitSession after call.addSession put the session in its call.
Added == {"register", "getGroup", "getCall", "done"}

\* A session is in no slot but the one of its call and its ID.
slotInv(call, s) ==
  members[call][s] # Nil =>
    LET j == members[call][s] IN call = c[j] /\ s = sid(j) /\ ipc[j] \in Added

\* What a CloseSession in thread t knows of its session.
closerInv(t) ==
  /\ cpc[t] \in {"detach", "signal", "wait"} =>
       sid(us[t]) = sid(entry[t]) /\ c[us[t]] = ccall[t] /\ ipc[us[t]] \in Added
  /\ cpc[t] \in {"signal", "wait"} => members[c[us[t]]][sid(us[t])] # us[t]
  /\ cpc[t] = "wait" =>
       /\ closeCh[us[t]] = "closed" /\ closeCb[us[t]] = 0
       /\ \A u \in Threads \ {t} : cpc[u] = "wait" => us[u] # us[t]

\* How far the end of session j has got.
endInv(j) ==
  /\ neg[j] \in {"wait", "tracks"} => ipc[j] = "done"
  /\ closeCh[j] = "closed" => ipc[j] \in Added /\ members[c[j]][sid(j)] # j
  /\ doneCh[j] = "closed" => ipc[j] = "done" /\ neg[j] \in {"failed", "closing", "exit"}
  /\ closeCb[j] > 0 => closeCb[j] = 1 /\ closeCh[j] = "closed" /\ doneCh[j] = "closed"

\* Why a session is closed once, detached before and reported after, even when
\* races were lost and a CloseSession holds a session of another join: it holds a
\* session of the ID it closes, and empties the slot of that ID first (sfu.go:743)
\* before it closes closeCh (sfu.go:757), which only one CloseSession can do.
CloseInv ==
  /\ \A call \in Joins, s \in SessionIDs : slotInv(call, s)
  /\ \A t \in Threads : closerInv(t)
  /\ \A j \in Joins : endInv(j)

\* With no InitSession under way, no group is left without a call and no call
\* without a session (sfu.go:744-752).
NoEmptyShells ==
  (\A j \in Joins : ipc[j] \in {"idle", "done", "failed"}) =>
    \A x \in GroupIDs : groups[x] # Nil =>
      /\ \E y \in CallIDs : calls[groups[x]][y] # Nil
      /\ \A y \in CallIDs : LET call == calls[groups[x]][y] IN
           call # Nil => \E s \in SessionIDs : members[call][s] # Nil

\* While Stop waits on drainCh a session is registered: the CloseSession that
\* takes the last one wakes it up (server.go:160-175, sfu.go:713-717).
DrainNotLost == stop = "draining" /\ drainCh = "open" => anySession

\* Every CloseSession returns: the goroutine it waits for always ends, even the
\* one that is itself closing its session (session.go:144, 156, sfu.go:762).
CloseCompletes ==
  \A t \in Threads : cpc[t] # "idle" ~> cpc[t] = "idle" \/ panic # "none"

\* Once the last session is gone a waiting Stop returns (server.go:172-177).
DrainReleases ==
  (stop = "draining" /\ ~anySession) ~> (stop = "stopped" \/ panic # "none")

\* The stage of each session for its caller.
life ==
  [j \in Joins |->
    IF closeCb[j] > 0 THEN "closed"
    ELSE IF ipc[j] \in {"idle", "group", "call", "add"} THEN "new"
    ELSE IF ipc[j] = "failed" THEN "rejected"
    ELSE IF members[c[j]][sid(j)] = j THEN "member"
    ELSE "closing"]

\* rtc.Server keeps the promises of SessionLifecycle: every session enters its
\* call once, leaves it once and is reported closed once, in that order, and
\* until a race is lost no call has two sessions of one ID (session.go:77-121,
\* call.go:32-60, sfu.go:708-769).
Lifecycle == INSTANCE SessionLifecycle WITH disturbed <- raced # {}
KeepsPromises == Lifecycle!Spec
=============================================================================
