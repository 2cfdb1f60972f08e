---------------------------- MODULE ScreenLevels ----------------------------
(***************************************************************************)
(* Which simulcast level of a shared screen a viewer is sent: the choice   *)
(* when the tracks arrive (OnTrack in service/rtc/sfu.go), the changes on  *)
(* new estimates of the viewer's bandwidth (simulcast.go), and the viewer's*)
(* track loop (handleTracks, addTrack, removeTrack), which carries both    *)
(* out.  One sharer, whose shares have a low and a high track, and one     *)
(* viewer.  A track is a share and a level.  Rates are in units of 100     *)
(* kbit/s.                                                                 *)
(*                                                                         *)
(* Each track has a goroutine that runs OnTrack, and the viewer has one    *)
(* for the changes of level.  Each reads shared state several times, under *)
(* a lock it gives back each time: a step of the model is one such read,   *)
(* or one send on the viewer's channel.                                    *)
(***************************************************************************)
EXTENDS Integers, Sequences, FiniteSets

CONSTANTS
  ShareBound,       \* bounds the shares
  Estimates,        \* rates the bandwidth estimator comes up with
  ViewerChSize,     \* size of the viewer's tracksCh
  NoTrack

SimulcastLevels == {"l", "h"}
Tracks == [share : 1..ShareBound, level : SimulcastLevels]

ASSUME ScreenAssumption ==
  /\ ShareBound \in Nat /\ ViewerChSize \in Nat \ {0} /\ Estimates \subseteq Nat
  /\ NoTrack \notin Tracks

VARIABLES
  share,            \* the share that is on or, when none is, the next one
  active,           \* a share is on: call.screenSession is set
  arrival,          \* how far OnTrack has come with a track
  outScreenTracks,  \* of the sharer: the track of a level, or NoTrack
  measured,         \* levels whose rate monitor is filled
  target,           \* the estimator's target bitrate
  viewerCh,         \* the viewer's tracksCh
  negotiated,       \* track addTrack waits for an answer for, or NoTrack
  senders,          \* screen tracks of the viewer's RTP senders
  screenSender,     \* track of screenTrackSender, or NoTrack
  exchange,         \* where the rate handler is, and the tracks it has read
  currLevel,        \* what it takes the level to be
  backingOff,       \* its last change is less than backoff ago
  \* histories
  cut,              \* a channel was full or a negotiation failed
  moved,            \* the expected level changed between the choices for this share
  stale             \* a track was to be added whose share was over, or ended then

screenVars == <<share, active, arrival, outScreenTracks, measured, target, viewerCh, negotiated,
                senders, screenSender, exchange, currLevel, backingOff, cut, moved, stale>>
shareVars == <<share, active, arrival, outScreenTracks, measured>>
handlerVars == <<exchange, currLevel, backingOff>>
loopVars == <<negotiated, senders, screenSender>>
screenHistories == <<cut, moved, stale>>

\* Rates of the sources, about simulcastRates.
sourceRate(level) == IF level = "h" THEN 25 ELSE 5

noTracks == [level \in SimulcastLevels |-> NoTrack]
idle == [at |-> "idle", from |-> NoTrack, to |-> NoTrack]

ScreenInit ==
  /\ share = 1 /\ active = FALSE /\ measured = {}
  /\ arrival = [t \in Tracks |-> "none"] /\ outScreenTracks = noTracks
  /\ target \in Estimates
  /\ viewerCh = <<>> /\ negotiated = NoTrack /\ senders = {} /\ screenSender = NoTrack
  /\ exchange = idle /\ currLevel = "l" /\ backingOff = FALSE
  /\ cut = FALSE /\ moved = FALSE /\ stale = FALSE

add(t) == [action |-> "add", track |-> t]
remove(t) == [action |-> "remove", track |-> t]

\* The levels of the share that OnTrack has compared with the expected one.
looked(k) == {t.level : t \in {u \in Tracks : u.share = k /\ arrival[u] \in {"chosen", "passed", "announced"}}}

over(t) == t.share < share

room == Len(viewerCh) < ViewerChSize

\* A message too many is dropped.
queue(msg) ==
  IF room
  THEN viewerCh' = Append(viewerCh, msg) /\ UNCHANGED cut
  ELSE cut' = TRUE /\ UNCHANGED viewerCh

-----------------------------------------------------------------------------
(* Levels *)

\* rateTolerance
tolerated(rate) == (rate * 9) \div 10

getSimulcastLevel(downRate, source) ==
  IF source > 0 /\ downRate > tolerated(source) THEN "h" ELSE "l"

getSimulcastLevelForRate(rate) == IF rate > tolerated(25) THEN "h" ELSE "l"

getExpectedSimulcastLevel == getSimulcastLevelForRate(target)

getSourceRate(level) == IF level \in measured THEN sourceRate(level) ELSE -1

-----------------------------------------------------------------------------
(* The sharer *)

\* OnTrack looks at the viewers under call.mut.
looking == \E t \in Tracks : arrival[t] = "chosen"

\* ScreenOn: setScreenSession.
StartShare ==
  /\ ~active /\ share <= ShareBound /\ ~looking
  /\ active' = TRUE
  /\ UNCHANGED <<share, arrival, outScreenTracks, measured, target, viewerCh, loopVars, handlerVars,
                 screenHistories>>

\* OnTrack: any track is accepted while no share is on, else one of its stream.
\* It may come before ScreenOn or after ScreenOff is handled.
Arrive(t) ==
  /\ arrival[t] = "none"
  /\ t.share \in {share - 1, share} \/ (active /\ t.share = share + 1)
  /\ arrival' = [arrival EXCEPT ![t] = IF active /\ t.share # share THEN "refused" ELSE "accepted"]
  /\ UNCHANGED <<share, active, outScreenTracks, measured, target, viewerCh, loopVars, handlerVars,
                 screenHistories>>

\* ... it is set, with a new rate monitor
SetTrack(t) ==
  /\ arrival[t] = "accepted"
  /\ arrival' = [arrival EXCEPT ![t] = "set"]
  /\ outScreenTracks' = [outScreenTracks EXCEPT ![t.level] = t]
  /\ measured' = measured \ {t.level}
  /\ UNCHANGED <<share, active, target, viewerCh, loopVars, handlerVars, screenHistories>>

\* ... its level is compared with the one the viewer is to have
Choose(t) ==
  LET expected == t.level = getExpectedSimulcastLevel IN
  /\ arrival[t] = "set"
  /\ arrival' = [arrival EXCEPT ![t] = IF expected THEN "chosen" ELSE "passed"]
  /\ stale' = (stale \/ (expected /\ over(t)))
  /\ UNCHANGED <<share, active, outScreenTracks, measured, target, viewerCh, loopVars, handlerVars,
                 cut, moved>>

\* ... and it is announced to the viewer.
Announce(t) ==
  /\ arrival[t] = "chosen"
  /\ arrival' = [arrival EXCEPT ![t] = "announced"]
  /\ queue(add(t))
  /\ UNCHANGED <<share, active, outScreenTracks, measured, target, loopVars, handlerVars, moved, stale>>

\* The rate monitor of a level is filled with the packets OnTrack then reads.
Measure(level) ==
  /\ level \notin measured /\ outScreenTracks[level] # NoTrack
  /\ arrival[outScreenTracks[level]] \in {"passed", "announced"}
  /\ measured' = measured \cup {level}
  /\ UNCHANGED <<share, active, arrival, outScreenTracks, target, viewerCh, loopVars, handlerVars,
                 screenHistories>>

\* A track of the share is on its way to the viewer.
pendingAdd(k) ==
  \/ \E i \in DOMAIN viewerCh : viewerCh[i].action = "add" /\ viewerCh[i].track.share = k
  \/ negotiated # NoTrack /\ negotiated.share = k
  \/ exchange.at = "add" /\ exchange.to.share = k
  \/ \E t \in Tracks : t.share = k /\ arrival[t] = "chosen"

\* ScreenOff: clearScreenState of the call.
EndShare ==
  /\ active /\ ~looking
  /\ active' = FALSE /\ share' = share + 1
  /\ outScreenTracks' = noTracks /\ measured' = {}
  /\ IF screenSender # NoTrack THEN queue(remove(screenSender)) ELSE UNCHANGED <<viewerCh, cut>>
  /\ screenSender' = NoTrack
  /\ moved' = FALSE
  /\ stale' = (stale \/ pendingAdd(share))
  /\ UNCHANGED <<arrival, target, negotiated, senders, handlerVars>>

-----------------------------------------------------------------------------
(* Bandwidth *)

retarget(rate) ==
  /\ target' = rate
  /\ moved' = (moved \/ (/\ Cardinality(looked(share)) = 1
                         /\ getSimulcastLevelForRate(rate) # getExpectedSimulcastLevel))

\* The estimator (external).
Estimate(rate) ==
  /\ retarget(rate)
  /\ UNCHANGED <<shareVars, viewerCh, loopVars, handlerVars, cut, stale>>

\* rateChangeHandler takes a rate, and handleSenderBitrateChange looks for a
\* share.  Whether both rates dropped since the last time is the estimator's.
RateChange(dropped) ==
  /\ exchange.at = "idle"
  /\ ~(backingOff /\ (currLevel = "l" \/ ~dropped))
  /\ active
  /\ exchange' = [idle EXCEPT !.at = "sender"]
  /\ UNCHANGED <<shareVars, target, viewerCh, loopVars, currLevel, backingOff, screenHistories>>

\* The steps that only read: the handler goes on, or returns.
handlerReads(next, goesOn) ==
  /\ exchange' = IF goesOn THEN next ELSE idle
  /\ UNCHANGED <<shareVars, target, viewerCh, loopVars, currLevel, backingOff, screenHistories>>

\* ... the viewer's sender and its track
ReadSender ==
  /\ exchange.at = "sender"
  /\ handlerReads([at |-> "source", from |-> screenSender, to |-> NoTrack], screenSender # NoTrack)

\* ... the rate of that level's source, with which the new level is chosen
ReadSource(rate, lossRate) ==
  LET level == exchange.from.level
      source == getSourceRate(level)
  IN  /\ exchange.at = "source"
      /\ handlerReads([exchange EXCEPT !.at = "track"],
                      /\ source > 0
                      /\ getSimulcastLevel(rate, source) # level
                      /\ ~(level = "h" /\ lossRate > tolerated(source)))

newLevel == IF exchange.from.level = "h" THEN "l" ELSE "h"

\* ... the track of the new level
ReadTrack ==
  /\ exchange.at = "track"
  /\ handlerReads([exchange EXCEPT !.at = "rate", !.to = outScreenTracks[newLevel]],
                  outScreenTracks[newLevel] # NoTrack)

\* ... and the rate of its source.
ReadRate ==
  /\ exchange.at = "rate"
  /\ handlerReads([exchange EXCEPT !.at = "remove"], getSourceRate(newLevel) > 0)

\* A plausible slip: the new track is queued first.
swap_addFirst(from, to) == <<add(to), remove(from)>>

swap(from, to) == <<remove(from), add(to)>>

\* The removal goes out even when there is no room for the track to replace it.
QueueRemove ==
  /\ exchange.at = "remove"
  /\ queue(swap(exchange.from, exchange.to)[1])
  /\ exchange' = IF room THEN [exchange EXCEPT !.at = "add"] ELSE idle
  /\ stale' = (stale \/ over(exchange.to))
  /\ UNCHANGED <<shareVars, target, loopVars, currLevel, backingOff, moved>>

QueueAdd ==
  /\ exchange.at = "add"
  /\ queue(swap(exchange.from, exchange.to)[2])
  /\ exchange' = IF room THEN [exchange EXCEPT !.at = "changed"] ELSE idle
  /\ UNCHANGED <<shareVars, target, loopVars, currLevel, backingOff, moved, stale>>

\* What rateChangeHandler does after a change: SetTargetBitrate when the level
\* is the high one.
LevelChanged ==
  /\ exchange.at = "changed"
  /\ IF newLevel = "h" THEN retarget(sourceRate("h")) ELSE UNCHANGED <<target, moved>>
  /\ currLevel' = newLevel /\ backingOff' = TRUE
  /\ exchange' = idle
  /\ UNCHANGED <<shareVars, viewerCh, loopVars, cut, stale>>

\* backoff has gone by.
BackoffEnds ==
  /\ backingOff
  /\ backingOff' = FALSE
  /\ UNCHANGED <<shareVars, target, viewerCh, loopVars, exchange, currLevel, screenHistories>>

-----------------------------------------------------------------------------
(* The viewer's track loop *)

\* removeTrack: the sender goes whatever becomes of the negotiation.
RemoveTrack ==
  /\ viewerCh # <<>> /\ negotiated = NoTrack
  /\ Head(viewerCh).action = "remove"
  /\ viewerCh' = Tail(viewerCh)
  /\ LET t == Head(viewerCh).track IN
       /\ senders' = senders \ {t}
       /\ screenSender' = IF t \in senders /\ screenSender = t THEN NoTrack ELSE screenSender
  /\ UNCHANGED <<shareVars, target, negotiated, handlerVars, screenHistories>>

refused(t) == t \in senders \/ screenSender # NoTrack

\* addTrack, up to the offer.
AddTrack ==
  /\ viewerCh # <<>> /\ negotiated = NoTrack
  /\ Head(viewerCh).action = "add"
  /\ viewerCh' = Tail(viewerCh)
  /\ LET t == Head(viewerCh).track IN
       IF refused(t) THEN UNCHANGED <<negotiated, senders>>
       ELSE negotiated' = t /\ senders' = senders \cup {t}
  /\ UNCHANGED <<shareVars, target, screenSender, handlerVars, screenHistories>>

\* The answer comes, or fails to.
Answered ==
  /\ negotiated # NoTrack
  /\ negotiated' = NoTrack
  /\ \/ screenSender' = negotiated /\ UNCHANGED <<senders, cut>>
     \/ senders' = senders \ {negotiated} /\ cut' = TRUE /\ UNCHANGED screenSender
  /\ UNCHANGED <<shareVars, target, viewerCh, handlerVars, moved, stale>>

ScreenNext ==
  \/ StartShare \/ EndShare \/ BackoffEnds \/ RemoveTrack \/ AddTrack \/ Answered
  \/ \E t \in Tracks : Arrive(t) \/ SetTrack(t) \/ Choose(t) \/ Announce(t)
  \/ \E level \in SimulcastLevels : Measure(level)
  \/ \E r \in Estimates : Estimate(r)
  \/ \E dropped \in BOOLEAN : RateChange(dropped)
  \/ ReadSender \/ ReadTrack \/ ReadRate \/ QueueRemove \/ QueueAdd \/ LevelChanged
  \/ \E r, l \in Estimates : ReadSource(r, l)

ScreenSpec == ScreenInit /\ [][ScreenNext]_screenVars

-----------------------------------------------------------------------------
(* Properties. *)

\* Once a track of the share has been announced to the viewer, or both have
\* been looked at, the viewer has one of them or one is on its way, and no
\* change of level, whenever it reads what it needs, takes that away.  (Unless
\* the expected level moved between the two looks, a channel was full or a
\* negotiation failed, or a track of a share that was over was to be added.)
ViewerServed ==
  /\ ~cut /\ ~stale
  /\ \/ \E t \in Tracks : t.share = share /\ arrival[t] = "announced"
     \/ looked(share) = SimulcastLevels /\ ~moved
  => \/ screenSender # NoTrack /\ screenSender.share = share
     \/ pendingAdd(share)

=============================================================================
