----------------------------- MODULE Signaling ------------------------------
(***************************************************************************)
(* Offers, answers and ICE candidates between a Calls client               *)
(* (client/rtc.go) and its session in rtcd (service/rtc/session.go,        *)
(* server.go, sfu.go).                                                     *)
(*                                                                         *)
(* One goroutine of the session makes the server's offers, one after the   *)
(* other, and handles the client's.  The client has three: wsReader, the   *)
(* callback of its data channel, and the callback that makes its offers.   *)
(* Messages go over the websocket, which orders them but may lose some, or *)
(* over the data channel once it is open.  An offer is numbered by the one *)
(* who makes it; an answer names the offer.  The peer connections are      *)
(* external: their signaling states are those of WebRTC, without rollback. *)
(***************************************************************************)
EXTENDS Naturals, Sequences, Functions

CONSTANTS
  DCSignaling,       \* EnableDCSignaling of the client, dcSignaling of the session
  MaxChanges,        \* bounds the changes of tracks that make the client offer
  MaxTracks,         \* bounds the track actions of the session
  NumCandidates,     \* ICE candidates of the server
  SignalChSize,      \* signalChSize
  IceChSize          \* iceChSize

ASSUME SignalingAssumption ==
  /\ DCSignaling \in BOOLEAN /\ {MaxChanges, MaxTracks, NumCandidates} \subseteq Nat
  /\ {SignalChSize, IceChSize} \subseteq Nat \ {0}

VARIABLES
  \* the client
  cState,      \* signaling state of its peer connection
  cRemote,     \* it has a remote description
  cOffers,     \* offers made
  needed,      \* negotiation is needed
  making,      \* place of the callback: "no", "creating", "sending"
  answering,   \* server's offer wsReader ("ws") or OnMessage ("dc") answers, or 0
  settled,     \* of them, those that have set the answer and not yet sent it
  iceCh,       \* candidates queued
  added,       \* candidates added
  changes,     \* changes of tracks so far
  cGathered,   \* the client has sent its candidate
  \* the session
  sState,      \* signaling state of its peer connection
  place,       \* place of handleNegotiations
  makingOffer,
  sOffers,     \* offers made
  handled,     \* client's offer that signaling answers, 0 for none
  sdpOfferInCh, sdpAnswerInCh,
  tracks,      \* track actions so far
  gathered,    \* candidates sent
  iceIn,       \* the client's candidate: "none", "queued" in iceInCh, "added"
  \* between them
  wsUp, wsDown, dcUp, dcDown,
  dcOpen,
  \* histories
  lost,        \* a message was lost
  timedOut,    \* the session gave up waiting for an answer
  crossed,     \* both waited for an answer at a time
  misfit       \* the session took an answer to an earlier offer

cVars == <<cState, cRemote, cOffers, needed, making, answering, settled, iceCh, added,
           changes, cGathered>>
sVars == <<sState, place, makingOffer, sOffers, handled, sdpOfferInCh, sdpAnswerInCh,
           tracks, gathered, iceIn>>
netVars == <<wsUp, wsDown, dcUp, dcDown, dcOpen>>
histories == <<lost, timedOut, crossed, misfit>>
vars == <<cVars, sVars, netVars, histories>>

Init ==
  /\ cState = "stable" /\ cRemote = FALSE /\ cOffers = 0
  /\ needed = TRUE /\ making = "no" /\ answering = [h \in {"ws", "dc"} |-> 0] /\ settled = {}
  /\ iceCh = <<>> /\ added = {} /\ changes = 0 /\ cGathered = FALSE
  /\ sState = "stable" /\ place = "start" /\ makingOffer = FALSE /\ sOffers = 0
  /\ handled = 0 /\ sdpOfferInCh = <<>> /\ sdpAnswerInCh = <<>>
  /\ tracks = 0 /\ gathered = 0 /\ iceIn = "none"
  /\ wsUp = <<>> /\ wsDown = <<>> /\ dcUp = <<>> /\ dcDown = <<>>
  /\ dcOpen = FALSE
  /\ lost = FALSE /\ timedOut = FALSE /\ crossed = FALSE /\ misfit = FALSE

Msg(type, n) == [type |-> type, n |-> n]

-----------------------------------------------------------------------------
(* The client *)

\* Over the data channel if that is used and open, else over the websocket.
clientSends(m) ==
  IF DCSignaling /\ dcOpen
  THEN dcUp' = Append(dcUp, m) /\ UNCHANGED <<wsUp, wsDown, dcDown, dcOpen>>
  ELSE wsUp' = Append(wsUp, m) /\ UNCHANGED <<wsDown, dcUp, dcDown, dcOpen>>

\* Unmute of a first track, StartScreenShare, StopScreenShare.
ChangeTracks ==
  /\ changes < MaxChanges
  /\ changes' = changes + 1
  /\ needed' = TRUE
  /\ UNCHANGED <<cState, cRemote, cOffers, making, answering, settled, iceCh, added, cGathered, sVars,
                 netVars, histories>>

\* The library calls OnNegotiationNeeded when the state is stable, one call at a
\* time: CreateOffer.
OnNegotiationNeeded ==
  /\ needed /\ making = "no"
  /\ cState = "stable"
  /\ making' = "creating"
  /\ UNCHANGED <<cState, cRemote, cOffers, needed, answering, settled, iceCh, added, changes, cGathered,
                 sVars, netVars, histories>>

\* SetLocalDescription, which lets ICE gather.  It fails when a handler has set
\* a remote offer by now; the library then calls again.
MakeOffer ==
  /\ making = "creating"
  /\ IF cState = "stable"
     THEN /\ cState' = "offered"
          /\ cOffers' = cOffers + 1
          /\ needed' = FALSE
          /\ making' = "sending"
          /\ crossed' = (crossed \/ sState = "offered")
     ELSE making' = "no" /\ UNCHANGED <<cState, cOffers, needed, crossed>>
  /\ UNCHANGED <<cRemote, answering, settled, iceCh, added, changes, cGathered, sVars, netVars, lost,
                 timedOut, misfit>>

\* ... and the offer goes out.
SendOffer ==
  /\ making = "sending"
  /\ making' = "no"
  /\ clientSends(Msg("offer", cOffers))
  /\ UNCHANGED <<cState, cRemote, cOffers, needed, answering, settled, iceCh, added, changes, cGathered,
                 sVars, histories>>

\* handleOffer: SetRemoteDescription, which fails unless the state is stable.
handleOffer(n, h) ==
  /\ IF cState = "stable"
     THEN cState' = "answering" /\ cRemote' = TRUE /\ answering' = [answering EXCEPT ![h] = n]
     ELSE UNCHANGED <<cState, cRemote, answering>>
  /\ UNCHANGED <<cOffers, needed, making, settled, iceCh, added, changes, cGathered>>

\* ... then the answer: SetLocalDescription, which makes the state stable
SetAnswer(h) ==
  /\ answering[h] # 0 /\ h \notin settled
  /\ cState' = "stable"
  /\ settled' = settled \cup {h}
  /\ UNCHANGED <<cRemote, cOffers, needed, making, answering, iceCh, added, changes, cGathered, sVars,
                 netVars, histories>>

\* ... and the message.
SendAnswer(h) ==
  /\ h \in settled
  /\ settled' = settled \ {h}
  /\ answering' = [answering EXCEPT ![h] = 0]
  /\ clientSends(Msg("answer", answering[h]))
  /\ UNCHANGED <<cState, cRemote, cOffers, needed, making, iceCh, added, changes, cGathered, sVars,
                 histories>>

\* The loop of handleAnswer compares its index with a length that shrinks.
\* (AddICECandidate, which could end it early, is taken to succeed.)
drained == (Len(iceCh) + 1) \div 2

\* handleAnswer
handleAnswer ==
  /\ IF cState = "offered"
     THEN /\ cState' = "stable" /\ cRemote' = TRUE
          /\ added' = added \cup Range(SubSeq(iceCh, 1, drained))
          /\ iceCh' = SubSeq(iceCh, drained + 1, Len(iceCh))
     ELSE UNCHANGED <<cState, cRemote, added, iceCh>>
  /\ UNCHANGED <<cOffers, needed, making, answering, settled, changes, cGathered>>

queueFull == Len(iceCh) = IceChSize

\* handleWSEventSignal, a candidate.
handleCandidate(c) ==
  /\ IF cRemote
     THEN added' = added \cup {c} /\ UNCHANGED iceCh
     ELSE /\ iceCh' = IF queueFull THEN iceCh ELSE Append(iceCh, c)
          /\ UNCHANGED added
  /\ UNCHANGED <<cState, cRemote, cOffers, needed, making, answering, settled, changes, cGathered>>

\* wsReader, which answers an offer before it looks at the next message.
ReadWS ==
  /\ wsDown # <<>> /\ answering["ws"] = 0
  /\ wsDown' = Tail(wsDown)
  /\ LET m == Head(wsDown) IN
       \/ m.type = "offer" /\ handleOffer(m.n, "ws")
       \/ m.type = "answer" /\ handleAnswer
       \/ m.type = "candidate" /\ handleCandidate(m.n)
  /\ UNCHANGED <<sVars, wsUp, dcUp, dcDown, dcOpen, histories>>

\* OnMessage of the data channel.
ReadDC ==
  /\ dcOpen /\ dcDown # <<>> /\ answering["dc"] = 0
  /\ dcDown' = Tail(dcDown)
  /\ LET m == Head(dcDown) IN
       \/ m.type = "offer" /\ handleOffer(m.n, "dc")
       \/ m.type = "answer" /\ handleAnswer
  /\ UNCHANGED <<sVars, wsUp, wsDown, dcUp, dcOpen, histories>>

\* OnICECandidate, once a local description is set.
SendICE ==
  /\ ~cGathered /\ cOffers > 0
  /\ cGathered' = TRUE
  /\ wsUp' = Append(wsUp, Msg("candidate", 0))
  /\ UNCHANGED <<cState, cRemote, cOffers, needed, making, answering, settled, iceCh, added, changes, sVars,
                 wsDown, dcUp, dcDown, dcOpen, histories>>

-----------------------------------------------------------------------------
(* The session *)

\* Over receiveCh, or over dcSDPCh, which waits for the data channel.
serverSends(m, dc) ==
  IF dc
  THEN dcDown' = Append(dcDown, m) /\ UNCHANGED <<wsUp, wsDown, dcUp, dcOpen>>
  ELSE wsDown' = Append(wsDown, m) /\ UNCHANGED <<wsUp, dcUp, dcDown, dcOpen>>

\* A plausible slip: the type of the message is not looked at.
handleIncomingSDP_offers(m, dc) ==
  /\ sdpOfferInCh' = Append(sdpOfferInCh, [n |-> m.n, dc |-> dc])
  /\ UNCHANGED sdpAnswerInCh

\* handleIncomingSDP: each kind has its channel; a message too many is dropped.
\* An offer remembers the channel its answer goes to.
handleIncomingSDP(m, dc) ==
  IF m.type = "offer"
  THEN /\ sdpOfferInCh' = IF Len(sdpOfferInCh) = SignalChSize THEN sdpOfferInCh
                          ELSE Append(sdpOfferInCh, [n |-> m.n, dc |-> dc])
       /\ UNCHANGED sdpAnswerInCh
  ELSE /\ sdpAnswerInCh' = IF Len(sdpAnswerInCh) = SignalChSize THEN sdpAnswerInCh
                           ELSE Append(sdpAnswerInCh, m.n)
       /\ UNCHANGED sdpOfferInCh

\* msgReader
ReceiveWS ==
  /\ wsUp # <<>> /\ place # "done"
  /\ wsUp' = Tail(wsUp)
  /\ IF Head(wsUp).type = "candidate"
     THEN iceIn' = "queued" /\ UNCHANGED <<sdpOfferInCh, sdpAnswerInCh>>
     ELSE handleIncomingSDP(Head(wsUp), FALSE) /\ UNCHANGED iceIn
  /\ UNCHANGED <<cVars, sState, place, makingOffer, sOffers, handled, tracks, gathered,
                 wsDown, dcUp, dcDown, dcOpen, histories>>

\* handleDCMessage
ReceiveDC ==
  /\ dcUp # <<>> /\ place # "done"
  /\ dcUp' = Tail(dcUp)
  /\ handleIncomingSDP(Head(dcUp), TRUE)
  /\ UNCHANGED <<cVars, iceIn, sState, place, makingOffer, sOffers, handled, tracks, gathered,
                 wsUp, wsDown, dcDown, dcOpen, histories>>

\* A plausible slip: the comparison is the wrong way around.
hasSignalingConflict_inverted == makingOffer \/ sState = "stable"

hasSignalingConflict == makingOffer \/ sState # "stable"

\* signaling: the descriptions are set; ICE starts gathering.
Signal ==
  /\ place \in {"start", "loop"}
  /\ handled = 0
  /\ sdpOfferInCh # <<>>
  /\ IF hasSignalingConflict
     THEN /\ sdpOfferInCh' = Tail(sdpOfferInCh)
          /\ place' = "loop"
          /\ UNCHANGED <<handled, sState>>
     ELSE /\ handled' = Head(sdpOfferInCh).n
          /\ sState' = "stable"
          /\ UNCHANGED <<sdpOfferInCh, place>>
  /\ UNCHANGED <<cVars, iceIn, makingOffer, sOffers, sdpAnswerInCh, tracks, gathered, netVars, histories>>

\* ... and the answer goes out.
SignalAnswers ==
  /\ handled # 0
  /\ serverSends(Msg("answer", handled), Head(sdpOfferInCh).dc)
  /\ sdpOfferInCh' = Tail(sdpOfferInCh)
  /\ handled' = 0
  /\ place' = "loop"
  /\ UNCHANGED <<cVars, iceIn, sState, makingOffer, sOffers, sdpAnswerInCh, tracks, gathered, histories>>

\* A plausible slip: an offer is made without waiting for the last answer.
mayOffer_waiting == place \in {"loop", "awaiting"}

mayOffer == place = "loop"

\* addTrack or removeTrack, up to the offer.  makingOffer is set by addTrack.
\* After an offer that was given up, the peer connection may refuse another.
Offer(add) ==
  /\ mayOffer /\ handled = 0
  /\ tracks < MaxTracks
  /\ tracks' = tracks + 1
  /\ makingOffer' = add
  /\ sState' = "offered"
  /\ sOffers' = sOffers + 1
  /\ serverSends(Msg("offer", sOffers + 1), DCSignaling)
  /\ place' = "awaiting"
  /\ crossed' = (crossed \/ cState = "offered")
  /\ UNCHANGED <<cVars, iceIn, handled, sdpOfferInCh, sdpAnswerInCh, gathered, lost, timedOut, misfit>>

\* The next answer is taken for the one to the offer just made.  If it is not,
\* SetRemoteDescription may take it or fail.
TakeAnswer ==
  /\ place = "awaiting"
  /\ sdpAnswerInCh # <<>>
  /\ sdpAnswerInCh' = Tail(sdpAnswerInCh)
  /\ misfit' = (misfit \/ Head(sdpAnswerInCh) # sOffers)
  /\ \/ sState' = "stable"
     \/ Head(sdpAnswerInCh) # sOffers /\ UNCHANGED sState
  /\ makingOffer' = FALSE
  /\ place' = "loop"
  /\ UNCHANGED <<cVars, iceIn, sOffers, handled, sdpOfferInCh, tracks, gathered, netVars, lost, timedOut, crossed>>

\* signalingTimeout: the state of the peer connection stays what it is.
TimeOut ==
  /\ place = "awaiting"
  /\ place' = "loop"
  /\ makingOffer' = FALSE
  /\ timedOut' = TRUE
  /\ UNCHANGED <<cVars, iceIn, sState, sOffers, handled, sdpOfferInCh, sdpAnswerInCh, tracks, gathered,
                 netVars, lost, crossed, misfit>>

\* closeCh is closed, or no first offer came in time.
Close ==
  /\ place # "done" /\ handled = 0
  /\ place' = "done"
  /\ makingOffer' = FALSE
  /\ UNCHANGED <<cVars, iceIn, sState, sOffers, handled, sdpOfferInCh, sdpAnswerInCh, tracks, gathered, netVars, histories>>

\* OnICECandidate, once a local description is set.
SendCandidate ==
  /\ gathered < NumCandidates
  /\ handled # 0 \/ place \in {"loop", "awaiting"}
  /\ gathered' = gathered + 1
  /\ serverSends(Msg("candidate", gathered + 1), FALSE)
  /\ UNCHANGED <<cVars, iceIn, sState, place, makingOffer, sOffers, handled, sdpOfferInCh, sdpAnswerInCh,
                 tracks, histories>>

OfferFails ==
  /\ mayOffer /\ handled = 0
  /\ sState = "offered"
  /\ tracks < MaxTracks
  /\ tracks' = tracks + 1
  /\ UNCHANGED <<cVars, iceIn, sState, place, makingOffer, sOffers, handled, sdpOfferInCh,
                 sdpAnswerInCh, gathered, netVars, histories>>

\* A plausible slip: handleICE runs only until the first offer is handled.
iceRuns_start == place = "start"

\* handleICE is started after the first offer was handled.
iceRuns == place \in {"loop", "awaiting"}

HandleICE ==
  /\ iceRuns
  /\ iceIn = "queued"
  /\ iceIn' = "added"
  /\ UNCHANGED <<cVars, sState, place, makingOffer, sOffers, handled, sdpOfferInCh, sdpAnswerInCh,
                 tracks, gathered, netVars, histories>>

-----------------------------------------------------------------------------
(* The connection (external) *)

\* The data channel opens once the two have negotiated.
OpenDC ==
  /\ DCSignaling /\ ~dcOpen
  /\ cRemote /\ cState = "stable"
  /\ dcOpen' = TRUE
  /\ UNCHANGED <<cVars, sVars, wsUp, wsDown, dcUp, dcDown, histories>>

\* The websocket breaks, or a channel on the way is full.
LoseUp ==
  /\ wsUp # <<>>
  /\ wsUp' = Tail(wsUp)
  /\ lost' = TRUE
  /\ UNCHANGED <<cVars, sVars, wsDown, dcUp, dcDown, dcOpen, timedOut, crossed, misfit>>

LoseDown ==
  /\ wsDown # <<>>
  /\ wsDown' = Tail(wsDown)
  /\ lost' = TRUE
  /\ UNCHANGED <<cVars, sVars, wsUp, dcUp, dcDown, dcOpen, timedOut, crossed, misfit>>

-----------------------------------------------------------------------------
Client ==
  \/ OnNegotiationNeeded \/ MakeOffer \/ SendOffer \/ ReadWS \/ ReadDC \/ SendICE
  \/ \E h \in {"ws", "dc"} : SetAnswer(h) \/ SendAnswer(h)

Session == Signal \/ SignalAnswers \/ TakeAnswer

Next ==
  \/ ChangeTracks \/ Client \/ Session \/ ReceiveWS \/ ReceiveDC \/ HandleICE
  \/ OfferFails \/ TimeOut \/ Close
  \/ \E add \in BOOLEAN : Offer(add)
  \/ SendCandidate \/ OpenDC \/ LoseUp \/ LoseDown

Spec == Init /\ [][Next]_vars

\* Goroutines run and messages arrive; an open websocket lets the data channel
\* open; the time-out strikes when no answer comes.
Fairness ==
  /\ WF_vars(OnNegotiationNeeded) /\ WF_vars(MakeOffer) /\ WF_vars(SendOffer)
  /\ WF_vars(ReadWS \/ SetAnswer("ws") \/ SendAnswer("ws"))
  /\ WF_vars(ReadDC \/ SetAnswer("dc") \/ SendAnswer("dc"))
  /\ WF_vars(ReceiveWS) /\ WF_vars(ReceiveDC) /\ WF_vars(HandleICE)
  /\ WF_vars(Session) /\ WF_vars(TimeOut) /\ WF_vars(OpenDC)

FairSpec == Spec /\ Fairness

-----------------------------------------------------------------------------
(* Properties. *)

\* An answer goes with the offer the session made last, although nothing in it
\* says so.  (Unless the session gave up on an earlier one.)
AnswerFits == misfit => timedOut

\* A session that may offer or answer has a peer in the same negotiation: while
\* it waits, its offer, the answer or the client's handler of it is there.
\* (Unless something was lost, the offers crossed, or it gave up before.)
AwaitedIsThere ==
  place = "awaiting" /\ ~lost /\ ~crossed /\ ~timedOut =>
    \/ sOffers \in {answering["ws"], answering["dc"]}
    \/ Msg("offer", sOffers) \in Range(wsDown) \cup Range(dcDown)
    \/ Msg("answer", sOffers) \in Range(wsUp) \cup Range(dcUp)
    \/ sOffers \in Range(sdpAnswerInCh)

\* What the comment in handleWSEventSignal (client/rtc.go) says of iceCh, "we
\* queue them until that happens": with a remote description none is queued.
QueueDrained == cRemote => iceCh = <<>>

\* A client's offer is settled.  (Unless something was lost, the offers
\* crossed, or the session gave up on one of its own, whose state then makes
\* it ignore the client's.)
OfferSettles ==
  cState = "offered" ~> cState = "stable" \/ lost \/ crossed \/ timedOut \/ place = "done"

\* The client's candidate reaches the peer connection, although it may arrive
\* before the first offer does, and handleICE starts after it.
CandidateReaches == cGathered ~> iceIn = "added" \/ lost \/ place = "done"

=============================================================================
