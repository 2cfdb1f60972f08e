----------------------------- MODULE CallTracks -----------------------------
(***************************************************************************)
(* How the tracks of a call reach its sessions (service/rtc: call.go,      *)
(* session.go, sfu.go, server.go).  A client's track arrives in an OnTrack *)
(* goroutine, which makes an outgoing track of it, sets it on the session  *)
(* and queues it on the tracksCh of every other session.  One handleTracks *)
(* goroutine per session takes its queue, adds or removes a sender for     *)
(* each track and negotiates it with its client.  msgReader turns screen   *)
(* sharing on and off, CloseSession takes a session out of the call.       *)
(*                                                                         *)
(* A screen track is taken at the one simulcast level and codec that       *)
(* sender and receiver agree on; media packets are left out.               *)
(***************************************************************************)
EXTENDS Integers, Sequences, FiniteSets, FiniteSetsExt

CONSTANTS
  Sessions,
  Talkers,      \* the sessions whose clients send a voice track
  Sharers,      \* the sessions whose clients may share their screen
  Leavers,      \* the sessions that may close
  ShareTracks,  \* the tracks of a share: a screen, with audio or without
  MaxShares,    \* bounds the shares of one client
  NumCPU,       \* copies made of a screen track, see createOutScreenTracks
  TracksChSize,
  Nil

\* The tracks, and what msgReader looks a session up for.
Tracks == [kind : {"voice", "audio", "screen"}, of : Sessions, share : Nat, copy : Nat]
Requests == [op : {"on", "off"}, of : Sessions]

ASSUME TracksAssumption ==
  /\ IsFiniteSet(Sessions)
  /\ Talkers \subseteq Sessions
  /\ Sharers \subseteq Sessions
  /\ Leavers \subseteq Sessions
  /\ ShareTracks \subseteq {"screen", "audio"}
  /\ MaxShares \in Nat
  /\ NumCPU \in Nat \ {0}
  /\ TracksChSize \in Nat \ {0}
  /\ Nil \notin Sessions \cup Tracks \cup Requests \cup (Sessions \X Nat)

VARIABLES
  inCall,         \* call.sessions
  screenSession,  \* call.screenSession
  stage,          \* the goroutine of each session that ends in handleTracks
  closed,         \* sessions whose closeCh is closed
  outVoice,       \* session.outVoiceTrack
  outScreen,      \* session.outScreenTracks: the share they belong to, or 0
  outAudio,       \* session.outScreenAudioTrack
  streamID,       \* session.screenStreamID: the share it names, or 0
  tracksCh,       \* session.tracksCh
  senders,        \* tracks with a sender on the session's connection
  screenSender,   \* the track session.screenTrackSender was made for
  rxTracks,       \* session.rxTracks
  negotiating,    \* what addTrack or removeTrack waits for an answer to
  gauge,          \* the "out" RTP tracks gauge
  inFlight,       \* what the OnTrack goroutines have yet to do
  reader,         \* the screen message msgReader has looked the session up for
  sharer,         \* the client that shares, see StartShare
  share,          \* the number of the last share of each client
  coming,         \* what has yet to arrive of that share
  orphaned,       \* history: tracks their session let go of before
                  \* every sender of them was sure to be removed
  blocking,       \* history: screen tracks that kept another share out
  marred          \* history: sessions with a full queue or a failed
                  \* negotiation

call == <<inCall, screenSession, stage, closed>>
outgoing == <<outVoice, outScreen, outAudio, streamID>>
receiving == <<senders, screenSender, rxTracks, negotiating, gauge>>
client == <<sharer, share, coming>>
history == <<orphaned, blocking, marred>>
vars == <<call, outgoing, tracksCh, receiving, inFlight, reader, client, history>>

Voice(s) == [kind |-> "voice", of |-> s, share |-> 0, copy |-> 1]
Audio(s, n) == [kind |-> "audio", of |-> s, share |-> n, copy |-> 1]
Screen(s, n, i) == [kind |-> "screen", of |-> s, share |-> n, copy |-> i]

\* The audio of share n taken for a voice, see OnTrack.
Misheard(s, n) == [kind |-> "voice", of |-> s, share |-> n, copy |-> 1]

isVideo(t) == t.kind = "screen"

\* The copies of the screen track t, or t alone.
copies(t) == IF isVideo(t) THEN {[t EXCEPT !.copy = i] : i \in 1..NumCPU} ELSE {t}

screenTracks(s) ==
  IF outScreen[s] = 0 THEN {} ELSE {Screen(s, outScreen[s], i) : i \in 1..NumCPU}

\* The tracks handleSessionClose looks for: the ones s lists as its own.
outTracks(s) == ({outVoice[s], outAudio[s]} \ {Nil}) \cup screenTracks(s)

AddOf(t) == [action |-> "add", track |-> t]
RemoveOf(t) == [action |-> "remove", track |-> t]
Idle == [action |-> "idle"]

\* The messages of q that find room behind those already in a tracksCh.
room(ch, q) == SubSeq(q, 1, Min({Len(q), TracksChSize - Len(ch)}))
overflows(ch, q) == Len(ch) + Len(q) > TracksChSize

\* q[s] is sent to the tracksCh of s, for every session, without blocking.
Enqueue(q) ==
  /\ tracksCh' = [s \in Sessions |-> tracksCh[s] \o room(tracksCh[s], q[s])]
  /\ marred' = marred \cup {s \in Sessions : overflows(tracksCh[s], q[s])}

Init ==
  /\ inCall = {}
  /\ screenSession = Nil
  /\ stage = [s \in Sessions |-> "out"]
  /\ closed = {}
  /\ outVoice = [s \in Sessions |-> Nil]
  /\ outScreen = [s \in Sessions |-> 0]
  /\ outAudio = [s \in Sessions |-> Nil]
  /\ streamID = [s \in Sessions |-> 0]
  /\ tracksCh = [s \in Sessions |-> <<>>]
  /\ senders = [s \in Sessions |-> {}]
  /\ screenSender = [s \in Sessions |-> Nil]
  /\ rxTracks = [s \in Sessions |-> {}]
  /\ negotiating = [s \in Sessions |-> Idle]
  /\ gauge = 0
  /\ inFlight = {}
  /\ reader = Nil
  /\ sharer = Nil
  /\ share = [s \in Sessions |-> 0]
  /\ coming = [s \in Sessions |-> {}]
  /\ orphaned = {}
  /\ blocking = {}
  /\ marred = {}

-----------------------------------------------------------------------------
(* Joining and leaving the call *)

\* addSession: the client has its voice track ready.
Join(s) ==
  /\ stage[s] = "out"
  /\ stage' = [stage EXCEPT ![s] = "joined"]
  /\ inCall' = inCall \cup {s}
  /\ coming' = [coming EXCEPT ![s] = IF s \in Talkers THEN {"voice"} ELSE {}]
  /\ UNCHANGED <<screenSession, closed, outgoing, tracksCh, receiving, inFlight,
                 reader, sharer, share, history>>

\* A plausible slip: the audio tracks are forgotten for those who join.
offersOf_silent(o, i) == IF outScreen[o] = 0 THEN <<>> ELSE <<AddOf(Screen(o, outScreen[o], i))>>

\* What the session o offers a session that starts: its voice, one copy of
\* its screen, the audio of the screen.
offersOf(o, i) ==
  (IF outVoice[o] = Nil THEN <<>> ELSE <<AddOf(outVoice[o])>>)
  \o (IF outScreen[o] = 0 THEN <<>> ELSE <<AddOf(Screen(o, outScreen[o], i))>>)
  \o (IF outAudio[o] = Nil THEN <<>> ELSE <<AddOf(outAudio[o])>>)

\* The sequences of the elements of S, each once, and one of them.
orders(S) == Bijection(1..Cardinality(S), S)
anOrder(S) == CHOOSE q \in orders(S) : TRUE

\* The offers of the sessions of O, which are visited in any order: those of one
\* session stay together.
visits(O, pick) ==
  LET offers(o) == offersOf(o, pick[o]) IN
  {q \in orders(UNION {Range(offers(o)) : o \in O}) :
     \A o \in O : \E d \in 0..(Len(q) - Len(offers(o))) :
       SubSeq(q, d + 1, d + Len(offers(o))) = offers(o)}

\* handleTracks starts, once the first offer of the client is answered.
StartTracks(s) ==
  /\ stage[s] = "joined"
  /\ stage' = [stage EXCEPT ![s] = "tracking"]
  /\ \E pick \in [Sessions -> 1..NumCPU] : \E q \in visits(inCall \ {s}, pick) :
       Enqueue([r \in Sessions |-> IF r = s THEN q ELSE <<>>])
  /\ UNCHANGED <<inCall, screenSession, closed, outgoing, receiving, inFlight,
                 reader, client, orphaned, blocking>>

\* Tracks that some session has still to take from its queue.
queued == {m.track : m \in {k \in UNION {Range(tracksCh[s]) : s \in Sessions} : k.action = "add"}}

\* Tracks some session is adding now.
adding == {negotiating[s].track : s \in {r \in Sessions : negotiating[r].action = "add"}}

\* call.screenSession once us is closed.
screenWithout(us) == IF screenSession = us THEN Nil ELSE screenSession

\* A plausible slip: a closing session cleans up what it receives only.
sendersWithout_kept(s, us) == senders[s]

\* The senders left to s once us is closed: a screen goes by the queue.
sendersWithout(s, us) == {t \in senders[s] : isVideo(t) \/ t \notin outTracks(us)}

\* handleSessionClose and the removal from call.sessions, both under
\* call.mut: every other session loses the senders of our tracks, the screen
\* through its queue.
CloseDetach(us) ==
  /\ us \in inCall \cap Leavers
  /\ inCall' = inCall \ {us}
  /\ screenSession' = screenWithout(us)
  /\ screenSender' = IF screenSession = us
                     THEN [s \in Sessions |-> IF s \in inCall \ {us} THEN Nil ELSE screenSender[s]]
                     ELSE screenSender
  /\ senders' = [s \in Sessions |->
       CASE s = us -> {}
         [] s \in inCall \ {us} -> sendersWithout(s, us)
         [] OTHER -> senders[s]]
  /\ gauge' = gauge - Cardinality(rxTracks[us])
  /\ Enqueue([s \in Sessions |->
       IF s \in inCall \ {us}
       THEN anOrder({RemoveOf(t) : t \in senders[s] \cap screenTracks(us)})
       ELSE <<>>])
  /\ sharer' = IF sharer = us THEN Nil ELSE sharer
  /\ orphaned' = orphaned \cup {t \in queued : t.of = us}
  /\ UNCHANGED <<stage, closed, outgoing, rxTracks, negotiating, inFlight, reader,
                 share, coming, blocking>>

\* CloseSession closes closeCh and the connection.
CloseSignal(s) ==
  /\ stage[s] # "out" /\ s \notin inCall /\ s \notin closed
  /\ closed' = closed \cup {s}
  /\ UNCHANGED <<inCall, screenSession, stage, outgoing, tracksCh, receiving,
                 inFlight, reader, client, history>>

-----------------------------------------------------------------------------
(* OnTrack: a track of the client *)

\* The stream ID that call.screenSession announced, Nil for none.
screenStream ==
  IF screenSession = Nil \/ streamID[screenSession] = 0 THEN Nil
  ELSE <<screenSession, streamID[screenSession]>>

\* What OnTrack makes of a track: audio is a voice unless it comes in the
\* stream announced, video of another stream than that is turned down.
classify(s, kind) ==
  CASE kind = "voice"  -> {Voice(s)}
    [] kind = "audio"  -> IF screenStream = <<s, share[s]>> THEN {Audio(s, share[s])}
                          ELSE {Misheard(s, share[s])}
    [] kind = "screen" -> IF screenStream \in {Nil, <<s, share[s]>>}
                          THEN {Screen(s, share[s], 1)} ELSE {}

\* A track arrives while the connection is open, once each.
OnTrack(s, kind) ==
  /\ kind \in coming[s]
  /\ stage[s] # "out" /\ s \notin closed
  /\ coming' = [coming EXCEPT ![s] = @ \ {kind}]
  /\ inFlight' = inFlight \cup {[track |-> t, step |-> "set"] : t \in classify(s, kind)}
  /\ UNCHANGED <<call, outgoing, tracksCh, receiving, reader, sharer, share, history>>

\* The share of t is over, or its session gone.
stray(t) == \/ t.of \notin inCall
            \/ t.share # 0 /\ ~(sharer = t.of /\ share[t.of] = t.share)

strayCopies(t) == IF stray(t) THEN copies(t) ELSE {}

\* us.mut is held: the outgoing track replaces an earlier one.
SetTrack(t) ==
  /\ [track |-> t, step |-> "set"] \in inFlight
  /\ inFlight' = (inFlight \ {[track |-> t, step |-> "set"]})
                   \cup {[track |-> t, step |-> "announce"]}
  /\ outVoice' = IF t.kind = "voice" THEN [outVoice EXCEPT ![t.of] = t] ELSE outVoice
  /\ outAudio' = IF t.kind = "audio" THEN [outAudio EXCEPT ![t.of] = t] ELSE outAudio
  /\ outScreen' = IF isVideo(t) THEN [outScreen EXCEPT ![t.of] = t.share] ELSE outScreen
  /\ orphaned' = orphaned \cup strayCopies(t)
                   \cup {u \in outTracks(t.of) \ copies(t) : u.kind = t.kind}
  /\ UNCHANGED <<call, streamID, tracksCh, receiving, reader, client, blocking, marred>>

receivers(t) == inCall \ {t.of}

\* iterSessions: the track, or one copy of it, goes to every other session.
Announce(t) ==
  /\ [track |-> t, step |-> "announce"] \in inFlight
  /\ inFlight' = inFlight \ {[track |-> t, step |-> "announce"]}
  /\ \E pick \in [Sessions -> copies(t)] :
       Enqueue([s \in Sessions |-> IF s \in receivers(t) THEN <<AddOf(pick[s])>> ELSE <<>>])
  /\ orphaned' = orphaned \cup strayCopies(t)
  /\ UNCHANGED <<call, outgoing, receiving, reader, client, blocking>>

-----------------------------------------------------------------------------
(* Screen sharing: the messages msgReader handles *)

\* External: the Mattermost node lets one client of the call share at a time,
\* and the next one once the last share was ended here.
StartShare(s) ==
  /\ s \in Sharers \cap inCall
  /\ sharer = Nil
  /\ share[s] < MaxShares
  /\ sharer' = s
  /\ share' = [share EXCEPT ![s] = @ + 1]
  /\ coming' = [coming EXCEPT ![s] = (@ \cap {"voice"}) \cup {"on"} \cup ShareTracks]
  /\ UNCHANGED <<call, outgoing, tracksCh, receiving, inFlight, reader, history>>

\* ScreenOnMessage: the session is looked up.
ScreenOnLookup(s) ==
  /\ reader = Nil
  /\ "on" \in coming[s]
  /\ coming' = [coming EXCEPT ![s] = @ \ {"on"}]
  /\ reader' = IF s \in inCall THEN [op |-> "on", of |-> s] ELSE Nil
  /\ UNCHANGED <<call, outgoing, tracksCh, receiving, inFlight, sharer, share, history>>

setScreenSession(s) == screenSession' = IF screenSession = Nil THEN s ELSE screenSession

\* ScreenOnMessage: the stream ID is set, and the screen session if there is
\* none.
ScreenOn(s) ==
  /\ reader = [op |-> "on", of |-> s]
  /\ streamID' = [streamID EXCEPT ![s] = share[s]]
  /\ setScreenSession(s)
  /\ reader' = Nil
  /\ UNCHANGED <<inCall, stage, closed, outVoice, outScreen, outAudio, tracksCh,
                 receiving, inFlight, client, orphaned, blocking, marred>>

\* A plausible slip: the receivers of the share are not told.
clearScreenState_alone(us) ==
  /\ screenSession' = Nil
  /\ outScreen' = [outScreen EXCEPT ![us] = 0]
  /\ outAudio' = [outAudio EXCEPT ![us] = Nil]
  /\ streamID' = [streamID EXCEPT ![us] = 0]
  /\ UNCHANGED <<screenSender, tracksCh, marred>>

\* call.clearScreenState: the others are told to remove the screen track they
\* are sending, unless another session, or none, is the screen session.
clearScreenState(us) ==
  \/ /\ screenSession = us
     /\ screenSession' = Nil
     /\ outScreen' = [outScreen EXCEPT ![us] = 0]
     /\ outAudio' = [outAudio EXCEPT ![us] = Nil]
     /\ streamID' = [streamID EXCEPT ![us] = 0]
     /\ screenSender' = [s \in Sessions |-> IF s \in inCall \ {us} THEN Nil ELSE screenSender[s]]
     /\ Enqueue([s \in Sessions |->
          IF s \in inCall \ {us} /\ screenSender[s] # Nil
          THEN <<RemoveOf(screenSender[s])>> ELSE <<>>])
  \/ /\ screenSession # us
     /\ UNCHANGED <<screenSession, outScreen, outAudio, streamID, screenSender, tracksCh, marred>>

\* ScreenOffMessage, which the client sends after its ScreenOn: the session is
\* looked up.
ScreenOffLookup(s) ==
  /\ reader = Nil
  /\ sharer = s /\ "on" \notin coming[s]
  /\ reader' = [op |-> "off", of |-> s]
  /\ UNCHANGED <<call, outgoing, tracksCh, receiving, inFlight, client, history>>

\* ScreenOffMessage: the screen state is cleared.  The audio of the share is
\* not removed from its receivers, nor is a track that has not become their
\* screenTrackSender yet.
ScreenOff(s) ==
  /\ reader = [op |-> "off", of |-> s]
  /\ clearScreenState(s)
  /\ reader' = Nil
  /\ sharer' = IF sharer = s THEN Nil ELSE sharer
  /\ orphaned' = orphaned \cup ({outAudio[s]} \ {Nil})
       \cup {t \in queued \cup adding : t.of = s /\ t.share # 0}
  /\ UNCHANGED <<inCall, stage, closed, outVoice, senders, rxTracks, negotiating, gauge,
                 inFlight, share, coming, blocking>>

-----------------------------------------------------------------------------
(* handleTracks: the loop *)

atLoop(s) == stage[s] = "tracking" /\ negotiating[s] = Idle
next(s, action) == tracksCh[s] # <<>> /\ Head(tracksCh[s]).action = action
took(s) == tracksCh' = [tracksCh EXCEPT ![s] = Tail(@)]

\* The share that t belongs to.
sameShare(t, u) == t.of = u.of /\ t.share = u.share

\* A plausible slip: nothing keeps a second screen track out.
refuses_never(s, t) == t \in senders[s]

\* addTrack: there is a sender for the track, or one for a screen track.
refuses(s, t) == \/ t \in senders[s]
                 \/ isVideo(t) /\ screenSender[s] # Nil

AddRefused(s) ==
  /\ atLoop(s) /\ next(s, "add")
  /\ LET t == Head(tracksCh[s]).track IN
       /\ refuses(s, t)
       /\ blocking' = IF s \in inCall /\ t \notin senders[s] /\ ~stray(t) /\ ~sameShare(t, screenSender[s])
                      THEN blocking \cup {screenSender[s]} ELSE blocking
  /\ took(s)
  /\ UNCHANGED <<call, outgoing, receiving, inFlight, reader, client, orphaned, marred>>

\* addTrack: a sender is made, the gauge goes up, an offer is sent.
AddTrack(s) ==
  /\ atLoop(s) /\ next(s, "add")
  /\ LET t == Head(tracksCh[s]).track IN
       /\ ~refuses(s, t)
       /\ senders' = [senders EXCEPT ![s] = @ \cup {t}]
       /\ negotiating' = [negotiating EXCEPT ![s] = AddOf(t)]
  /\ gauge' = gauge + 1
  /\ took(s)
  /\ UNCHANGED <<call, outgoing, screenSender, rxTracks, inFlight, reader, client, history>>

\* removeTrack: the sender goes, the gauge down, an offer is sent.
RemoveTrack(s) ==
  /\ atLoop(s) /\ next(s, "remove")
  /\ LET t == Head(tracksCh[s]).track IN
       /\ t \in senders[s]
       /\ senders' = [senders EXCEPT ![s] = @ \ {t}]
       /\ rxTracks' = [rxTracks EXCEPT ![s] = @ \ {t}]
       /\ screenSender' = [screenSender EXCEPT ![s] = IF @ = t THEN Nil ELSE @]
       /\ negotiating' = [negotiating EXCEPT ![s] = RemoveOf(t)]
  /\ gauge' = gauge - 1
  /\ took(s)
  /\ UNCHANGED <<call, outgoing, inFlight, reader, client, history>>

\* removeTrack: there is no sender for the track.  Or the connection is
\* closed, on which neither addTrack nor removeTrack does anything.
TakeFails(s) ==
  /\ atLoop(s)
  /\ \/ next(s, "remove") /\ Head(tracksCh[s]).track \notin senders[s]
     \/ tracksCh[s] # <<>> /\ s \in closed
  /\ took(s)
  /\ UNCHANGED <<call, outgoing, receiving, inFlight, reader, client, history>>

\* The client's answer is set: a track that was added counts from here on.
Answered(s) ==
  /\ negotiating[s] # Idle
  /\ LET n == negotiating[s] IN
       IF n.action = "add"
       THEN /\ rxTracks' = [rxTracks EXCEPT ![s] = @ \cup {n.track}]
            /\ screenSender' = [screenSender EXCEPT ![s] = IF isVideo(n.track) THEN n.track ELSE @]
       ELSE UNCHANGED <<rxTracks, screenSender>>
  /\ negotiating' = [negotiating EXCEPT ![s] = Idle]
  /\ UNCHANGED <<call, outgoing, tracksCh, senders, gauge, inFlight, reader, client, history>>

\* What the deferred function of addTrack takes off the gauge.
undone(n) == IF n.action = "add" THEN 1 ELSE 0

\* A plausible slip: no timeout.
signalingFails_never(s) == negotiating[s] # Idle /\ s \in closed

signalingFails(s) == negotiating[s] # Idle

\* No answer in time, or the offer cannot be sent, or the answer not be set:
\* addTrack takes its sender back.
NegotiationFails(s) ==
  /\ signalingFails(s)
  /\ LET n == negotiating[s] IN
       /\ gauge' = gauge - undone(n)
       /\ senders' = IF n.action = "add" THEN [senders EXCEPT ![s] = @ \ {n.track}] ELSE senders
       /\ rxTracks' = IF n.action = "add" THEN [rxTracks EXCEPT ![s] = @ \ {n.track}] ELSE rxTracks
  /\ negotiating' = [negotiating EXCEPT ![s] = Idle]
  /\ marred' = marred \cup {s}
  /\ UNCHANGED <<call, outgoing, tracksCh, screenSender, inFlight, reader, client,
                 orphaned, blocking>>

\* closeCh is closed during signaling: addTrack returns as it stands.
NegotiationClosed(s) ==
  /\ negotiating[s] # Idle /\ s \in closed
  /\ negotiating' = [negotiating EXCEPT ![s] = Idle]
  /\ UNCHANGED <<call, outgoing, tracksCh, senders, screenSender, rxTracks, gauge,
                 inFlight, reader, client, history>>

\* The loop sees closeCh closed; what is queued is left.
TracksEnd(s) ==
  /\ stage[s] \in {"joined", "tracking"} /\ negotiating[s] = Idle /\ s \in closed
  /\ stage' = [stage EXCEPT ![s] = "done"]
  /\ UNCHANGED <<inCall, screenSession, closed, outgoing, tracksCh, receiving, inFlight,
                 reader, client, history>>

-----------------------------------------------------------------------------

SessionStep(s) ==
  \/ AddRefused(s) \/ AddTrack(s) \/ RemoveTrack(s) \/ TakeFails(s)
  \/ Answered(s) \/ NegotiationFails(s) \/ NegotiationClosed(s)
  \/ StartTracks(s) \/ TracksEnd(s)

Next ==
  \/ \E s \in Sessions :
       \/ Join(s) \/ CloseDetach(s) \/ CloseSignal(s)
       \/ \E kind \in {"voice", "audio", "screen"} : OnTrack(s, kind)
       \/ StartShare(s)
       \/ ScreenOnLookup(s) \/ ScreenOn(s) \/ ScreenOffLookup(s) \/ ScreenOff(s)
       \/ SessionStep(s)
  \/ \E t \in {h.track : h \in inFlight} : SetTrack(t) \/ Announce(t)

\* The goroutines run: handleTracks takes what is queued and does not wait
\* for an answer beyond signalingTimeout.
Fairness ==
  \A s \in Sessions :
    /\ WF_vars(AddRefused(s) \/ AddTrack(s) \/ RemoveTrack(s) \/ TakeFails(s))
    /\ WF_vars(NegotiationFails(s))
    /\ WF_vars(TracksEnd(s))

Spec == Init /\ [][Next]_vars /\ Fairness

-----------------------------------------------------------------------------
(* Properties *)

\* Nobody misses a voice: whatever the order in which two sessions join,
\* start to handle tracks and send their own, a session of the call whose
\* handleTracks runs has a sender for the voice, and the screen audio, of
\* every other session, or finds it in its queue, from the moment OnTrack has
\* announced it.  Exempt are sessions whose queue was full or whose
\* negotiation failed.
Heard ==
  \A s, o \in inCall :
    (s # o /\ stage[s] = "tracking" /\ s \notin marred) =>
      \A t \in {outVoice[o], outAudio[o]} \ {Nil} :
        \/ [track |-> t, step |-> "announce"] \in inFlight
        \/ t \in senders[s]
        \/ AddOf(t) \in Range(tracksCh[s])

\* The senders of a session are for tracks that a session of the call lists
\* as its own, or about to be removed, except for the tracks that their
\* session let go of while they were on their way (orphaned).
SendersListed ==
  \A s \in inCall \ marred : \A t \in senders[s] \ orphaned :
    \/ t.of \in inCall /\ t \in outTracks(t.of)
    \/ RemoveOf(t) \in Range(tracksCh[s])

\* A session receives one screen at a time: of the tracks that were not
\* orphaned, two screen tracks never have senders together that stay, whatever
\* sharers come and go, and however many copies of a share are announced.
OneScreen ==
  \A s \in inCall \ marred :
    Cardinality({t \in senders[s] \ orphaned :
                   isVideo(t) /\ RemoveOf(t) \notin Range(tracksCh[s])}) <= 1

\* A share is kept from a receiver ("screen track sender is already set")
\* only by a track that was orphaned: a share that ended in good order never
\* stands in the way of the next one.
BlockedByOrphans ==
  marred = {} => blocking \subseteq orphaned

\* A session whose handleTracks runs gets through its queue: no negotiation
\* holds it for ever.
LoopServes ==
  \A s \in Sessions :
    (stage[s] = "tracking" /\ tracksCh[s] # <<>>) ~> (tracksCh[s] = <<>> \/ stage[s] = "done")

=============================================================================
