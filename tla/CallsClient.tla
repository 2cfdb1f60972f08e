---------------------------- MODULE CallsClient -----------------------------
(***************************************************************************)
(* The life of a Calls client (client/client.go, client/websocket.go,      *)
(* client/call.go, the set-up in client/rtc.go): Connect, Close, the       *)
(* wsReader goroutine that handles messages and reconnects, the session it *)
(* starts when it has joined its call, and the callback of a failed ICE    *)
(* connection, which closes the client from another goroutine.             *)
(*                                                                         *)
(* A connection is a websocket client of its own (see WSClient): it brings *)
(* the events the Mattermost server sent until it breaks.  The server says *)
(* hello on each connection, and admits the client once it got the join.   *)
(* Times are what the code asks of them: whether the reconnection timeout  *)
(* is over since wsLastDisconnect.                                         *)
(***************************************************************************)
EXTENDS Naturals, Sequences

CONSTANTS
  MaxConns       \* bounds the connections made

ASSUME CallsClientAssumption == MaxConns \in Nat

VARIABLES
  state,       \* Client.state
  reader,      \* place of wsReader
  conns,       \* connections made; the last one is Client.ws
  up,          \* Client.ws is connected
  inbox,       \* its receiveCh
  greeted,     \* the server said hello on it
  originalConnID, currentConnID,   \* connections, 0 for ""
  lastDisconnect,   \* wsLastDisconnect: "zero", "recent", "over" the timeout
  rtc,         \* peer connection and monitor: "none", "open", "closed"
  pinger,      \* goroutine of initRTCSession: "none", "running", "done"
  wsCloseCh,   \* it is closed
  closer,      \* place of the one Close that found the client initialized
  closeEvents, \* CloseEvents emitted
  panicked,
  sharing,     \* there are screenTransceivers
  screenOn,    \* the last screen event handed to the websocket was screen_on
  server,      \* external: what the server knows of the client's session
  outage,      \* history: how long there was no connection with a hello
  collided,    \* history: wsReader closed the client while Close did
  dropped      \* history: a connection was lost before the first hello

wsVars == <<conns, up, inbox, greeted>>
ids == <<originalConnID, currentConnID>>
shareVars == <<sharing, screenOn>>
endVars == <<rtc, pinger, closeEvents, panicked, collided>>
vars == <<state, reader, wsVars, ids, lastDisconnect, endVars, wsCloseCh,
          closer, shareVars, server, outage, dropped>>

Init ==
  /\ state = "new" /\ reader = "none"
  /\ conns = 0 /\ up = FALSE /\ inbox = <<>> /\ greeted = FALSE
  /\ originalConnID = 0 /\ currentConnID = 0
  /\ lastDisconnect = "zero"
  /\ rtc = "none" /\ pinger = "none"
  /\ wsCloseCh = FALSE
  /\ closer = "idle"
  /\ closeEvents = 0
  /\ panicked = FALSE
  /\ sharing = FALSE /\ screenOn = FALSE
  /\ server = "unknown"
  /\ outage = "zero"
  /\ collided = FALSE /\ dropped = FALSE

-----------------------------------------------------------------------------
(* Connect *)

\* wsOpen has dialed: Client.ws is a new connection.  On a client that knows
\* its original connection it also sends a reconnect message.
wsOpen ==
  /\ conns < MaxConns
  /\ conns' = conns + 1
  /\ up' = TRUE
  /\ inbox' = <<>>
  /\ greeted' = FALSE

Connect ==
  /\ state = "new"
  /\ state' = "init"
  /\ wsOpen
  /\ reader' = "loop"
  /\ UNCHANGED <<shareVars, ids, lastDisconnect, endVars, wsCloseCh, closer, server, outage, dropped>>

\* The dial fails: the client stays initialized, without a wsReader.
ConnectFails ==
  /\ state = "new"
  /\ state' = "init"
  /\ UNCHANGED <<shareVars, reader, wsVars, ids, lastDisconnect, endVars, wsCloseCh, closer, server, outage, dropped>>

-----------------------------------------------------------------------------
(* wsReader *)

\* close: a second one stops the monitor again, which closes a closed channel.
close ==
  /\ state' = "closed"
  /\ panicked' = (panicked \/ rtc = "closed")
  /\ rtc' = IF rtc = "open" THEN "closed" ELSE rtc
  /\ closeEvents' = closeEvents + 1
  /\ UNCHANGED pinger

\* The message taken from receiveCh.
take(m) ==
  /\ reader = "loop"
  /\ inbox # <<>>
  /\ m = Head(inbox)
  /\ inbox' = Tail(inbox)
  /\ UNCHANGED <<conns, up, greeted>>

firstHello == originalConnID = 0

\* handleWSEventHello, and the join after the first one: it is lost when the
\* connection is down by now.  Only a later hello ends the outage the client
\* counts from wsLastDisconnect.
HandleHello ==
  /\ take("hello")
  /\ currentConnID' = conns
  /\ IF firstHello
     THEN /\ originalConnID' = conns
          /\ server' = IF up /\ server = "unknown" THEN "asked" ELSE server
          /\ UNCHANGED lastDisconnect
     ELSE /\ lastDisconnect' = "zero"
          /\ UNCHANGED <<originalConnID, server>>
  /\ outage' = IF up THEN "zero" ELSE "recent"
  /\ UNCHANGED <<shareVars, state, reader, endVars, wsCloseCh, closer, dropped>>

\* wsEventJoin: initRTCSession, which may fail on the way.
HandleJoin ==
  /\ take("join")
  /\ \/ rtc' = "open" /\ pinger' = "running"
     \/ rtc' = "open" /\ UNCHANGED pinger      \* no data channel
     \/ UNCHANGED <<rtc, pinger>>              \* no peer connection
  /\ UNCHANGED <<shareVars, state, reader, ids, lastDisconnect, closeEvents, panicked, collided,
                 wsCloseCh, closer, server, outage, dropped>>

\* wsEventCallEnd.
HandleEnd ==
  /\ take("end")
  /\ close
  /\ collided' = (collided \/ closer # "idle")
  /\ reader' = "ending"
  /\ UNCHANGED <<shareVars, ids, lastDisconnect, wsCloseCh, closer, server, outage, dropped>>

\* receiveCh is closed.
lost == reader = "loop" /\ inbox = <<>> /\ ~up

\* Plausible slips: the client gives up at the second loss; it never does.
timeoutOver_any == lastDisconnect # "zero"
timeoutOver_never == FALSE

timeoutOver == lastDisconnect = "over"

Disconnected ==
  /\ lost
  /\ ~timeoutOver
  /\ lastDisconnect' = IF lastDisconnect = "zero" THEN "recent" ELSE lastDisconnect
  /\ reader' = "waiting"
  /\ UNCHANGED <<shareVars, state, wsVars, ids, endVars, wsCloseCh, closer, server, outage, dropped>>

GiveUp ==
  /\ lost
  /\ timeoutOver
  /\ close
  /\ collided' = (collided \/ closer # "idle")
  /\ reader' = "ending"
  /\ UNCHANGED <<shareVars, wsVars, ids, lastDisconnect, wsCloseCh, closer, server, outage, dropped>>

\* The wait is over.  When the dial fails Client.ws is the lost one still.
Reconnect ==
  /\ reader = "waiting"
  /\ reader' = "loop"
  /\ wsOpen \/ UNCHANGED wsVars
  /\ UNCHANGED <<shareVars, state, ids, lastDisconnect, endVars, wsCloseCh, closer, server, outage, dropped>>

\* A plausible slip: wsReader does not look at wsCloseCh.
Asked_never == FALSE /\ UNCHANGED vars

\* wsCloseCh is closed.
Asked ==
  /\ reader = "loop"
  /\ wsCloseCh
  /\ reader' = "ending"
  /\ UNCHANGED <<shareVars, state, wsVars, ids, lastDisconnect, endVars, wsCloseCh, closer, server, outage, dropped>>

\* The deferred leaveCall, and the close of wsDoneCh.
ReaderEnds ==
  /\ reader = "ending"
  /\ reader' = "done"
  /\ UNCHANGED <<shareVars, state, wsVars, ids, lastDisconnect, endVars, wsCloseCh, closer, server, outage, dropped>>

-----------------------------------------------------------------------------
(* Close, called by the user or by the callback of ICE. *)

\* A plausible slip: Close does not look at the state.
Close_again ==
  /\ state # "new" /\ closer \in {"idle", "returned"}
  /\ state' = "closing"
  /\ closer' = "asking"
  /\ UNCHANGED <<shareVars, reader, wsVars, ids, lastDisconnect, endVars, wsCloseCh, server, outage, dropped>>

\* The user closes a client at any time, the callback only one with a session.
Close ==
  /\ state = "init"
  /\ state' = "closing"
  /\ closer' = "asking"
  /\ UNCHANGED <<shareVars, reader, wsVars, ids, lastDisconnect, endVars, wsCloseCh, server, outage, dropped>>

CloseAsks ==
  /\ closer = "asking"
  /\ wsCloseCh' = TRUE
  /\ closer' = "waiting"
  /\ UNCHANGED <<shareVars, state, reader, wsVars, ids, lastDisconnect, endVars, server, outage, dropped>>

\* wsReader is through: the connection is closed, then the client.
CloseEnds ==
  /\ closer = "waiting"
  /\ reader = "done"
  /\ up' = FALSE
  /\ close
  /\ closer' = "returned"
  /\ UNCHANGED <<collided, shareVars, reader, conns, inbox, greeted, ids, lastDisconnect, wsCloseCh, server, outage, dropped>>

\* A connection that broke may fail to close: Close returns there.
CloseFails ==
  /\ closer = "waiting"
  /\ reader = "done"
  /\ ~up
  /\ closer' = "failed"
  /\ UNCHANGED <<shareVars, state, reader, wsVars, ids, lastDisconnect, endVars, wsCloseCh, server, outage, dropped>>

\* The goroutine of initRTCSession ends when wsCloseCh is closed.
PingerEnds ==
  /\ pinger = "running"
  /\ wsCloseCh
  /\ pinger' = "done"
  /\ UNCHANGED <<shareVars, state, reader, wsVars, ids, lastDisconnect, rtc, closeEvents, panicked,
                 collided, wsCloseCh, closer, server, outage, dropped>>

-----------------------------------------------------------------------------
(* Screen sharing: the server is told first, and may refuse tracks it was not
   told of. *)

\* Send fails on a connection that is down.  A closed peer connection takes no
\* transceiver.
StartScreenShare ==
  /\ rtc # "none" /\ up
  /\ screenOn' = TRUE
  /\ sharing' = (sharing \/ rtc = "open")
  /\ UNCHANGED <<state, reader, wsVars, ids, lastDisconnect, endVars, wsCloseCh, closer, server, outage, dropped>>

\* It fails at once when a closed peer connection does not let go of the track.
StopScreenShare ==
  /\ conns > 0
  /\ ~sharing \/ rtc = "open"
  /\ sharing' = FALSE
  /\ screenOn' = (screenOn /\ ~up)
  /\ UNCHANGED <<state, reader, wsVars, ids, lastDisconnect, endVars, wsCloseCh, closer, server, outage, dropped>>

-----------------------------------------------------------------------------
(* The Mattermost server, the network and time (external). *)

Hello ==
  /\ up /\ ~greeted
  /\ greeted' = TRUE
  /\ inbox' = Append(inbox, "hello")
  /\ UNCHANGED <<shareVars, state, reader, conns, up, ids, lastDisconnect, endVars, wsCloseCh, closer,
                 server, outage, dropped>>

\* The server got the join and says so, and later that the call has ended.
Admit ==
  /\ up /\ server = "asked"
  /\ server' = "in"
  /\ inbox' = Append(inbox, "join")
  /\ UNCHANGED <<shareVars, state, reader, conns, up, greeted, ids, lastDisconnect, endVars, wsCloseCh,
                 closer, outage, dropped>>

EndCall ==
  /\ up /\ greeted /\ server = "in"
  /\ server' = "ended"
  /\ inbox' = Append(inbox, "end")
  /\ UNCHANGED <<shareVars, state, reader, conns, up, greeted, ids, lastDisconnect, endVars, wsCloseCh,
                 closer, outage, dropped>>

\* A join on its way is lost with the connection.
Break ==
  /\ up
  /\ up' = FALSE
  /\ server' = IF server = "asked" THEN "lost" ELSE server
  /\ outage' = IF outage = "zero" THEN "recent" ELSE outage
  /\ dropped' = (dropped \/ originalConnID = 0)
  /\ UNCHANGED <<shareVars, state, reader, conns, inbox, greeted, ids, lastDisconnect, endVars, wsCloseCh, closer>>

later(t) == IF t = "recent" THEN "over" ELSE t

TimePasses ==
  /\ lastDisconnect = "recent" \/ outage = "recent"
  /\ lastDisconnect' = later(lastDisconnect)
  /\ outage' = later(outage)
  /\ UNCHANGED <<shareVars, state, reader, wsVars, ids, endVars, wsCloseCh, closer, server, dropped>>

-----------------------------------------------------------------------------
Reader ==
  \/ HandleHello \/ HandleJoin \/ HandleEnd \/ Disconnected \/ GiveUp
  \/ Reconnect \/ ReaderEnds

Closing == CloseAsks \/ CloseEnds \/ CloseFails

Next ==
  \/ Connect \/ ConnectFails \/ Reader \/ Asked \/ Close \/ Closing \/ PingerEnds
  \/ StartScreenShare \/ StopScreenShare
  \/ Hello \/ Admit \/ EndCall \/ Break \/ TimePasses

Spec == Init /\ [][~panicked /\ Next]_vars

\* Goroutines run, select is fair to wsCloseCh, time passes, and the server
\* says hello on a connection that stays.  Nobody has to close the client,
\* and no dial has to succeed.
Fairness ==
  /\ WF_vars(~panicked /\ Reader) /\ SF_vars(~panicked /\ Asked)
  /\ WF_vars(~panicked /\ Closing) /\ WF_vars(~panicked /\ TimePasses)
  /\ WF_vars(~panicked /\ Hello)

FairSpec == Spec /\ Fairness

-----------------------------------------------------------------------------
(* Properties. *)

\* The client closes once: one CloseEvent, and the monitor is stopped once.
\* (Not when the call ends, or wsReader gives up, while Close waits for it.)
ClosesOnce == collided \/ (closeEvents <= 1 /\ ~panicked)

\* A client that is closed, or whose wsReader is over and Close returned, has
\* no peer connection left.  (It has when the websocket failed to close.)
ClosedHasNoSession ==
  state = "closed" \/ closer = "returned" => rtc # "open"

\* A screen is shared only if the server was told, and not told otherwise
\* since.
ShareIsTold == sharing => screenOn

\* The ids a client reconnects with: the original one is that of its first
\* hello for good, and the current one never goes back.
IdsKept ==
  [][ /\ originalConnID # 0 => originalConnID' = originalConnID
      /\ currentConnID' >= currentConnID ]_<<originalConnID, currentConnID>>

\* wsReader gives up only after an outage longer than wsReconnectionTimeout.
\* (Unless a connection broke before the first hello, which does not reset
\* wsLastDisconnect.)
GivesUpLate ==
  [][reader = "loop" /\ lost /\ reader' = "ending" /\ ~wsCloseCh /\ ~dropped => outage = "over"]_vars

\* An outage ends: the client connects again, or it closes.
OutageEnds ==
  reader = "loop" /\ ~up ~> (up /\ outage = "zero") \/ reader \in {"ending", "done"} \/ panicked

\* Close returns, if wsReader was started.
CloseCompletes ==
  closer = "asking" /\ reader # "none" ~> closer \in {"returned", "failed"} \/ panicked
=============================================================================
