--------------------------- MODULE ServiceClient ----------------------------
(***************************************************************************)
(* The client of rtcd that the Calls plugin embeds (service/client.go),    *)
(* over the websocket client of WSClient: Connect, Send, Close, the        *)
(* goroutine per connection that reads messages and reconnects, and what   *)
(* they close when.                                                        *)
(*                                                                         *)
(* A step is a section under Client.mut, or an operation on a channel.     *)
(* Connect holds the mutex while it dials.  Calls that only return an      *)
(* error change nothing and are no steps.  A user may call Connect while   *)
(* the client reconnects by itself: overlapped remembers that it worked.   *)
(***************************************************************************)
EXTENDS WSClient

CONSTANTS
  ReceiveChSize,  \* size of the client's own receiveCh
  MaxSends,       \* bounds the messages a user sends
  CanGiveUp       \* there is a reconnectCb, which may fail

ASSUME ServiceClientAssumption ==
  /\ ReceiveChSize \in Nat \ {0} /\ MaxSends \in Nat /\ CanGiveUp \in BOOLEAN

VARIABLES
  dialed,      \* connections made
  wsClient,    \* Client.wsClient, 0 for nil
  closed,      \* Client.closed
  connecting,  \* Connect holds mut, the new connection is not in place yet
  loop,        \* place of the goroutine started by Connect, per link
  connID,      \* Client.connID, by the link whose hello it came with
  receiveCh,   \* Client.receiveCh, by the links the messages came on
  chClosed,    \* receiveCh and errorCh are closed
  closing,     \* place of Close, and the link it took
  sends,       \* messages the user sent
  panicked,
  overlapped   \* history: see above

client == <<dialed, wsClient, closed, connecting, loop, connID, receiveCh,
            chClosed, closing, sends, panicked, overlapped>>
vars == <<link, client>>

mutFree == ~connecting

Init ==
  /\ link = [k \in Links |-> NoLink]
  /\ dialed = 0 /\ wsClient = 0
  /\ closed = FALSE
  /\ connecting = FALSE
  /\ loop = [k \in Links |-> "none"]
  /\ connID = 0
  /\ receiveCh = <<>>
  /\ chClosed = FALSE
  /\ closing = [at |-> "idle", link |-> 0]
  /\ sends = 0
  /\ panicked = FALSE
  /\ overlapped = FALSE

Goto(k, at) == loop' = [loop EXCEPT ![k] = at]

reconnecting(k) == loop[k] \in {"waiting", "calling", "failed", "closing"}

\* Both goroutines of every connection left the wait group.
waitGroup == \A k \in 1..dialed : loop[k] = "done" /\ errorChClosed(k)

\* A second close of a channel, or a send on a closed one, panics.
closeChannels ==
  /\ chClosed' = TRUE
  /\ panicked' = (panicked \/ chClosed)

-----------------------------------------------------------------------------
(* Connect *)

canConnect == mutFree /\ ~closed /\ wsClient = 0

\* NewClient has dialed; a dial that fails changes nothing.
Dial ==
  /\ canConnect
  /\ dialed < MaxLinks
  /\ dialed' = dialed + 1
  /\ connecting' = TRUE
  /\ link' = [link EXCEPT ![dialed + 1] = Dialed(dialed + 1)]

UserConnects ==
  /\ Dial
  /\ overlapped' = (overlapped \/ \E k \in Links : reconnecting(k))
  /\ UNCHANGED <<wsClient, closed, loop, connID, receiveCh, chClosed, closing, sends, panicked>>

\* The goroutine of the connection starts, and Connect returns, to the user
\* or to reconnectHandler, which is through then.
Connected ==
  /\ ~mutFree
  /\ link' = [link EXCEPT ![dialed] = Opened(dialed)]
  /\ wsClient' = dialed
  /\ loop' = [k \in Links |->
       IF k = dialed THEN "reading" ELSE IF loop[k] = "connecting" THEN "done" ELSE loop[k]]
  /\ connecting' = FALSE
  /\ UNCHANGED <<dialed, closed, connID, receiveCh, chClosed, closing, sends, panicked, overlapped>>

-----------------------------------------------------------------------------
(* The goroutine of a connection: msgReader, then reconnectHandler. *)

\* A message is dropped when receiveCh is full.
pushed(k) ==
  IF chClosed \/ Len(receiveCh) = ReceiveChSize THEN receiveCh ELSE Append(receiveCh, k)

MsgReader(k) ==
  /\ loop[k] = "reading"
  /\ link[k].receiveCh # <<>>
  /\ LET m == Head(link[k].receiveCh) IN
       /\ m = "hello" => mutFree
       /\ connID' = IF m = "hello" THEN k ELSE connID
  /\ link' = [link EXCEPT ![k].receiveCh = Tail(@)]
  /\ receiveCh' = pushed(k)
  /\ panicked' = (panicked \/ chClosed)
  /\ UNCHANGED <<dialed, wsClient, closed, connecting, loop, chClosed, closing, sends, overlapped>>

\* A plausible slip: the connection is let go of by its state.
lost_byState(k) == wsClient # 0 /\ link[k].state # "open"

\* The connection was lost, and not closed by Close, which takes wsClient.
lost(k) == wsClient # 0

MsgReaderEnds(k) ==
  /\ loop[k] = "reading"
  /\ link[k].receiveCh = <<>> /\ receiveChClosed(k)
  /\ mutFree
  /\ IF lost(k)
     THEN wsClient' = 0 /\ Goto(k, "waiting")
     ELSE Goto(k, "done") /\ UNCHANGED wsClient
  /\ UNCHANGED <<link, dialed, closed, connecting, connID, receiveCh, chClosed, closing, sends, panicked, overlapped>>

\* The wait is over, and the callback lets the client try again.
Wake(k) ==
  /\ loop[k] = "waiting"
  /\ Goto(k, "calling")
  /\ UNCHANGED <<link, dialed, wsClient, closed, connecting, connID, receiveCh, chClosed, closing, sends, panicked, overlapped>>

ReconnectFails(k) ==
  /\ loop[k] = "calling"
  /\ mutFree
  /\ Goto(k, "waiting")
  /\ UNCHANGED <<link, dialed, wsClient, closed, connecting, connID, receiveCh, chClosed, closing, sends, panicked, overlapped>>

Reconnect(k) ==
  /\ loop[k] = "calling"
  /\ Dial
  /\ Goto(k, "connecting")
  /\ UNCHANGED <<wsClient, closed, connID, receiveCh, chClosed, closing, sends, panicked, overlapped>>

\* The callback fails: the client is closed, then its channels are.
CallbackFails(k) ==
  /\ loop[k] = "waiting"
  /\ CanGiveUp
  /\ Goto(k, "failed")
  /\ UNCHANGED <<link, dialed, wsClient, closed, connecting, connID, receiveCh, chClosed, closing, sends, panicked, overlapped>>

GiveUp(k) ==
  /\ loop[k] = "failed"
  /\ mutFree
  /\ closed' = TRUE
  /\ Goto(k, "closing")
  /\ UNCHANGED <<link, dialed, wsClient, connecting, connID, receiveCh, chClosed, closing, sends, panicked, overlapped>>

GiveUpCloses(k) ==
  /\ loop[k] = "closing"
  /\ closeChannels
  /\ Goto(k, "done")
  /\ UNCHANGED <<link, dialed, wsClient, closed, connecting, connID, receiveCh, closing, sends, overlapped>>

-----------------------------------------------------------------------------
(* The user. *)

UserSends ==
  /\ sends < MaxSends
  /\ sends' = sends + 1
  /\ mutFree /\ ~closed /\ wsClient # 0
  /\ accepts(wsClient)
  /\ link' = [link EXCEPT ![wsClient] = Send(wsClient)]
  /\ UNCHANGED <<dialed, wsClient, closed, connecting, loop, connID, receiveCh, chClosed, closing, panicked, overlapped>>

UserReceives ==
  /\ receiveCh # <<>>
  /\ receiveCh' = Tail(receiveCh)
  /\ UNCHANGED <<link, dialed, wsClient, closed, connecting, loop, connID, chClosed, closing, sends, panicked, overlapped>>

\* A plausible slip: Close leaves the connection in place.
taken_kept(k) == k

\* Close takes the connection, so that its goroutine does not reconnect.
taken(k) == 0

Close ==
  /\ mutFree /\ ~closed /\ wsClient # 0
  /\ closed' = TRUE
  /\ wsClient' = taken(wsClient)
  /\ closing' = [at |-> "mark", link |-> wsClient]
  /\ UNCHANGED <<link, dialed, connecting, loop, connID, receiveCh, chClosed, sends, panicked, overlapped>>

\* A step of Close of the websocket client, which leaves the link as l.
closeStep(from, to, l) ==
  /\ closing.at = from
  /\ closing' = [closing EXCEPT !.at = to]
  /\ link' = [link EXCEPT ![closing.link] = l]
  /\ UNCHANGED <<dialed, wsClient, closed, connecting, loop, connID, receiveCh, chClosed, sends, panicked, overlapped>>

CloseMarks(k) == closing.link = k /\ closeStep("mark", "flush", Marked(k))
CloseFlush(k) == closing.link = k /\ closeStep("flush", "flushed", Flushing(k))
CloseSocket(k) == closing.link = k /\ flushDone(k) /\ closeStep("flushed", "wait", SocketClosed(k))
CloseWaits(k) == closing.link = k /\ waitGroupDone(k) /\ closeStep("wait", "end", link[k])

\* A plausible slip: Close does not wait for the goroutines.
ended_unawaited == TRUE

ended == waitGroup

CloseReturns ==
  /\ closing.at = "end"
  /\ ended
  /\ closeChannels
  /\ closing' = [closing EXCEPT !.at = "returned"]
  /\ UNCHANGED <<link, dialed, wsClient, closed, connecting, loop, connID, receiveCh, sends, overlapped>>

-----------------------------------------------------------------------------
Loop(k) ==
  \/ MsgReader(k) \/ MsgReaderEnds(k) \/ Wake(k) \/ ReconnectFails(k)
  \/ GiveUp(k) \/ GiveUpCloses(k)

Closing ==
  \/ CloseReturns
  \/ \E k \in Links : CloseMarks(k) \/ CloseFlush(k) \/ CloseSocket(k) \/ CloseWaits(k)

Next ==
  \/ UserConnects \/ Connected \/ UserSends \/ UserReceives \/ Close \/ Closing
  \/ \E k \in Links :
       \/ Loop(k) \/ Reconnect(k) \/ CallbackFails(k)
       \/ (Goroutines(k) \/ ReadMessage(k) \/ PeerGone(k)) /\ UNCHANGED client

Spec == Init /\ [][~panicked /\ Next]_vars

\* Goroutines that can run do.  Nothing is assumed of the server, of the
\* network, or of the user.
Fairness ==
  /\ WF_vars(~panicked /\ Connected) /\ WF_vars(~panicked /\ Closing)
  /\ \A k \in Links :
       /\ WF_vars(~panicked /\ Loop(k))
       /\ WF_vars(~panicked /\ Goroutines(k) /\ UNCHANGED client)

FairSpec == Spec /\ Fairness

-----------------------------------------------------------------------------
(* Properties. *)

\* The channels of the client are closed once, and nothing is sent on them
\* afterwards: of Close, a failing callback and the goroutines of old and new
\* connections only one is left when the channels go.  (A user who connects
\* while the client reconnects can have both.)
NoPanic == overlapped \/ ~panicked

\* The goroutine of a connection lets go of its own connection only.
LostIsOwn ==
  \A k \in Links : loop[k] = "reading" => wsClient \in {k, 0} /\ (wsClient = 0 => closed)

\* connID never goes back to that of an earlier connection: what was read on
\* it is handled before the client connects again.
ConnIDForward == [][connID' >= connID]_vars

\* Close flushes: of the messages it found in sendCh at most half is left when
\* it has returned and the server stayed.  (The loop counts up against a
\* length that goes down, so it does leave half of them.)
CloseFlushes ==
  closing.at = "returned" /\ link[closing.link].peer =>
    2 * link[closing.link].sendCh <= link[closing.link].found

\* Close returns.
CloseCompletes == closing.at = "mark" ~> closing.at = "returned" \/ overlapped

\* A connection whose server is gone does not stay the client's connection,
\* though connState may say open for good (NewClient sets it last).
LostIsNoticed == \A k \in Links : link[k].socket /\ ~link[k].peer ~> wsClient # k \/ panicked
=============================================================================
