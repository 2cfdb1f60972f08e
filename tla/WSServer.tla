------------------------------ MODULE WSServer ------------------------------
(***************************************************************************)
(* The websocket server rtcd keeps for the Mattermost nodes                *)
(* (service/ws/server.go, conn.go), with the loop of the service that      *)
(* reads its receiveCh and the order in which Service.Stop ends things     *)
(* (service/service.go).                                                   *)
(*                                                                         *)
(* ServeHTTP runs in a goroutine per connection; connWriter, the loop of   *)
(* the service, the loop that sends out what the sessions say, and Close   *)
(* run beside it.  A step is a section under Server.mut or an operation on *)
(* a channel or a socket.  A read deadline may strike at any time; when    *)
(* the pings of connWriter are answered it does not, which is the only     *)
(* effect they have and is not modelled.                                   *)
(***************************************************************************)
EXTENDS Integers, Sequences, FiniteSets

CONSTANTS
  Conns,          \* connection IDs: one request of a node each
  Chatty,         \* connections on which frames come in
  MaxFrames,      \* bounds the frames a node sends on a connection
  MaxSends,       \* bounds the messages of sessions to a connection
  ReceiveChSize, SendChSize,
  Nil

ASSUME WSServerAssumption ==
  /\ IsFiniteSet(Conns) /\ Chatty \subseteq Conns
  /\ MaxFrames \in Nat /\ MaxSends \in Nat
  /\ ReceiveChSize \in Nat \ {0} /\ SendChSize \in Nat \ {0}
  /\ Nil \notin Conns

VARIABLES
  handler,    \* where ServeHTTP is with each connection
  conns,      \* Server.conns
  closed,     \* Server.closed
  closer,     \* where Close is: its place, conns to close, conn it waits for
  receiveCh, sendCh,
  chClosed,   \* both channels are closed
  sockets,    \* connections whose socket is not closed on our side
  peers,      \* connections whose node is still there
  frames,     \* frames read from each connection
  seen,       \* types of the messages the service took, per connection
  gauge,      \* of active connections (IncWSConnections, DecWSConnections)
  joined,     \* connections a client message was handled of
  said,       \* messages of sessions sent to each connection
  wire,       \* what connWriter wrote to each connection
  unhailed,   \* history: connections whose hello was dropped
  upgraded    \* history: connections whose upgrade succeeded

handling == <<handler, conns, frames, sockets, upgraded>>
ending == <<closed, closer, chClosed>>
service == <<seen, gauge, joined, said, unhailed>>
vars == <<handling, ending, service, receiveCh, sendCh, peers, wire>>

Stages == {"new", "failed", "upgraded", "added", "opening", "reading", "text",
           "binary", "leaving", "removing", "unwinding", "done", "panicked"}

\* Message, with what tells a hello from other binary data.
Msg(c, type) == [conn |-> c, type |-> type]

Init ==
  /\ handler = [c \in Conns |-> "new"]
  /\ conns = {}
  /\ closed = FALSE
  /\ closer = [at |-> "idle", left |-> {}, conn |-> Nil]
  /\ receiveCh = <<>> /\ sendCh = <<>>
  /\ chClosed = FALSE
  /\ sockets = {}
  /\ peers = Conns
  /\ frames = [c \in Conns |-> 0]
  /\ seen = [c \in Conns |-> <<>>]
  /\ gauge = 0
  /\ joined = {}
  /\ said = [c \in Conns |-> 0]
  /\ wire = [c \in Conns |-> <<>>]
  /\ unhailed = {}
  /\ upgraded = {}

-----------------------------------------------------------------------------
(* ServeHTTP *)

Goto(c, stage) == handler' = [handler EXCEPT ![c] = stage]

\* A send on receiveCh: it waits for room, and panics on a closed channel.
receive(c, type, next) ==
  \/ /\ ~chClosed
     /\ Len(receiveCh) < ReceiveChSize
     /\ receiveCh' = Append(receiveCh, Msg(c, type))
     /\ Goto(c, next)
  \/ /\ chClosed
     /\ Goto(c, "panicked")
     /\ UNCHANGED receiveCh

\* The HTTP server takes requests until it is stopped.
Serving(c) == handler[c] = "new" /\ closer.at # "stopped"

AuthFails(c) ==
  /\ Serving(c)
  /\ Goto(c, "done")
  /\ UNCHANGED <<conns, frames, sockets, upgraded, ending, service, receiveCh, sendCh, peers, wire>>

UpgradeFails(c) ==
  /\ Serving(c)
  /\ Goto(c, "failed")
  /\ UNCHANGED <<conns, frames, sockets, upgraded, ending, service, receiveCh, sendCh, peers, wire>>

\* The close message of a connection that never was.
FailedClose(c) ==
  /\ handler[c] = "failed"
  /\ receive(c, "close", "done")
  /\ UNCHANGED <<conns, frames, sockets, upgraded, ending, service, sendCh, peers, wire>>

Upgrade(c) ==
  /\ Serving(c)
  /\ Goto(c, "upgraded")
  /\ sockets' = sockets \cup {c}
  /\ upgraded' = upgraded \cup {c}
  /\ UNCHANGED <<conns, frames, ending, service, receiveCh, sendCh, peers, wire>>

addConn(c) ==
  /\ handler[c] = "upgraded"
  /\ Goto(c, "added")
  /\ conns' = conns \cup {c}
  /\ UNCHANGED <<frames, sockets, upgraded, ending, service, receiveCh, sendCh, peers, wire>>

\* Plausible slips: closed is not looked at; the early return leaves closeCh
\* open.
isClosed_never(c) == IF FALSE THEN "unwinding" ELSE "opening"
isClosed_unreleased(c) == IF closed THEN "panicked" ELSE "opening"

\* Where a connection goes from isClosed: it ends before it is announced,
\* and stays in conns.
isClosed(c) == IF closed THEN "unwinding" ELSE "opening"

CheckClosed(c) ==
  /\ handler[c] = "added"
  /\ Goto(c, isClosed(c))
  /\ UNCHANGED <<conns, frames, sockets, upgraded, ending, service, receiveCh, sendCh, peers, wire>>

sendOpenMsg(c) ==
  /\ handler[c] = "opening"
  /\ receive(c, "open", "reading")
  /\ UNCHANGED <<conns, frames, sockets, upgraded, ending, service, sendCh, peers, wire>>

\* ReadMessage returns a frame; one of another type than text and binary is
\* skipped.
ReadMessage(c) ==
  /\ handler[c] = "reading"
  /\ c \in Chatty \cap sockets \cap peers
  /\ frames[c] < MaxFrames
  /\ frames' = [frames EXCEPT ![c] = @ + 1]
  /\ \E stage \in {"text", "binary", "reading"} : Goto(c, stage)
  /\ UNCHANGED <<conns, sockets, upgraded, ending, service, receiveCh, sendCh, peers, wire>>

Forward(c) ==
  /\ handler[c] \in {"text", "binary"}
  /\ receive(c, handler[c], "reading")
  /\ UNCHANGED <<conns, frames, sockets, upgraded, ending, service, sendCh, peers, wire>>

\* ReadMessage cannot but fail: the socket was closed, or nothing came, nor
\* a pong, until the deadline.
mustFail(c) == c \notin sockets \cap peers

ReadFails(c) ==
  /\ handler[c] = "reading"
  /\ Goto(c, "leaving")
  /\ UNCHANGED <<conns, frames, sockets, upgraded, ending, service, receiveCh, sendCh, peers, wire>>

\* A plausible slip: a failed read is reported and the loop goes on.
sendCloseMsg_continues(c) ==
  /\ handler[c] = "leaving"
  /\ receive(c, "close", "reading")
  /\ UNCHANGED <<conns, frames, sockets, upgraded, ending, service, sendCh, peers, wire>>

sendCloseMsg(c) ==
  /\ handler[c] = "leaving"
  /\ receive(c, "close", "removing")
  /\ UNCHANGED <<conns, frames, sockets, upgraded, ending, service, sendCh, peers, wire>>

removeConn(c) ==
  /\ handler[c] = "removing"
  /\ conns' = conns \ {c}
  /\ Goto(c, "unwinding")
  /\ UNCHANGED <<frames, sockets, upgraded, ending, service, receiveCh, sendCh, peers, wire>>

\* The deferred close of closeCh, and of the socket.
Unwind(c) ==
  /\ handler[c] = "unwinding"
  /\ Goto(c, "done")
  /\ sockets' = sockets \ {c}
  /\ UNCHANGED <<conns, frames, upgraded, ending, service, receiveCh, sendCh, peers, wire>>

\* The node goes away.
PeerGone(c) ==
  /\ c \in peers
  /\ handler[c] \notin {"new", "done"}
  /\ peers' = peers \ {c}
  /\ UNCHANGED <<handling, ending, service, receiveCh, sendCh, wire>>

-----------------------------------------------------------------------------
(* Send and connWriter *)

\* A plausible slip: a full sendCh loses its oldest message.
Send_oldest(m) ==
  IF closed THEN sendCh
  ELSE Append(IF Len(sendCh) = SendChSize THEN Tail(sendCh) ELSE sendCh, m)

\* What Send leaves in sendCh: nothing new once closed, or if it is full.
Send(m) == IF closed \/ Len(sendCh) = SendChSize THEN sendCh ELSE Append(sendCh, m)

connWriter ==
  /\ sendCh # <<>>
  /\ sendCh' = Tail(sendCh)
  /\ LET m == Head(sendCh) IN
       wire' = IF m.conn \in conns \cap sockets \cap peers
               THEN [wire EXCEPT ![m.conn] = Append(@, m.type)]
               ELSE wire
  /\ UNCHANGED <<handling, ending, service, receiveCh, peers>>

-----------------------------------------------------------------------------
(* The loops of the service. *)

take(m) ==
  /\ receiveCh # <<>>
  /\ m = Head(receiveCh)
  /\ receiveCh' = Tail(receiveCh)
  /\ seen' = [seen EXCEPT ![m.conn] = Append(@, m.type)]

HandleOpen ==
  \E c \in Conns : LET hello == Msg(c, "hello") IN
    /\ take(Msg(c, "open"))
    /\ gauge' = gauge + 1
    /\ sendCh' = Send(hello)
    /\ unhailed' = IF sendCh' = sendCh THEN unhailed \cup {c} ELSE unhailed
    /\ UNCHANGED <<handling, ending, joined, said, peers, wire>>

\* A client message: sessions may speak to this connection from now on.
HandleBinary ==
  \E c \in Conns :
    /\ take(Msg(c, "binary"))
    /\ joined' = joined \cup {c}
    /\ UNCHANGED <<handling, ending, gauge, said, unhailed, sendCh, peers, wire>>

HandleText ==
  \E c \in Conns :
    /\ take(Msg(c, "text"))
    /\ UNCHANGED <<handling, ending, gauge, joined, said, unhailed, sendCh, peers, wire>>

HandleClose ==
  \E c \in Conns :
    /\ take(Msg(c, "close"))
    /\ gauge' = gauge - 1
    /\ UNCHANGED <<handling, ending, joined, said, unhailed, sendCh, peers, wire>>

handleRTCMsg(c) ==
  /\ c \in joined
  /\ said[c] < MaxSends
  /\ said' = [said EXCEPT ![c] = @ + 1]
  /\ sendCh' = Send(Msg(c, "binary"))
  /\ UNCHANGED <<handling, ending, seen, gauge, joined, unhailed, receiveCh, peers, wire>>

-----------------------------------------------------------------------------
(* Service.Stop: Server.Close, then the HTTP server is stopped. *)

CloseAt(at) == closer.at = at

Close ==
  /\ CloseAt("idle")
  /\ closed' = TRUE
  /\ closer' = [closer EXCEPT !.at = "marked"]
  /\ UNCHANGED <<handling, chClosed, service, receiveCh, sendCh, peers, wire>>

getConns ==
  /\ CloseAt("marked")
  /\ closer' = [closer EXCEPT !.at = "closing", !.left = conns]
  /\ UNCHANGED <<handling, closed, chClosed, service, receiveCh, sendCh, peers, wire>>

CloseConn(c) ==
  /\ CloseAt("closing")
  /\ closer.conn = Nil
  /\ c \in closer.left
  /\ sockets' = sockets \ {c}
  /\ closer' = [closer EXCEPT !.left = @ \ {c}, !.conn = c]
  /\ UNCHANGED <<handler, conns, frames, upgraded, closed, chClosed, service, receiveCh, sendCh, peers, wire>>

\* A plausible slip: Close does not wait for the handlers.
released_unawaited(c) == TRUE

\* The handler of the connection closed closeCh.
released(c) == handler[c] = "done"

AwaitConn ==
  /\ CloseAt("closing")
  /\ closer.conn # Nil
  /\ released(closer.conn)
  /\ closer' = [closer EXCEPT !.conn = Nil]
  /\ UNCHANGED <<handling, closed, chClosed, service, receiveCh, sendCh, peers, wire>>

CloseChannels ==
  /\ CloseAt("closing")
  /\ closer.left = {} /\ closer.conn = Nil
  /\ chClosed' = TRUE
  /\ closer' = [closer EXCEPT !.at = "closed"]
  /\ UNCHANGED <<handling, closed, service, receiveCh, sendCh, peers, wire>>

StopAPI ==
  /\ CloseAt("closed")
  /\ closer' = [closer EXCEPT !.at = "stopped"]
  /\ UNCHANGED <<handling, closed, chClosed, service, receiveCh, sendCh, peers, wire>>

-----------------------------------------------------------------------------
Handler(c) ==
  \/ FailedClose(c) \/ addConn(c) \/ CheckClosed(c) \/ sendOpenMsg(c)
  \/ Forward(c) \/ sendCloseMsg(c) \/ removeConn(c) \/ Unwind(c)

Loop == HandleOpen \/ HandleBinary \/ HandleText \/ HandleClose

Closing ==
  \/ getConns \/ AwaitConn \/ CloseChannels \/ StopAPI
  \/ \E c \in Conns : CloseConn(c)

Next ==
  \/ Loop \/ connWriter \/ Close \/ Closing
  \/ \E c \in Conns :
       \/ AuthFails(c) \/ UpgradeFails(c) \/ Upgrade(c) \/ Handler(c)
       \/ ReadMessage(c) \/ ReadFails(c) \/ PeerGone(c) \/ handleRTCMsg(c)

Spec == Init /\ [][Next]_vars

\* Goroutines that can run do; a read that must fail does.  Nothing is
\* assumed of the nodes, nor that the server is ever closed.
Fairness ==
  /\ WF_vars(Loop) /\ WF_vars(connWriter) /\ WF_vars(Closing)
  /\ \A c \in Conns : WF_vars(Handler(c)) /\ WF_vars(mustFail(c) /\ ReadFails(c))

FairSpec == Spec /\ Fairness

-----------------------------------------------------------------------------
(* Properties. *)

\* The handler of an upgraded connection never sends on the closed receiveCh:
\* either Close finds the connection in conns and waits for it, or the handler
\* finds the server closed.  (A handler whose upgrade failed is in no map; it
\* does panic when it is late.)
NoSendOnClosed == \A c \in upgraded : handler[c] # "panicked"

\* What the service sees of an upgraded connection is an open, then data,
\* then a close, and nothing after it; of a failed one, a close.
SeenInOrder ==
  \A c \in Conns : LET n == Len(seen[c]) IN
    /\ \A i \in 1..n : seen[c][i] = "open" <=> c \in upgraded /\ i = 1
    /\ \A i \in 1..n : seen[c][i] = "close" => i = n

\* Once the channels are closed and the service has read what was left, every
\* connection it saw opened it has seen closed: Close loses no close message.
\* The gauge of connections, up with each open and down with each close, has
\* then gone down once for each failed upgrade, whose close no open came
\* before, and is back where it was but for these.
NothingLeftOpen ==
  chClosed /\ receiveCh = <<>> =>
    /\ \A c \in Conns : seen[c] # <<>> => seen[c][Len(seen[c])] = "close"
    /\ gauge = 0 - Cardinality({c \in Conns \ upgraded : seen[c] # <<>>})

\* A node reads the hello before anything else on a connection, unless the
\* hello found sendCh full or the server closed.
HelloFirst ==
  \A c \in Conns \ unhailed : wire[c] # <<>> => Head(wire[c]) = "hello"

\* Close returns: it closes the sockets, and the handlers it waits for have
\* only the loop of the service to wait for.
CloseReturns == closed ~> closer.at = "stopped"

=============================================================================
