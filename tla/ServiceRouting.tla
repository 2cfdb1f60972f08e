--------------------------- MODULE ServiceRouting ---------------------------
(***************************************************************************)
(* How rtcd ties the sessions of rtc.Server to the websocket connections   *)
(* of the Mattermost nodes (service/service.go): the connMap, the loop     *)
(* that handles the messages of the nodes, the loop that sends out what    *)
(* the sessions say, and the close callback handed to InitSession.         *)
(*                                                                         *)
(* One goroutine handles all messages of the nodes, so a join, a reconnect *)
(* or a leave never runs beside another; handling is what it is in the     *)
(* middle of.  Sessions close at any time in other goroutines, and so does *)
(* the close callback run.  rtc.Server is taken by its abstract            *)
(* specification, SessionLifecycle.                                        *)
(***************************************************************************)
EXTENDS Naturals, Sequences

CONSTANTS
  Joins,        \* join messages, and the sessions they make
  cfg,          \* their session configurations
  home,         \* the connection each join message came in on
  Conns,        \* websocket connections of the nodes
  SessionIDs,
  MaxOut,       \* bounds the messages of sessions on their way
  Nil

ASSUME RoutingAssumption ==
  /\ \A j \in Joins : cfg[j].session \in SessionIDs
  /\ home \in [Joins -> Conns]
  /\ MaxOut \in Nat \ {0}
  /\ Nil \notin Conns \cup Joins \cup [join : Joins, on : Conns, moved : BOOLEAN]

VARIABLES
  life, disturbed,  \* the sessions, see SessionLifecycle
  connMap,          \* Service.connMap, Nil where there is no entry
  handling,         \* what handleClientMsg is in the middle of
  offered,          \* sessions that got a message from their client
  receiveCh,        \* rtc.Server.receiveCh: messages of sessions
  speaking,         \* what handleRTCMsg has looked up and not sent yet; moved,
                    \* a history, says that its client has reconnected since
  sent,             \* history: the last message to a client, see Sent
  clientAt,         \* history: connection the client was last heard from on
  overlapped,       \* history: session IDs that joined while an earlier
                    \* session of theirs was not closed yet
  late              \* history: session IDs put in connMap once closed

server == <<life, disturbed>>
history == <<sent, clientAt, overlapped, late>>
vars == <<life, disturbed, connMap, handling, offered, receiveCh, speaking, history>>

rtcServer == INSTANCE SessionLifecycle

sid(j) == cfg[j].session

\* The session is in a call or on its way out of it.
isOpen(j) == life[j] \in {"member", "closing"}

open(s) == {j \in Joins : sid(j) = s /\ isOpen(j)}

Free == [step |-> "free"]
Routing(j) == [step |-> "route", join |-> j]
Leaving(j) == [step |-> "leave", join |-> j]

\* A message of session j, or the one that says it is closed, put on a
\* connection by wsServer.Send.
Sent(j, kind, c) == [join |-> j, kind |-> kind, on |-> c]

Init ==
  /\ rtcServer!Init
  /\ connMap = [s \in SessionIDs |-> Nil]
  /\ handling = Free
  /\ offered = {}
  /\ receiveCh = <<>>
  /\ speaking = Nil
  /\ sent = Nil
  /\ clientAt = [s \in SessionIDs |-> Nil]
  /\ overlapped = {}
  /\ late = {}

-----------------------------------------------------------------------------
(* handleClientMsg *)

\* ClientMessageJoin: InitSession refuses.
JoinRefused(j) ==
  /\ handling = Free
  /\ rtcServer!Reject(j)
  /\ UNCHANGED <<connMap, handling, offered, receiveCh, speaking, history>>

\* ClientMessageJoin: InitSession puts the session in its call.
JoinInit(j) ==
  /\ handling = Free
  /\ rtcServer!Add(j)
  /\ handling' = Routing(j)
  /\ clientAt' = [clientAt EXCEPT ![sid(j)] = home[j]]
  /\ overlapped' = IF open(sid(j)) = {} THEN overlapped ELSE overlapped \cup {sid(j)}
  /\ UNCHANGED <<connMap, offered, receiveCh, speaking, sent, late>>

\* An entry for s is made: late if its session is closed by now.
Entered(s) == late' = IF open(s) = {} THEN late \cup {s} ELSE late

\* A plausible slip: an entry that is there is left alone.
withEntry_first(s, c) == IF connMap[s] = Nil THEN [connMap EXCEPT ![s] = c] ELSE connMap

withEntry(s, c) == [connMap EXCEPT ![s] = c]

\* ClientMessageJoin: the entry is made once InitSession returned.
JoinRoute(j) ==
  /\ handling = Routing(j)
  /\ connMap' = withEntry(sid(j), home[j])
  /\ handling' = Free
  /\ Entered(sid(j))
  /\ UNCHANGED <<server, offered, receiveCh, speaking, sent, clientAt, overlapped>>

\* A message of session ID s has been looked up and is not sent yet.
inHand(s) == speaking # Nil /\ sid(speaking.join) = s

\* ClientMessageReconnect, whether the session ID has joined or not.
Reconnect(s, c) ==
  /\ handling = Free
  /\ connMap' = withEntry(s, c)
  /\ clientAt' = [clientAt EXCEPT ![s] = c]
  /\ Entered(s)
  /\ speaking' = IF inHand(s) THEN [speaking EXCEPT !.moved = TRUE] ELSE speaking
  /\ UNCHANGED <<server, handling, offered, receiveCh, sent, overlapped>>

\* ClientMessageLeave: CloseSession takes the session out of its call.
Leave(j) ==
  /\ handling = Free
  /\ rtcServer!Close(j)
  /\ handling' = Leaving(j)
  /\ UNCHANGED <<connMap, offered, receiveCh, speaking, history>>

\* CloseSession returns once the session is closed and closeCb has run.
LeaveReturns(j) ==
  /\ handling = Leaving(j)
  /\ life[j] = "closed"
  /\ handling' = Free
  /\ UNCHANGED <<server, connMap, offered, receiveCh, speaking, history>>

\* ClientMessageRTC: the session may speak from now on, with answers,
\* candidates and voice activity.
ClientRTC(j) ==
  /\ handling = Free
  /\ life[j] = "member"
  /\ offered' = offered \cup {j}
  /\ UNCHANGED <<server, connMap, handling, receiveCh, speaking, history>>

-----------------------------------------------------------------------------
(* Other goroutines. *)

\* The connection of the session fails, or its negotiation does.
SessionFails(j) ==
  /\ rtcServer!Close(j)
  /\ UNCHANGED <<connMap, handling, offered, receiveCh, speaking, history>>

\* A plausible slip: the callback forgets the connMap.
withoutEntry_kept(s) == connMap

withoutEntry(s) == [connMap EXCEPT ![s] = Nil]

\* A plausible slip: the loop holds Service.mut while CloseSession waits.
mutFree_held(j) == handling # Leaving(j)

\* closeCb needs Service.mut, which handleClientMsg holds in none of the
\* places where it calls rtc.Server.
mutFree(j) == TRUE

\* closeCb: takes the entry of the session ID away, whoever made it, and
\* sends the close message on the connection of the join.
CloseCb(j) ==
  /\ mutFree(j)
  /\ rtcServer!Finish(j)
  /\ connMap' = withoutEntry(sid(j))
  /\ sent' = Sent(j, "close", home[j])
  /\ UNCHANGED <<handling, offered, receiveCh, speaking, clientAt, overlapped, late>>

\* An SDP, ICE or voice activity message of a session.
SessionSpeaks(j) ==
  /\ j \in offered
  /\ isOpen(j)
  /\ Len(receiveCh) < MaxOut
  /\ receiveCh' = Append(receiveCh, j)
  /\ UNCHANGED <<server, connMap, handling, offered, speaking, history>>

\* handleRTCMsg looks connMap[SessionID] up, drops the message if that is
\* missing, and lets go of Service.mut ...
HandleRTCMsg ==
  /\ speaking = Nil
  /\ receiveCh # <<>>
  /\ LET j == Head(receiveCh) IN
       speaking' = IF connMap[sid(j)] = Nil THEN Nil
                   ELSE [join |-> j, on |-> connMap[sid(j)], moved |-> FALSE]
  /\ receiveCh' = Tail(receiveCh)
  /\ UNCHANGED <<server, connMap, handling, offered, history>>

\* ... before it sends it, on the connection it has found.
SendRTCMsg ==
  /\ speaking # Nil
  /\ sent' = Sent(speaking.join, "rtc", speaking.on)
  /\ speaking' = Nil
  /\ UNCHANGED <<server, connMap, handling, offered, receiveCh, clientAt, overlapped, late>>

Next ==
  \/ \E j \in Joins :
       \/ JoinRefused(j) \/ JoinInit(j) \/ JoinRoute(j)
       \/ Leave(j) \/ LeaveReturns(j) \/ ClientRTC(j)
       \/ SessionFails(j) \/ CloseCb(j) \/ SessionSpeaks(j)
  \/ \E s \in SessionIDs, c \in Conns : Reconnect(s, c)
  \/ HandleRTCMsg \/ SendRTCMsg

Fairness ==
  /\ \A j \in Joins : WF_vars(JoinRoute(j)) /\ WF_vars(LeaveReturns(j)) /\ WF_vars(CloseCb(j))
  /\ WF_vars(HandleRTCMsg) /\ WF_vars(SendRTCMsg)

Spec == Init /\ [][Next]_vars /\ Fairness

-----------------------------------------------------------------------------
(* Properties. *)

\* Types of the state.
TypeOK ==
  /\ life \in [Joins -> rtcServer!Stages]
  /\ disturbed \in BOOLEAN
  /\ connMap \in [SessionIDs -> Conns \cup {Nil}]
  /\ handling \in {Free} \cup {Routing(j) : j \in Joins} \cup {Leaving(j) : j \in Joins}
  /\ offered \subseteq Joins
  /\ receiveCh \in Seq(Joins) /\ Len(receiveCh) <= MaxOut
  /\ speaking \in {Nil} \cup [join : Joins, on : Conns, moved : BOOLEAN]
  /\ sent \in {Nil} \cup [join : Joins, kind : {"rtc", "close"}, on : Conns]
  /\ clientAt \in [SessionIDs -> Conns \cup {Nil}]
  /\ overlapped \subseteq SessionIDs
  /\ late \subseteq SessionIDs

\* A session in a call whose join message has been handled is found in the
\* connMap under the connection its client last used, joins, reconnects and
\* closings of other sessions notwithstanding, unless its ID was taken into
\* a call again while an earlier session of that ID was still closing.
LiveRouted ==
  \A j \in Joins :
    life[j] = "member" /\ handling # Routing(j) /\ sid(j) \notin overlapped
      => connMap[sid(j)] = clientAt[sid(j)]

\* What LiveRouted and SpokenHome rest on: two open sessions share an ID
\* only if it is marked overlapped, a join under way knows where its client
\* is, no session speaks before its join message has been handled, every open
\* session has been heard of, and what handleRTCMsg is about to send has the
\* connection its client is at, unless that one has reconnected since.
RoutingInv ==
  /\ LiveRouted
  /\ \A i, j \in Joins : i # j /\ sid(i) = sid(j) /\ isOpen(i) /\ isOpen(j) => sid(i) \in overlapped
  /\ \A j \in Joins : handling = Routing(j) => clientAt[sid(j)] = home[j] /\ j \notin offered
  /\ \A j \in Joins : j \in offered \/ handling = Routing(j) => life[j] # "new"
  /\ \A j \in Joins : isOpen(j) => clientAt[sid(j)] # Nil
  /\ receiveCh \in Seq(offered)
  /\ speaking # Nil =>
       LET j == speaking.join IN
         /\ j \in offered
         /\ ~speaking.moved /\ life[j] = "member" /\ sid(j) \notin overlapped
              => speaking.on = clientAt[sid(j)]

\* A message of a session in a call is not dropped for want of an entry
\* (handleRTCMsg, "unexpected empty connID"), although the entry is made after
\* InitSession has let the session run.  It is sent on the connection its
\* client is at, although the message waits in receiveCh while the client
\* moves, unless the client reconnects between the lookup and the send: that
\* message goes where the client was before.
SpokenHome ==
  [][\A j \in Joins :
       life[j] = "member" /\ sid(j) \notin overlapped
         => /\ HandleRTCMsg /\ Head(receiveCh) = j => speaking' # Nil
            /\ SendRTCMsg /\ speaking.join = j /\ ~speaking.moved
                 => sent' = Sent(j, "rtc", clientAt[sid(j)])]_vars

\* No entry outlives its session, except one that was made for a session
\* that had closed already (a join whose session failed at once, a
\* reconnect that came too late).
EntriesHaveSessions ==
  \A s \in SessionIDs : connMap[s] # Nil /\ s \notin late => open(s) # {}

\* The loop that handles the nodes' messages always comes back for the next
\* one: the close callback that a leave waits for is never held up by it.
LoopReturns == (handling # Free) ~> (handling = Free)

=============================================================================
