--------------------------- MODULE WSServerProofs ---------------------------
(***************************************************************************)
(* Proofs about WSServer, for any set of connections and any channel       *)
(* sizes.                                                                  *)
(*                                                                         *)
(* NoSendOnClosed is not inductive: what keeps a handler from sending on a *)
(* closed channel is that Close has it on its list, or that it was not in  *)
(* conns yet and will find the server closed.  CloseFacts says so.         *)
(*                                                                         *)
(* What the service has seen is not the whole of it either: StreamInv      *)
(* relates it to what waits in receiveCh, connection by connection, and to *)
(* where the handler is.  HelloInv follows the hello from the service to   *)
(* the socket.  GaugeInv counts the opens and closes the service has taken. *)
(***************************************************************************)
EXTENDS WSServer, SequenceTheorems, FiniteSetTheorems, TLAPS

USE ZenonT(3), SMTT(20)

\* The stages in which a handler has yet to send on receiveCh.
Sending == {"opening", "reading", "text", "binary", "leaving"}

\* Close has not begun to collect the connections, has c on its list or waits
\* for its handler.
Waited(c) ==
  \/ closer.at \in {"idle", "marked"}
  \/ closer.at = "closing" /\ (c \in closer.left \/ closer.conn = c)

CloserType ==
  closer \in [at : {"idle", "marked", "closing", "closed", "stopped"},
              left : SUBSET Conns, conn : Conns \cup {Nil}]

ConnFacts(c) ==
  /\ handler[c] \in {"new", "failed", "panicked"} => c \notin upgraded
  /\ handler[c] \in {"added"} \cup Sending => c \in conns
  /\ handler[c] \in Sending => Waited(c)

CloseFacts ==
  /\ handler \in [Conns -> Stages]
  /\ conns \subseteq Conns /\ upgraded \subseteq Conns
  /\ CloserType
  /\ closer.at = "idle" \/ closed
  /\ chClosed => closer.at \in {"closed", "stopped"}
  /\ \A c \in Conns : ConnFacts(c)

LEMMA CloseFactsInit == Init => CloseFacts
BY WSServerAssumption DEF Init, CloseFacts, CloserType, ConnFacts, Stages, Sending

\* A step of the handler of c that leaves Close alone concerns c only.
LEMMA HandlerFrame ==
  ASSUME CloseFacts, NEW c \in Conns, NEW stage \in Stages, Goto(c, stage),
         UNCHANGED <<closed, closer, chClosed>>,
         conns \ {c} \subseteq conns', conns' \subseteq conns \cup {c},
         upgraded' \subseteq upgraded \cup {c},
         ConnFacts(c)'
  PROVE  CloseFacts'
<1>1. handler' \in [Conns -> Stages] /\ handler'[c] = stage
      /\ \A d \in Conns \ {c} : handler'[d] = handler[d]
  BY DEF Goto, CloseFacts
<1>2. ASSUME NEW d \in Conns, d # c PROVE ConnFacts(d)'
  BY <1>1, <1>2 DEF CloseFacts, ConnFacts, Waited
<1>3. \A d \in Conns : ConnFacts(d)'
  BY <1>2
<1>4. CloserType' /\ (closer'.at = "idle" \/ closed')
      /\ (chClosed' => closer'.at \in {"closed", "stopped"})
  BY Zenon DEF CloseFacts, CloserType
<1>5. conns' \subseteq Conns /\ upgraded' \subseteq Conns
  BY DEF CloseFacts
<1> QED BY <1>1, <1>3, <1>4, <1>5 DEF CloseFacts

\* A send of a handler that Close waits for, or of one without a connection.
LEMMA ReceiveFrame ==
  ASSUME CloseFacts, NEW c \in Conns, NEW type, NEW next \in Stages \ {"new", "failed", "panicked"},
         handler[c] \in Sending \cup {"failed"}, receive(c, type, next),
         next \in Sending \cup {"added"} => handler[c] \in Sending,
         UNCHANGED <<closed, closer, chClosed, conns, upgraded>>
  PROVE  CloseFacts'
<1>1. ConnFacts(c) /\ handler \in [Conns -> Stages]
  BY DEF CloseFacts
<1>2. CASE ~chClosed /\ Goto(c, next)
  <2>1. ConnFacts(c)'
    BY <1>1, <1>2 DEF ConnFacts, Waited, Goto, Sending
  <2> QED BY <1>2, <2>1, HandlerFrame
<1>3. CASE chClosed /\ Goto(c, "panicked")
  <2>1. closer.at \in {"closed", "stopped"}
    BY <1>3 DEF CloseFacts
  <2>2. c \notin upgraded
    BY <1>1, <2>1 DEF ConnFacts, Waited, Sending
  <2>3. ConnFacts(c)'
    BY <1>1, <1>3, <2>2 DEF ConnFacts, Waited, Goto, Sending
  <2> QED BY <1>3, <2>3, HandlerFrame DEF Stages
<1> QED BY <1>2, <1>3, Zenon DEF receive

\* The steps of the handlers.
LEMMA HandlerSteps ==
  ASSUME CloseFacts, NEW c \in Conns,
         \/ AuthFails(c) \/ UpgradeFails(c) \/ Upgrade(c) \/ Handler(c)
         \/ ReadMessage(c) \/ ReadFails(c)
  PROVE  CloseFacts'
<1> USE DEF ending
<1>1. ConnFacts(c) /\ handler \in [Conns -> Stages]
  BY DEF CloseFacts
<1>2. CASE AuthFails(c) \/ UpgradeFails(c)
  <2>1. ASSUME NEW s \in {"done", "failed"}, Goto(c, s), handler[c] = "new",
               UNCHANGED <<conns, upgraded, ending>>
        PROVE  CloseFacts'
    <3>1. ConnFacts(c)'
      BY <1>1, <2>1 DEF ConnFacts, Waited, Goto, Sending
    <3> QED BY <2>1, <3>1, HandlerFrame DEF Stages
  <2> QED BY <1>2, <2>1 DEF AuthFails, UpgradeFails, Serving
<1>3. CASE Upgrade(c)
  <2>1. ConnFacts(c)'
    BY <1>1, <1>3 DEF Upgrade, ConnFacts, Goto, Sending
  <2> QED BY <1>3, <2>1, HandlerFrame DEF Upgrade, Stages
<1>4. CASE addConn(c)
  <2>1. ConnFacts(c)'
    BY <1>1, <1>4 DEF addConn, ConnFacts, Goto, Sending
  <2> QED BY <1>4, <2>1, HandlerFrame DEF addConn, Stages
<1>5. CASE CheckClosed(c)
  <2>1. closed \/ Waited(c)
    BY DEF CloseFacts, Waited
  <2>2. ConnFacts(c)'
    BY <1>1, <1>5, <2>1 DEF CheckClosed, isClosed, ConnFacts, Waited, Goto, Sending
  <2> QED BY <1>5, <2>2, HandlerFrame DEF CheckClosed, isClosed, Stages
<1>6. CASE ReadMessage(c) \/ ReadFails(c)
  <2>1. ASSUME NEW s \in {"text", "binary", "reading", "leaving"}, Goto(c, s),
               handler[c] = "reading", UNCHANGED <<conns, upgraded, ending>>
        PROVE  CloseFacts'
    <3>1. ConnFacts(c)'
      BY <1>1, <2>1 DEF ConnFacts, Waited, Goto, Sending
    <3> QED BY <2>1, <3>1, HandlerFrame DEF Stages
  <2> QED BY <1>6, <2>1 DEF ReadMessage, ReadFails
<1>7. CASE removeConn(c) \/ Unwind(c)
  <2>1. ASSUME NEW s \in {"unwinding", "done"}, Goto(c, s),
               handler[c] \in {"removing", "unwinding"}, conns' \in {conns, conns \ {c}},
               UNCHANGED <<upgraded, ending>>
        PROVE  CloseFacts'
    <3>1. ConnFacts(c)'
      BY <1>1, <2>1 DEF ConnFacts, Waited, Goto, Sending
    <3> QED BY <2>1, <3>1, HandlerFrame DEF Stages
  <2> QED BY <1>7, <2>1 DEF removeConn, Unwind
<1>8. CASE FailedClose(c)
  BY <1>8, ReceiveFrame DEF FailedClose, Stages, Sending
<1>9. CASE sendOpenMsg(c)
  BY <1>9, ReceiveFrame DEF sendOpenMsg, Stages, Sending
<1>10. CASE Forward(c)
  BY <1>10, ReceiveFrame DEF Forward, Stages, Sending
<1>11. CASE sendCloseMsg(c)
  BY <1>11, ReceiveFrame DEF sendCloseMsg, Stages, Sending
<1> QED
  BY <1>2, <1>3, <1>4, <1>5, <1>6, <1>7, <1>8, <1>9, <1>10, <1>11 DEF Handler

\* The steps of Close.
LEMMA CloserSteps ==
  ASSUME CloseFacts, Close \/ Closing
  PROVE  CloseFacts'
<1>0. CloserType /\ handler \in [Conns -> Stages]
  BY DEF CloseFacts
<1>1. CASE Close
  <2>1. CloserType' /\ closer'.at = "marked" /\ closed' /\ handler' = handler
        /\ conns' = conns /\ upgraded' = upgraded
    BY <1>0, <1>1 DEF Close, CloseAt, CloserType, handling
  <2>2. ~chClosed'
    BY <1>1, Zenon DEF Close, CloseAt, CloseFacts
  <2>3. \A c \in Conns : ConnFacts(c)'
    BY <2>1 DEF CloseFacts, ConnFacts, Waited
  <2> QED BY <1>0, <2>1, <2>2, <2>3 DEF CloseFacts
<1>2. CASE getConns
  <2>1. CloserType' /\ handler' = handler /\ conns' = conns /\ upgraded' = upgraded
        /\ closed' = closed /\ closer.at = "marked" /\ closer'.at = "closing" /\ closer'.left = conns
        /\ closer'.conn = closer.conn
    BY <1>0, <1>2, Zenon DEF getConns, CloseAt, CloserType, handling, CloseFacts
  <2>2. ~chClosed'
    BY <1>2, Zenon DEF getConns, CloseAt, CloseFacts
  <2>3. \A c \in Conns : ConnFacts(c)'
    BY <2>1 DEF CloseFacts, ConnFacts, Waited
  <2> QED BY <2>1, <2>2, <2>3 DEF CloseFacts
<1>3. CASE \E c \in Conns : CloseConn(c)
  <2>1. PICK c \in Conns : CloseConn(c)
    BY <1>3
  <2>2. CloserType' /\ handler' = handler /\ conns' = conns /\ upgraded' = upgraded
        /\ closed' = closed /\ closer.at = "closing" /\ closer'.at = "closing"
        /\ closer'.left = closer.left \ {c} /\ closer'.conn = c /\ closer.conn = Nil
    BY <1>0, <2>1, Zenon DEF CloseConn, CloseAt, CloserType
  <2>3. ~chClosed'
    BY <2>1, Zenon DEF CloseConn, CloseAt, CloseFacts
  <2>4. \A d \in Conns : ConnFacts(d)'
    BY <2>2, WSServerAssumption DEF CloseFacts, ConnFacts, Waited
  <2> QED BY <2>2, <2>3, <2>4 DEF CloseFacts
<1>4. CASE AwaitConn
  <2>1. CloserType' /\ handler' = handler /\ conns' = conns /\ upgraded' = upgraded
        /\ closed' = closed /\ closer.at = "closing" /\ closer'.at = "closing"
        /\ closer'.left = closer.left /\ handler[closer.conn] = "done"
    BY <1>0, <1>4 DEF AwaitConn, released, CloseAt, CloserType, handling
  <2>2. ~chClosed'
    BY <1>4, Zenon DEF AwaitConn, CloseAt, CloseFacts
  <2>3. \A d \in Conns : ConnFacts(d)'
    BY <2>1 DEF CloseFacts, ConnFacts, Waited, Sending
  <2> QED BY <2>1, <2>2, <2>3 DEF CloseFacts
<1>5. CASE CloseChannels
  <2>1. CloserType' /\ handler' = handler /\ conns' = conns /\ upgraded' = upgraded
        /\ closed' = closed /\ closer.at = "closing" /\ closer'.at = "closed"
        /\ closer.left = {} /\ closer.conn = Nil
    BY <1>0, <1>5 DEF CloseChannels, CloseAt, CloserType, handling
  <2>2. \A d \in Conns : ConnFacts(d)'
    BY <2>1, WSServerAssumption DEF CloseFacts, ConnFacts, Waited
  <2> QED BY <2>1, <2>2 DEF CloseFacts
<1>6. CASE StopAPI
  <2>1. CloserType' /\ handler' = handler /\ conns' = conns /\ upgraded' = upgraded
        /\ closed' = closed /\ closer.at = "closed" /\ closer'.at = "stopped"
    BY <1>0, <1>6 DEF StopAPI, CloseAt, CloserType, handling
  <2>2. \A d \in Conns : ConnFacts(d)'
    BY <2>1 DEF CloseFacts, ConnFacts, Waited
  <2> QED BY <2>1, <2>2 DEF CloseFacts
<1> QED
  BY <1>1, <1>2, <1>3, <1>4, <1>5, <1>6, Zenon DEF Closing

\* The inductive invariant.
LEMMA CloseFactsStep == CloseFacts /\ [Next]_vars => CloseFacts'
<1> SUFFICES ASSUME CloseFacts, [Next]_vars PROVE CloseFacts'
  OBVIOUS
<1>1. CASE UNCHANGED <<handler, conns, upgraded, closed, closer, chClosed>>
  <2>1. \A c \in Conns : ConnFacts(c)'
    BY <1>1 DEF CloseFacts, ConnFacts, Waited
  <2> QED BY <1>1, <2>1, Zenon DEF CloseFacts, CloserType
<1>2. \/ Close \/ Closing
      \/ \E c \in Conns : \/ AuthFails(c) \/ UpgradeFails(c) \/ Upgrade(c) \/ Handler(c)
                           \/ ReadMessage(c) \/ ReadFails(c)
      \/ UNCHANGED <<handler, conns, upgraded, closed, closer, chClosed>>
  BY Zenon DEF Next, Loop, HandleOpen, HandleBinary, HandleText, HandleClose, connWriter, PeerGone,
         handleRTCMsg, vars, handling, ending
<1> QED
  BY <1>1, <1>2, HandlerSteps, CloserSteps, Zenon

\* The handler of an upgraded connection never sends on a closed receiveCh
\* (server.go ServeHTTP, Close), for any number of connections and wherever
\* Close finds them.
THEOREM HandlersDoNotPanic == Spec => []NoSendOnClosed
<1>1. CloseFacts => NoSendOnClosed
  BY DEF CloseFacts, ConnFacts, NoSendOnClosed
<1> QED
  BY <1>1, CloseFactsInit, CloseFactsStep, PTL DEF Spec
-----------------------------------------------------------------------------
(* What the service sees of a connection.                                  *)

Before == {"new", "failed", "upgraded", "added", "opening", "panicked"}
Opened == {"reading", "text", "binary", "leaving"}
Past == {"removing", "unwinding", "done"}

MsgTypes == {"open", "text", "binary", "close"}
Messages == [conn : Conns, type : MsgTypes]

\* A message of c was read or waits to be.
Waiting(c) == \E i \in 1..Len(receiveCh) : receiveCh[i].conn = c
Spoke(c) == seen[c] # <<>> \/ Waiting(c)

\* The last of them is a close.
SaidClose(c) ==
  \/ seen[c] # <<>> /\ seen[c][Len(seen[c])] = "close"
  \/ \E i \in 1..Len(receiveCh) : receiveCh[i].conn = c /\ receiveCh[i].type = "close"

\* What was read of c: an open first, if it was upgraded; a close last.
SeenFacts(c) ==
  /\ \A i \in 1..Len(seen[c]) : seen[c][i] = "open" <=> c \in upgraded /\ i = 1
  /\ \A i \in 1..Len(seen[c]) :
       seen[c][i] = "close" => i = Len(seen[c]) /\ handler[c] \in Past /\ ~Waiting(c)

\* What waits to be read of c goes on from there.
QueueFacts(c) ==
  \A i \in 1..Len(receiveCh) : receiveCh[i].conn = c =>
    /\ receiveCh[i].type = "open" <=>
         c \in upgraded /\ seen[c] = <<>> /\ \A k \in 1..(i - 1) : receiveCh[k].conn # c
    /\ receiveCh[i].type = "close" =>
         handler[c] \in Past /\ \A k \in (i + 1)..Len(receiveCh) : receiveCh[k].conn # c
    /\ c \in upgraded \/ receiveCh[i].type = "close"

\* How far the handler is says what it has sent.
StageFacts(c) ==
  /\ handler[c] \in {"upgraded", "added", "removing", "unwinding"} \cup Sending => c \in upgraded
  /\ handler[c] \in Before => ~Spoke(c)
  /\ handler[c] \in Opened => Spoke(c)
  /\ handler[c] \in Past /\ Spoke(c) => SaidClose(c)

Stream(c) == seen[c] \in Seq(MsgTypes) /\ SeenFacts(c) /\ QueueFacts(c) /\ StageFacts(c)

StreamInv ==
  /\ receiveCh \in Seq(Messages)
  /\ seen \in [Conns -> Seq(MsgTypes)]
  /\ \A c \in Conns : Stream(c)

LEMMA StreamInit == Init => StreamInv
<1> SUFFICES ASSUME Init PROVE StreamInv
  OBVIOUS
<1>1. receiveCh = <<>> /\ seen = [c \in Conns |-> <<>>] /\ handler = [c \in Conns |-> "new"]
  BY DEF Init
<1>2. receiveCh \in Seq(Messages) /\ seen \in [Conns -> Seq(MsgTypes)] /\ Len(receiveCh) = 0
  BY <1>1, SMTT(20)
<1>3. ASSUME NEW c \in Conns PROVE Stream(c)
  <2>1. seen[c] = <<>> /\ Len(seen[c]) = 0 /\ handler[c] = "new" /\ ~Waiting(c)
    BY <1>1, <1>2, SMTT(20) DEF Waiting
  <2>2. SeenFacts(c) /\ QueueFacts(c)
    BY <1>2, <2>1, SMTT(20) DEF SeenFacts, QueueFacts
  <2>3. StageFacts(c)
    BY <2>1 DEF StageFacts, Sending, Opened, Past, Spoke
  <2> QED BY <1>2, <2>2, <2>3 DEF Stream
<1> QED BY <1>2, <1>3 DEF StreamInv

\* A step that does not concern d.
LEMMA StreamKept ==
  ASSUME NEW d, Stream(d), UNCHANGED <<receiveCh, seen>>,
         handler'[d] = handler[d], d \in upgraded' <=> d \in upgraded
  PROVE  Stream(d)'
<1>1. (Waiting(d)' <=> Waiting(d)) /\ (SaidClose(d)' <=> SaidClose(d))
  BY DEF Waiting, SaidClose
<1>2. (Spoke(d)' <=> Spoke(d))
  BY <1>1 DEF Spoke
<1>3. SeenFacts(d)'
  BY <1>1 DEF Stream, SeenFacts
<1>4. QueueFacts(d)'
  BY DEF Stream, QueueFacts
<1>5. StageFacts(d)'
  BY <1>1, <1>2 DEF Stream, StageFacts
<1> QED BY <1>3, <1>4, <1>5 DEF Stream

\* The handler of c moves on without a send: it has sent nothing yet, or stays
\* between its open and its close, or after its close.
LEMMA StreamMoves ==
  ASSUME StreamInv, UNCHANGED <<receiveCh, seen>>, NEW c \in Conns,
         \A d \in Conns \ {c} : handler'[d] = handler[d] /\ (d \in upgraded' <=> d \in upgraded),
         \/ /\ ~Spoke(c) /\ handler'[c] \notin Opened
            /\ handler'[c] \in {"upgraded", "added", "opening", "removing", "unwinding"} => c \in upgraded'
         \/ c \in upgraded /\ c \in upgraded' /\ handler[c] \in Opened /\ handler'[c] \in Opened
         \/ c \in upgraded /\ c \in upgraded' /\ handler[c] \in Past /\ handler'[c] \in Past
  PROVE  StreamInv'
<1>1. ASSUME NEW d \in Conns \ {c} PROVE Stream(d)'
  BY StreamKept DEF StreamInv
<1>2. Stream(c) /\ seen[c] \in Seq(MsgTypes) /\ receiveCh \in Seq(Messages)
  BY DEF StreamInv
<1>3. (Waiting(c)' <=> Waiting(c)) /\ (SaidClose(c)' <=> SaidClose(c)) /\ (Spoke(c)' <=> Spoke(c))
  BY DEF Waiting, SaidClose, Spoke
<1>4. CASE ~Spoke(c) /\ handler'[c] \notin Opened
           /\ (handler'[c] \in {"upgraded", "added", "opening", "removing", "unwinding"} => c \in upgraded')
  <2>1. seen[c] = <<>> /\ Len(seen[c]) = 0 /\ \A i \in 1..Len(receiveCh) : receiveCh[i].conn # c
    BY <1>4, SMTT(20) DEF Spoke, Waiting
  <2>2. SeenFacts(c)' /\ QueueFacts(c)'
    BY <2>1, SMTT(20) DEF SeenFacts, QueueFacts
  <2>3. StageFacts(c)'
    BY <1>3, <1>4, Zenon DEF StageFacts, Sending, Opened, Before, Past
  <2> QED BY <1>1, <1>2, <2>2, <2>3 DEF StreamInv, Stream
<1>5. CASE c \in upgraded /\ c \in upgraded' /\ handler[c] \in Opened /\ handler'[c] \in Opened
  <2>1. handler[c] \notin Past /\ handler'[c] \notin Before \cup Past
    BY <1>5 DEF Opened, Past, Before
  <2>2. SeenFacts(c)'
    BY <1>2, <1>5, <2>1 DEF Stream, SeenFacts
  <2>3. QueueFacts(c)'
    BY <1>2, <1>5, <2>1 DEF Stream, QueueFacts
  <2>4. StageFacts(c)'
    BY <1>2, <1>3, <1>5, <2>1 DEF Stream, StageFacts
  <2> QED BY <1>1, <1>2, <2>2, <2>3, <2>4 DEF StreamInv, Stream
<1>6. CASE c \in upgraded /\ c \in upgraded' /\ handler[c] \in Past /\ handler'[c] \in Past
  <2>1. handler'[c] \notin Before \cup Opened
    BY <1>6 DEF Opened, Past, Before
  <2>2. SeenFacts(c)'
    BY <1>2, <1>3, <1>6 DEF Stream, SeenFacts
  <2>3. QueueFacts(c)'
    BY <1>2, <1>6 DEF Stream, QueueFacts
  <2>4. StageFacts(c)'
    BY <1>2, <1>3, <1>6, <2>1 DEF Stream, StageFacts
  <2> QED BY <1>1, <1>2, <2>2, <2>3, <2>4 DEF StreamInv, Stream
<1> QED BY <1>4, <1>5, <1>6

\* What a send does to the queue.
LEMMA QueueGrows ==
  ASSUME NEW S, NEW q \in Seq(S), NEW m \in S, NEW r, r = Append(q, m)
  PROVE  /\ r \in Seq(S) /\ Len(q) \in Nat /\ Len(r) = Len(q) + 1 /\ r[Len(r)] = m
         /\ \A i \in 1..Len(q) : r[i] = q[i]
BY SMTT(20)

\* What a receive does to it.
LEMMA QueueShrinks ==
  ASSUME NEW S, NEW q \in Seq(S), q # <<>>, NEW r, r = Tail(q)
  PROVE  /\ r \in Seq(S) /\ Len(q) \in Nat /\ Len(q) = Len(r) + 1 /\ Head(q) = q[1]
         /\ q[1] \in S
         /\ \A i \in 1..Len(r) : r[i] = q[i + 1]
BY SMTT(20)

\* A handler sends: its open when it has sent nothing, data and a close after it,
\* or the close of a connection that failed.
LEMMA StreamGrows ==
  ASSUME StreamInv, NEW c \in Conns, NEW type \in MsgTypes,
         receiveCh' = Append(receiveCh, Msg(c, type)), UNCHANGED <<seen, upgraded>>,
         \A d \in Conns \ {c} : handler'[d] = handler[d],
         \/ c \in upgraded /\ ~Spoke(c) /\ type = "open" /\ handler'[c] \in Opened
         \/ /\ c \in upgraded /\ handler[c] \in Opened /\ type \in {"text", "binary"}
            /\ handler'[c] \in Opened
         \/ c \in upgraded /\ handler[c] \in Opened /\ type = "close" /\ handler'[c] \in Past
         \/ c \notin upgraded /\ ~Spoke(c) /\ type = "close" /\ handler'[c] = "done"
  PROVE  StreamInv'
<1> DEFINE n == Len(receiveCh)
<1>1. Msg(c, type) \in Messages /\ Msg(c, type).conn = c /\ Msg(c, type).type = type
  BY SMTT(20) DEF Msg, Messages
<1>2. /\ receiveCh' \in Seq(Messages) /\ n \in Nat /\ Len(receiveCh') = n + 1
      /\ receiveCh'[n + 1].conn = c /\ receiveCh'[n + 1].type = type
      /\ \A i \in 1..n : receiveCh'[i] = receiveCh[i]
  BY <1>1, QueueGrows DEF StreamInv
<1>3. ASSUME NEW d \in Conns \ {c} PROVE Stream(d)'
  <2>1. Stream(d) /\ handler'[d] = handler[d]
    BY DEF StreamInv
  <2>2. (Waiting(d)' <=> Waiting(d)) /\ (SaidClose(d)' <=> SaidClose(d))
    BY <1>2, SMTT(20) DEF Waiting, SaidClose
  <2>3. Spoke(d)' <=> Spoke(d)
    BY <2>2 DEF Spoke
  <2>4. SeenFacts(d)'
    BY <2>1, <2>2 DEF Stream, SeenFacts
  <2>5. QueueFacts(d)'
    BY <1>2, <2>1, SMTT(20) DEF Stream, QueueFacts
  <2>6. StageFacts(d)'
    BY <2>1, <2>2, <2>3 DEF Stream, StageFacts
  <2> QED BY <2>1, <2>4, <2>5, <2>6 DEF Stream
<1>4. Stream(c) /\ seen'[c] = seen[c] /\ seen[c] \in Seq(MsgTypes)
  BY DEF StreamInv
<1>5. Waiting(c)' /\ Spoke(c)'
  BY <1>2, SMTT(20) DEF Waiting, Spoke
<1>6. ~Spoke(c) \/ handler[c] \in Opened
  OBVIOUS
<1>7. \A i \in 1..Len(seen[c]) : seen[c][i] # "close"
  BY <1>4, <1>6, SMTT(20) DEF Stream, SeenFacts, Spoke, Opened, Past
<1>8. \A i \in 1..n : receiveCh[i].conn = c => receiveCh[i].type # "close"
  BY <1>4, <1>6 DEF Stream, QueueFacts, Spoke, Waiting, Opened, Past
<1>9. SeenFacts(c)'
  BY <1>4, <1>7 DEF Stream, SeenFacts
<1>10. QueueFacts(c)'
  <2> SUFFICES ASSUME NEW i \in 1..(n + 1), receiveCh'[i].conn = c
               PROVE  /\ receiveCh'[i].type = "open" <=>
                           c \in upgraded /\ seen[c] = <<>> /\ \A k \in 1..(i - 1) : receiveCh'[k].conn # c
                      /\ receiveCh'[i].type = "close" =>
                           handler'[c] \in Past /\ \A k \in (i + 1)..(n + 1) : receiveCh'[k].conn # c
                      /\ c \in upgraded \/ receiveCh'[i].type = "close"
    BY <1>2, Zenon DEF QueueFacts
  <2>1. CASE i \in 1..n
    <3>1. handler[c] \in Opened
      BY <1>2, <1>6, <2>1 DEF Spoke, Waiting
    <3>2. receiveCh'[i] = receiveCh[i] /\ \A k \in 1..(i - 1) : receiveCh'[k] = receiveCh[k]
      BY <1>2, <2>1, SMTT(20)
    <3> QED BY <1>2, <1>4, <1>8, <2>1, <3>2 DEF Stream, QueueFacts
  <2>2. CASE i = n + 1
    <3>1. /\ receiveCh'[i].type = type /\ \A k \in (i + 1)..(n + 1) : FALSE
          /\ \A k \in 1..(i - 1) : receiveCh'[k] = receiveCh[k]
          /\ i - 1 = n
      BY <1>2, <2>2, SMTT(20)
    <3>2. (\A k \in 1..(i - 1) : receiveCh'[k].conn # c) <=> ~Waiting(c)
      BY <3>1 DEF Waiting
    <3>3. handler[c] \in Opened => Spoke(c)
      BY <1>4 DEF Stream, StageFacts
    <3>4. type = "open" <=> c \in upgraded /\ ~Spoke(c)
      BY <3>3
    <3>5. (type = "close" => handler'[c] \in Past) /\ (c \in upgraded \/ type = "close")
      BY DEF Past
    <3> QED BY <3>1, <3>2, <3>4, <3>5, Zenon DEF Spoke
  <2> QED BY <1>2, <2>1, <2>2, SMTT(20)
<1>11. StageFacts(c)'
  <2>1. handler'[c] \in Opened => c \in upgraded
    BY DEF Opened
  <2>2. handler'[c] \in Past => type = "close"
    BY DEF Opened, Past
  <2>3. type = "close" => SaidClose(c)'
    BY <1>2, SMTT(20) DEF SaidClose
  <2>4. handler'[c] \in Opened \cup Past /\ (handler'[c] # "done" => c \in upgraded)
    BY DEF Past
  <2> QED BY <1>5, <2>1, <2>2, <2>3, <2>4 DEF StageFacts, Opened, Past, Before, Sending
<1> QED BY <1>2, <1>3, <1>4, <1>9, <1>10, <1>11 DEF StreamInv, Stream

\* The loop of the service takes a message.
LEMMA StreamTaken ==
  ASSUME StreamInv, UNCHANGED <<handler, upgraded>>, NEW m, take(m)
  PROVE  StreamInv'
<1> DEFINE n == Len(receiveCh')
           c == m.conn
<1>1. /\ receiveCh \in Seq(Messages) /\ receiveCh # <<>> /\ receiveCh' = Tail(receiveCh)
      /\ m = Head(receiveCh) /\ seen' = [seen EXCEPT ![c] = Append(@, m.type)]
  BY DEF StreamInv, take
<1>2. /\ receiveCh' \in Seq(Messages) /\ Len(receiveCh) \in Nat /\ Len(receiveCh) = n + 1
      /\ m = receiveCh[1] /\ m \in Messages
      /\ \A i \in 1..n : receiveCh'[i] = receiveCh[i + 1]
  BY <1>1, QueueShrinks
<1>3. c \in Conns /\ m.type \in MsgTypes /\ n \in Nat
  BY <1>2, SMTT(20) DEF Messages
<1>4. Stream(c) /\ seen[c] \in Seq(MsgTypes) /\ seen \in [Conns -> Seq(MsgTypes)]
  BY <1>3 DEF StreamInv
<1>5. /\ seen'[c] \in Seq(MsgTypes) /\ Len(seen[c]) \in Nat /\ Len(seen'[c]) = Len(seen[c]) + 1
      /\ seen'[c][Len(seen[c]) + 1] = m.type /\ seen'[c] # <<>>
      /\ \A i \in 1..Len(seen[c]) : seen'[c][i] = seen[c][i]
  <2>1. seen'[c] = Append(seen[c], m.type)
    BY <1>1, <1>3, <1>4
  <2>2. seen'[c] \in Seq(MsgTypes) /\ Len(seen[c]) \in Nat /\ Len(seen'[c]) = Len(seen[c]) + 1
        /\ seen'[c][Len(seen'[c])] = m.type
        /\ \A i \in 1..Len(seen[c]) : seen'[c][i] = seen[c][i]
    BY <1>3, <1>4, <2>1, QueueGrows
  <2>3. seen'[c] # <<>>
    BY <2>2, SMTT(20)
  <2> QED BY <2>2, <2>3
<1>6. seen' \in [Conns -> Seq(MsgTypes)] /\ \A d \in Conns \ {c} : seen'[d] = seen[d]
  BY <1>1, <1>3, <1>4, <1>5
<1>7. ASSUME NEW d \in Conns \ {c} PROVE Stream(d)'
  <2>1. Stream(d) /\ seen'[d] = seen[d]
    BY <1>6 DEF StreamInv
  <2>2. (Waiting(d)' <=> Waiting(d)) /\ (SaidClose(d)' <=> SaidClose(d))
    <3>1. ASSUME NEW i \in 1..Len(receiveCh), receiveCh[i].conn = d
          PROVE  \E k \in 1..n : receiveCh'[k] = receiveCh[i]
      <4>1. i - 1 \in 1..n /\ receiveCh'[i - 1] = receiveCh[i]
        BY <1>2, <1>3, <3>1, SMTT(20)
      <4> QED BY <4>1
    <3>2. ASSUME NEW k \in 1..n PROVE \E i \in 1..Len(receiveCh) : receiveCh[i] = receiveCh'[k]
      <4>1. k + 1 \in 1..Len(receiveCh) /\ receiveCh'[k] = receiveCh[k + 1]
        BY <1>2, <1>3, SMTT(20)
      <4> QED BY <4>1
    <3>3. Waiting(d)' <=> Waiting(d)
      BY <3>1, <3>2 DEF Waiting
    <3>4. SaidClose(d)' <=> SaidClose(d)
      <4>1. (\E k \in 1..n : receiveCh'[k].conn = d /\ receiveCh'[k].type = "close")
              <=> \E i \in 1..Len(receiveCh) : receiveCh[i].conn = d /\ receiveCh[i].type = "close"
        BY <3>1, <3>2
      <4> QED BY <2>1, <4>1 DEF SaidClose
    <3> QED BY <3>3, <3>4
  <2>3. Spoke(d)' <=> Spoke(d)
    BY <2>1, <2>2 DEF Spoke
  <2>4. SeenFacts(d)'
    BY <2>1, <2>2 DEF Stream, SeenFacts
  <2>5. QueueFacts(d)'
    <3> SUFFICES ASSUME NEW i \in 1..n, receiveCh'[i].conn = d
                 PROVE  /\ receiveCh'[i].type = "open" <=>
                             d \in upgraded /\ seen[d] = <<>> /\ \A k \in 1..(i - 1) : receiveCh'[k].conn # d
                        /\ receiveCh'[i].type = "close" =>
                             handler[d] \in Past /\ \A k \in (i + 1)..n : receiveCh'[k].conn # d
                        /\ d \in upgraded \/ receiveCh'[i].type = "close"
      BY <2>1, Zenon DEF QueueFacts
    <3>1. i + 1 \in 1..Len(receiveCh) /\ receiveCh'[i] = receiveCh[i + 1]
      BY <1>2, <1>3, SMTT(20)
    <3>2. /\ receiveCh[i + 1].type = "open" <=>
               d \in upgraded /\ seen[d] = <<>> /\ \A k \in 1..((i + 1) - 1) : receiveCh[k].conn # d
          /\ receiveCh[i + 1].type = "close" =>
               handler[d] \in Past /\ \A k \in ((i + 1) + 1)..Len(receiveCh) : receiveCh[k].conn # d
          /\ d \in upgraded \/ receiveCh[i + 1].type = "close"
      BY <2>1, <3>1 DEF Stream, QueueFacts
    <3>3. (\A k \in 1..((i + 1) - 1) : receiveCh[k].conn # d)
            <=> \A k \in 1..(i - 1) : receiveCh'[k].conn # d
      <4>1. ASSUME NEW k \in 1..(i - 1)
            PROVE  k + 1 \in 1..((i + 1) - 1) /\ receiveCh'[k] = receiveCh[k + 1]
        <5>1. k + 1 \in 1..((i + 1) - 1) /\ k \in 1..n
          BY <1>3, SMTT(20)
        <5> QED BY <1>2, <5>1
      <4>2. ASSUME NEW k \in 1..((i + 1) - 1), receiveCh[k].conn = d
            PROVE  k - 1 \in 1..(i - 1) /\ receiveCh'[k - 1] = receiveCh[k]
        <5>1. k # 1
          BY <1>2, <4>2
        <5>2. k - 1 \in 1..(i - 1) /\ k - 1 \in 1..n /\ (k - 1) + 1 = k
          BY <1>3, <5>1, SMTT(20)
        <5> QED BY <1>2, <5>2
      <4> QED BY <4>1, <4>2
    <3>4. (\A k \in ((i + 1) + 1)..Len(receiveCh) : receiveCh[k].conn # d)
            => \A k \in (i + 1)..n : receiveCh'[k].conn # d
      <4>1. ASSUME NEW k \in (i + 1)..n
            PROVE  k + 1 \in ((i + 1) + 1)..Len(receiveCh) /\ receiveCh'[k] = receiveCh[k + 1]
        BY <1>2, <1>3, SMTT(20)
      <4> QED BY <4>1
    <3> QED BY <3>1, <3>2, <3>3, <3>4
  <2>6. StageFacts(d)'
    BY <2>1, <2>2, <2>3 DEF Stream, StageFacts
  <2> QED BY <2>1, <2>4, <2>5, <2>6 DEF Stream
<1>8. Waiting(c)
  BY <1>2, <1>3, SMTT(20) DEF Waiting
<1>9. (m.type = "open" <=> c \in upgraded /\ seen[c] = <<>>)
      /\ (m.type = "close" => handler[c] \in Past /\ ~Waiting(c)')
  <2>1. 1 \in 1..Len(receiveCh) /\ (\A k \in 1..(1 - 1) : receiveCh[k].conn # c)
    BY <1>2, <1>3, SMTT(20)
  <2>2. m.type = "open" <=> c \in upgraded /\ seen[c] = <<>>
    BY <1>2, <1>4, <2>1 DEF Stream, QueueFacts
  <2>3. m.type = "close" => handler[c] \in Past /\ \A k \in 2..(n + 1) : receiveCh[k].conn # c
    BY <1>2, <1>4, <2>1, SMTT(20) DEF Stream, QueueFacts
  <2>4. (\A k \in 2..(n + 1) : receiveCh[k].conn # c) => ~Waiting(c)'
    BY <1>2, <1>3, SMTT(20) DEF Waiting
  <2> QED BY <2>2, <2>3, <2>4
<1>10. SeenFacts(c)'
  <2>1. \A i \in 1..Len(seen[c]) : seen[c][i] # "close"
    BY <1>4, <1>8 DEF Stream, SeenFacts
  <2>2. ASSUME NEW i \in 1..(Len(seen[c]) + 1) PROVE seen'[c][i] = "open" <=> c \in upgraded /\ i = 1
    <3>1. CASE i \in 1..Len(seen[c])
      BY <1>4, <1>5, <3>1 DEF Stream, SeenFacts
    <3>2. CASE i = Len(seen[c]) + 1
      <4>1. seen[c] = <<>> <=> i = 1
        BY <1>4, <3>2, SMTT(20)
      <4> QED BY <1>5, <1>9, <3>2, <4>1
    <3> QED BY <1>5, <3>1, <3>2, SMTT(20)
  <2>3. ASSUME NEW i \in 1..(Len(seen[c]) + 1), seen'[c][i] = "close"
        PROVE  i = Len(seen[c]) + 1 /\ handler[c] \in Past /\ ~Waiting(c)'
    <3>1. i = Len(seen[c]) + 1
      BY <1>5, <2>1, <2>3, SMTT(20)
    <3> QED BY <1>5, <1>9, <2>3, <3>1
  <2> QED BY <1>5, <2>2, <2>3 DEF SeenFacts
<1>11. QueueFacts(c)'
  <2> SUFFICES ASSUME NEW i \in 1..n, receiveCh'[i].conn = c
               PROVE  /\ receiveCh'[i].type # "open"
                      /\ receiveCh'[i].type = "close" =>
                           handler[c] \in Past /\ \A k \in (i + 1)..n : receiveCh'[k].conn # c
                      /\ c \in upgraded \/ receiveCh'[i].type = "close"
    BY <1>5, Zenon DEF QueueFacts
  <2>1. i + 1 \in 1..Len(receiveCh) /\ receiveCh'[i] = receiveCh[i + 1]
        /\ 1 \in 1..((i + 1) - 1) /\ receiveCh[1].conn = c
    BY <1>2, <1>3, SMTT(20)
  <2>2. /\ receiveCh[i + 1].type # "open"
        /\ c \in upgraded \/ receiveCh[i + 1].type = "close"
        /\ receiveCh[i + 1].type = "close" =>
             handler[c] \in Past /\ \A k \in ((i + 1) + 1)..Len(receiveCh) : receiveCh[k].conn # c
    BY <1>4, <2>1 DEF Stream, QueueFacts
  <2>3. (\A k \in ((i + 1) + 1)..Len(receiveCh) : receiveCh[k].conn # c)
          => \A k \in (i + 1)..n : receiveCh'[k].conn # c
    <3>1. ASSUME NEW k \in (i + 1)..n
          PROVE  k + 1 \in ((i + 1) + 1)..Len(receiveCh) /\ receiveCh'[k] = receiveCh[k + 1]
      BY <1>2, <1>3, SMTT(20)
    <3> QED BY <3>1
  <2> QED BY <2>1, <2>2, <2>3
<1>12. StageFacts(c)'
  <2>1. Spoke(c) /\ Spoke(c)'
    BY <1>5, <1>8 DEF Spoke
  <2>2. SaidClose(c) => SaidClose(c)'
    <3>1. ~(seen[c] # <<>> /\ seen[c][Len(seen[c])] = "close")
      BY <1>4, <1>5, <1>8, SMTT(20) DEF Stream, SeenFacts
    <3>2. ASSUME NEW i \in 1..Len(receiveCh), receiveCh[i].conn = c, receiveCh[i].type = "close"
          PROVE  SaidClose(c)'
      <4>1. CASE i = 1
        BY <1>2, <1>5, <3>2, <4>1 DEF SaidClose
      <4>2. CASE i # 1
        <5>1. i - 1 \in 1..n /\ receiveCh'[i - 1] = receiveCh[i]
          BY <1>2, <1>3, <4>2, SMTT(20)
        <5> QED BY <3>2, <5>1 DEF SaidClose
      <4> QED BY <4>1, <4>2
    <3> QED BY <3>1, <3>2 DEF SaidClose
  <2> QED BY <1>4, <2>1, <2>2 DEF Stream, StageFacts
<1> QED BY <1>2, <1>5, <1>6, <1>7, <1>10, <1>11, <1>12 DEF StreamInv, Stream

\* Every step keeps what the service sees in order.
LEMMA StreamStep == CloseFacts /\ StreamInv /\ [Next]_vars => StreamInv'
<1> SUFFICES ASSUME CloseFacts, StreamInv, [Next]_vars PROVE StreamInv'
  OBVIOUS
<1> USE DEF handling, ending, service
<1>1. handler \in [Conns -> Stages]
  BY DEF CloseFacts
<1>2. ASSUME NEW c \in Conns, NEW s, Goto(c, s)
      PROVE  handler'[c] = s /\ \A d \in Conns \ {c} : handler'[d] = handler[d]
  BY <1>1, <1>2 DEF Goto
<1>3. ASSUME NEW c \in Conns
      PROVE  /\ handler[c] \in Before => ~Spoke(c)
             /\ handler[c] \in {"upgraded", "added", "removing", "unwinding"} \cup Sending => c \in upgraded
             /\ handler[c] \in {"new", "failed"} => c \notin upgraded
             /\ handler[c] \in Sending => ~chClosed
  BY DEF StreamInv, Stream, StageFacts, CloseFacts, ConnFacts, Waited, Sending
<1>4. CASE UNCHANGED <<handler, upgraded, receiveCh, seen>>
  BY <1>4, StreamKept DEF StreamInv
<1>5. ASSUME NEW c \in Conns,
             \/ AuthFails(c) \/ UpgradeFails(c) \/ addConn(c) \/ CheckClosed(c) \/ Unwind(c)
             \/ ReadMessage(c) \/ ReadFails(c) \/ removeConn(c)
      PROVE  StreamInv'
  <2>1. PICK s : Goto(c, s) /\ UNCHANGED <<receiveCh, seen, upgraded>>
               /\ \/ handler[c] = "new" /\ s \in {"done", "failed"}
                  \/ handler[c] = "upgraded" /\ s = "added"
                  \/ handler[c] = "added" /\ s \in {"unwinding", "opening"}
                  \/ handler[c] = "reading" /\ s \in Opened
                  \/ handler[c] \in {"removing", "unwinding"} /\ s \in Past
    BY <1>5, Zenon DEF AuthFails, UpgradeFails, Serving, addConn, CheckClosed, isClosed, Unwind,
                ReadMessage, ReadFails, removeConn, Opened, Past
  <2>2. handler'[c] = s /\ \A d \in Conns \ {c} : handler'[d] = handler[d]
    BY <1>2, <2>1
  <2>3. CASE handler[c] \in {"new", "upgraded", "added"} /\ s \notin Opened
             /\ (s \in {"upgraded", "added", "opening", "removing", "unwinding"} => c \in upgraded)
    <3>1. ~Spoke(c)
      BY <1>3, <2>3 DEF Before
    <3> QED BY <2>1, <2>2, <2>3, <3>1, StreamMoves
  <2>4. CASE handler[c] = "reading" /\ s \in Opened
    <3>1. c \in upgraded /\ handler[c] \in Opened
      BY <1>3, <2>4 DEF Sending, Opened
    <3> QED BY <2>1, <2>2, <2>4, <3>1, StreamMoves
  <2>5. CASE handler[c] \in {"removing", "unwinding"} /\ s \in Past
    <3>1. c \in upgraded /\ handler[c] \in Past
      BY <1>3, <2>5 DEF Past
    <3> QED BY <2>1, <2>2, <2>5, <3>1, StreamMoves
  <2>6. handler[c] \in {"upgraded", "added"} => c \in upgraded
    BY <1>3
  <2> QED BY <2>1, <2>3, <2>4, <2>5, <2>6 DEF Opened
<1>6. ASSUME NEW c \in Conns, Upgrade(c) PROVE StreamInv'
  <2>1. handler[c] = "new" /\ Goto(c, "upgraded") /\ upgraded' = upgraded \cup {c}
        /\ UNCHANGED <<receiveCh, seen>>
    BY <1>6 DEF Upgrade, Serving
  <2>2. handler'[c] = "upgraded" /\ \A d \in Conns \ {c} : handler'[d] = handler[d]
    BY <1>2, <2>1
  <2>3. ~Spoke(c)
    BY <1>3, <2>1 DEF Before
  <2> QED BY <2>1, <2>2, <2>3, StreamMoves DEF Opened
<1>7. ASSUME NEW c \in Conns, FailedClose(c) \/ sendOpenMsg(c) \/ Forward(c) \/ sendCloseMsg(c)
      PROVE  StreamInv'
  <2>1. PICK type \in MsgTypes, s \in {"done", "reading", "removing"} :
           /\ receive(c, type, s) /\ UNCHANGED <<seen, upgraded>>
           /\ \/ handler[c] = "failed" /\ type = "close" /\ s = "done"
              \/ handler[c] = "opening" /\ type = "open" /\ s = "reading"
              \/ handler[c] \in {"text", "binary"} /\ type = handler[c] /\ s = "reading"
              \/ handler[c] = "leaving" /\ type = "close" /\ s = "removing"
    BY <1>7, Zenon DEF FailedClose, sendOpenMsg, Forward, sendCloseMsg, MsgTypes
  <2>2. CASE receiveCh' = Append(receiveCh, Msg(c, type)) /\ Goto(c, s)
    <3>1. handler'[c] = s /\ \A d \in Conns \ {c} : handler'[d] = handler[d]
      BY <1>2, <2>2
    <3>2. CASE handler[c] = "failed"
      <4>1. c \notin upgraded /\ ~Spoke(c)
        BY <1>3, <3>2 DEF Before
      <4> QED BY <2>1, <2>2, <3>1, <3>2, <4>1, StreamGrows
    <3>3. CASE handler[c] = "opening"
      <4>1. c \in upgraded /\ ~Spoke(c) /\ s \in Opened
        BY <1>3, <2>1, <3>3 DEF Before, Sending, Opened
      <4> QED BY <2>1, <2>2, <3>1, <3>3, <4>1, StreamGrows
    <3>4. CASE handler[c] \in {"text", "binary"}
      <4>1. c \in upgraded /\ handler[c] \in Opened /\ s \in Opened
        BY <1>3, <2>1, <3>4 DEF Sending, Opened
      <4> QED BY <2>1, <2>2, <3>1, <3>4, <4>1, StreamGrows
    <3>5. CASE handler[c] = "leaving"
      <4>1. c \in upgraded /\ handler[c] \in Opened /\ s \in Past
        BY <1>3, <2>1, <3>5 DEF Sending, Opened, Past
      <4> QED BY <2>1, <2>2, <3>1, <3>5, <4>1, StreamGrows
    <3> QED BY <2>1, <3>2, <3>3, <3>4, <3>5
  <2>3. CASE chClosed /\ Goto(c, "panicked") /\ UNCHANGED receiveCh
    <3>1. handler[c] = "failed"
      BY <1>3, <2>1, <2>3 DEF Sending
    <3>2. handler'[c] = "panicked" /\ \A d \in Conns \ {c} : handler'[d] = handler[d]
      BY <1>2, <2>3
    <3>3. ~Spoke(c)
      BY <1>3, <3>1 DEF Before
    <3> QED BY <2>1, <2>3, <3>2, <3>3, StreamMoves DEF Opened
  <2> QED BY <2>1, <2>2, <2>3 DEF receive
<1>8. CASE Loop
  BY <1>8, StreamTaken, Zenon DEF Loop, HandleOpen, HandleBinary, HandleText, HandleClose
<1>9. \/ Loop
      \/ \E c \in Conns :
           \/ AuthFails(c) \/ UpgradeFails(c) \/ addConn(c) \/ CheckClosed(c) \/ Unwind(c)
           \/ ReadMessage(c) \/ ReadFails(c) \/ removeConn(c)
      \/ \E c \in Conns : Upgrade(c)
      \/ \E c \in Conns : FailedClose(c) \/ sendOpenMsg(c) \/ Forward(c) \/ sendCloseMsg(c)
      \/ UNCHANGED <<handler, upgraded, receiveCh, seen>>
  BY Zenon DEF Next, Handler, Closing, Close, getConns, CloseConn, AwaitConn, CloseChannels,
         StopAPI, connWriter, PeerGone, handleRTCMsg, vars
<1> QED BY <1>4, <1>5, <1>6, <1>7, <1>8, <1>9

\* What holds of the connections whatever happens: the two invariants together.
LEMMA StreamInvariant == Spec => [](CloseFacts /\ StreamInv)
<1>1. CloseFacts /\ StreamInv /\ [Next]_vars => (CloseFacts /\ StreamInv)'
  BY CloseFactsStep, StreamStep
<1> QED BY <1>1, CloseFactsInit, StreamInit, PTL DEF Spec

\* The loop of the service sees an open before anything else of an upgraded
\* connection and nothing after its close, however the handlers interleave
\* on receiveCh (server.go ServeHTTP, service.go handleClientMsg).
THEOREM ServiceSeesInOrder == Spec => []SeenInOrder
<1>1. StreamInv => SeenInOrder
  BY DEF StreamInv, Stream, SeenFacts, SeenInOrder
<1> QED BY <1>1, StreamInvariant, PTL

\* When the channels are closed and receiveCh is read to its end, every
\* connection the service saw it saw closed.
LEMMA ReadToTheEnd ==
  ASSUME CloseFacts, StreamInv, chClosed, receiveCh = <<>>, NEW c \in Conns, seen[c] # <<>>
  PROVE  seen[c][Len(seen[c])] = "close"
<1>1. Spoke(c) /\ handler[c] \in Stages /\ Stream(c) /\ ConnFacts(c)
  BY DEF CloseFacts, StreamInv, Spoke
<1>2. handler[c] \notin Sending
  BY <1>1 DEF CloseFacts, ConnFacts, Waited
<1>3. handler[c] \in Past
  BY <1>1, <1>2 DEF Stream, StageFacts, Stages, Before, Past, Sending
<1>4. SaidClose(c)
  BY <1>1, <1>3 DEF Stream, StageFacts
<1>5. \A i \in 1..Len(receiveCh) : FALSE
  BY SMTT(20)
<1> QED BY <1>4, <1>5 DEF SaidClose

-----------------------------------------------------------------------------
(* The hello.                                                              *)

\* The node and the socket are there and the connection is in conns.
Live(c) == c \in conns \cap sockets \cap peers

HelloAt(c, i) == sendCh[i].conn = c /\ sendCh[i].type = "hello"

\* Something was written to c, nothing ever will be, or the hello comes before
\* the k-th message of sendCh.
Hailed(c, k) == wire[c] # <<>> \/ ~Live(c) \/ \E i \in 1..(k - 1) : HelloAt(c, i)

\* What sendCh and the wire hold of a connection whose hello was not dropped.
HelloFacts(c) ==
  /\ c \in upgraded /\ seen[c] # <<>> => Hailed(c, Len(sendCh) + 1)
  /\ wire[c] # <<>> => Head(wire[c]) = "hello"
  /\ \A k \in 1..Len(sendCh) :
       sendCh[k].conn = c /\ sendCh[k].type = "binary" => c \in joined /\ Hailed(c, k)

WireTypes == {"hello", "binary"}
Sent == [conn : Conns, type : WireTypes]

HelloInv ==
  /\ sendCh \in Seq(Sent)
  /\ wire \in [Conns -> Seq(WireTypes)]
  /\ joined \subseteq Conns
  /\ \A c \in joined : c \in upgraded /\ seen[c] # <<>>
  /\ \A c \in Conns \ unhailed : HelloFacts(c)

LEMMA HelloInit == Init => HelloInv
<1> SUFFICES ASSUME Init PROVE HelloInv
  OBVIOUS
<1>1. sendCh = <<>> /\ wire = [c \in Conns |-> <<>>] /\ joined = {} /\ seen = [c \in Conns |-> <<>>]
  BY DEF Init
<1>2. sendCh \in Seq(Sent) /\ wire \in [Conns -> Seq(WireTypes)] /\ Len(sendCh) = 0
  BY <1>1, SMTT(20)
<1>3. ASSUME NEW c \in Conns PROVE HelloFacts(c)
  <2>1. wire[c] = <<>> /\ seen[c] = <<>> /\ \A k \in 1..Len(sendCh) : FALSE
    BY <1>1, <1>2, SMTT(20)
  <2> QED BY <2>1 DEF HelloFacts
<1> QED BY <1>1, <1>2, <1>3 DEF HelloInv

\* A connection that is not live stays so once something of it was read: only
\* before that do Upgrade and addConn put it where it counts.
LEMMA DeadStays ==
  ASSUME StreamInv, CloseFacts, [Next]_vars, NEW c \in Conns, seen[c] # <<>>, Live(c)'
  PROVE  Live(c)
<1>1. handler[c] \notin Before
  BY DEF StreamInv, Stream, StageFacts, Spoke
<1>2. c \in conns' => c \in conns
  BY <1>1, Zenon DEF Before, Next, Handler, Loop, HandleOpen, HandleBinary, HandleText, HandleClose, connWriter,
       Close, Closing, getConns, CloseConn, AwaitConn, CloseChannels, StopAPI, AuthFails,
       UpgradeFails, Upgrade, FailedClose, addConn, CheckClosed, sendOpenMsg, Forward, sendCloseMsg,
       removeConn, Unwind, ReadMessage, ReadFails, PeerGone, handleRTCMsg, vars, handling
<1>3. c \in sockets' => c \in sockets
  <2>1. \/ \E d \in Conns : handler[d] = "new" /\ sockets' = sockets \cup {d}
        \/ \E d \in Conns : sockets' = sockets \ {d}
        \/ sockets' = sockets
    BY Zenon DEF Serving, Next, Handler, Loop, HandleOpen, HandleBinary, HandleText, HandleClose, connWriter,
         Close, Closing, getConns, CloseConn, AwaitConn, CloseChannels, StopAPI, AuthFails,
         UpgradeFails, Upgrade, FailedClose, addConn, CheckClosed, sendOpenMsg, Forward, sendCloseMsg,
         removeConn, Unwind, ReadMessage, ReadFails, PeerGone, handleRTCMsg, vars, handling
  <2> QED BY <1>1, <2>1 DEF Before
<1>4. c \in peers' => c \in peers
  BY Zenon DEF Next, Handler, Loop, HandleOpen, HandleBinary, HandleText, HandleClose, connWriter,
       Close, Closing, getConns, CloseConn, AwaitConn, CloseChannels, StopAPI, AuthFails,
       UpgradeFails, Upgrade, FailedClose, addConn, CheckClosed, sendOpenMsg, Forward, sendCloseMsg,
       removeConn, Unwind, ReadMessage, ReadFails, PeerGone, handleRTCMsg, vars
<1> QED BY <1>2, <1>3, <1>4 DEF Live

\* A step that leaves sendCh and the wire alone, and takes no first message of a
\* connection that is to get a hello.
LEMMA HelloKept ==
  ASSUME HelloInv, StreamInv, CloseFacts, [Next]_vars, UNCHANGED <<sendCh, wire>>,
         unhailed \subseteq unhailed', upgraded \subseteq upgraded', joined \subseteq joined',
         \A c \in upgraded' \ upgraded : handler[c] = "new",
         \A c \in joined' \ joined : c \in Conns /\ c \in upgraded /\ seen[c] # <<>>,
         \A c \in Conns : seen[c] # <<>> => seen'[c] # <<>>,
         \A c \in Conns \ unhailed' : c \in upgraded' /\ seen'[c] # <<>> => seen[c] # <<>>
  PROVE  HelloInv'
<1>1. joined' \subseteq Conns /\ \A c \in joined' : c \in upgraded' /\ seen'[c] # <<>>
  BY DEF HelloInv
<1>2. ASSUME NEW c \in Conns \ unhailed' PROVE HelloFacts(c)'
  <2>1. HelloFacts(c)
    BY DEF HelloInv
  <2>2. ASSUME seen[c] # <<>> PROVE c \in upgraded' => c \in upgraded
    BY <2>2 DEF StreamInv, Stream, StageFacts, Spoke, Before
  <2>3. ASSUME seen[c] # <<>>, NEW k, Hailed(c, k) PROVE Hailed(c, k)'
    BY <2>3, DeadStays DEF Hailed, HelloAt
  <2>4. c \in joined => seen[c] # <<>>
    BY DEF HelloInv
  <2>5. c \in upgraded' /\ seen'[c] # <<>> => Hailed(c, Len(sendCh) + 1)'
    BY <2>1, <2>2, <2>3 DEF HelloFacts
  <2>6. \A k \in 1..Len(sendCh) :
          sendCh[k].conn = c /\ sendCh[k].type = "binary" => c \in joined' /\ Hailed(c, k)'
    BY <2>1, <2>3, <2>4 DEF HelloFacts
  <2> QED BY <2>1, <2>5, <2>6 DEF HelloFacts
<1> QED BY <1>1, <1>2 DEF HelloInv

\* A message goes to sendCh: a hello for c, or what a session says to a
\* connection of joined.
LEMMA HelloGrows ==
  ASSUME HelloInv, StreamInv, CloseFacts, [Next]_vars, UNCHANGED <<wire, upgraded>>,
         NEW e \in Conns, NEW type \in WireTypes,
         sendCh' = Append(sendCh, Msg(e, type)), unhailed \subseteq unhailed',
         joined' = joined, \A d \in Conns \ {e} : seen'[d] = seen[d],
         type = "binary" => e \in joined /\ seen' = seen,
         seen'[e] # <<>>, e \in upgraded
  PROVE  HelloInv'
<1>0. PICK n \in Nat : n = Len(sendCh)
  <2>1. Len(sendCh) \in Nat
    BY LenProperties DEF HelloInv
  <2> QED BY <2>1
<1>1. Msg(e, type) \in Sent /\ Msg(e, type).conn = e /\ Msg(e, type).type = type
  BY SMTT(20) DEF Msg, Sent
<1>2. /\ sendCh' \in Seq(Sent) /\ n \in Nat /\ Len(sendCh') = n + 1
      /\ sendCh'[n + 1].conn = e /\ sendCh'[n + 1].type = type
      /\ \A i \in 1..n : sendCh'[i] = sendCh[i]
  BY <1>0, <1>1, QueueGrows DEF HelloInv
<1>3. \A c \in joined' : c \in upgraded' /\ seen'[c] # <<>>
  BY DEF HelloInv
<1>4. ASSUME NEW c \in Conns \ unhailed' PROVE HelloFacts(c)'
  <2>1. HelloFacts(c) /\ (c \in joined => seen[c] # <<>> /\ c \in upgraded)
    BY DEF HelloInv
  <2>2. ASSUME seen[c] # <<>>, NEW k \in 1..(n + 1), Hailed(c, k)
        PROVE  Hailed(c, k)' /\ (k = n + 1 => Hailed(c, n + 2)')
    <3>1. ~Live(c) => ~Live(c)'
      BY <2>2, DeadStays
    <3>2. ASSUME NEW i \in 1..(k - 1), HelloAt(c, i)
          PROVE  i \in 1..((n + 2) - 1) /\ HelloAt(c, i)'
      <4>1. i \in 1..n /\ i \in 1..((n + 2) - 1)
        BY <1>2, SMTT(20)
      <4> QED BY <1>2, <3>2, <4>1 DEF HelloAt
    <3> QED BY <2>2, <3>1, <3>2 DEF Hailed
  <2>3. /\ n + 1 \in 1..(n + 1) /\ (n + 1) + 1 = n + 2 /\ n + 1 \in 1..((n + 2) - 1)
        /\ \A k \in 1..(n + 1) : k \in 1..n \/ k = n + 1
        /\ 1..n \subseteq 1..(n + 1)
    BY <1>2, SMTT(20)
  <2>4. c \in upgraded' /\ seen'[c] # <<>> => Hailed(c, n + 2)'
    <3>1. CASE c = e /\ type = "hello"
      BY <1>2, <2>3, <3>1 DEF Hailed, HelloAt
    <3>2. CASE ~(c = e /\ type = "hello")
      <4>1. seen'[c] = seen[c]
        BY <3>2 DEF WireTypes
      <4>2. c \in upgraded /\ seen[c] # <<>> => Hailed(c, n + 1)
        BY <1>0, <2>1 DEF HelloFacts
      <4> QED BY <2>2, <2>3, <4>1, <4>2
    <3> QED BY <3>1, <3>2
  <2>5. ASSUME NEW k \in 1..(n + 1), sendCh'[k].conn = c, sendCh'[k].type = "binary"
        PROVE  c \in joined /\ Hailed(c, k)'
    <3>1. CASE k \in 1..n
      BY <1>0, <1>2, <2>1, <2>2, <2>3, <2>5, <3>1 DEF HelloFacts
    <3>2. CASE k = n + 1
      <4>1. c = e /\ type = "binary" /\ c \in joined
        BY <1>2, <2>5, <3>2
      <4>2. Hailed(c, n + 1)
        BY <1>0, <2>1, <4>1 DEF HelloFacts
      <4> QED BY <2>1, <2>2, <2>3, <3>2, <4>1, <4>2
    <3> QED BY <2>3, <3>1, <3>2
  <2>6. wire'[c] # <<>> => Head(wire'[c]) = "hello"
    BY <2>1 DEF HelloFacts
  <2>7. Len(sendCh') + 1 = n + 2 /\ Len(sendCh') = n + 1
    BY <1>2, SMTT(20)
  <2>8. Hailed(c, Len(sendCh) + 1)' <=> Hailed(c, n + 2)'
    BY <2>7 DEF Hailed, HelloAt
  <2> QED BY <2>4, <2>5, <2>6, <2>7, <2>8 DEF HelloFacts
<1> QED BY <1>2, <1>3, <1>4 DEF HelloInv

\* A sequence keeps its head when something is appended.
LEMMA HeadKept ==
  ASSUME NEW S, NEW q \in Seq(S), NEW e \in S
  PROVE  /\ Append(q, e) \in Seq(S) /\ Append(q, e) # <<>>
         /\ Head(Append(q, e)) = IF q = <<>> THEN e ELSE Head(q)
BY AppendProperties, HeadTailAppend, ZenonT(20)

\* connWriter takes a message: the hello is written, or the connection is dead
\* and stays so.
LEMMA HelloWritten ==
  ASSUME HelloInv, connWriter
  PROVE  HelloInv'
<1> PICK m : m = Head(sendCh)
  OBVIOUS
<1>1. /\ sendCh \in Seq(Sent) /\ sendCh # <<>> /\ sendCh' = Tail(sendCh)
      /\ wire' = IF Live(m.conn) THEN [wire EXCEPT ![m.conn] = Append(@, m.type)] ELSE wire
      /\ UNCHANGED <<conns, sockets, peers, upgraded, seen, joined, unhailed>>
      /\ wire \in [Conns -> Seq(WireTypes)]
  BY DEF HelloInv, connWriter, Live, handling, service
<1>0. PICK n \in Nat : n = Len(sendCh')
  <2>1. Tail(sendCh) \in Seq(Sent)
    BY <1>1, HeadTailProperties
  <2> QED BY <1>1, <2>1, LenProperties
<1>2. /\ sendCh' \in Seq(Sent) /\ Len(sendCh) \in Nat /\ Len(sendCh) = n + 1
      /\ m = sendCh[1] /\ m \in Sent
      /\ \A i \in 1..n : sendCh'[i] = sendCh[i + 1]
  BY <1>0, <1>1, QueueShrinks
<1>3. m.conn \in Conns /\ m.type \in WireTypes /\ n \in Nat
  BY <1>2, SMTT(20) DEF Sent
<1>4. wire[m.conn] \in Seq(WireTypes)
  BY <1>1, <1>3
<1>5. Append(wire[m.conn], m.type) \in Seq(WireTypes) /\ Append(wire[m.conn], m.type) # <<>>
      /\ Head(Append(wire[m.conn], m.type)) = IF wire[m.conn] = <<>> THEN m.type ELSE Head(wire[m.conn])
  BY <1>3, <1>4, HeadKept
<1>6. wire' \in [Conns -> Seq(WireTypes)]
  BY <1>1, <1>3, <1>5
<1>7. /\ \A c \in Conns : c # m.conn \/ ~Live(c) => wire'[c] = wire[c]
      /\ Live(m.conn) => wire'[m.conn] = Append(wire[m.conn], m.type)
  BY <1>1, <1>3
<1>8. \A c \in Conns : Live(c)' <=> Live(c)
  BY <1>1 DEF Live
<1>9. ASSUME NEW c \in Conns \ unhailed' PROVE HelloFacts(c)'
  <2>1. HelloFacts(c)
    BY <1>1 DEF HelloInv
  <2>2. ASSUME NEW k \in 1..(n + 1), Hailed(c, k + 1)
        PROVE  Hailed(c, k)'
    <3>1. CASE wire[c] # <<>>
      BY <1>5, <1>7, <3>1 DEF Hailed
    <3>2. CASE ~Live(c)
      BY <1>8, <3>2 DEF Hailed
    <3>3. ASSUME Live(c), NEW i \in 1..((k + 1) - 1), HelloAt(c, i) PROVE Hailed(c, k)'
      <4>1. CASE i = 1
        <5>1. c = m.conn
          BY <1>2, <3>3, <4>1 DEF HelloAt
        <5> QED BY <1>5, <1>7, <3>3, <5>1 DEF Hailed
      <4>2. CASE i # 1
        <5>1. i - 1 \in 1..(k - 1) /\ i - 1 \in 1..n /\ (i - 1) + 1 = i
          BY <1>3, <4>2, SMTT(20)
        <5>2. HelloAt(c, i - 1)'
          BY <1>2, <3>3, <5>1 DEF HelloAt
        <5> QED BY <5>1, <5>2 DEF Hailed
      <4> QED BY <4>1, <4>2
    <3> QED BY <2>2, <3>1, <3>2, <3>3 DEF Hailed
  <2>3. n + 1 \in 1..(n + 1) /\ Len(sendCh) + 1 = (n + 1) + 1 /\ 1 \in 1..Len(sendCh)
        /\ \A k \in 1..n : k \in 1..(n + 1) /\ k + 1 \in 1..Len(sendCh)
    BY <1>2, <1>3, SMTT(20)
  <2>4. c \in upgraded /\ seen[c] # <<>> => Hailed(c, Len(sendCh) + 1)'
    <3>1. c \in upgraded /\ seen[c] # <<>> => Hailed(c, (n + 1) + 1)
      BY <2>1, <2>3 DEF HelloFacts
    <3>2. Hailed(c, Len(sendCh) + 1)' <=> Hailed(c, n + 1)'
      BY <1>0 DEF Hailed, HelloAt
    <3> QED BY <2>2, <2>3, <3>1, <3>2
  <2>5. ASSUME NEW k \in 1..n, sendCh'[k].conn = c, sendCh'[k].type = "binary"
        PROVE  c \in joined /\ Hailed(c, k)'
    BY <1>2, <2>1, <2>2, <2>3, <2>5 DEF HelloFacts
  <2>6. wire'[c] # <<>> => Head(wire'[c]) = "hello"
    <3>1. CASE c # m.conn \/ ~Live(c)
      BY <1>7, <2>1, <3>1 DEF HelloFacts
    <3>2. CASE c = m.conn /\ Live(c) /\ wire[c] # <<>>
      BY <1>5, <1>7, <2>1, <3>2 DEF HelloFacts
    <3>3. CASE c = m.conn /\ Live(c) /\ wire[c] = <<>>
      <4>1. m.type # "binary"
        <5>1. ~Hailed(c, 1)
          <6>1. \A i \in 1..(1 - 1) : FALSE
            BY SMTT(20)
          <6> QED BY <3>3, <6>1 DEF Hailed
        <5> QED BY <1>2, <2>1, <2>3, <3>3, <5>1 DEF HelloFacts
      <4> QED BY <1>3, <1>5, <1>7, <3>3, <4>1 DEF WireTypes
    <3> QED BY <3>1, <3>2, <3>3
  <2> QED BY <1>0, <1>1, <2>4, <2>5, <2>6 DEF HelloFacts
<1> QED BY <1>1, <1>2, <1>6, <1>9 DEF HelloInv

\* What the loop of the service takes: the first message of an upgraded
\* connection is its open, and the later ones are not.
LEMMA TakenFacts ==
  ASSUME StreamInv, NEW m, take(m)
  PROVE  /\ m.conn \in Conns
         /\ m.type = "open" <=> m.conn \in upgraded /\ seen[m.conn] = <<>>
         /\ m.conn \in upgraded \/ m.type = "close"
         /\ \A d \in Conns : (d = m.conn \/ seen[d] # <<>>) <=> seen'[d] # <<>>
         /\ \A d \in Conns \ {m.conn} : seen'[d] = seen[d]
<1>1. /\ receiveCh \in Seq(Messages) /\ receiveCh # <<>> /\ m = Head(receiveCh)
      /\ seen' = [seen EXCEPT ![m.conn] = Append(@, m.type)]
      /\ seen \in [Conns -> Seq(MsgTypes)]
  BY DEF StreamInv, take
<1>2. m = receiveCh[1] /\ m \in Messages /\ 1 \in 1..Len(receiveCh) /\ \A k \in 1..(1 - 1) : FALSE
  BY <1>1, SMTT(20)
<1>3. m.conn \in Conns /\ m.type \in MsgTypes
  BY <1>2, SMTT(20) DEF Messages
<1>4. QueueFacts(m.conn)
  BY <1>3 DEF StreamInv, Stream
<1>5. (m.type = "open" <=> m.conn \in upgraded /\ seen[m.conn] = <<>>)
      /\ (m.conn \in upgraded \/ m.type = "close")
  BY <1>2, <1>4 DEF QueueFacts
<1>6. seen'[m.conn] = Append(seen[m.conn], m.type) /\ \A d \in Conns \ {m.conn} : seen'[d] = seen[d]
  BY <1>1, <1>3
<1>7. seen[m.conn] \in Seq(MsgTypes)
  BY <1>1, <1>3
<1>8. seen'[m.conn] # <<>>
  BY <1>3, <1>6, <1>7, SMTT(20)
<1> QED BY <1>3, <1>5, <1>6, <1>8

\* Every step keeps the hello before what the sessions say.
LEMMA HelloStep == CloseFacts /\ StreamInv /\ HelloInv /\ [Next]_vars => HelloInv'
<1> SUFFICES ASSUME CloseFacts, StreamInv, HelloInv, [Next]_vars PROVE HelloInv'
  OBVIOUS
<1> USE DEF handling, ending, service
<1>1. CASE connWriter
  BY <1>1, HelloWritten
<1>2. CASE HandleOpen
  <2>1. PICK c \in Conns :
          /\ take(Msg(c, "open")) /\ sendCh' = Send(Msg(c, "hello"))
          /\ unhailed' = IF Send(Msg(c, "hello")) = sendCh THEN unhailed \cup {c} ELSE unhailed
          /\ UNCHANGED <<wire, joined, upgraded, handler>>
    BY <1>2 DEF HandleOpen
  <2>2. Msg(c, "open").conn = c /\ Msg(c, "open").type = "open"
    BY DEF Msg
  <2>3. /\ c \in upgraded /\ seen[c] = <<>>
        /\ \A d \in Conns : (d = c \/ seen[d] # <<>>) <=> seen'[d] # <<>>
        /\ \A d \in Conns \ {c} : seen'[d] = seen[d]
    BY <2>1, <2>2, TakenFacts
  <2>4. CASE Send(Msg(c, "hello")) = sendCh
    <3>1. sendCh' = sendCh /\ unhailed' = unhailed \cup {c}
      BY <2>1, <2>4
    <3> QED BY <2>1, <2>3, <3>1, HelloKept
  <2>5. CASE Send(Msg(c, "hello")) # sendCh
    <3>1. sendCh' = Append(sendCh, Msg(c, "hello")) /\ unhailed' = unhailed
      BY <2>1, <2>5 DEF Send
    <3>2. seen'[c] # <<>>
      BY <2>3
    <3> QED BY <2>1, <2>3, <3>1, <3>2, HelloGrows DEF WireTypes
  <2> QED BY <2>4, <2>5
<1>3. CASE HandleBinary
  <2>1. PICK c \in Conns :
          take(Msg(c, "binary")) /\ joined' = joined \cup {c}
          /\ UNCHANGED <<sendCh, wire, unhailed, upgraded>>
    BY <1>3 DEF HandleBinary
  <2>2. Msg(c, "binary").conn = c /\ Msg(c, "binary").type = "binary"
    BY DEF Msg
  <2>3. /\ c \in upgraded /\ seen[c] # <<>>
        /\ \A d \in Conns : (d = c \/ seen[d] # <<>>) <=> seen'[d] # <<>>
    BY <2>1, <2>2, TakenFacts
  <2> QED BY <2>1, <2>3, HelloKept
<1>4. CASE HandleText \/ HandleClose
  <2>1. PICK c \in Conns, type \in {"text", "close"} :
          take(Msg(c, type)) /\ UNCHANGED <<sendCh, wire, unhailed, upgraded, joined>>
    BY <1>4 DEF HandleText, HandleClose
  <2>2. Msg(c, type).conn = c /\ Msg(c, type).type = type
    BY DEF Msg
  <2>3. /\ c \in upgraded => seen[c] # <<>>
        /\ \A d \in Conns : (d = c \/ seen[d] # <<>>) <=> seen'[d] # <<>>
    BY <2>1, <2>2, TakenFacts
  <2> QED BY <2>1, <2>3, HelloKept
<1>5. ASSUME NEW c \in Conns, handleRTCMsg(c) PROVE HelloInv'
  <2>1. c \in joined /\ sendCh' = Send(Msg(c, "binary"))
        /\ UNCHANGED <<wire, unhailed, upgraded, joined, seen>>
    BY <1>5 DEF handleRTCMsg
  <2>2. c \in upgraded /\ seen[c] # <<>>
    BY <2>1 DEF HelloInv
  <2>3. CASE sendCh' = sendCh
    BY <2>1, <2>3, HelloKept
  <2>4. CASE sendCh' = Append(sendCh, Msg(c, "binary"))
    BY <2>1, <2>2, <2>4, HelloGrows DEF WireTypes
  <2> QED BY <2>1, <2>3, <2>4 DEF Send
<1>6. ASSUME UNCHANGED <<sendCh, wire, unhailed, joined, seen>>,
             \/ UNCHANGED upgraded
             \/ \E c \in Conns : handler[c] = "new" /\ upgraded' = upgraded \cup {c}
      PROVE  HelloInv'
  BY <1>6, HelloKept
<1>7. \/ connWriter \/ HandleOpen \/ HandleBinary \/ HandleText \/ HandleClose
      \/ \E c \in Conns : handleRTCMsg(c)
      \/ /\ UNCHANGED <<sendCh, wire, unhailed, joined, seen>>
         /\ \/ UNCHANGED upgraded
            \/ \E c \in Conns : handler[c] = "new" /\ upgraded' = upgraded \cup {c}
  BY Zenon DEF Next, Handler, Loop, Serving, Close, Closing, getConns, CloseConn, AwaitConn,
       CloseChannels, StopAPI, AuthFails, UpgradeFails, Upgrade, FailedClose, addConn, CheckClosed,
       sendOpenMsg, Forward, sendCloseMsg, removeConn, Unwind, ReadMessage, ReadFails, PeerGone, vars
<1> QED BY <1>1, <1>2, <1>3, <1>4, <1>5, <1>6, <1>7

\* A node reads the hello before anything else on a connection, unless sendCh
\* was full or the server closed when the hello was due (service.go
\* handleClientMsg, server.go Send, connWriter).
THEOREM HelloComesFirst == Spec => []HelloFirst
<1>1. HelloInv => HelloFirst
  BY DEF HelloInv, HelloFacts, HelloFirst
<1>2. (CloseFacts /\ StreamInv) /\ HelloInv /\ [Next]_vars => HelloInv'
  BY HelloStep
<1> QED BY <1>1, <1>2, StreamInvariant, HelloInit, PTL DEF Spec

-----------------------------------------------------------------------------
(* The gauge of connections.                                               *)

\* The last message taken of c is a close.
Last(c) == seen[c] # <<>> /\ seen[c][Len(seen[c])] = "close"

\* Connections whose open, and those whose close, the service has taken.
OpensTaken == {c \in Conns : c \in upgraded /\ seen[c] # <<>>}
ClosesTaken == {c \in Conns : Last(c)}

GaugeInv == gauge = Cardinality(OpensTaken) - Cardinality(ClosesTaken)

LEMMA SetsFinite ==
  /\ IsFiniteSet(OpensTaken) /\ Cardinality(OpensTaken) \in Nat
  /\ IsFiniteSet(ClosesTaken) /\ Cardinality(ClosesTaken) \in Nat
<1>1. OpensTaken \in SUBSET Conns /\ ClosesTaken \in SUBSET Conns
  BY DEF OpensTaken, ClosesTaken
<1>2. IsFiniteSet(OpensTaken) /\ IsFiniteSet(ClosesTaken)
  BY <1>1, FS_Subset, WSServerAssumption
<1> QED BY <1>2, FS_CardinalityType

\* What one message does to the two sets.
LEMMA TakenCounts ==
  ASSUME StreamInv, NEW m, take(m), UNCHANGED upgraded
  PROVE  /\ m.type = "open" => /\ OpensTaken' = OpensTaken \cup {m.conn} /\ m.conn \notin OpensTaken
                               /\ ClosesTaken' = ClosesTaken
         /\ m.type = "close" => /\ OpensTaken' = OpensTaken /\ m.conn \notin ClosesTaken
                                /\ ClosesTaken' = ClosesTaken \cup {m.conn}
         /\ m.type \notin {"open", "close"} => OpensTaken' = OpensTaken /\ ClosesTaken' = ClosesTaken
<1> DEFINE c == m.conn
<1>1. /\ c \in Conns
      /\ m.type = "open" <=> c \in upgraded /\ seen[c] = <<>>
      /\ c \in upgraded \/ m.type = "close"
      /\ \A d \in Conns : (d = c \/ seen[d] # <<>>) <=> seen'[d] # <<>>
      /\ \A d \in Conns \ {c} : seen'[d] = seen[d]
  BY TakenFacts
<1>2. seen[c] \in Seq(MsgTypes) /\ seen'[c] = Append(seen[c], m.type)
  BY <1>1 DEF StreamInv, take
<1>3. seen'[c] # <<>> /\ seen'[c][Len(seen'[c])] = m.type
  BY <1>2, SMTT(20)
<1>4. ~Last(c)
  <2>1. Waiting(c)
    <3>1. receiveCh \in Seq(Messages) /\ receiveCh # <<>> /\ m = Head(receiveCh)
      BY DEF StreamInv, take
    <3>2. 1 \in 1..Len(receiveCh) /\ m = receiveCh[1]
      BY <3>1, SMTT(20)
    <3> QED BY <3>2 DEF Waiting
  <2>2. SeenFacts(c)
    BY <1>1 DEF StreamInv, Stream
  <2>3. seen[c] # <<>> => Len(seen[c]) \in 1..Len(seen[c])
    BY <1>2, SMTT(20)
  <2> QED BY <2>1, <2>2, <2>3 DEF Last, SeenFacts
<1>5. \A d \in Conns \ {c} : Last(d)' <=> Last(d)
  BY <1>1 DEF Last
<1>6. Last(c)' <=> m.type = "close"
  BY <1>3 DEF Last
<1>7. OpensTaken' = IF m.type = "open" THEN OpensTaken \cup {c} ELSE OpensTaken
  BY <1>1 DEF OpensTaken
<1>8. ClosesTaken' = IF m.type = "close" THEN ClosesTaken \cup {c} ELSE ClosesTaken
  BY <1>1, <1>4, <1>5, <1>6 DEF ClosesTaken
<1> QED BY <1>1, <1>4, <1>7, <1>8 DEF OpensTaken, ClosesTaken

\* Every step keeps the count.
LEMMA GaugeStep == CloseFacts /\ StreamInv /\ GaugeInv /\ [Next]_vars => GaugeInv'
<1> SUFFICES ASSUME CloseFacts, StreamInv, GaugeInv, [Next]_vars PROVE GaugeInv'
  OBVIOUS
<1> USE DEF handling, ending, service
<1>1. CASE HandleOpen
  <2>1. PICK c \in Conns : take(Msg(c, "open")) /\ gauge' = gauge + 1 /\ UNCHANGED upgraded
    BY <1>1 DEF HandleOpen
  <2>2. Msg(c, "open").conn = c /\ Msg(c, "open").type = "open"
    BY DEF Msg
  <2>3. OpensTaken' = OpensTaken \cup {c} /\ c \notin OpensTaken /\ ClosesTaken' = ClosesTaken
    BY <2>1, <2>2, TakenCounts
  <2>4. Cardinality(OpensTaken') = Cardinality(OpensTaken) + 1
    BY <2>3, SetsFinite, FS_AddElement
  <2> QED BY <2>1, <2>3, <2>4, SetsFinite DEF GaugeInv
<1>2. CASE HandleClose
  <2>1. PICK c \in Conns : take(Msg(c, "close")) /\ gauge' = gauge - 1 /\ UNCHANGED upgraded
    BY <1>2 DEF HandleClose
  <2>2. Msg(c, "close").conn = c /\ Msg(c, "close").type = "close"
    BY DEF Msg
  <2>3. OpensTaken' = OpensTaken /\ c \notin ClosesTaken /\ ClosesTaken' = ClosesTaken \cup {c}
    BY <2>1, <2>2, TakenCounts
  <2>4. Cardinality(ClosesTaken') = Cardinality(ClosesTaken) + 1
    BY <2>3, SetsFinite, FS_AddElement
  <2> QED BY <2>1, <2>3, <2>4, SetsFinite DEF GaugeInv
<1>3. CASE HandleBinary \/ HandleText
  <2>1. PICK c \in Conns, type \in {"binary", "text"} :
          take(Msg(c, type)) /\ UNCHANGED <<gauge, upgraded>>
    BY <1>3 DEF HandleBinary, HandleText
  <2>2. Msg(c, type).type \notin {"open", "close"}
    BY DEF Msg
  <2> QED BY <2>1, <2>2, TakenCounts DEF GaugeInv
<1>4. ASSUME NEW c \in Conns, handler[c] = "new", upgraded' = upgraded \cup {c}, UNCHANGED <<gauge, seen>>
      PROVE  GaugeInv'
  <2>1. seen[c] = <<>>
    BY <1>4 DEF StreamInv, Stream, StageFacts, Spoke, Before
  <2>2. OpensTaken' = OpensTaken /\ ClosesTaken' = ClosesTaken
    BY <1>4, <2>1 DEF OpensTaken, ClosesTaken, Last
  <2> QED BY <1>4, <2>2 DEF GaugeInv
<1>5. CASE UNCHANGED <<gauge, seen, upgraded>>
  BY <1>5 DEF GaugeInv, OpensTaken, ClosesTaken, Last
<1>6. \/ HandleOpen \/ HandleBinary \/ HandleText \/ HandleClose
      \/ UNCHANGED <<gauge, seen, upgraded>>
      \/ \E c \in Conns : handler[c] = "new" /\ upgraded' = upgraded \cup {c} /\ UNCHANGED <<gauge, seen>>
  BY Zenon DEF Next, Handler, Loop, Serving, Close, Closing, getConns, CloseConn, AwaitConn,
       CloseChannels, StopAPI, AuthFails, UpgradeFails, Upgrade, FailedClose, addConn, CheckClosed,
       sendOpenMsg, Forward, sendCloseMsg, removeConn, Unwind, ReadMessage, ReadFails, PeerGone,
       connWriter, handleRTCMsg, vars
<1> QED BY <1>1, <1>2, <1>3, <1>4, <1>5, <1>6

\* Close loses no close message: when the channels are closed and receiveCh is
\* read to its end, every connection the service saw it saw closed, and the
\* gauge is off by the failed upgrades only (server.go Close, ServeHTTP;
\* service.go Start).
THEOREM CloseLeavesNothingOpen == Spec => []NothingLeftOpen
<1>1. Init => GaugeInv
  <2> SUFFICES ASSUME Init PROVE GaugeInv
    OBVIOUS
  <2>1. OpensTaken = {} /\ ClosesTaken = {} /\ gauge = 0
    BY DEF Init, OpensTaken, ClosesTaken, Last
  <2> QED BY <2>1, FS_EmptySet DEF GaugeInv
<1>2. CloseFacts /\ StreamInv /\ GaugeInv => NothingLeftOpen
  <2> SUFFICES ASSUME CloseFacts, StreamInv, GaugeInv, chClosed, receiveCh = <<>>
               PROVE  /\ \A c \in Conns : seen[c] # <<>> => seen[c][Len(seen[c])] = "close"
                      /\ gauge = 0 - Cardinality({c \in Conns \ upgraded : seen[c] # <<>>})
    BY DEF NothingLeftOpen
  <2> DEFINE failed == {c \in Conns \ upgraded : seen[c] # <<>>}
  <2>1. \A c \in Conns : seen[c] # <<>> => seen[c][Len(seen[c])] = "close"
    BY ReadToTheEnd
  <2>2. ClosesTaken = OpensTaken \cup failed /\ OpensTaken \cap failed = {}
    BY <2>1 DEF OpensTaken, ClosesTaken, Last
  <2>3. IsFiniteSet(failed) /\ Cardinality(failed) \in Nat
    <3>1. failed \in SUBSET Conns
      OBVIOUS
    <3>2. IsFiniteSet(failed)
      BY <3>1, FS_Subset, WSServerAssumption
    <3> QED BY <3>2, FS_CardinalityType
  <2>4. Cardinality(ClosesTaken) = Cardinality(OpensTaken) + Cardinality(failed)
    <3>1. Cardinality(OpensTaken \cup failed)
            = Cardinality(OpensTaken) + Cardinality(failed) - Cardinality(OpensTaken \cap failed)
      BY <2>3, SetsFinite, FS_Union
    <3>2. Cardinality(OpensTaken \cap failed) = 0
      BY <2>2, FS_EmptySet
    <3> HIDE DEF failed
    <3> QED BY <2>2, <2>3, <3>1, <3>2, SetsFinite
  <2>5. gauge = 0 - Cardinality(failed)
    <3> HIDE DEF failed
    <3> QED BY <2>3, <2>4, SetsFinite DEF GaugeInv
  <2> QED BY <2>1, <2>5
<1>3. (CloseFacts /\ StreamInv) /\ GaugeInv /\ [Next]_vars => GaugeInv'
  BY GaugeStep
<1> QED BY <1>1, <1>2, <1>3, StreamInvariant, PTL DEF Spec
=============================================================================
