------------------------ MODULE ServiceClientProofs -------------------------
(***************************************************************************)
(* Proofs about ServiceClient, for any number of connections and any       *)
(* channel sizes.                                                          *)
(*                                                                         *)
(* LinkFacts holds of every behaviour: one goroutine at most reads         *)
(* messages, and wsClient is its connection.  EndFacts holds until a user  *)
(* connects beside a reconnection: one goroutine at most is left of all    *)
(* the connections, which is why the channels are closed once.             *)
(* FlushInv counts what the writer of a link has flushed, and says that    *)
(* Close goes on only when the writer is done.                             *)
(***************************************************************************)
EXTENDS ServiceClient, TLAPS

USE ZenonT(3), SMTT(20)

Places == {"none", "reading", "waiting", "calling", "connecting", "failed", "closing", "done"}
CloseAts == {"idle", "mark", "flush", "flushed", "wait", "end", "returned"}

\* The goroutine of k is not over.
active(k) == loop[k] \notin {"none", "done"}

LinkFacts ==
  /\ loop \in [Links -> Places]
  /\ dialed \in 0..MaxLinks /\ connID \in 0..dialed /\ wsClient \in 0..dialed
  /\ closing \in [at : CloseAts, link : 0..MaxLinks]
  /\ connecting => wsClient = 0 /\ ~closed /\ dialed # 0
  /\ closing.at # "idle" => closed
  /\ wsClient # 0 => loop[wsClient] = "reading"
  /\ \A k \in Links :
       /\ loop[k] = "reading" => wsClient \in {k, 0} /\ (wsClient = 0 => closed) /\ connID <= k
       /\ loop[k] = "connecting" => connecting
       /\ loop[k] # "none" => k <= dialed
       /\ \A i \in Links : loop[i] = "reading" /\ loop[k] = "reading" => i = k

EndFacts ==
  /\ ~panicked
  /\ \A i, k \in Links : active(i) /\ active(k) => i = k
  /\ \A k \in Links : connecting /\ active(k) => loop[k] = "connecting"
  /\ \A k \in Links : closing.at # "idle" /\ active(k) => loop[k] = "reading"
  /\ \A k \in Links : loop[k] = "closing" => closed
  /\ closed => wsClient = 0
  /\ chClosed => closed /\ closing.at \in {"idle", "returned"} /\ \A k \in Links : ~active(k)

\* The steps that leave the goroutines and the closing of the client alone.
calm == UNCHANGED <<loop, dialed, connID, wsClient, closing, connecting, closed>>

LEMMA LinkFactsInit == Init => LinkFacts
BY WSClientAssumption DEF Init, LinkFacts, Places, CloseAts, Links

LEMMA LinkFactsStep == LinkFacts /\ [~panicked /\ Next]_vars => LinkFacts'
<1> SUFFICES ASSUME LinkFacts, [~panicked /\ Next]_vars PROVE LinkFacts'
  OBVIOUS
<1> USE WSClientAssumption DEF Links
<1>1. CASE calm
  BY <1>1 DEF LinkFacts, calm
<1>2. CASE UserConnects
  BY <1>2 DEF LinkFacts, UserConnects, Dial, canConnect, mutFree, Places
<1>3. CASE Connected
  BY <1>3 DEF LinkFacts, Connected, mutFree, Places
<1>4. CASE Close
  BY <1>4 DEF LinkFacts, Close, taken, mutFree, CloseAts
<1>5. CASE \E k \in Links : MsgReader(k)
  BY <1>5 DEF LinkFacts, MsgReader, mutFree
<1>6. CASE \E k \in Links : MsgReaderEnds(k)
  BY <1>6 DEF LinkFacts, MsgReaderEnds, lost, Goto, mutFree, Places
<1>7. CASE \E k \in Links : Wake(k) \/ ReconnectFails(k) \/ CallbackFails(k) \/ GiveUpCloses(k)
  BY <1>7 DEF LinkFacts, Wake, ReconnectFails, CallbackFails, GiveUpCloses, Goto, Places
<1>8. CASE \E k \in Links : Reconnect(k)
  BY <1>8 DEF LinkFacts, Reconnect, Dial, canConnect, Goto, mutFree, Places
<1>9. CASE \E k \in Links : GiveUp(k)
  BY <1>9 DEF LinkFacts, GiveUp, Goto, mutFree, Places
<1>10. CASE Closing
  BY <1>10 DEF LinkFacts, Closing, CloseReturns, CloseMarks, CloseFlush, CloseSocket, CloseWaits,
       closeStep, CloseAts
<1>11. UserSends \/ UserReceives \/ UNCHANGED client => calm
  BY Zenon DEF UserSends, UserReceives, client, calm
<1> QED
  BY <1>1, <1>2, <1>3, <1>4, <1>5, <1>6, <1>7, <1>8, <1>9, <1>10, <1>11, Zenon DEF Next, Loop, vars

LEMMA LinkFactsHold == Spec => []LinkFacts
BY LinkFactsInit, LinkFactsStep, PTL DEF Spec

\* The goroutine of a connection finds its own connection in wsClient, or none
\* because the client was closed (client.go Connect, Close): it never takes a
\* later connection for its own and lets go of it.
THEOREM LosesOwnOnly == Spec => []LostIsOwn
<1>1. LinkFacts => LostIsOwn
  BY DEF LinkFacts, LostIsOwn
<1> QED
  BY <1>1, LinkFactsHold, PTL

\* The connection ID never goes back to that of an earlier connection
\* (client.go msgReader).
THEOREM ConnIDsGoForward == Spec => ConnIDForward
<1>1. ASSUME LinkFacts, [~panicked /\ Next]_vars PROVE connID' >= connID
  <2> USE WSClientAssumption DEF Links
  <2>1. CASE \E k \in Links : MsgReader(k)
    BY <1>1, <2>1 DEF LinkFacts, MsgReader
  <2>2. (\E k \in Links : MsgReader(k)) \/ UNCHANGED connID
    BY <1>1, Zenon DEF Next, Loop, Closing, UserConnects, Connected, UserSends, UserReceives, Close,
       CloseReturns, CloseMarks, CloseFlush, CloseSocket, CloseWaits, closeStep, MsgReaderEnds,
       Wake, ReconnectFails, Reconnect, CallbackFails, GiveUp, GiveUpCloses, client, vars
  <2> QED BY <1>1, <2>1, <2>2 DEF LinkFacts
<1>2. LinkFacts /\ [~panicked /\ Next]_vars => [connID' >= connID]_vars
  BY <1>1
<1> QED
  BY <1>2, LinkFactsHold, PTL DEF Spec, ConnIDForward

-----------------------------------------------------------------------------
\* EndFacts holds until connections overlap.
EndInv == overlapped \/ EndFacts

LEMMA EndInvInit == Init => EndInv
BY DEF Init, EndInv, EndFacts, active

LEMMA EndInvStep == LinkFacts /\ EndInv /\ [~panicked /\ Next]_vars => EndInv'
<1> SUFFICES ASSUME LinkFacts, EndInv, [~panicked /\ Next]_vars, ~overlapped' PROVE EndFacts'
  BY DEF EndInv
<1> USE WSClientAssumption DEF Links
<1>0. ~overlapped /\ EndFacts
  <2>1. ~overlapped
    BY Zenon DEF Next, Loop, Closing, UserConnects, Connected, UserSends, UserReceives, Close,
       CloseReturns, CloseMarks, CloseFlush, CloseSocket, CloseWaits, closeStep, MsgReader,
       MsgReaderEnds, Wake, ReconnectFails, Reconnect, CallbackFails, GiveUp, GiveUpCloses,
       client, vars
  <2> QED BY <2>1 DEF EndInv
<1>1. CASE calm /\ UNCHANGED <<chClosed, panicked>>
  BY <1>0, <1>1 DEF EndFacts, calm, active
<1>2. CASE UserConnects
  <2>1. \A k \in Links : ~reconnecting(k)
    BY <1>2, Zenon DEF UserConnects
  <2>2. \A k \in Links : ~active(k)
    BY <1>2, <2>1 DEF UserConnects, Dial, canConnect, mutFree, LinkFacts, reconnecting, active, Places
  <2> QED BY <1>0, <1>2, <2>2 DEF EndFacts, UserConnects, Dial, canConnect, mutFree, active, LinkFacts
<1>3. CASE Connected
  BY <1>0, <1>3 DEF EndFacts, LinkFacts, Connected, mutFree, active
<1>4. CASE Close
  BY <1>0, <1>4 DEF EndFacts, LinkFacts, Close, taken, mutFree, active
<1>5. CASE \E k \in Links : MsgReader(k)
  <2>1. PICK k \in Links : MsgReader(k)
    BY <1>5
  <2>2. ~chClosed
    BY <1>0, <2>1 DEF EndFacts, MsgReader, active
  <2>3. ~panicked' /\ ~chClosed'
    BY <1>0, <2>1, <2>2, Zenon DEF EndFacts, MsgReader
  <2> QED BY <1>0, <2>1, <2>3 DEF EndFacts, MsgReader, active
<1>6. CASE \E k \in Links : MsgReaderEnds(k)
  BY <1>0, <1>6 DEF EndFacts, LinkFacts, MsgReaderEnds, lost, Goto, mutFree, active
<1>7. CASE \E k \in Links : Wake(k) \/ ReconnectFails(k) \/ CallbackFails(k)
  BY <1>0, <1>7 DEF EndFacts, LinkFacts, Wake, ReconnectFails, CallbackFails, Goto, active
<1>8. CASE \E k \in Links : Reconnect(k)
  BY <1>0, <1>8 DEF EndFacts, LinkFacts, Reconnect, Dial, canConnect, Goto, mutFree, active
<1>9. CASE \E k \in Links : GiveUp(k)
  BY <1>0, <1>9 DEF EndFacts, LinkFacts, GiveUp, Goto, mutFree, active
<1>10. CASE \E k \in Links : GiveUpCloses(k)
  <2>1. PICK k \in Links : GiveUpCloses(k)
    BY <1>10
  <2>2. ~chClosed /\ closed /\ closing.at = "idle"
    BY <1>0, <2>1 DEF EndFacts, GiveUpCloses, active, LinkFacts
  <2>3. ~panicked'
    BY <1>0, <2>1, <2>2, Zenon DEF EndFacts, GiveUpCloses, closeChannels
  <2> QED BY <1>0, <2>1, <2>2, <2>3 DEF EndFacts, LinkFacts, GiveUpCloses, closeChannels, Goto, active
<1>11. CASE CloseReturns
  <2>1. ~chClosed
    BY <1>0, <1>11 DEF EndFacts, CloseReturns
  <2>2. ~panicked'
    BY <1>0, <1>11, <2>1, Zenon DEF EndFacts, CloseReturns, closeChannels
  <2>3. \A k \in Links : ~active(k)
    BY <1>11 DEF CloseReturns, ended, waitGroup, LinkFacts, active
  <2> QED BY <1>0, <1>11, <2>2, <2>3 DEF EndFacts, LinkFacts, CloseReturns, active
<1>12. CASE \E k \in Links : CloseMarks(k) \/ CloseFlush(k) \/ CloseSocket(k) \/ CloseWaits(k)
  BY <1>0, <1>12 DEF EndFacts, LinkFacts, CloseMarks, CloseFlush, CloseSocket, CloseWaits, closeStep,
       active
<1>13. UserSends \/ UserReceives \/ UNCHANGED client => calm /\ UNCHANGED <<chClosed, panicked>>
  BY Zenon DEF UserSends, UserReceives, client, calm
<1> QED
  BY <1>1, <1>2, <1>3, <1>4, <1>5, <1>6, <1>7, <1>8, <1>9, <1>10, <1>11, <1>12, <1>13, Zenon
     DEF Next, Loop, Closing, vars

\* The client's channels are closed once and not used afterwards (client.go
\* Close, reconnectHandler, msgReader), unless the user connects while the
\* client reconnects.
THEOREM ClientNeverPanics == Spec => []NoPanic
<1>1. EndInv => NoPanic
  BY DEF EndInv, EndFacts, NoPanic
<1> QED
  BY <1>1, EndInvInit, EndInvStep, LinkFactsHold, PTL DEF Spec

-----------------------------------------------------------------------------
(* What Close leaves unsent.                                               *)

LinkType ==
  [state : {"closed", "open", "closing"},
   reader : {"none", "reading", "forwarding", "released", "done"},
   writer : {"none", "running", "flushing", "done"},
   sendCh : Nat, receiveCh : Seq({"hello", "data"}), flush : BOOLEAN, i : Nat,
   socket : BOOLEAN, peer : BOOLEAN, read : Nat, found : Nat]

\* The writer of a link whose server stays goes through the flush, during which
\* nothing new is sent: what it wrote and what is left make up what it found.
\* The socket is not closed, and so no read fails, before the writer is done.
Sound(l, over) ==
  /\ l.flush \/ l.writer = "flushing" => over
  /\ l.peer =>
       /\ l.writer = "running" => l.i = 0
       /\ l.writer = "flushing" => l.sendCh + l.i = l.found
       /\ l.writer = "done" => over /\ 2 * l.sendCh <= l.found
       /\ l.socket \/ l.writer = "done"
       /\ l.reader \in {"released", "done"} => ~l.socket

FlushInv ==
  /\ link \in [Links -> LinkType] /\ closed \in BOOLEAN
  /\ \A k \in Links : Sound(link[k], closed)
  /\ closing.at # "idle" => closing.link \in Links
  /\ closing.at \in {"wait", "end", "returned"} => link[closing.link].writer = "done"

LEMMA FlushInit == Init => FlushInv
<1> SUFFICES ASSUME Init PROVE FlushInv
  OBVIOUS
<1>1. <<>> \in Seq({"hello", "data"}) /\ 0 \in Nat
  BY SMTT(20)
<1>2. NoLink \in LinkType
  BY <1>1, Zenon DEF NoLink, LinkType
<1>3. Sound(NoLink, closed)
  BY DEF NoLink, Sound
<1>4. link = [k \in Links |-> NoLink] /\ closing = [at |-> "idle", link |-> 0] /\ closed = FALSE
  BY DEF Init
<1> HIDE DEF NoLink
<1>5. link \in [Links -> LinkType] /\ \A k \in Links : Sound(link[k], closed)
  BY <1>2, <1>3, <1>4, Zenon
<1> QED BY <1>4, <1>5 DEF FlushInv

\* A step on one link leaves the others as they are.
LEMMA FlushFrame ==
  ASSUME FlushInv, NEW k \in Links, NEW r \in LinkType, link' = [link EXCEPT ![k] = r],
         Sound(r, closed), closed' = closed,
         closing'.at # "idle" => closing'.link \in Links,
         ASSUME closing'.at \in {"wait", "end", "returned"}
         PROVE  IF closing'.link = k THEN r.writer = "done" ELSE link[closing'.link].writer = "done"
  PROVE  FlushInv'
<1>1. link' \in [Links -> LinkType] /\ link'[k] = r /\ \A j \in Links \ {k} : link'[j] = link[j]
  BY DEF FlushInv
<1>2. \A j \in Links : Sound(link[j], closed)'
  BY <1>1 DEF FlushInv, Sound
<1>3. closing'.at \in {"wait", "end", "returned"} => link'[closing'.link].writer = "done"
  BY <1>1
<1> QED BY <1>1, <1>2, <1>3 DEF FlushInv

\* The steps of the goroutines of a link, and of its server.
LEMMA GoroutinesFlush ==
  ASSUME FlushInv, NEW k \in Links, Goroutines(k) \/ ReadMessage(k) \/ PeerGone(k), UNCHANGED client
  PROVE  FlushInv'
<1> DEFINE l == link[k]
<1>0. l \in LinkType /\ Sound(l, closed) /\ link \in [Links -> LinkType] /\ closed \in BOOLEAN
      /\ closed' = closed /\ closing' = closing
      /\ (closing'.at # "idle" => closing'.link \in Links)
      /\ (closing'.at \in {"wait", "end", "returned"} => link[closing'.link].writer = "done")
  BY DEF FlushInv, client
<1>1. CASE ReadMessage(k)
  <2> DEFINE r == [l EXCEPT !.reader = "forwarding", !.read = @ + 1]
  <2>1. /\ link' = [link EXCEPT ![k] = r]
        /\ l.reader = "reading"
    BY <1>0, <1>1 DEF ReadMessage
  <2>2. r \in LinkType
    <3>1. l.read + 1 \in Nat
      BY <1>0, <2>1, SMTT(20) DEF LinkType
    <3> QED BY <1>0, <3>1, Zenon DEF LinkType
  <2>3. Sound(r, closed)
    BY <1>0, <2>1 DEF LinkType, Sound
  <2>4. l.writer = "done" => r.writer = "done"
    BY <1>0, <2>1 DEF LinkType
  <2> HIDE DEF r
  <2> QED BY <1>0, <2>1, <2>2, <2>3, <2>4, FlushFrame
<1>2. CASE Forward(k)
  <2> DEFINE r == [l EXCEPT !.reader = "reading", !.receiveCh = Append(@, IF l.read = 1 THEN "hello" ELSE "data")]
  <2>1. /\ link' = [link EXCEPT ![k] = r]
        /\ l.reader = "forwarding"
    BY <1>0, <1>2 DEF Forward
  <2>2. r \in LinkType
    <3>1. Append(l.receiveCh, IF l.read = 1 THEN "hello" ELSE "data") \in Seq({"hello", "data"})
      BY <1>0, <2>1, SMTT(20) DEF LinkType
    <3> QED BY <1>0, <3>1, Zenon DEF LinkType
  <2>3. Sound(r, closed)
    BY <1>0, <2>1 DEF LinkType, Sound
  <2>4. l.writer = "done" => r.writer = "done"
    BY <1>0, <2>1 DEF LinkType
  <2> HIDE DEF r
  <2> QED BY <1>0, <2>1, <2>2, <2>3, <2>4, FlushFrame
<1>3. CASE ReadFails(k)
  <2> DEFINE r == [l EXCEPT !.reader = "released"]
  <2>1. /\ link' = [link EXCEPT ![k] = r]
        /\ ~(l.socket /\ l.peer)
    BY <1>0, <1>3 DEF ReadFails
  <2>2. r \in LinkType
    BY <1>0, <2>1 DEF LinkType
  <2>3. Sound(r, closed)
    BY <1>0, <2>1 DEF LinkType, Sound
  <2>4. l.writer = "done" => r.writer = "done"
    BY <1>0, <2>1 DEF LinkType
  <2> HIDE DEF r
  <2> QED BY <1>0, <2>1, <2>2, <2>3, <2>4, FlushFrame
<1>4. CASE ReaderEnds(k)
  <2> DEFINE r == [l EXCEPT !.reader = "done", !.state = "closed"]
  <2>1. /\ link' = [link EXCEPT ![k] = r]
        /\ l.reader = "released"
    BY <1>0, <1>4 DEF ReaderEnds
  <2>2. r \in LinkType
    BY <1>0, <2>1 DEF LinkType
  <2>3. Sound(r, closed)
    BY <1>0, <2>1 DEF LinkType, Sound
  <2>4. l.writer = "done" => r.writer = "done"
    BY <1>0, <2>1 DEF LinkType
  <2> HIDE DEF r
  <2> QED BY <1>0, <2>1, <2>2, <2>3, <2>4, FlushFrame
<1>5. CASE WriteMessage(k)
  <2> DEFINE r == [l EXCEPT !.sendCh = @ - 1]
  <2>1. /\ link' = [link EXCEPT ![k] = r]
        /\ l.writer = "running" /\ l.sendCh > 0
    BY <1>0, <1>5 DEF WriteMessage, sendMsg
  <2>2. r \in LinkType
    <3>1. l.sendCh - 1 \in Nat
      BY <1>0, <2>1, SMTT(20) DEF LinkType
    <3> QED BY <1>0, <3>1, Zenon DEF LinkType
  <2>3. Sound(r, closed)
    BY <1>0, <2>1 DEF LinkType, Sound
  <2>4. l.writer = "done" => r.writer = "done"
    BY <1>0, <2>1 DEF LinkType
  <2> HIDE DEF r
  <2> QED BY <1>0, <2>1, <2>2, <2>3, <2>4, FlushFrame
<1>6. CASE TakeFlush(k)
  <2> DEFINE r == [l EXCEPT !.flush = FALSE, !.writer = "flushing", !.found = l.sendCh]
  <2>1. /\ link' = [link EXCEPT ![k] = r]
        /\ l.writer = "running" /\ l.flush
    BY <1>0, <1>6 DEF TakeFlush
  <2>2. r \in LinkType
    BY <1>0, <2>1 DEF LinkType
  <2>3. Sound(r, closed)
    BY <1>0, <2>1 DEF LinkType, Sound
  <2>4. l.writer = "done" => r.writer = "done"
    BY <1>0, <2>1 DEF LinkType
  <2> HIDE DEF r
  <2> QED BY <1>0, <2>1, <2>2, <2>3, <2>4, FlushFrame
<1>7. CASE FlushMessage(k)
  <2> DEFINE r == [[l EXCEPT !.sendCh = @ - 1] EXCEPT !.i = @ + 1]
  <2>1. /\ link' = [link EXCEPT ![k] = r]
        /\ l.writer = "flushing" /\ l.i < l.sendCh
    BY <1>0, <1>7 DEF FlushMessage, flushes, sendMsg
  <2>2. r \in LinkType
    <3>1. l.sendCh - 1 \in Nat /\ l.i + 1 \in Nat
      BY <1>0, <2>1, SMTT(20) DEF LinkType
    <3> QED BY <1>0, <3>1, Zenon DEF LinkType
  <2>3. Sound(r, closed)
    BY <1>0, <2>1 DEF LinkType, Sound
  <2>4. l.writer = "done" => r.writer = "done"
    BY <1>0, <2>1 DEF LinkType
  <2> HIDE DEF r
  <2> QED BY <1>0, <2>1, <2>2, <2>3, <2>4, FlushFrame
<1>8. CASE WriterEnds(k)
  <2> DEFINE r == [l EXCEPT !.writer = "done"]
  <2>1. /\ link' = [link EXCEPT ![k] = r]
        /\ \/ l.writer = "flushing" /\ ~(l.i < l.sendCh)
           \/ l.writer = "running" /\ l.reader \in {"released", "done"}
    BY <1>0, <1>8 DEF WriterEnds, flushes
  <2>2. r \in LinkType
    BY <1>0, <2>1 DEF LinkType
  <2>3. Sound(r, closed)
    BY <1>0, <2>1 DEF LinkType, Sound
  <2>4. l.writer = "done" => r.writer = "done"
    BY <1>0, <2>1 DEF LinkType
  <2> HIDE DEF r
  <2> QED BY <1>0, <2>1, <2>2, <2>3, <2>4, FlushFrame
<1>9. CASE PeerGone(k)
  <2> DEFINE r == [l EXCEPT !.peer = FALSE]
  <2>1. /\ link' = [link EXCEPT ![k] = r]
        /\ l.peer
    BY <1>0, <1>9 DEF PeerGone
  <2>2. r \in LinkType
    BY <1>0, <2>1 DEF LinkType
  <2>3. Sound(r, closed)
    BY <1>0, <2>1 DEF LinkType, Sound
  <2>4. l.writer = "done" => r.writer = "done"
    BY <1>0, <2>1 DEF LinkType
  <2> HIDE DEF r
  <2> QED BY <1>0, <2>1, <2>2, <2>3, <2>4, FlushFrame
<1> QED BY <1>1, <1>2, <1>3, <1>4, <1>5, <1>6, <1>7, <1>8, <1>9 DEF Goroutines

\* Links stay records of their kind when a field changes.
LEMMA LinkFields ==
  ASSUME NEW l \in LinkType, NEW n \in Nat, NEW q \in Seq({"hello", "data"})
  PROVE  /\ [l EXCEPT !.state = "closing"] \in LinkType
         /\ [l EXCEPT !.state = "open"] \in LinkType
         /\ [l EXCEPT !.flush = TRUE] \in LinkType
         /\ [l EXCEPT !.socket = FALSE] \in LinkType
         /\ [l EXCEPT !.sendCh = n] \in LinkType
         /\ [l EXCEPT !.receiveCh = q] \in LinkType
<1>1. [l EXCEPT !.state = "closing"] \in LinkType /\ [l EXCEPT !.state = "open"] \in LinkType
  BY DEF LinkType
<1>2. [l EXCEPT !.flush = TRUE] \in LinkType /\ [l EXCEPT !.socket = FALSE] \in LinkType
  BY DEF LinkType
<1>3. [l EXCEPT !.sendCh = n] \in LinkType
  BY DEF LinkType
<1>4. [l EXCEPT !.receiveCh = q] \in LinkType
  BY DEF LinkType
<1> QED BY <1>1, <1>2, <1>3, <1>4

\* The steps of Close on the link it took.
LEMMA ClosingFlush ==
  ASSUME FlushInv, LinkFacts, NEW k \in Links,
         CloseMarks(k) \/ CloseFlush(k) \/ CloseSocket(k) \/ CloseWaits(k)
  PROVE  FlushInv'
<1> DEFINE l == link[k]
<1>0. l \in LinkType /\ Sound(l, closed) /\ link \in [Links -> LinkType] /\ closed \in BOOLEAN
  BY DEF FlushInv
<1>1. PICK to, r :
        /\ closing.link = k /\ closing.at # "idle" /\ closing' = [closing EXCEPT !.at = to]
        /\ link' = [link EXCEPT ![k] = r] /\ closed' = closed
        /\ \/ to = "flush" /\ r = Marked(k)
           \/ to = "flushed" /\ r = Flushing(k)
           \/ to = "wait" /\ r = SocketClosed(k) /\ l.writer = "done"
           \/ to = "end" /\ r = l /\ l.writer = "done"
  BY Zenon DEF CloseMarks, CloseFlush, CloseSocket, CloseWaits, closeStep, flushDone, waitGroupDone
<1>2. closing'.at = to /\ closing'.link = k /\ closed
  BY <1>1 DEF LinkFacts
<1>3. r \in LinkType /\ (to \in {"wait", "end"} => r.writer = "done")
  <2>1. 0 \in Nat /\ <<>> \in Seq({"hello", "data"})
    BY SMTT(20)
  <2>2. r \in LinkType
    BY <1>0, <1>1, <2>1, LinkFields DEF Marked, Flushing, SocketClosed
  <2>3. to \in {"wait", "end"} => r.writer = "done"
    BY <1>0, <1>1 DEF LinkType, SocketClosed
  <2> QED BY <2>2, <2>3
<1>4. Sound(r, closed)
  <2>1. CASE r = Marked(k)
    BY <1>0, <2>1 DEF Sound, LinkType, Marked
  <2>2. CASE r = Flushing(k)
    BY <1>0, <1>2, <2>2 DEF Sound, LinkType, Flushing
  <2>3. CASE r = SocketClosed(k) /\ l.writer = "done"
    BY <1>0, <2>3 DEF Sound, LinkType, SocketClosed
  <2> QED BY <1>0, <1>1, <2>1, <2>2, <2>3
<1> QED BY <1>1, <1>2, <1>3, <1>4, FlushFrame

\* A new link, the end of NewClient, a Send and what msgReader takes.
LEMMA UseFlush ==
  ASSUME FlushInv, LinkFacts,
         \/ UserConnects \/ Connected \/ UserSends
         \/ \E k \in Links : Reconnect(k) \/ MsgReader(k)
  PROVE  FlushInv'
<1> USE WSClientAssumption
<1>0. /\ link \in [Links -> LinkType] /\ closed \in BOOLEAN
      /\ closing.at # "idle" => closing.link \in Links
      /\ closing.at \in {"wait", "end", "returned"} => link[closing.link].writer = "done"
      /\ \A k \in Links : Sound(link[k], closed)
  BY DEF FlushInv
<1>1. CASE UserConnects \/ \E k \in Links : Reconnect(k)
  <2>1. /\ dialed + 1 \in Links /\ ~closed /\ closed' = closed /\ closing' = closing
        /\ link' = [link EXCEPT ![dialed + 1] = Dialed(dialed + 1)]
    BY <1>1, SMTT(20) DEF UserConnects, Reconnect, Dial, canConnect, LinkFacts, Links
  <2>2. closing.at = "idle"
    BY <2>1 DEF LinkFacts
  <2>3. <<>> \in Seq({"hello", "data"}) /\ 0 \in Nat
    BY SMTT(20)
  <2>4. Dialed(dialed + 1) \in LinkType
    BY <2>3, Zenon DEF Dialed, NoLink, LinkType
  <2>5. Sound(Dialed(dialed + 1), closed)
    BY DEF Dialed, NoLink, Sound
  <2> HIDE DEF Dialed
  <2> QED BY <1>0, <2>1, <2>2, <2>4, <2>5, FlushFrame
<1>2. CASE Connected
  <2>1. dialed \in Links /\ link' = [link EXCEPT ![dialed] = [link[dialed] EXCEPT !.state = "open"]]
        /\ closed' = closed /\ closing' = closing
    BY <1>2, SMTT(20) DEF Connected, Opened, mutFree, LinkFacts, Links
  <2> DEFINE r == [link[dialed] EXCEPT !.state = "open"]
  <2>2. r \in LinkType /\ (link[dialed].writer = "done" => r.writer = "done")
    <3>1. link[dialed] \in LinkType /\ 0 \in Nat /\ <<>> \in Seq({"hello", "data"})
      BY <1>0, <2>1
    <3>2. r \in LinkType
      BY <3>1, LinkFields
    <3>3. r.writer = link[dialed].writer
      BY <3>1 DEF LinkType
    <3> QED BY <3>2, <3>3
  <2>3. Sound(r, closed)
    BY <1>0, <2>1 DEF Sound, LinkType
  <2> HIDE DEF r
  <2> QED BY <1>0, <2>1, <2>2, <2>3, FlushFrame DEF r
<1>3. CASE UserSends
  <2>1. wsClient \in Links /\ ~closed /\ closed' = closed /\ closing' = closing
        /\ link' = [link EXCEPT ![wsClient] = [link[wsClient] EXCEPT !.sendCh = @ + 1]]
    BY <1>3, SMTT(20) DEF UserSends, Send, LinkFacts, Links
  <2> DEFINE r == [link[wsClient] EXCEPT !.sendCh = @ + 1]
  <2>2. r \in LinkType /\ (link[wsClient].writer = "done" => r.writer = "done")
    <3>1. link[wsClient].sendCh + 1 \in Nat
      BY <1>0, <2>1, SMTT(20) DEF LinkType
    <3>2. link[wsClient] \in LinkType /\ <<>> \in Seq({"hello", "data"})
      BY <1>0, <2>1
    <3>3. r \in LinkType
      BY <3>1, <3>2, LinkFields
    <3>4. r.writer = link[wsClient].writer
      BY <3>2 DEF LinkType
    <3> QED BY <3>3, <3>4
  <2>3. Sound(r, closed)
    BY <1>0, <2>1 DEF Sound, LinkType
  <2> HIDE DEF r
  <2> QED BY <1>0, <2>1, <2>2, <2>3, FlushFrame DEF r
<1>4. ASSUME NEW k \in Links, MsgReader(k) PROVE FlushInv'
  <2> DEFINE r == [link[k] EXCEPT !.receiveCh = Tail(@)]
  <2>1. link' = [link EXCEPT ![k] = r] /\ link[k].receiveCh # <<>>
        /\ closed' = closed /\ closing' = closing
    BY <1>0, <1>4 DEF MsgReader
  <2>2. r \in LinkType /\ (link[k].writer = "done" => r.writer = "done")
    <3>1. Tail(link[k].receiveCh) \in Seq({"hello", "data"})
      BY <1>0, <2>1, SMTT(20) DEF LinkType
    <3>2. link[k] \in LinkType /\ 0 \in Nat
      BY <1>0
    <3>3. r \in LinkType
      BY <3>1, <3>2, LinkFields
    <3>4. r.writer = link[k].writer
      BY <3>2 DEF LinkType
    <3> QED BY <3>3, <3>4
  <2>3. Sound(r, closed)
    BY <1>0 DEF Sound, LinkType
  <2> HIDE DEF r
  <2> QED BY <1>0, <2>1, <2>2, <2>3, FlushFrame
<1> QED BY <1>1, <1>2, <1>3, <1>4

LEMMA FlushStep == LinkFacts /\ FlushInv /\ [~panicked /\ Next]_vars => FlushInv'
<1> SUFFICES ASSUME LinkFacts, FlushInv, [~panicked /\ Next]_vars PROVE FlushInv'
  OBVIOUS
<1>1. CASE UNCHANGED <<link, closed, closing>>
  BY <1>1, Zenon DEF FlushInv, Sound
<1>2. CASE Close \/ CloseReturns \/ \E k \in Links : GiveUp(k)
  <2>1. /\ link' = link /\ closed' \in BOOLEAN /\ (closed => closed')
        /\ \/ closing' = closing
           \/ closing' = [at |-> "mark", link |-> wsClient] /\ wsClient # 0
           \/ closing' = [closing EXCEPT !.at = "returned"] /\ closing.at = "end"
    BY <1>2, Zenon DEF Close, CloseReturns, GiveUp, FlushInv
  <2>2. \A k \in Links : Sound(link[k], closed')
    BY <2>1 DEF FlushInv, Sound
  <2>3. /\ closing'.at # "idle" => closing'.link \in Links
        /\ closing'.at \in {"wait", "end", "returned"} => link[closing'.link].writer = "done"
    BY <2>1, WSClientAssumption DEF FlushInv, LinkFacts, Links
  <2> QED BY <2>1, <2>2, <2>3 DEF FlushInv
<1>3. \/ Close \/ CloseReturns \/ (\E k \in Links : GiveUp(k))
      \/ UserConnects \/ Connected \/ UserSends
      \/ (\E k \in Links : Reconnect(k) \/ MsgReader(k))
      \/ (\E k \in Links : CloseMarks(k) \/ CloseFlush(k) \/ CloseSocket(k) \/ CloseWaits(k))
      \/ (\E k \in Links : (Goroutines(k) \/ ReadMessage(k) \/ PeerGone(k)) /\ UNCHANGED client)
      \/ UNCHANGED <<link, closed, closing>>
  BY Zenon DEF Next, Loop, Closing, UserReceives, MsgReaderEnds, Wake, ReconnectFails, CallbackFails,
       GiveUpCloses, client, vars
<1> QED BY <1>1, <1>2, <1>3, GoroutinesFlush, ClosingFlush, UseFlush

\* Close leaves at most half of the messages it found in sendCh when the server
\* stays (ws/client.go Close, connWriter), for any size of the channel and
\* wherever the goroutines are when it is called.
THEOREM CloseFlushesHalf == Spec => []CloseFlushes
<1>1. FlushInv => CloseFlushes
  BY DEF FlushInv, Sound, CloseFlushes
<1> QED BY <1>1, FlushInit, FlushStep, LinkFactsHold, PTL DEF Spec
=============================================================================
