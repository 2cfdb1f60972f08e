------------------------------ MODULE WSClient ------------------------------
(***************************************************************************)
(* The websocket client (service/ws/client.go): a reader and a writer      *)
(* goroutine per connection, joined by channels.  A link is one Client     *)
(* object, made by NewClient.  The operations a user calls (NewClient,     *)
(* Send, Close) are given as relations on one link, which ServiceClient    *)
(* puts together; the steps of the goroutines are actions here.            *)
(*                                                                         *)
(* Messages to the server are counted, as nothing tells them apart; the    *)
(* errors the client reports on errorCh are left out, its end is not.      *)
(***************************************************************************)
EXTENDS Naturals, Sequences

CONSTANTS
  MaxLinks,      \* bounds the connections made
  MaxFrames,     \* bounds the frames the server sends on a connection
  LinkChSize     \* size of Client.receiveCh and Client.sendCh

ASSUME WSClientAssumption ==
  MaxLinks \in Nat /\ MaxFrames \in Nat /\ LinkChSize \in Nat \ {0}

VARIABLE link

Links == 1..MaxLinks

\* connState; the places of the two goroutines; sendCh, by its length;
\* receiveCh; a token in flushCh; the counter of the flush loop; the socket
\* and the server at its other end; the frames read so far; the messages the
\* flush found (history).
NoLink ==
  [state |-> "closed", reader |-> "none", writer |-> "none", sendCh |-> 0,
   receiveCh |-> <<>>, flush |-> FALSE, i |-> 0, socket |-> FALSE,
   peer |-> FALSE, read |-> 0, found |-> 0]

\* NewClient up to the start of the goroutines.
Dialed(k) ==
  [NoLink EXCEPT !.reader = "reading", !.writer = "running", !.socket = TRUE, !.peer = TRUE]

\* The end of NewClient: the state is open whatever the reader has met since.
Opened(k) == [link[k] EXCEPT !.state = "open"]

\* Send takes no message on a link that is not open or whose channel is full.
accepts(k) == link[k].state = "open" /\ link[k].sendCh < LinkChSize

Send(k) == [link[k] EXCEPT !.sendCh = @ + 1]

-----------------------------------------------------------------------------
(* connReader *)

ReadMessage(k) ==
  /\ link[k].reader = "reading"
  /\ link[k].socket /\ link[k].peer
  /\ link[k].read < MaxFrames
  /\ link' = [link EXCEPT ![k].reader = "forwarding", ![k].read = @ + 1]

\* The first frame of a connection is the hello.
Forward(k) ==
  /\ link[k].reader = "forwarding"
  /\ Len(link[k].receiveCh) < LinkChSize
  /\ link' = [link EXCEPT ![k].reader = "reading",
               ![k].receiveCh = Append(@, IF link[k].read = 1 THEN "hello" ELSE "data")]

\* A read fails once the socket is closed or the server is gone: receiveCh
\* and closeCh are closed, the reader has left the wait group.
ReadFails(k) ==
  /\ link[k].reader = "reading"
  /\ ~(link[k].socket /\ link[k].peer)
  /\ link' = [link EXCEPT ![k].reader = "released"]

\* The reader waits for the writer, closes errorCh and sets the state.
ReaderEnds(k) ==
  /\ link[k].reader = "released"
  /\ link[k].writer = "done"
  /\ link' = [link EXCEPT ![k].reader = "done", ![k].state = "closed"]

receiveChClosed(k) == link[k].reader \in {"released", "done"}
errorChClosed(k) == link[k].reader = "done"

-----------------------------------------------------------------------------
(* connWriter *)

\* The first message of sendCh is written, or the write fails.
sendMsg(k) == [link[k] EXCEPT !.sendCh = @ - 1]

WriteMessage(k) ==
  /\ link[k].writer = "running"
  /\ link[k].sendCh > 0
  /\ link' = [link EXCEPT ![k] = sendMsg(k)]

TakeFlush(k) ==
  /\ link[k].writer = "running"
  /\ link[k].flush
  /\ link' = [link EXCEPT ![k].flush = FALSE, ![k].writer = "flushing",
               ![k].found = link[k].sendCh]

\* A plausible slip: nothing is flushed.
flushes_never(k) == FALSE

\* The condition of the flush loop, whose counter goes up while the length of
\* the channel goes down.
flushes(k) == link[k].i < link[k].sendCh

FlushMessage(k) ==
  /\ link[k].writer = "flushing"
  /\ flushes(k)
  /\ link' = [link EXCEPT ![k] = [sendMsg(k) EXCEPT !.i = @ + 1]]

\* The writer ends when the loop does, or when the reader has closed closeCh.
WriterEnds(k) ==
  /\ \/ link[k].writer = "flushing" /\ ~flushes(k)
     \/ link[k].writer = "running" /\ link[k].reader \in {"released", "done"}
  /\ link' = [link EXCEPT ![k].writer = "done"]

\* The server goes away, or the connection to it breaks.
PeerGone(k) ==
  /\ link[k].socket /\ link[k].peer
  /\ link' = [link EXCEPT ![k].peer = FALSE]

-----------------------------------------------------------------------------
(* Close: set the state, flush, close the socket, wait for both goroutines. *)

Marked(k) == [link[k] EXCEPT !.state = "closing"]

Flushing(k) == [link[k] EXCEPT !.flush = TRUE]

flushDone(k) == link[k].writer = "done"

SocketClosed(k) == [link[k] EXCEPT !.socket = FALSE]

waitGroupDone(k) == receiveChClosed(k) /\ link[k].writer = "done"

-----------------------------------------------------------------------------
Goroutines(k) ==
  \/ Forward(k) \/ ReadFails(k) \/ ReaderEnds(k)
  \/ WriteMessage(k) \/ TakeFlush(k) \/ FlushMessage(k) \/ WriterEnds(k)

=============================================================================
