----------------------------- MODULE MultiConn ------------------------------
(***************************************************************************)
(* The UDP sockets of an address (service/rtc/multi_conn.go) read as one:  *)
(* a reader goroutine for each socket hands what it reads, in a buffer of  *)
(* bufPool, to readResultCh, from where ReadFrom copies it and gives the   *)
(* buffer back.  Close closes the sockets and waits for the readers.       *)
(* The UDP mux of the ICE library is the one caller of ReadFrom.           *)
(***************************************************************************)
EXTENDS Integers, Sequences, FiniteSets, FiniteSetsExt

CONSTANTS
  Sockets,            \* conns
  ReadResultChSize,   \* capacity of readResultCh (twice the sockets in the code)
  MaxReads            \* bounds the packets read and deadlines met

ASSUME ConnAssumption ==
  /\ IsFiniteSet(Sockets) /\ Sockets # {}
  /\ ReadResultChSize \in Nat \ {0} /\ MaxReads \in Nat

\* The pool makes a buffer when it has none, so as many as can be in use: one
\* for each reader and each place in the channel, and one for ReadFrom.
Buffers == 1..(Cardinality(Sockets) + ReadResultChSize + 1)

VARIABLES
  reader,         \* where the goroutine of each socket is
  result,         \* res of that goroutine: socket, buffer, error; num, a history, says
                  \* which read of the socket it is
  bufPool,        \* buffers nobody uses
  content,        \* the packet in each buffer
  reads,          \* results of reading from each socket so far
  readResultCh,
  copying,        \* the result ReadFrom has received and not copied yet
  got,            \* what ReadFrom returned of each socket: packets, 0 for an error
  openSockets,
  mcClose         \* where Close is

connVars == <<reader, result, bufPool, content, reads, readResultCh, copying, got,
              openSockets, mcClose>>

none == [buf |-> 0]

ConnInit ==
  /\ reader = [s \in Sockets |-> "getting"]
  /\ result = [s \in Sockets |-> none]
  /\ bufPool = Buffers /\ content = [b \in Buffers |-> 0]
  /\ reads = [s \in Sockets |-> 0]
  /\ readResultCh = <<>> /\ copying = none
  /\ got = [s \in Sockets |-> <<>>]
  /\ openSockets = Sockets
  /\ mcClose = "idle"

-----------------------------------------------------------------------------
(* The reader of a socket. *)

\* bufPool.Get: which free buffer it is makes no difference.
GetBuffer(s) ==
  /\ reader[s] = "getting"
  /\ LET b == Min(bufPool) IN
       /\ bufPool' = bufPool \ {b}
       /\ result' = [result EXCEPT ![s] = [socket |-> s, buf |-> b, err |-> "none",
                                           num |-> reads[s] + 1]]
  /\ reader' = [reader EXCEPT ![s] = "reading"]
  /\ UNCHANGED <<content, reads, readResultCh, copying, got, openSockets, mcClose>>

moreReads == MapThenSumSet(LAMBDA s : reads[s], Sockets) < MaxReads

\* conn.ReadFrom returns a packet.
ReadPacket(s) ==
  /\ reader[s] = "reading" /\ s \in openSockets
  /\ moreReads
  /\ reads' = [reads EXCEPT ![s] = @ + 1]
  /\ content' = [content EXCEPT ![result[s].buf] = reads[s] + 1]
  /\ reader' = [reader EXCEPT ![s] = "sending"]
  /\ UNCHANGED <<result, bufPool, readResultCh, copying, got, openSockets, mcClose>>

\* conn.ReadFrom returns an error: a deadline passed, the socket is closed, or
\* the socket failed.
ReadError(s, err) ==
  /\ reader[s] = "reading"
  /\ err = "timeout" => s \in openSockets /\ moreReads
  /\ reads' = [reads EXCEPT ![s] = @ + 1]
  /\ result' = [result EXCEPT ![s].err = err]
  /\ reader' = [reader EXCEPT ![s] = "sending"]
  /\ UNCHANGED <<bufPool, content, readResultCh, copying, got, openSockets, mcClose>>

\* The result goes to readResultCh, and the reader goes on unless it was an
\* error other than a timeout.
SendResult(s) ==
  /\ reader[s] = "sending"
  /\ Len(readResultCh) < ReadResultChSize
  /\ readResultCh' = Append(readResultCh, result[s])
  /\ reader' = [reader EXCEPT ![s] = IF result[s].err = "failed" THEN "done" ELSE "getting"]
  /\ result' = [result EXCEPT ![s] = none]
  /\ UNCHANGED <<bufPool, content, reads, copying, got, openSockets, mcClose>>

\* A plausible slip: the reader does not look at closeCh while it sends.
seesClose_never(s) == FALSE /\ reader[s] = "sending"

\* closeCh is closed while the reader sends.
seesClose(s) == reader[s] = "sending" /\ mcClose # "idle"

\* The reader returns.  Its result is not sent, nor the buffer in it put back.
ReaderEnds(s) ==
  /\ seesClose(s)
  /\ reader' = [reader EXCEPT ![s] = "done"]
  /\ UNCHANGED <<result, bufPool, content, reads, readResultCh, copying, got, openSockets, mcClose>>

-----------------------------------------------------------------------------
(* ReadFrom and Close. *)

\* A plausible slip: the buffer goes back to the pool before it is copied.
putAtReceive_early(b) == bufPool \cup {b}

\* The pool once ReadFrom has received a result: the buffer is still in use.
putAtReceive(b) == bufPool

\* ReadFrom receives a result.
ReceiveResult ==
  /\ copying = none /\ readResultCh # <<>>
  /\ copying' = Head(readResultCh)
  /\ readResultCh' = Tail(readResultCh)
  /\ bufPool' = putAtReceive(copying'.buf)
  /\ UNCHANGED <<reader, result, content, reads, got, openSockets, mcClose>>

\* ReadFrom copies the packet and puts the buffer back.  (What a free buffer
\* holds no longer matters.)
ReadFrom ==
  /\ copying # none
  /\ got' = [got EXCEPT ![copying.socket] =
               Append(@, IF copying.err = "none" THEN content[copying.buf] ELSE 0)]
  /\ bufPool' = bufPool \cup {copying.buf}
  /\ content' = [content EXCEPT ![copying.buf] = 0]
  /\ copying' = none
  /\ UNCHANGED <<reader, result, reads, readResultCh, openSockets, mcClose>>

\* ReadFrom of the channel once it is closed and empty: the zero readResult,
\* without an error, whose nil buffer goes to the pool.
ReadFromClosed ==
  /\ mcClose = "closed" /\ readResultCh = <<>> /\ copying = none
  /\ bufPool' = bufPool \cup {none.buf}
  /\ UNCHANGED <<reader, result, content, reads, readResultCh, copying, got, openSockets, mcClose>>

\* Close closes closeCh,
ConnClose ==
  /\ mcClose = "idle"
  /\ mcClose' = "closing"
  /\ UNCHANGED <<reader, result, bufPool, content, reads, readResultCh, copying, got, openSockets>>

\* then the sockets one by one,
CloseSocket(s) ==
  /\ mcClose = "closing" /\ s \in openSockets
  /\ openSockets' = openSockets \ {s}
  /\ UNCHANGED <<reader, result, bufPool, content, reads, readResultCh, copying, got, mcClose>>

\* wg.Wait
readersDone == openSockets = {} /\ \A s \in Sockets : reader[s] = "done"

\* and readResultCh once the readers are done.
CloseResults ==
  /\ mcClose = "closing" /\ readersDone
  /\ mcClose' = "closed"
  /\ UNCHANGED <<reader, result, bufPool, content, reads, readResultCh, copying, got, openSockets>>

-----------------------------------------------------------------------------
ReaderStep(s) ==
  GetBuffer(s) \/ SendResult(s) \/ ReaderEnds(s) \/ (s \notin openSockets /\ ReadError(s, "failed"))

ConnNext ==
  \/ \E s \in Sockets :
       \/ ReaderStep(s) \/ ReadPacket(s) \/ CloseSocket(s)
       \/ \E err \in {"timeout", "failed"} : ReadError(s, err)
  \/ ReceiveResult \/ ReadFrom \/ ReadFromClosed
  \/ ConnClose \/ CloseResults

ConnSpec == ConnInit /\ [][ConnNext]_connVars

-----------------------------------------------------------------------------
(* Properties. *)

\* ReadFrom returns what was read from a socket, packets and errors, each once
\* and in order, although buffers go round and readers fill them while
\* ReadFrom copies.
PacketsInOrder ==
  \A s \in Sockets : \A i \in DOMAIN got[s] : got[s][i] \in {i, 0}

\* Close returns, even when readResultCh is full and nobody reads any more.
ConnCloseReturns == mcClose = "closing" ~> mcClose = "closed"
=============================================================================
