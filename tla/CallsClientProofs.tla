------------------------- MODULE CallsClientProofs --------------------------
(***************************************************************************)
(* Proofs about CallsClient, for any number of connections.                *)
(*                                                                         *)
(* CloseFacts relates the state of the client to the places of its two     *)
(* goroutines, wsReader and Close, which is what says who may still close  *)
(* it.  OutageFacts relates wsLastDisconnect to the outage it stands for.  *)
(***************************************************************************)
EXTENDS CallsClient, TLAPS

USE ZenonT(3), SMTT(20)

\* What the properties about the end of the client rest on.
CloseFacts ==
  /\ state \in {"new", "init", "closing", "closed"}
  /\ state = "new" => reader = "none"
  /\ state \in {"new", "init"} => closer = "idle"
  /\ closer = "idle" => state # "closing"
  /\ closer \in {"returned", "failed"} => reader = "done"
  /\ closer = "returned" => state = "closed"
  /\ state = "closed" => reader \in {"ending", "done"} /\ rtc # "open"
  /\ ~collided =>
       /\ closeEvents = IF state = "closed" THEN 1 ELSE 0
       /\ ~panicked
       /\ rtc = "closed" => state = "closed"
       /\ closer \in {"asking", "waiting"} => state = "closing"

\* The frame of a step that leaves what CloseFacts is about alone.
endFrame == UNCHANGED <<state, reader, closer, rtc, closeEvents, panicked, collided>>

LEMMA CloseFactsInit == Init => CloseFacts
BY DEF Init, CloseFacts

\* close of a client that is not closed yet: one event, and no panic.
LEMMA FirstClose ==
  ASSUME CloseFacts, ~collided, state # "closed", close
  PROVE  closeEvents' = 1 /\ ~panicked'
<1>1. closeEvents = 0 /\ ~panicked /\ rtc # "closed"
  BY DEF CloseFacts
<1>2. closeEvents' = 1
  BY <1>1 DEF close
<1>3. ~panicked'
  BY <1>1, Zenon DEF close
<1> QED BY <1>2, <1>3

\* wsReader closes the client, at the end of the call or of its patience.
LEMMA ReaderCloses ==
  ASSUME CloseFacts, close, reader = "loop", reader' = "ending", UNCHANGED closer,
         collided' = (collided \/ closer # "idle")
  PROVE  CloseFacts'
<1>1. /\ state' = "closed" /\ rtc' # "open"
      /\ closer \notin {"returned", "failed"}
      /\ state # "closed"
  BY DEF CloseFacts, close
<1>2. ASSUME ~collided' PROVE closeEvents' = 1 /\ ~panicked' /\ closer = "idle"
  <2>1. ~collided /\ closer = "idle"
    BY <1>2, Zenon
  <2> QED BY <1>1, <2>1, FirstClose
<1> QED BY <1>1, <1>2 DEF CloseFacts

LEMMA CloseFactsStep == CloseFacts /\ [~panicked /\ Next]_vars => CloseFacts'
<1> SUFFICES ASSUME CloseFacts, [~panicked /\ Next]_vars PROVE CloseFacts'
  OBVIOUS
<1>1. CASE endFrame
  BY <1>1 DEF CloseFacts, endFrame
<1>2. CASE Connect \/ ConnectFails
  BY <1>2 DEF CloseFacts, Connect, ConnectFails, endVars
<1>3. CASE HandleJoin
  BY <1>3 DEF CloseFacts, HandleJoin, take
<1>4. CASE HandleEnd
  BY <1>4, ReaderCloses DEF HandleEnd, take
<1>5. CASE GiveUp
  BY <1>5, ReaderCloses DEF GiveUp, lost
<1>6. CASE Disconnected \/ Reconnect \/ Asked \/ ReaderEnds
  BY <1>6 DEF CloseFacts, Disconnected, lost, Reconnect, Asked, ReaderEnds, endVars
<1>7. CASE Close \/ CloseAsks \/ CloseFails
  BY <1>7 DEF CloseFacts, Close, CloseAsks, CloseFails, endVars
<1>8. CASE CloseEnds
  <2>1. /\ state' = "closed" /\ rtc' # "open" /\ closer' = "returned"
        /\ reader' = "done" /\ collided' = collided
    BY <1>8 DEF CloseFacts, CloseEnds, close
  <2>2. ASSUME ~collided PROVE closeEvents' = 1 /\ ~panicked'
    BY <1>8, <2>2, FirstClose DEF CloseFacts, CloseEnds
  <2>3. ~collided' => closeEvents' = 1 /\ ~panicked'
    BY <2>1, <2>2, Zenon
  <2> QED BY <2>1, <2>3 DEF CloseFacts
<1>9. HandleHello \/ PingerEnds \/ StartScreenShare \/ StopScreenShare \/ Hello \/ Admit
      \/ EndCall \/ Break \/ TimePasses \/ UNCHANGED vars => endFrame
  BY DEF HandleHello, PingerEnds, StartScreenShare, StopScreenShare, Hello, Admit, EndCall,
         Break, TimePasses, vars, endVars, endFrame
<1> QED
  BY <1>1, <1>2, <1>3, <1>4, <1>5, <1>6, <1>7, <1>8, <1>9 DEF Next, Reader, Closing

LEMMA CloseFactsHold == Spec => []CloseFacts
BY CloseFactsInit, CloseFactsStep, PTL DEF Spec

\* The client closes once (client.go close, rtc_monitor.go Stop): one
\* CloseEvent and no second stop of the monitor, unless wsReader closed the
\* client while Close waited for it.
THEOREM ClientClosesOnce == Spec => []ClosesOnce
<1>1. CloseFacts => ClosesOnce
  BY DEF CloseFacts, ClosesOnce
<1> QED
  BY <1>1, CloseFactsHold, PTL

\* A closed client has no open peer connection (client.go close): no join is
\* handled once it is closed.
THEOREM ClosedIsBare == Spec => []ClosedHasNoSession
<1>1. CloseFacts => ClosedHasNoSession
  BY DEF CloseFacts, ClosedHasNoSession
<1> QED
  BY <1>1, CloseFactsHold, PTL

-----------------------------------------------------------------------------
\* A screen is shared only if the last screen event sent was a screen_on
\* (api.go StartScreenShare, StopScreenShare).
THEOREM SharesAreTold == Spec => []ShareIsTold
<1>1. Init => ShareIsTold
  BY DEF Init, ShareIsTold
<1>2. ShareIsTold /\ [~panicked /\ Next]_vars => ShareIsTold'
  <2> SUFFICES ASSUME ShareIsTold, [~panicked /\ Next]_vars PROVE ShareIsTold'
    OBVIOUS
  <2>1. CASE StartScreenShare
    BY <2>1, Zenon DEF StartScreenShare, ShareIsTold
  <2>2. CASE StopScreenShare
    BY <2>2, Zenon DEF StopScreenShare, ShareIsTold
  <2>3. StartScreenShare \/ StopScreenShare \/ UNCHANGED shareVars
    BY Zenon DEF Next, Reader, Closing, Connect, ConnectFails, HandleHello, HandleJoin, HandleEnd,
           Disconnected, GiveUp, Reconnect, ReaderEnds, Asked, Close, CloseAsks, CloseEnds,
           CloseFails, PingerEnds, Hello, Admit, EndCall, Break, TimePasses, vars
  <2>4. CASE UNCHANGED shareVars
    BY <2>4, Zenon DEF shareVars, ShareIsTold
  <2> QED BY <2>1, <2>2, <2>3, <2>4
<1> QED
  BY <1>1, <1>2, PTL DEF Spec

-----------------------------------------------------------------------------
\* The connections are numbered; currentConnID is one that was made.
IdFacts ==
  /\ conns \in Nat /\ currentConnID \in Nat /\ originalConnID \in Nat
  /\ currentConnID <= conns

\* The steps that change the connection or its ids.
LEMMA IdSteps ==
  ASSUME [~panicked /\ Next]_vars
  PROVE  \/ HandleHello
         \/ wsOpen /\ UNCHANGED ids
         \/ UNCHANGED <<conns, ids>>
BY Zenon DEF Next, Reader, Closing, Connect, ConnectFails, HandleJoin, HandleEnd, Disconnected,
       GiveUp, Reconnect, ReaderEnds, Asked, Close, CloseAsks, CloseEnds, CloseFails,
       PingerEnds, StartScreenShare, StopScreenShare, Hello, Admit, EndCall, Break,
       TimePasses, take, vars, wsVars

\* The original connection ID is that of the first hello for good, and the
\* current one never goes back (websocket.go handleWSEventHello).
THEOREM IdsAreKept == Spec => IdsKept
<1>1. Init => IdFacts
  BY DEF Init, IdFacts
<1>2. ASSUME IdFacts, HandleHello
      PROVE  /\ IdFacts'
             /\ originalConnID # 0 => originalConnID' = originalConnID
             /\ currentConnID' >= currentConnID
  BY <1>2 DEF HandleHello, take, firstHello, IdFacts
<1>3. ASSUME IdFacts, wsOpen, UNCHANGED ids
      PROVE  IdFacts' /\ originalConnID' = originalConnID /\ currentConnID' >= currentConnID
  BY <1>3 DEF wsOpen, ids, IdFacts
<1>4. ASSUME IdFacts, UNCHANGED <<conns, ids>>
      PROVE  IdFacts' /\ originalConnID' = originalConnID /\ currentConnID' >= currentConnID
  BY <1>4 DEF ids, IdFacts
<1>5. IdFacts /\ [~panicked /\ Next]_vars => IdFacts'
  BY <1>2, <1>3, <1>4, IdSteps
<1>6. IdFacts /\ [~panicked /\ Next]_vars
        => [ /\ originalConnID # 0 => originalConnID' = originalConnID
             /\ currentConnID' >= currentConnID ]_<<originalConnID, currentConnID>>
  BY <1>2, <1>3, <1>4, IdSteps
<1> QED
  BY <1>1, <1>5, <1>6, PTL DEF Spec, IdsKept

-----------------------------------------------------------------------------
\* What wsLastDisconnect says of the outage: once the client has had its first
\* hello it is set no earlier than the outage began.
OutageFacts ==
  /\ lastDisconnect \in {"zero", "recent", "over"} /\ outage \in {"zero", "recent", "over"}
  /\ reader \in {"loop", "waiting"} /\ ~up => outage # "zero"
  /\ ~dropped =>
       /\ originalConnID = 0 =>
            lastDisconnect = "zero" /\ (reader \in {"loop", "waiting"} => up)
       /\ lastDisconnect = "over" => outage = "over"
       /\ lastDisconnect = "recent" => outage # "zero"

outageFrame == UNCHANGED <<lastDisconnect, outage, dropped, originalConnID, up>>

LEMMA OutageFactsInit == Init => OutageFacts
BY DEF Init, OutageFacts

LEMMA OutageFactsStep == OutageFacts /\ [~panicked /\ Next]_vars => OutageFacts'
<1> SUFFICES ASSUME OutageFacts, [~panicked /\ Next]_vars PROVE OutageFacts'
  OBVIOUS
<1>1. CASE outageFrame /\ (reader' = reader \/ reader' \notin {"loop", "waiting"})
  BY <1>1 DEF OutageFacts, outageFrame
<1>2. CASE Connect
  BY <1>2 DEF OutageFacts, Connect, wsOpen, ids
<1>3. CASE HandleHello
  BY <1>3 DEF OutageFacts, HandleHello, take, firstHello
<1>4. CASE Disconnected
  BY <1>4 DEF OutageFacts, Disconnected, lost, wsVars, ids
<1>5. CASE Reconnect
  BY <1>5 DEF OutageFacts, Reconnect, wsOpen, wsVars, ids
<1>6. CASE CloseEnds
  BY <1>6 DEF OutageFacts, CloseEnds, ids
<1>7. CASE Break
  <2>1. /\ lastDisconnect' = lastDisconnect /\ outage' \in {"recent", "over"}
        /\ reader' = reader /\ originalConnID' = originalConnID
        /\ outage = "over" => outage' = "over"
    BY <1>7 DEF OutageFacts, Break, ids
  <2>2. ~dropped' => ~dropped /\ originalConnID # 0
    BY <1>7, Zenon DEF Break
  <2> QED BY <2>1, <2>2 DEF OutageFacts
<1>8. CASE TimePasses
  BY <1>8 DEF OutageFacts, TimePasses, later, wsVars, ids
<1>9. \/ Connect \/ HandleHello \/ Disconnected \/ Reconnect \/ CloseEnds \/ Break \/ TimePasses
      \/ outageFrame /\ (reader' = reader \/ reader' \notin {"loop", "waiting"})
  BY DEF Next, Reader, Closing, ConnectFails, HandleJoin, HandleEnd, GiveUp, ReaderEnds,
         Asked, Close, CloseAsks, CloseFails, PingerEnds, StartScreenShare, StopScreenShare,
         Hello, Admit, EndCall, take, outageFrame, vars, wsVars, ids
<1> QED
  BY <1>1, <1>2, <1>3, <1>4, <1>5, <1>6, <1>7, <1>8, <1>9

\* wsReader gives up only after an outage longer than wsReconnectionTimeout
\* (websocket.go wsReader), unless a connection broke before the first hello.
THEOREM GiveUpIsLate == Spec => GivesUpLate
<1>1. Spec => []OutageFacts
  BY OutageFactsInit, OutageFactsStep, PTL DEF Spec
<1>2. ASSUME OutageFacts, [~panicked /\ Next]_vars, reader = "loop", lost,
             reader' = "ending", ~wsCloseCh, ~dropped
      PROVE  outage = "over"
  <2>1. GiveUp
    BY <1>2 DEF Next, Reader, Closing, Connect, ConnectFails, HandleHello, HandleJoin, HandleEnd,
           Disconnected, Reconnect, ReaderEnds, Asked, Close, CloseAsks, CloseEnds, CloseFails,
           PingerEnds, StartScreenShare, StopScreenShare, Hello, Admit, EndCall, Break,
           TimePasses, take, lost, vars
  <2> QED BY <1>2, <2>1 DEF GiveUp, timeoutOver, OutageFacts
<1>3. OutageFacts /\ [~panicked /\ Next]_vars
        => [reader = "loop" /\ lost /\ reader' = "ending" /\ ~wsCloseCh /\ ~dropped
              => outage = "over"]_vars
  BY <1>2
<1> QED
  BY <1>1, <1>3, PTL DEF Spec, GivesUpLate
=============================================================================
