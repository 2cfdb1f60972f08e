--------------------------- MODULE SignalingProofs ---------------------------
(***************************************************************************)
(* Proofs about Signaling, for any channel sizes and any number of offers. *)
(*                                                                         *)
(* An answer does not say which offer it answers.  It fits all the same    *)
(* because one token goes around: the session's offer on its way down, the *)
(* handler of the client that answers it, the answer on its way up, the    *)
(* answer in sdpAnswerInCh.  TokenAt(w) says that it is at w and that no   *)
(* other offer or answer of that kind is anywhere.  The session makes an   *)
(* offer only when the token is nowhere; only a time-out breaks this.      *)
(* StateFacts is what the argument needs of the two signaling states: an   *)
(* offer that the client drops has crossed one of its own.                 *)
(***************************************************************************)
EXTENDS Signaling, TLAPS

USE ZenonT(3), SMTT(20)

\* The messages on the websocket, on the data channel, and the queued offers.
WSMessages == [type : {"offer", "answer", "candidate"}, n : Nat]
DCMessages == [type : {"offer", "answer"}, n : Nat]
Offers == [n : Nat, dc : BOOLEAN]

SigType ==
  /\ cState \in {"stable", "offered", "answering"} /\ sState \in {"stable", "offered"}
  /\ place \in {"start", "loop", "awaiting", "done"}
  /\ {sOffers, cOffers, handled, gathered} \subseteq Nat /\ answering \in [{"ws", "dc"} -> Nat]
  /\ wsUp \in Seq(WSMessages)
  /\ wsDown \in Seq(WSMessages)
  /\ dcUp \in Seq(DCMessages) /\ dcDown \in Seq(DCMessages)
  /\ sdpAnswerInCh \in Seq(Nat) /\ sdpOfferInCh \in Seq(Offers)

\* No message of the type is in the channel, or one is, and it has the number.
None(q, type) == \A i \in DOMAIN q : q[i].type # type
One(q, type, n) ==
  \E i \in DOMAIN q : q[i] = Msg(type, n) /\ \A j \in DOMAIN q \ {i} : q[j].type # type
Holds(q, type, here, n) == IF here THEN One(q, type, n) ELSE None(q, type)

\* Where the offer of the session, or the answer to it, can be.
Stations == {"wsDown", "dcDown", "ws", "dc", "wsUp", "dcUp", "inCh", "nowhere"}

\* The last offer, or the answer to it, is at w, and no other is on its way.
TokenAt(w) ==
  /\ Holds(wsDown, "offer", w = "wsDown", sOffers)
  /\ Holds(dcDown, "offer", w = "dcDown", sOffers)
  /\ Holds(wsUp, "answer", w = "wsUp", sOffers)
  /\ Holds(dcUp, "answer", w = "dcUp", sOffers)
  /\ \A h \in {"ws", "dc"} : answering[h] = IF w = h THEN sOffers ELSE 0
  /\ sdpAnswerInCh = IF w = "inCh" THEN <<sOffers>> ELSE <<>>
  /\ settled \subseteq {w} \cap {"ws", "dc"}
  /\ cState = "answering" <=> w \in {"ws", "dc"} \ settled
  /\ w # "nowhere" => place \in {"awaiting", "done"} /\ sOffers # 0
  /\ w = "nowhere" /\ place = "awaiting" => lost \/ crossed

\* What the two ends know of each other.
StateFacts ==
  /\ handled # 0 => sdpOfferInCh # <<>> /\ place \in {"start", "loop"}
  /\ place = "awaiting" => sState = "offered"
  /\ crossed \/ cState # "offered" \/ sState # "offered"

TokenInv == timedOut \/ (~misfit /\ \E w \in Stations : TokenAt(w))

SigInv == SigType /\ StateFacts /\ TokenInv

-----------------------------------------------------------------------------
(* Channels.                                                               *)

LEMMA HeadTail ==
  ASSUME NEW S, NEW q \in Seq(S), q # <<>>
  PROVE  Head(q) \in S /\ Tail(q) \in Seq(S)
  BY SMTT(20)

LEMMA Appended ==
  ASSUME NEW S, NEW q \in Seq(S), NEW e \in S
  PROVE  Append(q, e) \in Seq(S) /\ Append(q, e) # <<>>
<1>1. Append(q, e) \in Seq(S) /\ Len(Append(q, e)) = Len(q) + 1 /\ Len(q) \in Nat
  BY SMTT(20)
<1>2. Len(q) + 1 # 0 /\ Len(<<>>) = 0
  BY <1>1, SMTT(20)
<1> QED BY <1>1, <1>2, Zenon

\* A message of another type changes nothing.
LEMMA HoldsAppend ==
  ASSUME NEW S, NEW q \in Seq(S), NEW m \in S, NEW type, NEW here \in BOOLEAN,
         NEW n, m.type # type, Holds(q, type, here, n)
  PROVE  Holds(Append(q, m), type, here, n)
<1> DEFINE p == Append(q, m)
<1>1. /\ Len(q) \in Nat /\ DOMAIN q = 1..Len(q) /\ DOMAIN p = 1..(Len(q) + 1)
      /\ p[Len(q) + 1] = m /\ \A i \in 1..Len(q) : p[i] = q[i]
  BY SMTT(20)
<1> HIDE DEF p
<1>2. CASE here
  <2>1. PICK i \in DOMAIN q : q[i] = Msg(type, n) /\ \A j \in DOMAIN q \ {i} : q[j].type # type
    BY <1>2 DEF Holds, One
  <2>2. i \in DOMAIN p /\ p[i] = Msg(type, n) /\ \A j \in DOMAIN p \ {i} : p[j].type # type
    BY <1>1, <2>1, SMTT(20)
  <2> QED BY <1>2, <2>2 DEF Holds, One, p
<1>3. CASE ~here
  <2>1. \A i \in DOMAIN p : p[i].type # type
    BY <1>1, <1>3, SMTT(20) DEF Holds, None
  <2> QED BY <1>3, <2>1 DEF Holds, None, p
<1> QED BY <1>2, <1>3

\* The token is put in a channel that has none.
LEMMA HoldsPut ==
  ASSUME NEW S, NEW q \in Seq(S), NEW type, NEW n, NEW k,
         Msg(type, n) \in S, Holds(q, type, FALSE, k)
  PROVE  Holds(Append(q, Msg(type, n)), type, TRUE, n)
<1> DEFINE m == Msg(type, n)
           p == Append(q, m)
<1> HIDE DEF m
<1>1. /\ Len(q) \in Nat /\ DOMAIN q = 1..Len(q) /\ DOMAIN p = 1..(Len(q) + 1)
      /\ p[Len(q) + 1] = m /\ \A i \in 1..Len(q) : p[i] = q[i]
  BY SMTT(20) DEF m
<1> HIDE DEF p
<1>2. \A i \in 1..Len(q) : q[i].type # type
  BY <1>1 DEF Holds, None
<1>3. Len(q) + 1 \in DOMAIN p /\ \A j \in DOMAIN p \ {Len(q) + 1} : p[j].type # type
  BY <1>1, <1>2, SMTT(20)
<1>4. One(p, type, n)
  BY <1>1, <1>3 DEF One, m
<1> QED BY <1>4 DEF Holds, p, m

\* The head of a channel goes, and it is not the token.
LEMMA HoldsTail ==
  ASSUME NEW S, NEW q \in Seq(S), q # <<>>, NEW type, NEW here \in BOOLEAN, NEW n,
         Holds(q, type, here, n), Head(q).type # type
  PROVE  Holds(Tail(q), type, here, n)
<1> DEFINE p == Tail(q)
<1>1. /\ Len(q) \in Nat /\ Len(q) >= 1 /\ DOMAIN q = 1..Len(q) /\ DOMAIN p = 1..(Len(q) - 1)
      /\ Head(q) = q[1] /\ \A i \in 1..(Len(q) - 1) : p[i] = q[i + 1]
  BY SMTT(20)
<1> HIDE DEF p
<1>2. CASE here
  <2>1. PICK i \in DOMAIN q : q[i] = Msg(type, n) /\ \A j \in DOMAIN q \ {i} : q[j].type # type
    BY <1>2 DEF Holds, One
  <2>2. q[i].type = type
    BY <2>1 DEF Msg
  <2>3. i - 1 \in DOMAIN p /\ p[i - 1] = Msg(type, n) /\ \A j \in DOMAIN p \ {i - 1} : p[j].type # type
    BY <1>1, <2>1, <2>2, SMTT(20)
  <2> QED BY <1>2, <2>3 DEF Holds, One, p
<1>3. CASE ~here
  <2>1. \A i \in DOMAIN p : p[i].type # type
    BY <1>1, <1>3, SMTT(20) DEF Holds, None
  <2> QED BY <1>3, <2>1 DEF Holds, None, p
<1> QED BY <1>2, <1>3

\* The head of a channel goes, and it is the token.
LEMMA NoneHead ==
  ASSUME NEW S, NEW q \in Seq(S), q # <<>>, NEW type, None(q, type)
  PROVE  Head(q).type # type
<1>1. 1 \in DOMAIN q /\ Head(q) = q[1]
  BY SMTT(20)
<1> QED BY <1>1 DEF None

LEMMA OneTaken ==
  ASSUME NEW S, NEW q \in Seq(S), q # <<>>, NEW type, NEW n,
         One(q, type, n), Head(q).type = type
  PROVE  Head(q) = Msg(type, n) /\ None(Tail(q), type)
<1> DEFINE p == Tail(q)
<1>1. /\ Len(q) \in Nat /\ Len(q) >= 1 /\ DOMAIN q = 1..Len(q) /\ DOMAIN p = 1..(Len(q) - 1)
      /\ Head(q) = q[1] /\ \A i \in 1..(Len(q) - 1) : p[i] = q[i + 1]
  BY SMTT(20)
<1> HIDE DEF p
<1>2. PICK i \in DOMAIN q : q[i] = Msg(type, n) /\ \A j \in DOMAIN q \ {i} : q[j].type # type
  BY DEF One
<1>3. i = 1
  BY <1>1, <1>2, SMTT(20)
<1>4. \A j \in DOMAIN p : p[j].type # type
  BY <1>1, <1>2, <1>3, SMTT(20)
<1> QED BY <1>1, <1>2, <1>3, <1>4 DEF None, p

-----------------------------------------------------------------------------
(* Types.                                                                  *)

\* The messages that go up or down, by what is sent.
LEMMA MsgTypes ==
  ASSUME NEW n \in Nat, NEW type \in {"offer", "answer"}
  PROVE  /\ Msg(type, n) \in DCMessages
         /\ Msg(type, n) \in WSMessages
         /\ Msg("candidate", n) \in WSMessages
         /\ Msg(type, n).type = type /\ Msg("candidate", n).type = "candidate"
  BY DEF Msg, WSMessages, DCMessages

LEMMA ClientSendsType ==
  ASSUME SigType, NEW n \in Nat, NEW type \in {"offer", "answer"}, clientSends(Msg(type, n))
  PROVE  /\ wsUp' \in Seq(WSMessages)
         /\ dcUp' \in Seq(DCMessages)
         /\ wsDown' = wsDown /\ dcDown' = dcDown
<1>1. Append(wsUp, Msg(type, n)) \in Seq(WSMessages) /\ Append(dcUp, Msg(type, n)) \in Seq(DCMessages)
  BY MsgTypes, Appended DEF SigType
<1> QED BY <1>1, Zenon DEF SigType, clientSends

LEMMA ServerSendsType ==
  ASSUME SigType, NEW n \in Nat, NEW type \in {"offer", "answer"}, NEW dc \in BOOLEAN,
         serverSends(Msg(type, n), dc) \/ serverSends(Msg("candidate", n), FALSE)
  PROVE  /\ wsDown' \in Seq(WSMessages)
         /\ dcDown' \in Seq(DCMessages)
         /\ wsUp' = wsUp /\ dcUp' = dcUp
<1>1. /\ Append(wsDown, Msg(type, n)) \in Seq(WSMessages)
      /\ Append(dcDown, Msg(type, n)) \in Seq(DCMessages)
      /\ Append(wsDown, Msg("candidate", n)) \in Seq(WSMessages)
  BY MsgTypes, Appended DEF SigType
<1> QED BY <1>1, Zenon DEF SigType, serverSends

LEMMA IncomingType ==
  ASSUME SigType, NEW m \in WSMessages, NEW dc \in BOOLEAN,
         handleIncomingSDP(m, dc)
  PROVE  /\ sdpAnswerInCh' \in Seq(Nat) /\ sdpOfferInCh' \in Seq(Offers)
         /\ sdpOfferInCh # <<>> => sdpOfferInCh' # <<>>
         /\ m.type = "offer" => sdpAnswerInCh' = sdpAnswerInCh
<1>1. m.n \in Nat /\ [n |-> m.n, dc |-> dc] \in Offers
  BY DEF WSMessages, Offers
<1>2. /\ Append(sdpOfferInCh, [n |-> m.n, dc |-> dc]) \in Seq(Offers)
      /\ Append(sdpOfferInCh, [n |-> m.n, dc |-> dc]) # <<>>
      /\ Append(sdpAnswerInCh, m.n) \in Seq(Nat)
  BY <1>1, Appended DEF SigType
<1> QED BY <1>2, Zenon DEF SigType, handleIncomingSDP

LEMMA SigTypeInit == Init => SigType /\ StateFacts /\ TokenInv
<1> SUFFICES ASSUME Init PROVE SigType /\ StateFacts /\ TokenInv
  OBVIOUS
<1>1. \A S : <<>> \in Seq(S)
  OBVIOUS
<1>2. SigType
  BY <1>1 DEF Init, SigType
<1>3. StateFacts
  BY DEF Init, StateFacts
<1>4. DOMAIN <<>> = {}
  BY SMTT(20)
<1>5. TokenAt("nowhere") /\ "nowhere" \in Stations
  BY <1>4 DEF Init, TokenAt, Holds, None, Stations
<1> QED BY <1>2, <1>3, <1>5 DEF TokenInv, Init

\* Steps of the client.
LEMMA ClientType ==
  ASSUME SigType, ChangeTracks \/ Client
  PROVE  SigType'
<1>1. CASE ChangeTracks \/ OnNegotiationNeeded
  BY <1>1, Zenon DEF ChangeTracks, OnNegotiationNeeded, SigType, sVars, netVars
<1>2. CASE MakeOffer \/ SendOffer
  <2>1. cOffers \in Nat /\ cOffers + 1 \in Nat
    BY SMTT(20) DEF SigType
  <2>2. CASE MakeOffer
    BY <2>1, <2>2, Zenon DEF MakeOffer, SigType, sVars, netVars
  <2>3. CASE SendOffer
    BY <2>1, <2>3, ClientSendsType DEF SendOffer, SigType, sVars
  <2> QED BY <1>2, <2>2, <2>3
<1>3. CASE ReadWS
  <2>1. Tail(wsDown) \in Seq(WSMessages) /\ Head(wsDown).n \in Nat
    <3>1. Tail(wsDown) \in Seq(WSMessages) /\ Head(wsDown) \in WSMessages
      BY <1>3, HeadTail, Zenon DEF ReadWS, SigType
    <3> QED BY <3>1 DEF WSMessages
  <2>2. cState' \in {"stable", "offered", "answering"} /\ answering' \in [{"ws", "dc"} -> Nat]
        /\ cOffers' = cOffers
    BY <1>3, <2>1, ZenonT(20) DEF ReadWS, SigType, handleOffer, handleAnswer, handleCandidate
  <2> QED BY <1>3, <2>1, <2>2, Zenon DEF ReadWS, SigType, sVars
<1>4. CASE ReadDC
  <2>1. Tail(dcDown) \in Seq(DCMessages) /\ Head(dcDown).n \in Nat
    <3>1. Tail(dcDown) \in Seq(DCMessages) /\ Head(dcDown) \in DCMessages
      BY <1>4, HeadTail, Zenon DEF ReadDC, SigType
    <3> QED BY <3>1 DEF DCMessages
  <2>2. cState' \in {"stable", "offered", "answering"} /\ answering' \in [{"ws", "dc"} -> Nat]
        /\ cOffers' = cOffers
    BY <1>4, <2>1, ZenonT(20) DEF ReadDC, SigType, handleOffer, handleAnswer
  <2> QED BY <1>4, <2>1, <2>2, Zenon DEF ReadDC, SigType, sVars
<1>5. CASE SendICE
  <2>1. Append(wsUp, Msg("candidate", 0)) \in Seq(WSMessages)
    BY MsgTypes, Appended DEF SigType
  <2> QED BY <1>5, <2>1, Zenon DEF SendICE, SigType, sVars
<1>6. ASSUME NEW h \in {"ws", "dc"}, SetAnswer(h) \/ SendAnswer(h) PROVE SigType'
  <2>1. answering[h] \in Nat /\ [answering EXCEPT ![h] = 0] \in [{"ws", "dc"} -> Nat]
    BY DEF SigType
  <2>2. CASE SetAnswer(h)
    BY <2>2, Zenon DEF SetAnswer, SigType, sVars, netVars
  <2>3. CASE SendAnswer(h)
    BY <2>1, <2>3, ClientSendsType DEF SendAnswer, SigType, sVars
  <2> QED BY <1>6, <2>2, <2>3
<1> QED BY <1>1, <1>2, <1>3, <1>4, <1>5, <1>6 DEF Client

\* Steps of the session and of the connection.
LEMMA SessionType ==
  ASSUME SigType, StateFacts,
         \/ Session \/ ReceiveWS \/ ReceiveDC \/ HandleICE \/ OfferFails \/ TimeOut \/ Close
         \/ (\E add \in BOOLEAN : Offer(add)) \/ SendCandidate \/ OpenDC \/ LoseUp \/ LoseDown
  PROVE  SigType'
<1>1. CASE Signal
  <2>1. Tail(sdpOfferInCh) \in Seq(Offers) /\ Head(sdpOfferInCh).n \in Nat
    <3>1. Tail(sdpOfferInCh) \in Seq(Offers) /\ Head(sdpOfferInCh) \in Offers
      BY <1>1, HeadTail, Zenon DEF Signal, SigType
    <3> QED BY <3>1 DEF Offers
  <2> QED BY <1>1, <2>1, ZenonT(20) DEF Signal, SigType, cVars, netVars
<1>2. CASE SignalAnswers
  <2>1. /\ Tail(sdpOfferInCh) \in Seq(Offers)
        /\ Head(sdpOfferInCh).dc \in BOOLEAN /\ handled \in Nat
    <3>1. Tail(sdpOfferInCh) \in Seq(Offers) /\ Head(sdpOfferInCh) \in Offers
      BY <1>2, HeadTail, Zenon DEF SignalAnswers, SigType, StateFacts
    <3> QED BY <3>1 DEF Offers, SigType
  <2>2. /\ wsDown' \in Seq(WSMessages) /\ dcDown' \in Seq(DCMessages)
        /\ wsUp' = wsUp /\ dcUp' = dcUp
    <3>1. serverSends(Msg("answer", handled), Head(sdpOfferInCh).dc)
      BY <1>2 DEF SignalAnswers
    <3> QED BY <2>1, <3>1, ServerSendsType
  <2>3. {sOffers', cOffers', handled', gathered'} \subseteq Nat
    BY <1>2, SMTT(20) DEF SignalAnswers, SigType, cVars
  <2> QED BY <1>2, <2>1, <2>2, <2>3, Zenon DEF SignalAnswers, SigType, cVars
<1>3. CASE TakeAnswer
  <2>1. Tail(sdpAnswerInCh) \in Seq(Nat)
    BY <1>3, HeadTail DEF TakeAnswer, SigType
  <2> QED BY <1>3, <2>1, Zenon DEF TakeAnswer, SigType, cVars, netVars
<1>4. CASE ReceiveWS
  <2>1. Tail(wsUp) \in Seq(WSMessages) /\ Head(wsUp) \in WSMessages
    BY <1>4, HeadTail DEF ReceiveWS, SigType
  <2>2. sdpAnswerInCh' \in Seq(Nat) /\ sdpOfferInCh' \in Seq(Offers)
    BY <1>4, <2>1, IncomingType DEF ReceiveWS, SigType
  <2> QED BY <1>4, <2>1, <2>2, Zenon DEF ReceiveWS, SigType, cVars
<1>5. CASE ReceiveDC
  <2>1. Tail(dcUp) \in Seq(DCMessages) /\ Head(dcUp) \in DCMessages
    BY <1>5, HeadTail DEF ReceiveDC, SigType
  <2>2. Head(dcUp) \in WSMessages
    BY <2>1 DEF WSMessages, DCMessages
  <2>3. sdpAnswerInCh' \in Seq(Nat) /\ sdpOfferInCh' \in Seq(Offers)
    BY <1>5, <2>2, IncomingType DEF ReceiveDC
  <2> QED BY <1>5, <2>1, <2>3, Zenon DEF ReceiveDC, SigType, cVars
<1>6. CASE HandleICE \/ OfferFails
  BY <1>6, Zenon DEF HandleICE, OfferFails, SigType, cVars, netVars
<1>7. CASE TimeOut \/ Close
  BY <1>7, Zenon DEF TimeOut, Close, SigType, cVars, netVars
<1>8. ASSUME NEW add \in BOOLEAN, Offer(add) PROVE SigType'
  <2>1. sOffers + 1 \in Nat /\ DCSignaling \in BOOLEAN
    BY SignalingAssumption, SMTT(20) DEF SigType
  <2> QED BY <1>8, <2>1, ServerSendsType DEF Offer, SigType, cVars
<1>9. CASE SendCandidate
  <2>1. gathered + 1 \in Nat
    BY SMTT(20) DEF SigType
  <2> QED BY <1>9, <2>1, ServerSendsType DEF SendCandidate, SigType, cVars
<1>10. CASE OpenDC
  BY <1>10, Zenon DEF OpenDC, SigType, cVars, sVars
<1>11. CASE LoseUp
  <2>1. Tail(wsUp) \in Seq(WSMessages)
    BY <1>11, HeadTail DEF LoseUp, SigType
  <2> QED BY <1>11, <2>1, Zenon DEF LoseUp, SigType, cVars, sVars
<1>12. CASE LoseDown
  <2>1. Tail(wsDown) \in Seq(WSMessages)
    BY <1>12, HeadTail DEF LoseDown, SigType
  <2> QED BY <1>12, <2>1, Zenon DEF LoseDown, SigType, cVars, sVars
<1> QED BY <1>1, <1>2, <1>3, <1>4, <1>5, <1>6, <1>7, <1>8, <1>9, <1>10, <1>11, <1>12 DEF Session

-----------------------------------------------------------------------------
(* The states of the two ends.                                             *)

LEMMA StateFactsStep ==
  ASSUME SigType, StateFacts, Next
  PROVE  StateFacts'
<1>1. CASE ReceiveWS
  <2>1. Head(wsUp) \in WSMessages
    BY <1>1, HeadTail, Zenon DEF ReceiveWS, SigType
  <2>2. sdpOfferInCh # <<>> => sdpOfferInCh' # <<>>
    BY <1>1, <2>1, IncomingType, Zenon DEF ReceiveWS
  <2> QED BY <1>1, <2>2, Zenon DEF ReceiveWS, StateFacts, cVars, histories
<1>2. CASE ReceiveDC
  <2>1. Head(dcUp) \in DCMessages
    BY <1>2, HeadTail, Zenon DEF ReceiveDC, SigType
  <2>2. Head(dcUp) \in WSMessages
    BY <2>1 DEF WSMessages, DCMessages
  <2>3. sdpOfferInCh # <<>> => sdpOfferInCh' # <<>>
    BY <1>2, <2>2, IncomingType, Zenon DEF ReceiveDC
  <2> QED BY <1>2, <2>3, Zenon DEF ReceiveDC, StateFacts, cVars, histories
<1>3. CASE Session
  <2>1. CASE Signal
    BY <2>1, Zenon DEF Signal, StateFacts, hasSignalingConflict, cVars, histories
  <2>2. CASE SignalAnswers
    BY <2>2, Zenon DEF SignalAnswers, StateFacts, cVars, histories
  <2>3. CASE TakeAnswer
    BY <2>3, Zenon DEF TakeAnswer, StateFacts, cVars
  <2> QED BY <1>3, <2>1, <2>2, <2>3 DEF Session
<1>4. CASE Client \/ ChangeTracks
  <2>1. UNCHANGED sVars
    BY <1>4, Zenon DEF Client, ChangeTracks, OnNegotiationNeeded, MakeOffer, SendOffer, ReadWS, ReadDC,
       SendICE, SetAnswer, SendAnswer
  <2>2. crossed' \/ cState' # "offered" \/ sState' # "offered"
    BY <1>4, <2>1, ZenonT(20) DEF Client, ChangeTracks, OnNegotiationNeeded, MakeOffer, SendOffer, ReadWS,
       ReadDC, SendICE, SetAnswer, SendAnswer, handleOffer, handleAnswer, handleCandidate, StateFacts, sVars,
       histories
  <2> QED BY <2>1, <2>2, Zenon DEF StateFacts, sVars
<1>5. CASE HandleICE \/ OfferFails \/ TimeOut \/ Close \/ SendCandidate \/ OpenDC \/ LoseUp \/ LoseDown
  BY <1>5, Zenon DEF HandleICE, OfferFails, TimeOut, Close, SendCandidate, OpenDC, LoseUp, LoseDown,
     StateFacts, cVars, sVars, histories
<1>6. ASSUME NEW add \in BOOLEAN, Offer(add) PROVE StateFacts'
  BY <1>6, Zenon DEF Offer, StateFacts, cVars
<1> QED BY <1>1, <1>2, <1>3, <1>4, <1>5, <1>6 DEF Next

-----------------------------------------------------------------------------
(* The token.                                                              *)

\* A step that leaves the token where it is.
LEMMA TokenStays ==
  ASSUME NEW w \in Stations, TokenAt(w), sOffers' = sOffers, answering' = answering,
         sdpAnswerInCh' = sdpAnswerInCh,
         Holds(wsDown', "offer", w = "wsDown", sOffers),
         Holds(dcDown', "offer", w = "dcDown", sOffers),
         Holds(wsUp', "answer", w = "wsUp", sOffers),
         Holds(dcUp', "answer", w = "dcUp", sOffers),
         place' = place \/ (place' = "loop" /\ place \in {"start", "loop"}) \/ place' = "done",
         settled' = settled, cState' = "answering" <=> cState = "answering",
         lost => lost', crossed => crossed'
  PROVE  TokenAt(w)'
<1>1. w # "nowhere" => place' \in {"awaiting", "done"} /\ sOffers' # 0
  BY Zenon DEF TokenAt
<1>2. w = "nowhere" /\ place' = "awaiting" => lost' \/ crossed'
  BY Zenon DEF TokenAt
<1>3. \A h \in {"ws", "dc"} : answering'[h] = IF w = h THEN sOffers' ELSE 0
  BY Zenon DEF TokenAt
<1> QED BY <1>1, <1>2, <1>3, Zenon DEF TokenAt, Holds, One, None

\* What the channels hold of the token, piece by piece.
LEMMA TokenParts ==
  ASSUME NEW w \in Stations, TokenAt(w)
  PROVE  /\ Holds(wsDown, "offer", w = "wsDown", sOffers)
         /\ Holds(dcDown, "offer", w = "dcDown", sOffers)
         /\ Holds(wsUp, "answer", w = "wsUp", sOffers)
         /\ Holds(dcUp, "answer", w = "dcUp", sOffers)
         /\ (w = "wsDown") \in BOOLEAN /\ (w = "dcDown") \in BOOLEAN
         /\ (w = "wsUp") \in BOOLEAN /\ (w = "dcUp") \in BOOLEAN
  BY Zenon DEF TokenAt

\* Away from the client's handlers, none of them has an answer to send.
LEMMA NoneSettled ==
  ASSUME NEW w \in Stations, TokenAt(w), w # "ws", w # "dc"
  PROVE  settled = {} /\ cState # "answering"
<1>1. settled = {}
  BY SMTT(20) DEF TokenAt
<1> QED BY <1>1, Zenon DEF TokenAt

\* The steps that send or receive none of the session's offers and their answers.
LEMMA TokenQuiet ==
  ASSUME SigType, StateFacts, NEW w \in Stations, TokenAt(w),
         \/ ChangeTracks \/ OnNegotiationNeeded \/ MakeOffer \/ SendOffer \/ SendICE
         \/ Signal \/ SignalAnswers \/ HandleICE \/ OfferFails \/ Close \/ SendCandidate \/ OpenDC
  PROVE  TokenAt(w)'
<1>1. CASE ChangeTracks \/ OnNegotiationNeeded \/ HandleICE \/ OfferFails \/ Close \/ OpenDC \/ Signal
  <2>1. /\ UNCHANGED <<sOffers, answering, settled, sdpAnswerInCh, wsDown, dcDown, wsUp, dcUp, cState, lost,
                       crossed>>
        /\ place' = place \/ (place' = "loop" /\ place \in {"start", "loop"}) \/ place' = "done"
    BY <1>1, Zenon DEF ChangeTracks, OnNegotiationNeeded, HandleICE, OfferFails, Close, OpenDC, Signal,
       cVars, sVars, netVars, histories
  <2> QED BY <2>1, TokenParts, TokenStays
<1>6. CASE MakeOffer
  <2>1. /\ UNCHANGED <<sOffers, answering, settled, sdpAnswerInCh, wsDown, dcDown, wsUp, dcUp, lost, place>>
        /\ crossed => crossed'
    BY <1>6, Zenon DEF MakeOffer, sVars, netVars
  <2>2. cState' = "answering" <=> cState = "answering"
    BY <1>6, Zenon DEF MakeOffer
  <2> QED BY <2>1, <2>2, TokenParts, TokenStays
<1>2. CASE SendOffer
  <2>1. UNCHANGED <<sOffers, answering, settled, sdpAnswerInCh, wsDown, dcDown, place, lost, crossed, cState>>
    BY <1>2, Zenon DEF SendOffer, clientSends, sVars, histories
  <2>2. \/ wsUp' = Append(wsUp, Msg("offer", cOffers)) /\ dcUp' = dcUp
        \/ wsUp' = wsUp /\ dcUp' = Append(dcUp, Msg("offer", cOffers))
    BY <1>2, Zenon DEF SendOffer, clientSends
  <2>3. cOffers \in Nat
    BY DEF SigType
  <2>4. /\ Msg("offer", cOffers) \in WSMessages /\ Msg("offer", cOffers) \in DCMessages
        /\ Msg("offer", cOffers).type # "answer"
    BY <2>3, MsgTypes
  <2>5. /\ Holds(wsUp', "answer", w = "wsUp", sOffers) /\ Holds(dcUp', "answer", w = "dcUp", sOffers)
    <3>1. wsUp \in Seq(WSMessages) /\ dcUp \in Seq(DCMessages)
      BY DEF SigType
    <3>2. Holds(Append(wsUp, Msg("offer", cOffers)), "answer", w = "wsUp", sOffers)
      BY <2>4, <3>1, TokenParts, HoldsAppend, Zenon
    <3>3. Holds(Append(dcUp, Msg("offer", cOffers)), "answer", w = "dcUp", sOffers)
      BY <2>4, <3>1, TokenParts, HoldsAppend, Zenon
    <3> QED BY <2>2, <3>2, <3>3, TokenParts, Zenon
  <2> QED BY <2>1, <2>5, TokenParts, TokenStays
<1>3. CASE SendICE
  <2>1. /\ UNCHANGED <<sOffers, answering, settled, sdpAnswerInCh, wsDown, dcDown, dcUp, place, cState, lost, crossed>>
        /\ wsUp' = Append(wsUp, Msg("candidate", 0))
    BY <1>3, Zenon DEF SendICE, sVars, histories
  <2>2. Msg("candidate", 0) \in WSMessages /\ Msg("candidate", 0).type # "answer"
    BY MsgTypes
  <2>3. Holds(wsUp', "answer", w = "wsUp", sOffers)
    BY <2>1, <2>2, TokenParts, HoldsAppend DEF SigType
  <2> QED BY <2>1, <2>3, TokenParts, TokenStays
<1>4. CASE SignalAnswers
  <2>1. /\ UNCHANGED <<sOffers, answering, settled, sdpAnswerInCh, wsUp, dcUp, cState, lost, crossed>>
        /\ place' = "loop" /\ place \in {"start", "loop"}
    BY <1>4, Zenon DEF SignalAnswers, serverSends, StateFacts, cVars, histories
  <2>2. \/ wsDown' = Append(wsDown, Msg("answer", handled)) /\ dcDown' = dcDown
        \/ wsDown' = wsDown /\ dcDown' = Append(dcDown, Msg("answer", handled))
    BY <1>4, Zenon DEF SignalAnswers, serverSends
  <2>3. /\ Msg("answer", handled) \in WSMessages /\ Msg("answer", handled) \in DCMessages
        /\ Msg("answer", handled).type # "offer"
    BY MsgTypes DEF SigType
  <2>4. /\ Holds(wsDown', "offer", w = "wsDown", sOffers) /\ Holds(dcDown', "offer", w = "dcDown", sOffers)
    <3>1. wsDown \in Seq(WSMessages) /\ dcDown \in Seq(DCMessages)
      BY DEF SigType
    <3>2. Holds(Append(wsDown, Msg("answer", handled)), "offer", w = "wsDown", sOffers)
      BY <2>3, <3>1, TokenParts, HoldsAppend, Zenon
    <3>3. Holds(Append(dcDown, Msg("answer", handled)), "offer", w = "dcDown", sOffers)
      BY <2>3, <3>1, TokenParts, HoldsAppend, Zenon
    <3> QED BY <2>2, <3>2, <3>3, TokenParts, Zenon
  <2> QED BY <2>1, <2>4, TokenParts, TokenStays
<1>5. CASE SendCandidate
  <2>1. /\ UNCHANGED <<sOffers, answering, settled, sdpAnswerInCh, dcDown, wsUp, dcUp, place, cState, lost, crossed>>
        /\ wsDown' = Append(wsDown, Msg("candidate", gathered + 1))
    BY <1>5, Zenon DEF SendCandidate, serverSends, cVars, histories
  <2>2. gathered + 1 \in Nat
    BY SMTT(20) DEF SigType
  <2>3. Msg("candidate", gathered + 1) \in WSMessages /\ Msg("candidate", gathered + 1).type # "offer"
    BY <2>2, MsgTypes
  <2>4. Holds(wsDown', "offer", w = "wsDown", sOffers)
    BY <2>1, <2>3, TokenParts, HoldsAppend DEF SigType
  <2> QED BY <2>1, <2>4, TokenParts, TokenStays
<1> QED BY <1>1, <1>2, <1>3, <1>4, <1>5, <1>6

\* What the client does with an offer it reads from a channel: answer it, or drop
\* it when it waits for an answer itself.
LEMMA TokenRead ==
  ASSUME SigType, StateFacts, NEW w \in Stations, TokenAt(w), ReadWS \/ ReadDC
  PROVE  \E v \in Stations : TokenAt(v)'
<1>1. CASE ReadWS
  <2>1. /\ wsDown # <<>> /\ wsDown' = Tail(wsDown)
        /\ UNCHANGED <<sOffers, settled, sdpAnswerInCh, dcDown, wsUp, dcUp, place, sState, lost, crossed>>
    BY <1>1, Zenon DEF ReadWS, handleOffer, handleAnswer, handleCandidate, sVars, histories
  <2>2. /\ Head(wsDown) \in WSMessages
        /\ Head(wsDown).type # "offer" => Holds(wsDown', "offer", w = "wsDown", sOffers)
        /\ Head(wsDown).type = "offer" =>
             w = "wsDown" /\ Head(wsDown) = Msg("offer", sOffers) /\ Holds(wsDown', "offer", FALSE, sOffers)
    <3>1. wsDown \in Seq(WSMessages)
      BY DEF SigType
    <3>2. /\ Holds(wsDown, "offer", w = "wsDown", sOffers) /\ (w = "wsDown") \in BOOLEAN
      BY TokenParts
    <3>3. Head(wsDown) \in WSMessages
      BY <2>1, <3>1, HeadTail
    <3>4. ASSUME Head(wsDown).type # "offer" PROVE Holds(Tail(wsDown), "offer", w = "wsDown", sOffers)
      BY <2>1, <3>1, <3>2, <3>4, HoldsTail, Zenon
    <3>5. ASSUME Head(wsDown).type = "offer"
          PROVE  w = "wsDown" /\ Head(wsDown) = Msg("offer", sOffers) /\ None(Tail(wsDown), "offer")
      <4>1. w = "wsDown"
        BY <2>1, <3>1, <3>2, <3>5, NoneHead, Zenon DEF Holds
      <4>2. One(wsDown, "offer", sOffers)
        BY <3>2, <4>1, Zenon DEF Holds
      <4> QED BY <2>1, <3>1, <3>5, <4>1, <4>2, OneTaken, Zenon
    <3> QED BY <2>1, <3>3, <3>4, <3>5 DEF Holds
  <2>3. CASE Head(wsDown).type # "offer"
    <3>1. answering' = answering /\ (cState' = "answering" <=> cState = "answering")
      BY <1>1, <2>3, Zenon DEF ReadWS, handleAnswer, handleCandidate
    <3> QED BY <2>1, <2>2, <2>3, <3>1, TokenParts, TokenStays
  <2>4. CASE Head(wsDown).type = "offer"
    <3>1. w = "wsDown" /\ Head(wsDown).n = sOffers /\ cState # "answering" /\ sOffers # 0
          /\ (\A h \in {"ws", "dc"} : answering[h] = 0) /\ sdpAnswerInCh = <<>>
          /\ place \in {"awaiting", "done"} /\ settled = {}
      <4>1. w = "wsDown" /\ Head(wsDown) = Msg("offer", sOffers)
        BY <2>2, <2>4
      <4>2. Head(wsDown).n = sOffers
        BY <4>1 DEF Msg
      <4>3. w # "ws" /\ w # "dc" /\ w # "inCh" /\ w # "nowhere"
        BY <4>1
      <4> QED BY <4>1, <4>2, <4>3, NoneSettled, Zenon DEF TokenAt
    <3>2. handleOffer(sOffers, "ws")
      BY <1>1, <2>4, <3>1, Zenon DEF ReadWS
    <3>3. CASE cState = "stable"
      <4>1. cState' = "answering" /\ answering'["ws"] = sOffers /\ answering'["dc"] = 0
        BY <3>1, <3>2, <3>3, Zenon DEF handleOffer, SigType
      <4>2. TokenAt("ws")'
        BY <2>1, <2>2, <2>4, <3>1, <4>1, TokenParts, Zenon DEF TokenAt
      <4> QED BY <4>2 DEF Stations
    <3>4. CASE cState # "stable"
      <4>1. cState' = cState /\ answering' = answering
        BY <3>2, <3>4, Zenon DEF handleOffer
      <4>2. place = "awaiting" => crossed
        BY <3>1, <3>4, Zenon DEF StateFacts, SigType
      <4>3. TokenAt("nowhere")'
        BY <2>1, <2>2, <2>4, <3>1, <4>1, <4>2, TokenParts, Zenon DEF TokenAt
      <4> QED BY <4>3 DEF Stations
    <3> QED BY <3>3, <3>4
  <2> QED BY <2>3, <2>4
<1>2. CASE ReadDC
  <2>1. /\ dcDown # <<>> /\ dcDown' = Tail(dcDown)
        /\ UNCHANGED <<sOffers, settled, sdpAnswerInCh, wsDown, wsUp, dcUp, place, sState, lost, crossed>>
    BY <1>2, Zenon DEF ReadDC, handleOffer, handleAnswer, sVars, histories
  <2>2. /\ Head(dcDown) \in DCMessages
        /\ Head(dcDown).type # "offer" => Holds(dcDown', "offer", w = "dcDown", sOffers)
        /\ Head(dcDown).type = "offer" =>
             w = "dcDown" /\ Head(dcDown) = Msg("offer", sOffers) /\ Holds(dcDown', "offer", FALSE, sOffers)
    <3>1. dcDown \in Seq(DCMessages)
      BY DEF SigType
    <3>2. /\ Holds(dcDown, "offer", w = "dcDown", sOffers) /\ (w = "dcDown") \in BOOLEAN
      BY TokenParts
    <3>3. Head(dcDown) \in DCMessages
      BY <2>1, <3>1, HeadTail
    <3>4. ASSUME Head(dcDown).type # "offer" PROVE Holds(Tail(dcDown), "offer", w = "dcDown", sOffers)
      BY <2>1, <3>1, <3>2, <3>4, HoldsTail, Zenon
    <3>5. ASSUME Head(dcDown).type = "offer"
          PROVE  w = "dcDown" /\ Head(dcDown) = Msg("offer", sOffers) /\ None(Tail(dcDown), "offer")
      <4>1. w = "dcDown"
        BY <2>1, <3>1, <3>2, <3>5, NoneHead, Zenon DEF Holds
      <4>2. One(dcDown, "offer", sOffers)
        BY <3>2, <4>1, Zenon DEF Holds
      <4> QED BY <2>1, <3>1, <3>5, <4>1, <4>2, OneTaken, Zenon
    <3> QED BY <2>1, <3>3, <3>4, <3>5 DEF Holds
  <2>3. CASE Head(dcDown).type # "offer"
    <3>1. answering' = answering /\ (cState' = "answering" <=> cState = "answering")
      BY <1>2, <2>3, Zenon DEF ReadDC, handleAnswer
    <3> QED BY <2>1, <2>2, <2>3, <3>1, TokenParts, TokenStays
  <2>4. CASE Head(dcDown).type = "offer"
    <3>1. w = "dcDown" /\ Head(dcDown).n = sOffers /\ cState # "answering" /\ sOffers # 0
          /\ (\A h \in {"ws", "dc"} : answering[h] = 0) /\ sdpAnswerInCh = <<>>
          /\ place \in {"awaiting", "done"} /\ settled = {}
      <4>1. w = "dcDown" /\ Head(dcDown) = Msg("offer", sOffers)
        BY <2>2, <2>4
      <4>2. Head(dcDown).n = sOffers
        BY <4>1 DEF Msg
      <4>3. w # "ws" /\ w # "dc" /\ w # "inCh" /\ w # "nowhere"
        BY <4>1
      <4> QED BY <4>1, <4>2, <4>3, NoneSettled, Zenon DEF TokenAt
    <3>2. handleOffer(sOffers, "dc")
      BY <1>2, <2>4, <3>1, Zenon DEF ReadDC
    <3>3. CASE cState = "stable"
      <4>1. cState' = "answering" /\ answering'["dc"] = sOffers /\ answering'["ws"] = 0
        BY <3>1, <3>2, <3>3, Zenon DEF handleOffer, SigType
      <4>2. TokenAt("dc")'
        BY <2>1, <2>2, <2>4, <3>1, <4>1, TokenParts, Zenon DEF TokenAt
      <4> QED BY <4>2 DEF Stations
    <3>4. CASE cState # "stable"
      <4>1. cState' = cState /\ answering' = answering
        BY <3>2, <3>4, Zenon DEF handleOffer
      <4>2. place = "awaiting" => crossed
        BY <3>1, <3>4, Zenon DEF StateFacts, SigType
      <4>3. TokenAt("nowhere")'
        BY <2>1, <2>2, <2>4, <3>1, <4>1, <4>2, TokenParts, Zenon DEF TokenAt
      <4> QED BY <4>3 DEF Stations
    <3> QED BY <3>3, <3>4
  <2> QED BY <2>3, <2>4
<1> QED BY <1>1, <1>2

\* A handler of the client sets its answer: the token stays with it.
LEMMA TokenSet ==
  ASSUME SigType, NEW w \in Stations, TokenAt(w), NEW h \in {"ws", "dc"}, SetAnswer(h)
  PROVE  TokenAt(w)'
<1>1. /\ answering[h] # 0 /\ cState' = "stable" /\ settled' = settled \cup {h}
      /\ UNCHANGED <<sOffers, answering, sdpAnswerInCh, wsDown, dcDown, wsUp, dcUp, place, lost, crossed>>
  BY Zenon DEF SetAnswer, sVars, netVars, histories
<1>2. w = h
  BY <1>1, Zenon DEF TokenAt
<1>3. settled' \subseteq {w} \cap {"ws", "dc"} /\ w \in settled'
  <2>1. settled \subseteq {w} \cap {"ws", "dc"}
    BY Zenon DEF TokenAt
  <2> QED BY <1>1, <1>2, <2>1, Zenon
<1>4. cState' = "answering" <=> w \in {"ws", "dc"} \ settled'
  BY <1>1, <1>3, SMTT(20)
<1> QED BY <1>1, <1>3, <1>4, Zenon DEF TokenAt, Holds, One, None

\* The answer goes up, and the token with it.
LEMMA TokenAnswered ==
  ASSUME SigType, NEW w \in Stations, TokenAt(w), NEW h \in {"ws", "dc"}, SendAnswer(h)
  PROVE  \E v \in Stations : TokenAt(v)'
<1>1. /\ h \in settled /\ settled' = settled \ {h} /\ answering' = [answering EXCEPT ![h] = 0]
      /\ UNCHANGED <<sOffers, cState, sdpAnswerInCh, wsDown, dcDown, place, lost, crossed>>
  BY Zenon DEF SendAnswer, clientSends, sVars, histories
<1>2. w = h /\ answering[h] = sOffers
  BY <1>1, Zenon DEF TokenAt
<1>11. settled' = {} /\ cState' # "answering"
  <2>1. settled' = {}
    BY <1>1, <1>2, SMTT(20) DEF TokenAt
  <2> QED BY <1>1, <1>2, <2>1, Zenon DEF TokenAt
<1>3. w # "wsDown" /\ w # "dcDown" /\ w # "wsUp" /\ w # "dcUp" /\ w # "inCh" /\ w # "nowhere"
  BY <1>2, Zenon
<1>4. /\ sdpAnswerInCh = <<>> /\ place \in {"awaiting", "done"} /\ sOffers # 0
      /\ \A g \in {"ws", "dc"} : answering[g] = IF w = g THEN sOffers ELSE 0
  BY <1>3, Zenon DEF TokenAt
<1>5. \A g \in {"ws", "dc"} : answering'[g] = 0
  BY <1>1, <1>2, <1>4, Zenon DEF SigType
<1>6. /\ Holds(wsDown, "offer", FALSE, sOffers) /\ Holds(dcDown, "offer", FALSE, sOffers)
      /\ Holds(wsUp, "answer", FALSE, sOffers) /\ Holds(dcUp, "answer", FALSE, sOffers)
  BY <1>3, TokenParts, Zenon DEF Holds
<1>7. sOffers \in Nat /\ wsUp \in Seq(WSMessages) /\ dcUp \in Seq(DCMessages)
  BY DEF SigType
<1>8. Msg("answer", sOffers) \in WSMessages /\ Msg("answer", sOffers) \in DCMessages
  BY <1>7, MsgTypes
<1>9. CASE DCSignaling /\ dcOpen
  <2>1. dcUp' = Append(dcUp, Msg("answer", sOffers)) /\ wsUp' = wsUp
    BY <1>2, <1>9, Zenon DEF SendAnswer, clientSends
  <2>2. Holds(dcUp', "answer", TRUE, sOffers)
    BY <1>6, <1>7, <1>8, <2>1, HoldsPut, Zenon
  <2>3. TokenAt("dcUp")'
    BY <1>1, <1>4, <1>5, <1>6, <1>11, <2>1, <2>2, Zenon DEF TokenAt, Holds
  <2> QED BY <2>3 DEF Stations
<1>10. CASE ~(DCSignaling /\ dcOpen)
  <2>1. wsUp' = Append(wsUp, Msg("answer", sOffers)) /\ dcUp' = dcUp
    BY <1>2, <1>10, Zenon DEF SendAnswer, clientSends
  <2>2. Holds(wsUp', "answer", TRUE, sOffers)
    BY <1>6, <1>7, <1>8, <2>1, HoldsPut, Zenon
  <2>3. TokenAt("wsUp")'
    BY <1>1, <1>4, <1>5, <1>6, <1>11, <2>1, <2>2, Zenon DEF TokenAt, Holds
  <2> QED BY <2>3 DEF Stations
<1> QED BY <1>9, <1>10

\* The session makes an offer: no token is anywhere, and now there is one.
LEMMA TokenOffered ==
  ASSUME SigType, NEW w \in Stations, TokenAt(w), NEW add \in BOOLEAN, Offer(add)
  PROVE  \E v \in Stations : TokenAt(v)'
<1>1. /\ place = "loop" /\ place' = "awaiting" /\ sOffers' = sOffers + 1
      /\ UNCHANGED <<cState, answering, settled, sdpAnswerInCh, wsUp, dcUp, lost>>
  BY Zenon DEF Offer, mayOffer, serverSends, cVars
<1>2. w = "nowhere"
  BY <1>1, Zenon DEF TokenAt
<1>3. /\ sdpAnswerInCh = <<>> /\ cState # "answering" /\ settled = {}
      /\ \A g \in {"ws", "dc"} : answering[g] = 0
  BY <1>2, NoneSettled, Zenon DEF TokenAt
<1>4. /\ Holds(wsDown, "offer", FALSE, sOffers) /\ Holds(dcDown, "offer", FALSE, sOffers)
      /\ Holds(wsUp, "answer", FALSE, sOffers) /\ Holds(dcUp, "answer", FALSE, sOffers)
  BY <1>2, TokenParts, Zenon DEF Holds
<1>5. sOffers \in Nat /\ wsDown \in Seq(WSMessages) /\ dcDown \in Seq(DCMessages)
  BY DEF SigType
<1>6. sOffers + 1 \in Nat /\ sOffers + 1 # 0
  BY <1>5, SMTT(20)
<1>7. Msg("offer", sOffers + 1) \in WSMessages /\ Msg("offer", sOffers + 1) \in DCMessages
  BY <1>6, MsgTypes
<1>8. CASE DCSignaling
  <2>1. dcDown' = Append(dcDown, Msg("offer", sOffers + 1)) /\ wsDown' = wsDown
    BY <1>8, Zenon DEF Offer, serverSends
  <2>2. Holds(dcDown', "offer", TRUE, sOffers + 1)
    BY <1>4, <1>5, <1>7, <2>1, HoldsPut, Zenon
  <2>3. TokenAt("dcDown")'
    BY <1>1, <1>3, <1>4, <1>6, <2>1, <2>2, Zenon DEF TokenAt, Holds
  <2> QED BY <2>3 DEF Stations
<1>9. CASE ~DCSignaling
  <2>1. wsDown' = Append(wsDown, Msg("offer", sOffers + 1)) /\ dcDown' = dcDown
    BY <1>9, Zenon DEF Offer, serverSends
  <2>2. Holds(wsDown', "offer", TRUE, sOffers + 1)
    BY <1>4, <1>5, <1>7, <2>1, HoldsPut, Zenon
  <2>3. TokenAt("wsDown")'
    BY <1>1, <1>3, <1>4, <1>6, <2>1, <2>2, Zenon DEF TokenAt, Holds
  <2> QED BY <2>3 DEF Stations
<1> QED BY <1>8, <1>9

\* The session takes the answer, and it is the one to its last offer.
LEMMA TokenTaken ==
  ASSUME SigType, ~misfit, NEW w \in Stations, TokenAt(w), TakeAnswer
  PROVE  ~misfit' /\ \E v \in Stations : TokenAt(v)'
<1>1. /\ sdpAnswerInCh # <<>> /\ sdpAnswerInCh' = Tail(sdpAnswerInCh) /\ place' = "loop"
      /\ misfit' = (misfit \/ Head(sdpAnswerInCh) # sOffers)
      /\ UNCHANGED <<sOffers, cState, answering, settled, wsUp, dcUp, wsDown, dcDown, lost, crossed>>
  BY Zenon DEF TakeAnswer, cVars, netVars
<1>2. w = "inCh" /\ sdpAnswerInCh = <<sOffers>>
  BY <1>1, Zenon DEF TokenAt
<1>3. Head(sdpAnswerInCh) = sOffers /\ Tail(sdpAnswerInCh) = <<>>
  BY <1>2, SMTT(20)
<1>4. /\ Holds(wsDown, "offer", FALSE, sOffers) /\ Holds(dcDown, "offer", FALSE, sOffers)
      /\ Holds(wsUp, "answer", FALSE, sOffers) /\ Holds(dcUp, "answer", FALSE, sOffers)
  BY <1>2, TokenParts, Zenon DEF Holds
<1>5. cState # "answering" /\ settled = {} /\ \A g \in {"ws", "dc"} : answering[g] = 0
  BY <1>2, NoneSettled, Zenon DEF TokenAt
<1>6. TokenAt("nowhere")'
  BY <1>1, <1>3, <1>4, <1>5, Zenon DEF TokenAt, Holds
<1>7. ~misfit'
  BY <1>1, <1>3
<1> QED BY <1>6, <1>7 DEF Stations

\* A message is lost on the websocket, the token perhaps.
LEMMA TokenLost ==
  ASSUME SigType, NEW w \in Stations, TokenAt(w), LoseUp \/ LoseDown
  PROVE  \E v \in Stations : TokenAt(v)'
<1>1. CASE LoseUp
  <2>1. /\ wsUp # <<>> /\ wsUp' = Tail(wsUp) /\ lost'
        /\ UNCHANGED <<sOffers, cState, answering, settled, sdpAnswerInCh, place, wsDown, dcUp, dcDown, crossed>>
    BY <1>1, Zenon DEF LoseUp, cVars, sVars
  <2>2. wsUp \in Seq(WSMessages)
    BY DEF SigType
  <2>3. Holds(wsUp, "answer", w = "wsUp", sOffers) /\ (w = "wsUp") \in BOOLEAN
    BY TokenParts
  <2>4. Head(wsUp) \in WSMessages
    BY <2>1, <2>2, HeadTail
  <2>5. CASE Head(wsUp).type # "answer"
    <3>1. Holds(Tail(wsUp), "answer", w = "wsUp", sOffers)
      BY <2>1, <2>2, <2>3, <2>5, HoldsTail, Zenon
    <3> QED BY <2>1, <3>1, TokenParts, TokenStays
  <2>6. CASE Head(wsUp).type = "answer"
    <3>1. w = "wsUp"
      BY <2>1, <2>2, <2>3, <2>6, NoneHead, Zenon DEF Holds
    <3>2. One(wsUp, "answer", sOffers)
      BY <2>3, <3>1, Zenon DEF Holds
    <3>3. Head(wsUp) = Msg("answer", sOffers) /\ None(Tail(wsUp), "answer")
      BY <2>1, <2>2, <2>6, <3>2, OneTaken, Zenon
    <3>4. w # "ws" /\ w # "dc" /\ w # "inCh" /\ w # "nowhere"
      BY <3>1, Zenon
    <3>5. /\ sdpAnswerInCh = <<>> /\ place \in {"awaiting", "done"} /\ sOffers # 0
          /\ cState # "answering" /\ settled = {} /\ \A g \in {"ws", "dc"} : answering[g] = 0
      BY <3>4, NoneSettled, Zenon DEF TokenAt
    <3>6. TokenAt("nowhere")'
      BY <2>1, <3>1, <3>3, <3>5, TokenParts, Zenon DEF TokenAt, Holds
    <3> QED BY <3>6 DEF Stations
  <2> QED BY <2>5, <2>6
<1>2. CASE LoseDown
  <2>1. /\ wsDown # <<>> /\ wsDown' = Tail(wsDown) /\ lost'
        /\ UNCHANGED <<sOffers, cState, answering, settled, sdpAnswerInCh, place, wsUp, dcUp, dcDown, crossed>>
    BY <1>2, Zenon DEF LoseDown, cVars, sVars
  <2>2. wsDown \in Seq(WSMessages)
    BY DEF SigType
  <2>3. Holds(wsDown, "offer", w = "wsDown", sOffers) /\ (w = "wsDown") \in BOOLEAN
    BY TokenParts
  <2>4. Head(wsDown) \in WSMessages
    BY <2>1, <2>2, HeadTail
  <2>5. CASE Head(wsDown).type # "offer"
    <3>1. Holds(Tail(wsDown), "offer", w = "wsDown", sOffers)
      BY <2>1, <2>2, <2>3, <2>5, HoldsTail, Zenon
    <3> QED BY <2>1, <3>1, TokenParts, TokenStays
  <2>6. CASE Head(wsDown).type = "offer"
    <3>1. w = "wsDown"
      BY <2>1, <2>2, <2>3, <2>6, NoneHead, Zenon DEF Holds
    <3>2. One(wsDown, "offer", sOffers)
      BY <2>3, <3>1, Zenon DEF Holds
    <3>3. Head(wsDown) = Msg("offer", sOffers) /\ None(Tail(wsDown), "offer")
      BY <2>1, <2>2, <2>6, <3>2, OneTaken, Zenon
    <3>4. w # "ws" /\ w # "dc" /\ w # "inCh" /\ w # "nowhere"
      BY <3>1, Zenon
    <3>5. /\ sdpAnswerInCh = <<>> /\ place \in {"awaiting", "done"} /\ sOffers # 0
          /\ cState # "answering" /\ settled = {} /\ \A g \in {"ws", "dc"} : answering[g] = 0
      BY <3>4, NoneSettled, Zenon DEF TokenAt
    <3>6. TokenAt("nowhere")'
      BY <2>1, <3>1, <3>3, <3>5, TokenParts, Zenon DEF TokenAt, Holds
    <3> QED BY <3>6 DEF Stations
  <2> QED BY <2>5, <2>6
<1> QED BY <1>1, <1>2

\* The session receives a message: the answer goes to sdpAnswerInCh, which is empty.
LEMMA TokenReceived ==
  ASSUME SigType, NEW w \in Stations, TokenAt(w), ReceiveWS \/ ReceiveDC
  PROVE  \E v \in Stations : TokenAt(v)'
<1>1. CASE ReceiveWS
  <2>1. /\ wsUp # <<>> /\ wsUp' = Tail(wsUp)
        /\ UNCHANGED <<sOffers, cState, answering, settled, place, wsDown, dcUp, dcDown, lost, crossed>>
    BY <1>1, Zenon DEF ReceiveWS, cVars, histories
  <2>2. wsUp \in Seq(WSMessages)
    BY DEF SigType
  <2>3. Holds(wsUp, "answer", w = "wsUp", sOffers) /\ (w = "wsUp") \in BOOLEAN
    BY TokenParts
  <2>4. Head(wsUp) \in WSMessages
    BY <2>1, <2>2, HeadTail
  <2>5. CASE Head(wsUp).type # "answer"
    <3>1. Holds(Tail(wsUp), "answer", w = "wsUp", sOffers)
      BY <2>1, <2>2, <2>3, <2>5, HoldsTail, Zenon
    <3>2. sdpAnswerInCh' = sdpAnswerInCh
      <4>1. Head(wsUp).type = "offer" \/ Head(wsUp).type = "candidate"
        BY <2>4, <2>5, SMTT(20) DEF WSMessages
      <4> QED BY <1>1, <4>1, Zenon DEF ReceiveWS, handleIncomingSDP
    <3> QED BY <2>1, <3>1, <3>2, TokenParts, TokenStays
  <2>6. CASE Head(wsUp).type = "answer"
    <3>1. w = "wsUp"
      BY <2>1, <2>2, <2>3, <2>6, NoneHead, Zenon DEF Holds
    <3>2. One(wsUp, "answer", sOffers)
      BY <2>3, <3>1, Zenon DEF Holds
    <3>3. Head(wsUp) = Msg("answer", sOffers) /\ None(Tail(wsUp), "answer")
      BY <2>1, <2>2, <2>6, <3>2, OneTaken, Zenon
    <3>4. w # "ws" /\ w # "dc" /\ w # "inCh" /\ w # "nowhere"
      BY <3>1, Zenon
    <3>5. /\ sdpAnswerInCh = <<>> /\ place \in {"awaiting", "done"} /\ sOffers # 0
          /\ cState # "answering" /\ settled = {} /\ \A g \in {"ws", "dc"} : answering[g] = 0
      BY <3>4, NoneSettled, Zenon DEF TokenAt
    <3>6. Head(wsUp).n = sOffers
      BY <3>3 DEF Msg
    <3>7. Len(sdpAnswerInCh) # SignalChSize /\ Append(<<>>, sOffers) = <<sOffers>>
      BY <3>5, SignalingAssumption, SMTT(20)
    <3>8. sdpAnswerInCh' = <<sOffers>>
      BY <1>1, <2>6, <3>5, <3>6, <3>7, Zenon DEF ReceiveWS, handleIncomingSDP
    <3>9. TokenAt("inCh")'
      BY <2>1, <3>1, <3>3, <3>5, <3>8, TokenParts, Zenon DEF TokenAt, Holds
    <3> QED BY <3>9 DEF Stations
  <2> QED BY <2>5, <2>6
<1>2. CASE ReceiveDC
  <2>1. /\ dcUp # <<>> /\ dcUp' = Tail(dcUp)
        /\ UNCHANGED <<sOffers, cState, answering, settled, place, wsUp, wsDown, dcDown, lost, crossed>>
    BY <1>2, Zenon DEF ReceiveDC, cVars, histories
  <2>2. dcUp \in Seq(DCMessages)
    BY DEF SigType
  <2>3. Holds(dcUp, "answer", w = "dcUp", sOffers) /\ (w = "dcUp") \in BOOLEAN
    BY TokenParts
  <2>4. Head(dcUp) \in DCMessages
    BY <2>1, <2>2, HeadTail
  <2>5. CASE Head(dcUp).type # "answer"
    <3>1. Holds(Tail(dcUp), "answer", w = "dcUp", sOffers)
      BY <2>1, <2>2, <2>3, <2>5, HoldsTail, Zenon
    <3>2. sdpAnswerInCh' = sdpAnswerInCh
      <4>1. Head(dcUp).type = "offer"
        BY <2>4, <2>5, SMTT(20) DEF DCMessages
      <4> QED BY <1>2, <4>1, Zenon DEF ReceiveDC, handleIncomingSDP
    <3> QED BY <2>1, <3>1, <3>2, TokenParts, TokenStays
  <2>6. CASE Head(dcUp).type = "answer"
    <3>1. w = "dcUp"
      BY <2>1, <2>2, <2>3, <2>6, NoneHead, Zenon DEF Holds
    <3>2. One(dcUp, "answer", sOffers)
      BY <2>3, <3>1, Zenon DEF Holds
    <3>3. Head(dcUp) = Msg("answer", sOffers) /\ None(Tail(dcUp), "answer")
      BY <2>1, <2>2, <2>6, <3>2, OneTaken, Zenon
    <3>4. w # "ws" /\ w # "dc" /\ w # "inCh" /\ w # "nowhere"
      BY <3>1, Zenon
    <3>5. /\ sdpAnswerInCh = <<>> /\ place \in {"awaiting", "done"} /\ sOffers # 0
          /\ cState # "answering" /\ settled = {} /\ \A g \in {"ws", "dc"} : answering[g] = 0
      BY <3>4, NoneSettled, Zenon DEF TokenAt
    <3>6. Head(dcUp).n = sOffers
      BY <3>3 DEF Msg
    <3>7. Len(sdpAnswerInCh) # SignalChSize /\ Append(<<>>, sOffers) = <<sOffers>>
      BY <3>5, SignalingAssumption, SMTT(20)
    <3>8. sdpAnswerInCh' = <<sOffers>>
      BY <1>2, <2>6, <3>5, <3>6, <3>7, Zenon DEF ReceiveDC, handleIncomingSDP
    <3>9. TokenAt("inCh")'
      BY <2>1, <3>1, <3>3, <3>5, <3>8, TokenParts, Zenon DEF TokenAt, Holds
    <3> QED BY <3>9 DEF Stations
  <2> QED BY <2>5, <2>6
<1> QED BY <1>1, <1>2

LEMMA SigStep ==
  ASSUME SigInv, [Next]_vars
  PROVE  SigInv'
<1>1. CASE UNCHANGED vars
  <2>1. SigType' /\ StateFacts'
    BY <1>1, Zenon DEF vars, cVars, sVars, netVars, SigInv, SigType, StateFacts, histories
  <2>2. UNCHANGED <<timedOut, misfit, lost, crossed, sOffers, answering, settled, sdpAnswerInCh, wsDown, dcDown,
                    wsUp, dcUp, place, cState>>
    BY <1>1, Zenon DEF vars, cVars, sVars, netVars, histories
  <2>3. \A w \in Stations : TokenAt(w) => TokenAt(w)'
    BY <2>2, TokenParts, TokenStays
  <2> QED BY <2>1, <2>2, <2>3, Zenon DEF SigInv, TokenInv
<1>2. CASE Next
  <2>1. SigType'
    BY <1>2, ClientType, SessionType, Zenon DEF SigInv, Next
  <2>2. StateFacts'
    BY <1>2, StateFactsStep DEF SigInv
  <2>3. timedOut => timedOut'
    BY <1>2, Zenon DEF Next, Client, Session, ChangeTracks, OnNegotiationNeeded, MakeOffer, SendOffer,
       ReadWS, ReadDC, SendICE, SetAnswer, SendAnswer, Signal, SignalAnswers, TakeAnswer, ReceiveWS, ReceiveDC, HandleICE,
       OfferFails, TimeOut, Close, Offer, SendCandidate, OpenDC, LoseUp, LoseDown, histories
  <2>4. ASSUME ~timedOut' PROVE ~misfit' /\ \E v \in Stations : TokenAt(v)'
    <3>1. SigType /\ StateFacts /\ ~misfit
      BY <2>3, <2>4 DEF SigInv, TokenInv
    <3>2. PICK w \in Stations : TokenAt(w)
      BY <2>3, <2>4 DEF SigInv, TokenInv
    <3>3. CASE TakeAnswer
      BY <3>1, <3>2, <3>3, TokenTaken, Zenon
    <3>4. CASE ~TakeAnswer
      <4>1. ~TimeOut
        BY <2>4, Zenon DEF TimeOut
      <4>2. ~misfit'
        BY <1>2, <3>1, <3>4, <4>1, Zenon DEF Next, Client, Session, ChangeTracks, OnNegotiationNeeded,
           MakeOffer, SendOffer, ReadWS, ReadDC, SendICE, SetAnswer, SendAnswer, Signal, SignalAnswers, ReceiveWS, ReceiveDC,
           HandleICE, OfferFails, Close, Offer, SendCandidate, OpenDC, LoseUp, LoseDown, histories
      <4>3. CASE ReadWS \/ ReadDC
        BY <3>1, <3>2, <4>2, <4>3, TokenRead, Zenon
      <4>4. CASE \E h \in {"ws", "dc"} : SetAnswer(h) \/ SendAnswer(h)
        BY <3>1, <3>2, <4>2, <4>4, TokenSet, TokenAnswered, Zenon
      <4>5. CASE \E add \in BOOLEAN : Offer(add)
        BY <3>1, <3>2, <4>2, <4>5, TokenOffered, Zenon
      <4>6. CASE LoseUp \/ LoseDown
        BY <3>1, <3>2, <4>2, <4>6, TokenLost, Zenon
      <4>7. CASE ReceiveWS \/ ReceiveDC
        BY <3>1, <3>2, <4>2, <4>7, TokenReceived, Zenon
      <4>8. CASE \/ ChangeTracks \/ OnNegotiationNeeded \/ MakeOffer \/ SendOffer \/ SendICE
                 \/ Signal \/ SignalAnswers \/ HandleICE \/ OfferFails \/ Close \/ SendCandidate \/ OpenDC
        BY <3>1, <3>2, <4>2, <4>8, TokenQuiet, Zenon
      <4> QED
        BY <1>2, <3>4, <4>1, <4>2, <4>3, <4>4, <4>5, <4>6, <4>7, <4>8, Zenon DEF Next, Client, Session
    <3> QED BY <3>3, <3>4
  <2> QED BY <2>1, <2>2, <2>4 DEF SigInv, TokenInv
<1> QED BY <1>1, <1>2

\* The inductive invariant: one token, and the states of the two ends.
THEOREM SignalingInvariant == Spec => []SigInv
<1>1. Init => SigInv
  BY SigTypeInit DEF SigInv
<1>2. SigInv /\ [Next]_vars => SigInv'
  BY SigStep
<1> QED BY <1>1, <1>2, PTL DEF Spec

\* An answer the session takes is the one to the offer it made last, unless it
\* gave up on an earlier one (addTrack, removeTrack, handleIncomingSDP).
THEOREM AnswersFit == Spec => []AnswerFits
<1>1. SigInv => AnswerFits
  BY DEF SigInv, TokenInv, AnswerFits
<1> QED BY <1>1, SignalingInvariant, PTL

\* While the session waits for an answer, the offer, the answer or the handler
\* that makes it is there, unless something was lost, the offers crossed, or
\* the session gave up before.
THEOREM AwaitedStaysThere == Spec => []AwaitedIsThere
<1>1. SigInv => AwaitedIsThere
  <2> SUFFICES ASSUME SigInv, place = "awaiting", ~lost, ~crossed, ~timedOut
               PROVE  \/ sOffers \in {answering["ws"], answering["dc"]}
                      \/ Msg("offer", sOffers) \in Range(wsDown) \cup Range(dcDown)
                      \/ Msg("answer", sOffers) \in Range(wsUp) \cup Range(dcUp)
                      \/ sOffers \in Range(sdpAnswerInCh)
    BY DEF AwaitedIsThere
  <2>1. PICK w \in Stations : TokenAt(w)
    BY DEF SigInv, TokenInv
  <2>2. w # "nowhere"
    BY <2>1, Zenon DEF TokenAt
  <2>3. \A q, type, n : One(q, type, n) => Msg(type, n) \in Range(q)
    BY Zenon DEF One, Range
  <2>4. w \in {"wsDown", "dcDown"} => Msg("offer", sOffers) \in Range(wsDown) \cup Range(dcDown)
    BY <2>1, <2>3, TokenParts, Zenon DEF Holds
  <2>5. w \in {"wsUp", "dcUp"} => Msg("answer", sOffers) \in Range(wsUp) \cup Range(dcUp)
    BY <2>1, <2>3, TokenParts, Zenon DEF Holds
  <2>6. w \in {"ws", "dc"} => sOffers \in {answering["ws"], answering["dc"]}
    BY <2>1, Zenon DEF TokenAt
  <2>7. w = "inCh" => sOffers \in Range(sdpAnswerInCh)
    <3>1. sOffers \in Range(<<sOffers>>)
      BY SMTT(20) DEF Range
    <3> QED BY <2>1, <3>1, Zenon DEF TokenAt
  <2> QED BY <2>2, <2>4, <2>5, <2>6, <2>7, Zenon DEF Stations
<1> QED BY <1>1, SignalingInvariant, PTL
==============================================================================
