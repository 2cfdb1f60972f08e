----------------------- MODULE SessionRegistryProofs ------------------------
(***************************************************************************)
(* Theorems about the session registry, for any sets of joins, closers and *)
(* IDs and any session configurations.                                     *)
(*                                                                         *)
(* The first part holds in all behaviours, races lost included: types, the *)
(* end of a session (CloseInv), the drain and what an empty call or group  *)
(* waits for (ShellInv).  The second holds as long as no race is lost:     *)
(* every session has one owner (RegistryInv).  The third shows that the    *)
(* registry implements SessionLifecycle: under the mapping that reads the  *)
(* stage of a session off its InitSession, its slot in the call and its    *)
(* callback, every step is a step of the abstract specification or leaves  *)
(* it as it was.                                                           *)
(***************************************************************************)
EXTENDS SessionRegistry, TLAPS

USE ZenonT(3), SMTT(20) DEF Threads, Obj, gid, cid, sid

\* A SessionConfig names a group, a call and a session.
LEMMA ConfigTypes ==
  \A j \in Joins : gid(j) \in GroupIDs /\ cid(j) \in CallIDs /\ sid(j) \in SessionIDs
  BY CfgAssumption

\* What the start of a CloseSession does to the negotiation goroutines: at most
\* the one that runs it moves on.
NegKept ==
  /\ neg' \in [Joins -> NegPC]
  /\ \A i \in Joins : neg'[i] = neg[i] \/ neg'[i] \in {"closing", "exit"}

\* The steps of the registry, with CloseSession split by whether it takes a session.
LEMMA StepCases ==
  ASSUME TypeOK, [Next]_vars
  PROVE  \/ \E j \in Joins :
              \/ InitSession(j) \/ InitFails(j) \/ AddGetGroup(j) \/ AddGetCall(j)
              \/ AddToCall(j) \/ AddRefused(j) \/ AddRegister(j) \/ InitGetGroup(j)
              \/ InitNilGroup(j) \/ InitGetCall(j) \/ FirstOffer(j)
              \/ FirstOfferNilCall(j) \/ SignalingFails(j) \/ NegotiationsEnd(j)
              \/ SendAfterStop(j)
         \/ \E t \in Threads, s \in SessionIDs :
              NegKept /\ (closeTakes(t, s) \/ closeIgnores(t, s))
         \/ \E t \in Threads :
              \/ CloseGetGroup(t) \/ CloseGetCall(t) \/ CloseGetSession(t)
              \/ CloseNotFound(t) \/ CloseDetach(t) \/ CloseSignal(t)
              \/ CloseTwice(t) \/ CloseWait(t)
         \/ Stop \/ StopDrained \/ UNCHANGED vars
<1>1. neg \in [Joins -> NegPC]
  BY DEF TypeOK
<1>2. ASSUME NEW t \in Closers, NEW s \in SessionIDs, CloseSession(t, s)
      PROVE  t \in Threads /\ NegKept /\ (closeTakes(t, s) \/ closeIgnores(t, s))
  BY <1>1, <1>2 DEF CloseSession, NegKept
<1>3. ASSUME NEW j \in Joins, CloseFailed(j)
      PROVE  NegKept /\ closeTakes(j, sid(j))
  BY <1>1, <1>3 DEF CloseFailed, NegKept, NegPC
<1>4. ASSUME NEW j \in Joins, CloseFailedGone(j)
      PROVE  NegKept /\ closeIgnores(j, sid(j))
  BY <1>1, <1>4 DEF CloseFailedGone, NegKept, NegPC
<1>5. Joins \subseteq Threads /\ \A j \in Joins : sid(j) \in SessionIDs
  BY ConfigTypes
<1> HIDE DEF Threads, sid
<1> QED
  BY <1>2, <1>3, <1>4, <1>5 DEF Next, InitStep, CloseStep, NegStep, Dead

\* Every action keeps the variables in their types, and keeps set the pointers
\* that the goroutine is about to follow.
LEMMA TypeStep == TypeOK /\ [Next]_vars => TypeOK'
<1> SUFFICES ASSUME TypeOK, [Next]_vars PROVE TypeOK'
  OBVIOUS
<1> USE ConfigTypes, NilAssumption, ThreadAssumption, StopAssumption
<1> USE DEF TypeOK, InitPC, ClosePC, NegPC, regVars, initVars, closeVars, sessVars, stopVars
<1>1. ASSUME NEW j \in Joins, InitSession(j) PROVE TypeOK'
  BY <1>1 DEF InitSession, initAt
<1>2. ASSUME NEW j \in Joins, InitFails(j) PROVE TypeOK'
  BY <1>2 DEF InitFails, initAt
<1>3. ASSUME NEW j \in Joins, AddGetGroup(j) PROVE TypeOK'
  BY <1>3, ZenonT(30) DEF AddGetGroup, initAt
<1>4. ASSUME NEW j \in Joins, AddGetCall(j) PROVE TypeOK'
  BY <1>4 DEF AddGetCall, initAt
<1>5. ASSUME NEW j \in Joins, AddToCall(j) PROVE TypeOK'
  BY <1>5, ZenonT(30) DEF AddToCall, initAt
<1>6. ASSUME NEW j \in Joins, AddRefused(j) PROVE TypeOK'
  BY <1>6 DEF AddRefused, initAt
<1>7. ASSUME NEW j \in Joins, AddRegister(j) PROVE TypeOK'
  BY <1>7 DEF AddRegister, initAt
<1>8. ASSUME NEW j \in Joins, InitGetGroup(j) PROVE TypeOK'
  BY <1>8 DEF InitGetGroup, initAt
<1>9. ASSUME NEW j \in Joins, InitNilGroup(j) PROVE TypeOK'
  BY <1>9 DEF InitNilGroup, initAt
<1>10. ASSUME NEW j \in Joins, InitGetCall(j) PROVE TypeOK'
  BY <1>10 DEF InitGetCall, initAt
<1>11. ASSUME NEW t \in Threads, NEW s \in SessionIDs, closeTakes(t, s), NegKept PROVE TypeOK'
  BY <1>11, ZenonT(30) DEF closeTakes, closeLookup, withoutEntry, drainAfter, takenEarly, closeAt, NegKept
<1>12. ASSUME NEW t \in Threads, NEW s \in SessionIDs, closeIgnores(t, s), NegKept PROVE TypeOK'
  BY <1>12 DEF closeIgnores, closeLookup, withoutEntry, drainAfter, closeAt, NegKept
<1>13. ASSUME NEW t \in Threads, CloseGetGroup(t) PROVE TypeOK'
  BY <1>13 DEF CloseGetGroup, closeAt
<1>14. ASSUME NEW t \in Threads, CloseGetCall(t) PROVE TypeOK'
  BY <1>14 DEF CloseGetCall, closeAt
<1>15. ASSUME NEW t \in Threads, CloseGetSession(t) PROVE TypeOK'
  BY <1>15 DEF CloseGetSession, closeAt
<1>16. ASSUME NEW t \in Threads, CloseNotFound(t) PROVE TypeOK'
  BY <1>16 DEF CloseNotFound, closeAt, closeReturns, notFound
<1>17. ASSUME NEW t \in Threads, CloseDetach(t) PROVE TypeOK'
  BY <1>17, ZenonT(30) DEF CloseDetach, closeAt
<1>18. ASSUME NEW t \in Threads, CloseSignal(t) PROVE TypeOK'
  BY <1>18 DEF CloseSignal, closeAt
<1>19. ASSUME NEW t \in Threads, CloseTwice(t) PROVE TypeOK'
  BY <1>19 DEF CloseTwice, closeAt
<1>20. ASSUME NEW t \in Threads, CloseWait(t) PROVE TypeOK'
  BY <1>20 DEF CloseWait, closeAt, closeReturns, signalingDone
<1>21. ASSUME NEW j \in Joins, FirstOffer(j) PROVE TypeOK'
  BY <1>21 DEF FirstOffer, negIn
<1>22. ASSUME NEW j \in Joins, FirstOfferNilCall(j) PROVE TypeOK'
  BY <1>22 DEF FirstOfferNilCall, negIn
<1>23. ASSUME NEW j \in Joins, SignalingFails(j) PROVE TypeOK'
  BY <1>23 DEF SignalingFails, negIn
<1>24. ASSUME NEW j \in Joins, NegotiationsEnd(j) PROVE TypeOK'
  BY <1>24 DEF NegotiationsEnd, negIn
<1>25. CASE Stop
  BY <1>25 DEF Stop
<1>26. CASE StopDrained
  BY <1>26 DEF StopDrained
<1>27. ASSUME NEW j \in Joins, SendAfterStop(j) PROVE TypeOK'
  BY <1>27 DEF SendAfterStop
<1>28. CASE UNCHANGED vars
  BY <1>28 DEF vars
<1> HIDE DEF TypeOK, InitPC, ClosePC, NegPC, regVars, initVars, closeVars, sessVars, stopVars
<1> QED
  BY StepCases, <1>1, <1>2, <1>3, <1>4, <1>5, <1>6, <1>7, <1>8, <1>9, <1>10, <1>11,
     <1>12, <1>13, <1>14, <1>15, <1>16, <1>17, <1>18, <1>19, <1>20, <1>21, <1>22,
     <1>23, <1>24, <1>25, <1>26, <1>27, <1>28

\* The variables keep their types, and no goroutine ever follows a local pointer
\* it has not set (addSession, InitSession and CloseSession).
THEOREM TypeCorrect == Spec => []TypeOK
<1>1. Init => TypeOK
  BY ConfigTypes, NilAssumption DEF Init, TypeOK, InitPC, ClosePC, NegPC
<1> QED
  BY <1>1, TypeStep, PTL DEF Spec

-----------------------------------------------------------------------------
\* A step that moves neither a session nor a closer preserves CloseInv if it
\* preserves what holds of the end of each session.
LEMMA QuietStep ==
  ASSUME TypeOK, CloseInv,
         UNCHANGED <<members, closeVars, closeCh, closeCb>>,
         \A i \in Joins : ipc[i] \in Added => ipc'[i] \in Added /\ c'[i] = c[i],
         \A i \in Joins : endInv(i)'
  PROVE  CloseInv'
<1>1. ASSUME NEW call \in Joins, NEW s \in SessionIDs PROVE slotInv(call, s)'
  <2>1. slotInv(call, s) /\ members[call][s] \in Obj
    BY DEF CloseInv, TypeOK
  <2> QED BY <2>1 DEF slotInv
<1>2. ASSUME NEW t \in Threads PROVE closerInv(t)'
  <2>1. closerInv(t) /\ us[t] \in Obj
    BY DEF CloseInv, TypeOK
  <2>2. cpc[t] \in {"detach", "signal", "wait"} => us[t] \in Joins
    BY DEF TypeOK
  <2>3. UNCHANGED <<cpc, entry, ccall, us>>
    BY DEF closeVars
  <2> QED BY <2>1, <2>2, <2>3 DEF closerInv
<1> QED
  BY <1>1, <1>2 DEF CloseInv

\* A closer that moves on without detaching or closing anything preserves CloseInv
\* if it preserves what that closer knows.
LEMMA CloserMoves ==
  ASSUME TypeOK, CloseInv, NEW t \in Threads,
         UNCHANGED <<members, c, ipc, closeCh, doneCh, closeCb>>,
         \A u \in Threads \ {t} : /\ cpc'[u] = cpc[u] /\ entry'[u] = entry[u]
                                  /\ ccall'[u] = ccall[u] /\ us'[u] = us[u],
         NegKept, cpc'[t] # "wait", closerInv(t)'
  PROVE  CloseInv'
<1>1. ASSUME NEW call \in Joins, NEW s \in SessionIDs PROVE slotInv(call, s)'
  BY DEF CloseInv, slotInv
<1>2. ASSUME NEW u \in Threads, u # t PROVE closerInv(u)'
  <2>1. closerInv(u)
    BY DEF CloseInv
  <2> QED BY <1>2, <2>1 DEF closerInv
<1>3. ASSUME NEW i \in Joins PROVE endInv(i)'
  <2>1. endInv(i)
    BY DEF CloseInv
  <2>2. neg'[i] = neg[i] \/ neg'[i] \in {"closing", "exit"}
    BY DEF NegKept
  <2> QED BY <2>1, <2>2 DEF endInv
<1> QED
  BY <1>1, <1>2, <1>3 DEF CloseInv

\* What a step of the session's own goroutines does to the end of that session.
LEMMA EndKept ==
  ASSUME CloseInv, NEW i \in Joins, UNCHANGED <<members, closeCh, doneCh, closeCb>>,
         ipc[i] \in Added => ipc'[i] \in Added /\ c'[i] = c[i],
         ipc[i] = "done" => ipc'[i] = "done",
         neg'[i] = neg[i] \/ (doneCh[i] = "open" /\ ipc'[i] = "done")
  PROVE  endInv(i)'
<1>1. endInv(i)
  BY DEF CloseInv
<1>2. neg[i] \in {"wait", "tracks"} => ipc'[i] = "done"
  BY <1>1 DEF endInv
<1> QED
  BY <1>1, <1>2 DEF endInv, Added

\* The steps of InitSession other than the one that adds the session to its call.
LEMMA InitKeepsClose ==
  ASSUME TypeOK, CloseInv, NEW j \in Joins,
         \/ InitSession(j) \/ InitFails(j) \/ AddGetGroup(j) \/ AddGetCall(j)
         \/ AddRefused(j) \/ AddRegister(j) \/ InitGetGroup(j) \/ InitNilGroup(j)
         \/ InitGetCall(j)
  PROVE  CloseInv'
<1>1. UNCHANGED <<members, closeVars, closeCh, doneCh, closeCb>>
  BY DEF InitSession, InitFails, AddGetGroup, AddGetCall, AddRefused, AddRegister,
         InitGetGroup, InitNilGroup, InitGetCall, regVars, sessVars
<1>2. ASSUME NEW i \in Joins, i # j
      PROVE  ipc'[i] = ipc[i] /\ c'[i] = c[i] /\ neg'[i] = neg[i]
  BY <1>2, ZenonT(30) DEF TypeOK, InitSession, InitFails, AddGetGroup, AddGetCall, AddRefused, AddRegister,
              InitGetGroup, InitNilGroup, InitGetCall, sessVars, initVars
<1>3. /\ ipc[j] # "done"
      /\ ipc[j] \in Added => ipc'[j] \in Added /\ c'[j] = c[j]
      /\ neg'[j] = neg[j] \/ ipc'[j] = "done"
  BY DEF TypeOK, InitSession, InitFails, AddGetGroup, AddGetCall, AddRefused, AddRegister,
         InitGetGroup, InitNilGroup, InitGetCall, sessVars, initVars, initAt, Added
<1>4. doneCh[j] = "open"
  <2>1. endInv(j) /\ doneCh[j] \in {"open", "closed"}
    BY DEF CloseInv, TypeOK
  <2> QED BY <1>3, <2>1 DEF endInv
<1>5. ASSUME NEW i \in Joins PROVE endInv(i)'
  <2>1. UNCHANGED <<members, closeCh, doneCh, closeCb>>
    BY <1>1
  <2>2. /\ ipc[i] \in Added => ipc'[i] \in Added /\ c'[i] = c[i]
        /\ ipc[i] = "done" => ipc'[i] = "done"
        /\ neg'[i] = neg[i] \/ (doneCh[i] = "open" /\ ipc'[i] = "done")
    BY <1>2, <1>3, <1>4
  <2> QED BY <2>1, <2>2, EndKept
<1>6. \A i \in Joins : ipc[i] \in Added => ipc'[i] \in Added /\ c'[i] = c[i]
  BY <1>2, <1>3
<1> QED
  BY <1>1, <1>5, <1>6, QuietStep

\* The steps of the negotiation goroutine that do not call CloseSession.
LEMMA NegKeepsClose ==
  ASSUME TypeOK, CloseInv, NEW j \in Joins,
         \/ FirstOffer(j) \/ FirstOfferNilCall(j) \/ SignalingFails(j)
         \/ NegotiationsEnd(j) \/ SendAfterStop(j)
  PROVE  CloseInv'
<1>1. UNCHANGED <<members, closeVars, closeCh, closeCb, ipc, c>>
  BY DEF FirstOffer, FirstOfferNilCall, SignalingFails, NegotiationsEnd, SendAfterStop,
         regVars, sessVars, initVars
<1>2. ASSUME NEW i \in Joins, i # j PROVE neg'[i] = neg[i] /\ doneCh'[i] = doneCh[i]
  BY <1>2, ZenonT(30) DEF TypeOK, FirstOffer, FirstOfferNilCall, SignalingFails, NegotiationsEnd,
              SendAfterStop, sessVars
<1>3. /\ neg[j] \in {"wait", "tracks"}
      /\ \/ neg'[j] = neg[j] /\ doneCh' = doneCh
         \/ neg'[j] = "tracks" /\ doneCh' = doneCh
         \/ neg'[j] \in {"failed", "exit"}
  BY ZenonT(30) DEF TypeOK, FirstOffer, FirstOfferNilCall, SignalingFails, NegotiationsEnd,
         SendAfterStop, sessVars, negIn
<1>4. ASSUME NEW i \in Joins PROVE endInv(i)'
  <2>1. endInv(i) /\ endInv(j)
    BY DEF CloseInv
  <2>2. ipc[j] = "done" /\ doneCh[j] # "closed"
    BY <1>3, <2>1 DEF endInv
  <2>3. CASE i = j
    BY <1>1, <1>3, <2>1, <2>2, <2>3 DEF endInv
  <2>4. CASE i # j
    BY <1>1, <1>2, <2>1, <2>4 DEF endInv
  <2> QED BY <2>3, <2>4
<1> QED
  BY <1>1, <1>4, QuietStep

\* A session is added to its call: its slot was free, and nobody was closing it.
LEMMA AddKeepsClose ==
  ASSUME TypeOK, CloseInv, NEW j \in Joins, AddToCall(j)
  PROVE  CloseInv'
<1>1. /\ c[j] \in Joins /\ sid(j) \in SessionIDs /\ members[c[j]][sid(j)] = Nil
      /\ members' = [members EXCEPT ![c[j]][sid(j)] = j]
      /\ ipc[j] = "add" /\ ipc' = [ipc EXCEPT ![j] = "register"]
  BY ConfigTypes DEF AddToCall, initAt, TypeOK
<1>2. UNCHANGED <<c, cpc, entry, ccall, us, closeCh, doneCh, closeCb, neg>>
  BY DEF AddToCall, closeVars, sessVars
<1>3. ASSUME NEW i \in Joins PROVE ipc'[i] = IF i = j THEN "register" ELSE ipc[i]
  BY <1>1 DEF TypeOK
<1>4. ASSUME NEW call \in Joins, NEW s \in SessionIDs
      PROVE  members'[call][s] = IF call = c[j] /\ s = sid(j) THEN j ELSE members[call][s]
  BY <1>1 DEF TypeOK
<1>5. ASSUME NEW call \in Joins, NEW s \in SessionIDs PROVE slotInv(call, s)'
  <2>1. slotInv(call, s) /\ members[call][s] \in Obj
    BY DEF CloseInv, TypeOK
  <2>2. CASE call = c[j] /\ s = sid(j)
    BY <1>2, <1>3, <1>4, <2>2 DEF slotInv, Added
  <2>3. CASE ~(call = c[j] /\ s = sid(j))
    BY <1>1, <1>2, <1>3, <1>4, <2>1, <2>3 DEF slotInv, Added
  <2> QED BY <2>2, <2>3
<1>6. ASSUME NEW i \in Joins, ipc[i] \in Added
      PROVE  /\ i # j /\ ipc'[i] = ipc[i]
             /\ members[c[i]][sid(i)] # i => members'[c[i]][sid(i)] # i
  <2>1. i # j /\ ipc'[i] = ipc[i]
    BY <1>1, <1>3, <1>6 DEF Added
  <2>2. c[i] \in Joins /\ sid(i) \in SessionIDs
    BY <1>6, ConfigTypes DEF TypeOK, Added
  <2> QED BY <1>4, <2>1, <2>2
<1>7. ASSUME NEW t \in Threads PROVE closerInv(t)'
  <2>1. closerInv(t)
    BY DEF CloseInv
  <2>2. cpc[t] \in {"detach", "signal", "wait"} => us[t] \in Joins
    BY DEF TypeOK
  <2> QED BY <1>2, <1>6, <2>1, <2>2 DEF closerInv
<1>8. ASSUME NEW i \in Joins PROVE endInv(i)'
  <2>1. endInv(i)
    BY DEF CloseInv
  <2>2. CASE i = j
    BY <1>1, <1>2, <2>1, <2>2 DEF endInv, Added
  <2>3. CASE i # j
    BY <1>2, <1>3, <1>6, <2>1, <2>3 DEF endInv
  <2> QED BY <2>2, <2>3
<1> QED
  BY <1>5, <1>7, <1>8 DEF CloseInv

\* The steps of CloseSession before it detaches the session.
LEMMA LookupsKeepClose ==
  ASSUME TypeOK, CloseInv, NEW t \in Threads,
         \/ NegKept /\ \E s \in SessionIDs : closeTakes(t, s) \/ closeIgnores(t, s)
         \/ CloseGetGroup(t) \/ CloseGetCall(t) \/ CloseTwice(t)
         \/ CloseNotFound(t)
  PROVE  CloseInv'
<1>1. UNCHANGED <<members, c, ipc, closeCh, doneCh, closeCb>>
  BY DEF closeTakes, closeIgnores, closeLookup, CloseGetGroup, CloseGetCall, CloseTwice,
         CloseNotFound, regVars, initVars, sessVars
<1>2. \A u \in Threads \ {t} : /\ cpc'[u] = cpc[u] /\ entry'[u] = entry[u]
                               /\ ccall'[u] = ccall[u] /\ us'[u] = us[u]
  BY ZenonT(40) DEF TypeOK, closeTakes, closeIgnores, closeLookup, CloseGetGroup, CloseGetCall,
         CloseTwice, CloseNotFound, closeReturns, closeVars
<1>3. NegKept
  <2>1. neg \in [Joins -> NegPC]
    BY DEF TypeOK
  <2> QED
    BY <2>1, ZenonT(40) DEF NegKept, NegPC, CloseGetGroup, CloseGetCall, CloseTwice, CloseNotFound,
                closeReturns, sessVars
<1>4. \/ cpc'[t] \in {"idle", "getGroup", "getCall", "getSession"}
      \/ cpc[t] = "signal" /\ UNCHANGED closeVars
  BY ZenonT(40) DEF TypeOK, closeTakes, closeIgnores, closeLookup, closeAt, CloseGetGroup,
         CloseGetCall, CloseTwice, CloseNotFound, closeReturns
<1>5. closerInv(t)' /\ cpc'[t] # "wait"
  <2>1. CASE cpc'[t] \in {"idle", "getGroup", "getCall", "getSession"}
    BY <2>1 DEF closerInv
  <2>2. CASE cpc[t] = "signal" /\ UNCHANGED closeVars
    <3>1. closerInv(t)
      BY DEF CloseInv
    <3> QED BY <1>1, <2>2, <3>1 DEF closerInv, closeVars
  <2> QED BY <1>4, <2>1, <2>2, ZenonT(40)
<1> QED
  BY <1>1, <1>2, <1>3, <1>5, CloserMoves

\* getSession returns the session in the slot of the ID that is closed.
LEMMA GetSessionKeepsClose ==
  ASSUME TypeOK, CloseInv, NEW t \in Threads, CloseGetSession(t)
  PROVE  CloseInv'
<1>1. UNCHANGED <<members, c, ipc, closeCh, doneCh, closeCb, neg, entry, ccall>>
  BY ZenonT(40) DEF CloseGetSession, regVars, initVars, sessVars
<1>2. /\ entry[t] \in Joins /\ ccall[t] \in Joins /\ sid(entry[t]) \in SessionIDs
      /\ members[ccall[t]][sid(entry[t])] \in Joins
      /\ us' = [us EXCEPT ![t] = members[ccall[t]][sid(entry[t])]]
      /\ cpc' = [cpc EXCEPT ![t] = "detach"]
  BY ConfigTypes, NilAssumption DEF CloseGetSession, closeAt, TypeOK
<1>3. slotInv(ccall[t], sid(entry[t]))
  BY <1>2 DEF CloseInv
<1>4. /\ cpc'[t] = "detach" /\ us'[t] = members[ccall[t]][sid(entry[t])]
      /\ \A u \in Threads \ {t} : cpc'[u] = cpc[u] /\ us'[u] = us[u]
  BY <1>2 DEF TypeOK
<1>5. closerInv(t)'
  BY <1>1, <1>2, <1>3, <1>4, NilAssumption, ZenonT(40) DEF closerInv, slotInv
<1>6. NegKept
  BY <1>1 DEF NegKept, TypeOK
<1> QED
  BY <1>1, <1>4, <1>5, <1>6, CloserMoves

\* CloseSession empties the slot of its session.
LEMMA DetachKeepsClose ==
  ASSUME TypeOK, CloseInv, NEW t \in Threads, CloseDetach(t)
  PROVE  CloseInv'
<1>1. UNCHANGED <<c, ipc, closeCh, doneCh, closeCb, neg, entry, ccall, us>>
  BY DEF CloseDetach, initVars, sessVars
<1>2. /\ cpc[t] = "detach" /\ us[t] \in Joins
      /\ ccall[t] \in Joins /\ sid(entry[t]) \in SessionIDs
      /\ members' = [members EXCEPT ![ccall[t]][sid(entry[t])] = Nil]
      /\ cpc' = [cpc EXCEPT ![t] = "signal"]
  BY ConfigTypes, ZenonT(40) DEF CloseDetach, closeAt, TypeOK
<1>3. ASSUME NEW call \in Joins, NEW s \in SessionIDs
      PROVE  members'[call][s] =
               IF call = ccall[t] /\ s = sid(entry[t]) THEN Nil ELSE members[call][s]
  BY <1>2 DEF TypeOK
<1>4. ASSUME NEW u \in Threads PROVE cpc'[u] = IF u = t THEN "signal" ELSE cpc[u]
  BY <1>2 DEF TypeOK
<1>5. ASSUME NEW call \in Joins, NEW s \in SessionIDs PROVE slotInv(call, s)'
  <2>1. slotInv(call, s)
    BY DEF CloseInv
  <2> QED BY <1>1, <1>3, <2>1 DEF slotInv
<1>6. ASSUME NEW i \in Joins, ipc[i] \in Added, members[c[i]][sid(i)] # i
      PROVE  members'[c[i]][sid(i)] # i
  <2>1. c[i] \in Joins /\ sid(i) \in SessionIDs
    BY <1>6, ConfigTypes DEF TypeOK, Added
  <2> QED BY <1>3, <1>6, <2>1, NilAssumption
<1>7. ASSUME NEW u \in Threads PROVE closerInv(u)'
  <2>1. closerInv(u) /\ (cpc[u] \in {"detach", "signal", "wait"} => us[u] \in Joins)
    BY DEF CloseInv, TypeOK
  <2>2. CASE u = t
    <3>1. sid(us[t]) = sid(entry[t]) /\ c[us[t]] = ccall[t] /\ ipc[us[t]] \in Added
      BY <1>2, <2>1, <2>2 DEF closerInv
    <3>2. members'[c[us[t]]][sid(us[t])] # us[t]
      BY <1>2, <1>3, <3>1, NilAssumption
    <3> QED BY <1>1, <1>4, <2>2, <3>1, <3>2, ZenonT(40) DEF closerInv
  <2>3. CASE u # t
    BY <1>1, <1>4, <1>6, <2>1, <2>3 DEF closerInv
  <2> QED BY <2>2, <2>3
<1>8. ASSUME NEW i \in Joins PROVE endInv(i)'
  <2>1. endInv(i)
    BY DEF CloseInv
  <2> QED BY <1>1, <1>6, <2>1, ZenonT(40) DEF endInv
<1> QED
  BY <1>5, <1>7, <1>8 DEF CloseInv

\* Only one CloseSession can close closeCh.
LEMMA SignalKeepsClose ==
  ASSUME TypeOK, CloseInv, NEW t \in Threads, CloseSignal(t)
  PROVE  CloseInv'
<1>1. UNCHANGED <<members, c, ipc, doneCh, closeCb, neg, entry, ccall, us>>
  BY DEF CloseSignal, regVars, initVars
<1>2. /\ cpc[t] = "signal" /\ us[t] \in Joins /\ closeCh[us[t]] = "open"
      /\ closeCh' = [closeCh EXCEPT ![us[t]] = "closed"]
      /\ cpc' = [cpc EXCEPT ![t] = "wait"]
  BY DEF CloseSignal, closeAt, TypeOK
<1>3. ASSUME NEW u \in Threads PROVE cpc'[u] = IF u = t THEN "wait" ELSE cpc[u]
  BY <1>2 DEF TypeOK
<1>4. ASSUME NEW i \in Joins PROVE closeCh'[i] = IF i = us[t] THEN "closed" ELSE closeCh[i]
  BY <1>2 DEF TypeOK
<1>5. closerInv(t) /\ endInv(us[t])
  BY <1>2 DEF CloseInv
<1>6. closeCb[us[t]] = 0
  BY <1>2, <1>5 DEF endInv, TypeOK
<1>7. ASSUME NEW call \in Joins, NEW s \in SessionIDs PROVE slotInv(call, s)'
  BY <1>1, ZenonT(40) DEF CloseInv, slotInv
<1>8. ASSUME NEW u \in Threads PROVE closerInv(u)'
  <2>1. closerInv(u) /\ (cpc[u] \in {"detach", "signal", "wait"} => us[u] \in Joins)
    BY DEF CloseInv, TypeOK
  <2>2. \A w \in Threads : cpc[w] = "wait" => us[w] # us[t]
    BY <1>2 DEF CloseInv, closerInv
  <2>3. CASE u = t
    <3>1. sid(us[t]) = sid(entry[t]) /\ c[us[t]] = ccall[t] /\ ipc[us[t]] \in Added
      BY <1>2, <1>5 DEF closerInv
    <3>2. members[c[us[t]]][sid(us[t])] # us[t]
      BY <1>2, <1>5 DEF closerInv
    <3>3. closeCh'[us[t]] = "closed"
      BY <1>2, <1>4
    <3>4. \A w \in Threads \ {t} : cpc'[w] = "wait" => us[w] # us[t]
      BY <1>3, <2>2
    <3> QED
      BY <1>1, <1>6, <2>3, <3>1, <3>2, <3>3, <3>4, Zenon DEF closerInv
  <2>4. CASE u # t
    BY <1>1, <1>3, <1>4, <2>1, <2>2, <2>4, ZenonT(40) DEF closerInv
  <2> QED BY <2>3, <2>4
<1>9. ASSUME NEW i \in Joins PROVE endInv(i)'
  <2>1. endInv(i)
    BY DEF CloseInv
  <2>2. CASE i = us[t]
    BY <1>1, <1>2, <1>4, <1>5, <2>1, <2>2 DEF endInv, closerInv
  <2>3. CASE i # us[t]
    BY <1>1, <1>4, <2>1, <2>3 DEF endInv
  <2> QED BY <2>2, <2>3
<1> QED
  BY <1>7, <1>8, <1>9 DEF CloseInv

\* The one CloseSession that closed closeCh runs closeCb, once doneCh is closed.
LEMMA WaitKeepsClose ==
  ASSUME TypeOK, CloseInv, NEW t \in Threads, CloseWait(t)
  PROVE  CloseInv'
<1>1. UNCHANGED <<members, c, ipc, closeCh, doneCh>>
  BY DEF CloseWait, regVars, initVars
<1>2. /\ cpc[t] = "wait" /\ us[t] \in Joins /\ doneCh[us[t]] = "closed"
      /\ closeCb' = [closeCb EXCEPT ![us[t]] = closeCb[us[t]] + 1]
      /\ cpc' = [cpc EXCEPT ![t] = "idle"]
  BY DEF CloseWait, closeReturns, closeAt, signalingDone, TypeOK
<1>3. /\ cpc'[t] = "idle"
      /\ \A u \in Threads \ {t} : /\ cpc'[u] = cpc[u] /\ entry'[u] = entry[u]
                                  /\ ccall'[u] = ccall[u] /\ us'[u] = us[u]
  BY DEF TypeOK, CloseWait, closeReturns
<1>4. ASSUME NEW i \in Joins
      PROVE  /\ closeCb'[i] = IF i = us[t] THEN closeCb[i] + 1 ELSE closeCb[i]
             /\ neg'[i] = neg[i] \/ neg'[i] = "exit"
  BY <1>2, ZenonT(30) DEF TypeOK, CloseWait, closeReturns
<1>5. closerInv(t)
  BY DEF CloseInv
<1>6. ASSUME NEW call \in Joins, NEW s \in SessionIDs PROVE slotInv(call, s)'
  BY <1>1 DEF CloseInv, slotInv
<1>7. ASSUME NEW u \in Threads PROVE closerInv(u)'
  <2>1. closerInv(u) /\ (cpc[u] \in {"detach", "signal", "wait"} => us[u] \in Joins)
    BY DEF CloseInv, TypeOK
  <2>2. CASE u = t
    BY <1>3, <2>2 DEF closerInv
  <2>3. CASE u # t
    <3>1. cpc[u] = "wait" => us[u] # us[t]
      BY <1>2, <2>1, <2>3 DEF closerInv
    <3>2. /\ cpc'[u] = cpc[u] /\ entry'[u] = entry[u]
          /\ ccall'[u] = ccall[u] /\ us'[u] = us[u]
      BY <1>3, <2>3, ZenonT(40)
    <3>3. \A w \in Threads \ {u} : cpc'[w] = "wait" => cpc[w] = "wait" /\ us'[w] = us[w]
      BY <1>3
    <3>4. cpc[u] = "wait" => closeCb'[us[u]] = closeCb[us[u]]
      BY <1>4, <2>1, <3>1
    <3> QED BY <1>1, <2>1, <3>2, <3>3, <3>4 DEF closerInv
  <2> QED BY <2>2, <2>3
<1>8. ASSUME NEW i \in Joins PROVE endInv(i)'
  <2>1. endInv(i)
    BY DEF CloseInv
  <2>2. CASE i = us[t]
    BY <1>1, <1>2, <1>4, <1>5, <2>1, <2>2 DEF endInv, closerInv
  <2>3. CASE i # us[t]
    BY <1>1, <1>4, <2>1, <2>3, ZenonT(40) DEF endInv
  <2> QED BY <2>2, <2>3
<1> QED
  BY <1>6, <1>7, <1>8 DEF CloseInv

\* Every step preserves CloseInv.
LEMMA CloseInvStep == TypeOK /\ CloseInv /\ [Next]_vars => CloseInv'
<1> SUFFICES ASSUME TypeOK, CloseInv, [Next]_vars PROVE CloseInv'
  OBVIOUS
<1>1. ASSUME NEW j \in Joins,
             \/ InitSession(j) \/ InitFails(j) \/ AddGetGroup(j) \/ AddGetCall(j)
             \/ AddRefused(j) \/ AddRegister(j) \/ InitGetGroup(j) \/ InitNilGroup(j)
             \/ InitGetCall(j)
      PROVE  CloseInv'
  BY <1>1, InitKeepsClose
<1>2. ASSUME NEW j \in Joins,
             \/ FirstOffer(j) \/ FirstOfferNilCall(j) \/ SignalingFails(j)
             \/ NegotiationsEnd(j) \/ SendAfterStop(j)
      PROVE  CloseInv'
  BY <1>2, NegKeepsClose
<1>3. ASSUME NEW j \in Joins, AddToCall(j) PROVE CloseInv'
  BY <1>3, AddKeepsClose
<1>4. ASSUME NEW t \in Threads,
             \/ \E s \in SessionIDs : NegKept /\ (closeTakes(t, s) \/ closeIgnores(t, s))
             \/ CloseGetGroup(t) \/ CloseGetCall(t) \/ CloseTwice(t) \/ CloseNotFound(t)
      PROVE  CloseInv'
  BY <1>4, LookupsKeepClose
<1>5. ASSUME NEW t \in Threads,
             CloseGetSession(t) \/ CloseDetach(t) \/ CloseSignal(t) \/ CloseWait(t)
      PROVE  CloseInv'
  BY <1>5, GetSessionKeepsClose, DetachKeepsClose, SignalKeepsClose, WaitKeepsClose
<1>6. ASSUME UNCHANGED <<members, closeVars, closeCh, doneCh, closeCb, ipc, c, neg>>
      PROVE  CloseInv'
  <2>1. \A i \in Joins : endInv(i)'
    BY <1>6 DEF CloseInv, endInv
  <2> QED BY <1>6, <2>1, QuietStep
<1>7. CASE Stop \/ StopDrained \/ UNCHANGED vars
  BY <1>6, <1>7 DEF Stop, StopDrained, vars, regVars, initVars, sessVars
<1> HIDE DEF Threads
<1> QED
  BY StepCases, <1>1, <1>2, <1>3, <1>4, <1>5, <1>7

\* The slots, the closers and the ends of the sessions stay consistent in every
\* behaviour of the registry, races lost included.
THEOREM CloseInvariant == Spec => []CloseInv
<1>1. Init => CloseInv
  BY ConfigTypes, NilAssumption DEF Init, CloseInv, slotInv, closerInv, endInv
<1> QED
  BY <1>1, TypeCorrect, CloseInvStep, PTL DEF Spec

\* A session whose closeCh is closed is in no call (sfu.go:743-757).
THEOREM DetachedWhenClosed == Spec => []ClosedIsDetached
<1>1. TypeOK /\ CloseInv => ClosedIsDetached
  <2> SUFFICES ASSUME TypeOK, CloseInv, NEW j \in Joins, NEW call \in Joins,
                      closeCh[j] = "closed", members[call][sid(j)] = j
               PROVE  FALSE
    BY DEF ClosedIsDetached
  <2>1. endInv(j) /\ slotInv(call, sid(j))
    BY ConfigTypes DEF CloseInv
  <2> QED
    BY <2>1, NilAssumption DEF endInv, slotInv
<1> QED
  BY <1>1, TypeCorrect, CloseInvariant, PTL

\* closeCb runs at most once for a session, after closeCh was closed and after the
\* session's signaling goroutine left its loops (sfu.go:756-766).
THEOREM CallbackRunsLast == Spec => []CallbackLast
<1>1. CloseInv => CallbackLast
  BY DEF CloseInv, endInv, CallbackLast
<1> QED
  BY <1>1, CloseInvariant, PTL

-----------------------------------------------------------------------------
\* Every step keeps a session registered while Stop waits on an open drainCh.
LEMMA DrainStep == TypeOK /\ DrainNotLost /\ [Next]_vars => DrainNotLost'
<1> SUFFICES ASSUME TypeOK, DrainNotLost, [Next]_vars PROVE DrainNotLost'
  OBVIOUS
<1> USE ConfigTypes, NilAssumption DEF TypeOK, DrainNotLost, anySession
<1>1. ASSUME NEW j \in Joins, AddRegister(j) PROVE DrainNotLost'
  BY <1>1, ZenonT(40) DEF AddRegister, stopVars
<1>2. ASSUME NEW t \in Threads, NEW s \in SessionIDs, closeTakes(t, s) \/ closeIgnores(t, s)
      PROVE  DrainNotLost'
  <2>1. closeLookup(t, s)
    BY <1>2 DEF closeTakes, closeIgnores
  <2> QED
    BY <2>1 DEF closeLookup, withoutEntry, drainAfter
<1>3. CASE Stop
  BY <1>3 DEF Stop, regVars
<1>4. CASE StopDrained
  BY <1>4 DEF StopDrained
<1>5. CASE UNCHANGED <<sessions, stop, drainCh>>
  BY <1>5
<1>6. \/ \E j \in Joins : AddRegister(j)
      \/ \E t \in Threads, s \in SessionIDs : closeTakes(t, s) \/ closeIgnores(t, s)
      \/ Stop \/ StopDrained
      \/ UNCHANGED <<sessions, stop, drainCh>>
  <2> HIDE DEF TypeOK, DrainNotLost, anySession
  <2> QED
    BY StepCases, ZenonT(40)
       DEF InitSession, InitFails, AddGetGroup, AddGetCall, AddToCall, AddRefused,
           InitGetGroup, InitNilGroup, InitGetCall, CloseGetGroup, CloseGetCall,
           CloseGetSession, CloseNotFound, CloseDetach, CloseSignal, CloseTwice,
           CloseWait, FirstOffer, FirstOfferNilCall, SignalingFails, NegotiationsEnd,
           SendAfterStop, vars, regVars, stopVars
<1> HIDE DEF TypeOK, DrainNotLost, anySession
<1> QED
  BY <1>1, <1>2, <1>3, <1>4, <1>5, <1>6

\* While Stop waits on drainCh a session is registered whose CloseSession will wake
\* it (server.go:160-175, sfu.go:713-717).
THEOREM DrainIsAwaited == Spec => []DrainNotLost
<1>1. Init => DrainNotLost
  BY DEF Init, DrainNotLost
<1> QED
  BY <1>1, DrainStep, TypeCorrect, PTL DEF Spec

-----------------------------------------------------------------------------
(* Empty groups and calls.                                                 *)

\* The objects that were made a group, or a call, or may have been.
GroupsMade == {k \in Joins : ipc[k] \notin {"idle", "group"}}
CallsMade == {k \in Joins : ipc[k] \notin {"idle", "group", "call"}}

\* The groups with a call and the calls with a session.
GroupsUsed == {grp \in Joins : \E x \in CallIDs : calls[grp][x] # Nil}
CallsUsed == {call \in Joins : \E s \in SessionIDs : members[call][s] # Nil}

\* The groups and calls that an InitSession holds and is about to fill.
GroupsHeld == {g[k] : k \in {i \in Joins : ipc[i] = "call"}}
CallsHeld == {c[k] : k \in {i \in Joins : ipc[i] = "add"}}

\* A group object is under one group ID and a call object in one place.  Objects
\* that are not made yet are nowhere.
Located ==
  /\ \A x \in GroupIDs : groups[x] # Nil =>
       groups[x] \in GroupsMade /\ \A y \in GroupIDs : groups[y] = groups[x] => y = x
  /\ \A grp \in Joins, x \in CallIDs : calls[grp][x] # Nil =>
       /\ grp \in GroupsMade /\ calls[grp][x] \in CallsMade
       /\ \A h \in Joins, y \in CallIDs : calls[h][y] = calls[grp][x] => h = grp /\ y = x

\* A CloseSession holds a group and a call that are where its entry says, or
\* nowhere any more.
heldInv(t) ==
  /\ cpc[t] \in {"getCall", "getSession", "detach"} =>
       cgrp[t] \in GroupsMade /\ \A x \in GroupIDs : groups[x] = cgrp[t] => x = gid(entry[t])
  /\ cpc[t] \in {"getSession", "detach"} =>
       /\ ccall[t] \in CallsMade
       /\ \A grp \in Joins, x \in CallIDs :
            calls[grp][x] = ccall[t] => grp = cgrp[t] /\ x = cid(entry[t])

\* A group without a call, or a call without a session, is about to be filled.
Filling ==
  /\ \A x \in GroupIDs : groups[x] # Nil => groups[x] \in GroupsUsed \cup GroupsHeld
  /\ \A grp \in Joins, x \in CallIDs :
       calls[grp][x] # Nil => calls[grp][x] \in CallsUsed \cup CallsHeld

ShellInv ==
  /\ Located /\ Filling /\ GroupsHeld \subseteq GroupsMade
  /\ \A t \in Threads : heldInv(t)

\* Objects are made, and stay made.
Onward == GroupsMade \subseteq GroupsMade' /\ CallsMade \subseteq CallsMade'

LEMMA ShellInit == Init => ShellInv
<1> SUFFICES ASSUME Init PROVE ShellInv
  OBVIOUS
<1>1. /\ \A x \in GroupIDs : groups[x] = Nil
      /\ \A grp \in Joins, x \in CallIDs : calls[grp][x] = Nil
      /\ \A t \in Threads : cpc[t] = "idle"
      /\ \A j \in Joins : ipc[j] = "idle"
  BY DEF Init
<1>2. GroupsHeld = {}
  BY <1>1 DEF GroupsHeld
<1> QED
  BY <1>1, <1>2 DEF ShellInv, Located, heldInv, Filling

\* What a CloseSession holds stays in its place as long as only new objects are
\* linked.
LEMMA HeldKept ==
  ASSUME TypeOK, NEW t \in Threads, heldInv(t), Onward,
         \A x \in GroupIDs : groups'[x] \in {groups[x], Nil} \/ groups'[x] \notin GroupsMade,
         \A grp \in Joins, x \in CallIDs :
           calls'[grp][x] \in {calls[grp][x], Nil} \/ calls'[grp][x] \notin CallsMade,
         cpc'[t] \in {"getCall", "getSession", "detach"} =>
           /\ cpc[t] \in {"getCall", "getSession", "detach"}
           /\ cgrp'[t] = cgrp[t] /\ entry'[t] = entry[t],
         cpc'[t] \in {"getSession", "detach"} =>
           cpc[t] \in {"getSession", "detach"} /\ ccall'[t] = ccall[t]
  PROVE  heldInv(t)'
<1>0. Nil \notin GroupsMade /\ Nil \notin CallsMade
  BY NilAssumption DEF GroupsMade, CallsMade
<1>1. ASSUME cpc'[t] \in {"getCall", "getSession", "detach"}
      PROVE  /\ cgrp'[t] \in GroupsMade' /\ cgrp'[t] = cgrp[t] /\ entry'[t] = entry[t]
             /\ \A x \in GroupIDs : groups'[x] = cgrp[t] => x = gid(entry[t])
  BY <1>0, <1>1 DEF Onward, heldInv
<1>2. ASSUME cpc'[t] \in {"getSession", "detach"}
      PROVE  /\ ccall'[t] \in CallsMade' /\ ccall'[t] = ccall[t]
             /\ \A grp \in Joins, x \in CallIDs :
                  calls'[grp][x] = ccall[t] => grp = cgrp[t] /\ x = cid(entry[t])
  BY <1>0, <1>2 DEF Onward, heldInv
<1> QED BY <1>1, <1>2 DEF heldInv

\* A step that leaves the groups and their calls alone, and fills no call without
\* a session.
LEMMA ShellQuiet ==
  ASSUME ShellInv, UNCHANGED <<groups, calls>>, Onward,
         GroupsHeld' = GroupsHeld, CallsUsed \subseteq CallsUsed',
         CallsHeld \subseteq CallsHeld' \cup CallsUsed',
         \A t \in Threads : heldInv(t)'
  PROVE  ShellInv'
<1>1. GroupsUsed' = GroupsUsed
  BY DEF GroupsUsed
<1>2. Located'
  BY DEF ShellInv, Located, Onward
<1>3. Filling'
  BY <1>1 DEF ShellInv, Filling
<1>4. GroupsHeld' \subseteq GroupsMade'
  BY DEF ShellInv, Onward
<1> QED BY <1>2, <1>3, <1>4 DEF ShellInv

\* addSession takes or makes its group.
LEMMA GroupShell ==
  ASSUME TypeOK, ShellInv, NEW j \in Joins, AddGetGroup(j)
  PROVE  ShellInv'
<1> DEFINE grp == IF groups[gid(j)] = Nil THEN j ELSE groups[gid(j)]
<1>1. /\ ipc[j] = "group" /\ ipc' = [ipc EXCEPT ![j] = "call"]
      /\ groups' = [groups EXCEPT ![gid(j)] = grp] /\ g' = [g EXCEPT ![j] = grp]
      /\ UNCHANGED <<calls, members, c, cpc, entry, cgrp, ccall>>
      /\ gid(j) \in GroupIDs
  BY ConfigTypes, Zenon DEF AddGetGroup, initAt, closeVars
<1>2. ipc'[j] = "call" /\ \A k \in Joins \ {j} : ipc'[k] = ipc[k]
  BY <1>1 DEF TypeOK
<1>3. GroupsMade' = GroupsMade \cup {j} /\ j \notin GroupsMade /\ CallsMade' = CallsMade
  BY <1>1, <1>2 DEF GroupsMade, CallsMade
<1>4. grp \in GroupsMade'
  <2>1. groups[gid(j)] # Nil => groups[gid(j)] \in GroupsMade
    BY <1>1 DEF ShellInv, Located
  <2> QED BY <1>3, <2>1
<1>5. \A x \in GroupIDs : groups'[x] = groups[x] \/ (x = gid(j) /\ groups[x] = Nil /\ groups'[x] = j)
  BY <1>1 DEF TypeOK
<1>6. groups'[gid(j)] = grp /\ g'[j] = grp /\ \A k \in Joins \ {j} : g'[k] = g[k]
  BY <1>1 DEF TypeOK
<1> HIDE DEF grp
<1>7. GroupsHeld' = GroupsHeld \cup {grp}
  <2>1. GroupsHeld \subseteq GroupsHeld'
    BY <1>1, <1>2, <1>6 DEF GroupsHeld
  <2>2. grp \in GroupsHeld'
    BY <1>2, <1>6 DEF GroupsHeld
  <2>3. GroupsHeld' \subseteq GroupsHeld \cup {grp}
    BY <1>2, <1>6 DEF GroupsHeld
  <2> QED BY <2>1, <2>2, <2>3
<1>8. CallsHeld' = CallsHeld /\ CallsUsed' = CallsUsed /\ GroupsUsed' = GroupsUsed
  BY <1>1, <1>2 DEF CallsHeld, CallsUsed, GroupsUsed
<1>9. \A t \in Threads : heldInv(t)'
  <2>1. \A x \in GroupIDs : groups'[x] \in {groups[x], Nil} \/ groups'[x] \notin GroupsMade
    BY <1>3, <1>5
  <2>2. Onward
    BY <1>3 DEF Onward
  <2> QED BY <1>1, <2>1, <2>2, HeldKept DEF ShellInv
<1>10. Located'
  <2>1. \A x \in GroupIDs : groups[x] # j
    BY <1>3, NilAssumption DEF ShellInv, Located
  <2>2. \A x \in GroupIDs : groups'[x] # Nil =>
          groups'[x] \in GroupsMade' /\ \A y \in GroupIDs : groups'[y] = groups'[x] => y = x
    BY <1>3, <1>5, <2>1 DEF ShellInv, Located
  <2> QED BY <1>1, <1>3, <2>2 DEF ShellInv, Located
<1>11. Filling'
  BY <1>1, <1>5, <1>6, <1>7, <1>8 DEF ShellInv, Filling
<1> QED BY <1>3, <1>4, <1>7, <1>9, <1>10, <1>11 DEF ShellInv

\* addSession takes or makes its call.
LEMMA CallShell ==
  ASSUME TypeOK, ShellInv, NEW j \in Joins, AddGetCall(j)
  PROVE  ShellInv'
<1> DEFINE grp == g[j]
           x0 == cid(j)
           call == IF calls[grp][x0] = Nil THEN j ELSE calls[grp][x0]
<1>1. /\ ipc[j] = "call" /\ ipc' = [ipc EXCEPT ![j] = "add"]
      /\ calls' = [calls EXCEPT ![grp][x0] = call] /\ c' = [c EXCEPT ![j] = call]
      /\ UNCHANGED <<groups, members, g, cpc, entry, cgrp, ccall>>
      /\ grp \in Joins /\ x0 \in CallIDs
  BY ConfigTypes, Zenon DEF AddGetCall, initAt, closeVars, TypeOK
<1>2. ipc'[j] = "add" /\ \A k \in Joins \ {j} : ipc'[k] = ipc[k]
  BY <1>1 DEF TypeOK
<1>3. GroupsMade' = GroupsMade /\ CallsMade' = CallsMade \cup {j} /\ j \notin CallsMade
  BY <1>1, <1>2 DEF GroupsMade, CallsMade
<1>4. call \in CallsMade' /\ call # Nil /\ grp \in GroupsHeld /\ grp \in GroupsMade
  <2>1. grp \in GroupsHeld
    BY <1>1 DEF GroupsHeld
  <2> QED BY <1>1, <1>3, <2>1, NilAssumption, ZenonT(30) DEF ShellInv, Located
<1>5. \A h \in Joins, x \in CallIDs :
        \/ calls'[h][x] = calls[h][x]
        \/ h = grp /\ x = x0 /\ calls[h][x] = Nil /\ calls'[h][x] = j
  BY <1>1 DEF TypeOK
<1>6. calls'[grp][x0] = call /\ c'[j] = call /\ \A k \in Joins \ {j} : c'[k] = c[k]
  BY <1>1 DEF TypeOK
<1> HIDE DEF grp, x0, call
<1>7. CallsHeld' = CallsHeld \cup {call} /\ CallsUsed' = CallsUsed
  BY <1>1, <1>2, <1>6 DEF CallsHeld, CallsUsed
<1>8. GroupsHeld \subseteq GroupsHeld' \cup {grp} /\ GroupsHeld' \subseteq GroupsHeld
  BY <1>1, <1>2 DEF GroupsHeld, grp
<1>9. GroupsUsed \cup {grp} \subseteq GroupsUsed'
  BY <1>1, <1>4, <1>5, <1>6, ZenonT(30) DEF GroupsUsed
<1>10. \A t \in Threads : heldInv(t)'
  <2>1. \A h \in Joins, x \in CallIDs :
          calls'[h][x] \in {calls[h][x], Nil} \/ calls'[h][x] \notin CallsMade
    BY <1>3, <1>5
  <2>2. Onward
    BY <1>3 DEF Onward
  <2> QED BY <1>1, <2>1, <2>2, HeldKept DEF ShellInv
<1>11. Located'
  <2>1. \A h \in Joins, x \in CallIDs : calls[h][x] # j
    BY <1>3, NilAssumption, ZenonT(30) DEF ShellInv, Located
  <2>2. \A h \in Joins, x \in CallIDs : calls'[h][x] # Nil =>
          /\ h \in GroupsMade' /\ calls'[h][x] \in CallsMade'
          /\ \A i \in Joins, y \in CallIDs : calls'[i][y] = calls'[h][x] => i = h /\ y = x
    BY <1>3, <1>4, <1>5, <2>1 DEF ShellInv, Located
  <2> QED BY <1>1, <1>3, <2>2 DEF ShellInv, Located
<1>12. Filling'
  BY <1>1, <1>5, <1>6, <1>7, <1>8, <1>9 DEF ShellInv, Filling
<1> QED BY <1>3, <1>8, <1>10, <1>11, <1>12 DEF ShellInv

\* CloseSession takes its session out of its call, and what is empty then goes.
LEMMA DetachShell ==
  ASSUME TypeOK, ShellInv, NEW t \in Threads, CloseDetach(t)
  PROVE  ShellInv'
<1> DEFINE grp == cgrp[t]
           call == ccall[t]
           x0 == cid(entry[t])
           y0 == gid(entry[t])
<1>1. /\ cpc[t] = "detach" /\ cpc' = [cpc EXCEPT ![t] = "signal"]
      /\ UNCHANGED <<ipc, g, c, entry, cgrp, ccall>>
      /\ grp \in Joins /\ call \in Joins /\ entry[t] \in Joins
      /\ x0 \in CallIDs /\ y0 \in GroupIDs /\ sid(entry[t]) \in SessionIDs
  BY ConfigTypes, Zenon DEF CloseDetach, closeAt, initVars, TypeOK
<1>2. /\ \A x \in GroupIDs : groups[x] = grp => x = y0
      /\ \A h \in Joins, x \in CallIDs : calls[h][x] = call => h = grp /\ x = x0
  BY <1>1, Zenon DEF ShellInv, heldInv
<1>3. members' = [members EXCEPT ![call][sid(entry[t])] = Nil]
  BY DEF CloseDetach
<1>4. calls' = IF call \in CallsUsed' THEN calls ELSE [calls EXCEPT ![grp][x0] = Nil]
  <2>1. emptyCall(call, members') <=> call \notin CallsUsed'
    BY <1>1, Zenon DEF emptyCall, CallsUsed
  <2> QED BY <2>1, Zenon DEF CloseDetach
<1>5. groups' = IF call \in CallsUsed' \/ grp \in GroupsUsed' THEN groups
                ELSE [groups EXCEPT ![y0] = Nil]
  <2>1. emptyCall(call, members') <=> call \notin CallsUsed'
    BY <1>1, Zenon DEF emptyCall, CallsUsed
  <2>2. emptyGroup(grp, calls') <=> grp \notin GroupsUsed'
    BY <1>1, Zenon DEF emptyGroup, GroupsUsed
  <2> QED BY <2>1, <2>2, Zenon DEF CloseDetach
<1>6. CallsUsed \subseteq CallsUsed' \cup {call}
  BY <1>1, <1>3 DEF CallsUsed, TypeOK
<1> HIDE DEF grp, call, x0, y0
<1>7. /\ \A h \in Joins, x \in CallIDs : calls'[h][x] \in {calls[h][x], Nil}
      /\ \A h \in Joins \ {grp}, x \in CallIDs : calls'[h][x] = calls[h][x]
      /\ call \in CallsUsed' => calls' = calls
      /\ call \notin CallsUsed' => calls'[grp][x0] = Nil
  BY <1>1, <1>4, ZenonT(30) DEF TypeOK
<1>8. /\ \A x \in GroupIDs : groups'[x] \in {groups[x], Nil}
      /\ call \notin CallsUsed' /\ grp \notin GroupsUsed' => groups'[y0] = Nil
  BY <1>1, <1>5 DEF TypeOK
<1>9. GroupsUsed \subseteq GroupsUsed' \cup {grp}
  BY <1>7 DEF GroupsUsed
<1>10. /\ GroupsMade' = GroupsMade /\ CallsMade' = CallsMade
       /\ GroupsHeld' = GroupsHeld /\ CallsHeld' = CallsHeld
  BY <1>1 DEF GroupsMade, CallsMade, GroupsHeld, CallsHeld
<1>11. \A u \in Threads : heldInv(u)'
  <2>1. \A u \in Threads : cpc'[u] = IF u = t THEN "signal" ELSE cpc[u]
    BY <1>1 DEF TypeOK
  <2>2. Onward
    BY <1>10 DEF Onward
  <2> QED BY <1>1, <1>7, <1>8, <2>1, <2>2, HeldKept DEF ShellInv
<1>12. Located'
  BY <1>7, <1>8, <1>10 DEF ShellInv, Located
<1>13. Filling'
  <2>1. ASSUME NEW x \in GroupIDs, groups'[x] # Nil
        PROVE  groups'[x] \in GroupsUsed' \cup GroupsHeld'
    <3>1. groups'[x] = groups[x] /\ groups[x] \in GroupsUsed \cup GroupsHeld
      BY <1>8, <2>1 DEF ShellInv, Filling
    <3>2. CASE call \in CallsUsed'
      BY <1>7, <1>10, <3>1, <3>2 DEF GroupsUsed
    <3>3. CASE call \notin CallsUsed'
      BY <1>2, <1>8, <1>9, <1>10, <2>1, <3>1, <3>3
    <3> QED BY <3>2, <3>3
  <2>2. ASSUME NEW h \in Joins, NEW x \in CallIDs, calls'[h][x] # Nil
        PROVE  calls'[h][x] \in CallsUsed' \cup CallsHeld'
    <3>1. calls'[h][x] = calls[h][x] /\ calls[h][x] \in CallsUsed \cup CallsHeld
      BY <1>7, <2>2 DEF ShellInv, Filling
    <3>2. CASE calls[h][x] # call \/ call \in CallsUsed'
      BY <1>6, <1>10, <3>1, <3>2
    <3>3. CASE calls[h][x] = call /\ call \notin CallsUsed'
      BY <1>2, <1>7, <2>2, <3>3
    <3> QED BY <3>2, <3>3
  <2> QED BY <2>1, <2>2 DEF Filling
<1> QED BY <1>10, <1>11, <1>12, <1>13 DEF ShellInv

\* The lookups of CloseSession take what is linked at the time.
LEMMA LookupShell ==
  ASSUME TypeOK, ShellInv, NEW t \in Threads, CloseGetGroup(t) \/ CloseGetCall(t)
  PROVE  ShellInv'
<1>1. /\ UNCHANGED <<groups, calls, members, ipc, g, c, entry>>
      /\ \A u \in Threads \ {t} : cpc'[u] = cpc[u] /\ cgrp'[u] = cgrp[u] /\ ccall'[u] = ccall[u]
  BY ZenonT(20) DEF CloseGetGroup, CloseGetCall, regVars, initVars, TypeOK
<1>2. /\ GroupsMade' = GroupsMade /\ CallsMade' = CallsMade
      /\ GroupsHeld' = GroupsHeld /\ CallsHeld' = CallsHeld /\ CallsUsed' = CallsUsed
  BY <1>1 DEF GroupsMade, CallsMade, GroupsHeld, CallsHeld, CallsUsed
<1>3. ASSUME NEW u \in Threads, u # t PROVE heldInv(u)'
  BY <1>1, <1>2, <1>3 DEF ShellInv, heldInv
<1>4. entry[t] \in Joins /\ gid(entry[t]) \in GroupIDs /\ cid(entry[t]) \in CallIDs
  BY ConfigTypes DEF CloseGetGroup, CloseGetCall, closeAt, TypeOK
<1>5. heldInv(t)'
  <2>1. CASE CloseGetGroup(t)
    <3>1. cpc'[t] = "getCall" /\ cgrp'[t] = groups[gid(entry[t])] /\ cgrp'[t] # Nil
      BY <2>1, Zenon DEF CloseGetGroup, TypeOK
    <3> QED BY <1>1, <1>2, <1>4, <3>1 DEF ShellInv, Located, heldInv
  <2>2. CASE CloseGetCall(t)
    <3>1. /\ cpc[t] = "getCall" /\ cpc'[t] = "getSession" /\ cgrp' = cgrp
          /\ ccall'[t] = calls[cgrp[t]][cid(entry[t])] /\ ccall'[t] # Nil /\ cgrp[t] \in Joins
      BY <2>2, Zenon DEF CloseGetCall, closeAt, TypeOK
    <3>2. heldInv(t)
      BY DEF ShellInv
    <3>3. /\ ccall'[t] \in CallsMade
          /\ \A h \in Joins, x \in CallIDs :
               calls[h][x] = ccall'[t] => h = cgrp[t] /\ x = cid(entry[t])
      BY <1>4, <3>1 DEF ShellInv, Located
    <3> QED BY <1>1, <1>2, <3>1, <3>2, <3>3 DEF heldInv
  <2> QED BY <2>1, <2>2
<1> QED BY <1>1, <1>2, <1>3, <1>5, ShellQuiet DEF Onward

\* An InitSession that is past its lookups, gives up or has not begun to look.
LEMMA InitShell ==
  ASSUME TypeOK, ShellInv, NEW j \in Joins,
         \/ InitSession(j) \/ InitFails(j) \/ AddToCall(j) \/ AddRefused(j)
         \/ AddRegister(j) \/ InitGetGroup(j) \/ InitGetCall(j)
  PROVE  ShellInv'
<1>1. /\ UNCHANGED <<groups, calls, c, cpc, entry, cgrp, ccall>>
      /\ \A k \in Joins \ {j} : ipc'[k] = ipc[k] /\ g'[k] = g[k]
      /\ \/ ipc[j] = "idle" /\ ipc'[j] = "group"
         \/ ipc[j] = "group" /\ ipc'[j] = "failed"
         \/ ipc[j] = "add" /\ ipc'[j] \in {"register", "failed"}
         \/ ipc[j] \in {"register", "getGroup", "getCall"} /\ ipc'[j] \in {"getGroup", "getCall", "done"}
  BY ZenonT(20) DEF InitSession, InitFails, AddToCall, AddRefused, AddRegister, InitGetGroup,
     InitGetCall, initAt, regVars, closeVars, TypeOK
<1>2. CallsUsed \subseteq CallsUsed' /\ (ipc[j] = "add" => c[j] \in CallsUsed')
  <2>1. ASSUME ipc[j] = "add" PROVE c[j] \in Joins /\ sid(j) \in SessionIDs
    BY <2>1, ConfigTypes DEF TypeOK
  <2>2. CASE AddToCall(j)
    <3>1. ipc[j] = "add" /\ members' = [members EXCEPT ![c[j]][sid(j)] = j]
      BY <2>2 DEF AddToCall, initAt
    <3>2. \A call \in Joins, s \in SessionIDs :
            members'[call][s] = IF call = c[j] /\ s = sid(j) THEN j ELSE members[call][s]
      BY <2>1, <3>1 DEF TypeOK
    <3> QED BY <2>1, <3>1, <3>2, NilAssumption DEF CallsUsed
  <2>3. CASE ~AddToCall(j)
    <3>1. members' = members /\ (ipc[j] = "add" => members[c[j]][sid(j)] # Nil)
      BY <2>3, Zenon DEF InitSession, InitFails, AddRefused, AddRegister, InitGetGroup, InitGetCall,
         initAt, regVars
    <3> QED BY <2>1, <3>1 DEF CallsUsed
  <2> QED BY <2>2, <2>3
<1>3. Onward
  BY <1>1 DEF Onward, GroupsMade, CallsMade
<1>4. GroupsHeld' = GroupsHeld
  BY <1>1 DEF GroupsHeld
<1>5. CallsHeld \subseteq CallsHeld' \cup CallsUsed'
  BY <1>1, <1>2 DEF CallsHeld
<1>6. \A t \in Threads : heldInv(t)'
  BY <1>1, <1>3, HeldKept DEF ShellInv
<1> QED BY <1>1, <1>2, <1>3, <1>4, <1>5, <1>6, ShellQuiet

\* The steps that touch neither the maps nor an InitSession.
LEMMA RestShell ==
  ASSUME TypeOK, ShellInv, UNCHANGED <<groups, calls, members, ipc, g, c>>,
         \A t \in Threads :
           \/ cpc'[t] \notin {"getCall", "getSession", "detach"}
           \/ cpc'[t] = cpc[t] /\ cgrp'[t] = cgrp[t] /\ ccall'[t] = ccall[t] /\ entry'[t] = entry[t]
           \/ /\ cpc[t] = "getSession" /\ cpc'[t] = "detach"
              /\ cgrp'[t] = cgrp[t] /\ ccall'[t] = ccall[t] /\ entry'[t] = entry[t]
  PROVE  ShellInv'
<1>1. /\ GroupsMade' = GroupsMade /\ CallsMade' = CallsMade
      /\ GroupsHeld' = GroupsHeld /\ CallsHeld' = CallsHeld /\ CallsUsed' = CallsUsed
  BY DEF GroupsMade, CallsMade, GroupsHeld, CallsHeld, CallsUsed
<1>2. \A t \in Threads : heldInv(t)'
  BY <1>1, HeldKept DEF ShellInv, Onward
<1> QED BY <1>1, <1>2, ShellQuiet DEF Onward

LEMMA ShellStep == TypeOK /\ ShellInv /\ [Next]_vars => ShellInv'
<1> SUFFICES ASSUME TypeOK, ShellInv, [Next]_vars PROVE ShellInv'
  OBVIOUS
<1>1. ASSUME NEW j \in Joins,
             \/ InitNilGroup(j) \/ FirstOffer(j) \/ FirstOfferNilCall(j) \/ SignalingFails(j)
             \/ NegotiationsEnd(j) \/ SendAfterStop(j)
      PROVE  UNCHANGED <<groups, calls, members, initVars, closeVars>>
  BY <1>1, Zenon DEF InitNilGroup, FirstOffer, FirstOfferNilCall, SignalingFails, NegotiationsEnd,
     SendAfterStop, regVars
<1>2. ASSUME Stop \/ StopDrained \/ UNCHANGED vars
      PROVE  UNCHANGED <<groups, calls, members, initVars, closeVars>>
  BY <1>2, Zenon DEF Stop, StopDrained, vars, regVars
<1>3. CASE UNCHANGED <<groups, calls, members, initVars, closeVars>>
  BY <1>3, RestShell, Zenon DEF initVars, closeVars
<1>4. ASSUME NEW t \in Threads, NEW s \in SessionIDs, closeTakes(t, s) \/ closeIgnores(t, s)
      PROVE  ShellInv'
  <2>1. /\ UNCHANGED <<groups, calls, members, ipc, g, c, cgrp, ccall>>
        /\ \A u \in Threads \ {t} : cpc'[u] = cpc[u] /\ entry'[u] = entry[u]
        /\ cpc'[t] \in {"getGroup", "idle"}
    BY <1>4, ZenonT(20) DEF closeTakes, closeIgnores, closeLookup, closeAt, initVars, TypeOK
  <2> QED BY <2>1, RestShell
<1>5. ASSUME NEW t \in Threads,
             \/ CloseGetSession(t) \/ CloseNotFound(t) \/ CloseSignal(t) \/ CloseTwice(t)
             \/ CloseWait(t)
      PROVE  ShellInv'
  <2>1. /\ UNCHANGED <<groups, calls, members, ipc, g, c>>
        /\ \A u \in Threads \ {t} :
             cpc'[u] = cpc[u] /\ cgrp'[u] = cgrp[u] /\ ccall'[u] = ccall[u] /\ entry'[u] = entry[u]
    BY <1>5, ZenonT(20) DEF CloseGetSession, CloseNotFound, CloseSignal, CloseTwice, CloseWait,
       closeReturns, regVars, initVars, closeVars, TypeOK
  <2>2. \/ cpc'[t] \notin {"getCall", "getSession", "detach"}
        \/ /\ cpc[t] = "getSession" /\ cpc'[t] = "detach"
           /\ cgrp'[t] = cgrp[t] /\ ccall'[t] = ccall[t] /\ entry'[t] = entry[t]
    BY <1>5, ZenonT(20) DEF CloseGetSession, CloseNotFound, CloseSignal, CloseTwice, CloseWait,
       closeReturns, closeAt, closeVars, TypeOK
  <2> QED BY <2>1, <2>2, RestShell
<1> QED
  BY <1>1, <1>2, <1>3, <1>4, <1>5, StepCases, GroupShell, CallShell, DetachShell, LookupShell,
     InitShell, ZenonT(20)

\* With no InitSession under way no group is left without a call and no call
\* without a session, for any number of groups, calls and sessions and whatever
\* races were lost: CloseSession deletes by ID, and what it deletes by mistake is
\* never an empty one it should have deleted (sfu.go:744-752).
THEOREM ShellsGo == Spec => []NoEmptyShells
<1>1. TypeOK /\ ShellInv => NoEmptyShells
  <2> SUFFICES ASSUME TypeOK, ShellInv, \A j \in Joins : ipc[j] \in {"idle", "done", "failed"},
                      NEW x \in GroupIDs, groups[x] # Nil
               PROVE  /\ \E y \in CallIDs : calls[groups[x]][y] # Nil
                      /\ \A y \in CallIDs : calls[groups[x]][y] # Nil =>
                           \E s \in SessionIDs : members[calls[groups[x]][y]][s] # Nil
    BY DEF NoEmptyShells
  <2>1. GroupsHeld = {} /\ CallsHeld = {}
    BY DEF GroupsHeld, CallsHeld
  <2>2. groups[x] \in GroupsUsed
    BY <2>1 DEF ShellInv, Filling
  <2>3. \A y \in CallIDs : calls[groups[x]][y] # Nil => calls[groups[x]][y] \in CallsUsed
    BY <2>1, <2>2 DEF ShellInv, Filling, GroupsUsed
  <2> QED BY <2>2, <2>3 DEF GroupsUsed, CallsUsed
<1> QED BY <1>1, ShellInit, ShellStep, TypeCorrect, PTL DEF Spec

-----------------------------------------------------------------------------
(* As long as no race is lost.                                             *)

\* The steps that leave the maps alone leave every session linked as it was.
LEMMA LinkedSame ==
  UNCHANGED <<groups, calls, members, c>> => Linked' = Linked
  BY DEF Linked, linkedCall

\* The lookups by the IDs of a linked session find it.
LEMMA LinkedFound ==
  ASSUME TypeOK, NEW j \in Linked
  PROVE  /\ j \in Joins /\ c[j] \in Joins /\ groups[gid(j)] \in Joins
         /\ calls[groups[gid(j)]][cid(j)] = c[j]
         /\ members[c[j]][sid(j)] = j
<1>1. /\ j \in Joins /\ c[j] \in Obj /\ groups[gid(j)] \in Obj
  BY ConfigTypes DEF TypeOK, Linked
<1> QED
  BY <1>1 DEF Linked, linkedCall

\* A session that its lookups still find after a step is linked after it.
LEMMA StaysLinked ==
  ASSUME NEW i \in Joins, c'[i] \in Joins, groups'[gid(i)] \in Joins,
         calls'[groups'[gid(i)]][cid(i)] = c'[i], members'[c'[i]][sid(i)] = i
  PROVE  i \in Linked'
  BY NilAssumption DEF Linked, linkedCall

\* Creating a group or a call, or adding a session, unlinks nobody: only missing
\* keys are set.
LEMMA LinkedGrows ==
  ASSUME TypeOK, CloseInv, NEW j \in Joins, AddGetGroup(j) \/ AddGetCall(j) \/ AddToCall(j),
         NEW i \in Linked
  PROVE  i \in Linked' /\ groups'[gid(i)] = groups[gid(i)] /\ c'[i] = c[i]
<1>1. /\ i \in Joins /\ c[i] \in Joins /\ groups[gid(i)] \in Joins
      /\ calls[groups[gid(i)]][cid(i)] = c[i] /\ members[c[i]][sid(i)] = i
  BY LinkedFound
<1>2. gid(i) \in GroupIDs /\ cid(i) \in CallIDs /\ sid(i) \in SessionIDs /\ gid(j) \in GroupIDs
      /\ cid(j) \in CallIDs /\ sid(j) \in SessionIDs
  BY <1>1, ConfigTypes
<1>3. CASE AddGetGroup(j)
  <2>1. UNCHANGED <<c, members, calls>>
    BY <1>3 DEF AddGetGroup
  <2>2. groups'[gid(i)] = groups[gid(i)]
    BY <1>1, <1>2, <1>3, NilAssumption DEF AddGetGroup, TypeOK
  <2> QED BY <1>1, <2>1, <2>2, StaysLinked
<1>4. CASE AddGetCall(j)
  <2>1. groups' = groups /\ members' = members
    BY <1>4 DEF AddGetCall
  <2>2. calls'[groups[gid(i)]][cid(i)] = c[i]
    <3>1. calls \in [Joins -> [CallIDs -> Obj]] /\ g[j] \in Joins
      BY <1>4, ZenonT(20) DEF TypeOK, Obj, AddGetCall, initAt
    <3>2. \E x : /\ calls' = [calls EXCEPT ![g[j]][cid(j)] = x]
                 /\ x = calls[g[j]][cid(j)] \/ calls[g[j]][cid(j)] = Nil
      BY <1>4, Zenon DEF AddGetCall
    <3> QED BY <1>1, <1>2, <3>1, <3>2, NilAssumption
  <2>3. c'[i] = c[i]
    <3>1. slotInv(c[i], sid(i))
      BY <1>1, <1>2 DEF CloseInv
    <3>2. i # j
      BY <1>1, <1>4, <3>1, NilAssumption DEF AddGetCall, initAt, slotInv, Added
    <3> QED BY <1>1, <1>4, <3>2 DEF AddGetCall, TypeOK
  <2> QED BY <1>1, <2>1, <2>2, <2>3, StaysLinked
<1>5. CASE AddToCall(j)
  <2>1. UNCHANGED <<c, groups, calls>>
    BY <1>5 DEF AddToCall
  <2>2. members'[c[i]][sid(i)] = i
    <3>1. members \in [Joins -> [SessionIDs -> Obj]]
      BY Zenon DEF TypeOK
    <3>2. members' = [members EXCEPT ![c[j]][sid(j)] = j] /\ members[c[j]][sid(j)] = Nil
      BY <1>5, Zenon DEF AddToCall
    <3> QED BY <1>1, <1>2, <3>1, <3>2, NilAssumption
  <2> QED BY <1>1, <2>1, <2>2, StaysLinked
<1> QED
  BY <1>3, <1>4, <1>5

\* A session that is added to the call its IDs lead to is linked.
LEMMA AddedLinked ==
  ASSUME TypeOK, NEW j \in Joins, AddToCall(j), raced' = {}
  PROVE  j \in Linked'
<1>1. c[j] \in Joins /\ gid(j) \in GroupIDs /\ sid(j) \in SessionIDs
  BY ConfigTypes, NilAssumption DEF AddToCall, initAt, TypeOK
<1>2. linkedCall(j) = c[j] /\ UNCHANGED <<groups, calls, c>>
  BY DEF AddToCall
<1>3. members'[c[j]][sid(j)] = j
  BY <1>1 DEF AddToCall, TypeOK
<1> QED
  BY <1>1, <1>2, <1>3, NilAssumption DEF Linked, linkedCall

\* CloseSession unlinks no other session: a call with another session is not empty,
\* and a group with another linked call is not empty (sfu.go:743-752).
LEMMA LinkedShrinks ==
  ASSUME TypeOK, Owned, NEW t \in Threads, CloseDetach(t), NEW i \in Linked, i # entry[t]
  PROVE  i \in Linked' /\ groups'[gid(i)] = groups[gid(i)]
<1>1. cpc[t] = "detach" /\ ownerInv(t)
  BY DEF Owned, CloseDetach, closeAt
<1>2. PICK e \in Linked : e = entry[t] /\ cgrp[t] = groups[gid(e)] /\ ccall[t] = c[e]
  BY <1>1 DEF ownerInv
<1>3. PICK grp \in Joins, call \in Joins :
        /\ grp = groups[gid(e)] /\ call = c[e] /\ calls[grp][cid(e)] = call /\ e \in Joins
  BY <1>2, LinkedFound
<1>4. PICK igrp \in Joins, icall \in Joins :
        /\ igrp = groups[gid(i)] /\ icall = c[i] /\ calls[igrp][cid(i)] = icall
        /\ members[icall][sid(i)] = i /\ i \in Joins
  BY LinkedFound, ZenonT(30)
<1>5. /\ gid(i) \in GroupIDs /\ cid(i) \in CallIDs /\ sid(i) \in SessionIDs
      /\ gid(e) \in GroupIDs /\ cid(e) \in CallIDs /\ sid(e) \in SessionIDs
  BY <1>3, <1>4, ConfigTypes
<1>6. c'[i] = icall /\ members' = [members EXCEPT ![call][sid(e)] = Nil]
  BY <1>2, <1>3, <1>4, ZenonT(40) DEF CloseDetach, initVars
<1>7. members'[icall][sid(i)] = i
  <2>1. members[call][sid(e)] = e
    BY <1>2, <1>3, LinkedFound, ZenonT(40)
  <2>2. ~(call = icall /\ sid(i) = sid(e))
    BY <1>2, <1>4, <2>1, ZenonT(40)
  <2> QED BY <1>4, <1>5, <1>6, <2>2 DEF TypeOK
<1>8. icall = call => ~emptyCall(call, members')
  BY <1>4, <1>5, <1>7, NilAssumption DEF emptyCall
<1>9. calls' = calls \/ (emptyCall(call, members') /\ calls' = [calls EXCEPT ![grp][cid(e)] = Nil])
  BY <1>2, <1>3, ZenonT(40) DEF CloseDetach
<1>10. calls'[igrp][cid(i)] = icall
  <2>1. CASE calls' = calls
    BY <1>4, <2>1
  <2>2. CASE emptyCall(call, members') /\ calls' = [calls EXCEPT ![grp][cid(e)] = Nil]
    <3>1. ~(igrp = grp /\ cid(i) = cid(e))
      BY <1>3, <1>4, <1>8, <2>2
    <3> QED BY <1>4, <1>5, <2>2, <3>1 DEF TypeOK
  <2> QED BY <1>9, <2>1, <2>2
<1>11. igrp = grp => ~emptyGroup(grp, calls')
  BY <1>4, <1>5, <1>10, NilAssumption DEF emptyGroup
<1>12. \/ groups' = groups
       \/ emptyGroup(grp, calls') /\ groups' = [groups EXCEPT ![gid(e)] = Nil]
  BY <1>2, <1>3, ZenonT(40) DEF CloseDetach
<1>13. groups'[gid(i)] = igrp
  <2>1. CASE groups' = groups
    BY <1>4, <2>1
  <2>2. CASE emptyGroup(grp, calls') /\ groups' = [groups EXCEPT ![gid(e)] = Nil]
    <3>1. gid(i) # gid(e)
      BY <1>3, <1>4, <1>11, <2>2
    <3> QED BY <1>4, <1>5, <2>2, <3>1 DEF TypeOK
  <2> QED BY <1>12, <2>1, <2>2
<1> QED
  BY <1>4, <1>6, <1>7, <1>10, <1>13, StaysLinked

-----------------------------------------------------------------------------
\* A step of InitSession(j), or of its goroutine, that unlinks nobody and leaves
\* the closers alone preserves Owned if it preserves what join j relies on.
LEMMA JoinStep ==
  ASSUME TypeOK, Owned, NEW j \in Joins,
         UNCHANGED <<sessions, closeVars, closeCh>>,
         \A i \in Joins \ {j} : /\ ipc'[i] = ipc[i] /\ g'[i] = g[i]
                                /\ rcall'[i] = rcall[i] /\ neg'[i] = neg[i],
         \A i \in Linked : i \in Linked' /\ groups'[gid(i)] = groups[gid(i)] /\ c'[i] = c[i],
         ipc[j] = "done" => ipc'[j] = "done",
         ipc[j] \in {"getGroup", "getCall"} => ipc'[j] \in {"getGroup", "getCall", "done"},
         joinInv(j)', panic' \in {"none", "sendClosed"}
  PROVE  Owned'
<1>1. UNCHANGED <<cpc, entry, cgrp, ccall, us>>
  BY DEF closeVars
<1>2. ASSUME NEW s \in SessionIDs PROVE entryInv(s)'
  <2>1. entryInv(s) /\ sessions[s] \in Obj
    BY DEF Owned, TypeOK
  <2> QED BY <1>1, <2>1 DEF entryInv
<1>3. ASSUME NEW i \in Joins, i # j PROVE joinInv(i)'
  <2>1. joinInv(i)
    BY DEF Owned
  <2> QED BY <1>3, <2>1 DEF joinInv
<1>4. ASSUME NEW t \in Threads PROVE ownerInv(t)'
  <2>1. ownerInv(t)
    BY DEF Owned
  <2>2. cpc[t] # "idle" => entry[t] \in Joins
    BY ZenonT(30) DEF TypeOK
  <2> QED BY <1>1, <2>1, <2>2 DEF ownerInv
<1> QED
  BY <1>2, <1>3, <1>4 DEF Owned

\* A step of a CloseSession in thread t that touches no session but its own
\* preserves Owned if it preserves what that CloseSession relies on.
LEMMA CloserStep ==
  ASSUME TypeOK, Owned, NEW t \in Threads, cpc[t] # "idle",
         UNCHANGED <<sessions, ipc, g, rcall, c>>,
         \A i \in Joins : neg'[i] = "wait" => neg[i] = "wait",
         \A u \in Threads \ {t} : /\ cpc'[u] = cpc[u] /\ entry'[u] = entry[u]
                                  /\ cgrp'[u] = cgrp[u] /\ ccall'[u] = ccall[u]
                                  /\ us'[u] = us[u],
         \A i \in Joins \ {entry[t]} : closeCh'[i] = closeCh[i],
         \A i \in Linked \ {entry[t]} : i \in Linked' /\ groups'[gid(i)] = groups[gid(i)],
         cpc'[t] # "idle" => entry'[t] = entry[t],
         ownerInv(t)', panic' \in {"none", "sendClosed"}
  PROVE  Owned'
<1>1. ownerInv(t) /\ ipc[entry[t]] = "done"
  BY DEF Owned, ownerInv
<1>2. ASSUME NEW s \in SessionIDs PROVE entryInv(s)'
  <2>1. entryInv(s) /\ sessions[s] \in Obj
    BY DEF Owned, TypeOK
  <2>2. CASE sessions[s] = Nil
    BY <2>2 DEF entryInv
  <2>3. CASE sessions[s] # Nil
    <3>1. sessions[s] \in Joins /\ sessions[s] # entry[t]
      BY <2>1, <2>3 DEF entryInv
    <3>2. \A u \in Threads : cpc'[u] # "idle" => entry'[u] # sessions[s]
      BY <2>1, <2>3, <3>1 DEF entryInv
    <3> QED BY <2>1, <2>3, <3>1, <3>2 DEF entryInv
  <2> QED BY <2>2, <2>3
<1>3. ASSUME NEW i \in Joins PROVE joinInv(i)'
  <2>1. joinInv(i)
    BY DEF Owned
  <2>2. CASE i = entry[t]
    BY <1>1, <2>1, <2>2 DEF joinInv
  <2>3. CASE i # entry[t]
    BY <2>1, <2>3 DEF joinInv
  <2> QED BY <2>2, <2>3
<1>4. ASSUME NEW u \in Threads, u # t PROVE ownerInv(u)'
  <2>1. ownerInv(u)
    BY DEF Owned
  <2>2. CASE cpc[u] = "idle"
    BY <1>4, <2>2 DEF ownerInv
  <2>3. CASE cpc[u] # "idle"
    <3>1. entry[u] # entry[t] /\ entry[u] \in Joins
      BY <1>4, <2>1, <2>3 DEF ownerInv, TypeOK
    <3>2. \A w \in Threads \ {u} : cpc'[w] # "idle" => entry'[w] # entry[u]
      <4>1. ASSUME NEW w \in Threads \ {u}, cpc'[w] # "idle" PROVE entry'[w] # entry[u]
        <5>1. CASE w = t
          BY <3>1, <4>1, <5>1
        <5>2. CASE w # t
          BY <2>1, <2>3, <4>1, <5>2, ZenonT(30) DEF ownerInv
        <5> QED BY <5>1, <5>2
      <4> QED BY <4>1
    <3>3. /\ cpc'[u] = cpc[u] /\ entry'[u] = entry[u] /\ cgrp'[u] = cgrp[u]
          /\ ccall'[u] = ccall[u] /\ us'[u] = us[u] /\ closeCh'[entry[u]] = closeCh[entry[u]]
      BY <1>4, <3>1
    <3>4. entry[u] \in Linked =>
            entry[u] \in Linked' /\ groups'[gid(entry[u])] = groups[gid(entry[u])]
      BY <3>1
    <3> QED BY <2>1, <2>3, <3>2, <3>3, <3>4, ZenonT(30) DEF ownerInv
  <2> QED BY <2>2, <2>3
<1> QED
  BY <1>2, <1>3, <1>4 DEF Owned

\* The steps of InitSession before the session is registered, and those of its
\* goroutine, preserve Owned.
LEMMA InitKeepsOwned ==
  ASSUME TypeOK, CloseInv, Owned, NEW j \in Joins,
         InitSession(j) \/ InitFails(j) \/ AddRefused(j)
  PROVE  Owned'
<1>1. /\ UNCHANGED <<sessions, closeVars, closeCh, groups, calls, members, g, c, rcall, neg, panic>>
      /\ ipc[j] \in {"idle", "group", "add"}
      /\ \E p \in {"group", "failed"} : ipc' = [ipc EXCEPT ![j] = p]
  BY DEF InitSession, InitFails, AddRefused, initAt, regVars, sessVars
<1>2. ipc'[j] \in {"group", "failed"} /\ \A i \in Joins \ {j} : ipc'[i] = ipc[i]
  BY <1>1 DEF TypeOK
<1>3. Linked' = Linked
  BY <1>1, LinkedSame
<1>4. joinInv(j)'
  <2>1. joinInv(j)
    BY DEF Owned
  <2> QED BY <1>1, <1>2, <2>1 DEF joinInv
<1>5. panic' \in {"none", "sendClosed"}
  BY <1>1 DEF Owned
<1> QED
  BY <1>1, <1>2, <1>3, <1>4, <1>5, JoinStep

\* addSession, up to the call.
LEMMA AddKeepsOwned ==
  ASSUME TypeOK, CloseInv, Owned, NEW j \in Joins, raced' = {},
         AddGetGroup(j) \/ AddGetCall(j) \/ AddToCall(j)
  PROVE  Owned'
<1>1. /\ UNCHANGED <<sessions, closeVars, closeCh, rcall, neg, panic>>
      /\ ipc[j] \in {"group", "call", "add"}
  BY DEF AddGetGroup, AddGetCall, AddToCall, initAt, sessVars
<1>2. \A i \in Joins \ {j} : ipc'[i] = ipc[i] /\ g'[i] = g[i]
  BY DEF TypeOK, AddGetGroup, AddGetCall, AddToCall
<1>3. \A i \in Linked : i \in Linked' /\ groups'[gid(i)] = groups[gid(i)] /\ c'[i] = c[i]
  BY LinkedGrows
<1>4. ipc'[j] \in {"call", "add", "register"} /\ (ipc'[j] = "register" => AddToCall(j))
  <2>1. AddGetGroup(j) => ipc'[j] = "call"
    BY DEF TypeOK, AddGetGroup
  <2>2. AddGetCall(j) => ipc'[j] = "add"
    BY ZenonT(30) DEF TypeOK, AddGetCall
  <2>3. AddToCall(j) => ipc'[j] = "register"
    BY DEF TypeOK, AddToCall
  <2> QED BY <2>1, <2>2, <2>3
<1>5. joinInv(j)'
  <2>1. joinInv(j)
    BY DEF Owned
  <2>2. ipc'[j] = "register" => j \in Linked'
    BY <1>4, AddedLinked
  <2> QED BY <1>1, <1>4, <2>1, <2>2 DEF joinInv
<1>6. panic' \in {"none", "sendClosed"}
  BY <1>1 DEF Owned
<1> QED
  BY <1>1, <1>2, <1>3, <1>4, <1>5, <1>6, JoinStep

\* InitSession looks its group and its call up again, finds both, and starts the
\* goroutine.
LEMMA LookupKeepsOwned ==
  ASSUME TypeOK, CloseInv, Owned, NEW j \in Joins, InitGetGroup(j) \/ InitGetCall(j)
  PROVE  Owned'
<1>1. /\ UNCHANGED <<sessions, closeVars, closeCh, groups, calls, members, c, panic>>
      /\ ipc[j] \in {"getGroup", "getCall"}
  BY DEF InitGetGroup, InitGetCall, initAt, regVars, sessVars
<1>2. \A i \in Joins \ {j} : /\ ipc'[i] = ipc[i] /\ g'[i] = g[i]
                             /\ rcall'[i] = rcall[i] /\ neg'[i] = neg[i]
  BY DEF TypeOK, InitGetGroup, InitGetCall, sessVars
<1>3. Linked' = Linked
  BY <1>1, LinkedSame
<1>4. joinInv(j) /\ j \in Linked
  BY <1>1 DEF Owned, joinInv
<1>5. joinInv(j)' /\ ipc'[j] \in {"getCall", "done"}
  <2>1. CASE InitGetGroup(j)
    <3>1. ipc'[j] = "getCall" /\ g'[j] = groups[gid(j)] /\ neg' = neg /\ rcall' = rcall
      BY <2>1 DEF InitGetGroup, TypeOK, sessVars
    <3> QED BY <1>1, <1>3, <1>4, <3>1 DEF joinInv
  <2>2. CASE InitGetCall(j)
    <3>1. g[j] = groups[gid(j)] /\ calls[g[j]][cid(j)] = c[j] /\ c[j] \in Joins
      <4>1. g[j] = groups[gid(j)]
        BY <1>4, <2>2 DEF InitGetCall, initAt, joinInv
      <4>2. calls[groups[gid(j)]][cid(j)] = c[j] /\ c[j] \in Joins
        BY <1>4, LinkedFound
      <4> QED BY <4>1, <4>2
    <3>2. ipc'[j] = "done" /\ rcall'[j] # Nil
      BY <2>2, <3>1, NilAssumption DEF InitGetCall, TypeOK
    <3> QED BY <3>2 DEF joinInv
  <2> QED BY <2>1, <2>2
<1>6. panic' \in {"none", "sendClosed"}
  BY <1>1 DEF Owned
<1>7. \A i \in Linked : i \in Linked' /\ groups'[gid(i)] = groups[gid(i)] /\ c'[i] = c[i]
  BY <1>1, <1>3
<1>8. UNCHANGED <<sessions, closeVars, closeCh>>
  BY <1>1
<1>9. ipc[j] # "done"
  BY <1>1
<1> QED
  BY <1>2, <1>5, <1>6, <1>7, <1>8, <1>9, JoinStep

\* The steps of the negotiation goroutine, of Stop and of no goroutine at all.
LEMMA NegKeepsOwned ==
  ASSUME TypeOK, Owned,
         UNCHANGED <<sessions, closeVars, closeCh, groups, calls, members, initVars>>,
         \A i \in Joins : neg'[i] = "wait" => neg[i] = "wait",
         panic' \in {"none", "sendClosed"}
  PROVE  Owned'
<1>1. UNCHANGED <<ipc, g, c, rcall, cpc, entry, cgrp, ccall, us>>
  BY DEF initVars, closeVars
<1>2. Linked' = Linked
  BY <1>1, LinkedSame
<1>3. ASSUME NEW s \in SessionIDs PROVE entryInv(s)'
  BY <1>1, <1>2 DEF Owned, entryInv
<1>4. ASSUME NEW i \in Joins PROVE joinInv(i)'
  <2>1. joinInv(i)
    BY DEF Owned
  <2> QED BY <1>1, <1>2, <2>1 DEF joinInv
<1>5. ASSUME NEW t \in Threads PROVE ownerInv(t)'
  <2>1. ownerInv(t)
    BY DEF Owned
  <2> QED BY <1>1, <1>2, <2>1 DEF ownerInv
<1> QED
  BY <1>3, <1>4, <1>5 DEF Owned

\* A session is registered: nobody is closing it, and it becomes the entry.
LEMMA RegisterKeepsOwned ==
  ASSUME TypeOK, Owned, NEW j \in Joins, AddRegister(j)
  PROVE  Owned'
<1>1. /\ UNCHANGED <<groups, calls, members, g, c, rcall, cpc, entry, cgrp, ccall, us,
                     closeCh, neg, panic>>
      /\ ipc[j] = "register"
      /\ sessions' = [sessions EXCEPT ![sid(j)] = j]
      /\ ipc' = [ipc EXCEPT ![j] = "getGroup"]
  BY ZenonT(20) DEF AddRegister, initAt, closeVars, sessVars
<1>2. ASSUME NEW i \in Joins PROVE ipc'[i] = IF i = j THEN "getGroup" ELSE ipc[i]
  BY <1>1 DEF TypeOK
<1>3. ASSUME NEW s \in SessionIDs PROVE sessions'[s] = IF s = sid(j) THEN j ELSE sessions[s]
  BY <1>1 DEF TypeOK
<1>4. Linked' = Linked
  BY <1>1, LinkedSame
<1>5. joinInv(j) /\ j \in Linked /\ closeCh[j] = "open"
  <2>1. joinInv(j) /\ closeCh[j] \in {"open", "closed"}
    BY DEF Owned, TypeOK
  <2> QED BY <1>1, <2>1 DEF joinInv
<1>6. ASSUME NEW t \in Threads, cpc[t] # "idle" PROVE entry[t] # j /\ entry[t] \in Joins
  <2>1. ipc[entry[t]] = "done" /\ entry[t] \in Joins
    BY <1>6 DEF Owned, ownerInv, TypeOK
  <2> QED BY <1>1, <2>1
<1>7. ASSUME NEW s \in SessionIDs PROVE entryInv(s)'
  <2>1. CASE s = sid(j)
    BY <1>1, <1>2, <1>3, <1>4, <1>5, <1>6, <2>1 DEF entryInv
  <2>2. CASE s # sid(j)
    <3>1. entryInv(s) /\ sessions'[s] = sessions[s] /\ sessions[s] \in Obj
      BY <1>3, <2>2 DEF Owned, TypeOK
    <3>2. sessions[s] \in Joins /\ ipc[sessions[s]] = "done" => ipc'[sessions[s]] = "done"
      BY <1>1, <1>2
    <3>3. sessions[s] \in Joins =>
            ipc'[sessions[s]] = ipc[sessions[s]] \/ ipc'[sessions[s]] = "getGroup"
      BY <1>2, ZenonT(40)
    <3> QED BY <1>1, <1>4, <3>1, <3>2, <3>3 DEF entryInv
  <2> QED BY <2>1, <2>2
<1>8. ASSUME NEW i \in Joins PROVE joinInv(i)'
  <2>1. joinInv(i)
    BY DEF Owned
  <2>2. CASE i = j
    BY <1>1, <1>2, <1>4, <1>5, <2>2 DEF joinInv
  <2>3. CASE i # j
    BY <1>1, <1>2, <1>4, <2>1, <2>3 DEF joinInv
  <2> QED BY <2>2, <2>3
<1>9. ASSUME NEW t \in Threads PROVE ownerInv(t)'
  <2>1. ownerInv(t)
    BY DEF Owned
  <2>2. cpc[t] # "idle" => ipc'[entry[t]] = ipc[entry[t]]
    BY <1>2, <1>6
  <2> QED BY <1>1, <1>4, <2>1, <2>2 DEF ownerInv
<1> QED
  BY <1>1, <1>7, <1>8, <1>9 DEF Owned

\* CloseSession takes the entry of a session whose InitSession is done: it becomes
\* the owner of that session, and the only one.
LEMMA TakeKeepsOwned ==
  ASSUME TypeOK, Owned, NegKept, NEW t \in Threads, NEW s \in SessionIDs,
         closeTakes(t, s), raced' = {}
  PROVE  Owned'
<1>1. /\ UNCHANGED <<groups, calls, members, ipc, g, c, rcall, cgrp, ccall, us, closeCh, panic>>
      /\ cpc[t] = "idle"
      /\ cpc' = [cpc EXCEPT ![t] = "getGroup"]
      /\ entry' = [entry EXCEPT ![t] = sessions[s]]
      /\ sessions' = [sessions EXCEPT ![s] = Nil]
  BY DEF closeTakes, closeLookup, withoutEntry, closeAt, initVars
<1>2. PICK e \in Joins : e = sessions[s]
  BY DEF closeTakes, TypeOK
<1>3. entryInv(s) /\ sessions[s] # Nil
  BY DEF Owned, closeTakes
<1>4. /\ sid(e) = s /\ e \in Linked /\ closeCh[e] = "open"
      /\ \A u \in Threads : cpc[u] # "idle" => entry[u] # e
  BY <1>2, <1>3 DEF entryInv
<1>5. ipc[e] = "done"
  <2>1. takenEarly(e) = {}
    BY <1>2 DEF closeTakes
  <2>2. ipc[e] \in {"getGroup", "getCall", "done"}
    BY <1>2, <1>3 DEF entryInv
  <2> QED BY <2>1, <2>2 DEF takenEarly
<1>6. /\ cpc'[t] = "getGroup" /\ entry'[t] = e
      /\ \A u \in Threads \ {t} : cpc'[u] = cpc[u] /\ entry'[u] = entry[u]
  BY <1>1, <1>2 DEF TypeOK
<1>7. Linked' = Linked
  BY <1>1, LinkedSame
<1>8. ASSUME NEW u \in SessionIDs PROVE entryInv(u)'
  <2>1. CASE u = s
    BY <1>1, <2>1, ZenonT(40) DEF entryInv, TypeOK
  <2>2. CASE u # s
    <3>1. sessions'[u] = sessions[u] /\ entryInv(u)
      BY <1>1, <2>2 DEF TypeOK, Owned
    <3>2. sessions[u] # Nil => sessions[u] # e
      BY <1>4, <2>2, <3>1 DEF entryInv
    <3> QED BY <1>1, <1>6, <1>7, <3>1, <3>2 DEF entryInv
  <2> QED BY <2>1, <2>2
<1>9. ASSUME NEW i \in Joins PROVE joinInv(i)'
  <2>1. joinInv(i) /\ (neg'[i] = "wait" => neg[i] = "wait")
    BY DEF Owned, NegKept
  <2> QED BY <1>1, <1>7, <2>1 DEF joinInv
<1>10. ASSUME NEW u \in Threads PROVE ownerInv(u)'
  <2>1. CASE u = t
    BY <1>1, <1>4, <1>5, <1>6, <1>7, <2>1 DEF ownerInv
  <2>2. CASE u # t
    <3>1. ownerInv(u) /\ cpc'[u] = cpc[u] /\ entry'[u] = entry[u]
      BY <1>6, <2>2 DEF Owned
    <3>2. cpc[u] # "idle" => \A w \in Threads \ {u} : cpc'[w] # "idle" => entry'[w] # entry[u]
      BY <1>4, <1>6, <3>1 DEF ownerInv
    <3> QED BY <1>1, <1>7, <3>1, <3>2 DEF ownerInv
  <2> QED BY <2>1, <2>2
<1> QED
  BY <1>1, <1>8, <1>9, <1>10 DEF Owned

\* The lookups of CloseSession find the pointers that the IDs of its session lead to.
LEMMA ClosersKeepOwned ==
  ASSUME TypeOK, Owned, NEW t \in Threads,
         CloseGetGroup(t) \/ CloseGetCall(t) \/ CloseGetSession(t)
  PROVE  Owned'
<1>1. /\ UNCHANGED <<sessions, groups, calls, members, ipc, g, rcall, c, neg, closeCh, panic, entry>>
      /\ cpc[t] \in {"getGroup", "getCall", "getSession"}
  BY DEF CloseGetGroup, CloseGetCall, CloseGetSession, closeAt, regVars, initVars, sessVars
<1>2. \A u \in Threads \ {t} : /\ cpc'[u] = cpc[u] /\ cgrp'[u] = cgrp[u]
                               /\ ccall'[u] = ccall[u] /\ us'[u] = us[u]
  BY ZenonT(30) DEF TypeOK, CloseGetGroup, CloseGetCall, CloseGetSession
<1>3. PICK e \in Linked : e = entry[t] /\ ownerInv(t)
  BY <1>1, ZenonT(40) DEF Owned, ownerInv
<1>4. calls[groups[gid(e)]][cid(e)] = c[e] /\ members[c[e]][sid(e)] = e
  BY LinkedFound, ZenonT(20)
<1>5. Linked' = Linked
  BY <1>1, LinkedSame
<1>6. /\ cpc'[t] \in {"getCall", "getSession", "detach"}
      /\ cgrp'[t] = groups[gid(e)]
      /\ cpc'[t] \in {"getSession", "detach"} => ccall'[t] = c[e]
      /\ cpc'[t] = "detach" => us'[t] = e
  <2>1. CASE CloseGetGroup(t)
    <3>1. cgrp' = [cgrp EXCEPT ![t] = groups[gid(e)]] /\ cpc' = [cpc EXCEPT ![t] = "getCall"]
      BY <1>3, <2>1, ZenonT(40) DEF CloseGetGroup
    <3> QED BY <3>1, ZenonT(40) DEF TypeOK
  <2>2. CASE CloseGetCall(t)
    <3>1. cgrp[t] = groups[gid(e)]
      BY <1>3, <2>2, ZenonT(40) DEF CloseGetCall, closeAt, ownerInv
    <3>2. /\ cgrp' = cgrp /\ ccall' = [ccall EXCEPT ![t] = c[e]]
          /\ cpc' = [cpc EXCEPT ![t] = "getSession"]
      BY <1>3, <1>4, <2>2, <3>1, ZenonT(40) DEF CloseGetCall
    <3> QED BY <3>1, <3>2 DEF TypeOK
  <2>3. CASE CloseGetSession(t)
    <3>1. cgrp[t] = groups[gid(e)] /\ ccall[t] = c[e]
      BY <1>3, <2>3, ZenonT(40) DEF CloseGetSession, closeAt, ownerInv
    <3>2. /\ cgrp' = cgrp /\ ccall' = ccall /\ us' = [us EXCEPT ![t] = e]
          /\ cpc' = [cpc EXCEPT ![t] = "detach"]
      BY <1>3, <1>4, <2>3, <3>1, ZenonT(40) DEF CloseGetSession
    <3> QED BY <3>1, <3>2 DEF TypeOK
  <2> QED BY <2>1, <2>2, <2>3
<1>7. ownerInv(t)'
  <2>1. /\ ipc[e] = "done" /\ closeCh[e] = "open"
        /\ \A u \in Threads \ {t} : cpc[u] # "idle" => entry[u] # e
    BY <1>1, <1>3, ZenonT(40) DEF ownerInv
  <2> QED BY <1>1, <1>2, <1>3, <1>5, <1>6, <2>1, ZenonT(40) DEF ownerInv
<1>8. panic' \in {"none", "sendClosed"}
  BY <1>1 DEF Owned
<1> QED
  BY <1>1, <1>2, <1>5, <1>7, <1>8, CloserStep

\* The owner detaches its session, closes it, and is done with it.
LEMMA EndKeepsOwned ==
  ASSUME TypeOK, Owned, NEW t \in Threads, CloseDetach(t) \/ CloseSignal(t) \/ CloseWait(t)
  PROVE  Owned'
<1>1. /\ UNCHANGED <<sessions, ipc, g, rcall, c, panic>>
      /\ cpc[t] \in {"detach", "signal", "wait"}
  BY DEF CloseDetach, CloseSignal, CloseWait, closeAt, regVars, initVars
<1>2. \A u \in Threads \ {t} : /\ cpc'[u] = cpc[u] /\ entry'[u] = entry[u]
                               /\ cgrp'[u] = cgrp[u] /\ ccall'[u] = ccall[u]
                               /\ us'[u] = us[u]
  BY ZenonT(40) DEF TypeOK, CloseDetach, CloseSignal, CloseWait, closeReturns
<1>3. \A i \in Joins : neg'[i] = "wait" => neg[i] = "wait"
  <2>1. neg' = neg \/ (t \in Joins /\ neg' = [neg EXCEPT ![t] = "exit"])
    BY DEF CloseDetach, CloseSignal, CloseWait, closeReturns, sessVars
  <2> QED BY <2>1 DEF TypeOK
<1>4. ownerInv(t) /\ us[t] = entry[t] /\ ipc[entry[t]] = "done" /\ entry[t] \in Joins
  BY <1>1 DEF Owned, ownerInv, TypeOK
<1>5. \A i \in Joins \ {entry[t]} : closeCh'[i] = closeCh[i]
  <2>1. closeCh' = closeCh \/ closeCh' = [closeCh EXCEPT ![us[t]] = "closed"]
    BY DEF CloseDetach, CloseSignal, CloseWait, sessVars
  <2> QED BY <1>4, <2>1 DEF TypeOK
<1>6. \A i \in Linked \ {entry[t]} : i \in Linked' /\ groups'[gid(i)] = groups[gid(i)]
  <2>1. CASE CloseDetach(t)
    BY <2>1, LinkedShrinks
  <2>2. CASE CloseSignal(t) \/ CloseWait(t)
    <3>1. UNCHANGED <<groups, calls, members, c>>
      BY <2>2 DEF CloseSignal, CloseWait, regVars, initVars
    <3> QED BY <3>1, LinkedSame
  <2> QED BY <2>1, <2>2, ZenonT(40)
<1>7. /\ cpc'[t] # "idle" => entry'[t] = entry[t]
      /\ ownerInv(t)'
  <2>1. CASE CloseDetach(t) \/ CloseSignal(t)
    <3>1. /\ entry' = entry /\ us' = us
          /\ (cpc'[t] = "signal" /\ closeCh' = closeCh) \/ cpc'[t] = "wait"
      BY <2>1, ZenonT(40) DEF CloseDetach, CloseSignal, TypeOK, sessVars
    <3>2. cpc[t] # "wait"
      BY <2>1 DEF CloseDetach, CloseSignal, closeAt
    <3> QED BY <1>1, <1>2, <1>4, <3>1, <3>2, ZenonT(40) DEF ownerInv
  <2>2. CASE CloseWait(t)
    <3>1. cpc'[t] = "idle"
      BY <2>2 DEF CloseWait, closeReturns, TypeOK
    <3> QED BY <3>1, ZenonT(40) DEF ownerInv
  <2> QED BY <2>1, <2>2
<1>8. panic' \in {"none", "sendClosed"}
  BY <1>1 DEF Owned
<1>9. cpc[t] # "idle" /\ UNCHANGED <<sessions, ipc, g, rcall, c>>
  BY <1>1
<1> QED
  BY <1>2, <1>3, <1>5, <1>6, <1>7, <1>8, <1>9, CloserStep, ZenonT(40)

\* While Owned holds no lookup fails: neither InitSession nor its goroutine misses a
\* group or a call, no CloseSession returns a lookup error or closes twice.
LEMMA NothingMissing ==
  ASSUME TypeOK, Owned
  PROVE  /\ \A j \in Joins : ~InitNilGroup(j) /\ ~FirstOfferNilCall(j)
         /\ \A t \in Threads : ~CloseNotFound(t) /\ ~CloseTwice(t)
<1>1. ASSUME NEW j \in Joins, InitNilGroup(j) PROVE FALSE
  <2>1. j \in Linked /\ groups[gid(j)] = Nil
    BY <1>1 DEF InitNilGroup, initAt, Owned, joinInv
  <2> QED BY <2>1, LinkedFound, NilAssumption
<1>2. ASSUME NEW j \in Joins, FirstOfferNilCall(j) PROVE FALSE
  BY <1>2 DEF FirstOfferNilCall, negIn, Owned, joinInv
<1>3. ASSUME NEW t \in Threads, CloseNotFound(t) PROVE FALSE
  <2>1. cpc[t] \in {"getGroup", "getCall", "getSession"} /\ notFound(t) /\ ownerInv(t)
    BY <1>3, ZenonT(40) DEF CloseNotFound, notFound, Owned
  <2>2. PICK e \in Linked : e = entry[t]
    BY <2>1 DEF ownerInv
  <2>3. /\ e # Nil /\ groups[gid(e)] # Nil /\ c[e] # Nil
        /\ calls[groups[gid(e)]][cid(e)] = c[e] /\ members[c[e]][sid(e)] = e
    BY LinkedFound, NilAssumption
  <2> QED BY <2>1, <2>2, <2>3 DEF notFound, ownerInv
<1>4. ASSUME NEW t \in Threads, CloseTwice(t) PROVE FALSE
  <2>1. cpc[t] = "signal" /\ closeCh[us[t]] = "closed" /\ ownerInv(t)
    BY <1>4 DEF CloseTwice, closeAt, Owned
  <2> QED BY <2>1 DEF ownerInv
<1> QED
  BY <1>1, <1>2, <1>3, <1>4

\* Every step that loses no race preserves Owned.
LEMMA OwnedStep ==
  ASSUME TypeOK, CloseInv, Owned, [Next]_vars, raced' = {}
  PROVE  Owned'
<1>1. ASSUME NEW j \in Joins,
             \/ InitSession(j) \/ InitFails(j) \/ AddRefused(j) \/ AddGetGroup(j)
             \/ AddGetCall(j) \/ AddToCall(j) \/ InitGetGroup(j) \/ InitGetCall(j)
             \/ AddRegister(j)
      PROVE  Owned'
  BY <1>1, InitKeepsOwned, AddKeepsOwned, LookupKeepsOwned, RegisterKeepsOwned
<1>2. ASSUME NEW t \in Threads, NEW s \in SessionIDs, NegKept, closeTakes(t, s)
      PROVE  Owned'
  BY <1>2, TakeKeepsOwned
<1>3. ASSUME NEW t \in Threads,
             \/ CloseGetGroup(t) \/ CloseGetCall(t) \/ CloseGetSession(t)
             \/ CloseDetach(t) \/ CloseSignal(t) \/ CloseWait(t)
      PROVE  Owned'
  BY <1>3, ClosersKeepOwned, EndKeepsOwned
<1>4. ASSUME NEW t \in Threads, NEW s \in SessionIDs, NegKept, closeIgnores(t, s)
      PROVE  Owned'
  <2>1. UNCHANGED <<sessions, closeVars, closeCh, groups, calls, members, initVars, panic>>
    BY <1>4 DEF closeIgnores, closeLookup, withoutEntry, closeVars, TypeOK
  <2>2. \A i \in Joins : neg'[i] = "wait" => neg[i] = "wait"
    BY <1>4 DEF NegKept
  <2>3. panic' \in {"none", "sendClosed"}
    BY <2>1 DEF Owned
  <2> QED BY <2>1, <2>2, <2>3, NegKeepsOwned
<1>5. ASSUME NEW j \in Joins,
             FirstOffer(j) \/ SignalingFails(j) \/ NegotiationsEnd(j) \/ SendAfterStop(j)
      PROVE  Owned'
  <2>1. UNCHANGED <<sessions, closeVars, closeCh, groups, calls, members, initVars>>
    BY <1>5 DEF FirstOffer, SignalingFails, NegotiationsEnd, SendAfterStop, regVars, sessVars
  <2>2. \A i \in Joins : neg'[i] = "wait" => neg[i] = "wait"
    <3>1. neg' = neg \/ \E p \in {"tracks", "failed", "exit"} : neg' = [neg EXCEPT ![j] = p]
      BY <1>5, ZenonT(40) DEF FirstOffer, SignalingFails, NegotiationsEnd, SendAfterStop, sessVars
    <3> QED BY <3>1 DEF TypeOK
  <2>3. panic' \in {"none", "sendClosed"}
    BY <1>5, ZenonT(20) DEF FirstOffer, SignalingFails, NegotiationsEnd, SendAfterStop, Owned
  <2> QED BY <2>1, <2>2, <2>3, NegKeepsOwned
<1>6. CASE Stop \/ StopDrained \/ UNCHANGED vars
  <2>1. /\ UNCHANGED <<sessions, closeVars, closeCh, groups, calls, members, initVars>>
        /\ UNCHANGED <<neg, panic>>
    BY <1>6 DEF Stop, StopDrained, vars, regVars, sessVars
  <2>2. panic' \in {"none", "sendClosed"}
    BY <2>1 DEF Owned
  <2> QED BY <2>1, <2>2, NegKeepsOwned
<1> HIDE DEF Threads
<1> QED
  BY StepCases, NothingMissing, <1>1, <1>2, <1>3, <1>4, <1>5, <1>6

-----------------------------------------------------------------------------
\* Losing a race is for good.
LEMMA RacedGrows == TypeOK /\ [Next]_vars => raced \subseteq raced'
<1> SUFFICES ASSUME TypeOK, [Next]_vars PROVE raced \subseteq raced'
  OBVIOUS
<1>1. ASSUME NEW j \in Joins, AddToCall(j) PROVE raced \subseteq raced'
  BY <1>1 DEF AddToCall
<1>2. ASSUME NEW t \in Threads, NEW s \in SessionIDs, closeTakes(t, s)
      PROVE  raced \subseteq raced'
  BY <1>2 DEF closeTakes
<1> QED
  BY StepCases, <1>1, <1>2, ZenonT(40)
     DEF InitSession, InitFails, AddGetGroup, AddGetCall, AddRefused, AddRegister,
         InitGetGroup, InitNilGroup, InitGetCall, closeIgnores, CloseGetGroup,
         CloseGetCall, CloseGetSession, CloseNotFound, CloseDetach, CloseSignal,
         CloseTwice, CloseWait, FirstOffer, FirstOfferNilCall, SignalingFails,
         NegotiationsEnd, Stop, StopDrained, SendAfterStop, vars

\* As long as no InitSession lost a race with a CloseSession, every session has one
\* owner, stays linked until that owner detaches it, and its owner holds the
\* pointers its IDs lead to.
THEOREM RegistryInvariant == Spec => []RegistryInv
<1>1. Init => RegistryInv
  BY ConfigTypes, NilAssumption DEF Init, RegistryInv, Owned, entryInv, joinInv, ownerInv
<1>2. TypeOK /\ CloseInv /\ RegistryInv /\ [Next]_vars => RegistryInv'
  <2> SUFFICES ASSUME TypeOK, CloseInv, RegistryInv, [Next]_vars, raced' = {} PROVE Owned'
    BY DEF RegistryInv
  <2>1. raced = {}
    BY RacedGrows
  <2> QED
    BY <2>1, OwnedStep DEF RegistryInv
<1> QED
  BY <1>1, <1>2, TypeCorrect, CloseInvariant, PTL DEF Spec

\* Without a lost race nothing dereferences a missing group or call and no closeCh
\* is closed twice, whatever CloseSession calls run at the same time.
THEOREM RegistryNeverPanics == Spec => []NoRegistryPanic
<1>1. RegistryInv => NoRegistryPanic
  BY DEF RegistryInv, Owned, NoRegistryPanic
<1> QED
  BY <1>1, RegistryInvariant, PTL

\* Without a lost race every session in Server.sessions is found by the lookups by
\* group, call and session ID.
THEOREM RegisteredFound == Spec => []RegisteredReachable
<1>1. TypeOK /\ RegistryInv => RegisteredReachable
  <2> SUFFICES ASSUME TypeOK, Owned, NEW s \in SessionIDs, sessions[s] # Nil
               PROVE  reachable(sessions[s])
    BY DEF RegistryInv, RegisteredReachable
  <2>1. sessions[s] \in Linked
    BY DEF Owned, entryInv
  <2> QED
    BY <2>1, NilAssumption DEF Linked, reachable
<1> QED
  BY <1>1, TypeCorrect, RegistryInvariant, PTL

\* Without a lost race CloseSession finds the session whose entry it took, at every
\* one of its lookups.
THEOREM CloseAlwaysFinds == Spec => []CloseFindsSession
<1>1. TypeOK /\ RegistryInv => CloseFindsSession
  <2> SUFFICES ASSUME TypeOK, Owned, NEW t \in Threads,
                      cpc[t] \in {"getGroup", "getCall", "getSession", "detach"}
               PROVE  reachable(entry[t]) /\ (cpc[t] = "detach" => us[t] = entry[t])
    BY DEF RegistryInv, CloseFindsSession
  <2>1. entry[t] \in Linked /\ (cpc[t] = "detach" => us[t] = entry[t])
    BY DEF Owned, ownerInv
  <2> QED
    BY <2>1, NilAssumption DEF Linked, reachable
<1> QED
  BY <1>1, TypeCorrect, RegistryInvariant, PTL

\* The step that detaches a session deletes only its own call, and only when that
\* is empty; likewise its group.
LEMMA DetachKeepsLive ==
  ASSUME TypeOK, Owned, NEW t \in Threads, CloseDetach(t)
  PROVE  keepsLive
<1> DEFINE e == entry[t]
<1>1. cpc[t] = "detach" /\ ownerInv(t)
  BY DEF Owned, CloseDetach, closeAt
<1>2. e \in Linked /\ cgrp[t] = groups[gid(e)] /\ ccall[t] = c[e]
  BY <1>1 DEF ownerInv
<1>3. e \in Joins /\ groups[gid(e)] \in Joins /\ calls[groups[gid(e)]][cid(e)] = c[e]
  BY <1>2, LinkedFound, ZenonT(40)
<1>4. calls' = IF emptyCall(c[e], members')
               THEN [calls EXCEPT ![groups[gid(e)]][cid(e)] = Nil] ELSE calls
  BY <1>2, ZenonT(40) DEF CloseDetach
<1>5. groups' = IF emptyCall(c[e], members') /\ emptyGroup(groups[gid(e)], calls')
                THEN [groups EXCEPT ![gid(e)] = Nil] ELSE groups
  BY <1>2, ZenonT(40) DEF CloseDetach
<1>6. ASSUME NEW grp \in Joins, NEW x \in CallIDs,
             calls[grp][x] # Nil, calls'[grp][x] = Nil
      PROVE  emptyCall(calls[grp][x], members')
  <2>1. CASE emptyCall(c[e], members')
    <3>1. calls' = [calls EXCEPT ![groups[gid(e)]][cid(e)] = Nil]
      BY <1>4, <2>1, ZenonT(40)
    <3>2. calls'[grp][x] = IF grp = groups[gid(e)] /\ x = cid(e) THEN Nil ELSE calls[grp][x]
      BY <1>3, <3>1, ConfigTypes, ZenonT(40) DEF TypeOK
    <3>3. grp = groups[gid(e)] /\ x = cid(e)
      BY <1>6, <3>2, ZenonT(40)
    <3> QED BY <1>3, <2>1, <3>3
  <2>2. CASE ~emptyCall(c[e], members')
    BY <1>4, <1>6, <2>2
  <2> QED BY <2>1, <2>2
<1>7. ASSUME NEW x \in GroupIDs, groups[x] # Nil, groups'[x] = Nil
      PROVE  emptyGroup(groups[x], calls')
  <2>1. CASE emptyCall(c[e], members') /\ emptyGroup(groups[gid(e)], calls')
    <3>1. groups' = [groups EXCEPT ![gid(e)] = Nil]
      BY <1>5, <2>1
    <3>2. x = gid(e)
      BY <1>7, <3>1, ZenonT(40) DEF TypeOK
    <3> QED BY <2>1, <3>2
  <2>2. CASE ~(emptyCall(c[e], members') /\ emptyGroup(groups[gid(e)], calls'))
    BY <1>5, <1>7, <2>2, ZenonT(40)
  <2> QED BY <2>1, <2>2
<1> QED
  BY <1>6, <1>7 DEF keepsLive, emptyCall, emptyGroup

\* Creating a group or a call deletes nothing.
LEMMA AddKeepsLive ==
  ASSUME TypeOK, NEW j \in Joins, AddGetGroup(j) \/ AddGetCall(j)
  PROVE  keepsLive
<1>1. CASE AddGetGroup(j)
  <2>1. calls' = calls /\ \A x \in GroupIDs : groups[x] # Nil => groups'[x] # Nil
    BY <1>1, NilAssumption, ZenonT(40) DEF AddGetGroup, TypeOK
  <2> QED BY <2>1, ZenonT(40) DEF keepsLive
<1>2. CASE AddGetCall(j)
  <2>1. groups' = groups /\ g[j] \in Joins /\ cid(j) \in CallIDs
    BY <1>2, ConfigTypes DEF AddGetCall, initAt, TypeOK
  <2> DEFINE found == calls[g[j]][cid(j)]
             call == IF found = Nil THEN j ELSE found
  <2>2. calls' = [calls EXCEPT ![g[j]][cid(j)] = call] /\ call # Nil
    BY <1>2, NilAssumption DEF AddGetCall
  <2> HIDE DEF call
  <2>3. \A grp \in Joins, x \in CallIDs :
          calls'[grp][x] = IF grp = g[j] /\ x = cid(j) THEN call ELSE calls[grp][x]
    BY <2>1, <2>2 DEF TypeOK
  <2>4. \A grp \in Joins, x \in CallIDs : calls[grp][x] # Nil => calls'[grp][x] # Nil
    BY <2>2, <2>3
  <2> QED BY <2>1, <2>4, ZenonT(40) DEF keepsLive
<1> QED
  BY <1>1, <1>2

\* Every other step leaves the groups and their calls alone.
LEMMA OthersKeepLive ==
  ASSUME UNCHANGED <<groups, calls>>
  PROVE  keepsLive
  BY ZenonT(20) DEF keepsLive

\* Without a lost race CloseSession deletes a call only when that call is empty, and
\* a group only when that group is, although it deletes by ID what it looked up
\* before it held the locks (sfu.go:727-752).
THEOREM OnlyEmptyDeleted == Spec => LiveCallKept
<1>1. ASSUME TypeOK, RegistryInv, [Next]_vars, raced' = {} PROVE keepsLive
  <2>1. Owned
    BY <1>1, RacedGrows DEF RegistryInv
  <2>2. ASSUME NEW t \in Threads, CloseDetach(t) PROVE keepsLive
    BY <1>1, <2>1, <2>2, DetachKeepsLive
  <2>3. ASSUME NEW j \in Joins, AddGetGroup(j) \/ AddGetCall(j) PROVE keepsLive
    BY <1>1, <2>3, AddKeepsLive
  <2>4. \/ \E t \in Threads : CloseDetach(t)
        \/ \E j \in Joins : AddGetGroup(j) \/ AddGetCall(j)
        \/ UNCHANGED <<groups, calls>>
    BY <1>1, StepCases, ZenonT(40)
       DEF InitSession, InitFails, AddToCall, AddRefused, AddRegister, InitGetGroup,
           InitNilGroup, InitGetCall, closeTakes, closeIgnores, closeLookup,
           CloseGetGroup, CloseGetCall, CloseGetSession, CloseNotFound, CloseSignal,
           CloseTwice, CloseWait, FirstOffer, FirstOfferNilCall, SignalingFails,
           NegotiationsEnd, Stop, StopDrained, SendAfterStop, vars, regVars
  <2> QED
    BY <2>2, <2>3, <2>4, OthersKeepLive
<1>2. TypeOK /\ RegistryInv /\ [Next]_vars => [raced' = {} => keepsLive]_vars
  BY <1>1
<1> QED
  BY <1>2, TypeCorrect, RegistryInvariant, PTL DEF Spec, LiveCallKept

-----------------------------------------------------------------------------
(* The registry implements SessionLifecycle.                                *)

\* The places of InitSession before the session is in its call or refused.
Early == {"idle", "group", "call", "add"}

\* The session is in the slot of its call and its ID.
inSlot(i) == members[c[i]][sid(i)] = i

\* Until a race is lost the IDs of every session in a call lead to that call, even
\* when another session took over its entry in Server.sessions.
MembersLinked ==
  raced = {} => \A i \in Joins : ipc[i] \in Added /\ inSlot(i) => i \in Linked

\* The stage of a single session.
stage(i) ==
  IF closeCb[i] > 0 THEN "closed"
  ELSE IF ipc[i] \in Early THEN "new"
  ELSE IF ipc[i] = "failed" THEN "rejected"
  ELSE IF inSlot(i) THEN "member"
  ELSE "closing"

LEMMA SlotTypes ==
  ASSUME TypeOK
  PROVE  /\ ipc \in [Joins -> InitPC] /\ c \in [Joins -> Obj]
         /\ members \in [Joins -> [SessionIDs -> Obj]] /\ closeCb \in [Joins -> Nat]
  BY Zenon DEF TypeOK

\* A session whose InitSession has not added it to a call is not closed.
LEMMA EarlyOpen ==
  ASSUME TypeOK, CloseInv, NEW j \in Joins, ipc[j] \in Early
  PROVE  ~(closeCb[j] > 0)
<1>1. endInv(j) /\ ipc[j] \notin Added
  BY Zenon DEF CloseInv, Early, Added
<1> QED BY <1>1, Zenon DEF endInv

\* The refinement mapping reads the stage of every session.
LEMMA LifeIsStage ==
  life = [i \in Joins |-> stage(i)] /\ life' = [i \in Joins |-> stage(i)']
  BY DEF life, stage, Early, inSlot

\* A step that takes no session into or out of its call, ends no InitSession with
\* an error and runs no callback leaves every stage as it was.
LEMMA LifeKept ==
  ASSUME UNCHANGED <<members, closeCb>>,
         \A i \in Joins :
           \/ ipc[i] \in Early /\ ipc'[i] \in Early
           \/ ipc[i] \notin Early /\ ipc'[i] = ipc[i] /\ c'[i] = c[i]
           \/ ipc[i] \in Added /\ ipc'[i] \in Added /\ c'[i] = c[i]
  PROVE  life' = life
<1>1. \A i \in Joins : stage(i)' = stage(i)
  BY DEF stage, inSlot, Early, Added
<1> QED
  BY <1>1, LifeIsStage, Zenon

\* A step that changes the stage of one session only.
LEMMA LifeMoves ==
  ASSUME NEW j \in Joins, NEW p,
         stage(j)' = p, \A i \in Joins \ {j} : stage(i)' = stage(i)
  PROVE  life' = [life EXCEPT ![j] = p]
<1> DEFINE old == [i \in Joins |-> stage(i)]
           new == [i \in Joins |-> stage(i)']
<1>1. \A i \in Joins : new[i] = IF i = j THEN p ELSE old[i]
  OBVIOUS
<1>2. life = old /\ life' = new
  BY LifeIsStage
<1> HIDE DEF old, new
<1>3. old = [i \in Joins |-> old[i]] /\ new = [i \in Joins |-> new[i]]
  BY DEF old, new
<1> QED
  BY <1>1, <1>2, <1>3

-----------------------------------------------------------------------------
\* A step that leaves the maps alone and moves an InitSession, if any, among the
\* places of one stage.
Still ==
  /\ UNCHANGED <<groups, calls, members, c, closeCb>>
  /\ \A i \in Joins :
       \/ ipc'[i] = ipc[i]
       \/ ipc[i] \in Early /\ ipc'[i] \in Early
       \/ ipc[i] \in Added /\ ipc'[i] \in Added

\* The steps of the registry that are not still.
LEMMA MovingSteps ==
  ASSUME TypeOK, [Next]_vars
  PROVE  \/ \E j \in Joins : \/ InitFails(j) \/ AddGetGroup(j) \/ AddGetCall(j)
                             \/ AddToCall(j) \/ AddRefused(j)
         \/ \E t \in Threads : CloseDetach(t) \/ CloseWait(t)
         \/ \E t \in Threads, s \in SessionIDs : closeTakes(t, s) /\ Still
         \/ Still /\ UNCHANGED raced
<1>1. ASSUME NEW j \in Joins,
             \/ InitSession(j) \/ AddRegister(j) \/ InitGetGroup(j) \/ InitGetCall(j)
      PROVE  Still /\ UNCHANGED raced
  <2>1. UNCHANGED <<groups, calls, members, c, closeCb, raced>>
    BY <1>1 DEF InitSession, AddRegister, InitGetGroup, InitGetCall, regVars, sessVars
  <2>2. \E q \in InitPC :
          /\ ipc' = [ipc EXCEPT ![j] = q]
          /\ (ipc[j] \in Early /\ q \in Early) \/ (ipc[j] \in Added /\ q \in Added)
    BY <1>1 DEF InitSession, AddRegister, InitGetGroup, InitGetCall, initAt, InitPC, Early, Added
  <2> QED BY <2>1, <2>2 DEF Still, TypeOK
<1>2. ASSUME NEW j \in Joins,
             \/ InitNilGroup(j) \/ FirstOffer(j) \/ FirstOfferNilCall(j) \/ SignalingFails(j)
             \/ NegotiationsEnd(j) \/ SendAfterStop(j)
      PROVE  Still /\ UNCHANGED raced
  BY <1>2 DEF InitNilGroup, FirstOffer, FirstOfferNilCall, SignalingFails, NegotiationsEnd,
              SendAfterStop, Still, regVars, initVars, sessVars
<1>3. ASSUME NEW t \in Threads, NEW s \in SessionIDs, closeTakes(t, s) \/ closeIgnores(t, s)
      PROVE  Still
  BY <1>3 DEF closeTakes, closeIgnores, closeLookup, Still, initVars
<1>4. ASSUME NEW t \in Threads, NEW s \in SessionIDs, closeIgnores(t, s)
      PROVE  UNCHANGED raced
  BY <1>4 DEF closeIgnores
<1>5. ASSUME NEW t \in Threads,
             \/ CloseGetGroup(t) \/ CloseGetCall(t) \/ CloseGetSession(t) \/ CloseNotFound(t)
             \/ CloseSignal(t) \/ CloseTwice(t)
      PROVE  Still /\ UNCHANGED raced
  BY <1>5 DEF CloseGetGroup, CloseGetCall, CloseGetSession, CloseNotFound, CloseSignal,
              CloseTwice, Still, regVars, initVars, sessVars
<1>6. CASE Stop \/ StopDrained \/ UNCHANGED vars
  BY <1>6 DEF Stop, StopDrained, vars, Still, regVars, initVars, sessVars
<1> HIDE DEF Threads
<1> QED
  BY StepCases, <1>1, <1>2, <1>3, <1>4, <1>5, <1>6, ZenonT(60)

\* As long as no race is lost a step keeps every session of a call linked: only
\* CloseSession unlinks a call, and only an empty one.
LEMMA MembersLinkedStep ==
  ASSUME TypeOK, CloseInv, RegistryInv, MembersLinked, [Next]_vars
  PROVE  MembersLinked'
<1> SUFFICES ASSUME raced' = {}, NEW i \in Joins, ipc'[i] \in Added, inSlot(i)'
             PROVE  i \in Linked'
  BY DEF MembersLinked
<1>1. raced = {} /\ Owned
  BY RacedGrows DEF RegistryInv
<1>2. ipc[i] \in Added /\ inSlot(i) => i \in Linked
  BY <1>1 DEF MembersLinked
<1>3. ASSUME NEW j \in Joins, AddGetGroup(j) \/ AddGetCall(j) PROVE i \in Linked'
  <2>1. ipc'[j] \in Early /\ \A k \in Joins \ {j} : ipc'[k] = ipc[k] /\ c'[k] = c[k]
    BY <1>3 DEF AddGetGroup, AddGetCall, TypeOK, Early
  <2>2. members' = members /\ i # j
    BY <1>3, <2>1 DEF AddGetGroup, AddGetCall, Added, Early
  <2>3. i \in Linked
    BY <1>2, <2>1, <2>2 DEF inSlot
  <2> QED BY <1>3, <2>3, LinkedGrows
<1>4. ASSUME NEW j \in Joins, AddToCall(j) PROVE i \in Linked'
  <2>1. CASE i = j
    BY <1>4, <2>1, AddedLinked
  <2>2. CASE i # j
    <3>1. ipc'[i] = ipc[i] /\ c' = c /\ members' = [members EXCEPT ![c[j]][sid(j)] = j]
      BY <1>4, <2>2 DEF AddToCall, TypeOK
    <3>2. c[i] \in Joins /\ sid(i) \in SessionIDs
      BY <3>1, ConfigTypes DEF TypeOK, Added
    <3>3. inSlot(i)
      BY <2>2, <3>1, <3>2 DEF inSlot, TypeOK
    <3>4. i \in Linked
      BY <1>2, <3>1, <3>3
    <3> QED BY <1>4, <3>4, LinkedGrows
  <2> QED BY <2>1, <2>2
<1>5. ASSUME NEW t \in Threads, CloseDetach(t) PROVE i \in Linked'
  <2> DEFINE e == entry[t]
  <2>1. cpc[t] = "detach" /\ ownerInv(t)
    BY <1>1, <1>5 DEF Owned, CloseDetach, closeAt
  <2>2. e \in Linked /\ ccall[t] = c[e]
    BY <2>1 DEF ownerInv
  <2>3. ipc' = ipc /\ c' = c /\ members' = [members EXCEPT ![c[e]][sid(e)] = Nil]
    BY <1>5, <2>2, ZenonT(40) DEF CloseDetach, initVars
  <2>4. e \in Joins /\ c[e] \in Joins /\ c[i] \in Joins
        /\ sid(i) \in SessionIDs /\ sid(e) \in SessionIDs
    <3>1. e \in Joins /\ c[e] \in Joins
      BY <2>2, LinkedFound
    <3>2. ipc[i] \in Added
      BY <2>3
    <3>3. c[i] \in Joins
      BY <3>2, ZenonT(20) DEF TypeOK, Added, Obj
    <3> QED BY <3>1, <3>3, ConfigTypes
  <2>5. members'[c[i]][sid(i)] =
          IF c[i] = c[e] /\ sid(i) = sid(e) THEN Nil ELSE members[c[i]][sid(i)]
    BY <2>3, <2>4 DEF TypeOK
  <2>6. i # e /\ inSlot(i)
    BY <2>3, <2>5, NilAssumption DEF inSlot
  <2>7. i \in Linked
    BY <1>2, <2>3, <2>6
  <2> QED BY <1>1, <1>5, <2>6, <2>7, LinkedShrinks
<1>6. ASSUME UNCHANGED <<groups, calls, members, c>>, ipc[i] \in Added PROVE i \in Linked'
  BY <1>2, <1>6, LinkedSame DEF inSlot
<1>7. ASSUME Still PROVE i \in Linked'
  BY <1>6, <1>7 DEF Still, Early, Added
<1>8. ASSUME NEW j \in Joins, InitFails(j) \/ AddRefused(j) PROVE i \in Linked'
  <2>1. UNCHANGED <<groups, calls, members, c>> /\ ipc' = [ipc EXCEPT ![j] = "failed"]
    BY <1>8 DEF InitFails, AddRefused, regVars
  <2>2. ipc[i] \in Added
    BY <2>1 DEF TypeOK, Added
  <2> QED BY <1>6, <2>1, <2>2
<1>9. ASSUME NEW t \in Threads, CloseWait(t) PROVE i \in Linked'
  BY <1>6, <1>9 DEF CloseWait, regVars, initVars
<1> HIDE DEF Threads
<1> QED
  BY MovingSteps, <1>3, <1>4, <1>5, <1>7, <1>8, <1>9, ZenonT(40)

-----------------------------------------------------------------------------
\* The variables of SessionLifecycle under the mapping.
abstract == <<life, raced # {}>>

\* A step that moves only InitSession and its goroutine, or only begins a
\* CloseSession, is a stutter or the loss of a race.
LEMMA StillSimulates ==
  ASSUME TypeOK, [Next]_vars, Still
  PROVE  Lifecycle!Next \/ UNCHANGED abstract
<1>1. life' = life
  BY LifeKept DEF Still, Early, Added
<1>2. (raced # {}) => (raced' # {})
  BY RacedGrows
<1>3. CASE (raced # {})' = (raced # {})
  BY <1>1, <1>3, Zenon DEF abstract
<1>4. CASE (raced # {})' # (raced # {})
  <2>1. ~(raced # {}) /\ (raced # {})' = TRUE
    BY <1>2, <1>4, Zenon
  <2> QED BY <1>1, <2>1, Zenon DEF Lifecycle!Next, Lifecycle!Disturb
<1> QED
  BY <1>3, <1>4

\* addSession looks the call up, or creates it: nobody has entered it yet.
LEMMA LookupSimulates ==
  ASSUME TypeOK, NEW j \in Joins, AddGetGroup(j) \/ AddGetCall(j)
  PROVE  UNCHANGED abstract
<1>1. UNCHANGED <<members, closeCb, raced>>
  BY DEF AddGetGroup, AddGetCall, sessVars
<1>2. /\ ipc[j] \in Early /\ ipc'[j] \in Early
      /\ \A i \in Joins \ {j} : ipc'[i] = ipc[i] /\ c'[i] = c[i]
  BY DEF AddGetGroup, AddGetCall, initAt, TypeOK, Early
<1>3. life' = life
  BY <1>1, <1>2, LifeKept DEF Early
<1> QED
  BY <1>1, <1>3, Zenon DEF abstract

\* An InitSession that fails, or is refused its ID, rejects the session.
LEMMA FailureSimulates ==
  ASSUME TypeOK, CloseInv, NEW j \in Joins, InitFails(j) \/ AddRefused(j)
  PROVE  Lifecycle!Reject(j)
<1>1. UNCHANGED <<members, closeCb, c, raced>> /\ ipc' = [ipc EXCEPT ![j] = "failed"]
      /\ ipc[j] \in Early
  BY DEF InitFails, AddRefused, regVars, sessVars, initAt, Early
<1>2. ~(closeCb[j] > 0)
  BY <1>1, EarlyOpen
<1>3. stage(j) = "new" /\ stage(j)' = "rejected"
  BY <1>1, <1>2, SlotTypes DEF stage, Early
<1>4. \A i \in Joins \ {j} : stage(i)' = stage(i)
  BY <1>1 DEF stage, inSlot, TypeOK
<1>5. life' = [life EXCEPT ![j] = "rejected"] /\ life[j] = "new"
  BY <1>3, <1>4, LifeMoves, LifeIsStage
<1>6. (raced # {})' = (raced # {})
  BY <1>1
<1> QED
  BY <1>5, <1>6, Zenon DEF Lifecycle!Reject

\* call.addSession is the step at which a session becomes a member, and as long as
\* no race is lost no other member has its configuration.
LEMMA AddSimulates ==
  ASSUME TypeOK, CloseInv, MembersLinked, [Next]_vars, NEW j \in Joins, AddToCall(j)
  PROVE  Lifecycle!Add(j)
<1>1. /\ UNCHANGED <<closeCb, c>> /\ ipc' = [ipc EXCEPT ![j] = "register"]
      /\ ipc[j] = "add" /\ members' = [members EXCEPT ![c[j]][sid(j)] = j]
      /\ members[c[j]][sid(j)] = Nil
  BY DEF AddToCall, sessVars, initAt
<1>2. ~(closeCb[j] > 0)
  BY <1>1, EarlyOpen DEF Early
<1>3. c[j] \in Joins /\ sid(j) \in SessionIDs
  BY <1>1, ConfigTypes DEF TypeOK
<1>4. inSlot(j)'
  BY <1>1, <1>3 DEF inSlot, TypeOK
<1>5. stage(j) = "new" /\ stage(j)' = "member"
  BY <1>1, <1>2, <1>4, SlotTypes DEF stage, Early
<1>6. \A i \in Joins \ {j} : stage(i)' = stage(i)
  <2> SUFFICES ASSUME NEW i \in Joins \ {j} PROVE stage(i)' = stage(i)
    OBVIOUS
  <2>1. ipc'[i] = ipc[i]
    BY <1>1 DEF TypeOK
  <2>2. ASSUME ipc[i] \in Added PROVE inSlot(i)' <=> inSlot(i)
    <3>1. c[i] \in Joins /\ sid(i) \in SessionIDs
      BY <2>2, ConfigTypes DEF TypeOK, Added
    <3>2. members'[c[i]][sid(i)] =
            IF c[i] = c[j] /\ sid(i) = sid(j) THEN j ELSE members[c[i]][sid(i)]
      BY <1>1, <1>3, <3>1 DEF TypeOK
    <3> QED BY <1>1, <3>2, NilAssumption DEF inSlot
  <2>3. ipc[i] \in Early \cup {"failed"} \cup Added
    BY DEF TypeOK, InitPC, Early, Added
  <2> QED BY <1>1, <2>1, <2>2, <2>3 DEF stage, Early, Added
<1>7. life' = [life EXCEPT ![j] = "member"] /\ life[j] = "new"
  BY <1>5, <1>6, LifeMoves, LifeIsStage
<1>8. (raced # {})' \in {raced # {}, TRUE}
  <2>1. (raced # {}) => (raced # {})'
    BY RacedGrows
  <2> QED BY <2>1, Zenon
<1>9. ASSUME raced' = {}, Lifecycle!taken(j) PROVE FALSE
  <2>1. PICK i \in Joins \ {j} : life[i] = "member" /\ cfg[i] = cfg[j]
    BY <1>9 DEF Lifecycle!taken
  <2>2. ipc[i] \in Added /\ inSlot(i)
    <3>1. stage(i) = "member"
      BY <2>1, LifeIsStage
    <3>2. ipc[i] \in Early \cup {"failed"} \cup Added
      BY DEF TypeOK, InitPC, Early, Added
    <3> QED BY <3>1, <3>2 DEF stage
  <2>3. i \in Linked
    BY <1>9, <2>2, RacedGrows DEF MembersLinked
  <2>4. linkedCall(i) = c[i] /\ linkedCall(j) = c[j]
    BY <1>9, <2>3 DEF Linked, AddToCall
  <2>5. c[i] = c[j] /\ sid(i) = sid(j)
    BY <2>1, <2>4 DEF linkedCall
  <2> QED BY <1>1, <2>2, <2>5, NilAssumption DEF inSlot
<1>10. (raced # {})' \/ ~Lifecycle!taken(j)
  BY <1>9
<1> QED
  BY <1>7, <1>8, <1>10, Zenon DEF Lifecycle!Add

\* handleSessionClose takes whatever session is in the slot out of the call.  That
\* session was not reported closed before; without a session nothing changes.
LEMMA DetachSimulates ==
  ASSUME TypeOK, CloseInv, NEW t \in Threads, CloseDetach(t)
  PROVE  (\E j \in Joins : Lifecycle!Close(j)) \/ UNCHANGED abstract
<1> DEFINE call == ccall[t]
           s == sid(entry[t])
           h == members[call][s]
<1>1. UNCHANGED <<ipc, c, closeCb, raced>> /\ members' = [members EXCEPT ![call][s] = Nil]
      /\ cpc[t] = "detach"
  BY DEF CloseDetach, initVars, sessVars, closeAt
<1>2. call \in Joins /\ s \in SessionIDs /\ h \in Obj
  <2>1. call \in Joins /\ entry[t] \in Joins
    BY <1>1 DEF TypeOK
  <2> QED BY <2>1, ConfigTypes, SlotTypes
<1>3. (raced # {})' = (raced # {})
  BY <1>1
<1>4. ASSUME NEW i \in Joins, i # h PROVE stage(i)' = stage(i)
  <2>1. ASSUME ipc[i] \in Added PROVE inSlot(i)' <=> inSlot(i)
    <3>1. c[i] \in Joins /\ sid(i) \in SessionIDs
      BY <2>1, ConfigTypes DEF TypeOK, Added
    <3>2. members'[c[i]][sid(i)] =
            IF c[i] = call /\ sid(i) = s THEN Nil ELSE members[c[i]][sid(i)]
      BY <1>1, <1>2, <3>1 DEF TypeOK
    <3> QED BY <1>1, <1>4, <3>2, NilAssumption DEF inSlot
  <2>2. ipc[i] \in Early \cup {"failed"} \cup Added
    BY DEF TypeOK, InitPC, Early, Added
  <2> QED BY <1>1, <2>1, <2>2 DEF stage, Early, Added
<1>5. CASE h = Nil
  <2>1. \A i \in Joins : stage(i)' = stage(i)
    BY <1>4, <1>5, NilAssumption
  <2>2. life' = life
    BY <2>1, LifeIsStage, Zenon
  <2> QED BY <1>3, <2>2, Zenon DEF abstract
<1>6. CASE h # Nil
  <2>1. PICK k \in Joins : k = h
    BY <1>2, <1>6
  <2>2. slotInv(call, s) /\ endInv(k) /\ closeCb[k] \in Nat
    BY <1>2 DEF CloseInv, TypeOK
  <2>3. call = c[k] /\ s = sid(k) /\ ipc[k] \in Added /\ inSlot(k)
    BY <1>6, <2>1, <2>2, ZenonT(20) DEF slotInv, inSlot
  <2>4. closeCb[k] = 0
    BY <2>2, <2>3 DEF endInv, inSlot
  <2>5. ~inSlot(k)'
    <3>1. members'[c[k]][sid(k)] = Nil
      BY <1>1, <1>2, <2>3 DEF TypeOK
    <3> QED BY <1>1, <3>1, NilAssumption DEF inSlot
  <2>6. stage(k) = "member" /\ stage(k)' = "closing"
    BY <1>1, <2>3, <2>4, <2>5 DEF stage, Early, Added
  <2>7. life' = [life EXCEPT ![k] = "closing"] /\ life[k] = "member"
    BY <1>4, <2>1, <2>6, LifeMoves, LifeIsStage
  <2> QED BY <1>3, <2>7, Zenon DEF Lifecycle!Close
<1> QED
  BY <1>5, <1>6

\* closeCb runs for a session that left its call and was not reported before.
LEMMA WaitSimulates ==
  ASSUME TypeOK, CloseInv, NEW t \in Threads, CloseWait(t)
  PROVE  \E j \in Joins : Lifecycle!Finish(j)
<1>1. us[t] \in Joins /\ cpc[t] = "wait"
  BY DEF CloseWait, closeAt, TypeOK
<1>2. PICK h \in Joins : h = us[t]
  BY <1>1
<1>3. /\ UNCHANGED <<members, ipc, c, raced>>
      /\ closeCb' = [closeCb EXCEPT ![h] = closeCb[h] + 1]
  BY <1>2 DEF CloseWait, regVars, initVars
<1>4. ipc[h] \in Added /\ ~inSlot(h) /\ closeCb[h] = 0
  BY <1>1, <1>2 DEF CloseInv, closerInv, inSlot
<1>5. closeCb'[h] > 0 /\ \A i \in Joins \ {h} : closeCb'[i] = closeCb[i]
  BY <1>3, <1>4, SlotTypes
<1>6. stage(h) = "closing" /\ stage(h)' = "closed"
  BY <1>4, <1>5 DEF stage, Early, Added
<1>7. \A i \in Joins \ {h} : stage(i)' = stage(i)
  BY <1>3, <1>5 DEF stage, inSlot
<1>8. life' = [life EXCEPT ![h] = "closed"] /\ life[h] = "closing"
  BY <1>6, <1>7, LifeMoves, LifeIsStage
<1>9. (raced # {})' = (raced # {})
  BY <1>3
<1> QED
  BY <1>8, <1>9, Zenon DEF Lifecycle!Finish

\* Every step of the registry maps to a step of SessionLifecycle or to a stutter.
LEMMA StepSimulates ==
  ASSUME TypeOK, CloseInv, MembersLinked, [Next]_vars
  PROVE  Lifecycle!Next \/ UNCHANGED abstract
<1>1. ASSUME NEW j \in Joins, InitFails(j) \/ AddRefused(j) PROVE Lifecycle!Next
  BY <1>1, FailureSimulates DEF Lifecycle!Next
<1>2. ASSUME NEW j \in Joins, AddGetGroup(j) \/ AddGetCall(j) PROVE UNCHANGED abstract
  BY <1>2, LookupSimulates
<1>3. ASSUME NEW j \in Joins, AddToCall(j) PROVE Lifecycle!Next
  BY <1>3, AddSimulates DEF Lifecycle!Next
<1>4. ASSUME NEW t \in Threads, CloseDetach(t) PROVE Lifecycle!Next \/ UNCHANGED abstract
  BY <1>4, DetachSimulates, Zenon DEF Lifecycle!Next
<1>5. ASSUME NEW t \in Threads, CloseWait(t) PROVE Lifecycle!Next
  BY <1>5, WaitSimulates, Zenon DEF Lifecycle!Next
<1>6. ASSUME Still PROVE Lifecycle!Next \/ UNCHANGED abstract
  BY <1>6, StillSimulates
<1> HIDE DEF Threads
<1> QED
  BY MovingSteps, <1>1, <1>2, <1>3, <1>4, <1>5, <1>6, ZenonT(40)

\* rtc.Server keeps the promises of SessionLifecycle whatever goroutines interleave:
\* a session enters its call once, leaves it once, is reported closed once, in that
\* order, and until a race is lost no call has two sessions of one ID.
THEOREM RegistryKeepsPromises == Spec => KeepsPromises
<1>1. Init => Lifecycle!Init
  <2> SUFFICES ASSUME Init PROVE Lifecycle!Init
    OBVIOUS
  <2>1. \A i \in Joins : stage(i) = "new"
    BY DEF Init, stage, Early
  <2>2. life = [i \in Joins |-> "new"]
    BY <2>1, LifeIsStage, Zenon
  <2>3. (raced # {}) = FALSE
    BY DEF Init
  <2> QED BY <2>2, <2>3, Zenon DEF Lifecycle!Init
<1>2. Init => MembersLinked
  BY DEF Init, MembersLinked, Added
<1>3. TypeOK /\ CloseInv /\ RegistryInv /\ MembersLinked /\ [Next]_vars => MembersLinked'
  BY MembersLinkedStep
<1>4. TypeOK /\ CloseInv /\ MembersLinked /\ [Next]_vars
        => [Lifecycle!Next]_<<life, raced # {}>>
  BY StepSimulates DEF abstract
<1> QED
  BY <1>1, <1>2, <1>3, <1>4, TypeCorrect, CloseInvariant, RegistryInvariant, PTL
     DEF Spec, KeepsPromises, Lifecycle!Spec
=============================================================================
