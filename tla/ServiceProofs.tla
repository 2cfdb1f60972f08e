---------------------------- MODULE ServiceProofs ----------------------------
(***************************************************************************)
(* Proofs about the service: the accounts and tokens of Auth, and the      *)
(* routes of ServiceRouting.                                               *)
(***************************************************************************)
EXTENDS Auth, ServiceRouting, SequenceTheorems, TLAPS

USE ZenonT(3), SMTT(20)

-----------------------------------------------------------------------------
(* Auth *)

\* The steps of AuthNext by name, each for one worker or one token.
LEMMA StepCases ==
  ASSUME AuthNext, NEW P,
         ASSUME NEW w \in Workers, NEW r \in Requests, Serve(w, r) PROVE P,
         ASSUME NEW w \in Workers, AdminAuth(w) PROVE P,
         ASSUME NEW w \in Workers, Authenticate(w) PROVE P,
         ASSUME NEW w \in Workers, CompareKey(w) PROVE P,
         ASSUME NEW w \in Workers, BearerAuth(w) PROVE P,
         ASSUME NEW w \in Workers, PurgeExpired(w) PROVE P,
         ASSUME NEW w \in Workers, RegisterLooks(w) PROVE P,
         ASSUME NEW w \in Workers, RegisterPuts(w) PROVE P,
         ASSUME NEW w \in Workers, RegisterFails(w) PROVE P,
         ASSUME NEW w \in Workers, UnregisterLooks(w) PROVE P,
         ASSUME NEW w \in Workers, UnregisterDeletes(w) PROVE P,
         ASSUME NEW w \in Workers, DeleteUnsynced(w) PROVE P,
         ASSUME NEW w \in Workers, DeleteFails(w) PROVE P,
         ASSUME NEW w \in Workers, UnregisterInvalidates(w) PROVE P,
         ASSUME NEW w \in Workers, LoginCaches(w) PROVE P,
         ASSUME NEW t \in Tokens, Expire(t) PROVE P,
         ASSUME Restart PROVE P
  PROVE  P
BY DEF AuthNext, Step

\* What the assumption on the instance says of a request.
LEMMA RequestFields ==
  ASSUME NEW r \in Requests
  PROVE  /\ r # None
         /\ r.op \in Ops /\ r.id \in Clients /\ r.key \in Keys \cup ShortKeys
         /\ r.auth.kind = "basic" => r.auth.id \in Clients
         /\ r.auth.kind = "bearer" => r.auth.token \in Tokens
<1>1. r \in Request /\ r # None
  BY AuthAssumption
<1>2. r.op \in Ops /\ r.id \in Clients /\ r.key \in Keys \cup ShortKeys /\ r.auth \in Basic \cup Bearer
  BY <1>1 DEF Request
<1>3. CASE r.auth \in Basic
  BY <1>1, <1>2, <1>3 DEF Basic
<1>4. CASE r.auth \in Bearer
  BY <1>1, <1>2, <1>4 DEF Bearer
<1> QED
  BY <1>2, <1>3, <1>4

\* A worker past "idle" has one of the requests.
LEMMA BusyRequest ==
  ASSUME AuthTypeOK, NEW w \in Workers, at[w] # "idle"
  PROVE  req[w] \in Requests
BY DEF AuthTypeOK, Settled

\* The worker part of AuthTypeOK.
RequestTypes ==
  /\ at \in [Workers -> Places]
  /\ req \in [Workers -> Requests \cup {None}]
  /\ \A w \in Workers : Settled(w)
  /\ hash \in [Workers -> Hashes \cup {None}]

\* Where a worker may go from where it is.
mayGoto(w, p) ==
  /\ p \in Places \ {"auth", "login", "compare"}
  /\ p = "cache" => req[w].op = "login" /\ hash[w] # None
  /\ p = "put" => req[w].key \in Keys

\* Going on and answering keep the types of the workers.
LEMMA MoveTyped ==
  ASSUME AuthTypeOK, NEW w \in Workers, at[w] # "idle",
         Answer(w) \/ \E p \in Places : mayGoto(w, p) /\ Goto(w, p)
  PROVE  RequestTypes'
<1>1. CASE Answer(w)
  BY <1>1 DEF Answer, AuthTypeOK, RequestTypes, Places, Settled
<1>2. ASSUME NEW p \in Places, mayGoto(w, p), Goto(w, p)
      PROVE  RequestTypes'
  BY <1>2 DEF Goto, mayGoto, AuthTypeOK, RequestTypes, Settled
<1> QED
  BY <1>1, <1>2

\* A request that is let pass goes on or is answered.
LEMMA AuthorisedMoves ==
  ASSUME NEW w \in Workers, NEW who, Authorised(w, who), req[w].op = "login" => hash[w] # None
  PROVE  Answer(w) \/ \E p \in Places : mayGoto(w, p) /\ Goto(w, p)
BY DEF Authorised, ownAccount, Places, mayGoto

\* Every step keeps the types.
LEMMA AuthTypeStep ==
  ASSUME AuthTypeOK, [AuthNext]_authVars
  PROVE  AuthTypeOK'
<1>1. CASE UNCHANGED authVars
  BY <1>1 DEF AuthTypeOK, Settled, authVars, authHistory
<1>2. CASE AuthNext
  <2>1. ASSUME NEW w \in Workers, NEW r \in Requests, Serve(w, r)
        PROVE  AuthTypeOK'
    BY <2>1, RequestFields DEF Serve, firstPlace, AuthTypeOK, Settled, Places, authHistory
  <2>2. ASSUME NEW w \in Workers, AdminAuth(w)
        PROVE  AuthTypeOK'
    <3>1. at[w] # "idle" /\ (Answer(w) \/ \E p \in Places : mayGoto(w, p) /\ Goto(w, p))
      BY <2>2, AuthorisedMoves DEF AdminAuth, byAdmin, byBasic, AuthTypeOK, Settled
    <3> QED
      BY <2>2, <3>1, MoveTyped DEF AdminAuth, AuthTypeOK, RequestTypes, authHistory
  <2>3. ASSUME NEW w \in Workers, Authenticate(w)
        PROVE  AuthTypeOK'
    <3>1. at[w] # "idle" /\ req[w] \in Requests /\ given(w).id \in Clients
      BY <2>3, BusyRequest, RequestFields DEF Authenticate, byBasic, given, AuthTypeOK, Settled
    <3>2. CASE db[given(w).id] = None
      BY <2>3, <3>1, <3>2, MoveTyped DEF Authenticate, AuthTypeOK, RequestTypes, authHistory
    <3>3. CASE db[given(w).id] # None
      BY <2>3, <3>1, <3>3 DEF Authenticate, AuthTypeOK, Settled, Places, authHistory
    <3> QED
      BY <3>2, <3>3
  <2>4. ASSUME NEW w \in Workers, CompareKey(w)
        PROVE  AuthTypeOK'
    <3>1. at[w] # "idle" /\ (Answer(w) \/ \E p \in Places : mayGoto(w, p) /\ Goto(w, p))
      BY <2>4, AuthorisedMoves DEF CompareKey, AuthTypeOK, Settled
    <3> QED
      BY <2>4, <3>1, MoveTyped DEF CompareKey, AuthTypeOK, RequestTypes, authHistory
  <2>5. ASSUME NEW w \in Workers, BearerAuth(w)
        PROVE  AuthTypeOK'
    <3>1. at[w] # "idle" /\ (Answer(w) \/ \E p \in Places : mayGoto(w, p) /\ Goto(w, p))
      BY <2>5, AuthorisedMoves DEF BearerAuth, Places, mayGoto, AuthTypeOK, Settled
    <3> QED
      BY <2>5, <3>1, MoveTyped DEF BearerAuth, AuthTypeOK, RequestTypes, authHistory
  <2>6. ASSUME NEW w \in Workers, PurgeExpired(w)
        PROVE  AuthTypeOK'
    <3>1. at[w] # "idle" /\ req[w] \in Requests /\ RequestTypes'
      BY <2>6, BusyRequest, MoveTyped DEF PurgeExpired
    <3> QED
      BY <2>6, <3>1, RequestFields, Zenon DEF PurgeExpired, purged, AuthTypeOK, RequestTypes, authHistory
  <2>7. ASSUME NEW w \in Workers, RegisterLooks(w)
        PROVE  AuthTypeOK'
    <3>1. at[w] # "idle" /\ req[w] \in Requests /\ RequestTypes'
      BY <2>7, BusyRequest, MoveTyped DEF RegisterLooks, Places, mayGoto
    <3> QED
      BY <2>7, <3>1, RequestFields DEF RegisterLooks, AuthTypeOK, RequestTypes, authHistory
  <2>8. ASSUME NEW w \in Workers, RegisterPuts(w)
        PROVE  AuthTypeOK'
    <3>1. req[w] \in Requests /\ hashKey(req[w].key) \in Hashes
      BY <2>8, BusyRequest DEF RegisterPuts, AuthTypeOK, Settled, Hashes
    <3>2. RequestTypes' /\ db' = put(req[w].id, hashKey(req[w].key)) /\ UNCHANGED <<sessionMap, authHistory>>
      BY <2>8, MoveTyped DEF RegisterPuts
    <3> QED
      BY <3>1, <3>2, RequestFields DEF put, AuthTypeOK, RequestTypes, authHistory
  <2>9. ASSUME NEW w \in Workers, RegisterFails(w)
        PROVE  AuthTypeOK'
    <3>1. at[w] # "idle" /\ req[w] \in Requests /\ RequestTypes'
      BY <2>9, BusyRequest, MoveTyped DEF RegisterFails
    <3> QED
      BY <2>9, <3>1, RequestFields DEF RegisterFails, AuthTypeOK, RequestTypes, authHistory
  <2>10. ASSUME NEW w \in Workers, UnregisterLooks(w)
        PROVE  AuthTypeOK'
    <3>1. at[w] # "idle" /\ req[w] \in Requests /\ RequestTypes'
      BY <2>10, BusyRequest, MoveTyped DEF UnregisterLooks, Places, mayGoto
    <3> QED
      BY <2>10, <3>1, RequestFields DEF UnregisterLooks, AuthTypeOK, RequestTypes, authHistory
  <2>11. ASSUME NEW w \in Workers, UnregisterDeletes(w)
        PROVE  AuthTypeOK'
    <3>1. at[w] # "idle" /\ req[w] \in Requests /\ RequestTypes'
      BY <2>11, BusyRequest, MoveTyped DEF UnregisterDeletes, Places, mayGoto
    <3> QED
      BY <2>11, <3>1, RequestFields DEF UnregisterDeletes, AuthTypeOK, RequestTypes, authHistory
  <2>12. ASSUME NEW w \in Workers, DeleteUnsynced(w)
        PROVE  AuthTypeOK'
    <3>1. at[w] # "idle" /\ req[w] \in Requests /\ RequestTypes'
      BY <2>12, BusyRequest, MoveTyped DEF DeleteUnsynced
    <3> QED
      BY <2>12, <3>1, RequestFields DEF DeleteUnsynced, AuthTypeOK, RequestTypes, authHistory
  <2>13. ASSUME NEW w \in Workers, DeleteFails(w)
        PROVE  AuthTypeOK'
    <3>1. at[w] # "idle" /\ req[w] \in Requests /\ RequestTypes'
      BY <2>13, BusyRequest, MoveTyped DEF DeleteFails
    <3> QED
      BY <2>13, <3>1, RequestFields DEF DeleteFails, AuthTypeOK, RequestTypes, authHistory
  <2>14. ASSUME NEW w \in Workers, UnregisterInvalidates(w)
        PROVE  AuthTypeOK'
    <3>1. at[w] # "idle" /\ req[w] \in Requests /\ RequestTypes'
      BY <2>14, BusyRequest, MoveTyped DEF UnregisterInvalidates
    <3> QED
      BY <2>14, <3>1, RequestFields DEF UnregisterInvalidates, withoutToken, tokensOf, AuthTypeOK, RequestTypes, authHistory
  <2>15. ASSUME NEW w \in Workers, LoginCaches(w)
        PROVE  AuthTypeOK'
    <3>1. at[w] # "idle" /\ req[w] \in Requests /\ hash[w] \in Hashes
      BY <2>15, BusyRequest DEF LoginCaches, AuthTypeOK, Settled
    <3>2. PICK t \in Tokens \ issued, map \in withoutToken(req[w].id) :
            /\ sessionMap' = [map EXCEPT ![t] = Cached(req[w].id)]
            /\ issued' = issued \cup {t}
            /\ loginOf' = [loginOf EXCEPT ![t] = [client |-> req[w].id, hash |-> hash[w]]]
      BY <2>15, Zenon DEF LoginCaches
    <3>3. map \in [Tokens -> [client : Clients, expired : BOOLEAN] \cup {None}]
      BY <3>2 DEF withoutToken, tokensOf, AuthTypeOK
    <3>4. RequestTypes' /\ UNCHANGED <<db, lapsed>>
      BY <2>15, <3>1, MoveTyped DEF LoginCaches
    <3> QED
      BY <3>1, <3>2, <3>3, <3>4, RequestFields DEF Cached, AuthTypeOK, RequestTypes
  <2>16. ASSUME NEW t \in Tokens, Expire(t)
        PROVE  AuthTypeOK'
    BY <2>16, Zenon DEF Expire, AuthTypeOK, Settled, request, authHistory
  <2>17. CASE Restart
    BY <2>17 DEF Restart, AuthTypeOK, Settled, Places, authHistory
  <2> QED
    BY <1>2, <2>1, <2>2, <2>3, <2>4, <2>5, <2>6, <2>7, <2>8, <2>9, <2>10, <2>11, <2>12, <2>13, <2>14, <2>15, <2>16, <2>17, StepCases, Zenon
<1> QED
  BY <1>1, <1>2

\* Types of the accounts, tokens and requests (AuthTypeOK), whatever requests are
\* served and however they interleave.
THEOREM AuthTypeCorrect == AuthSpec => []AuthTypeOK
<1>1. AuthInit => AuthTypeOK
  BY DEF AuthInit, AuthTypeOK, Settled, Places
<1> QED
  BY <1>1, AuthTypeStep, PTL DEF AuthSpec

-----------------------------------------------------------------------------
(* Accounts and tokens. *)

\* The worker part of AccountInv.
Holds(w) ==
  /\ at[w] \in {"compare", "cache"} /\ req[w].op = "login" =>
       db[req[w].id] = hash[w] \/ req[w].id \in lapsed
  /\ at[w] = "purge" =>
       /\ req[w].auth.kind = "bearer"
       /\ req[w].auth.token \in issued
       /\ sessionMap[req[w].auth.token] = None \/ sessionMap[req[w].auth.token].expired

\* A step of worker w touches no other worker.
OnlyMoves(w) ==
  \A v \in Workers \ {w} : at'[v] = at[v] /\ req'[v] = req[v] /\ hash'[v] = hash[v]

LEMMA MovesAlone ==
  ASSUME AuthTypeOK, NEW w \in Workers,
         \/ Answer(w)
         \/ \E p \in Places : Goto(w, p)
         \/ \E r \in Requests : Serve(w, r)
         \/ Authenticate(w)
  PROVE  OnlyMoves(w)
BY DEF AuthTypeOK, OnlyMoves, Answer, Goto, Serve, Authenticate

\* A step that leaves the store, the cache and the histories alone keeps
\* AccountInv if its worker keeps its part and was not invalidating.
LEMMA QuietKeeps ==
  ASSUME AuthTypeOK, AccountInv, NEW w \in Workers, OnlyMoves(w),
         UNCHANGED <<db, sessionMap, authHistory>>, at[w] # "invalidate", Holds(w)'
  PROVE  AccountInv'
<1>1. \A v \in Workers : Holds(v)'
  BY DEF AccountInv, Holds, OnlyMoves, authHistory
<1>2. \A c \in Clients : invalidating(c) => invalidating(c)'
  BY DEF invalidating, OnlyMoves
<1>3. OneTokenPerClient' /\ TokenBacked'
  BY <1>2 DEF AccountInv, OneTokenPerClient, TokenBacked, authHistory, AuthTypeOK
<1> QED
  BY <1>1, <1>3 DEF AccountInv, Holds, authHistory

\* Steps of a worker that look and decide.
LEMMA LooksKeep ==
  ASSUME AuthTypeOK, AccountInv, NEW w \in Workers,
         \/ \E r \in Requests : Serve(w, r)
         \/ AdminAuth(w) \/ Authenticate(w) \/ CompareKey(w) \/ BearerAuth(w)
         \/ RegisterLooks(w) \/ RegisterFails(w) \/ UnregisterLooks(w) \/ DeleteFails(w)
  PROVE  AccountInv'
<1> DEFINE quiet == UNCHANGED <<db, sessionMap, authHistory>> /\ at[w] # "invalidate"
           moved == Answer(w) \/ \E p \in Places \ {"cache", "purge", "compare"} : Goto(w, p)
<1>1. ASSUME quiet, moved
      PROVE  AccountInv'
  <2>1. OnlyMoves(w)
    BY <1>1, MovesAlone
  <2>2. Holds(w)'
    BY <1>1 DEF Holds, Answer, Goto, AuthTypeOK
  <2> QED
    BY <1>1, <2>1, <2>2, QuietKeeps
<1>2. ASSUME NEW r \in Requests, Serve(w, r)
      PROVE  AccountInv'
  <2>1. quiet /\ OnlyMoves(w)
    BY <1>2, MovesAlone, Zenon DEF Serve, authHistory
  <2>2. at'[w] \in {"register", "login", "auth"}
    BY <1>2 DEF Serve, firstPlace, AuthTypeOK
  <2>3. Holds(w)'
    BY <2>2 DEF Holds
  <2> QED
    BY <2>1, <2>3, QuietKeeps
<1>3. CASE AdminAuth(w)
  <2>1. quiet /\ moved
    BY <1>3 DEF AdminAuth, byAdmin, byBasic, Authorised, AuthTypeOK, Settled, Places
  <2> QED
    BY <2>1, <1>1
<1>4. CASE Authenticate(w)
  <2>1. quiet /\ OnlyMoves(w)
    BY <1>4, MovesAlone DEF Authenticate, byBasic
  <2>2. Holds(w)'
    BY <1>4 DEF Authenticate, given, Answer, Holds, AuthTypeOK
  <2> QED
    BY <2>1, <2>2, QuietKeeps
<1>5. CASE CompareKey(w)
  <2>1. quiet
    BY <1>5 DEF CompareKey
  <2>2. CASE moved
    BY <1>1, <2>1, <2>2
  <2>3. CASE Goto(w, "cache")
    <3>1. OnlyMoves(w)
      BY <2>3, MovesAlone DEF Places
    <3>2. Holds(w)'
      BY <1>5, <2>1, <2>3 DEF CompareKey, Goto, Holds, AccountInv, AuthTypeOK, authHistory
    <3> QED
      BY <2>1, <3>1, <3>2, QuietKeeps
  <2> QED
    BY <1>5, <2>2, <2>3 DEF CompareKey, Authorised, Places
<1>6. CASE BearerAuth(w)
  <2>1. quiet
    BY <1>6 DEF BearerAuth
  <2>2. CASE moved
    BY <1>1, <2>1, <2>2
  <2>3. CASE /\ sessionMap[req[w].auth.token] # None
             /\ sessionMap[req[w].auth.token].expired
             /\ Goto(w, "purge")
    <3>1. OnlyMoves(w)
      BY <2>3, MovesAlone DEF Places
    <3>2. req[w].auth.kind = "bearer" /\ req[w].auth.token \in Tokens
      BY <1>6, BusyRequest, RequestFields DEF BearerAuth
    <3>3. Holds(w)'
      BY <2>1, <2>3, <3>2 DEF Goto, Holds, AccountInv, AuthTypeOK, authHistory
    <3> QED
      BY <2>1, <3>1, <3>3, QuietKeeps
  <2>4. at[w] = "auth" /\ req[w].op # "login"
    BY <1>6 DEF BearerAuth, AuthTypeOK, Settled
  <2> QED
    BY <1>6, <2>2, <2>3, <2>4 DEF BearerAuth, Authorised, Places
<1>7. CASE RegisterLooks(w) \/ RegisterFails(w) \/ UnregisterLooks(w) \/ DeleteFails(w)
  <2>1. quiet /\ moved
    BY <1>7 DEF RegisterLooks, RegisterFails, UnregisterLooks, DeleteFails, Places
  <2> QED
    BY <2>1, <1>1
<1> QED
  BY <1>2, <1>3, <1>4, <1>5, <1>6, <1>7

\* A registration finds its client missing, so no login of it holds a hash
\* that is still stored.
LEMMA RegisterKeeps ==
  ASSUME AuthTypeOK, AccountInv, NEW w \in Workers, RegisterPuts(w)
  PROVE  AccountInv'
<1>1. /\ OnlyMoves(w) /\ at[w] = "put" /\ at'[w] = "idle"
      /\ UNCHANGED <<sessionMap, authHistory>>
      /\ db' = put(req[w].id, hashKey(req[w].key))
  BY MovesAlone, Zenon DEF RegisterPuts, Answer, AuthTypeOK
<1>2. \A c \in Clients : db[c] # None => db'[c] = db[c]
  BY <1>1 DEF put, AuthTypeOK
<1>3. \A v \in Workers : Holds(v)'
  <2> SUFFICES ASSUME NEW v \in Workers
               PROVE  Holds(v)'
    OBVIOUS
  <2>1. CASE v = w
    BY <1>1, <2>1 DEF Holds
  <2>2. CASE v # w
    <3>1. at'[v] = at[v] /\ req'[v] = req[v] /\ hash'[v] = hash[v]
      BY <1>1, <2>2 DEF OnlyMoves
    <3>2. Holds(v)
      BY DEF AccountInv, Holds
    <3>3. at[v] \in {"compare", "cache"} => req[v].id \in Clients /\ hash[v] # None
      BY BusyRequest, RequestFields DEF AuthTypeOK, Settled
    <3> QED
      BY <1>1, <1>2, <3>1, <3>2, <3>3 DEF Holds, authHistory
  <2> QED
    BY <2>1, <2>2
<1>4. \A c \in Clients : invalidating(c) => invalidating(c)'
  BY <1>1 DEF invalidating, OnlyMoves
<1>5. \A t \in Tokens : sessionMap[t] # None => sessionMap[t].client \in Clients /\ loginOf[t].hash # None
  <2> TAKE t \in Tokens
  <2> HAVE sessionMap[t] # None
  <2>1. loginOf[t] \in [client : Clients, hash : Hashes] /\ None \notin Hashes
    BY AuthAssumption DEF AccountInv, AuthTypeOK, Hashes, hashKey
  <2> QED
    BY <2>1 DEF AuthTypeOK
<1>6. OneTokenPerClient' /\ TokenBacked'
  BY <1>1, <1>2, <1>4, <1>5 DEF AccountInv, OneTokenPerClient, TokenBacked, authHistory
<1> QED
  BY <1>1, <1>3, <1>6 DEF AccountInv, Holds, authHistory

\* The key of a client is deleted: logins that hold its hash put it in
\* lapsed, and its token is the next thing to go.
LEMMA DeleteKeeps ==
  ASSUME AuthTypeOK, AccountInv, NEW w \in Workers, UnregisterDeletes(w) \/ DeleteUnsynced(w)
  PROVE  AccountInv'
<1> DEFINE c == req[w].id
<1>1. /\ OnlyMoves(w) /\ at[w] = "delete" /\ at'[w] \in {"idle", "invalidate"}
      /\ at'[w] = "invalidate" => req'[w] = req[w]
      /\ UNCHANGED <<sessionMap, issued, loginOf>>
      /\ db' = [db EXCEPT ![c] = None]
      /\ lapsed \subseteq lapsed' /\ lapsed' \subseteq lapsed \cup {c}
      /\ holding(c) # {} => c \in lapsed'
      /\ at'[w] = "invalidate" \/ c \in lapsed'
  BY MovesAlone DEF UnregisterDeletes, DeleteUnsynced, Goto, Answer, AuthTypeOK, Places
<1>2. c \in Clients
  BY <1>1, BusyRequest, RequestFields
<1>3. \A d \in Clients \ {c} : db'[d] = db[d]
  BY <1>1, <1>2 DEF AuthTypeOK
<1>4. \A v \in Workers : Holds(v)'
  <2> SUFFICES ASSUME NEW v \in Workers
               PROVE  Holds(v)'
    OBVIOUS
  <2>1. CASE v = w
    BY <1>1, <2>1 DEF Holds
  <2>2. CASE v # w
    <3>1. at'[v] = at[v] /\ req'[v] = req[v] /\ hash'[v] = hash[v]
      BY <1>1, <2>2 DEF OnlyMoves
    <3>2. Holds(v)
      BY DEF AccountInv, Holds
    <3>3. at[v] \in {"compare", "cache"} => req[v].id \in Clients
      BY BusyRequest, RequestFields
    <3>4. at[v] \in {"compare", "cache"} /\ req[v].op = "login" /\ req[v].id = c => c \in lapsed'
      BY <1>1 DEF holding
    <3> QED
      BY <1>1, <1>3, <3>1, <3>2, <3>3, <3>4 DEF Holds
  <2> QED
    BY <2>1, <2>2
<1>5. \A d \in Clients : invalidating(d) => invalidating(d)'
  BY <1>1 DEF invalidating, OnlyMoves
<1>6. invalidating(c)' \/ c \in lapsed'
  BY <1>1 DEF invalidating
<1>7. OneTokenPerClient'
  BY <1>1 DEF AccountInv, OneTokenPerClient
<1>8. TokenBacked'
  BY <1>1, <1>3, <1>5, <1>6 DEF AccountInv, TokenBacked, AuthTypeOK
<1> QED
  BY <1>1, <1>4, <1>7, <1>8 DEF AccountInv, Holds

\* Whatever removes tokens from the cache or lets them expire keeps
\* AccountInv, if it removes the tokens of a client it no longer invalidates.
LEMMA ShrinkKeeps ==
  ASSUME AuthTypeOK, AccountInv,
         UNCHANGED <<db, authHistory>>,
         \A t \in Tokens : sessionMap'[t] # None =>
           /\ sessionMap[t] # None
           /\ sessionMap'[t].client = sessionMap[t].client
           /\ sessionMap[t].expired => sessionMap'[t].expired,
         \A v \in Workers :
           \/ at'[v] = "idle"
           \/ at'[v] = at[v] /\ req'[v] = req[v] /\ hash'[v] = hash[v],
         \A t \in Tokens : sessionMap'[t] # None =>
           (invalidating(sessionMap[t].client) => invalidating(sessionMap[t].client)')
  PROVE  AccountInv'
<1>1. \A v \in Workers : Holds(v)'
  <2> SUFFICES ASSUME NEW v \in Workers
               PROVE  Holds(v)'
    OBVIOUS
  <2>1. CASE at'[v] = "idle"
    BY <2>1 DEF Holds
  <2>2. CASE at'[v] = at[v] /\ req'[v] = req[v] /\ hash'[v] = hash[v]
    <3>1. Holds(v)
      BY DEF AccountInv, Holds
    <3>2. at[v] = "purge" => req[v].auth.token \in Tokens
      BY <3>1, BusyRequest, RequestFields DEF Holds
    <3> QED
      BY <2>2, <3>1, <3>2 DEF Holds, authHistory
  <2> QED
    BY <2>1, <2>2, ZenonT(20)
<1>2. OneTokenPerClient'
  BY DEF AccountInv, OneTokenPerClient
<1>3. TokenBacked'
  BY DEF AccountInv, TokenBacked, authHistory
<1> QED
  BY <1>1, <1>2, <1>3, ZenonT(20) DEF AccountInv, Holds, authHistory

\* The cache's Get drops a token, time passes, the process restarts.
LEMMA LapseKeeps ==
  ASSUME AuthTypeOK, AccountInv,
         (\E w \in Workers : PurgeExpired(w)) \/ (\E t \in Tokens : Expire(t)) \/ Restart
  PROVE  AccountInv'
<1>1. ASSUME NEW w \in Workers, PurgeExpired(w)
      PROVE  AccountInv'
  <2>1. /\ OnlyMoves(w) /\ at[w] = "purge" /\ at'[w] = "idle"
        /\ UNCHANGED <<db, authHistory>>
        /\ sessionMap' = purged(req[w].auth.token)
    BY <1>1, MovesAlone, Zenon DEF PurgeExpired, Answer, AuthTypeOK
  <2>2. \A t \in Tokens : sessionMap'[t] # None => sessionMap'[t] = sessionMap[t]
    BY <2>1 DEF purged, AuthTypeOK
  <2>3. \A c : invalidating(c) => invalidating(c)'
    BY <2>1 DEF invalidating, OnlyMoves
  <2> QED
    BY <2>1, <2>2, <2>3, ShrinkKeeps DEF OnlyMoves
<1>2. ASSUME NEW t \in Tokens, Expire(t)
      PROVE  AccountInv'
  <2>1. /\ UNCHANGED <<db, at, req, hash, authHistory>>
        /\ sessionMap[t] # None
        /\ sessionMap' = [sessionMap EXCEPT ![t].expired = TRUE]
    BY <1>2 DEF Expire, request
  <2>2. \A u \in Tokens : sessionMap'[u] # None =>
          /\ sessionMap[u] # None
          /\ sessionMap'[u].client = sessionMap[u].client
          /\ sessionMap[u].expired => sessionMap'[u].expired
    BY <2>1 DEF AuthTypeOK
  <2>3. \A c : invalidating(c) => invalidating(c)'
    BY <2>1 DEF invalidating
  <2> QED
    BY <2>1, <2>2, <2>3, ShrinkKeeps
<1>3. CASE Restart
  <2>1. /\ UNCHANGED <<db, authHistory>>
        /\ \A t \in Tokens : sessionMap'[t] = None
        /\ \A v \in Workers : at'[v] = "idle"
    BY <1>3 DEF Restart
  <2> QED
    BY <2>1, ShrinkKeeps
<1> QED
  BY <1>1, <1>2, <1>3

\* A client has one token at most, so removing one of its tokens removes it.
LEMMA NoTokenLeft ==
  ASSUME AuthTypeOK, AccountInv, NEW c \in Clients, NEW map \in withoutToken(c)
  PROVE  \A t \in Tokens : map[t] # None => map[t] = sessionMap[t] /\ map[t].client # c
<1>1. CASE tokensOf(c) = {}
  BY <1>1 DEF withoutToken, tokensOf
<1>2. CASE tokensOf(c) # {}
  <2>1. PICK u \in tokensOf(c) : map = [sessionMap EXCEPT ![u] = None]
    BY <1>2 DEF withoutToken
  <2> QED
    BY <2>1 DEF tokensOf, AccountInv, OneTokenPerClient, AuthTypeOK
<1> QED
  BY <1>1, <1>2

\* The second step of Unregister.
LEMMA InvalidateKeeps ==
  ASSUME AuthTypeOK, AccountInv, NEW w \in Workers, UnregisterInvalidates(w)
  PROVE  AccountInv'
<1> DEFINE c == req[w].id
<1>1. /\ OnlyMoves(w) /\ at[w] = "invalidate" /\ at'[w] = "idle"
      /\ UNCHANGED <<db, authHistory>>
      /\ sessionMap' \in withoutToken(c)
  BY MovesAlone, Zenon DEF UnregisterInvalidates, Answer, AuthTypeOK
<1>2. c \in Clients
  BY <1>1, BusyRequest, RequestFields
<1>3. \A t \in Tokens : sessionMap'[t] # None => sessionMap'[t] = sessionMap[t] /\ sessionMap'[t].client # c
  BY <1>1, <1>2, NoTokenLeft
<1>4. \A d : d # c /\ invalidating(d) => invalidating(d)'
  BY <1>1 DEF invalidating, OnlyMoves
<1> QED
  BY <1>1, <1>3, <1>4, ShrinkKeeps DEF OnlyMoves

\* A login hands out a token, in place of the one its client had.
LEMMA CacheKeeps ==
  ASSUME AuthTypeOK, AccountInv, NEW w \in Workers, LoginCaches(w)
  PROVE  AccountInv'
<1> DEFINE c == req[w].id
<1>1. OnlyMoves(w) /\ at[w] = "cache" /\ at'[w] = "idle" /\ UNCHANGED <<db, lapsed>>
  BY MovesAlone, Zenon DEF LoginCaches, Answer, AuthTypeOK
<1>2. c \in Clients /\ req[w].op = "login" /\ hash[w] \in Hashes
  BY <1>1, BusyRequest, RequestFields DEF AuthTypeOK, Settled
<1>3. PICK t \in Tokens \ issued, map \in withoutToken(c) :
        /\ sessionMap' = [map EXCEPT ![t] = Cached(c)]
        /\ issued' = issued \cup {t}
        /\ loginOf' = [loginOf EXCEPT ![t] = [client |-> c, hash |-> hash[w]]]
  BY Zenon DEF LoginCaches
<1>4. map \in [Tokens -> [client : Clients, expired : BOOLEAN] \cup {None}]
  BY <1>3 DEF withoutToken, tokensOf, AuthTypeOK
<1>5. /\ sessionMap'[t] = Cached(c) /\ loginOf'[t] = [client |-> c, hash |-> hash[w]]
      /\ \A u \in Tokens \ {t} : sessionMap'[u] = map[u] /\ loginOf'[u] = loginOf[u]
  BY <1>3, <1>4 DEF AuthTypeOK
<1>6. \A u \in Tokens \ {t} : sessionMap'[u] # None =>
        sessionMap'[u] = sessionMap[u] /\ sessionMap'[u].client # c
  BY <1>2, <1>3, <1>5, NoTokenLeft
<1>7. \A d : invalidating(d) => invalidating(d)'
  BY <1>1 DEF invalidating, OnlyMoves
<1>8. db[c] = hash[w] \/ c \in lapsed
  BY <1>1, <1>2 DEF AccountInv
<1>9. OneTokenPerClient'
  <2>1. OneTokenPerClient
    BY DEF AccountInv
  <2>2. sessionMap'[t].client = c
    BY <1>5 DEF Cached
  <2>3. SUFFICES ASSUME NEW u \in Tokens, NEW v \in Tokens,
                        sessionMap'[u] # None, sessionMap'[v] # None,
                        sessionMap'[u].client = sessionMap'[v].client
                 PROVE  u = v
    BY DEF OneTokenPerClient
  <2>4. CASE u # t /\ v # t
    BY <1>6, <2>1, <2>3, <2>4 DEF OneTokenPerClient
  <2>5. CASE u = t \/ v = t
    BY <1>6, <2>2, <2>3, <2>5
  <2> QED
    BY <2>4, <2>5
<1>10. TokenBacked'
  <2> SUFFICES ASSUME NEW u \in Tokens, sessionMap'[u] # None
               PROVE  (LET d == sessionMap[u].client IN
                        \/ db[d] = loginOf[u].hash
                        \/ d \in lapsed
                        \/ invalidating(d))'
    BY DEF TokenBacked
  <2>1. CASE u = t
    BY <1>1, <1>5, <1>8, <2>1 DEF Cached
  <2>2. CASE u # t
    <3>1. sessionMap[u] # None /\ sessionMap'[u] = sessionMap[u] /\ loginOf'[u] = loginOf[u]
      BY <1>5, <1>6, <2>2
    <3>2. LET d == sessionMap[u].client IN
            db[d] = loginOf[u].hash \/ d \in lapsed \/ invalidating(d)
      BY <3>1 DEF AccountInv, TokenBacked
    <3> QED
      BY <1>1, <1>7, <3>1, <3>2
  <2> QED
    BY <2>1, <2>2
<1>11. \A u \in Tokens : sessionMap'[u] # None => u \in issued' /\ loginOf'[u] \in [client : Clients, hash : Hashes]
  BY <1>2, <1>3, <1>5, <1>6 DEF AccountInv
<1>12. \A v \in Workers : Holds(v)'
  <2> SUFFICES ASSUME NEW v \in Workers
               PROVE  Holds(v)'
    OBVIOUS
  <2>1. CASE v = w
    BY <1>1, <2>1 DEF Holds
  <2>2. CASE v # w
    <3>1. at'[v] = at[v] /\ req'[v] = req[v] /\ hash'[v] = hash[v]
      BY <1>1, <2>2 DEF OnlyMoves
    <3>2. Holds(v)
      BY DEF AccountInv, Holds
    <3>3. at[v] = "purge" => req[v].auth.token \in Tokens \ {t}
      BY <1>3, <3>2, BusyRequest, RequestFields DEF Holds
    <3> QED
      BY <1>1, <1>3, <1>6, <3>1, <3>2, <3>3, ZenonT(20) DEF Holds
  <2> QED
    BY <2>1, <2>2
<1> QED
  BY <1>9, <1>10, <1>11, <1>12 DEF AccountInv, Holds

\* Every step keeps AccountInv.
LEMMA AccountStep ==
  ASSUME AuthTypeOK, AccountInv, [AuthNext]_authVars
  PROVE  AccountInv'
<1>1. CASE UNCHANGED authVars
  BY <1>1 DEF AccountInv, OneTokenPerClient, TokenBacked, invalidating, authVars, authHistory
<1>2. CASE AuthNext
  BY <1>2, LooksKeep, RegisterKeeps, DeleteKeeps, LapseKeeps, InvalidateKeeps, CacheKeeps DEF AuthNext, Step
<1> QED
  BY <1>1, <1>2

\* AccountInv holds of every number of workers, clients, keys and tokens: the
\* strengthening that makes the token properties inductive.
THEOREM AccountInvariant == AuthSpec => [](AuthTypeOK /\ AccountInv)
<1>1. AuthInit => AuthTypeOK /\ AccountInv
  <2>1. AuthInit => AuthTypeOK
    BY DEF AuthInit, AuthTypeOK, Settled, Places
  <2>2. AuthInit => AccountInv
    BY DEF AuthInit, AccountInv, OneTokenPerClient, TokenBacked
  <2> QED
    BY <2>1, <2>2
<1>2. AuthTypeOK /\ AccountInv /\ [AuthNext]_authVars => (AuthTypeOK /\ AccountInv)'
  BY AuthTypeStep, AccountStep
<1> QED
  BY <1>1, <1>2, PTL DEF AuthSpec

\* No client ever has two bearer tokens in the cache (SessionCache.Put).
THEOREM TokensAreUnique == AuthSpec => []OneTokenPerClient
<1>1. AccountInv => OneTokenPerClient
  BY DEF AccountInv
<1> QED
  BY <1>1, AccountInvariant, PTL

\* A cached token is backed by the key it was given for, but for the two
\* ways in which Login and Unregister may cross (TokenBacked).
THEOREM TokensAreBacked == AuthSpec => []TokenBacked
<1>1. AccountInv => TokenBacked
  BY DEF AccountInv
<1> QED
  BY <1>1, AccountInvariant, PTL

\* A registered key is never replaced by a racing registration
\* (bitcaskStore.Put, ErrConflict).
THEOREM KeysAreKept == AuthSpec => KeyNotReplaced
<1> DEFINE kept == \A c \in Clients : db[c] # None /\ db'[c] # None => db'[c] = db[c]
<1>1. ASSUME AuthTypeOK, [AuthNext]_authVars
      PROVE  [kept]_authVars
  <2>1. CASE UNCHANGED authVars
    BY <2>1
  <2>2. CASE AuthNext
    <3>1. ASSUME NEW w \in Workers, RegisterPuts(w)
          PROVE  kept
      BY <3>1 DEF RegisterPuts, put, AuthTypeOK
    <3>2. ASSUME NEW w \in Workers, UnregisterDeletes(w) \/ DeleteUnsynced(w)
          PROVE  kept
      <4>1. db' = [db EXCEPT ![req[w].id] = None] /\ db \in [Clients -> Hashes \cup {None}]
        BY <1>1, <3>2 DEF UnregisterDeletes, DeleteUnsynced, AuthTypeOK
      <4> QED
        BY <4>1
    <3>3. CASE UNCHANGED db
      BY <3>3
    <3>4. AuthNext => \/ UNCHANGED db
                  \/ \E w \in Workers : RegisterPuts(w) \/ UnregisterDeletes(w) \/ DeleteUnsynced(w)
      BY ZenonT(20) DEF AuthNext, Step, Serve, AdminAuth, Authenticate, CompareKey, BearerAuth, PurgeExpired,
             RegisterLooks, RegisterFails, UnregisterLooks, DeleteFails, UnregisterInvalidates,
             LoginCaches, Expire, Restart
    <3> QED
      BY <2>2, <3>1, <3>2, <3>3, <3>4
  <2> QED
    BY <1>1, <2>1, <2>2
<1> QED
  BY <1>1, AuthTypeCorrect, PTL DEF AuthSpec, KeyNotReplaced

\* The delayed removal in SessionCache.Get hits no live session.
THEOREM PurgeIsSafe == AuthSpec => PurgesOnlyExpired
<1> DEFINE safe == \A w \in Workers, t \in Tokens :
             PurgeExpired(w) /\ sessionMap[t] # None /\ sessionMap'[t] = None => sessionMap[t].expired
<1>1. ASSUME AuthTypeOK, AccountInv
      PROVE  safe
  <2> SUFFICES ASSUME NEW w \in Workers, NEW t \in Tokens,
                      PurgeExpired(w), sessionMap[t] # None, sessionMap'[t] = None
               PROVE  sessionMap[t].expired
    OBVIOUS
  <2>1. at[w] = "purge" /\ sessionMap' = purged(req[w].auth.token)
    BY DEF PurgeExpired
  <2>2. t = req[w].auth.token
    BY <2>1 DEF purged, AuthTypeOK
  <2> QED
    BY <1>1, <2>1, <2>2 DEF AccountInv
<1> QED
  BY <1>1, AccountInvariant, PTL DEF AuthSpec, PurgesOnlyExpired

-----------------------------------------------------------------------------
(* ServiceRouting *)

\* The loop is in the middle of one thing at a time.
LEMMA HandlingDistinct ==
  ASSUME NEW i, NEW j
  PROVE  /\ Routing(i) # Free /\ Leaving(i) # Free
         /\ Routing(i) # Leaving(j)
         /\ Routing(i) = Routing(j) => i = j
BY DEF Routing, Leaving, Free

\* Session IDs and connections of the joins.
LEMMA ConfigTypes ==
  ASSUME NEW j \in Joins
  PROVE  sid(j) \in SessionIDs /\ home[j] \in Conns /\ home[j] # Nil
BY RoutingAssumption DEF sid

\* What the steps of the session do to life.
LEMMA LifeMoves ==
  ASSUME life \in [Joins -> rtcServer!Stages], disturbed \in BOOLEAN, NEW j \in Joins
  PROVE  /\ rtcServer!Reject(j) =>
              life[j] = "new" /\ life' = [life EXCEPT ![j] = "rejected"] /\ disturbed' = disturbed
         /\ rtcServer!Add(j) =>
              life[j] = "new" /\ life' = [life EXCEPT ![j] = "member"] /\ disturbed' \in BOOLEAN
         /\ rtcServer!Close(j) =>
              life[j] = "member" /\ life' = [life EXCEPT ![j] = "closing"] /\ disturbed' = disturbed
         /\ rtcServer!Finish(j) =>
              life[j] = "closing" /\ life' = [life EXCEPT ![j] = "closed"] /\ disturbed' = disturbed
BY Zenon DEF rtcServer!Reject, rtcServer!Add, rtcServer!Close, rtcServer!Finish

\* Every step keeps the types.
LEMMA TypeStep ==
  ASSUME TypeOK, [Next]_vars
  PROVE  TypeOK'
<1> USE DEF server, history
<1>1. CASE UNCHANGED vars
  BY <1>1 DEF TypeOK, vars
<1>2. ASSUME NEW j \in Joins, JoinRefused(j) \/ SessionFails(j)
      PROVE  TypeOK'
  BY <1>2, LifeMoves DEF JoinRefused, SessionFails, TypeOK, rtcServer!Stages
<1>3. ASSUME NEW j \in Joins, JoinInit(j)
      PROVE  TypeOK'
  BY <1>3, LifeMoves, ConfigTypes DEF JoinInit, TypeOK, rtcServer!Stages
<1>4. ASSUME NEW j \in Joins, JoinRoute(j)
      PROVE  TypeOK'
  BY <1>4, ConfigTypes DEF JoinRoute, withEntry, Entered, TypeOK
<1>5. ASSUME NEW j \in Joins, Leave(j)
      PROVE  TypeOK'
  BY <1>5, LifeMoves DEF Leave, TypeOK, rtcServer!Stages
<1>6. ASSUME NEW j \in Joins, LeaveReturns(j) \/ ClientRTC(j)
      PROVE  TypeOK'
  BY <1>6 DEF LeaveReturns, ClientRTC, TypeOK
<1>7. ASSUME NEW j \in Joins, CloseCb(j)
      PROVE  TypeOK'
  BY <1>7, LifeMoves, ConfigTypes DEF CloseCb, withoutEntry, Sent, TypeOK, rtcServer!Stages
<1>8. ASSUME NEW j \in Joins, SessionSpeaks(j)
      PROVE  TypeOK'
  BY <1>8, RoutingAssumption DEF SessionSpeaks, TypeOK
<1>9. ASSUME NEW s \in SessionIDs, NEW c \in Conns, Reconnect(s, c)
      PROVE  TypeOK'
  <2>1. speaking' = speaking \/ (speaking # Nil /\ speaking' = [speaking EXCEPT !.moved = TRUE])
    BY <1>9 DEF Reconnect, inHand
  <2>2. speaking' \in {Nil} \cup [join : Joins, on : Conns, moved : BOOLEAN]
    BY <2>1 DEF TypeOK
  <2> QED
    BY <1>9, <2>2 DEF Reconnect, withEntry, Entered, TypeOK
<1>10. CASE HandleRTCMsg
  <2>1. Head(receiveCh) \in Joins /\ Tail(receiveCh) \in Seq(Joins) /\ Len(Tail(receiveCh)) <= MaxOut
    BY <1>10, RoutingAssumption, HeadTailProperties DEF HandleRTCMsg, TypeOK
  <2>2. speaking' \in {Nil} \cup [join : Joins, on : Conns, moved : BOOLEAN]
    BY <1>10, <2>1, ConfigTypes DEF HandleRTCMsg, TypeOK
  <2> QED
    BY <1>10, <2>1, <2>2 DEF HandleRTCMsg, TypeOK
<1>11. CASE SendRTCMsg
  <2>1. speaking.join \in Joins /\ speaking.on \in Conns
    BY <1>11 DEF SendRTCMsg, TypeOK
  <2>2. sent' \in {Nil} \cup [join : Joins, kind : {"rtc", "close"}, on : Conns]
    BY <1>11, <2>1 DEF SendRTCMsg, Sent
  <2> QED
    BY <1>11, <2>2 DEF SendRTCMsg, TypeOK
<1> QED
  BY <1>1, <1>2, <1>3, <1>4, <1>5, <1>6, <1>7, <1>8, <1>9, <1>10, <1>11 DEF Next

\* Types of the state of the routing (TypeOK), for every number of sessions,
\* nodes and queued messages.
THEOREM TypeCorrect == Spec => []TypeOK
<1>1. Init => TypeOK
  <2>1. <<>> \in Seq(Joins) /\ Len(<<>>) <= MaxOut
    BY RoutingAssumption
  <2> QED
    BY <2>1, Zenon DEF Init, TypeOK, rtcServer!Init, rtcServer!Stages
<1> QED
  BY <1>1, TypeStep, PTL DEF Spec

-----------------------------------------------------------------------------
(* Where the messages of a session go. *)

\* The conjuncts of RoutingInv one by one.
Apart == \A i, j \in Joins : i # j /\ sid(i) = sid(j) /\ isOpen(i) /\ isOpen(j) => sid(i) \in overlapped
JoinKnown == \A j \in Joins : handling = Routing(j) => clientAt[sid(j)] = home[j] /\ j \notin offered
Begun == \A j \in Joins : /\ j \in offered \/ handling = Routing(j) => life[j] # "new"
                          /\ isOpen(j) => clientAt[sid(j)] # Nil

InHandKnown ==
  speaking # Nil =>
    LET j == speaking.join IN
      /\ j \in offered
      /\ ~speaking.moved /\ life[j] = "member" /\ sid(j) \notin overlapped
           => speaking.on = clientAt[sid(j)]

LEMMA RoutingParts ==
  RoutingInv <=> LiveRouted /\ Apart /\ JoinKnown /\ Begun /\ receiveCh \in Seq(offered) /\ InHandKnown
BY DEF RoutingInv, Apart, JoinKnown, Begun, InHandKnown

\* What handleRTCMsg has in hand is a session's.
LEMMA InHand ==
  ASSUME TypeOK, speaking # Nil
  PROVE  speaking.join \in Joins /\ sid(speaking.join) \in SessionIDs /\ speaking.moved \in BOOLEAN
BY ConfigTypes DEF TypeOK

\* A session that moves on without entering a call, while the rest of the
\* routing stays, keeps RoutingInv.
LEMMA LeavingKeeps ==
  ASSUME TypeOK, RoutingInv, NEW j \in Joins,
         \/ life' = [life EXCEPT ![j] = "rejected"] /\ life[j] = "new"
         \/ life' = [life EXCEPT ![j] = "closing"] /\ life[j] = "member",
         UNCHANGED <<connMap, offered, receiveCh, speaking, clientAt, overlapped>>,
         handling' = handling \/ (handling = Free /\ handling' = Leaving(j))
  PROVE  RoutingInv'
<1>1. \A i \in Joins : /\ life'[i] = "member" => life[i] = "member"
                       /\ isOpen(i)' => isOpen(i)
                       /\ life[i] # "new" => life'[i] # "new"
  BY DEF TypeOK, isOpen
<1>2. \A i \in Joins : handling' = Routing(i) => handling = Routing(i)
  BY HandlingDistinct
<1>3. \A i \in Joins : handling = Routing(i) => handling' = Routing(i)
  BY HandlingDistinct
<1>4. LiveRouted'
  BY <1>1, <1>3 DEF RoutingInv, LiveRouted, sid
<1>5. Apart'
  BY <1>1 DEF RoutingInv, Apart, sid
<1>6. JoinKnown' /\ Begun'
  BY <1>1, <1>2 DEF RoutingInv, JoinKnown, Begun, sid
<1>7. InHandKnown'
  BY <1>1, InHand DEF RoutingInv, InHandKnown, sid
<1> QED
  BY <1>4, <1>5, <1>6, <1>7 DEF RoutingInv, Apart, JoinKnown, Begun, InHandKnown

\* A session enters its call.
LEMMA EnteringKeeps ==
  ASSUME TypeOK, RoutingInv, NEW j \in Joins, JoinInit(j)
  PROVE  RoutingInv'
<1>1. /\ handling = Free /\ handling' = Routing(j)
      /\ life[j] = "new" /\ life' = [life EXCEPT ![j] = "member"]
      /\ clientAt' = [clientAt EXCEPT ![sid(j)] = home[j]]
      /\ overlapped' = IF open(sid(j)) = {} THEN overlapped ELSE overlapped \cup {sid(j)}
      /\ UNCHANGED <<connMap, offered, receiveCh, speaking>>
  BY LifeMoves DEF JoinInit, TypeOK
<1>2. sid(j) \in SessionIDs
  BY ConfigTypes
<1>3. \A i \in Joins \ {j} : life'[i] = life[i] /\ (isOpen(i)' <=> isOpen(i))
  BY <1>1 DEF TypeOK, isOpen
<1>4. \A i \in Joins \ {j} : sid(i) = sid(j) /\ isOpen(i) => sid(i) \in overlapped'
  BY <1>1 DEF open
<1>5. Apart'
  BY <1>1, <1>3, <1>4 DEF RoutingInv, Apart, sid
<1>6. LiveRouted'
  <2> SUFFICES ASSUME NEW i \in Joins, life'[i] = "member", handling' # Routing(i), sid(i) \notin overlapped'
               PROVE  connMap'[sid(i)] = clientAt'[sid(i)]
    BY DEF LiveRouted, sid
  <2>1. i # j /\ life[i] = "member" /\ isOpen(i)
    BY <1>1, <1>3 DEF isOpen
  <2>2. sid(i) # sid(j)
    BY <1>4, <2>1
  <2>3. handling # Routing(i) /\ sid(i) \notin overlapped
    BY <1>1, HandlingDistinct
  <2> QED
    BY <1>1, <2>1, <2>2, <2>3 DEF RoutingInv, LiveRouted, TypeOK
<1>7. JoinKnown' /\ Begun'
  BY <1>1, <1>2, <1>3, HandlingDistinct, ConfigTypes DEF RoutingInv, JoinKnown, Begun, TypeOK, sid
<1>8. InHandKnown'
  <2> SUFFICES ASSUME speaking # Nil, ~speaking.moved, NEW i, i = speaking.join,
                      life'[i] = "member", sid(i) \notin overlapped'
               PROVE  speaking.on = clientAt'[sid(i)]
    BY <1>1 DEF RoutingInv, InHandKnown, sid
  <2>1. i \in Joins /\ i # j
    <3>1. i \in Joins
      BY InHand
    <3>2. i \in offered
      BY DEF RoutingInv
    <3> QED
      BY <1>1, <3>1, <3>2 DEF RoutingInv
  <2>2. life[i] = "member" /\ isOpen(i)
    BY <1>1, <1>3, <2>1 DEF isOpen
  <2>3. sid(i) # sid(j) /\ sid(i) \notin overlapped
    BY <1>1, <1>4, <2>1, <2>2
  <2> QED
    BY <1>1, <2>2, <2>3 DEF RoutingInv, TypeOK
<1> QED
  BY <1>1, <1>5, <1>6, <1>7, <1>8 DEF RoutingInv, Apart, JoinKnown, Begun, InHandKnown

\* The entry of a session is made: by its join, or by a reconnect.
LEMMA EntryKeeps ==
  ASSUME TypeOK, RoutingInv,
         \/ \E j \in Joins : JoinRoute(j)
         \/ \E s \in SessionIDs, c \in Conns : Reconnect(s, c)
  PROVE  RoutingInv'
<1>1. PICK s \in SessionIDs, c \in Conns :
        /\ connMap' = [connMap EXCEPT ![s] = c]
        /\ clientAt' = [clientAt EXCEPT ![s] = c]
        /\ handling' = Free
        /\ \/ handling = Free
              /\ speaking' = IF inHand(s) THEN [speaking EXCEPT !.moved = TRUE] ELSE speaking
           \/ /\ \E j \in Joins : handling = Routing(j) /\ sid(j) = s
              /\ clientAt' = clientAt /\ speaking' = speaking
        /\ UNCHANGED <<life, offered, receiveCh, overlapped>>
  <2>1. ASSUME NEW j \in Joins, JoinRoute(j)
        PROVE  /\ connMap' = [connMap EXCEPT ![sid(j)] = home[j]]
               /\ clientAt' = [clientAt EXCEPT ![sid(j)] = home[j]]
               /\ handling' = Free /\ handling = Routing(j)
               /\ UNCHANGED <<life, offered, receiveCh, clientAt, speaking, overlapped>>
    BY <2>1, ConfigTypes DEF JoinRoute, withEntry, RoutingInv, TypeOK, server
  <2>2. ASSUME NEW s \in SessionIDs, NEW c \in Conns, Reconnect(s, c)
        PROVE  /\ connMap' = [connMap EXCEPT ![s] = c]
               /\ clientAt' = [clientAt EXCEPT ![s] = c]
               /\ handling' = Free /\ handling = Free
               /\ speaking' = IF inHand(s) THEN [speaking EXCEPT !.moved = TRUE] ELSE speaking
               /\ UNCHANGED <<life, offered, receiveCh, overlapped>>
    BY <2>2 DEF Reconnect, withEntry, server
  <2> QED
    BY <2>1, <2>2, ConfigTypes
<1>2. LiveRouted'
  <2> SUFFICES ASSUME NEW i \in Joins, life[i] = "member", sid(i) \notin overlapped
               PROVE  connMap'[sid(i)] = clientAt'[sid(i)]
    BY <1>1 DEF LiveRouted, sid
  <2>1. CASE sid(i) = s
    BY <1>1, <2>1 DEF TypeOK
  <2>2. CASE sid(i) # s
    <3>1. handling # Routing(i)
      BY <1>1, <2>2, HandlingDistinct
    <3> QED
      BY <1>1, <2>2, <3>1, ConfigTypes DEF RoutingInv, LiveRouted, TypeOK
  <2> QED
    BY <2>1, <2>2
<1>3. Apart' /\ JoinKnown' /\ Begun'
  <2>1. Apart'
    BY <1>1 DEF RoutingInv, Apart, isOpen, sid
  <2>2. JoinKnown'
    BY <1>1, HandlingDistinct DEF JoinKnown
  <2>3. Begun'
    BY <1>1, HandlingDistinct, RoutingAssumption DEF RoutingInv, Begun, TypeOK, isOpen, sid
  <2> QED
    BY <2>1, <2>2, <2>3
<1>4. InHandKnown'
  <2>1. CASE speaking = Nil
    BY <1>1, <2>1 DEF InHandKnown, inHand
  <2>2. CASE speaking # Nil /\ handling # Free
    BY <1>1, <2>2 DEF InHandKnown, RoutingInv, sid
  <2>3. CASE speaking # Nil /\ handling = Free /\ ~inHand(s)
    <3>1. speaking' = speaking /\ speaking.join \in offered /\ sid(speaking.join) # s
      BY <1>1, <2>3, HandlingDistinct DEF RoutingInv, inHand
    <3>2. clientAt'[sid(speaking.join)] = clientAt[sid(speaking.join)]
      BY <1>1, <2>3, <3>1, InHand DEF TypeOK
    <3> QED
      BY <1>1, <2>3, <3>1, <3>2 DEF InHandKnown, RoutingInv, sid
  <2>4. CASE speaking # Nil /\ handling = Free /\ inHand(s)
    <3>1. speaking' = [speaking EXCEPT !.moved = TRUE]
      BY <1>1, <2>4, HandlingDistinct
    <3>2. speaking'.join = speaking.join /\ speaking'.moved
      BY <2>4, <3>1 DEF TypeOK
    <3> QED
      BY <1>1, <2>4, <3>2 DEF InHandKnown, RoutingInv
  <2> QED
    BY <2>1, <2>2, <2>3, <2>4
<1> QED
  BY <1>1, <1>2, <1>3, <1>4 DEF RoutingInv, Apart, JoinKnown, Begun, InHandKnown

\* The close callback takes an entry away: that of another session only if
\* the two overlapped.
LEMMA CallbackKeeps ==
  ASSUME TypeOK, RoutingInv, NEW j \in Joins, CloseCb(j)
  PROVE  RoutingInv'
<1>1. /\ life[j] = "closing" /\ life' = [life EXCEPT ![j] = "closed"]
      /\ connMap' = [connMap EXCEPT ![sid(j)] = Nil]
      /\ UNCHANGED <<handling, offered, receiveCh, speaking, clientAt, overlapped>>
  BY LifeMoves DEF CloseCb, withoutEntry, TypeOK
<1>2. \A i \in Joins : /\ life'[i] = "member" => life[i] = "member" /\ i # j
                       /\ isOpen(i)' => isOpen(i)
                       /\ life[i] # "new" => life'[i] # "new"
  BY <1>1 DEF TypeOK, isOpen
<1>3. LiveRouted'
  <2> SUFFICES ASSUME NEW i \in Joins, life'[i] = "member", handling' # Routing(i), sid(i) \notin overlapped
               PROVE  connMap'[sid(i)] = clientAt'[sid(i)]
    BY <1>1 DEF LiveRouted, sid
  <2>1. sid(i) # sid(j)
    BY <1>1, <1>2 DEF RoutingInv, isOpen
  <2> QED
    BY <1>1, <1>2, <2>1, ConfigTypes DEF RoutingInv, LiveRouted, TypeOK
<1>4. Apart' /\ JoinKnown' /\ Begun'
  BY <1>1, <1>2 DEF RoutingInv, Apart, JoinKnown, Begun, sid
<1>5. InHandKnown'
  BY <1>1, <1>2, InHand DEF RoutingInv, InHandKnown, sid
<1> QED
  BY <1>1, <1>3, <1>4, <1>5 DEF RoutingInv, Apart, JoinKnown, Begun, InHandKnown

\* Messages of clients and sessions come and go.
LEMMA TalkKeeps ==
  ASSUME TypeOK, RoutingInv,
         \/ \E j \in Joins : ClientRTC(j) \/ SessionSpeaks(j) \/ LeaveReturns(j)
         \/ HandleRTCMsg \/ SendRTCMsg
  PROVE  RoutingInv'
<1>1. /\ UNCHANGED <<life, connMap, clientAt, overlapped>>
      /\ offered \subseteq offered' /\ \A i \in offered' \ offered : life[i] = "member" /\ handling = Free
      /\ handling' = handling \/ (handling' = Free /\ \E j \in Joins : handling = Leaving(j))
  BY DEF ClientRTC, SessionSpeaks, LeaveReturns, HandleRTCMsg, SendRTCMsg, server, history
<1>2. \A i \in Joins : handling' = Routing(i) <=> handling = Routing(i)
  BY <1>1, HandlingDistinct
<1>3. receiveCh' \in Seq(offered')
  <2>1. receiveCh \in Seq(offered')
    BY <1>1, SeqMonotonic DEF RoutingInv
  <2>2. CASE \E j \in Joins : SessionSpeaks(j)
    BY <2>1, <2>2, AppendProperties DEF SessionSpeaks
  <2>3. CASE HandleRTCMsg
    BY <2>1, <2>3, HeadTailProperties DEF HandleRTCMsg
  <2>4. CASE SendRTCMsg \/ \E j \in Joins : ClientRTC(j) \/ LeaveReturns(j)
    BY <2>1, <2>4 DEF ClientRTC, LeaveReturns, SendRTCMsg
  <2> QED
    BY <2>2, <2>3, <2>4
<1>4. LiveRouted' /\ Apart'
  BY <1>1, <1>2 DEF RoutingInv, LiveRouted, Apart, isOpen, sid
<1>5. JoinKnown' /\ Begun'
  BY <1>1, <1>2, HandlingDistinct DEF RoutingInv, JoinKnown, Begun, isOpen, sid
<1>6. InHandKnown'
  <2>1. CASE SendRTCMsg
    BY <2>1 DEF SendRTCMsg, InHandKnown
  <2>2. CASE \E j \in Joins : ClientRTC(j) \/ SessionSpeaks(j) \/ LeaveReturns(j)
    <3>1. speaking' = speaking
      BY <2>2 DEF ClientRTC, SessionSpeaks, LeaveReturns
    <3> QED
      BY <1>1, <3>1 DEF RoutingInv, InHandKnown, sid
  <2>3. CASE HandleRTCMsg
    <3> DEFINE j == Head(receiveCh)
    <3>1. j \in offered /\ j \in Joins
      BY <2>3, HeadTailProperties DEF HandleRTCMsg, RoutingInv, TypeOK
    <3>2. life[j] = "member" /\ sid(j) \notin overlapped => connMap[sid(j)] = clientAt[sid(j)]
      BY <3>1 DEF RoutingInv, LiveRouted
    <3>3. speaking' # Nil => speaking'.join = j /\ speaking'.on = connMap[sid(j)]
      BY <2>3 DEF HandleRTCMsg
    <3> QED
      BY <1>1, <3>1, <3>2, <3>3 DEF InHandKnown, sid
  <2> QED
    BY <2>1, <2>2, <2>3
<1> QED
  BY <1>3, <1>4, <1>5, <1>6 DEF RoutingInv, Apart, JoinKnown, Begun, InHandKnown

\* Every step keeps RoutingInv.
LEMMA RoutingStep ==
  ASSUME TypeOK, RoutingInv, [Next]_vars
  PROVE  RoutingInv'
<1>1. CASE UNCHANGED vars
  BY <1>1 DEF RoutingInv, LiveRouted, isOpen, sid, vars, history
<1>2. ASSUME NEW j \in Joins, JoinRefused(j) \/ Leave(j) \/ SessionFails(j)
      PROVE  RoutingInv'
  <2>1. /\ \/ life' = [life EXCEPT ![j] = "rejected"] /\ life[j] = "new"
           \/ life' = [life EXCEPT ![j] = "closing"] /\ life[j] = "member"
        /\ UNCHANGED <<connMap, offered, receiveCh, speaking, clientAt, overlapped>>
        /\ handling' = handling \/ (handling = Free /\ handling' = Leaving(j))
    BY <1>2, LifeMoves DEF JoinRefused, Leave, SessionFails, TypeOK, history
  <2> QED
    BY <2>1, LeavingKeeps
<1> QED
  BY <1>1, <1>2, EnteringKeeps, EntryKeeps, CallbackKeeps, TalkKeeps DEF Next

\* RoutingInv, the strengthening behind the routing properties.
THEOREM RoutingInvariant == Spec => [](TypeOK /\ RoutingInv)
<1>1. Init => RoutingInv
  <2>1. <<>> \in Seq({})
    OBVIOUS
  <2> QED
    BY <2>1, HandlingDistinct DEF Init, RoutingInv, LiveRouted, isOpen, rtcServer!Init
<1>2. TypeOK /\ RoutingInv /\ [Next]_vars => RoutingInv'
  BY RoutingStep
<1> QED
  BY <1>1, <1>2, TypeCorrect, PTL DEF Spec

\* A session in a call is found under the connection its client last used
\* (connMap), for every number of sessions and nodes.
THEOREM LiveSessionsRouted == Spec => []LiveRouted
<1>1. RoutingInv => LiveRouted
  BY DEF RoutingInv
<1> QED
  BY <1>1, RoutingInvariant, PTL

\* handleRTCMsg drops no message of a session in a call, and sends it to the
\* connection its client is at, unless that one reconnects between the lookup
\* and the send.
THEOREM MessagesReachHome == Spec => SpokenHome
<1> DEFINE spoken ==
             \A j \in Joins :
               life[j] = "member" /\ sid(j) \notin overlapped
                 => /\ HandleRTCMsg /\ Head(receiveCh) = j => speaking' # Nil
                    /\ SendRTCMsg /\ speaking.join = j /\ ~speaking.moved
                         => sent' = Sent(j, "rtc", clientAt[sid(j)])
<1>1. ASSUME TypeOK, RoutingInv
      PROVE  spoken
  <2> SUFFICES ASSUME NEW j \in Joins, life[j] = "member", sid(j) \notin overlapped
               PROVE  /\ HandleRTCMsg /\ Head(receiveCh) = j => speaking' # Nil
                      /\ SendRTCMsg /\ speaking.join = j /\ ~speaking.moved
                           => sent' = Sent(j, "rtc", clientAt[sid(j)])
    OBVIOUS
  <2>1. ASSUME HandleRTCMsg, Head(receiveCh) = j
        PROVE  speaking' # Nil
    <3>1. j \in offered
      BY <1>1, <2>1, HeadTailProperties DEF HandleRTCMsg, RoutingInv
    <3>2. connMap[sid(j)] = clientAt[sid(j)]
      BY <1>1, <3>1 DEF RoutingInv, LiveRouted
    <3>3. connMap[sid(j)] # Nil /\ connMap[sid(j)] \in Conns
      BY <1>1, <3>2, ConfigTypes DEF RoutingInv, isOpen, TypeOK
    <3>4. speaking' = [join |-> j, on |-> connMap[sid(j)], moved |-> FALSE]
      BY <2>1, <3>3 DEF HandleRTCMsg
    <3>5. speaking' \in [join : Joins, on : Conns, moved : BOOLEAN]
      BY <3>3, <3>4
    <3> QED
      BY <3>5, RoutingAssumption
  <2>2. ASSUME SendRTCMsg, speaking.join = j, ~speaking.moved
        PROVE  sent' = Sent(j, "rtc", clientAt[sid(j)])
    BY <1>1, <2>2 DEF SendRTCMsg, RoutingInv
  <2> QED
    BY <2>1, <2>2
<1> QED
  BY <1>1, RoutingInvariant, PTL DEF SpokenHome

\* No entry of connMap outlives its session, unless it was made when the
\* session had closed already.
THEOREM EntriesEnd == Spec => []EntriesHaveSessions
<1>1. Init => EntriesHaveSessions
  BY DEF Init, EntriesHaveSessions
<1>2. ASSUME TypeOK, EntriesHaveSessions, [Next]_vars
      PROVE  EntriesHaveSessions'
  <2>1. CASE /\ connMap' = connMap /\ late' = late
             /\ \A i \in Joins : isOpen(i) => isOpen(i)'
    BY <1>2, <2>1 DEF EntriesHaveSessions, open, sid
  <2>2. ASSUME NEW s \in SessionIDs, NEW c, connMap' = withEntry(s, c), Entered(s), life' = life
        PROVE  EntriesHaveSessions'
    BY <1>2, <2>2 DEF EntriesHaveSessions, withEntry, Entered, open, isOpen, sid, TypeOK
  <2>3. ASSUME NEW j \in Joins, CloseCb(j)
        PROVE  EntriesHaveSessions'
    <3>1. /\ life[j] = "closing" /\ life' = [life EXCEPT ![j] = "closed"]
          /\ connMap' = [connMap EXCEPT ![sid(j)] = Nil] /\ late' = late
      BY <1>2, <2>3, LifeMoves DEF CloseCb, withoutEntry, TypeOK
    <3>2. \A i \in Joins \ {j} : isOpen(i) => isOpen(i)'
      BY <1>2, <3>1 DEF isOpen, TypeOK
    <3> QED
      BY <1>2, <3>1, <3>2 DEF EntriesHaveSessions, open, sid, TypeOK
  <2>4. ASSUME NEW j \in Joins, JoinRoute(j)
        PROVE  EntriesHaveSessions'
    BY <2>2, <2>4, ConfigTypes DEF JoinRoute, server
  <2>5. ASSUME NEW s \in SessionIDs, NEW c \in Conns, Reconnect(s, c)
        PROVE  EntriesHaveSessions'
    BY <2>2, <2>5 DEF Reconnect, server
  <2>6. ASSUME NEW j \in Joins, JoinRefused(j) \/ JoinInit(j) \/ Leave(j) \/ SessionFails(j)
        PROVE  EntriesHaveSessions'
    <3>1. /\ connMap' = connMap /\ late' = late
          /\ \/ life[j] = "new" /\ life' = [life EXCEPT ![j] = "rejected"]
             \/ life[j] = "new" /\ life' = [life EXCEPT ![j] = "member"]
             \/ life[j] = "member" /\ life' = [life EXCEPT ![j] = "closing"]
      BY <1>2, <2>6, LifeMoves DEF JoinRefused, JoinInit, Leave, SessionFails, TypeOK, history
    <3> QED
      BY <1>2, <3>1, <2>1 DEF isOpen, TypeOK
  <2>7. CASE UNCHANGED <<life, connMap, late>>
    BY <2>1, <2>7 DEF isOpen
  <2>8. ASSUME HandleRTCMsg \/ SendRTCMsg \/ \E j \in Joins : LeaveReturns(j) \/ ClientRTC(j) \/ SessionSpeaks(j)
        PROVE  UNCHANGED <<life, connMap, late>>
    BY <2>8 DEF HandleRTCMsg, SendRTCMsg, LeaveReturns, ClientRTC, SessionSpeaks, server, history
  <2>9. UNCHANGED vars => UNCHANGED <<life, connMap, late>>
    BY DEF vars, history
  <2> QED
    BY <1>2, <2>3, <2>4, <2>5, <2>6, <2>7, <2>8, <2>9 DEF Next
<1> QED
  BY <1>1, <1>2, TypeCorrect, PTL DEF Spec
=============================================================================
