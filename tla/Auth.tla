-------------------------------- MODULE Auth --------------------------------
(***************************************************************************)
(* Client accounts and bearer tokens: the HTTP handlers of service/auth.go *)
(* over service/auth/service.go, the token cache service/auth/             *)
(* session_cache.go and the key store service/store/bitcask.go.            *)
(*                                                                         *)
(* Every request runs in a goroutine of its own.  A step is one access to  *)
(* the store or to the cache, each of which has its own mutex, so two      *)
(* requests interleave between any two accesses: Authenticate reads the    *)
(* hash and compares it later, Register looks before it puts, Unregister   *)
(* deletes the key and the token in two steps, Login caches a token for a  *)
(* key it read earlier, and the cache's Get removes an expired token after *)
(* it gave up the read lock.                                               *)
(*                                                                         *)
(* A restart loses the cache and every request under way and keeps the     *)
(* store.  Tokens are 32 random characters, so a new one is taken to       *)
(* differ from every earlier one.                                          *)
(***************************************************************************)
EXTENDS Naturals, FiniteSets

CONSTANTS
  Workers,                \* goroutines that serve requests
  Clients,
  Keys,                   \* keys of at least MinKeyLen characters
  ShortKeys,              \* keys Register refuses
  AdminKey,               \* AdminSecretKey
  Tokens,                 \* bounds the number of logins that succeed
  Requests,               \* what the requests of the instance ask for
  EnableAdmin,
  AllowSelfRegistration,
  None

\* What a request carries: the client and key of its body, and its
\* Authorization header.
Basic == [kind : {"basic"}, id : Clients, key : Keys \cup ShortKeys \cup {AdminKey}]
Bearer == [kind : {"bearer"}, token : Tokens]
Ops == {"register", "unregister", "login", "connect"}
Request == [op : Ops, id : Clients, key : Keys \cup ShortKeys, auth : Basic \cup Bearer]

ASSUME AuthAssumption ==
  /\ Requests \subseteq Request
  /\ EnableAdmin \in BOOLEAN
  /\ AllowSelfRegistration \in BOOLEAN
  /\ None \notin Clients \cup Tokens \cup Request \cup [of : Keys]
  /\ Keys \cap ShortKeys = {}

VARIABLES
  db,          \* bitcaskStore.db: the hash stored for a client, or None
  sessionMap,  \* SessionCache.sessionMap: token -> cached session, or None
  at,          \* where each worker is in its handler
  req,         \* the request it serves
  hash,        \* the hash Authenticate read
  issued,      \* history: tokens handed out so far
  loginOf,     \* history: the client and hash a token's login was checked against
  lapsed       \* history: clients whose key was deleted while a login held
               \* its hash, or whose deletion failed half way

authVars == <<db, sessionMap, at, req, hash, issued, loginOf, lapsed>>
request == <<at, req, hash>>
authHistory == <<issued, loginOf, lapsed>>

\* bcrypt: a hash is compared with a key, never read back.
hashKey(key) == [of |-> key]

compareKeyHash(h, key) == h.of = key

Hashes == {hashKey(k) : k \in Keys}

AuthInit ==
  /\ db = [c \in Clients |-> None]
  /\ sessionMap = [t \in Tokens |-> None]
  /\ at = [w \in Workers |-> "idle"]
  /\ req = [w \in Workers |-> None]
  /\ hash = [w \in Workers |-> None]
  /\ issued = {}
  /\ loginOf = [t \in Tokens |-> None]
  /\ lapsed = {}

-----------------------------------------------------------------------------
(* Moves of one worker. *)

Goto(w, place) ==
  /\ at' = [at EXCEPT ![w] = place]
  /\ UNCHANGED <<req, hash>>

\* The handler answers, whatever the code, and the goroutine ends.
Answer(w) ==
  /\ at' = [at EXCEPT ![w] = "idle"]
  /\ req' = [req EXCEPT ![w] = None]
  /\ hash' = [hash EXCEPT ![w] = None]

\* Whether a request that passed as client who, None for the administrator,
\* may unregister the client it names.
ownAccount(w, who) == who = None \/ who = req[w].id

\* What a handler does once authHandler, or Login's Authenticate, let the
\* request pass as client who.
Authorised(w, who) ==
  \/ req[w].op = "register" /\ Goto(w, "register")
  \/ req[w].op = "login" /\ Goto(w, "cache")
  \/ req[w].op = "unregister" /\ ownAccount(w, who) /\ Goto(w, "unregister")
  \/ req[w].op = "unregister" /\ ~ownAccount(w, who) /\ Answer(w)
  \/ req[w].op = "connect" /\ Answer(w)

-----------------------------------------------------------------------------
(* Handlers. *)

\* registerClient is open to all when self registration is; a login has its
\* credentials in its body and passes by authHandler.
firstPlace(r) ==
  CASE r.op = "register" /\ AllowSelfRegistration -> "register"
    [] r.op = "login" -> "login"
    [] OTHER -> "auth"

\* unregisterClient answers at once when neither switch is on.
Serve(w, r) ==
  /\ at[w] = "idle"
  /\ r.op = "unregister" => EnableAdmin \/ AllowSelfRegistration
  /\ at' = [at EXCEPT ![w] = firstPlace(r)]
  /\ req' = [req EXCEPT ![w] = r]
  /\ UNCHANGED <<hash, db, sessionMap, authHistory>>

byBasic(w) == at[w] = "auth" /\ req[w].auth.kind = "basic"
byAdmin(w) == byBasic(w) /\ EnableAdmin /\ req[w].auth.key = AdminKey

\* The client and key Authenticate is called with.
given(w) == IF req[w].op = "login" THEN [id |-> req[w].id, key |-> req[w].key]
            ELSE [id |-> req[w].auth.id, key |-> req[w].auth.key]

AdminAuth(w) ==
  /\ byAdmin(w)
  /\ Authorised(w, None)
  /\ UNCHANGED <<db, sessionMap, authHistory>>

Authenticate(w) ==
  /\ at[w] = "login" \/ (byBasic(w) /\ ~byAdmin(w))
  /\ IF db[given(w).id] = None
     THEN Answer(w)
     ELSE /\ hash' = [hash EXCEPT ![w] = db[given(w).id]]
          /\ at' = [at EXCEPT ![w] = "compare"]
          /\ UNCHANGED req
  /\ UNCHANGED <<db, sessionMap, authHistory>>

\* The limiter may also time out while Authenticate waits for it.
CompareKey(w) ==
  /\ at[w] = "compare"
  /\ \/ compareKeyHash(hash[w], given(w).key) /\ Authorised(w, given(w).id)
     \/ Answer(w)
  /\ UNCHANGED <<db, sessionMap, authHistory>>

BearerAuth(w) ==
  /\ at[w] = "auth"
  /\ req[w].auth.kind = "bearer"
  /\ LET session == sessionMap[req[w].auth.token] IN
       \/ session = None /\ Answer(w)
       \/ session # None /\ session.expired /\ Goto(w, "purge")
       \/ session # None /\ ~session.expired /\ Authorised(w, session.client)
  /\ UNCHANGED <<db, sessionMap, authHistory>>

\* A plausible slip: an expired token takes the client's session with it.
purged_client(token) ==
  [t \in Tokens |-> IF loginOf[t] # None /\ loginOf[t].client = loginOf[token].client
                    THEN None ELSE sessionMap[t]]

purged(token) == [sessionMap EXCEPT ![token] = None]

\* The write section of Get, which looks at nothing again.
PurgeExpired(w) ==
  /\ at[w] = "purge"
  /\ sessionMap' = purged(req[w].auth.token)
  /\ Answer(w)
  /\ UNCHANGED <<db, authHistory>>

-----------------------------------------------------------------------------
(* Register. *)

RegisterLooks(w) ==
  /\ at[w] = "register"
  /\ IF req[w].key \in Keys /\ db[req[w].id] = None THEN Goto(w, "put") ELSE Answer(w)
  /\ UNCHANGED <<db, sessionMap, authHistory>>

\* bitcaskStore.Put: ErrConflict leaves the key as it is.
put(id, value) == IF db[id] = None THEN [db EXCEPT ![id] = value] ELSE db

\* The store may report a failed sync after it took the value: either way
\* the handler answers.
RegisterPuts(w) ==
  /\ at[w] = "put"
  /\ db' = put(req[w].id, hashKey(req[w].key))
  /\ Answer(w)
  /\ UNCHANGED <<sessionMap, authHistory>>

\* The limiter times out, or the store refuses.
RegisterFails(w) ==
  /\ at[w] = "put"
  /\ Answer(w)
  /\ UNCHANGED <<db, sessionMap, authHistory>>

-----------------------------------------------------------------------------
(* Unregister. *)

UnregisterLooks(w) ==
  /\ at[w] = "unregister"
  /\ IF db[req[w].id] # None THEN Goto(w, "delete") ELSE Answer(w)
  /\ UNCHANGED <<db, sessionMap, authHistory>>

\* Logins of a client that hold the hash they read.
holding(id) ==
  {w \in Workers : at[w] \in {"compare", "cache"} /\ req[w].op = "login" /\ req[w].id = id}

UnregisterDeletes(w) ==
  /\ at[w] = "delete"
  /\ db' = [db EXCEPT ![req[w].id] = None]
  /\ lapsed' = IF holding(req[w].id) = {} THEN lapsed ELSE lapsed \cup {req[w].id}
  /\ Goto(w, "invalidate")
  /\ UNCHANGED <<sessionMap, issued, loginOf>>

\* The key is gone but the sync failed: Unregister returns before it comes
\* to the token.
DeleteUnsynced(w) ==
  /\ at[w] = "delete"
  /\ db' = [db EXCEPT ![req[w].id] = None]
  /\ lapsed' = lapsed \cup {req[w].id}
  /\ Answer(w)
  /\ UNCHANGED <<sessionMap, issued, loginOf>>

DeleteFails(w) ==
  /\ at[w] = "delete"
  /\ Answer(w)
  /\ UNCHANGED <<db, sessionMap, authHistory>>

tokensOf(id) == {t \in Tokens : sessionMap[t] # None /\ sessionMap[t].client = id}

\* A plausible slip: the loop looks for the token and never deletes it.
withoutToken_kept(id) == {sessionMap}

\* SessionCache.delete: the loop over the map stops at the first token of
\* the client, whichever comes first.
withoutToken(id) ==
  IF tokensOf(id) = {} THEN {sessionMap}
  ELSE {[sessionMap EXCEPT ![t] = None] : t \in tokensOf(id)}

UnregisterInvalidates(w) ==
  /\ at[w] = "invalidate"
  /\ sessionMap' \in withoutToken(req[w].id)
  /\ Answer(w)
  /\ UNCHANGED <<db, authHistory>>

-----------------------------------------------------------------------------
(* Login. *)

Cached(id) == [client |-> id, expired |-> FALSE]

\* SessionCache.Put.
LoginCaches(w) ==
  /\ at[w] = "cache"
  /\ \E t \in Tokens \ issued, map \in withoutToken(req[w].id) :
       /\ sessionMap' = [map EXCEPT ![t] = Cached(req[w].id)]
       /\ issued' = issued \cup {t}
       /\ loginOf' = [loginOf EXCEPT ![t] = [client |-> req[w].id, hash |-> hash[w]]]
  /\ Answer(w)
  /\ UNCHANGED <<db, lapsed>>

\* ExpirationDate passes.
Expire(t) ==
  /\ sessionMap[t] # None
  /\ sessionMap' = [sessionMap EXCEPT ![t].expired = TRUE]
  /\ UNCHANGED <<db, request, authHistory>>

\* The process dies and comes back with what the store holds.
Restart ==
  /\ sessionMap' = [t \in Tokens |-> None]
  /\ at' = [w \in Workers |-> "idle"]
  /\ req' = [w \in Workers |-> None]
  /\ hash' = [w \in Workers |-> None]
  /\ UNCHANGED <<db, authHistory>>

-----------------------------------------------------------------------------
Step(w) ==
  \/ \E r \in Requests : Serve(w, r)
  \/ AdminAuth(w) \/ Authenticate(w) \/ CompareKey(w)
  \/ BearerAuth(w) \/ PurgeExpired(w)
  \/ RegisterLooks(w) \/ RegisterPuts(w) \/ RegisterFails(w)
  \/ UnregisterLooks(w) \/ UnregisterDeletes(w) \/ DeleteUnsynced(w)
  \/ DeleteFails(w) \/ UnregisterInvalidates(w)
  \/ LoginCaches(w)

AuthNext ==
  \/ \E w \in Workers : Step(w)
  \/ \E t \in Tokens : Expire(t)
  \/ Restart

AuthSpec == AuthInit /\ [][AuthNext]_authVars

-----------------------------------------------------------------------------
(* Properties. *)

Places == {"idle", "auth", "login", "compare", "purge", "register", "put",
           "unregister", "delete", "invalidate", "cache"}

\* What a worker has in hand where it is.
Settled(w) ==
  /\ at[w] # "idle" => req[w] # None
  /\ at[w] = "auth" => req[w].op # "login"
  /\ at[w] \in {"login", "cache"} => req[w].op = "login"
  /\ at[w] \in {"compare", "cache"} => hash[w] # None
  /\ at[w] = "put" => req[w].key \in Keys

\* Types of the state: the store holds hashes, the cache holds sessions of
\* clients, and a worker past "idle" has a request.
AuthTypeOK ==
  /\ db \in [Clients -> Hashes \cup {None}]
  /\ sessionMap \in [Tokens -> [client : Clients, expired : BOOLEAN] \cup {None}]
  /\ at \in [Workers -> Places]
  /\ req \in [Workers -> Requests \cup {None}]
  /\ \A w \in Workers : Settled(w)
  /\ hash \in [Workers -> Hashes \cup {None}]
  /\ issued \in SUBSET Tokens
  /\ loginOf \in [Tokens -> [client : Clients, hash : Hashes] \cup {None}]
  /\ lapsed \in SUBSET Clients

\* "Make sure there is only one bearer token per client"
\* (session_cache.go:74): however logins, expiries and removals interleave,
\* no two cached tokens are of one client, although Put and Delete remove at
\* most one token each.
OneTokenPerClient ==
  \A t, u \in Tokens :
    sessionMap[t] # None /\ sessionMap[u] # None /\ sessionMap[t].client = sessionMap[u].client => t = u

\* A worker is about to remove the client's token.
invalidating(c) == \E w \in Workers : at[w] = "invalidate" /\ req[w].id = c

\* "Invalidate token when unregistering" (service.go:103): a cached token is
\* of a client that is still registered under the key the token was given
\* for, once the Unregister under way has come to its second step; the
\* exceptions are the clients in lapsed, whose key went while a login held
\* its hash or whose deletion could not be synced.
TokenBacked ==
  \A t \in Tokens :
    sessionMap[t] # None =>
      LET c == sessionMap[t].client IN
        \/ db[c] = loginOf[t].hash
        \/ c \in lapsed
        \/ invalidating(c)

\* What OneTokenPerClient, TokenBacked and PurgesOnlyExpired rest on: a
\* login past its check holds the hash that is stored, unless its client is
\* in lapsed; a cached token was handed out; and the token a worker is about
\* to purge was handed out and is expired or gone.
AccountInv ==
  /\ OneTokenPerClient
  /\ TokenBacked
  /\ \A t \in Tokens : sessionMap[t] # None => t \in issued /\ loginOf[t] \in [client : Clients, hash : Hashes]
  /\ \A w \in Workers :
       /\ at[w] \in {"compare", "cache"} /\ req[w].op = "login" =>
            db[req[w].id] = hash[w] \/ req[w].id \in lapsed
       /\ at[w] = "purge" =>
            /\ req[w].auth.kind = "bearer"
            /\ req[w].auth.token \in issued
            /\ sessionMap[req[w].auth.token] = None \/ sessionMap[req[w].auth.token].expired

\* Two registrations of one client that both found it missing: the second
\* to reach the store must not replace the key of the first
\* (bitcaskStore.Put and Register's ErrConflict branch).  A key changes only
\* through a deletion.
KeyNotReplaced ==
  [][\A c \in Clients : db[c] # None /\ db'[c] # None => db'[c] = db[c]]_authVars

\* The write section of the cache's Get runs after it released the read
\* lock: it removes an expired session or nothing, even when the client has
\* logged in again in between.
PurgesOnlyExpired ==
  [][\A w \in Workers, t \in Tokens :
       PurgeExpired(w) /\ sessionMap[t] # None /\ sessionMap'[t] = None => sessionMap[t].expired]_authVars


=============================================================================
