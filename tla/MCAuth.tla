------------------------------- MODULE MCAuth -------------------------------
(* Instances of Auth for TLC. *)
EXTENDS Auth, TLC

CONSTANTS c1, c2, k1, k2, short, t1, t2, w1, w2, w3, adminKey

basic(id, key) == [kind |-> "basic", id |-> id, key |-> key]
bearer(token) == [kind |-> "bearer", token |-> token]
ask(op, id, key, auth) == [op |-> op, id |-> id, key |-> key, auth |-> auth]

\* Two clients and an administrator, who alone may register them.  The requests
\* of c1 race with each other, under two keys; c2 asks for what it may not.
requests ==
  {ask("register", c1, k, basic(c1, adminKey)) : k \in {k1, k2, short}}
  \cup {ask("register", c2, k1, basic(c2, a)) : a \in {adminKey, k1}}
  \cup {ask("login", c1, k, basic(c1, k)) : k \in {k1, k2}}
  \cup {ask("login", c2, k1, basic(c2, k1))}
  \cup {ask("unregister", c1, k1, basic(c1, a)) : a \in {adminKey, k1}}
  \cup {ask("unregister", c2, k1, bearer(t1))}
  \cup {ask("connect", c1, k1, bearer(t)) : t \in {t1, t2}}

symmetry == Permutations(Workers)
=============================================================================
