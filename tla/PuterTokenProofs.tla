-------------------------- MODULE PuterTokenProofs ---------------------------
(***************************************************************************)
(* PuterToken for any number of requests, tokens and retries.              *)
(*                                                                         *)
(* Two invariants carry the rest.  The counters of a request say how often *)
(* it has called (Good).  A token that a request has obtained and not yet  *)
(* stored is known to it alone (Apart), so that no token that was refused  *)
(* ever comes back into the cache (Honest).                                *)
(*                                                                         *)
(* The three retry loops count down like the digits of one number          *)
(* (StepsLeft).                                                            *)
(***************************************************************************)
EXTENDS PuterToken, FiniteSetTheorems, TLAPS

Good(q) ==
    /\ q \in Locals
    /\ q.pc = "login" => q.loginAttempt > 0
    /\ q.pc \in {"store", "call", "invalidate", "stream"} => q.token # NoToken
    /\ q.pc = "store" => q.token \in Tokens
    /\ static => q.pc \notin {"login", "store"}
    /\ q.pc \in {"ensure", "login", "store", "call"} => q.calls = q.httpAttempt + q.authAttempt
    /\ q.pc = "invalidate" => q.authAttempt = 0 /\ q.calls = q.httpAttempt + 1
    /\ q.pc = "stream" => q.calls = q.httpAttempt + q.authAttempt + 1 /\ ~q.failed
    /\ q.calls <= MaxHttpRetries + 2
    /\ q.pc \in Ended => (q.pc = "error" <=> q.failed)

\* What a request has been refused, while c is the cached token.
Honest(q, c) ==
    /\ q.pc \notin Ended /\ q.pc # "invalidate" =>
         /\ q.authAttempt = 0 => q.refused = {}
         /\ q.authAttempt = 1 => \E t \in Tokens \cup {StaticToken} : q.refused = {t}
         /\ c \notin q.refused
    /\ q.pc = "invalidate" => q.refused = {q.token}
    /\ q.pc \in {"store", "call"} => q.token \notin q.refused
    /\ q.pc = "error" /\ ~q.faults => Cardinality(q.refused) >= 2

Apart ==
    \A r \in Requests : req[r].pc = "store" =>
        /\ req[r].token # cached
        /\ \A s \in Requests \ {r} : req[r].token # req[s].token /\ req[r].token \notin req[s].refused

Shared ==
    /\ static \in BOOLEAN /\ stale \in BOOLEAN
    /\ cached \in Tokens \cup {NoToken} /\ (static => cached = NoToken)
    /\ revoked \subseteq Tokens /\ revocations \in 0 .. MaxRevocations
    /\ req \in [Requests -> Locals]

TokenInv ==
    /\ Shared
    /\ \A r \in Requests : Good(req[r])
    /\ ~static => Apart /\ \A r \in Requests : Honest(req[r], cached)

LEMMA Constants ==
    /\ NoToken = -1 /\ StaticToken = -2 /\ Tokens \subseteq Nat
    /\ NoToken \notin Tokens /\ StaticToken \notin Tokens
    /\ LoginMaxRetries \in Nat \ {0} /\ MaxToolAttempts \in Nat \ {0}
    /\ MaxHttpRetries \in Nat /\ MaxRevocations \in Nat
BY PuterTokenAssumption DEF PuterTokenAssumption, NoToken, StaticToken

LEMMA Implied == TokenInv => TypeOK /\ RevocationSurvived /\ ErrorIsTheLast /\ CallsBounded
<1> SUFFICES ASSUME TokenInv PROVE TypeOK /\ RevocationSurvived /\ ErrorIsTheLast /\ CallsBounded
  OBVIOUS
<1>1. TypeOK
  BY DEF TokenInv, Shared, Good, TypeOK
<1>2. RevocationSurvived
  BY DEF TokenInv, Honest, RevocationSurvived
<1>3. ErrorIsTheLast
  BY DEF TokenInv, Good, ErrorIsTheLast
<1>4. CallsBounded
  BY DEF TokenInv, Good, CallsBounded
<1>5. QED
  BY <1>1, <1>2, <1>3, <1>4

LEMMA FreshFacts ==
    ASSUME NEW mode \in {"stream", "plain"}, NEW n \in 0 .. MaxToolAttempts - 1,
           NEW c \in Tokens \cup {NoToken}, NEW q,
           q = Fresh(mode) \/ q = [Fresh(mode) EXCEPT !.toolAttempt = n]
    PROVE  Good(q) /\ Honest(q, c) /\ q.pc = "ensure" /\ q.token = NoToken /\ q.refused = {}
<1>1. /\ 0 \in 0 .. LoginMaxRetries /\ 0 \in 0 .. MaxHttpRetries /\ 0 \in 0 .. MaxHttpRetries + 3
      /\ NoToken \in Tokens \cup {NoToken, StaticToken} /\ 0 <= MaxHttpRetries + 2
      /\ 0 \in 0 .. MaxToolAttempts - 1
  BY Constants
<1>2. q \in Locals
  <2>1. CASE q = Fresh(mode)
    BY <1>1, <2>1 DEF Fresh, Locals, Places
  <2>2. CASE q = [Fresh(mode) EXCEPT !.toolAttempt = n]
    BY <1>1, <2>2 DEF Fresh, Locals, Places
  <2>3. QED
    BY <2>1, <2>2
<1>3. /\ q.pc = "ensure" /\ q.token = NoToken /\ q.refused = {} /\ q.calls = 0
      /\ q.httpAttempt = 0 /\ q.authAttempt = 0
  BY DEF Fresh
<1>4. QED
  BY <1>1, <1>2, <1>3 DEF Good, Honest, Ended

LEMMA InitToken == Init => TokenInv
<1> SUFFICES ASSUME Init PROVE TokenInv
  OBVIOUS
<1>1. 0 \in 0 .. MaxToolAttempts - 1 /\ 0 \in 0 .. MaxRevocations
  BY Constants
<1>2. 0 \in 0 .. MaxToolAttempts - 1 /\ NoToken \in Tokens \cup {NoToken}
  BY Constants
<1>3. \A r \in Requests : Good(req[r]) /\ Honest(req[r], NoToken) /\ req[r].pc = "ensure"
  <2>1. \A r \in Requests : \E mode \in {"stream", "plain"} : req[r] = Fresh(mode)
    BY DEF Init
  <2>2. QED
    BY <1>2, <2>1, FreshFacts
<1>4. Shared
  BY <1>1, <1>3 DEF Init, Shared, Good
<1>5. QED
  BY <1>3, <1>4 DEF Init, TokenInv, Apart

\* Two refusals of different tokens.
LEMMA TwoRefused == ASSUME NEW t, NEW u, t # u PROVE Cardinality({t} \cup {u}) >= 2
<1>1. IsFiniteSet({t}) /\ Cardinality({t}) = 1
  BY FS_Singleton
<1>2. Cardinality({t} \cup {u}) = Cardinality({t}) + 1
  BY <1>1, FS_AddElement
<1>3. QED
  BY <1>1, <1>2

-----------------------------------------------------------------------------
\* A step of one request that may use the cache.  What it comes to know is what
\* it knew, the cached token, or a token nobody knows.
LEMMA Moves ==
    ASSUME TokenInv, NEW r \in Requests, NEW q, Update(r, q), Good(q), UNCHANGED static,
           stale' \in BOOLEAN, revoked' \subseteq Tokens, revocations' = revocations,
           cached' \in Tokens \cup {NoToken}, static => cached' = NoToken,
           ~static =>
             /\ Honest(q, cached')
             /\ q.token \in {req[r].token, NoToken, cached} \/ q.token \notin InUse
             /\ q.refused \subseteq req[r].refused \cup {req[r].token}
             /\ q.pc = "store" => q.token \notin InUse /\ cached' = cached
             /\ \/ cached' \in {cached, NoToken}
                \/ cached' = req[r].token /\ req[r].pc = "store"
    PROVE  TokenInv'
<1>1. req' = [req EXCEPT ![r] = q] /\ req \in [Requests -> Locals] /\ q \in Locals
  BY DEF Update, TokenInv, Shared, Good
<1>2. req'[r] = q /\ \A s \in Requests \ {r} : req'[s] = req[s]
  BY <1>1
<1>3. Shared'
  BY <1>1 DEF TokenInv, Shared
<1>4. \A s \in Requests : Good(req[s])'
  BY <1>2 DEF TokenInv, Good
<1>5. ASSUME ~static PROVE Apart' /\ \A s \in Requests : Honest(req'[s], cached')
  <2>1. Apart /\ \A s \in Requests : Honest(req[s], cached) /\ Good(req[s])
    BY <1>5 DEF TokenInv
  <2>2. ASSUME NEW s \in Requests \ {r}, req[s].pc = "store"
        PROVE  /\ req[s].token # cached' /\ req[s].token # q.token
               /\ req[s].token \notin q.refused
    <3>1. /\ req[s].token \in Tokens /\ req[s].token # cached /\ req[s].token \in InUse
          /\ req[s].token # req[r].token /\ req[s].token \notin req[r].refused
      BY <2>1, <2>2 DEF Apart, Good, InUse
    <3>2. QED
      BY <1>5, <3>1, Constants
  <2>3. ASSUME q.pc = "store", NEW s \in Requests \ {r}
        PROVE  q.token # cached' /\ q.token # req[s].token /\ q.token \notin req[s].refused
    BY <1>5, <2>3 DEF InUse
  <2>4. Apart'
    <3> SUFFICES ASSUME NEW s \in Requests, req'[s].pc = "store"
                 PROVE  /\ req'[s].token # cached'
                        /\ \A u \in Requests \ {s} :
                             req'[s].token # req'[u].token /\ req'[s].token \notin req'[u].refused
      BY DEF Apart
    <3>1. CASE s = r
      <4>1. q.token # cached'
        BY <1>2, <1>5, <3>1 DEF InUse
      <4>2. QED
        BY <1>2, <2>3, <3>1, <4>1
    <3>2. CASE s # r
      <4>1. req'[s] = req[s] /\ req[s].pc = "store"
        BY <1>2, <3>2
      <4>2. \A u \in Requests \ {s} : req[s].token # req[u].token /\ req[s].token \notin req[u].refused
        BY <2>1, <4>1 DEF Apart
      <4>3. QED
        BY <1>2, <2>2, <3>2, <4>1, <4>2
    <3>3. QED
      BY <3>1, <3>2
  <2>5. \A s \in Requests : Honest(req'[s], cached')
    <3>1. ASSUME NEW s \in Requests \ {r} PROVE Honest(req[s], cached')
      <4>1. req[s].refused \subseteq Tokens \cup {StaticToken}
        BY <2>1 DEF Good, Locals
      <4>2. NoToken \notin req[s].refused
        BY <4>1, Constants
      <4>3. req[r].pc = "store" => req[r].token \notin req[s].refused
        BY <2>1 DEF Apart
      <4>4. cached \in req[s].refused \/ cached' \notin req[s].refused
        BY <1>5, <4>2, <4>3
      <4>5. QED
        BY <2>1, <4>4 DEF Honest
    <3>2. QED
      BY <1>2, <1>5, <3>1
  <2>6. QED
    BY <2>4, <2>5
<1>6. QED
  BY <1>3, <1>4, <1>5 DEF TokenInv

\* The locals when a request ends, and when its HTTP call is retried.
LEMMA LeaveFacts ==
    ASSUME NEW q \in Locals, NEW e \in BOOLEAN, e <=> q.failed, q.calls <= MaxHttpRetries + 2,
           NEW c \in Tokens \cup {NoToken}
    PROVE  /\ Good(Leave(q, e)) /\ Leave(q, e).token = NoToken /\ Leave(q, e).refused = q.refused
           /\ Leave(q, e).pc \in Ended
           /\ (e /\ ~q.faults => Cardinality(q.refused) >= 2) => Honest(Leave(q, e), c)
<1>1. /\ 0 \in 0 .. LoginMaxRetries /\ 0 \in 0 .. MaxHttpRetries /\ 0 \in 0 .. MaxToolAttempts - 1
      /\ NoToken \in Tokens \cup {NoToken, StaticToken}
  BY Constants
<1>2. /\ Leave(q, e).pc = (IF e THEN "error" ELSE "ok") /\ Leave(q, e).token = NoToken
      /\ Leave(q, e).refused = q.refused /\ Leave(q, e).failed = q.failed
      /\ Leave(q, e).calls = q.calls /\ Leave(q, e).faults = q.faults
  BY DEF Leave, Fresh
<1>3. Leave(q, e) \in Locals
  BY <1>1, ZenonT(30) DEF Leave, Fresh, Locals, Places
<1>4. QED
  BY <1>2, <1>3 DEF Good, Honest, Ended

\* q is what a request knows once its call has failed for another reason.
LEMMA RetryFacts ==
    ASSUME NEW q \in Locals, q.failed, q.faults, q.calls = q.httpAttempt + q.authAttempt + 1,
           NEW c \in Tokens \cup {NoToken}
    PROVE  /\ Good(RetryOrLeave(q))
           /\ RetryOrLeave(q).token \in {q.token, NoToken}
           /\ RetryOrLeave(q).refused = q.refused
           /\ RetryOrLeave(q).pc \in {"ensure"} \cup Ended
           /\ (/\ c \notin q.refused
               /\ q.authAttempt = 0 => q.refused = {}
               /\ q.authAttempt = 1 => \E t \in Tokens \cup {StaticToken} : q.refused = {t})
              => Honest(RetryOrLeave(q), c)
<1>1. q.httpAttempt \in 0 .. MaxHttpRetries /\ q.authAttempt \in {0, 1}
  BY DEF Locals
<1>2. q.calls <= MaxHttpRetries + 2
  BY <1>1, Constants
<1>3. CASE q.mode = "stream" /\ q.httpAttempt < MaxHttpRetries
  <2> DEFINE p == [q EXCEPT !.pc = "ensure", !.lastError = TRUE, !.httpAttempt = @ + 1]
  <2>1. RetryOrLeave(q) = p
    BY <1>3 DEF RetryOrLeave
  <2>2. q.httpAttempt + 1 \in 0 .. MaxHttpRetries
    BY <1>1, <1>3, Constants
  <2>3. /\ p \in Locals /\ p.pc = "ensure" /\ p.token = q.token /\ p.refused = q.refused
        /\ p.httpAttempt = q.httpAttempt + 1 /\ p.authAttempt = q.authAttempt /\ p.calls = q.calls
    BY <2>2 DEF Locals, Places
  <2>4. Good(p)
    BY <1>1, <1>2, <2>3 DEF Good, Ended
  <2>5. QED
    BY <2>1, <2>3, <2>4 DEF Honest, Ended
<1>4. CASE ~(q.mode = "stream" /\ q.httpAttempt < MaxHttpRetries)
  <2>1. RetryOrLeave(q) = Leave(q, TRUE)
    BY <1>4 DEF RetryOrLeave
  <2>2. QED
    BY <1>2, <2>1, LeaveFacts
<1>5. QED
  BY <1>3, <1>4

\* q is what a request knows after one more call.
LEMMA CalledFacts ==
    ASSUME NEW q, Good(q), q.pc = "call"
    PROVE  /\ Called(q) \in Locals /\ Called(q).calls = q.calls + 1
           /\ Called(q).calls = Called(q).httpAttempt + Called(q).authAttempt + 1
           /\ Called(q).calls <= MaxHttpRetries + 2
           /\ \A f \in {"mode", "pc", "token", "httpAttempt", "authAttempt", "toolAttempt", "refused",
                        "faults", "hadTool", "lastError"} : Called(q)[f] = q[f]
<1>1. /\ q \in Locals /\ q.calls = q.httpAttempt + q.authAttempt
      /\ q.httpAttempt \in 0 .. MaxHttpRetries /\ q.authAttempt \in {0, 1}
  BY DEF Good, Locals
<1>2. q.calls <= MaxHttpRetries + 1 /\ q.calls \in Nat
  BY <1>1, Constants
<1>3. Called(q) = [q EXCEPT !.calls = q.calls + 1]
  BY <1>1, <1>2, Constants DEF Called, Locals
<1>4. q.calls + 1 \in 0 .. MaxHttpRetries + 3
  BY <1>2, Constants
<1>5. /\ Called(q) \in Locals /\ Called(q).calls = q.calls + 1
      /\ \A f \in {"mode", "pc", "token", "httpAttempt", "authAttempt", "toolAttempt", "refused",
                   "faults", "hadTool", "lastError"} : Called(q)[f] = q[f]
  BY <1>1, <1>3, <1>4 DEF Locals
<1>6. QED
  BY <1>1, <1>2, <1>5, Constants

\* What the invariant says of a request and of what it shares.
LEMMA Known ==
    ASSUME TokenInv, NEW r \in Requests
    PROVE  /\ req[r] \in Locals /\ Good(req[r]) /\ (~static => Honest(req[r], cached))
           /\ stale \in BOOLEAN /\ revoked \subseteq Tokens /\ cached \in Tokens \cup {NoToken}
           /\ static => cached = NoToken
           /\ static \in BOOLEAN
           /\ req[r].token \in InUse /\ cached \in InUse
BY DEF TokenInv, Shared, Good, InUse

\* A step that leaves what is shared alone.
LEMMA MovesAlone ==
    ASSUME TokenInv, NEW r \in Requests, NEW q, Update(r, q), Good(q), UNCHANGED shared,
           ~static =>
             /\ Honest(q, cached)
             /\ q.token \in {req[r].token, NoToken, cached}
             /\ q.refused \subseteq req[r].refused \cup {req[r].token}
             /\ q.pc # "store"
    PROVE  TokenInv'
BY Moves, Known DEF shared

LEMMA EnsureKeeps == ASSUME TokenInv, NEW r \in Requests, EnsureToken(r) PROVE TokenInv'
<1>1. /\ req[r] \in Locals /\ Good(req[r]) /\ req[r].pc = "ensure" /\ (~static => Honest(req[r], cached))
      /\ cached \in Tokens \cup {NoToken} /\ UNCHANGED shared
  BY Known DEF EnsureToken
<1>2. PICK q : /\ Update(r, q)
               /\ \/ static /\ q = [req[r] EXCEPT !.pc = "call", !.token = StaticToken]
                  \/ ~static /\ cached # NoToken /\ q = [req[r] EXCEPT !.pc = "call", !.token = cached]
                  \/ ~static /\ q = [req[r] EXCEPT !.pc = "login", !.token = NoToken, !.loginAttempt = 1]
  BY DEF EnsureToken
<1>3. 1 \in 0 .. LoginMaxRetries /\ StaticToken # NoToken
  BY Constants
<1>4. /\ q \in Locals /\ q.pc \in {"call", "login"} /\ q.refused = req[r].refused
      /\ q.calls = req[r].calls /\ q.httpAttempt = req[r].httpAttempt /\ q.authAttempt = req[r].authAttempt
      /\ q.pc = "login" => q.loginAttempt = 1 /\ ~static
      /\ q.pc = "call" => q.token # NoToken
      /\ ~static => q.token \in {cached, NoToken} /\ (q.pc = "call" => q.token = cached)
  <2>1. CASE static /\ q = [req[r] EXCEPT !.pc = "call", !.token = StaticToken]
    BY <1>1, <1>3, <2>1 DEF Locals, Places
  <2>2. CASE ~static /\ cached # NoToken /\ q = [req[r] EXCEPT !.pc = "call", !.token = cached]
    BY <1>1, <2>2 DEF Locals, Places
  <2>3. CASE ~static /\ q = [req[r] EXCEPT !.pc = "login", !.token = NoToken, !.loginAttempt = 1]
    BY <1>1, <1>3, <2>3 DEF Locals, Places
  <2>4. QED
    BY <1>2, <2>1, <2>2, <2>3
<1>5. Good(q)
  BY <1>1, <1>4 DEF Good, Ended
<1>6. ~static => Honest(q, cached)
  BY <1>1, <1>4 DEF Honest, Ended
<1>7. QED
  BY <1>1, <1>2, <1>4, <1>5, <1>6, MovesAlone

LEMMA LoginKeeps ==
    ASSUME TokenInv, NEW r \in Requests, LoginSucceeds(r) \/ LoginFails(r) \/ LoginRefused(r)
    PROVE  TokenInv'
<1>1. /\ req[r] \in Locals /\ Good(req[r]) /\ req[r].pc = "login" /\ (~static => Honest(req[r], cached))
      /\ cached \in Tokens \cup {NoToken}
  BY Known DEF LoginSucceeds, LoginFails, LoginRefused
<1>2. CASE LoginSucceeds(r)
  <2>1. PICK t \in Tokens \ InUse :
          /\ Update(r, [req[r] EXCEPT !.pc = "store", !.token = t, !.loginAttempt = 0])
          /\ revoked' = revoked \ {t}
          /\ UNCHANGED <<static, cached, stale, revocations>>
    BY <1>2 DEF LoginSucceeds
  <2>2. PICK q : q = [req[r] EXCEPT !.pc = "store", !.token = t, !.loginAttempt = 0]
    OBVIOUS
  <2>3. 0 \in 0 .. LoginMaxRetries /\ t # NoToken
    BY Constants
  <2>4. /\ q \in Locals /\ q.pc = "store" /\ q.token = t /\ q.refused = req[r].refused
        /\ q.calls = req[r].calls /\ q.httpAttempt = req[r].httpAttempt /\ q.authAttempt = req[r].authAttempt
    BY <1>1, <2>2, <2>3 DEF Locals, Places
  <2>5. Good(q)
    BY <1>1, <2>3, <2>4 DEF Good, Ended
  <2>6. t \notin req[r].refused
    BY DEF InUse
  <2>7. ~static => Honest(q, cached)
    BY <1>1, <2>4, <2>6 DEF Honest, Ended
  <2>8. QED
    BY <2>1, <2>2, <2>4, <2>5, <2>7, Known, Moves
<1>3. CASE LoginFails(r) \/ LoginRefused(r)
  <2>1. PICK f : f = Fault(req[r])
    OBVIOUS
  <2>2. /\ f \in Locals /\ f.failed /\ f.faults /\ f.calls = req[r].calls /\ f.refused = req[r].refused
    BY <1>1, <2>1 DEF Fault, Locals
  <2>3. CASE Update(r, Leave(f, TRUE)) /\ UNCHANGED shared
    <3>1. f.calls <= MaxHttpRetries + 2
      BY <1>1, <2>2 DEF Good
    <3>2. /\ Good(Leave(f, TRUE)) /\ Leave(f, TRUE).token = NoToken /\ Leave(f, TRUE).refused = f.refused
          /\ Leave(f, TRUE).pc \in Ended /\ Honest(Leave(f, TRUE), cached)
      BY <1>1, <2>2, <3>1, LeaveFacts
    <3>3. QED
      BY <2>2, <2>3, <3>2, MovesAlone DEF Ended
  <2>4. CASE /\ req[r].loginAttempt < LoginMaxRetries /\ UNCHANGED shared
             /\ Update(r, [req[r] EXCEPT !.loginAttempt = @ + 1])
    <3>1. PICK q : q = [req[r] EXCEPT !.loginAttempt = @ + 1]
      OBVIOUS
    <3>2. req[r].loginAttempt + 1 \in 0 .. LoginMaxRetries /\ req[r].loginAttempt + 1 > 0
      BY <1>1, <2>4, Constants DEF Locals
    <3>3. /\ q \in Locals /\ q.pc = "login" /\ q.token = req[r].token /\ q.refused = req[r].refused
          /\ q.loginAttempt > 0
          /\ q.calls = req[r].calls /\ q.httpAttempt = req[r].httpAttempt /\ q.authAttempt = req[r].authAttempt
      BY <1>1, <3>1, <3>2 DEF Locals
    <3>4. Good(q) /\ (~static => Honest(q, cached))
      BY <1>1, <3>3 DEF Good, Honest, Ended
    <3>5. QED
      BY <2>4, <3>1, <3>3, <3>4, MovesAlone
  <2>5. QED
    BY <1>3, <2>1, <2>3, <2>4 DEF LoginFails, LoginRefused
<1>4. QED
  BY <1>2, <1>3

LEMMA StoreKeeps == ASSUME TokenInv, NEW r \in Requests, StoreToken(r) PROVE TokenInv'
<1>1. /\ req[r] \in Locals /\ Good(req[r]) /\ req[r].pc = "store" /\ (~static => Honest(req[r], cached))
      /\ req[r].token \in Tokens /\ ~static
  BY Known DEF StoreToken, Good
<1>2. PICK q : q = Go(req[r], "call")
  OBVIOUS
<1>3. /\ q \in Locals /\ q.pc = "call" /\ q.token = req[r].token /\ q.refused = req[r].refused
      /\ q.calls = req[r].calls /\ q.httpAttempt = req[r].httpAttempt /\ q.authAttempt = req[r].authAttempt
  BY <1>1, <1>2 DEF Go, Locals, Places
<1>4. Good(q) /\ Honest(q, req[r].token)
  BY <1>1, <1>3 DEF Good, Honest, Ended
<1>5. QED
  BY <1>1, <1>2, <1>3, <1>4, Known, Moves DEF StoreToken

LEMMA InvalidateKeeps == ASSUME TokenInv, NEW r \in Requests, Invalidate(r) PROVE TokenInv'
<1>1. /\ req[r] \in Locals /\ Good(req[r]) /\ req[r].pc = "invalidate" /\ (~static => Honest(req[r], cached))
  BY Known DEF Invalidate
<1>2. PICK q : q = Again(req[r])
  OBVIOUS
<1>3. req[r].authAttempt = 0 /\ req[r].calls = req[r].httpAttempt + 1
      /\ req[r].httpAttempt \in 0 .. MaxHttpRetries
  BY <1>1 DEF Good, Locals
<1>4. /\ q \in Locals /\ q.pc = "ensure" /\ q.token = req[r].token /\ q.refused = req[r].refused
      /\ q.calls = req[r].calls /\ q.httpAttempt = req[r].httpAttempt /\ q.authAttempt = 1
  <2>1. q = [req[r] EXCEPT !.pc = "ensure", !.authAttempt = 1]
    BY <1>2, <1>3 DEF Again
  <2>2. QED
    BY <1>1, <2>1 DEF Locals, Places
<1>5. Good(q)
  BY <1>1, <1>3, <1>4, Constants DEF Good, Ended
<1>6. ~static => Honest(q, NoToken)
  <2>1. ~static => req[r].refused = {req[r].token} /\ req[r].token # NoToken
                   /\ req[r].token \in Tokens \cup {StaticToken}
    BY <1>1 DEF Honest, Good, Locals
  <2>2. QED
    BY <1>4, <2>1 DEF Honest, Ended
<1>7. QED
  BY <1>1, <1>2, <1>4, <1>5, <1>6, Known, Moves DEF Invalidate

\* The answers to a call: q is what the request knows of it.
LEMMA CallKeeps ==
    ASSUME TokenInv, NEW r \in Requests,
           CallFails(r) \/ CallRefused(r) \/ TokenRefused(r) \/ CallAccepted(r)
    PROVE  TokenInv'
<1>1. /\ req[r] \in Locals /\ Good(req[r]) /\ req[r].pc = "call" /\ (~static => Honest(req[r], cached))
      /\ cached \in Tokens \cup {NoToken} /\ static \in BOOLEAN
      /\ req[r].token \in Tokens \cup {StaticToken} /\ req[r].refused \subseteq Tokens \cup {StaticToken}
      /\ req[r].authAttempt \in {0, 1}
      /\ UNCHANGED shared
  BY Known DEF CallFails, CallRefused, TokenRefused, CallAccepted, Good, Locals
<1>2. PICK c : c = Called(req[r])
  OBVIOUS
<1>3. /\ c \in Locals /\ c.calls = c.httpAttempt + c.authAttempt + 1 /\ c.calls <= MaxHttpRetries + 2
      /\ c.mode = req[r].mode /\ c.pc = "call" /\ c.token = req[r].token
      /\ c.httpAttempt = req[r].httpAttempt /\ c.authAttempt = req[r].authAttempt
      /\ c.refused = req[r].refused /\ c.faults = req[r].faults
  BY <1>1, <1>2, CalledFacts
<1>4. /\ ~static => cached \notin c.refused /\ c.token \notin c.refused
      /\ ~static /\ c.authAttempt = 0 => c.refused = {}
      /\ ~static /\ c.authAttempt = 1 => \E t \in Tokens \cup {StaticToken} : c.refused = {t}
  BY <1>1, <1>3 DEF Honest, Ended
<1>5. CASE CallFails(r) \/ CallRefused(r)
  <2>1. PICK f : f = Fault(c)
    OBVIOUS
  <2>2. /\ f \in Locals /\ f.failed /\ f.faults /\ f.refused = c.refused /\ f.token = c.token
        /\ f.calls = f.httpAttempt + f.authAttempt + 1 /\ f.calls <= MaxHttpRetries + 2
        /\ f.authAttempt = c.authAttempt
    BY <1>3, <2>1 DEF Fault, Locals
  <2>3. CASE Update(r, RetryOrLeave(f))
    <3>1. /\ Good(RetryOrLeave(f)) /\ RetryOrLeave(f).token \in {f.token, NoToken}
          /\ RetryOrLeave(f).refused = f.refused /\ RetryOrLeave(f).pc \in {"ensure"} \cup Ended
          /\ ~static => Honest(RetryOrLeave(f), cached)
      BY <1>1, <1>4, <2>2, RetryFacts
    <3>2. QED
      BY <1>1, <1>3, <2>2, <2>3, <3>1, MovesAlone DEF Ended
  <2>4. CASE Update(r, Leave(f, TRUE))
    <3>1. /\ Good(Leave(f, TRUE)) /\ Leave(f, TRUE).token = NoToken
          /\ Leave(f, TRUE).refused = f.refused /\ Leave(f, TRUE).pc \in Ended
          /\ Honest(Leave(f, TRUE), cached)
      BY <1>1, <2>2, LeaveFacts
    <3>2. QED
      BY <1>1, <1>3, <2>2, <2>4, <3>1, MovesAlone DEF Ended
  <2>5. QED
    BY <1>2, <1>5, <2>1, <2>3, <2>4 DEF CallFails, CallRefused
<1>6. CASE TokenRefused(r)
  <2>1. PICK f : f = Refused(req[r])
    OBVIOUS
  <2>2. f = [c EXCEPT !.failed = TRUE, !.refused = @ \cup {req[r].token}]
    BY <1>2, <2>1 DEF Refused
  <2>3. c.refused \cup {c.token} \in SUBSET (Tokens \cup {StaticToken})
    BY <1>1, <1>3
  <2>4. /\ f \in Locals /\ f.failed /\ f.faults = c.faults /\ f.refused = c.refused \cup {c.token}
        /\ f.token = c.token /\ f.calls = c.calls /\ f.httpAttempt = c.httpAttempt
        /\ f.authAttempt = c.authAttempt
    BY <1>3, <2>2, <2>3 DEF Locals
  <2>5. CASE ~static /\ req[r].authAttempt < 1
    <3>1. PICK q : q = Go(f, "invalidate")
      OBVIOUS
    <3>2. c.authAttempt = 0
      BY <1>1, <1>3, <2>5
    <3>3. /\ q \in Locals /\ q.pc = "invalidate" /\ q.refused = c.refused \cup {c.token} /\ q.token = c.token
          /\ q.calls = c.calls /\ q.httpAttempt = c.httpAttempt /\ q.authAttempt = 0
      BY <2>4, <3>1, <3>2 DEF Go, Locals, Places
    <3>4. Good(q)
      <4>1. q.token # NoToken /\ q.httpAttempt \in Nat
        BY <1>1, <1>3, <3>3, Constants DEF Locals
      <4>2. QED
        BY <1>3, <3>2, <3>3, <4>1 DEF Good, Ended
    <3>5. Honest(q, cached)
      BY <1>4, <2>5, <3>2, <3>3 DEF Honest, Ended
    <3>6. Update(r, q)
      BY <1>6, <2>1, <2>5, <3>1 DEF TokenRefused
    <3>7. QED
      BY <1>1, <1>3, <3>3, <3>4, <3>5, <3>6, MovesAlone
  <2>6. CASE static \/ req[r].authAttempt >= 1
    <3>1. Update(r, Leave(f, TRUE))
      <4>1. req[r].authAttempt >= 1 => ~(req[r].authAttempt < 1)
        BY <1>1
      <4>2. Update(r, IF ~static /\ req[r].authAttempt < 1 THEN Go(f, "invalidate") ELSE Leave(f, TRUE))
        BY <1>6, <2>1 DEF TokenRefused
      <4>3. QED
        BY <2>6, <4>1, <4>2
    <3>2. f.calls <= MaxHttpRetries + 2
      BY <1>3, <2>4
    <3>3. ~static => Cardinality(f.refused) >= 2
      <4>1. ~static => c.authAttempt = 1
        BY <1>1, <1>3, <2>6
      <4>2. ~static => \E t \in Tokens \cup {StaticToken} : c.refused = {t} /\ t # c.token
        BY <1>4, <4>1
      <4>3. QED
        BY <2>4, <4>2, TwoRefused
    <3>4. /\ Good(Leave(f, TRUE)) /\ Leave(f, TRUE).token = NoToken
          /\ Leave(f, TRUE).refused = f.refused /\ Leave(f, TRUE).pc \in Ended
          /\ ~static => Honest(Leave(f, TRUE), cached)
      BY <1>1, <2>4, <3>2, <3>3, LeaveFacts
    <3>5. QED
      BY <1>1, <1>3, <2>4, <3>1, <3>4, MovesAlone DEF Ended
  <2>7. QED
    BY <1>1, <2>5, <2>6
<1>7. CASE CallAccepted(r)
  <2>1. PICK q : q = [c EXCEPT !.failed = FALSE]
    OBVIOUS
  <2>2. /\ q \in Locals /\ ~q.failed /\ q.refused = c.refused /\ q.token = c.token
        /\ q.calls = c.calls /\ q.httpAttempt = c.httpAttempt /\ q.authAttempt = c.authAttempt
    BY <1>3, <2>1 DEF Locals
  <2>3. Update(r, IF q.mode = "stream" THEN Go(q, "stream") ELSE Leave(q, FALSE))
    BY <1>2, <1>7, <2>1 DEF CallAccepted
  <2>4. CASE Update(r, Go(q, "stream"))
    <3>1. PICK p : p = Go(q, "stream")
      OBVIOUS
    <3>2. /\ p \in Locals /\ p.pc = "stream" /\ p.token = c.token /\ p.refused = c.refused /\ ~p.failed
          /\ p.calls = c.calls /\ p.httpAttempt = c.httpAttempt /\ p.authAttempt = c.authAttempt
      BY <2>2, <3>1 DEF Go, Locals, Places
    <3>3. Good(p)
      <4>1. p.token # NoToken
        BY <1>1, <1>3, <3>2, Constants
      <4>2. QED
        BY <1>3, <3>2, <4>1 DEF Good, Ended
    <3>4. ~static => Honest(p, cached)
      BY <1>4, <3>2 DEF Honest, Ended
    <3>5. QED
      BY <1>1, <1>3, <2>4, <3>1, <3>2, <3>3, <3>4, MovesAlone
  <2>5. CASE Update(r, Leave(q, FALSE))
    <3>1. /\ Good(Leave(q, FALSE)) /\ Leave(q, FALSE).token = NoToken
          /\ Leave(q, FALSE).refused = q.refused /\ Leave(q, FALSE).pc \in Ended
          /\ Honest(Leave(q, FALSE), cached)
      BY <1>1, <1>3, <2>2, LeaveFacts
    <3>2. QED
      BY <1>1, <1>3, <2>2, <2>5, <3>1, MovesAlone DEF Ended
  <2>6. QED
    BY <2>3, <2>4, <2>5
<1>8. QED
  BY <1>5, <1>6, <1>7

LEMMA StreamKeeps ==
    ASSUME TokenInv, NEW r \in Requests, StreamEnds(r) \/ StreamBreaks(r)
    PROVE  TokenInv'
<1>1. /\ req[r] \in Locals /\ Good(req[r]) /\ req[r].pc = "stream" /\ (~static => Honest(req[r], cached))
      /\ cached \in Tokens \cup {NoToken} /\ UNCHANGED shared
  BY Known DEF StreamEnds, StreamBreaks
<1>2. PICK tool \in BOOLEAN :
        \/ RetryTool(r, [req[r] EXCEPT !.hadTool = @ \/ tool])
        \/ Update(r, Leave([req[r] EXCEPT !.hadTool = @ \/ tool], FALSE))
        \/ Update(r, RetryOrLeave(Fault([req[r] EXCEPT !.hadTool = @ \/ tool])))
  BY DEF StreamEnds, StreamBreaks
<1>2a. PICK q : q = [req[r] EXCEPT !.hadTool = @ \/ tool]
  OBVIOUS
<1>3. /\ q \in Locals /\ ~q.failed /\ q.refused = req[r].refused /\ q.token = req[r].token
      /\ q.calls = q.httpAttempt + q.authAttempt + 1 /\ q.calls <= MaxHttpRetries + 2
      /\ q.authAttempt = req[r].authAttempt
  BY <1>1, <1>2, <1>2a DEF Good, Locals
<1>4. /\ ~static => cached \notin q.refused
      /\ ~static /\ q.authAttempt = 0 => q.refused = {}
      /\ ~static /\ q.authAttempt = 1 => \E t \in Tokens \cup {StaticToken} : q.refused = {t}
  BY <1>1, <1>3 DEF Honest, Ended
<1>5. CASE RetryTool(r, q)
  <2>1. PICK p : p = [Fresh(q.mode) EXCEPT !.toolAttempt = q.toolAttempt + 1]
    OBVIOUS
  <2>2. /\ q.mode \in {"stream", "plain"}
        /\ q.toolAttempt + 1 \in 0 .. MaxToolAttempts - 1
    BY <1>3, <1>5, Constants DEF RetryTool, Locals
  <2>3. Good(p) /\ Honest(p, cached) /\ p.pc = "ensure" /\ p.token = NoToken /\ p.refused = {}
    BY <1>1, <2>1, <2>2, FreshFacts
  <2>4. QED
    BY <1>1, <1>5, <2>1, <2>3, MovesAlone DEF RetryTool
<1>6. CASE Update(r, Leave(q, FALSE))
  <2>1. /\ Good(Leave(q, FALSE)) /\ Leave(q, FALSE).token = NoToken
        /\ Leave(q, FALSE).refused = q.refused /\ Leave(q, FALSE).pc \in Ended
        /\ Honest(Leave(q, FALSE), cached)
    BY <1>1, <1>3, LeaveFacts
  <2>2. QED
    BY <1>1, <1>3, <1>6, <2>1, MovesAlone DEF Ended
<1>7. CASE Update(r, RetryOrLeave(Fault(q)))
  <2>1. PICK f : f = Fault(q)
    OBVIOUS
  <2>2. /\ f \in Locals /\ f.failed /\ f.faults /\ f.refused = q.refused /\ f.token = q.token
        /\ f.calls = f.httpAttempt + f.authAttempt + 1 /\ f.authAttempt = q.authAttempt
    BY <1>3, <2>1 DEF Fault, Locals
  <2>3. /\ Good(RetryOrLeave(f)) /\ RetryOrLeave(f).token \in {f.token, NoToken}
        /\ RetryOrLeave(f).refused = f.refused /\ RetryOrLeave(f).pc \in {"ensure"} \cup Ended
        /\ ~static => Honest(RetryOrLeave(f), cached)
    BY <1>1, <1>4, <2>2, RetryFacts
  <2>4. QED
    BY <1>1, <1>3, <1>7, <2>1, <2>2, <2>3, MovesAlone DEF Ended
<1>8. QED
  BY <1>2, <1>2a, <1>5, <1>6, <1>7

LEMMA HangUpKeeps == ASSUME TokenInv, NEW r \in Requests, HangUp(r) PROVE TokenInv'
<1> DEFINE q == Go(Fresh(req[r].mode), "gone")
<1>1. req[r] \in Locals /\ cached \in Tokens \cup {NoToken} /\ UNCHANGED shared /\ Update(r, q)
  BY Known DEF HangUp
<1>2. req[r].mode \in {"stream", "plain"} /\ 0 \in 0 .. MaxToolAttempts - 1
  BY <1>1, Constants DEF Locals
<1>3. PICK f : f = Fresh(req[r].mode)
  OBVIOUS
<1>4. Good(f) /\ f \in Locals /\ f.token = NoToken /\ f.refused = {} /\ f.calls = 0 /\ ~f.failed
  BY <1>1, <1>2, <1>3, FreshFacts DEF Good, Fresh
<1>5. q = [f EXCEPT !.pc = "gone"]
  BY <1>3 DEF Go
<1>6. /\ q \in Locals /\ q.pc = "gone" /\ q.token = NoToken /\ q.refused = {}
      /\ q.calls = 0 /\ ~q.failed
  BY <1>4, <1>5 DEF Locals, Places
<1> HIDE DEF q
<1>7. Good(q) /\ Honest(q, cached)
  BY <1>6, Constants DEF Good, Honest, Ended
<1>8. QED
  BY <1>1, <1>6, <1>7, MovesAlone

LEMMA StepToken == TokenInv /\ [Next]_vars => TokenInv'
<1> SUFFICES ASSUME TokenInv, [Next]_vars PROVE TokenInv'
  OBVIOUS
<1>1. CASE \E r \in Requests : RequestStep(r) \/ HangUp(r)
  BY <1>1, EnsureKeeps, LoginKeeps, StoreKeeps, InvalidateKeeps, CallKeeps, StreamKeeps,
     HangUpKeeps DEF RequestStep
<1>2. CASE Age \/ Revoke \/ UNCHANGED vars
  <2>1. /\ UNCHANGED <<static, cached, req>> /\ stale' \in BOOLEAN /\ revoked' \subseteq Tokens
        /\ revocations' \in 0 .. MaxRevocations
    <3>1. CASE Age \/ UNCHANGED vars
      BY <3>1 DEF Age, vars, TokenInv, Shared
    <3>2. CASE Revoke
      <4>1. /\ UNCHANGED <<static, cached, stale, req>> /\ revoked' \subseteq Tokens
            /\ revocations' = revocations + 1 /\ revocations < MaxRevocations
        BY <3>2 DEF Revoke, TokenInv, Shared
      <4>2. QED
        BY <4>1, Constants DEF TokenInv, Shared
    <3>3. QED
      BY <1>2, <3>1, <3>2
  <2>2. QED
    BY <2>1 DEF TokenInv, Shared, Good, Honest, Apart
<1>3. QED
  BY <1>1, <1>2 DEF Next

\* puter.rs: every variable stays in its domain, and no request calls without a
\* token.
THEOREM TypeCorrect == Spec => []TypeOK
BY InitToken, StepToken, Implied, PTL DEF Spec

\* puter.rs 258-272 and 932-960: with credentials, a request that met nothing
\* worse than refused tokens gives up only after two different ones, however
\* many others renew and drop the shared token meanwhile.
THEOREM RevocationIsSurvived == Spec => []RevocationSurvived
BY InitToken, StepToken, Implied, PTL DEF Spec

\* puter.rs 596-735: an answer ends as an error exactly if its last attempt failed.
THEOREM OnlyTheLastErrorCounts == Spec => []ErrorIsTheLast
BY InitToken, StepToken, Implied, PTL DEF Spec

\* puter.rs 596-735: a tool attempt makes at most max_http_retries + 2 calls,
\* whatever fails in which order.
THEOREM CallsAreBounded == Spec => []CallsBounded
BY InitToken, StepToken, Implied, PTL DEF Spec

(* ---------------------- no request retries for ever ---------------------- *)

\* What the three loops of a request may still do, the innermost last: further
\* tool attempts, further calls within this one, and steps until the next call
\* is answered.
ToolsLeft(q) == MaxToolAttempts - 1 - q.toolAttempt
RoundsLeft(q) == MaxHttpRetries + 1 - (q.httpAttempt + q.authAttempt)
PlaceLeft(q) ==
    CASE q.pc = "ensure" -> LoginMaxRetries + 4
      [] q.pc = "login" -> LoginMaxRetries - q.loginAttempt + 4
      [] q.pc = "store" -> 3
      [] q.pc = "call" -> 2
      [] OTHER -> 1

\* More than the steps of one call with its login; more than the calls of one
\* tool attempt.
RoundSteps == LoginMaxRetries + 5
ToolRounds == MaxHttpRetries + 2

StepsLeft(q) ==
    IF q.pc \in Ended THEN 0
    ELSE (ToolsLeft(q) * ToolRounds + RoundsLeft(q)) * RoundSteps + PlaceLeft(q)

\* Each step of a request uses up one of those it has left at least, and nobody
\* else's step gives it new ones.
StepsSpent == [][\A r \in Requests : req'[r] # req[r] => StepsLeft(req'[r]) < StepsLeft(req[r])]_vars

\* What a request has left is never more than this.
StepsBounded ==
    \A r \in Requests : StepsLeft(req[r]) \in 0 .. MaxToolAttempts * ToolRounds * RoundSteps - 1

\* Digits of a number: the more significant decides.
LEMMA Digits ==
    ASSUME NEW w \in Nat, NEW a \in Nat, NEW b \in Nat, NEW x \in Nat, NEW y \in Nat, a < b, x < w
    PROVE  a * w + x < b * w + y
<1>1. PICK d \in Nat : b = a + 1 + d
  <2>1. b - a - 1 \in Nat /\ b = a + 1 + (b - a - 1)
    OBVIOUS
  <2>2. QED
    BY <2>1
<1>2. b * w = a * w + w + d * w
  BY <1>1
<1>3. a * w \in Nat /\ d * w \in Nat
  OBVIOUS
<1>4. QED
  BY <1>2, <1>3

LEMMA LeftTyped ==
    ASSUME NEW q \in Locals
    PROVE  /\ ToolsLeft(q) \in Nat /\ ToolsLeft(q) < MaxToolAttempts
           /\ RoundsLeft(q) \in Nat /\ RoundsLeft(q) < ToolRounds /\ ToolRounds \in Nat
           /\ PlaceLeft(q) \in Nat /\ 0 < PlaceLeft(q) /\ PlaceLeft(q) < RoundSteps /\ RoundSteps \in Nat
           /\ ToolsLeft(q) * ToolRounds + RoundsLeft(q) \in Nat
           /\ StepsLeft(q) \in Nat /\ (q.pc \notin Ended => 0 < StepsLeft(q))
<1>1. /\ q.toolAttempt \in 0 .. MaxToolAttempts - 1 /\ q.httpAttempt \in 0 .. MaxHttpRetries
      /\ q.authAttempt \in {0, 1} /\ q.loginAttempt \in 0 .. LoginMaxRetries
  BY DEF Locals
<1>2. ToolsLeft(q) \in Nat /\ ToolsLeft(q) < MaxToolAttempts
  BY <1>1, Constants DEF ToolsLeft
<1>3. RoundsLeft(q) \in Nat /\ RoundsLeft(q) < ToolRounds /\ ToolRounds \in Nat
  BY <1>1, Constants DEF RoundsLeft, ToolRounds
<1>4. PlaceLeft(q) \in Nat /\ 0 < PlaceLeft(q) /\ PlaceLeft(q) < RoundSteps /\ RoundSteps \in Nat
  BY <1>1, Constants DEF PlaceLeft, RoundSteps
<1>5. ToolsLeft(q) * ToolRounds \in Nat
  BY <1>2, <1>3
<1>6. ToolsLeft(q) * ToolRounds + RoundsLeft(q) \in Nat
  BY <1>3, <1>5
<1>7. (ToolsLeft(q) * ToolRounds + RoundsLeft(q)) * RoundSteps \in Nat
  BY <1>4, <1>6
<1>8. QED
  BY <1>2, <1>3, <1>4, <1>6, <1>7 DEF StepsLeft

LEMMA Closer ==
    ASSUME NEW q \in Locals, NEW p \in Locals, q.pc \notin Ended,
           \/ p.pc \in Ended
           \/ p.toolAttempt > q.toolAttempt
           \/ /\ p.toolAttempt = q.toolAttempt
              /\ p.httpAttempt + p.authAttempt > q.httpAttempt + q.authAttempt
           \/ /\ p.toolAttempt = q.toolAttempt
              /\ p.httpAttempt = q.httpAttempt /\ p.authAttempt = q.authAttempt
              /\ PlaceLeft(p) < PlaceLeft(q)
    PROVE  StepsLeft(p) < StepsLeft(q)
<1>1. CASE p.pc \in Ended
  BY <1>1, LeftTyped DEF StepsLeft
<1>2. ASSUME p.pc \notin Ended PROVE StepsLeft(p) < StepsLeft(q)
  <2> DEFINE a == ToolsLeft(p) * ToolRounds + RoundsLeft(p)
             b == ToolsLeft(q) * ToolRounds + RoundsLeft(q)
  <2>1. /\ q.toolAttempt \in Nat /\ q.httpAttempt \in Nat /\ q.authAttempt \in Nat
        /\ p.toolAttempt \in Nat /\ p.httpAttempt \in Nat /\ p.authAttempt \in Nat
    BY Constants DEF Locals
  <2>2. StepsLeft(p) = a * RoundSteps + PlaceLeft(p) /\ StepsLeft(q) = b * RoundSteps + PlaceLeft(q)
    BY <1>2 DEF StepsLeft
  <2>3. /\ a \in Nat /\ b \in Nat /\ RoundSteps \in Nat /\ PlaceLeft(p) \in Nat /\ PlaceLeft(q) \in Nat
        /\ PlaceLeft(p) < RoundSteps
    BY LeftTyped
  <2>4. a < b => StepsLeft(p) < StepsLeft(q)
    <3> HIDE DEF a, b
    <3>1. QED
      BY <2>2, <2>3, Digits
  <2>5. CASE p.toolAttempt > q.toolAttempt
    <3>1. ToolsLeft(p) < ToolsLeft(q)
      BY <2>1, <2>5, Constants DEF ToolsLeft
    <3>2. a < b
      BY <3>1, LeftTyped, Digits
    <3>3. QED
      BY <2>4, <3>2
  <2>6. CASE /\ p.toolAttempt = q.toolAttempt
             /\ p.httpAttempt + p.authAttempt > q.httpAttempt + q.authAttempt
    <3>1. ToolsLeft(p) = ToolsLeft(q) /\ RoundsLeft(p) < RoundsLeft(q)
      BY <2>1, <2>6, Constants DEF ToolsLeft, RoundsLeft
    <3>2. ToolsLeft(q) * ToolRounds \in Nat
      BY LeftTyped
    <3>3. a < b
      BY <3>1, <3>2, LeftTyped
    <3>4. QED
      BY <2>4, <3>3
  <2>7. CASE /\ p.toolAttempt = q.toolAttempt
             /\ p.httpAttempt = q.httpAttempt /\ p.authAttempt = q.authAttempt
             /\ PlaceLeft(p) < PlaceLeft(q)
    <3>1. a = b
      BY <2>7 DEF ToolsLeft, RoundsLeft
    <3>2. a * RoundSteps \in Nat
      <4> HIDE DEF a
      <4>1. QED
        BY <2>3
    <3>3. QED
      <4> HIDE DEF a, b
      <4>1. QED
        BY <2>2, <2>3, <2>7, <3>1, <3>2
  <2>8. QED
    BY <1>2, <2>5, <2>6, <2>7
<1>3. QED
  BY <1>1, <1>2

\* Another call uses up a round.
LEMMA RetryCloser ==
    ASSUME NEW q \in Locals, NEW f \in Locals, q.pc \notin Ended, RetryOrLeave(f) \in Locals,
           f.toolAttempt = q.toolAttempt, f.httpAttempt = q.httpAttempt, f.authAttempt = q.authAttempt
    PROVE  StepsLeft(RetryOrLeave(f)) < StepsLeft(q)
<1>1. CASE f.mode = "stream" /\ f.httpAttempt < MaxHttpRetries
  <2> DEFINE p == [f EXCEPT !.pc = "ensure", !.lastError = TRUE, !.httpAttempt = @ + 1]
  <2>1. RetryOrLeave(f) = p
    BY <1>1 DEF RetryOrLeave
  <2>2. /\ p.toolAttempt = q.toolAttempt /\ p.httpAttempt = q.httpAttempt + 1
        /\ p.authAttempt = q.authAttempt /\ q.httpAttempt \in Nat /\ q.authAttempt \in Nat
    BY Constants DEF Locals
  <2>3. p.httpAttempt + p.authAttempt > q.httpAttempt + q.authAttempt
    BY <2>2
  <2> HIDE DEF p
  <2>4. QED
    BY <2>1, <2>2, <2>3, Closer
<1>2. CASE ~(f.mode = "stream" /\ f.httpAttempt < MaxHttpRetries)
  <2>1. RetryOrLeave(f) = Leave(f, TRUE)
    BY <1>2 DEF RetryOrLeave
  <2>2. Leave(f, TRUE).pc \in Ended
    BY DEF Leave, Fresh, Ended
  <2>3. QED
    BY <2>1, <2>2, Closer
<1>3. QED
  BY <1>1, <1>2

\* One step of a request: q is what it was, p what it is now.
LEMMA StepSpends ==
    ASSUME TokenInv, TokenInv', NEW r \in Requests, RequestStep(r) \/ HangUp(r)
    PROVE  /\ StepsLeft(req'[r]) < StepsLeft(req[r])
           /\ \A s \in Requests \ {r} : req'[s] = req[s]
<1> DEFINE q == req[r]
           p == req'[r]
<1>1. /\ req \in [Requests -> Locals] /\ q \in Locals /\ p \in Locals /\ Good(q)
  BY DEF TokenInv, Shared
<1>2. \A x : Update(r, x) => p = x /\ \A s \in Requests \ {r} : req'[s] = req[s]
  BY <1>1 DEF Update
<1>3. /\ q.httpAttempt \in Nat /\ q.authAttempt \in {0, 1} /\ q.toolAttempt \in Nat
      /\ q.loginAttempt \in 0 .. LoginMaxRetries /\ LoginMaxRetries \in Nat \ {0}
  BY <1>1, Constants DEF Locals
<1>4. \A s \in Requests \ {r} : req'[s] = req[s]
  BY <1>2 DEF HangUp, RequestStep, EnsureToken, LoginSucceeds, LoginFails, LoginRefused, StoreToken, CallFails,
              CallRefused, TokenRefused, Invalidate, CallAccepted, StreamEnds, StreamBreaks, RetryTool
<1>5. CASE EnsureToken(r)
  <2>1. /\ q.pc = "ensure" /\ p.pc \in {"call", "login"} /\ (p.pc = "login" => p.loginAttempt = 1)
        /\ p.toolAttempt = q.toolAttempt /\ p.httpAttempt = q.httpAttempt /\ p.authAttempt = q.authAttempt
    <3>1. PICK x : /\ Update(r, x)
                   /\ \/ x = [q EXCEPT !.pc = "call", !.token = StaticToken]
                      \/ x = [q EXCEPT !.pc = "call", !.token = cached]
                      \/ x = [q EXCEPT !.pc = "login", !.token = NoToken, !.loginAttempt = 1]
      BY <1>5 DEF EnsureToken
    <3>2. p = x
      BY <1>2, <3>1
    <3>3. QED
      BY <1>1, <1>5, <3>1, <3>2 DEF EnsureToken, Locals
  <2>2. PlaceLeft(p) < PlaceLeft(q)
    BY <1>3, <2>1 DEF PlaceLeft
  <2>3. QED
    BY <1>1, <1>4, <2>1, <2>2, Closer DEF Ended
<1>6. CASE LoginSucceeds(r)
  <2>1. PICK t : p = [q EXCEPT !.pc = "store", !.token = t, !.loginAttempt = 0]
    BY <1>2, <1>6 DEF LoginSucceeds
  <2>2. /\ q.pc = "login" /\ p.pc = "store"
        /\ p.toolAttempt = q.toolAttempt /\ p.httpAttempt = q.httpAttempt /\ p.authAttempt = q.authAttempt
    BY <1>1, <1>6, <2>1 DEF LoginSucceeds, Locals
  <2>3. PlaceLeft(p) < PlaceLeft(q)
    BY <1>3, <2>2 DEF PlaceLeft
  <2>4. QED
    BY <1>1, <1>4, <2>2, <2>3, Closer DEF Ended
<1>7. CASE LoginFails(r) \/ LoginRefused(r)
  <2>1. q.pc = "login"
    BY <1>7 DEF LoginFails, LoginRefused
  <2>2. CASE p = Leave(Fault(q), TRUE)
    <3>1. p.pc \in Ended
      BY <2>2 DEF Leave, Fresh, Ended
    <3>2. QED
      BY <1>1, <1>4, <2>1, <3>1, Closer DEF Ended
  <2>3. CASE p = [q EXCEPT !.loginAttempt = @ + 1]
    <3>1. /\ p.pc = "login" /\ p.loginAttempt = q.loginAttempt + 1
          /\ p.toolAttempt = q.toolAttempt /\ p.httpAttempt = q.httpAttempt /\ p.authAttempt = q.authAttempt
      BY <1>1, <2>1, <2>3 DEF Locals
    <3>2. PlaceLeft(p) < PlaceLeft(q)
      BY <1>3, <2>1, <3>1 DEF PlaceLeft
    <3>3. QED
      BY <1>1, <1>4, <2>1, <3>1, <3>2, Closer DEF Ended
  <2>4. QED
    BY <1>2, <1>7, <2>2, <2>3 DEF LoginFails, LoginRefused
<1>8. CASE StoreToken(r)
  <2>1. q.pc = "store" /\ p = Go(q, "call")
    BY <1>2, <1>8 DEF StoreToken
  <2>2. /\ p.pc = "call"
        /\ p.toolAttempt = q.toolAttempt /\ p.httpAttempt = q.httpAttempt /\ p.authAttempt = q.authAttempt
    BY <1>1, <2>1 DEF Go, Locals
  <2>3. PlaceLeft(p) < PlaceLeft(q)
    BY <2>1, <2>2 DEF PlaceLeft
  <2>4. QED
    BY <1>1, <1>4, <2>1, <2>2, <2>3, Closer DEF Ended
<1>9. CASE CallFails(r) \/ CallRefused(r) \/ TokenRefused(r) \/ CallAccepted(r)
  <2>1. q.pc = "call"
    BY <1>9 DEF CallFails, CallRefused, TokenRefused, CallAccepted
  <2>2. PICK c : c = Called(q)
    OBVIOUS
  <2>3. /\ c \in Locals /\ c.toolAttempt = q.toolAttempt
        /\ c.httpAttempt = q.httpAttempt /\ c.authAttempt = q.authAttempt
    BY <1>1, <2>1, <2>2, CalledFacts
  <2>4. CASE p = RetryOrLeave(Fault(c))
    <3>1. /\ Fault(c) \in Locals /\ Fault(c).toolAttempt = q.toolAttempt
          /\ Fault(c).httpAttempt = q.httpAttempt /\ Fault(c).authAttempt = q.authAttempt
      BY <2>3 DEF Fault, Locals
    <3>2. QED
      BY <1>1, <1>4, <2>1, <2>4, <3>1, RetryCloser DEF Ended
  <2>5. CASE p.pc \in Ended
    BY <1>1, <1>4, <2>1, <2>5, Closer DEF Ended
  <2>6. CASE \E f \in Locals : /\ p = Go(f, "invalidate") \/ p = Go(f, "stream")
                               /\ f.toolAttempt = q.toolAttempt
                               /\ f.httpAttempt = q.httpAttempt /\ f.authAttempt = q.authAttempt
    <3>1. /\ p.pc \in {"invalidate", "stream"}
          /\ p.toolAttempt = q.toolAttempt /\ p.httpAttempt = q.httpAttempt /\ p.authAttempt = q.authAttempt
      BY <2>6 DEF Go, Locals
    <3>2. PlaceLeft(p) < PlaceLeft(q)
      BY <2>1, <3>1 DEF PlaceLeft
    <3>3. QED
      BY <1>1, <1>4, <2>1, <3>1, <3>2, Closer DEF Ended
  <2>7. CASE CallFails(r) \/ CallRefused(r)
    <3>1. p = RetryOrLeave(Fault(c)) \/ p = Leave(Fault(c), TRUE)
      BY <1>2, <2>2, <2>7 DEF CallFails, CallRefused
    <3>2. Leave(Fault(c), TRUE).pc \in Ended
      BY DEF Leave, Fresh, Ended
    <3>3. QED
      BY <2>4, <2>5, <3>1, <3>2
  <2>8. CASE TokenRefused(r)
    <3>1. PICK f : f = Refused(q)
      OBVIOUS
    <3>2. p = Go(f, "invalidate") \/ p = Leave(f, TRUE)
      BY <1>2, <2>8, <3>1 DEF TokenRefused
    <3>3. Leave(f, TRUE).pc \in Ended
      BY DEF Leave, Fresh, Ended
    <3>4. f = [c EXCEPT !.failed = TRUE, !.refused = @ \cup {q.token}]
      BY <2>2, <3>1 DEF Refused
    <3>5. q.token \in Tokens \cup {StaticToken} /\ c.refused \subseteq Tokens \cup {StaticToken}
      BY <1>1, <2>1, <2>3 DEF Good, Locals
    <3>6. /\ f \in Locals /\ f.toolAttempt = q.toolAttempt
          /\ f.httpAttempt = q.httpAttempt /\ f.authAttempt = q.authAttempt
      BY <2>3, <3>4, <3>5 DEF Locals
    <3>7. QED
      BY <2>5, <2>6, <3>2, <3>3, <3>6
  <2>9. CASE CallAccepted(r)
    <3>1. PICK f : f = [c EXCEPT !.failed = FALSE]
      OBVIOUS
    <3>2. p = Go(f, "stream") \/ p = Leave(f, FALSE)
      BY <1>2, <2>2, <2>9, <3>1 DEF CallAccepted
    <3>3. Leave(f, FALSE).pc \in Ended
      BY DEF Leave, Fresh, Ended
    <3>4. /\ f \in Locals /\ f.toolAttempt = q.toolAttempt
          /\ f.httpAttempt = q.httpAttempt /\ f.authAttempt = q.authAttempt
      BY <2>3, <3>1 DEF Locals
    <3>5. QED
      BY <2>5, <2>6, <3>2, <3>3, <3>4
  <2>10. QED
    BY <1>9, <2>7, <2>8, <2>9
<1>10. CASE Invalidate(r)
  <2>1. q.pc = "invalidate" /\ p = Again(q)
    BY <1>2, <1>10 DEF Invalidate
  <2>2. /\ p.toolAttempt = q.toolAttempt /\ p.httpAttempt = q.httpAttempt
        /\ p.authAttempt = q.authAttempt + 1
    BY <1>1, <2>1 DEF Again, Locals
  <2>3. p.httpAttempt + p.authAttempt > q.httpAttempt + q.authAttempt
    BY <1>3, <2>2
  <2>4. QED
    BY <1>1, <1>4, <2>1, <2>2, <2>3, Closer DEF Ended
<1>11. CASE StreamEnds(r) \/ StreamBreaks(r)
  <2>1. q.pc = "stream"
    BY <1>11 DEF StreamEnds, StreamBreaks
  <2>2. PICK tool \in BOOLEAN :
          \/ RetryTool(r, [q EXCEPT !.hadTool = @ \/ tool])
          \/ Update(r, Leave([q EXCEPT !.hadTool = @ \/ tool], FALSE))
          \/ Update(r, RetryOrLeave(Fault([q EXCEPT !.hadTool = @ \/ tool])))
    BY <1>11 DEF StreamEnds, StreamBreaks
  <2>3. PICK h : h = [q EXCEPT !.hadTool = @ \/ tool]
    OBVIOUS
  <2>4. /\ h \in Locals /\ h.toolAttempt = q.toolAttempt
        /\ h.httpAttempt = q.httpAttempt /\ h.authAttempt = q.authAttempt
    BY <1>1, <2>2, <2>3 DEF Locals
  <2>5. CASE RetryTool(r, h)
    <3>1. p = [Fresh(h.mode) EXCEPT !.toolAttempt = h.toolAttempt + 1]
      BY <1>2, <2>5 DEF RetryTool
    <3>2. p.toolAttempt = q.toolAttempt + 1
      BY <2>4, <3>1 DEF Fresh
    <3>3. p.toolAttempt > q.toolAttempt
      BY <1>3, <3>2
    <3>4. QED
      BY <1>1, <1>4, <2>1, <3>3, Closer DEF Ended
  <2>6. CASE p = Leave(h, FALSE)
    <3>1. p.pc \in Ended
      BY <2>6 DEF Leave, Fresh, Ended
    <3>2. QED
      BY <1>1, <1>4, <2>1, <3>1, Closer DEF Ended
  <2>7. CASE p = RetryOrLeave(Fault(h))
    <3>1. /\ Fault(h) \in Locals /\ Fault(h).toolAttempt = q.toolAttempt
          /\ Fault(h).httpAttempt = q.httpAttempt /\ Fault(h).authAttempt = q.authAttempt
      BY <2>4 DEF Fault, Locals
    <3>2. QED
      BY <1>1, <1>4, <2>1, <2>7, <3>1, RetryCloser DEF Ended
  <2>8. QED
    BY <1>2, <2>2, <2>3, <2>5, <2>6, <2>7
<1>12. CASE HangUp(r)
  <2>1. q.pc \notin Ended /\ p = Go(Fresh(q.mode), "gone")
    BY <1>2, <1>12 DEF HangUp
  <2>2. p.pc \in Ended
    BY <2>1 DEF Go, Fresh, Ended
  <2>3. QED
    BY <1>1, <1>4, <2>1, <2>2, Closer
<1>13. QED
  BY <1>5, <1>6, <1>7, <1>8, <1>9, <1>10, <1>11, <1>12 DEF RequestStep

LEMMA StepsFit == TokenInv => StepsBounded
<1> SUFFICES ASSUME TokenInv, NEW r \in Requests
             PROVE  StepsLeft(req[r]) \in 0 .. MaxToolAttempts * ToolRounds * RoundSteps - 1
  BY DEF StepsBounded
<1> DEFINE q == req[r]
           a == ToolsLeft(q) * ToolRounds + RoundsLeft(q)
           b == MaxToolAttempts * ToolRounds
<1>1. q \in Locals
  BY DEF TokenInv, Shared
<1>2. a < b /\ a \in Nat /\ b \in Nat
  <2>1. a < MaxToolAttempts * ToolRounds + 0
    BY <1>1, LeftTyped, Digits, Constants
  <2>2. MaxToolAttempts * ToolRounds \in Nat
    BY <1>1, LeftTyped, Constants
  <2>3. QED
    BY <1>1, <2>1, <2>2, LeftTyped
<1>3. /\ RoundSteps \in Nat /\ PlaceLeft(q) \in Nat /\ PlaceLeft(q) < RoundSteps
      /\ StepsLeft(q) = 0 \/ StepsLeft(q) = a * RoundSteps + PlaceLeft(q)
      /\ StepsLeft(q) \in Nat
  BY <1>1, LeftTyped DEF StepsLeft
<1> HIDE DEF a, b
<1>4. a * RoundSteps + PlaceLeft(q) < b * RoundSteps + 0
  BY <1>2, <1>3, Digits
<1>5. b * RoundSteps \in Nat /\ a * RoundSteps \in Nat
  BY <1>2, <1>3
<1>6. StepsLeft(q) \in 0 .. b * RoundSteps - 1
  BY <1>3, <1>4, <1>5
<1>7. QED
  BY <1>6 DEF b

\* puter.rs 199-735 and 973-1051: the retries of the login, of the call and of
\* the question, one loop within the other, cannot feed each other: whatever the
\* service answers, a request ends after a bounded number of its own steps.
THEOREM RetriesAreUsedUp == Spec => []StepsBounded /\ StepsSpent
<1>1. TokenInv /\ TokenInv' /\ [Next]_vars
        => [\A r \in Requests : req'[r] # req[r] => StepsLeft(req'[r]) < StepsLeft(req[r])]_vars
  <2> SUFFICES ASSUME TokenInv, TokenInv', Next, NEW r \in Requests, req'[r] # req[r]
               PROVE  StepsLeft(req'[r]) < StepsLeft(req[r])
    OBVIOUS
  <2>1. ~Age /\ ~Revoke
    BY DEF Age, Revoke
  <2>2. PICK s \in Requests : RequestStep(s) \/ HangUp(s)
    BY <2>1 DEF Next
  <2>3. s = r
    BY <2>2, StepSpends
  <2>4. QED
    BY <2>2, <2>3, StepSpends
<1>2. QED
  BY <1>1, InitToken, StepToken, StepsFit, PTL DEF Spec, StepsSpent
=============================================================================
