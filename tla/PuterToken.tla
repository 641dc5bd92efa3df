----------------------------- MODULE PuterToken ------------------------------
(***************************************************************************)
(* The Puter provider (src/src/providers/puter.rs): the token its requests *)
(* share, the login that renews it, and the three nested loops of a        *)
(* request, which retries its login, its HTTP call and, when a tool was    *)
(* announced and not called, the whole question.                           *)
(*                                                                         *)
(* A step is one access to the cached token, or one answer of the service. *)
(* What a stream delivers event by event is in SSEStream.                  *)
(***************************************************************************)
EXTENDS Integers, FiniteSets

CONSTANTS
    Requests,          \* requests in flight at the same time
    Tokens,            \* numbers that stand for tokens of the service
    LoginMaxRetries,   \* LOGIN_MAX_RETRIES
    MaxHttpRetries,    \* max_http_retries
    MaxToolAttempts,   \* 1, or tool_retry_max + 1 with enable_tool_retry
    MaxRevocations     \* bound: tokens the service stops accepting early

ASSUME PuterTokenAssumption ==
    /\ Tokens \subseteq Nat
    /\ LoginMaxRetries \in Nat \ {0} /\ MaxToolAttempts \in Nat \ {0}
    /\ MaxHttpRetries \in Nat /\ MaxRevocations \in Nat

NoToken == -1
StaticToken == -2

VARIABLES
    static,        \* PuterAuth is a StaticToken, not Credentials
    cached,        \* cached_token
    stale,         \* it is older than TOKEN_LIFETIME_SECS
    revoked,       \* tokens the service no longer accepts
    revocations,   \* how many it stopped accepting early
    req            \* the requests: their place and the locals of their loops

shared == <<static, cached, stale, revoked, revocations>>
vars == <<static, cached, stale, revoked, revocations, req>>

Places == {"ensure", "login", "store", "call", "invalidate", "stream", "ok", "error", "gone"}
Ended == {"ok", "error", "gone"}

\* The locals of a request's loops.  The last four are history: HTTP calls of the
\* attempt, whether the last one failed, the tokens that were refused, and
\* whether it met an error that is not about a token.
Locals ==
    [mode : {"stream", "plain"}, pc : Places,
     token : Tokens \cup {NoToken, StaticToken},
     loginAttempt : 0 .. LoginMaxRetries, httpAttempt : 0 .. MaxHttpRetries,
     authAttempt : {0, 1}, toolAttempt : 0 .. MaxToolAttempts - 1,
     hadTool : BOOLEAN, lastError : BOOLEAN,
     calls : 0 .. MaxHttpRetries + 3, failed : BOOLEAN,
     refused : SUBSET (Tokens \cup {StaticToken}), faults : BOOLEAN]

\* The locals as a tool attempt begins.
Fresh(mode) ==
    [mode |-> mode, pc |-> "ensure", token |-> NoToken, loginAttempt |-> 0,
     httpAttempt |-> 0, authAttempt |-> 0, toolAttempt |-> 0, hadTool |-> FALSE,
     lastError |-> FALSE,
     calls |-> 0, failed |-> FALSE, refused |-> {}, faults |-> FALSE]

Init ==
    /\ static \in BOOLEAN
    /\ cached = NoToken /\ stale = FALSE
    /\ revoked = {} /\ revocations = 0
    /\ req \in [Requests -> {Fresh("stream"), Fresh("plain")}]

\* How a step changes the locals q of its request.
Go(q, place) == [q EXCEPT !.pc = place]
Update(r, q) == req' = [req EXCEPT ![r] = q]

Fault(q) == [q EXCEPT !.failed = TRUE, !.faults = TRUE]

\* 'http_retry is left: what last_error says decides how the answer ends.
Leave(q, error) ==
    [Fresh(q.mode) EXCEPT !.pc = IF error THEN "error" ELSE "ok",
                          !.calls = q.calls, !.failed = q.failed,
                          !.refused = q.refused, !.faults = q.faults]

\* A bug: retries are not counted.
RetryOrLeaveUncounted(q) ==
    IF q.mode = "stream" /\ q.httpAttempt < MaxHttpRetries
    THEN [q EXCEPT !.pc = "ensure", !.lastError = TRUE]
    ELSE Leave(q, TRUE)

\* Another HTTP call, if the budget of this tool attempt allows it.
RetryOrLeave(q) ==
    IF q.mode = "stream" /\ q.httpAttempt < MaxHttpRetries
    THEN [q EXCEPT !.pc = "ensure", !.lastError = TRUE, !.httpAttempt = @ + 1]
    ELSE Leave(q, TRUE)

(* ------------------------- ensure_token and do_login --------------------- *)

\* A static token, or the cached one if it is young enough, or a login.
EnsureToken(r) ==
    /\ req[r].pc = "ensure"
    /\ \/ static /\ Update(r, [req[r] EXCEPT !.pc = "call", !.token = StaticToken])
       \/ /\ ~static /\ cached # NoToken /\ ~stale
          /\ Update(r, [req[r] EXCEPT !.pc = "call", !.token = cached])
       \/ /\ ~static /\ (cached = NoToken \/ stale)
          /\ Update(r, [req[r] EXCEPT !.pc = "login", !.token = NoToken, !.loginAttempt = 1])
    /\ UNCHANGED shared

\* Tokens that mean something to somebody.
InUse == {cached} \cup {req[r].token : r \in Requests} \cup UNION {req[r].refused : r \in Requests}

LoginSucceeds(r) ==
    /\ req[r].pc = "login" /\ Tokens \ InUse # {}
    /\ LET t == CHOOSE t \in Tokens \ InUse : TRUE
       IN  /\ Update(r, [req[r] EXCEPT !.pc = "store", !.token = t, !.loginAttempt = 0])
           /\ revoked' = revoked \ {t}
    /\ UNCHANGED <<static, cached, stale, revocations>>

\* No connection, or an error that may pass: again, up to LOGIN_MAX_RETRIES.
LoginFails(r) ==
    /\ req[r].pc = "login"
    /\ Update(r, IF req[r].loginAttempt < LoginMaxRetries
                 THEN [req[r] EXCEPT !.loginAttempt = @ + 1]
                 ELSE Leave(Fault(req[r]), TRUE))
    /\ UNCHANGED shared

\* Refused credentials, or an answer without a token: no further attempt.
LoginRefused(r) ==
    /\ req[r].pc = "login"
    /\ Update(r, Leave(Fault(req[r]), TRUE))
    /\ UNCHANGED shared

\* Whoever stores last wins.
StoreToken(r) ==
    /\ req[r].pc = "store"
    /\ Update(r, Go(req[r], "call"))
    /\ cached' = req[r].token /\ stale' = FALSE
    /\ UNCHANGED <<static, revoked, revocations>>

(* --------------------------- the call and its answer --------------------- *)

\* The locals after another HTTP call, counted up to one too many.
Called(q) == [q EXCEPT !.calls = IF @ > MaxHttpRetries + 2 THEN @ ELSE @ + 1]

\* No connection, or an answer of 500 and more.
CallFails(r) ==
    /\ req[r].pc = "call"
    /\ Update(r, RetryOrLeave(Fault(Called(req[r]))))
    /\ UNCHANGED shared

\* Any other error of the service; in plain mode also a body it cannot parse.
CallRefused(r) ==
    /\ req[r].pc = "call"
    /\ Update(r, Leave(Fault(Called(req[r])), TRUE))
    /\ UNCHANGED shared

\* The locals after the service refused the token.
Refused(q) == [Called(q) EXCEPT !.failed = TRUE, !.refused = @ \cup {q.token}]

\* A bug: one refusal too many is taken for a stale token.
TokenRefusedTwice(r) ==
    /\ req[r].pc = "call" /\ (static \/ req[r].token \in revoked)
    /\ Update(r, IF ~static /\ req[r].authAttempt <= 1
                 THEN Go(Refused(req[r]), "invalidate")
                 ELSE Leave(Refused(req[r]), TRUE))
    /\ UNCHANGED shared

\* 401 or 403: a static token is given up; with credentials the token is
\* dropped once per tool attempt, and the next refusal is an error.
TokenRefused(r) ==
    /\ req[r].pc = "call" /\ (static \/ req[r].token \in revoked)
    /\ Update(r, IF ~static /\ req[r].authAttempt < 1
                 THEN Go(Refused(req[r]), "invalidate")
                 ELSE Leave(Refused(req[r]), TRUE))
    /\ UNCHANGED shared

\* The locals once the token is dropped.
Again(q) == [q EXCEPT !.pc = "ensure", !.authAttempt = @ + 1]

\* A bug: the refused token stays in the cache.
InvalidateNothing(r) ==
    /\ req[r].pc = "invalidate"
    /\ Update(r, Again(req[r]))
    /\ UNCHANGED shared

\* A bug: the new token gets a budget of its own.
InvalidateAfresh(r) ==
    /\ req[r].pc = "invalidate"
    /\ Update(r, [Again(req[r]) EXCEPT !.httpAttempt = 0])
    /\ cached' = NoToken /\ stale' = FALSE
    /\ UNCHANGED <<static, revoked, revocations>>

\* The cached token goes, whichever it is by now.
Invalidate(r) ==
    /\ req[r].pc = "invalidate"
    /\ Update(r, Again(req[r]))
    /\ cached' = NoToken /\ stale' = FALSE
    /\ UNCHANGED <<static, revoked, revocations>>

CallAccepted(r) ==
    /\ req[r].pc = "call" /\ req[r].token \notin revoked
    /\ LET q == [Called(req[r]) EXCEPT !.failed = FALSE]
       IN  Update(r, IF q.mode = "stream" THEN Go(q, "stream") ELSE Leave(q, FALSE))
    /\ UNCHANGED shared

(* ------------------------------ after the stream ------------------------- *)

\* A tool was announced and not called: the question is put again.
RetryTool(r, q) ==
    /\ ~q.hadTool /\ q.toolAttempt + 1 < MaxToolAttempts
    /\ Update(r, [Fresh(q.mode) EXCEPT !.toolAttempt = q.toolAttempt + 1])

\* A bug: the error of an earlier attempt is kept.
StreamEndsKeepingError(r) ==
    /\ req[r].pc = "stream"
    /\ \E tool \in BOOLEAN :
        LET q == [req[r] EXCEPT !.hadTool = @ \/ tool]
        IN  RetryTool(r, q) \/ Update(r, Leave(q, q.lastError))
    /\ UNCHANGED shared

\* The stream came to its end, with a tool call or without.
StreamEnds(r) ==
    /\ req[r].pc = "stream"
    /\ \E tool \in BOOLEAN :
        LET q == [req[r] EXCEPT !.hadTool = @ \/ tool]
        IN  RetryTool(r, q) \/ Update(r, Leave(q, FALSE))
    /\ UNCHANGED shared

\* It broke off, or brought an error; part of it may have been delivered.
StreamBreaks(r) ==
    /\ req[r].pc = "stream"
    /\ \E tool \in BOOLEAN :
        LET q == [req[r] EXCEPT !.hadTool = @ \/ tool]
        IN  RetryTool(r, q) \/ Update(r, RetryOrLeave(Fault(q)))
    /\ UNCHANGED shared

(* --------------------------- the world around it ------------------------- *)

\* TOKEN_LIFETIME_SECS have passed since the cached token was obtained.
Age ==
    /\ cached # NoToken /\ ~stale /\ stale' = TRUE
    /\ UNCHANGED <<static, cached, revoked, revocations, req>>

\* The service stops accepting a token before its time.
Revoke ==
    /\ revocations < MaxRevocations /\ revocations' = revocations + 1
    /\ \E t \in Tokens \cap ({cached} \cup {req[r].token : r \in Requests}) :
          t \notin revoked /\ revoked' = revoked \cup {t}
    /\ UNCHANGED <<static, cached, stale, req>>

\* The client goes: the future is dropped at the await it is in, and a token that
\* it has obtained and not stored yet is lost.
HangUp(r) ==
    /\ req[r].pc \notin Ended
    /\ Update(r, Go(Fresh(req[r].mode), "gone"))
    /\ UNCHANGED shared

\* A request on its way, as long as its client waits.
RequestStep(r) ==
    \/ EnsureToken(r) \/ LoginSucceeds(r) \/ LoginFails(r) \/ LoginRefused(r)
    \/ StoreToken(r)
    \/ CallFails(r) \/ CallRefused(r) \/ TokenRefused(r) \/ Invalidate(r)
    \/ CallAccepted(r) \/ StreamEnds(r) \/ StreamBreaks(r)

Next ==
    \/ \E r \in Requests : RequestStep(r) \/ HangUp(r)
    \/ Age
    \/ Revoke

\* The client goes on waiting; calls and streams have timeouts.
Fairness == \A r \in Requests : WF_vars(RequestStep(r))

Spec == Init /\ [][Next]_vars /\ Fairness

(* ------------------------------- properties ------------------------------ *)

TypeOK ==
    /\ static \in BOOLEAN /\ stale \in BOOLEAN
    /\ cached \in Tokens \cup {NoToken} /\ (static => cached = NoToken)
    /\ revoked \subseteq Tokens /\ revocations \in 0 .. MaxRevocations
    /\ req \in [Requests -> Locals]
    /\ \A r \in Requests :
         /\ req[r].pc = "login" => req[r].loginAttempt > 0
         /\ req[r].pc \in {"store", "call", "invalidate", "stream"} => req[r].token # NoToken

\* With credentials, a request that met nothing worse than refused tokens fails
\* only after two different ones: the retry never sends the token again that
\* was just refused, however logins, stores and invalidations of other requests
\* interleave with its own (puter.rs 258-272 and 932-960).
RevocationSurvived ==
    \A r \in Requests :
        req[r].pc = "error" /\ ~static /\ ~req[r].faults => Cardinality(req[r].refused) >= 2

\* The answer ends as an error exactly if its last attempt failed: an error
\* that a retry made good is not reported, and none is swallowed.
ErrorIsTheLast ==
    \A r \in Requests : req[r].pc \in Ended => (req[r].pc = "error" <=> req[r].failed)

\* Connection errors, 5xx answers and broken streams share one budget, and a
\* refused token adds one call: a tool attempt makes no more calls than that.
CallsBounded ==
    \A r \in Requests : req[r].calls <= MaxHttpRetries + 2

\* All requests come to an end, whatever the service answers, and also if nobody
\* hangs up.
RequestsEnd == <>(\A r \in Requests : req[r].pc \in Ended)
=============================================================================
