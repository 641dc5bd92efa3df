----------------------------- MODULE ModelRouter -----------------------------
(***************************************************************************)
(* The model router (src/src/model_router.rs) under the escalation ladder  *)
(* of the requests that use it (src/src/providers/openai_compat.rs): a     *)
(* request resolves its tier to a model, tries it with the keys of its     *)
(* provider, reports the outcome by the model's full name, falls back to   *)
(* another model of the tier and, as the last resort, rotates the address. *)
(*                                                                         *)
(* A step is one access to shared state.  What a provider and its key pool *)
(* do during an attempt is its outcome; KeyPool has the detail.            *)
(***************************************************************************)
EXTENDS Integers, Sequences, FiniteSets

CONSTANTS
    Requests,             \* requests in flight at the same time
    Tiers,                \* configured tiers, "default" among them
    Mapping,              \* model_mapping: the full specs of a tier, in order
    Provider,             \* the provider a full spec names
    Pooled,               \* providers that have a key pool
    Strategies,           \* values routing.model_strategy takes
    CooldownSeconds,      \* routing.rate_limit_cooldown
    MaxConsecutiveErrors, \* routing.max_consecutive_errors
    ToolRetryMax          \* corrective retries of a streamed answer

Specs == UNION {{Mapping[t][i] : i \in DOMAIN Mapping[t]} : t \in Tiers}
Endpoints == UNION {{t} \X DOMAIN Mapping[t] : t \in Tiers}
SpecOf(e) == Mapping[e[1]][e[2]]

ASSUME ModelRouterAssumption ==
    /\ "default" \in Tiers
    /\ \A t \in Tiers : Mapping[t] \in Seq(Specs) /\ Mapping[t] # <<>>
    /\ Pooled \subseteq {Provider[s] : s \in Specs}
    /\ Strategies \subseteq {"round_robin", "random", "least_errors"}
    /\ CooldownSeconds \in Nat \ {0} /\ MaxConsecutiveErrors \in Nat \ {0}
    /\ ToolRetryMax \in Nat

NoTime == -1

VARIABLES
    healthy,        \* ModelEndpoint.healthy
    errors,         \* ModelEndpoint.consecutive_errors, up to the threshold
    cooldownUntil,  \* ModelEndpoint.cooldown_until, as time left, or NoTime
    strategy,       \* the strategy in force
    nextIdx,        \* round_robin_indices, modulo the length of the tier
    rank,           \* the order in which the HashMap of tiers iterates
    exhausted,      \* providers whose keys are all on cooldown
    pc,             \* where a request is
    kind,           \* streamed, or answered as a whole
    tier,           \* the tier its model name resolves to
    model,          \* resolved_spec
    retries,        \* tool_attempt
    scan,           \* the scan it is in: what for, where, how far, best so far
    steady          \* history: models healthy since its search began

routerVars == <<healthy, errors, cooldownUntil, strategy, nextIdx, rank>>
requestVars == <<pc, kind, tier, model, retries, scan>>
vars == <<routerVars, exhausted, requestVars, steady>>

Scanning == {"scan", "lock"}
NoScan == [for |-> "resolve", at |-> 1, left |-> 0, best |-> 0, errors |-> 0]

TypeOK ==
    /\ healthy \in [Endpoints -> BOOLEAN]
    /\ errors \in [Endpoints -> 0 .. MaxConsecutiveErrors]
    /\ cooldownUntil \in [Endpoints -> NoTime .. CooldownSeconds]
    /\ strategy \in Strategies
    /\ \A t \in Tiers : nextIdx[t] \in DOMAIN Mapping[t]
    /\ rank \in [Tiers -> 1 .. Cardinality(Tiers)]
    /\ exhausted \subseteq Pooled
    /\ pc \in [Requests -> Scanning \cup {"idle", "attempt", "resetErrors", "markHealthy",
                                          "failed", "cool", "fallback", "none"}]
    /\ kind \in [Requests -> {"stream", "whole"}]
    /\ tier \in [Requests -> Tiers] /\ model \in [Requests -> Specs]
    /\ retries \in [Requests -> 0 .. ToolRetryMax]
    /\ \A r \in Requests : scan[r].left \in 0 .. Len(Mapping[tier[r]])
    /\ \A r \in Requests : scan[r].at \in DOMAIN Mapping[tier[r]]
    /\ \A r \in Requests : steady[r] \subseteq Endpoints

Ranking == {f \in [Tiers -> 1 .. Cardinality(Tiers)] : \A t, u \in Tiers : f[t] = f[u] => t = u}

Fresh(value) == [e \in Endpoints |-> value]

Init ==
    /\ healthy = Fresh(TRUE) /\ errors = Fresh(0) /\ cooldownUntil = Fresh(NoTime)
    /\ strategy \in Strategies
    /\ nextIdx = [t \in Tiers |-> 1]
    /\ rank \in Ranking
    /\ exhausted = {}
    /\ pc = [r \in Requests |-> "idle"]
    /\ kind = [r \in Requests |-> "stream"]
    /\ tier = [r \in Requests |-> "default"]
    /\ model = [r \in Requests |-> Mapping["default"][1]]
    /\ retries = [r \in Requests |-> 0]
    /\ scan = [r \in Requests |-> NoScan]
    /\ steady = [r \in Requests |-> {}]

MoveTo(r, place) == pc' = [pc EXCEPT ![r] = place]

\* The request is over and its locals are gone.
Leave(r) ==
    /\ MoveTo(r, "idle")
    /\ kind' = [kind EXCEPT ![r] = "stream"]
    /\ tier' = [tier EXCEPT ![r] = "default"]
    /\ model' = [model EXCEPT ![r] = Mapping["default"][1]]
    /\ retries' = [retries EXCEPT ![r] = 0]
    /\ scan' = [scan EXCEPT ![r] = NoScan]

-----------------------------------------------------------------------------
(***************************************************************************)
(* ModelRouter::resolve starts where the strategy says, next_fallback at   *)
(* the top of the tier; both hold the tiers' read lock while they scan.    *)
(***************************************************************************)
\* Two bugs: the index is not wrapped, and the loop stops one model short.
AfterUnwrapped(t, i) == i + 1
ScanShort(what, t, start) ==
    [for |-> what, at |-> start, left |-> Len(Mapping[t]) - 1, best |-> 0,
     errors |-> MaxConsecutiveErrors + 1]

After(t, i) == (i % Len(Mapping[t])) + 1

ScanFrom(what, t, start) ==
    [for |-> what, at |-> start, left |-> Len(Mapping[t]), best |-> 0,
     errors |-> MaxConsecutiveErrors + 1]

\* Where the scan may start: the index is read and moved on in one step.
Starts(t) ==
    CASE strategy = "round_robin" -> {nextIdx[t]}
      [] strategy = "random" -> DOMAIN Mapping[t]
      [] strategy = "least_errors" -> {1}

Resolve(r) ==
    /\ pc[r] = "idle"
    /\ \E t \in Tiers, k \in {"stream", "whole"} :
        /\ tier' = [tier EXCEPT ![r] = t]
        /\ kind' = [kind EXCEPT ![r] = k]
        /\ nextIdx' = IF strategy = "round_robin" THEN [nextIdx EXCEPT ![t] = After(t, @)]
                      ELSE nextIdx
        /\ \E start \in Starts(t) :
              scan' = [scan EXCEPT ![r] = ScanFrom("resolve", t, start)]
    /\ MoveTo(r, "scan")
    /\ UNCHANGED <<healthy, errors, cooldownUntil, strategy, rank, exhausted, model, retries>>

NextFallback(r) ==
    /\ pc[r] = "fallback"
    /\ MoveTo(r, "scan")
    /\ scan' = [scan EXCEPT ![r] = ScanFrom("fallback", tier[r], 1)]
    /\ UNCHANGED <<routerVars, exhausted, kind, tier, model, retries>>

Take(r, position) ==
    /\ model' = [model EXCEPT ![r] = Mapping[tier[r]][position]]
    /\ scan' = [scan EXCEPT ![r] = NoScan]
    /\ MoveTo(r, "attempt")

\* Nothing left to look at.  A request nothing could be resolved for goes to
\* the first model of its tier, as Settings::resolve_model has it.
EndScan(r, best) ==
    \/ best # 0 /\ Take(r, best)
    \/ best = 0 /\ scan[r].for = "resolve" /\ Take(r, 1)
    \/ /\ best = 0 /\ scan[r].for = "fallback"
       /\ MoveTo(r, "none")
       /\ scan' = [scan EXCEPT ![r] = NoScan]
       /\ UNCHANGED model

Advance(r, best, fewest) ==
    \/ /\ scan[r].left > 1
       /\ scan' = [scan EXCEPT ![r].at = After(tier[r], @),
                               ![r].left = @ - 1, ![r].best = best, ![r].errors = fewest]
       /\ MoveTo(r, "scan")
       /\ UNCHANGED model
    \/ /\ scan[r].left <= 1
       /\ EndScan(r, best)

Pass(r) == Advance(r, scan[r].best, scan[r].errors)

\* is_available answered true for the endpoint e that has that many errors.
Found(r, e, count) ==
    IF scan[r].for = "resolve" /\ strategy = "least_errors"
    THEN IF count < scan[r].errors THEN Advance(r, e[2], count) ELSE Pass(r)
    ELSE Take(r, e[2])

LookedAt(r) == <<tier[r], scan[r].at>>

\* The endpoint is passed over as the one that failed, or its healthy flag is
\* read without the lock.
LoadHealthy(r) ==
    LET e == LookedAt(r)
    IN  /\ pc[r] = "scan"
        /\ \/ /\ scan[r].for = "fallback" /\ SpecOf(e) = model[r]
              /\ Pass(r)
           \/ /\ scan[r].for = "resolve" \/ SpecOf(e) # model[r]
              /\ healthy[e]
              /\ Found(r, e, errors[e])
           \/ /\ scan[r].for = "resolve" \/ SpecOf(e) # model[r]
              /\ ~healthy[e]
              /\ MoveTo(r, "lock")
              /\ UNCHANGED <<scan, model>>
        /\ UNCHANGED <<routerVars, exhausted, kind, tier, retries>>

\* A bug: the model is answered but not put back into rotation.
RecoverHalf(e) ==
    /\ cooldownUntil' = [cooldownUntil EXCEPT ![e] = NoTime]
    /\ errors' = [errors EXCEPT ![e] = 0]
    /\ UNCHANGED healthy

Recover(e) ==
    /\ cooldownUntil' = [cooldownUntil EXCEPT ![e] = NoTime]
    /\ errors' = [errors EXCEPT ![e] = 0]
    /\ healthy' = [healthy EXCEPT ![e] = TRUE]

LockAndCheck(r) ==
    LET e == LookedAt(r)
    IN  /\ pc[r] = "lock"
        /\ \/ /\ cooldownUntil[e] = 0
              /\ Recover(e)
              /\ Found(r, e, 0)
           \/ /\ cooldownUntil[e] # 0
              /\ Pass(r)
              /\ UNCHANGED <<cooldownUntil, healthy, errors>>
        /\ UNCHANGED <<strategy, nextIdx, rank, exhausted, kind, tier, retries>>

-----------------------------------------------------------------------------
(***************************************************************************)
(* An attempt and its report.  Reports name the model, and go to the first *)
(* endpoint of that name the HashMap of tiers yields.                      *)
(***************************************************************************)
Charged(spec) ==
    CHOOSE e \in Endpoints :
        /\ SpecOf(e) = spec
        /\ \A f \in Endpoints : SpecOf(f) = spec =>
               rank[e[1]] < rank[f[1]] \/ (e[1] = f[1] /\ e[2] <= f[2])

ProviderOf(r) == Provider[model[r]]

\* 2xx: the ladder reports before it reads the body.
Succeed(r) ==
    /\ pc[r] = "attempt" /\ ProviderOf(r) \notin exhausted
    /\ MoveTo(r, "resetErrors")
    /\ UNCHANGED <<routerVars, exhausted, kind, tier, model, retries, scan>>

ResetErrors(r) ==
    /\ pc[r] = "resetErrors"
    /\ errors' = [errors EXCEPT ![Charged(model[r])] = 0]
    /\ MoveTo(r, "markHealthy")
    /\ UNCHANGED <<healthy, cooldownUntil, strategy, nextIdx, rank, exhausted,
                   kind, tier, model, retries, scan>>

\* The answer is delivered or breaks off, or a streamed one that announced a
\* tool call and made none is asked for again.
MarkHealthy(r) ==
    /\ pc[r] = "markHealthy"
    /\ healthy' = [healthy EXCEPT ![Charged(model[r])] = TRUE]
    /\ \/ Leave(r)
       \/ /\ kind[r] = "stream" /\ retries[r] < ToolRetryMax
          /\ retries' = [retries EXCEPT ![r] = @ + 1]
          /\ MoveTo(r, "attempt")
          /\ UNCHANGED <<kind, tier, model, scan>>
    /\ UNCHANGED <<errors, cooldownUntil, strategy, nextIdx, rank, exhausted>>

\* The key rotation loop gives up: all keys cool down, or there is no pool.
GiveUp(r) ==
    /\ pc[r] = "attempt"
    /\ ProviderOf(r) \in exhausted \/ ProviderOf(r) \notin Pooled
    /\ MoveTo(r, "failed")
    /\ UNCHANGED <<routerVars, exhausted, kind, tier, model, retries, scan>>

\* 4xx other than 429: send_non_streaming returns, stream_response leaves the
\* key rotation loop.
ClientError(r) ==
    /\ pc[r] = "attempt" /\ ProviderOf(r) \notin exhausted
    /\ \/ /\ kind[r] = "whole"
          /\ Leave(r)
       \/ /\ kind[r] = "stream"
          /\ MoveTo(r, "failed")
          /\ UNCHANGED <<kind, tier, model, retries, scan>>
    /\ UNCHANGED <<routerVars, exhausted>>

\* report_error_by_spec: the count, compared with the threshold ...
CountError(r) ==
    LET e == Charged(model[r])
        count == IF errors[e] < MaxConsecutiveErrors THEN errors[e] + 1 ELSE errors[e]
    IN  /\ pc[r] = "failed"
        /\ errors' = [errors EXCEPT ![e] = count]
        /\ MoveTo(r, IF count >= MaxConsecutiveErrors THEN "cool" ELSE "fallback")
        /\ UNCHANGED <<healthy, cooldownUntil, strategy, nextIdx, rank, exhausted,
                       kind, tier, model, retries, scan>>

\* A bug: the end of the cooldown is set and healthy is not.
CoolDownInName(r) ==
    /\ pc[r] = "cool"
    /\ cooldownUntil' = [cooldownUntil EXCEPT ![Charged(model[r])] = CooldownSeconds]
    /\ MoveTo(r, "fallback")
    /\ UNCHANGED <<healthy, errors, strategy, nextIdx, rank, exhausted,
                   kind, tier, model, retries, scan>>

\* ... and the critical section that starts the cooldown.
CoolDown(r) ==
    LET e == Charged(model[r])
    IN  /\ pc[r] = "cool"
        /\ cooldownUntil' = [cooldownUntil EXCEPT ![e] = CooldownSeconds]
        /\ healthy' = [healthy EXCEPT ![e] = FALSE]
        /\ MoveTo(r, "fallback")
        /\ UNCHANGED <<errors, strategy, nextIdx, rank, exhausted,
                       kind, tier, model, retries, scan>>

\* No fallback: a rotation of the address may be started (IpRotation has it),
\* and the request ends with an error.
LastResort(r) ==
    /\ pc[r] = "none"
    /\ Leave(r)
    /\ UNCHANGED <<routerVars, exhausted>>

\* A client hangs up while its request awaits a lock, a permit or the provider.
Disconnect(r) ==
    /\ pc[r] \in {"lock", "attempt", "failed", "cool", "fallback", "none"}
    /\ Leave(r)
    /\ UNCHANGED <<routerVars, exhausted>>

-----------------------------------------------------------------------------
\* A key pool runs out of usable keys, or gets one back.
PoolChanges(p) ==
    /\ exhausted' = IF p \in exhausted THEN exhausted \ {p} ELSE exhausted \cup {p}
    /\ UNCHANGED <<routerVars, requestVars>>

\* ModelRouter::reload waits for the readers of the tiers and builds them anew.
Reload ==
    /\ \A r \in Requests : pc[r] \in {"idle", "attempt", "failed", "fallback", "none"}
    /\ healthy' = Fresh(TRUE) /\ errors' = Fresh(0) /\ cooldownUntil' = Fresh(NoTime)
    /\ strategy' \in Strategies
    /\ nextIdx' = [t \in Tiers |-> 1]
    /\ rank' \in Ranking
    /\ UNCHANGED <<exhausted, requestVars>>

Tick ==
    /\ cooldownUntil' = [e \in Endpoints |->
            IF cooldownUntil[e] > 0 THEN cooldownUntil[e] - 1 ELSE cooldownUntil[e]]
    /\ UNCHANGED <<healthy, errors, strategy, nextIdx, rank, exhausted, requestVars>>

\* The history: the models of its tier that stay healthy throughout the search
\* of a request for a fallback.
Observe ==
    LET Candidates(r) ==
            IF pc[r] \in Scanning THEN steady[r] ELSE {e \in Endpoints : e[1] = tier[r]}
    IN  steady' = [r \in Requests |->
            IF pc'[r] \in Scanning /\ scan'[r].for = "fallback"
            THEN {e \in Candidates(r) : healthy'[e]} ELSE {}]

\* The steps the runtime takes once they can be taken, and the provider's answer.
Proceed(r) ==
    \/ NextFallback(r) \/ LoadHealthy(r) \/ LockAndCheck(r)
    \/ Succeed(r) \/ ResetErrors(r) \/ MarkHealthy(r) \/ GiveUp(r) \/ ClientError(r)
    \/ CountError(r) \/ CoolDown(r) \/ LastResort(r)

Next ==
    \/ \E r \in Requests : (Resolve(r) \/ Proceed(r) \/ Disconnect(r)) /\ Observe
    \/ \E p \in Pooled : PoolChanges(p) /\ Observe
    \/ Reload /\ Observe
    \/ Tick /\ Observe

Spec == Init /\ [][Next]_vars

\* Every await of a request ends: locks are held briefly, the HTTP client has
\* timeouts, and retries on a key and the keys of a pool are finitely many.
FairSpec == Spec /\ \A r \in Requests : WF_vars(Proceed(r) /\ Observe)

-----------------------------------------------------------------------------
\* A model out of rotation has a cooldown end to bring it back: is_available is
\* the only recovery there is, and it wants one.
NoModelStranded == \A e \in Endpoints : ~healthy[e] => cooldownUntil[e] # NoTime

\* No request ends, or escalates to a rotation, past a model of its tier, other
\* than the one that failed, that was healthy throughout its search.
NoFallbackMissed ==
    [][\A r \in Requests : pc[r] \in Scanning /\ pc'[r] = "none" =>
           \A e \in steady[r] : SpecOf(e) = model[r]]_vars

\* README: "All Models Down" ends the ladder: a request that keeps failing runs
\* out of models, unless a cooldown elapses, a reload or another request's
\* success brings one back.
Revived ==
    \/ \E e \in Endpoints : cooldownUntil[e] = 0
    \/ \E r \in Requests : pc[r] = "resetErrors"
    \/ \A e \in Endpoints : healthy[e] /\ errors[e] = 0

LadderEnds == \A r \in Requests : pc[r] = "attempt" ~> (pc[r] = "idle" \/ Revived)
=============================================================================
