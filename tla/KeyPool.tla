------------------------------- MODULE KeyPool -------------------------------
(***************************************************************************)
(* The API-key pool of one provider (src/src/key_pool.rs) as concurrent    *)
(* requests, the background recovery task and a configuration reload use   *)
(* it.                                                                     *)
(*                                                                         *)
(* One step is one access to shared state: an atomic load or store, or one *)
(* critical section of the key's cooldown_until mutex.  Whatever the code  *)
(* does outside the mutex is therefore open to the other callers.  Every   *)
(* pool operation runs under the manager's read lock and reload under its  *)
(* write lock, so a reload meets no operation half way.                    *)
(*                                                                         *)
(* Instants are kept relative to the present: cooldownUntil[k] is the time *)
(* left, so that "now >= until" reads "= 0" and Tick ages every instant.   *)
(***************************************************************************)
EXTENDS Integers, FiniteSets

CONSTANTS
    Callers,              \* requests in flight at the same time
    NumKeys,              \* endpoints.len()
    Strategies,           \* values routing.key_strategy takes
    CooldownSeconds,      \* routing.rate_limit_cooldown, the base of the backoff
    CooldownCap,          \* the cap on a rate-limit cooldown (300 s in the code)
    MaxConsecutiveErrors, \* routing.max_consecutive_errors
    MaxSameKeyRetries,    \* max_5xx_retries of the provider's loop (2 in the code)
    EscalationBound,      \* bound: cooldown_count is not counted past it
    TotalErrorsBound      \* bound: total_errors of a key (least_errors only)

ASSUME KeyPoolAssumption ==
    /\ NumKeys \in Nat \ {0}
    /\ Strategies \subseteq {"round_robin", "random", "least_errors"}
    /\ CooldownSeconds \in Nat \ {0}
    /\ CooldownCap \in Nat
    /\ MaxConsecutiveErrors \in Nat \ {0}
    /\ MaxSameKeyRetries \in Nat
    /\ EscalationBound \in Nat
    /\ TotalErrorsBound \in Nat

NoTime == -1
NoKey == -1
Keys == 0 .. NumKeys - 1

VARIABLES
    healthy,           \* KeyEndpoint.healthy
    consecutiveErrors, \* KeyEndpoint.consecutive_errors
    cooldownCount,     \* KeyEndpoint.cooldown_count
    cooldownUntil,     \* KeyEndpoint.cooldown_until, as time left, or NoTime
    totalErrors,       \* KeyEndpoint.total_errors
    strategy,          \* KeyPool.strategy
    roundRobinIdx,     \* KeyPool.round_robin_idx modulo the number of keys
    pc,                \* where a caller is
    op,                \* what a caller is doing
    ep,                \* the endpoint it is looking at, or holds
    left,              \* endpoints its scan has still to look at
    best,              \* least_errors: the best endpoint so far and its errors
    until,             \* the instant report_error computed before taking the lock
    retries,           \* five_xx_attempt of the request
    detached,          \* callers holding an endpoint of a pool reload replaced
    dropped            \* history: keys whose report_error was cancelled half way

keyVars == <<healthy, consecutiveErrors, cooldownCount, cooldownUntil, totalErrors>>
poolVars == <<keyVars, strategy, roundRobinIdx>>
callerVars == <<pc, op, ep, left, best, until, retries, detached>>
vars == <<poolVars, callerVars, dropped>>

-----------------------------------------------------------------------------
(***************************************************************************)
(* The cooldown report_error computes, and the largest one there is.  The  *)
(* saturating product is only compared with the cap, so "not within the    *)
(* cap" stands for every larger value.                                     *)
(***************************************************************************)
RateLimitCooldown(n) ==
    LET exp == CooldownSeconds * 2 ^ (n - 1)
    IN  IF exp \in 0 .. CooldownCap THEN exp ELSE CooldownCap

ErrorCooldown == CooldownSeconds \div 2

LongestCooldown == IF CooldownCap >= ErrorCooldown THEN CooldownCap ELSE ErrorCooldown

Cooldown(kind, n) == IF kind = "rate_limit" THEN RateLimitCooldown(n) ELSE ErrorCooldown

CoolingDown(k) == cooldownUntil[k] > 0

Candidate == [key : Keys \cup {NoKey}, errors : 0 .. TotalErrorsBound + 1]
NoBest == [key |-> NoKey, errors |-> TotalErrorsBound + 1]

Places == {"idle", "scan", "lock", "none", "unkeyed", "escalate", "inflight",
           "escalating", "cool", "resetErrors", "resetCount", "markHealthy"}

KeysTypeOK ==
    /\ healthy \in [Keys -> BOOLEAN]
    /\ consecutiveErrors \in [Keys -> 0 .. MaxConsecutiveErrors]
    /\ cooldownCount \in [Keys -> 0 .. EscalationBound]
    /\ cooldownUntil \in [Keys -> NoTime .. LongestCooldown]
    /\ totalErrors \in [Keys -> 0 .. TotalErrorsBound]
    /\ strategy \in Strategies
    /\ roundRobinIdx \in Keys
    /\ dropped \subseteq Keys

CallersTypeOK ==
    /\ pc \in [Callers -> Places]
    /\ op \in [Callers -> {"acquire", "exhausted", "rate_limit", "error"}]
    /\ ep \in [Callers -> Keys]
    /\ left \in [Callers -> 0 .. NumKeys]
    /\ best \in [Callers -> Candidate]
    /\ retries \in [Callers -> 0 .. MaxSameKeyRetries]
    /\ detached \subseteq Callers

TypeOK ==
    /\ KeysTypeOK
    /\ CallersTypeOK
    /\ until \in [Callers -> NoTime .. LongestCooldown]

Init ==
    /\ healthy = [k \in Keys |-> TRUE]
    /\ consecutiveErrors = [k \in Keys |-> 0]
    /\ cooldownCount = [k \in Keys |-> 0]
    /\ cooldownUntil = [k \in Keys |-> NoTime]
    /\ totalErrors = [k \in Keys |-> 0]
    /\ strategy \in Strategies
    /\ roundRobinIdx = 0
    /\ pc = [c \in Callers |-> "idle"]
    /\ op = [c \in Callers |-> "acquire"]
    /\ ep = [c \in Callers |-> 0]
    /\ left = [c \in Callers |-> 0]
    /\ best = [c \in Callers |-> NoBest]
    /\ until = [c \in Callers |-> NoTime]
    /\ retries = [c \in Callers |-> 0]
    /\ detached = {}
    /\ dropped = {}

-----------------------------------------------------------------------------
(***************************************************************************)
(* KeyPool::acquire and KeyPool::all_exhausted scan the endpoints with     *)
(* is_available.  The scan of acquire starts where the strategy says.      *)
(***************************************************************************)
\* A bug this could have, for checking that a property notices it: the loop
\* stops one endpoint short.
BeginScanShort(c, what, start) ==
    /\ pc' = [pc EXCEPT ![c] = "scan"]
    /\ op' = [op EXCEPT ![c] = what]
    /\ ep' = [ep EXCEPT ![c] = start]
    /\ left' = [left EXCEPT ![c] = NumKeys - 1]
    /\ best' = [best EXCEPT ![c] = NoBest]
    /\ UNCHANGED <<keyVars, until, retries, detached, dropped>>

BeginScan(c, what, start) ==
    /\ pc' = [pc EXCEPT ![c] = "scan"]
    /\ op' = [op EXCEPT ![c] = what]
    /\ ep' = [ep EXCEPT ![c] = start]
    /\ left' = [left EXCEPT ![c] = NumKeys]
    /\ best' = [best EXCEPT ![c] = NoBest]
    /\ UNCHANGED <<keyVars, until, retries, detached, dropped>>

Acquire(c) ==
    /\ pc[c] = "idle"
    /\ \/ /\ NumKeys = 1 \/ strategy = "least_errors"
          /\ BeginScan(c, "acquire", 0)
          /\ UNCHANGED <<strategy, roundRobinIdx>>
       \/ /\ NumKeys > 1 /\ strategy = "round_robin"
          /\ BeginScan(c, "acquire", roundRobinIdx)
          /\ roundRobinIdx' = (roundRobinIdx + 1) % NumKeys
          /\ UNCHANGED strategy
       \/ /\ NumKeys > 1 /\ strategy = "random"
          /\ \E start \in Keys : BeginScan(c, "acquire", start)
          /\ UNCHANGED <<strategy, roundRobinIdx>>

\* The provider's loop asks all_exhausted when acquire answered None.
AskExhausted(c) ==
    /\ pc[c] = "none"
    /\ BeginScan(c, "exhausted", 0)
    /\ UNCHANGED <<strategy, roundRobinIdx>>

\* The scan of c ends: acquire answers its best key or None, all_exhausted
\* answers true and the request escalates to the model router.
EndScan(c, choice) ==
    /\ left' = [left EXCEPT ![c] = 0]
    /\ best' = [best EXCEPT ![c] = NoBest]
    /\ \/ /\ op[c] = "acquire" /\ choice.key # NoKey
          /\ ep' = [ep EXCEPT ![c] = choice.key]
          /\ pc' = [pc EXCEPT ![c] = "inflight"]
          /\ retries' = [retries EXCEPT ![c] = 0]
       \/ /\ op[c] = "acquire" /\ choice.key = NoKey
          /\ pc' = [pc EXCEPT ![c] = "none"]
          /\ ep' = [ep EXCEPT ![c] = 0]
          /\ UNCHANGED retries
       \/ /\ op[c] = "exhausted"
          /\ pc' = [pc EXCEPT ![c] = "escalate"]
          /\ ep' = [ep EXCEPT ![c] = 0]
          /\ UNCHANGED retries

\* A bug: the index is not wrapped.
NextEndpointUnwrapped(k) == k + 1

NextEndpoint(k) == (k + 1) % NumKeys

\* On to the next endpoint, or the end of the scan.
Advance(c, choice) ==
    /\ \/ /\ left[c] > 1
          /\ pc' = [pc EXCEPT ![c] = "scan"]
          /\ ep' = [ep EXCEPT ![c] = NextEndpoint(@)]
          /\ left' = [left EXCEPT ![c] = @ - 1]
          /\ best' = [best EXCEPT ![c] = choice]
          /\ UNCHANGED retries
       \/ /\ left[c] <= 1
          /\ EndScan(c, choice)
    /\ UNCHANGED <<strategy, roundRobinIdx, op, until, detached>>

\* is_available answered true for the endpoint c looks at.
FoundAvailable(c) ==
    LET this == [key |-> ep[c], errors |-> totalErrors[ep[c]]]
    IN  \/ /\ op[c] = "acquire" /\ strategy = "least_errors" /\ NumKeys > 1
           /\ Advance(c, IF this.errors < best[c].errors THEN this ELSE best[c])
        \/ /\ op[c] = "acquire" /\ (strategy # "least_errors" \/ NumKeys = 1)
           /\ EndScan(c, this)
           /\ UNCHANGED <<strategy, roundRobinIdx, op, until, detached>>
        \/ /\ op[c] = "exhausted"
           /\ pc' = [pc EXCEPT ![c] = "unkeyed"]
           /\ left' = [left EXCEPT ![c] = 0]
           /\ ep' = [ep EXCEPT ![c] = 0]
           /\ UNCHANGED <<strategy, roundRobinIdx, op, best, until, retries, detached>>

\* is_available, fast path: the unlocked load of healthy.
LoadHealthy(c) ==
    /\ pc[c] = "scan"
    /\ \/ /\ healthy[ep[c]]
          /\ FoundAvailable(c)
       \/ /\ ~healthy[ep[c]]
          /\ pc' = [pc EXCEPT ![c] = "lock"]
          /\ UNCHANGED <<strategy, roundRobinIdx, op, ep, left, best, until, retries, detached>>
    /\ UNCHANGED <<keyVars, dropped>>

\* A bug: the end of the cooldown is cleared before healthy is set, and an
\* early return comes in between.
RecoverHalf(k) ==
    /\ cooldownUntil' = [cooldownUntil EXCEPT ![k] = NoTime]
    /\ consecutiveErrors' = [consecutiveErrors EXCEPT ![k] = 0]
    /\ dropped' = dropped \ {k}
    /\ UNCHANGED <<healthy, cooldownCount, totalErrors>>

\* A bug: consecutive_errors is not reset, so the key is over the threshold.
RecoverKeepingErrors(k) ==
    /\ cooldownUntil' = [cooldownUntil EXCEPT ![k] = NoTime]
    /\ healthy' = [healthy EXCEPT ![k] = TRUE]
    /\ dropped' = dropped \ {k}
    /\ UNCHANGED <<consecutiveErrors, cooldownCount, totalErrors>>

\* What both recovery paths do to a key whose cooldown has run out.
Recover(k) ==
    /\ cooldownUntil' = [cooldownUntil EXCEPT ![k] = NoTime]
    /\ healthy' = [healthy EXCEPT ![k] = TRUE]
    /\ consecutiveErrors' = [consecutiveErrors EXCEPT ![k] = 0]
    /\ dropped' = dropped \ {k}
    /\ UNCHANGED <<cooldownCount, totalErrors>>

\* is_available, slow path: the critical section of cooldown_until.  A key
\* somebody else has recovered in the meantime (cooldown_until is None) still
\* counts as unavailable.
LockAndCheck(c) ==
    /\ pc[c] = "lock"
    /\ \/ /\ cooldownUntil[ep[c]] = 0
          /\ Recover(ep[c])
          /\ FoundAvailable(c)
       \/ /\ cooldownUntil[ep[c]] # 0
          /\ Advance(c, best[c])
          /\ UNCHANGED <<keyVars, dropped>>

-----------------------------------------------------------------------------
(***************************************************************************)
(* The answers of the upstream provider and what the request reports.  A   *)
(* report about an endpoint of a replaced pool reaches that endpoint only, *)
(* which nobody scans any more.                                            *)
(***************************************************************************)

\* The request is through with this endpoint; its locals are gone.
LeavePool(c) ==
    /\ pc' = [pc EXCEPT ![c] = "idle"]
    /\ op' = [op EXCEPT ![c] = "acquire"]
    /\ ep' = [ep EXCEPT ![c] = 0]
    /\ left' = [left EXCEPT ![c] = 0]
    /\ best' = [best EXCEPT ![c] = NoBest]
    /\ retries' = [retries EXCEPT ![c] = 0]
    /\ detached' = detached \ {c}

\* After report_error: a 5xx or a broken connection is retried on the same key
\* a bounded number of times; a 429, a 4xx and the last retry leave the key.
AfterReportError(c, kind) ==
    \/ LeavePool(c)
    \/ /\ kind = "error"
       /\ retries[c] < MaxSameKeyRetries
       /\ retries' = [retries EXCEPT ![c] = @ + 1]
       /\ pc' = [pc EXCEPT ![c] = "inflight"]
       /\ op' = [op EXCEPT ![c] = "acquire"]
       /\ UNCHANGED <<ep, left, best, detached>>

AnswerDetached(c) ==
    /\ pc[c] = "inflight" /\ c \in detached
    /\ \/ LeavePool(c)
       \/ /\ retries[c] < MaxSameKeyRetries
          /\ retries' = [retries EXCEPT ![c] = @ + 1]
          /\ UNCHANGED <<pc, op, ep, left, best, detached>>
    /\ UNCHANGED <<poolVars, until, dropped>>

\* An error answer.  report_error counts it and decides whether the key must
\* cool down; the count is only compared with the threshold, so it stays there.
AnswerError(c, kind) ==
    LET k == ep[c]
        errors == IF consecutiveErrors[k] < MaxConsecutiveErrors
                  THEN consecutiveErrors[k] + 1 ELSE MaxConsecutiveErrors
        cools == kind = "rate_limit" \/ errors >= MaxConsecutiveErrors
    IN  /\ pc[c] = "inflight" /\ c \notin detached
        /\ totalErrors[k] < TotalErrorsBound \/ strategy # "least_errors"
        /\ totalErrors' = IF strategy = "least_errors"
                          THEN [totalErrors EXCEPT ![k] = @ + 1] ELSE totalErrors
        /\ consecutiveErrors' = [consecutiveErrors EXCEPT ![k] = errors]
        /\ \/ /\ cools
              /\ pc' = [pc EXCEPT ![c] = "escalating"]
              /\ op' = [op EXCEPT ![c] = kind]
              /\ UNCHANGED <<ep, left, best, retries, detached>>
           \/ /\ ~cools
              /\ AfterReportError(c, kind)
        /\ UNCHANGED <<healthy, cooldownCount, cooldownUntil, strategy, roundRobinIdx,
                       until, dropped>>

\* report_error: cooldown_count.fetch_add and the end of the cooldown.
Escalate(c) ==
    LET k == ep[c]
    IN  /\ pc[c] = "escalating"
        /\ cooldownCount' = [cooldownCount EXCEPT ![k] = IF @ < EscalationBound THEN @ + 1 ELSE @]
        /\ until' = [until EXCEPT ![c] = Cooldown(op[c], cooldownCount[k] + 1)]
        /\ pc' = [pc EXCEPT ![c] = "cool"]
        /\ UNCHANGED <<healthy, consecutiveErrors, cooldownUntil, totalErrors,
                       strategy, roundRobinIdx, op, ep, left, best, retries, detached, dropped>>

\* report_error: the critical section that starts the cooldown.
CoolDown(c) ==
    /\ pc[c] = "cool"
    /\ cooldownUntil' = [cooldownUntil EXCEPT ![ep[c]] = until[c]]
    /\ healthy' = [healthy EXCEPT ![ep[c]] = FALSE]
    /\ until' = [until EXCEPT ![c] = NoTime]
    /\ dropped' = dropped \ {ep[c]}
    /\ AfterReportError(c, op[c])
    /\ UNCHANGED <<consecutiveErrors, cooldownCount, totalErrors, strategy, roundRobinIdx>>

\* A success.  report_success looks at the cooldown under the lock ...
AnswerOk(c) ==
    /\ pc[c] = "inflight" /\ c \notin detached
    /\ \/ /\ CoolingDown(ep[c])
          /\ LeavePool(c)
       \/ /\ ~CoolingDown(ep[c])
          /\ pc' = [pc EXCEPT ![c] = "resetErrors"]
          /\ UNCHANGED <<op, ep, left, best, retries, detached>>
    /\ UNCHANGED <<poolVars, until, dropped>>

\* ... and the three stores happen after it was released.
ResetErrors(c) ==
    /\ pc[c] = "resetErrors"
    /\ consecutiveErrors' = [consecutiveErrors EXCEPT ![ep[c]] = 0]
    /\ pc' = [pc EXCEPT ![c] = "resetCount"]
    /\ UNCHANGED <<healthy, cooldownCount, cooldownUntil, totalErrors,
                   strategy, roundRobinIdx, op, ep, left, best, until, retries, detached, dropped>>

ResetCount(c) ==
    /\ pc[c] = "resetCount"
    /\ cooldownCount' = [cooldownCount EXCEPT ![ep[c]] = 0]
    /\ pc' = [pc EXCEPT ![c] = "markHealthy"]
    /\ UNCHANGED <<healthy, consecutiveErrors, cooldownUntil, totalErrors,
                   strategy, roundRobinIdx, op, ep, left, best, until, retries, detached, dropped>>

MarkHealthy(c) ==
    /\ pc[c] = "markHealthy"
    /\ healthy' = [healthy EXCEPT ![ep[c]] = TRUE]
    /\ LeavePool(c)
    /\ UNCHANGED <<consecutiveErrors, cooldownCount, cooldownUntil, totalErrors,
                   strategy, roundRobinIdx, until, dropped>>

\* The request escalated, or sent its request without a key and got an answer
\* it reports to nobody: the next thing it asks of the pool is a fresh key.
LeaveVerdict(c) ==
    /\ pc[c] \in {"escalate", "unkeyed"}
    /\ LeavePool(c)
    /\ UNCHANGED <<poolVars, until, dropped>>

\* The client hangs up: the response body is dropped at an await point, which
\* the waits for a lock are.
Disconnect(c) ==
    /\ pc[c] \in {"lock", "none", "inflight", "cool"}
    /\ LeavePool(c)
    /\ until' = [until EXCEPT ![c] = NoTime]
    /\ dropped' = IF pc[c] = "cool" THEN dropped \cup {ep[c]} ELSE dropped
    /\ UNCHANGED poolVars

-----------------------------------------------------------------------------
(***************************************************************************)
(* The recovery task, a reload, and time.                                  *)
(***************************************************************************)
\* A bug: is_some for is_some_and(now >= until).
RecoverUnexpired(k) ==
    /\ cooldownUntil[k] # NoTime
    /\ Recover(k)
    /\ UNCHANGED <<strategy, roundRobinIdx, callerVars>>

RecoverExpired(k) ==
    /\ cooldownUntil[k] = 0
    /\ Recover(k)
    /\ UNCHANGED <<strategy, roundRobinIdx, callerVars>>

\* KeyPoolManager::reload rebuilds the pool with fresh endpoints and, maybe,
\* another strategy once it has the write lock; requests in flight keep the
\* endpoint they hold.
Reload ==
    /\ \A c \in Callers : pc[c] \in {"idle", "none", "unkeyed", "escalate", "inflight"}
    /\ healthy' = [k \in Keys |-> TRUE]
    /\ consecutiveErrors' = [k \in Keys |-> 0]
    /\ cooldownCount' = [k \in Keys |-> 0]
    /\ cooldownUntil' = [k \in Keys |-> NoTime]
    /\ totalErrors' = [k \in Keys |-> 0]
    /\ strategy' \in Strategies
    /\ roundRobinIdx' = 0
    /\ detached' = {c \in Callers : pc[c] = "inflight"}
    /\ dropped' = {}
    /\ UNCHANGED <<pc, op, ep, left, best, until, retries>>

Elapse(t) == IF t > 0 THEN t - 1 ELSE t

Tick ==
    /\ cooldownUntil' = [k \in Keys |-> Elapse(cooldownUntil[k])]
    /\ until' = [c \in Callers |-> Elapse(until[c])]
    /\ UNCHANGED <<healthy, consecutiveErrors, cooldownCount, totalErrors,
                   strategy, roundRobinIdx, pc, op, ep, left, best, retries, detached, dropped>>

CallerStep(c) ==
    \/ Acquire(c) \/ AskExhausted(c) \/ LoadHealthy(c) \/ LockAndCheck(c)
    \/ AnswerOk(c) \/ AnswerDetached(c)
    \/ \E kind \in {"rate_limit", "error"} : AnswerError(c, kind)
    \/ Escalate(c) \/ CoolDown(c) \/ ResetErrors(c) \/ ResetCount(c) \/ MarkHealthy(c)
    \/ LeaveVerdict(c) \/ Disconnect(c)

Next ==
    \/ \E c \in Callers : CallerStep(c)
    \/ \E k \in Keys : RecoverExpired(k)
    \/ Reload
    \/ Tick

Spec == Init /\ [][Next]_vars

\* Time passes and the recovery task, which never returns, keeps coming back to
\* every key.  Nothing is assumed of the clients, the provider or a reload.
Fairness == WF_vars(Tick) /\ \A k \in Keys : WF_vars(RecoverExpired(k))

FairSpec == Spec /\ Fairness

-----------------------------------------------------------------------------
(***************************************************************************)
(* Properties.                                                             *)
(***************************************************************************)

\* A key out of rotation always has a cooldown end to bring it back: both
\* recovery paths act only on keys whose cooldown_until is set, so an unhealthy
\* key without one would be lost until the next reload.
NoKeyStranded == \A k \in Keys : ~healthy[k] => cooldownUntil[k] # NoTime

Reporting(c, k) == pc[c] \in {"escalating", "cool"} /\ ep[c] = k

\* A key that has failed max_consecutive_errors times in a row is cooling down,
\* or a request is on its way to make it so, whatever successes, recoveries
\* and disconnects run alongside (dropped: the report was cancelled half way).
ErrorThresholdCools ==
    \A k \in Keys : consecutiveErrors[k] >= MaxConsecutiveErrors =>
        \/ cooldownUntil[k] # NoTime
        \/ \E c \in Callers : Reporting(c, k)
        \/ k \in dropped

\* A cooldown that has not run out is never forgotten: a late success, a scan
\* or the recovery task may not erase it, only a reload may.
CooldownRunsOut ==
    [][\A k \in Keys : CoolingDown(k) => cooldownUntil'[k] # NoTime \/ Reload]_vars

\* Every key placed on cooldown rejoins the pool, however its users behave.
KeyRejoins == \A k \in Keys : ~healthy[k] ~> healthy[k]

\* README: a key that hits a 429 "is temporarily placed on a smart cooldown and
\* skipped until it recovers": no step hands out a key that is cooling down.
CoolingKeySkipped ==
    [][\A c \in Callers : pc[c] # "inflight" /\ pc'[c] = "inflight" /\ op[c] = "acquire"
                              => ~CoolingDown(ep'[c])]_vars

\* README: on a rate limit "the proxy then transparently rotates to the next
\* healthy key": a request to a provider with a pool goes out with one of its
\* keys or, when all of them cool down, escalates without being sent.
NoUnkeyedAttempt == \A c \in Callers : pc[c] # "unkeyed"
=============================================================================
