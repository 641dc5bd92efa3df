-------------------------- MODULE ModelRouterProofs ---------------------------
(***************************************************************************)
(* ModelRouter for any mapping of tiers to models and any requests.        *)
(*                                                                         *)
(* A model leaves the rotation together with the end of its cooldown, and  *)
(* nothing takes that end away without bringing the model back.  A search  *)
(* for a fallback looks at every position of its tier once: the positions  *)
(* behind it are those of models it could not use.                         *)
(*                                                                         *)
(* It therefore ends, and it passes over the model that failed.            *)
(***************************************************************************)
EXTENDS ModelRouter, TLAPS

Size(t) == Len(Mapping[t])

LEMMA Constants ==
    /\ "default" \in Tiers
    /\ \A t \in Tiers : /\ Mapping[t] \in Seq(Specs) /\ Size(t) \in Nat /\ Size(t) > 0
                        /\ DOMAIN Mapping[t] = 1 .. Size(t)
                        /\ \A i \in 1 .. Size(t) : Mapping[t][i] \in Specs
    /\ Strategies \subseteq {"round_robin", "random", "least_errors"}
    /\ CooldownSeconds \in Nat \ {0} /\ MaxConsecutiveErrors \in Nat \ {0}
    /\ ToolRetryMax \in Nat
<1>1. \A t \in Tiers : Mapping[t] \in Seq(Specs) /\ Mapping[t] # <<>>
  BY ModelRouterAssumption DEF ModelRouterAssumption
<1>2. ASSUME NEW t \in Tiers
      PROVE  /\ Size(t) \in Nat /\ Size(t) > 0 /\ DOMAIN Mapping[t] = 1 .. Size(t)
             /\ \A i \in 1 .. Size(t) : Mapping[t][i] \in Specs
  BY <1>1 DEF Size
<1>3. QED
  BY <1>1, <1>2, ModelRouterAssumption DEF ModelRouterAssumption

LEMMA EndpointFacts ==
    /\ \A t \in Tiers : \A i \in 1 .. Size(t) : <<t, i>> \in Endpoints
    /\ \A e \in Endpoints : e[1] \in Tiers /\ e[2] \in 1 .. Size(e[1]) /\ e = <<e[1], e[2]>>
BY Constants DEF Endpoints

\* The next position, and the first one after the last.
LEMMA AfterFacts ==
    ASSUME NEW t \in Tiers, NEW i \in 1 .. Size(t)
    PROVE  After(t, i) \in 1 .. Size(t) /\ (i < Size(t) => After(t, i) = i + 1)
<1>1. PICK n : n = Size(t)
  OBVIOUS
<1>2. n \in Nat /\ n > 0 /\ i \in 1 .. n
  BY <1>1, Constants
<1>3. i % n \in 0 .. n - 1
  BY <1>2
<1>4. i < n => i % n = i
  BY <1>2
<1>5. After(t, i) = (i % n) + 1
  BY <1>1 DEF After, Size
<1>6. QED
  BY <1>1, <1>2, <1>3, <1>4, <1>5

-----------------------------------------------------------------------------
(***************************************************************************)
(* Models out of rotation.                                                 *)
(***************************************************************************)
HealthTyped ==
    /\ healthy \in [Endpoints -> BOOLEAN]
    /\ errors \in [Endpoints -> 0 .. MaxConsecutiveErrors]
    /\ cooldownUntil \in [Endpoints -> NoTime .. CooldownSeconds]

HealthInv == HealthTyped /\ NoModelStranded

LEMMA Ranges ==
    /\ 0 \in 0 .. MaxConsecutiveErrors
    /\ NoTime \in NoTime .. CooldownSeconds /\ CooldownSeconds \in NoTime .. CooldownSeconds
BY Constants DEF NoTime

RequestStep(r) == Resolve(r) \/ Proceed(r) \/ Disconnect(r)

LEMMA InitHealth == Init => HealthInv
<1> SUFFICES ASSUME Init PROVE HealthInv
  OBVIOUS
<1>1. healthy \in [Endpoints -> BOOLEAN]
  BY DEF Init, Fresh
<1>2. errors \in [Endpoints -> 0 .. MaxConsecutiveErrors]
  BY Constants DEF Init, Fresh
<1>3. cooldownUntil \in [Endpoints -> NoTime .. CooldownSeconds]
  BY Constants DEF Init, Fresh, NoTime
<1>4. NoModelStranded
  BY DEF Init, Fresh, NoModelStranded
<1>5. QED
  BY <1>1, <1>2, <1>3, <1>4 DEF HealthInv, HealthTyped

LEMMA RecoverHealth ==
    ASSUME HealthInv, NEW e, Recover(e) PROVE HealthInv'
<1>1. HealthTyped'
  BY Ranges DEF HealthInv, HealthTyped, Recover
<1>2. NoModelStranded'
  BY DEF HealthInv, HealthTyped, NoModelStranded, Recover
<1>3. QED
  BY <1>1, <1>2 DEF HealthInv

LEMMA CoolDownHealth ==
    ASSUME HealthInv, NEW r, CoolDown(r) PROVE HealthInv'
<1>1. PICK e : e = Charged(model[r])
  OBVIOUS
<1>2. /\ cooldownUntil' = [cooldownUntil EXCEPT ![e] = CooldownSeconds]
      /\ healthy' = [healthy EXCEPT ![e] = FALSE] /\ errors' = errors
  BY <1>1 DEF CoolDown
<1>3. HealthTyped'
  BY <1>2, Ranges DEF HealthInv, HealthTyped
<1>4. NoModelStranded'
  <2>1. CooldownSeconds # NoTime
    BY Constants DEF NoTime
  <2>2. QED
    BY <1>2, <2>1 DEF HealthInv, HealthTyped, NoModelStranded
<1>5. QED
  BY <1>3, <1>4 DEF HealthInv

LEMMA CountHealth ==
    ASSUME HealthInv, NEW r, CountError(r) \/ ResetErrors(r) PROVE HealthInv'
<1>1. PICK e : e = Charged(model[r])
  OBVIOUS
<1>2. PICK n : n = IF errors[e] < MaxConsecutiveErrors THEN errors[e] + 1 ELSE errors[e]
  OBVIOUS
<1>3. /\ errors' = [errors EXCEPT ![e] = n] \/ errors' = [errors EXCEPT ![e] = 0]
      /\ UNCHANGED <<healthy, cooldownUntil>>
  BY <1>1, <1>2 DEF CountError, ResetErrors
<1>4. e \in Endpoints => n \in 0 .. MaxConsecutiveErrors
  BY <1>2, Constants DEF HealthInv, HealthTyped
<1>5. HealthTyped'
  BY <1>3, <1>4, Ranges DEF HealthInv, HealthTyped
<1>6. NoModelStranded'
  BY <1>3 DEF HealthInv, NoModelStranded
<1>7. QED
  BY <1>5, <1>6 DEF HealthInv

LEMMA StepHealth == HealthInv /\ [Next]_vars => HealthInv'
<1> SUFFICES ASSUME HealthInv, [Next]_vars PROVE HealthInv'
  OBVIOUS
<1>1. ASSUME UNCHANGED <<healthy, errors, cooldownUntil>> PROVE HealthInv'
  BY <1>1 DEF HealthInv, HealthTyped, NoModelStranded
<1>2. ASSUME NEW r \in Requests, RequestStep(r) PROVE HealthInv'
  <2>1. CASE Resolve(r) \/ NextFallback(r) \/ LoadHealthy(r) \/ Succeed(r) \/ GiveUp(r)
                \/ ClientError(r) \/ LastResort(r) \/ Disconnect(r)
    BY <2>1, <1>1 DEF Resolve, NextFallback, LoadHealthy, Succeed, GiveUp, ClientError,
                      LastResort, Disconnect, routerVars
  <2>2. CASE LockAndCheck(r)
    BY <2>2, <1>1, RecoverHealth DEF LockAndCheck
  <2>3. CASE ResetErrors(r) \/ CountError(r)
    BY <2>3, CountHealth
  <2>4. CASE MarkHealthy(r)
    <3>1. PICK e : e = Charged(model[r])
      OBVIOUS
    <3>2. healthy' = [healthy EXCEPT ![e] = TRUE] /\ UNCHANGED <<errors, cooldownUntil>>
      BY <2>4, <3>1 DEF MarkHealthy
    <3>3. HealthTyped'
      BY <3>2 DEF HealthInv, HealthTyped
    <3>4. NoModelStranded'
      BY <3>2 DEF HealthInv, HealthTyped, NoModelStranded
    <3>5. QED
      BY <3>3, <3>4 DEF HealthInv
  <2>5. CASE CoolDown(r)
    BY <2>5, CoolDownHealth
  <2>6. QED
    BY <1>2, <2>1, <2>2, <2>3, <2>4, <2>5 DEF RequestStep, Proceed
<1>3. CASE Reload
  <2>1. healthy' = Fresh(TRUE) /\ errors' = Fresh(0) /\ cooldownUntil' = Fresh(NoTime)
    BY <1>3 DEF Reload
  <2>2. healthy' \in [Endpoints -> BOOLEAN] /\ NoModelStranded'
    BY <2>1 DEF Fresh, NoModelStranded
  <2>3. errors' \in [Endpoints -> 0 .. MaxConsecutiveErrors]
    BY <2>1, Constants DEF Fresh
  <2>4. cooldownUntil' \in [Endpoints -> NoTime .. CooldownSeconds]
    BY <2>1, Constants DEF Fresh, NoTime
  <2>5. QED
    BY <2>2, <2>3, <2>4 DEF HealthInv, HealthTyped
<1>4. CASE Tick
  <2>1. /\ cooldownUntil' = [e \in Endpoints |->
               IF cooldownUntil[e] > 0 THEN cooldownUntil[e] - 1 ELSE cooldownUntil[e]]
        /\ UNCHANGED <<healthy, errors>>
    BY <1>4 DEF Tick
  <2>2. ASSUME NEW e \in Endpoints
        PROVE  /\ cooldownUntil'[e] \in NoTime .. CooldownSeconds
               /\ cooldownUntil[e] # NoTime => cooldownUntil'[e] # NoTime
    BY <2>1, Constants DEF HealthInv, HealthTyped, NoTime
  <2>3. HealthTyped'
    BY <2>1, <2>2 DEF HealthInv, HealthTyped
  <2>4. NoModelStranded'
    BY <2>1, <2>2 DEF HealthInv, NoModelStranded
  <2>5. QED
    BY <2>3, <2>4 DEF HealthInv
<1>5. CASE (\E p \in Pooled : PoolChanges(p)) \/ UNCHANGED vars
  BY <1>5, <1>1 DEF PoolChanges, vars, routerVars
<1>6. QED
  BY <1>2, <1>3, <1>4, <1>5 DEF Next, RequestStep

\* model_router.rs report_error_by_spec, is_available, report_success_by_spec: a
\* model out of rotation has a cooldown end that brings it back.
THEOREM NoneStranded == Spec => []NoModelStranded
<1>1. HealthInv => NoModelStranded
  BY DEF HealthInv
<1>2. QED
  BY <1>1, InitHealth, StepHealth, PTL DEF Spec

-----------------------------------------------------------------------------
(***************************************************************************)
(* What a request remembers.                                               *)
(***************************************************************************)
Places == Scanning \cup {"idle", "attempt", "resetErrors", "markHealthy",
                         "failed", "cool", "fallback", "none"}
Scans == [for : {"resolve", "fallback"}, at : Nat, left : Nat, best : Nat, errors : Nat]

LocalsTyped ==
    /\ pc \in [Requests -> Places] /\ kind \in [Requests -> {"stream", "whole"}]
    /\ tier \in [Requests -> Tiers] /\ model \in [Requests -> Specs]
    /\ retries \in [Requests -> 0 .. ToolRetryMax] /\ scan \in [Requests -> Scans]

Within(s, t) == s.at \in 1 .. Size(t) /\ s.left \in 0 .. Size(t) /\ s.best \in 0 .. Size(t)

\* A search for a fallback begins at the top of its tier and moves one by one.
InStep(place, s, t) ==
    place \in Scanning /\ s.for = "fallback"
        => s.left >= 1 /\ s.best = 0 /\ s.at + s.left = Size(t) + 1

LocalsInv ==
    /\ LocalsTyped
    /\ \A r \in Requests : Within(scan[r], tier[r]) /\ InStep(pc[r], scan[r], tier[r])

Others(r) ==
    \A u \in Requests \ {r} : /\ pc'[u] = pc[u] /\ scan'[u] = scan[u]
                              /\ tier'[u] = tier[u] /\ model'[u] = model[u]

\* A step of a request leaves the other requests where they are.
LEMMA Rest ==
    ASSUME LocalsInv, LocalsTyped', NEW r \in Requests, Others(r),
           Within(scan'[r], tier'[r]), InStep(pc'[r], scan'[r], tier'[r])
    PROVE  LocalsInv'
<1>1. ASSUME NEW u \in Requests
      PROVE  Within(scan'[u], tier'[u]) /\ InStep(pc'[u], scan'[u], tier'[u])
  BY <1>1 DEF LocalsInv, Others
<1>2. QED
  BY <1>1 DEF LocalsInv, Within, InStep, Size

\* What a request's own locals are.
LEMMA Own ==
    ASSUME LocalsInv, NEW r \in Requests
    PROVE  /\ pc[r] \in Places /\ scan[r] \in Scans /\ tier[r] \in Tiers /\ model[r] \in Specs
           /\ Within(scan[r], tier[r]) /\ InStep(pc[r], scan[r], tier[r])
BY DEF LocalsInv, LocalsTyped

\* A request that moves outside the scans.
LEMMA MoveFacts ==
    ASSUME LocalsInv, NEW r \in Requests, NEW p \in Places \ Scanning, MoveTo(r, p),
           UNCHANGED <<kind, tier, model, retries, scan>>
    PROVE  LocalsInv' /\ Others(r) /\ pc'[r] = p
<1>1. LocalsTyped' /\ Others(r) /\ pc'[r] = p
  BY DEF MoveTo, LocalsInv, LocalsTyped, Others
<1>2. Within(scan'[r], tier'[r]) /\ InStep(pc'[r], scan'[r], tier'[r])
  <2>1. Within(scan[r], tier[r])
    BY Own
  <2>2. scan'[r] = scan[r] /\ tier'[r] = tier[r]
    OBVIOUS
  <2>3. QED
    BY <1>1, <2>1, <2>2 DEF InStep
<1>3. QED
  BY <1>1, <1>2, Rest

LEMMA NoScanFacts ==
    /\ NoScan \in Scans /\ NoScan.for = "resolve"
    /\ \A t \in Tiers : Within(NoScan, t)
    /\ \A t, p : InStep(p, NoScan, t)
BY Constants DEF NoScan, Scans, Within, InStep

LEMMA LeaveFacts ==
    ASSUME LocalsInv, NEW r \in Requests, Leave(r)
    PROVE  LocalsInv' /\ Others(r) /\ pc'[r] = "idle"
<1>1. "default" \in Tiers /\ Mapping["default"][1] \in Specs /\ 0 \in 0 .. ToolRetryMax
  BY Constants
<1>2. /\ pc' = [pc EXCEPT ![r] = "idle"] /\ kind' = [kind EXCEPT ![r] = "stream"]
      /\ tier' = [tier EXCEPT ![r] = "default"]
      /\ model' = [model EXCEPT ![r] = Mapping["default"][1]]
      /\ retries' = [retries EXCEPT ![r] = 0] /\ scan' = [scan EXCEPT ![r] = NoScan]
  BY DEF Leave, MoveTo
<1>3. LocalsTyped'
  <2>1. "idle" \in Places /\ NoScan \in Scans
    BY NoScanFacts DEF Places
  <2>2. QED
    BY <1>1, <1>2, <2>1 DEF LocalsInv, LocalsTyped
<1>4. /\ Others(r) /\ pc'[r] = "idle" /\ scan'[r] = NoScan /\ tier'[r] = "default"
  BY <1>2 DEF LocalsInv, LocalsTyped, Others
<1>5. Within(scan'[r], tier'[r]) /\ InStep(pc'[r], scan'[r], tier'[r])
  BY <1>1, <1>4, NoScanFacts
<1>6. QED
  BY <1>3, <1>4, <1>5, Rest

\* A scan that ends: the model it found, or none.
LEMMA EndFacts ==
    ASSUME LocalsInv, NEW r \in Requests, NEW p \in {"attempt", "none"},
           MoveTo(r, p), scan' = [scan EXCEPT ![r] = NoScan],
           model' = model \/ \E i \in 1 .. Size(tier[r]) : model' = [model EXCEPT ![r] = Mapping[tier[r]][i]],
           UNCHANGED <<kind, tier, retries>>
    PROVE  LocalsInv' /\ Others(r) /\ pc'[r] = p
<1>1. tier[r] \in Tiers
  BY Own
<1>2. \A i \in 1 .. Size(tier[r]) : Mapping[tier[r]][i] \in Specs
  BY <1>1, Constants
<1>3. model' \in [Requests -> Specs] /\ \A u \in Requests \ {r} : model'[u] = model[u]
  BY <1>2 DEF LocalsInv, LocalsTyped
<1>4. LocalsTyped'
  <2>1. p \in Places /\ NoScan \in Scans
    BY NoScanFacts DEF Places
  <2>2. QED
    BY <1>3, <2>1 DEF MoveTo, LocalsInv, LocalsTyped
<1>5. Others(r) /\ pc'[r] = p /\ scan'[r] = NoScan /\ tier'[r] = tier[r]
  BY <1>3 DEF MoveTo, LocalsInv, LocalsTyped, Others
<1>6. Within(scan'[r], tier'[r]) /\ InStep(pc'[r], scan'[r], tier'[r])
  BY <1>1, <1>5, NoScanFacts
<1>7. QED
  BY <1>4, <1>5, <1>6, Rest

LEMMA TakeFacts ==
    ASSUME LocalsInv, NEW r \in Requests, NEW position \in 1 .. Size(tier[r]),
           Take(r, position), UNCHANGED <<kind, tier, retries>>
    PROVE  LocalsInv' /\ Others(r) /\ pc'[r] = "attempt"
<1>1. /\ MoveTo(r, "attempt") /\ scan' = [scan EXCEPT ![r] = NoScan]
      /\ \E i \in 1 .. Size(tier[r]) : model' = [model EXCEPT ![r] = Mapping[tier[r]][i]]
  BY DEF Take
<1>2. QED
  BY <1>1, EndFacts

\* The scan as it is after a step that did not end it.
LEMMA AdvanceFacts ==
    ASSUME LocalsInv, NEW r \in Requests, pc[r] \in Scanning,
           NEW best \in 0 .. Size(tier[r]), NEW fewest \in Nat,
           scan[r].for = "fallback" => best = 0,
           Advance(r, best, fewest), UNCHANGED <<kind, tier, retries>>
    PROVE  /\ LocalsInv' /\ Others(r)
           /\ \/ pc'[r] = "attempt"
              \/ pc'[r] = "none" /\ scan[r].for = "fallback" /\ scan[r].at = Size(tier[r])
              \/ /\ pc'[r] = "scan" /\ scan'[r].for = scan[r].for
                 /\ tier'[r] = tier[r] /\ model'[r] = model[r]
                 /\ scan[r].for = "fallback" => scan'[r].at = scan[r].at + 1
<1>1. PICK t : t = tier[r]
  OBVIOUS
<1>2. /\ t \in Tiers /\ scan[r] \in Scans /\ Within(scan[r], t) /\ Size(t) \in Nat /\ Size(t) > 0
      /\ InStep(pc[r], scan[r], t)
  BY <1>1, Own, Constants
<1>3. CASE scan[r].left > 1
  <2>1. PICK s : s = [scan[r] EXCEPT !.at = After(t, @), !.left = @ - 1, !.best = best,
                                     !.errors = fewest]
    OBVIOUS
  <2>2. scan[r].at \in 1 .. Size(t) /\ scan[r].left \in 0 .. Size(t)
    BY <1>2 DEF Within
  <2>3. /\ After(t, scan[r].at) \in 1 .. Size(t)
        /\ scan[r].at < Size(t) => After(t, scan[r].at) = scan[r].at + 1
    BY <1>2, <2>2, AfterFacts
  <2>4. /\ s.for = scan[r].for /\ s.at = After(t, scan[r].at) /\ s.left = scan[r].left - 1
        /\ s.best = best /\ s \in Scans
    <3>1. s.for = scan[r].for /\ s.at = After(t, scan[r].at) /\ s.left = scan[r].left - 1 /\ s.best = best
      BY <1>2, <2>1 DEF Scans
    <3>2. After(t, scan[r].at) \in Nat /\ scan[r].left - 1 \in Nat /\ best \in Nat
      BY <1>1, <1>2, <1>3, <2>2, <2>3
    <3>3. s \in Scans
      BY <1>2, <2>1, <3>2 DEF Scans
    <3>4. QED
      BY <3>1, <3>3
  <2>5. Within(s, t)
    BY <1>1, <1>2, <1>3, <2>2, <2>3, <2>4 DEF Within
  <2>6. scan[r].for = "fallback" => scan[r].at < Size(t)
    BY <1>2, <1>3, <2>2 DEF InStep
  <2>7. InStep("scan", s, t)
    BY <1>2, <1>3, <2>2, <2>3, <2>4, <2>6 DEF InStep
  <2>8. /\ scan' = [scan EXCEPT ![r].at = After(tier[r], @), ![r].left = @ - 1,
                               ![r].best = best, ![r].errors = fewest]
        /\ pc' = [pc EXCEPT ![r] = "scan"] /\ model' = model
    <3>1. ~ scan[r].left <= 1
      BY <1>2, <1>3, <2>2
    <3>2. QED
      BY <1>3, <3>1 DEF Advance, MoveTo
  <2>9. scan' = [scan EXCEPT ![r] = s]
    BY <1>1, <2>1, <2>8 DEF LocalsInv, LocalsTyped, Scans
  <2>10. LocalsTyped'
    <3>1. "scan" \in Places
      BY DEF Places, Scanning
    <3>2. scan' \in [Requests -> Scans]
      BY <2>4, <2>9 DEF LocalsInv, LocalsTyped
    <3>3. pc' \in [Requests -> Places]
      BY <2>8, <3>1 DEF LocalsInv, LocalsTyped
    <3>4. UNCHANGED <<kind, tier, model, retries>>
      BY <2>8
    <3>5. QED
      BY <3>2, <3>3, <3>4 DEF LocalsInv, LocalsTyped
  <2>11. /\ Others(r) /\ pc'[r] = "scan" /\ scan'[r] = s
         /\ tier'[r] = tier[r] /\ model'[r] = model[r]
    BY <2>8, <2>9 DEF LocalsInv, LocalsTyped, Others
  <2>12. LocalsInv'
    BY <1>1, <2>5, <2>7, <2>10, <2>11, Rest
  <2>13. QED
    BY <2>3, <2>4, <2>6, <2>11, <2>12
<1>4. CASE scan[r].left <= 1
  <2>1. EndScan(r, best)
    <3>1. ~ scan[r].left > 1
      BY <1>2, <1>4 DEF Within
    <3>2. QED
      BY <3>1 DEF Advance
  <2>2. CASE best # 0 /\ Take(r, best)
    BY <1>1, <1>2, <2>2, TakeFacts
  <2>3. CASE Take(r, 1)
    BY <1>1, <1>2, <2>3, TakeFacts
  <2>4. CASE /\ best = 0 /\ scan[r].for = "fallback" /\ MoveTo(r, "none")
             /\ scan' = [scan EXCEPT ![r] = NoScan] /\ UNCHANGED model
    <3>1. LocalsInv' /\ Others(r) /\ pc'[r] = "none"
      BY <2>4, EndFacts
    <3>2. scan[r].at = Size(t)
      BY <1>2, <1>4, <2>4 DEF InStep, Within
    <3>3. QED
      BY <1>1, <2>4, <3>1, <3>2
  <2>5. QED
    BY <2>1, <2>2, <2>3, <2>4 DEF EndScan
<1>5. QED
  BY <1>2, <1>3, <1>4 DEF Scans

\* The position r looks at is of no use to it.
Useless(r) == pc[r] = "lock" \/ SpecOf(LookedAt(r)) = model[r]

\* What one look does to a search for a fallback.
Looks(r) ==
    /\ pc[r] \in Scanning
    /\ \/ pc'[r] = "attempt"
       \/ /\ pc'[r] = "none" /\ scan[r].for = "fallback"
          /\ scan[r].at = Size(tier[r]) /\ Useless(r)
       \/ /\ pc'[r] = "scan" /\ scan'[r].for = scan[r].for
          /\ tier'[r] = tier[r] /\ model'[r] = model[r]
          /\ scan[r].for = "fallback" => scan'[r].at = scan[r].at + 1 /\ Useless(r)
       \/ /\ pc'[r] = "lock" /\ scan'[r] = scan[r]
          /\ tier'[r] = tier[r] /\ model'[r] = model[r]
          /\ pc[r] = "scan" /\ ~healthy[LookedAt(r)] /\ healthy' = healthy

LEMMA PassFacts ==
    ASSUME LocalsInv, NEW r \in Requests, pc[r] \in Scanning, Pass(r),
           scan[r].for = "fallback" => Useless(r), UNCHANGED <<kind, tier, retries>>
    PROVE  LocalsInv' /\ Others(r) /\ Looks(r)
<1>1. scan[r].best \in 0 .. Size(tier[r]) /\ scan[r].errors \in Nat
  BY Own DEF Within, Scans
<1>2. scan[r].for = "fallback" => scan[r].best = 0
  BY Own DEF InStep
<1>3. QED
  BY <1>1, <1>2, AdvanceFacts DEF Pass, Looks

LEMMA LookedAtFacts ==
    ASSUME LocalsInv, NEW r \in Requests
    PROVE  LookedAt(r) \in Endpoints /\ LookedAt(r)[2] \in 1 .. Size(tier[r])
BY Own, EndpointFacts DEF LookedAt, Within

LEMMA FoundFacts ==
    ASSUME LocalsInv, NEW r \in Requests, pc[r] \in Scanning, NEW count \in Nat,
           Found(r, LookedAt(r), count), UNCHANGED <<kind, tier, retries>>
    PROVE  LocalsInv' /\ Others(r) /\ Looks(r)
<1>1. LookedAt(r)[2] \in 1 .. Size(tier[r])
  BY LookedAtFacts
<1>2. CASE scan[r].for = "resolve" /\ strategy = "least_errors" /\ count < scan[r].errors
  <2>1. Advance(r, LookedAt(r)[2], count)
    BY <1>2 DEF Found
  <2>2. LookedAt(r)[2] \in 0 .. Size(tier[r]) /\ scan[r].for # "fallback"
    BY <1>1, <1>2, Own, Constants
  <2>3. QED
    BY <2>1, <2>2, AdvanceFacts DEF Looks
<1>3. CASE scan[r].for = "resolve" /\ strategy = "least_errors" /\ ~(count < scan[r].errors)
  <2>1. Pass(r) /\ scan[r].for # "fallback"
    BY <1>3 DEF Found
  <2>2. QED
    BY <2>1, PassFacts
<1>4. CASE ~(scan[r].for = "resolve" /\ strategy = "least_errors")
  <2>1. Take(r, LookedAt(r)[2])
    BY <1>4 DEF Found
  <2>2. QED
    BY <1>1, <2>1, TakeFacts DEF Looks
<1>5. QED
  BY <1>2, <1>3, <1>4

LEMMA LookFacts ==
    ASSUME LocalsInv, HealthTyped, NEW r \in Requests, LoadHealthy(r) \/ LockAndCheck(r)
    PROVE  LocalsInv' /\ Others(r) /\ Looks(r)
<1>1. CASE LoadHealthy(r)
  <2>1. /\ pc[r] = "scan" /\ UNCHANGED <<routerVars, kind, tier, retries>>
        /\ \/ scan[r].for = "fallback" /\ SpecOf(LookedAt(r)) = model[r] /\ Pass(r)
           \/ healthy[LookedAt(r)] /\ Found(r, LookedAt(r), errors[LookedAt(r)])
           \/ ~healthy[LookedAt(r)] /\ MoveTo(r, "lock") /\ UNCHANGED <<scan, model>>
    BY <1>1 DEF LoadHealthy
  <2>2. pc[r] \in Scanning
    BY <2>1 DEF Scanning
  <2>3. CASE scan[r].for = "fallback" /\ SpecOf(LookedAt(r)) = model[r] /\ Pass(r)
    BY <2>1, <2>2, <2>3, PassFacts DEF Useless
  <2>4. CASE healthy[LookedAt(r)] /\ Found(r, LookedAt(r), errors[LookedAt(r)])
    <3>1. errors[LookedAt(r)] \in Nat
      BY LookedAtFacts DEF HealthTyped
    <3>2. QED
      BY <2>1, <2>2, <2>4, <3>1, FoundFacts
  <2>5. CASE ~healthy[LookedAt(r)] /\ MoveTo(r, "lock") /\ UNCHANGED <<scan, model>>
    <3>1. /\ Others(r) /\ pc'[r] = "lock" /\ scan'[r] = scan[r] /\ tier'[r] = tier[r]
          /\ model'[r] = model[r]
      BY <2>1, <2>5 DEF MoveTo, LocalsInv, LocalsTyped, Others
    <3>2. LocalsTyped'
      <4>1. "lock" \in Places
        BY DEF Places, Scanning
      <4>2. QED
        BY <2>1, <2>5, <4>1 DEF MoveTo, LocalsInv, LocalsTyped
    <3>3. Within(scan'[r], tier'[r]) /\ InStep(pc'[r], scan'[r], tier'[r])
      BY <2>2, <3>1, Own DEF InStep
    <3>4. LocalsInv'
      BY <3>1, <3>2, <3>3, Rest
    <3>5. healthy' = healthy
      BY <2>1 DEF routerVars
    <3>6. QED
      BY <2>1, <2>2, <2>5, <3>1, <3>4, <3>5 DEF Looks
  <2>6. QED
    BY <2>1, <2>3, <2>4, <2>5
<1>2. CASE LockAndCheck(r)
  <2>1. /\ pc[r] = "lock" /\ UNCHANGED <<kind, tier, retries>>
        /\ Found(r, LookedAt(r), 0) \/ Pass(r)
    BY <1>2 DEF LockAndCheck
  <2>2. pc[r] \in Scanning /\ Useless(r)
    BY <2>1 DEF Scanning, Useless
  <2>3. QED
    BY <2>1, <2>2, FoundFacts, PassFacts
<1>3. QED
  BY <1>1, <1>2

-----------------------------------------------------------------------------
(***************************************************************************)
(* Every step of a request.                                                *)
(***************************************************************************)
LEMMA ScanFromFacts ==
    ASSUME NEW what \in {"resolve", "fallback"}, NEW t \in Tiers, NEW start \in 1 .. Size(t)
    PROVE  LET s == ScanFrom(what, t, start)
           IN  /\ s \in Scans /\ s.for = what /\ s.at = start /\ Within(s, t)
               /\ what = "resolve" \/ start = 1 => \A place : InStep(place, s, t)
BY Constants DEF ScanFrom, Scans, Within, InStep, Size

RouterTyped ==
    /\ strategy \in Strategies
    /\ nextIdx \in [Tiers -> Nat] /\ \A t \in Tiers : nextIdx[t] \in 1 .. Size(t)
    /\ rank \in [Tiers -> 1 .. Cardinality(Tiers)]
    /\ exhausted \subseteq Pooled

LEMMA ResolveFacts ==
    ASSUME LocalsInv, RouterTyped, NEW r \in Requests, Resolve(r)
    PROVE  LocalsInv' /\ Others(r) /\ scan'[r].for = "resolve" /\ RouterTyped'
<1>1. PICK t \in Tiers, k \in {"stream", "whole"} :
        /\ tier' = [tier EXCEPT ![r] = t] /\ kind' = [kind EXCEPT ![r] = k]
        /\ nextIdx' = IF strategy = "round_robin" THEN [nextIdx EXCEPT ![t] = After(t, @)]
                      ELSE nextIdx
        /\ \E start \in Starts(t) : scan' = [scan EXCEPT ![r] = ScanFrom("resolve", t, start)]
  BY DEF Resolve
<1>2. PICK start \in Starts(t) : scan' = [scan EXCEPT ![r] = ScanFrom("resolve", t, start)]
  BY <1>1
<1>3. start \in 1 .. Size(t)
  <2>1. /\ nextIdx[t] \in 1 .. Size(t) /\ DOMAIN Mapping[t] = 1 .. Size(t) /\ 1 \in 1 .. Size(t)
        /\ strategy \in {"round_robin", "random", "least_errors"}
    BY Constants DEF RouterTyped
  <2>2. QED
    BY <1>2, <2>1 DEF Starts
<1>4. PICK s : s = ScanFrom("resolve", t, start)
  OBVIOUS
<1>5. s \in Scans /\ s.for = "resolve" /\ Within(s, t) /\ \A place : InStep(place, s, t)
  BY <1>3, <1>4, ScanFromFacts
<1>6. /\ pc' = [pc EXCEPT ![r] = "scan"] /\ scan' = [scan EXCEPT ![r] = s]
      /\ UNCHANGED <<model, retries, strategy, rank, exhausted>>
  BY <1>2, <1>4 DEF Resolve, MoveTo
<1>7. LocalsTyped'
  <2>1. "scan" \in Places
    BY DEF Places, Scanning
  <2>2. pc' \in [Requests -> Places] /\ scan' \in [Requests -> Scans]
    BY <1>5, <1>6, <2>1 DEF LocalsInv, LocalsTyped
  <2>3. tier' \in [Requests -> Tiers] /\ kind' \in [Requests -> {"stream", "whole"}]
    BY <1>1 DEF LocalsInv, LocalsTyped
  <2>4. model' \in [Requests -> Specs] /\ retries' \in [Requests -> 0 .. ToolRetryMax]
    BY <1>6 DEF LocalsInv, LocalsTyped
  <2>5. QED
    BY <2>2, <2>3, <2>4 DEF LocalsTyped
<1>8. Others(r) /\ scan'[r] = s /\ tier'[r] = t
  BY <1>1, <1>6 DEF LocalsInv, LocalsTyped, Others
<1>9. LocalsInv'
  BY <1>5, <1>7, <1>8, Rest
<1>10. RouterTyped'
  <2>1. nextIdx[t] \in 1 .. Size(t)
    BY DEF RouterTyped
  <2>2. After(t, nextIdx[t]) \in 1 .. Size(t) /\ After(t, nextIdx[t]) \in Nat
    BY <2>1, AfterFacts
  <2>3. nextIdx' \in [Tiers -> Nat] /\ \A u \in Tiers : nextIdx'[u] \in 1 .. Size(u)
    BY <1>1, <2>2 DEF RouterTyped
  <2>4. QED
    BY <1>6, <2>3 DEF RouterTyped, Size
<1>11. QED
  BY <1>5, <1>8, <1>9, <1>10

LEMMA NextFallbackFacts ==
    ASSUME LocalsInv, NEW r \in Requests, NextFallback(r)
    PROVE  /\ LocalsInv' /\ Others(r)
           /\ pc[r] = "fallback" /\ pc'[r] = "scan" /\ scan'[r].at = 1
           /\ tier'[r] = tier[r] /\ model'[r] = model[r]
<1>1. PICK t : t = tier[r]
  OBVIOUS
<1>2. t \in Tiers /\ 1 \in 1 .. Size(t)
  BY <1>1, Own, Constants
<1>3. PICK s : s = ScanFrom("fallback", t, 1)
  OBVIOUS
<1>4. s \in Scans /\ s.at = 1 /\ Within(s, t) /\ InStep("scan", s, t)
  BY <1>2, <1>3, ScanFromFacts
<1>5. /\ pc[r] = "fallback" /\ pc' = [pc EXCEPT ![r] = "scan"] /\ scan' = [scan EXCEPT ![r] = s]
      /\ UNCHANGED <<kind, tier, model, retries>>
  BY <1>1, <1>3 DEF NextFallback, MoveTo
<1>6. LocalsTyped'
  <2>1. "scan" \in Places
    BY DEF Places, Scanning
  <2>2. pc' \in [Requests -> Places] /\ scan' \in [Requests -> Scans]
    BY <1>4, <1>5, <2>1 DEF LocalsInv, LocalsTyped
  <2>3. QED
    BY <1>5, <2>2 DEF LocalsInv, LocalsTyped
<1>7. /\ Others(r) /\ scan'[r] = s /\ tier'[r] = t /\ pc'[r] = "scan" /\ model'[r] = model[r]
  BY <1>1, <1>5 DEF LocalsInv, LocalsTyped, Others
<1>8. LocalsInv'
  BY <1>4, <1>6, <1>7, Rest
<1>9. QED
  BY <1>1, <1>4, <1>5, <1>7, <1>8

\* The steps that have to do with no scan, or abandon one.
LEMMA ElseFacts ==
    ASSUME LocalsInv, NEW r \in Requests,
           \/ Succeed(r) \/ ResetErrors(r) \/ MarkHealthy(r) \/ GiveUp(r) \/ ClientError(r)
           \/ CountError(r) \/ CoolDown(r) \/ LastResort(r) \/ Disconnect(r)
    PROVE  /\ LocalsInv' /\ Others(r) /\ pc'[r] \notin Scanning
           /\ pc'[r] # "none"
<1>1. {"attempt", "resetErrors", "markHealthy", "failed", "cool", "fallback"} \subseteq Places \ Scanning
  BY DEF Places, Scanning
<1>2. "idle" \notin Scanning
  BY DEF Scanning
<1>3. CASE Succeed(r)
  BY <1>1, <1>3, MoveFacts DEF Succeed
<1>4. CASE ResetErrors(r)
  BY <1>1, <1>4, MoveFacts DEF ResetErrors
<1>5. CASE MarkHealthy(r)
  <2>1. CASE Leave(r)
    BY <1>2, <2>1, LeaveFacts
  <2>2. CASE /\ kind[r] = "stream" /\ retries[r] < ToolRetryMax
             /\ retries' = [retries EXCEPT ![r] = @ + 1]
             /\ MoveTo(r, "attempt") /\ UNCHANGED <<kind, tier, model, scan>>
    <3>1. retries' \in [Requests -> 0 .. ToolRetryMax]
      <4>1. retries[r] + 1 \in 0 .. ToolRetryMax
        BY <2>2, Constants DEF LocalsInv, LocalsTyped
      <4>2. QED
        BY <2>2, <4>1 DEF LocalsInv, LocalsTyped
    <3>2. pc' \in [Requests -> Places] /\ pc'[r] = "attempt" /\ Others(r)
      BY <1>1, <2>2 DEF MoveTo, LocalsInv, LocalsTyped, Others
    <3>3. LocalsTyped'
      BY <2>2, <3>1, <3>2 DEF LocalsInv, LocalsTyped
    <3>4. Within(scan'[r], tier'[r]) /\ InStep(pc'[r], scan'[r], tier'[r])
      <4>1. scan'[r] = scan[r] /\ tier'[r] = tier[r]
        BY <2>2
      <4>2. Within(scan[r], tier[r])
        BY Own
      <4>3. QED
        BY <1>1, <3>2, <4>1, <4>2 DEF InStep
    <3>5. QED
      BY <1>1, <3>2, <3>3, <3>4, Rest
  <2>3. QED
    BY <1>5, <2>1, <2>2 DEF MarkHealthy
<1>6. CASE GiveUp(r)
  BY <1>1, <1>6, MoveFacts DEF GiveUp
<1>7. CASE ClientError(r)
  BY <1>1, <1>2, <1>7, MoveFacts, LeaveFacts DEF ClientError
<1>8. CASE CountError(r)
  <2>1. \E p \in {"cool", "fallback"} : MoveTo(r, p)
    BY <1>8 DEF CountError
  <2>2. UNCHANGED <<kind, tier, model, retries, scan>>
    BY <1>8 DEF CountError
  <2>3. QED
    BY <1>1, <2>1, <2>2, MoveFacts
<1>9. CASE CoolDown(r)
  <2>1. MoveTo(r, "fallback") /\ UNCHANGED <<kind, tier, model, retries, scan>>
    BY <1>9 DEF CoolDown
  <2>2. QED
    BY <1>1, <2>1, MoveFacts
<1>10. CASE LastResort(r) \/ Disconnect(r)
  BY <1>2, <1>10, LeaveFacts DEF LastResort, Disconnect
<1>11. QED
  BY <1>3, <1>4, <1>5, <1>6, <1>7, <1>8, <1>9, <1>10

\* Every step of a request, by what it does to a search for a fallback.
LEMMA RequestFacts ==
    ASSUME LocalsInv, HealthTyped, RouterTyped, NEW r \in Requests, RequestStep(r)
    PROVE  /\ LocalsInv' /\ Others(r) /\ RouterTyped'
           /\ \/ scan'[r].for = "resolve" /\ pc'[r] # "none"
              \/ /\ pc[r] = "fallback" /\ pc'[r] = "scan" /\ scan'[r].at = 1
                 /\ tier'[r] = tier[r] /\ model'[r] = model[r]
              \/ Looks(r)
              \/ pc'[r] \notin Scanning /\ pc'[r] # "none"
<1>1. CASE Resolve(r)
  <2>1. pc'[r] = "scan"
    BY <1>1 DEF Resolve, MoveTo, LocalsInv, LocalsTyped
  <2>2. QED
    BY <1>1, <2>1, ResolveFacts
<1>2. CASE NextFallback(r)
  <2>1. RouterTyped'
    BY <1>2 DEF NextFallback, routerVars, RouterTyped, Size
  <2>2. QED
    BY <1>2, <2>1, NextFallbackFacts
<1>3. CASE LoadHealthy(r) \/ LockAndCheck(r)
  <2>1. RouterTyped'
    BY <1>3 DEF LoadHealthy, LockAndCheck, routerVars, RouterTyped, Size
  <2>2. QED
    BY <1>3, <2>1, LookFacts
<1>4. CASE Succeed(r) \/ ResetErrors(r) \/ MarkHealthy(r) \/ GiveUp(r) \/ ClientError(r)
            \/ CountError(r) \/ CoolDown(r) \/ LastResort(r) \/ Disconnect(r)
  <2>1. UNCHANGED <<strategy, nextIdx, rank, exhausted>>
    BY <1>4 DEF Succeed, ResetErrors, MarkHealthy, GiveUp, ClientError, CountError, CoolDown,
                LastResort, Disconnect, routerVars
  <2>2. RouterTyped'
    BY <2>1 DEF RouterTyped, Size
  <2>3. QED
    BY <1>4, <2>2, ElseFacts
<1>5. QED
  BY <1>1, <1>2, <1>3, <1>4 DEF RequestStep, Proceed

-----------------------------------------------------------------------------
(***************************************************************************)
(* The search and the models that stay healthy throughout.                 *)
(***************************************************************************)
Searches(r) == pc[r] \in Scanning /\ scan[r].for = "fallback"

\* Those behind the search are of the model that failed.
Behind(r) ==
    \A e \in steady[r] : /\ e \in Endpoints /\ e[1] = tier[r]
                         /\ e[2] < scan[r].at => SpecOf(e) = model[r]
                         /\ pc[r] = "lock" => e[2] # scan[r].at

SteadyInv ==
    \A r \in Requests : IF Searches(r) THEN Behind(r) ELSE steady[r] = {}

LEMMA ObserveFacts ==
    ASSUME Observe, NEW r \in Requests
    PROVE  /\ ~Searches(r)' => steady'[r] = {}
           /\ pc[r] \in Scanning => \A e \in steady'[r] : e \in steady[r] /\ healthy'[e]
           /\ \A e \in steady'[r] : e \in steady[r] \/ (e \in Endpoints /\ e[1] = tier[r])
BY DEF Observe, Searches

\* A request another one leaves alone loses models at most.
LEMMA OthersSteady ==
    ASSUME SteadyInv, Observe, NEW u \in Requests,
           pc'[u] = pc[u], scan'[u] = scan[u], tier'[u] = tier[u], model'[u] = model[u]
    PROVE  IF Searches(u)' THEN Behind(u)' ELSE steady'[u] = {}
<1>1. CASE Searches(u)'
  <2>1. Searches(u)
    BY <1>1 DEF Searches
  <2>2. \A e \in steady'[u] : e \in steady[u]
    BY <2>1, ObserveFacts DEF Searches
  <2>3. Behind(u)
    BY <2>1 DEF SteadyInv
  <2>4. QED
    BY <1>1, <2>2, <2>3 DEF Behind, SpecOf
<1>2. CASE ~Searches(u)'
  BY <1>2, ObserveFacts
<1>3. QED
  BY <1>1, <1>2

LEMMA LookSteady ==
    ASSUME SteadyInv, LocalsInv, Observe, NEW r \in Requests, Looks(r), Searches(r)'
    PROVE  Behind(r)'
<1>1. Searches(r) /\ Behind(r)
  BY DEF Looks, Searches, Scanning, SteadyInv
<1>2. \A e \in steady'[r] : e \in steady[r] /\ healthy'[e]
  BY <1>1, ObserveFacts DEF Searches
<1>3. \A e \in Endpoints : e = <<e[1], e[2]>> /\ e[2] \in Nat
  BY EndpointFacts, Constants
<1>4. LookedAt(r) = <<tier[r], scan[r].at>> /\ scan[r].at \in Nat
  BY Own DEF LookedAt, Scans
<1>5. SUFFICES ASSUME NEW e \in steady'[r]
               PROVE  /\ e \in Endpoints /\ e[1] = tier'[r]
                      /\ e[2] < scan'[r].at => SpecOf(e) = model'[r]
                      /\ pc'[r] = "lock" => e[2] # scan'[r].at
  BY DEF Behind, SpecOf
<1>6. /\ e \in Endpoints /\ e[1] = tier[r]
      /\ e[2] < scan[r].at => SpecOf(e) = model[r]
      /\ pc[r] = "lock" => e[2] # scan[r].at
      /\ healthy'[e]
  BY <1>1, <1>2 DEF Behind
<1>7. e[2] = scan[r].at => e = LookedAt(r)
  BY <1>3, <1>4, <1>6
<1>8. CASE /\ pc'[r] = "scan" /\ tier'[r] = tier[r] /\ model'[r] = model[r]
           /\ scan'[r].at = scan[r].at + 1 /\ Useless(r)
  <2>1. CASE e[2] < scan'[r].at
    <3>1. e[2] < scan[r].at \/ e[2] = scan[r].at
      BY <1>3, <1>4, <1>6, <1>8, <2>1
    <3>2. e[2] = scan[r].at => SpecOf(e) = model[r]
      BY <1>6, <1>7, <1>8 DEF Useless
    <3>3. QED
      BY <1>6, <1>8, <3>1, <3>2
  <2>2. QED
    BY <1>6, <1>8, <2>1
<1>9. CASE /\ pc'[r] = "lock" /\ scan'[r] = scan[r] /\ tier'[r] = tier[r] /\ model'[r] = model[r]
           /\ ~healthy[LookedAt(r)] /\ healthy' = healthy
  BY <1>6, <1>7, <1>9
<1>10. QED
  BY <1>1, <1>8, <1>9 DEF Looks, Searches, Scanning

LEMMA StepSteady ==
    ASSUME SteadyInv, LocalsInv, HealthTyped, RouterTyped, [Next]_vars
    PROVE  SteadyInv'
<1>1. ASSUME NEW r \in Requests, RequestStep(r), Observe PROVE SteadyInv'
  <2>1. Others(r)
    BY <1>1, RequestFacts
  <2>2. IF Searches(r)' THEN Behind(r)' ELSE steady'[r] = {}
    <3>1. CASE ~Searches(r)'
      BY <1>1, <3>1, ObserveFacts
    <3>2. CASE Searches(r)' /\ Looks(r)
      BY <1>1, <3>2, LookSteady
    <3>3. CASE /\ pc[r] = "fallback" /\ pc'[r] = "scan" /\ scan'[r].at = 1
               /\ tier'[r] = tier[r] /\ model'[r] = model[r]
      <4>1. ~Searches(r) /\ pc[r] \notin Scanning
        BY <3>3 DEF Searches, Scanning
      <4>2. steady[r] = {}
        BY <4>1 DEF SteadyInv
      <4>3. \A e \in steady'[r] : e \in Endpoints /\ e[1] = tier[r]
        BY <1>1, <4>2, ObserveFacts
      <4>4. \A e \in Endpoints : ~(e[2] < 1)
        BY EndpointFacts, Constants
      <4>5. Behind(r)'
        BY <3>3, <4>3, <4>4 DEF Behind
      <4>6. QED
        BY <4>5, <3>1
    <3>4. QED
      <4>1. Searches(r)' => pc'[r] \in Scanning /\ scan'[r].for = "fallback"
        BY DEF Searches
      <4>2. QED
        BY <1>1, <3>1, <3>2, <3>3, <4>1, RequestFacts
  <2>3. ASSUME NEW u \in Requests, u # r
        PROVE  IF Searches(u)' THEN Behind(u)' ELSE steady'[u] = {}
    BY <1>1, <2>1, <2>3, OthersSteady DEF Others
  <2>4. QED
    BY <2>2, <2>3 DEF SteadyInv
<1>2. ASSUME UNCHANGED requestVars, Observe PROVE SteadyInv'
  <2>1. ASSUME NEW u \in Requests
        PROVE  IF Searches(u)' THEN Behind(u)' ELSE steady'[u] = {}
    BY <1>2, OthersSteady DEF requestVars
  <2>2. QED
    BY <2>1 DEF SteadyInv
<1>3. CASE UNCHANGED vars
  BY <1>3 DEF vars, requestVars, SteadyInv, Searches, Behind, SpecOf
<1>4. CASE (\E p \in Pooled : PoolChanges(p) /\ Observe) \/ (Reload /\ Observe) \/ (Tick /\ Observe)
  BY <1>2, <1>4 DEF PoolChanges, Reload, Tick, requestVars
<1>5. QED
  BY <1>1, <1>3, <1>4 DEF Next, RequestStep

-----------------------------------------------------------------------------
RouterInv == HealthInv /\ RouterTyped /\ LocalsInv /\ SteadyInv

LEMMA InitRouter == Init => RouterInv
<1> SUFFICES ASSUME Init PROVE RouterInv
  OBVIOUS
<1>1. HealthInv
  BY InitHealth
<1>2. RouterTyped
  <2>1. \A t \in Tiers : 1 \in 1 .. Size(t)
    BY Constants
  <2>2. QED
    BY <2>1 DEF Init, RouterTyped, Ranking
<1>3. LocalsInv
  <2>1. "default" \in Tiers /\ Mapping["default"][1] \in Specs /\ 0 \in 0 .. ToolRetryMax
    BY Constants
  <2>2. "idle" \in Places /\ "idle" \notin Scanning
    BY DEF Places, Scanning
  <2>3. LocalsTyped
    BY <2>1, <2>2, NoScanFacts DEF Init, LocalsTyped
  <2>4. \A r \in Requests : pc[r] = "idle" /\ scan[r] = NoScan /\ tier[r] = "default"
    BY DEF Init
  <2>5. QED
    BY <2>1, <2>3, <2>4, NoScanFacts DEF LocalsInv
<1>4. SteadyInv
  BY DEF Init, SteadyInv, Searches, Scanning
<1>5. QED
  BY <1>1, <1>2, <1>3, <1>4 DEF RouterInv

LEMMA StepRouter == RouterInv /\ [Next]_vars => RouterInv'
<1> SUFFICES ASSUME RouterInv, [Next]_vars PROVE RouterInv'
  OBVIOUS
<1>1. HealthInv' /\ SteadyInv'
  BY StepHealth, StepSteady DEF RouterInv, HealthInv
<1>2. RouterTyped' /\ LocalsInv'
  <2>1. ASSUME NEW r \in Requests, RequestStep(r) PROVE RouterTyped' /\ LocalsInv'
    BY <2>1, RequestFacts DEF RouterInv, HealthInv
  <2>2. ASSUME UNCHANGED requestVars PROVE LocalsInv'
    BY <2>2 DEF RouterInv, requestVars, LocalsInv, LocalsTyped, Within, InStep, Size
  <2>3. CASE \E p \in Pooled : PoolChanges(p)
    <3>1. UNCHANGED requestVars
      BY <2>3 DEF PoolChanges
    <3>2. RouterTyped'
      BY <2>3 DEF PoolChanges, routerVars, RouterInv, RouterTyped, Size
    <3>3. QED
      BY <2>2, <3>1, <3>2
  <2>4. CASE Reload
    <3>1. \A t \in Tiers : 1 \in 1 .. Size(t)
      BY Constants
    <3>2. RouterTyped'
      BY <2>4, <3>1 DEF Reload, RouterInv, RouterTyped, Ranking, Size
    <3>3. UNCHANGED requestVars
      BY <2>4 DEF Reload
    <3>4. QED
      BY <2>2, <3>2, <3>3
  <2>5. CASE Tick \/ UNCHANGED vars
    <3>1. RouterTyped'
      BY <2>5 DEF Tick, vars, routerVars, RouterInv, RouterTyped, Size
    <3>2. UNCHANGED requestVars
      BY <2>5 DEF Tick, vars, requestVars
    <3>3. QED
      BY <2>2, <3>1, <3>2
  <2>6. QED
    BY <2>1, <2>3, <2>4, <2>5 DEF Next, RequestStep
<1>3. QED
  BY <1>1, <1>2 DEF RouterInv

\* model_router.rs, openai_compat.rs: every index stays within its tier, every
\* counter within its bound, and a request holds a model of the mapping.
THEOREM TypeCorrect == Spec => []TypeOK
<1>1. RouterInv => TypeOK
  <2> SUFFICES ASSUME RouterInv PROVE TypeOK
    OBVIOUS
  <2>1. \A r \in Requests : /\ scan[r].left \in 0 .. Len(Mapping[tier[r]])
                            /\ scan[r].at \in DOMAIN Mapping[tier[r]]
    BY Own, Constants DEF RouterInv, Within, Size
  <2>2. \A r \in Requests : steady[r] \subseteq Endpoints
    BY DEF RouterInv, SteadyInv, Behind
  <2>3. \A t \in Tiers : nextIdx[t] \in DOMAIN Mapping[t]
    BY Constants DEF RouterInv, RouterTyped
  <2>4. /\ healthy \in [Endpoints -> BOOLEAN]
        /\ errors \in [Endpoints -> 0 .. MaxConsecutiveErrors]
        /\ cooldownUntil \in [Endpoints -> NoTime .. CooldownSeconds]
        /\ strategy \in Strategies /\ rank \in [Tiers -> 1 .. Cardinality(Tiers)]
        /\ exhausted \subseteq Pooled
    BY DEF RouterInv, HealthInv, HealthTyped, RouterTyped
  <2>5. LocalsTyped
    BY DEF RouterInv, LocalsInv
  <2>6. QED
    BY <2>1, <2>2, <2>3, <2>4, <2>5 DEF TypeOK, LocalsTyped, Places
<1>2. QED
  BY <1>1, InitRouter, StepRouter, PTL DEF Spec

\* model_router.rs next_fallback and openai_compat.rs 655: no request gives up, or
\* escalates to a rotation, past a model that was healthy throughout its search.
THEOREM FallbacksAreFound == Spec => NoFallbackMissed
<1>1. RouterInv /\ [Next]_vars
        => [\A r \in Requests : pc[r] \in Scanning /\ pc'[r] = "none" =>
               \A e \in steady[r] : SpecOf(e) = model[r]]_vars
  <2> SUFFICES ASSUME RouterInv, Next, NEW r \in Requests, pc[r] \in Scanning, pc'[r] = "none",
                      NEW e \in steady[r]
               PROVE  SpecOf(e) = model[r]
    OBVIOUS
  <2>1. RequestStep(r)
    <3>1. pc'[r] # pc[r]
      BY DEF Scanning
    <3>2. ASSUME NEW u \in Requests, RequestStep(u) PROVE u = r
      BY <3>1, <3>2, RequestFacts DEF RouterInv, HealthInv, Others
    <3>3. \E u \in Requests : RequestStep(u)
      BY <3>1 DEF Next, RequestStep, PoolChanges, Reload, Tick, requestVars
    <3>4. QED
      BY <3>2, <3>3
  <2>2. Looks(r)
    BY <2>1, RequestFacts DEF RouterInv, HealthInv, Scanning
  <2>3. scan[r].for = "fallback" /\ scan[r].at = Size(tier[r]) /\ Useless(r)
    BY <2>2 DEF Looks
  <2>4. Behind(r)
    BY <2>3 DEF RouterInv, SteadyInv, Searches
  <2>5. /\ e \in Endpoints /\ e[1] = tier[r]
        /\ e[2] < scan[r].at => SpecOf(e) = model[r]
        /\ pc[r] = "lock" => e[2] # scan[r].at
    BY <2>4 DEF Behind
  <2>6. e[2] \in 1 .. scan[r].at /\ e = <<e[1], e[2]>> /\ scan[r].at \in Nat
    BY <2>3, <2>5, EndpointFacts, Constants
  <2>7. CASE e[2] = scan[r].at
    BY <2>3, <2>5, <2>6, <2>7 DEF Useless, LookedAt
  <2>8. QED
    BY <2>5, <2>6, <2>7
<1>2. QED
  BY <1>1, InitRouter, StepRouter, PTL DEF Spec, NoFallbackMissed

-----------------------------------------------------------------------------
(***************************************************************************)
(* How long a rung of the ladder lasts, and where the next one starts.     *)
(***************************************************************************)
\* The steps a request has before it in its rung at the most: what it does with
\* an attempt and a report, and two looks at every model of its tier.
Rung(place, s, t) ==
    CASE place = "attempt" -> 2 * Size(t) + 7
      [] place = "failed" -> 2 * Size(t) + 6
      [] place = "cool" -> 2 * Size(t) + 5
      [] place = "fallback" -> 2 * Size(t) + 4
      [] place = "scan" -> 2 * s.left + 3
      [] place = "lock" -> 2 * s.left + 2
      [] place = "resetErrors" -> 2
      [] place \in {"markHealthy", "none"} -> 1
      [] place = "idle" -> 0

RungsBounded ==
    \A r \in Requests : Rung(pc[r], scan[r], tier[r]) \in 0 .. 2 * Size(tier[r]) + 7

Waits(r) == pc'[r] = pc[r] /\ scan'[r] = scan[r] /\ tier'[r] = tier[r]

\* Whatever step is taken, by the request or around it, it has fewer left, unless
\* it stays where it is or has a model to try.
RungsShrink ==
    [][\A r \in Requests : pc[r] # "idle" =>
          \/ Waits(r)
          \/ pc'[r] = "attempt" /\ pc[r] # "attempt"
          \/ Rung(pc'[r], scan'[r], tier'[r]) < Rung(pc[r], scan[r], tier[r])]_vars

Shorter(r) == Rung(pc'[r], scan'[r], tier'[r]) < Rung(pc[r], scan[r], tier[r])

LEMMA RungIs ==
    \A s, t : /\ Rung("attempt", s, t) = 2 * Size(t) + 7
              /\ Rung("failed", s, t) = 2 * Size(t) + 6
              /\ Rung("cool", s, t) = 2 * Size(t) + 5
              /\ Rung("fallback", s, t) = 2 * Size(t) + 4
              /\ Rung("scan", s, t) = 2 * s.left + 3
              /\ Rung("lock", s, t) = 2 * s.left + 2
              /\ Rung("resetErrors", s, t) = 2
              /\ Rung("markHealthy", s, t) = 1
              /\ Rung("none", s, t) = 1
              /\ Rung("idle", s, t) = 0
BY DEF Rung

LEMMA RungFacts ==
    ASSUME LocalsInv, NEW r \in Requests
    PROVE  /\ Size(tier[r]) \in Nat /\ scan[r].left \in Nat /\ scan[r].left <= Size(tier[r])
           /\ Rung(pc[r], scan[r], tier[r]) \in 0 .. 2 * Size(tier[r]) + 7
<1>1. Size(tier[r]) \in Nat /\ scan[r].left \in Nat /\ scan[r].left <= Size(tier[r]) /\ pc[r] \in Places
  BY Own, Constants DEF Within, Scans
<1>2. pc[r] \in {"scan", "lock", "idle", "attempt", "resetErrors", "markHealthy",
                 "failed", "cool", "fallback", "none"}
  BY <1>1 DEF Places, Scanning
<1>3. QED
  BY <1>1, <1>2, RungIs

\* A look that finds nothing leaves one position less.
LEMMA AdvanceLeft ==
    ASSUME LocalsInv, NEW r \in Requests, NEW best, NEW fewest, Advance(r, best, fewest),
           UNCHANGED tier
    PROVE  \/ pc'[r] = "attempt"
           \/ pc'[r] = "none"
           \/ /\ pc'[r] = "scan" /\ tier'[r] = tier[r]
              /\ scan'[r].left = scan[r].left - 1
<1>1. CASE EndScan(r, best)
  BY <1>1 DEF EndScan, Take, MoveTo, LocalsInv, LocalsTyped
<1>2. CASE /\ scan' = [scan EXCEPT ![r].at = After(tier[r], @),
                                   ![r].left = @ - 1, ![r].best = best, ![r].errors = fewest]
           /\ MoveTo(r, "scan")
  <2>1. pc'[r] = "scan"
    BY <1>2 DEF MoveTo, LocalsInv, LocalsTyped
  <2>2. scan'[r].left = scan[r].left - 1
    BY <1>2 DEF LocalsInv, LocalsTyped, Scans
  <2>3. QED
    BY <2>1, <2>2
<1>3. QED
  BY <1>1, <1>2 DEF Advance

LEMMA LookShrinks ==
    ASSUME LocalsInv, NEW r \in Requests, LoadHealthy(r) \/ LockAndCheck(r)
    PROVE  pc'[r] = "attempt" \/ Shorter(r)
<1>1. /\ UNCHANGED tier
      /\ \/ Pass(r)
         \/ Found(r, LookedAt(r), errors[LookedAt(r)])
         \/ Found(r, LookedAt(r), 0)
         \/ pc[r] = "scan" /\ MoveTo(r, "lock") /\ UNCHANGED scan
  BY DEF LoadHealthy, LockAndCheck
<1>2. pc[r] \in Scanning
  BY DEF LoadHealthy, LockAndCheck, Scanning
<1>3. CASE pc[r] = "scan" /\ MoveTo(r, "lock") /\ UNCHANGED scan
  <2>1. pc'[r] = "lock" /\ scan'[r] = scan[r] /\ tier'[r] = tier[r]
    BY <1>1, <1>3 DEF MoveTo, LocalsInv, LocalsTyped
  <2>2. Rung("lock", scan[r], tier[r]) < Rung("scan", scan[r], tier[r])
    BY RungFacts, RungIs
  <2>3. QED
    BY <1>3, <2>1, <2>2 DEF Shorter
<1>4. CASE \/ Pass(r) \/ Found(r, LookedAt(r), errors[LookedAt(r)]) \/ Found(r, LookedAt(r), 0)
  <2>1. (\E best, fewest : Advance(r, best, fewest)) \/ Take(r, LookedAt(r)[2])
    BY <1>4 DEF Pass, Found
  <2>2. CASE Take(r, LookedAt(r)[2])
    BY <2>2 DEF Take, MoveTo, LocalsInv, LocalsTyped
  <2>3. CASE \E best, fewest : Advance(r, best, fewest)
    <3>1. \/ pc'[r] = "attempt"
          \/ pc'[r] = "none"
          \/ pc'[r] = "scan" /\ tier'[r] = tier[r] /\ scan'[r].left = scan[r].left - 1
      BY <1>1, <2>3, AdvanceLeft
    <3>2. \/ Rung(pc[r], scan[r], tier[r]) = 2 * scan[r].left + 3
          \/ Rung(pc[r], scan[r], tier[r]) = 2 * scan[r].left + 2
      BY <1>2 DEF Rung, Scanning
    <3>3. CASE pc'[r] = "none"
      <4>1. Rung(pc'[r], scan'[r], tier'[r]) = 1
        BY <3>3 DEF Rung
      <4>2. QED
        BY <3>2, <4>1, RungFacts DEF Shorter
    <3>4. CASE pc'[r] = "scan" /\ tier'[r] = tier[r] /\ scan'[r].left = scan[r].left - 1
      <4>1. Rung(pc'[r], scan'[r], tier'[r]) = 2 * (scan[r].left - 1) + 3
        BY <3>4 DEF Rung
      <4>2. QED
        BY <3>2, <4>1, RungFacts DEF Shorter
    <3>5. QED
      BY <3>1, <3>3, <3>4
  <2>4. QED
    BY <2>1, <2>2, <2>3
<1>5. QED
  BY <1>1, <1>3, <1>4

\* A request moves to a later place and keeps its tier.
LEMMA MoveShrinks ==
    ASSUME LocalsInv, NEW r \in Requests, NEW p, MoveTo(r, p), UNCHANGED <<tier, scan>>,
           \/ pc[r] = "attempt" /\ p \in {"resetErrors", "failed"}
           \/ pc[r] = "resetErrors" /\ p = "markHealthy"
           \/ pc[r] = "failed" /\ p \in {"cool", "fallback"}
           \/ pc[r] = "cool" /\ p = "fallback"
    PROVE  Shorter(r)
<1>1. pc'[r] = p /\ tier'[r] = tier[r] /\ scan'[r] = scan[r]
  BY DEF MoveTo, LocalsInv, LocalsTyped
<1>2. QED
  BY <1>1, RungFacts, RungIs DEF Shorter

LEMMA LeaveShrinks ==
    ASSUME LocalsInv, NEW r \in Requests, Leave(r), pc[r] # "idle"
    PROVE  Shorter(r)
<1>1. pc'[r] = "idle"
  BY DEF Leave, MoveTo, LocalsInv, LocalsTyped
<1>2. Rung(pc'[r], scan'[r], tier'[r]) = 0
  BY <1>1 DEF Rung
<1>3. Rung(pc[r], scan[r], tier[r]) > 0
  <2>1. pc[r] \in {"scan", "lock", "attempt", "resetErrors", "markHealthy",
                   "failed", "cool", "fallback", "none"}
    BY Own DEF Places, Scanning
  <2>2. QED
    BY <2>1, RungFacts, RungIs
<1>4. QED
  BY <1>2, <1>3, RungFacts DEF Shorter

LEMMA RequestShrinks ==
    ASSUME LocalsInv, NEW r \in Requests, RequestStep(r), pc[r] # "idle"
    PROVE  (pc'[r] = "attempt" /\ pc[r] # "attempt") \/ Shorter(r)
<1>1. ~Resolve(r)
  BY DEF Resolve
<1>2. CASE NextFallback(r)
  <2>1. /\ pc[r] = "fallback" /\ pc'[r] = "scan" /\ tier'[r] = tier[r]
        /\ scan'[r] = ScanFrom("fallback", tier[r], 1)
    BY <1>2 DEF NextFallback, MoveTo, LocalsInv, LocalsTyped
  <2>2. scan'[r].left = Size(tier[r])
    BY <2>1 DEF ScanFrom, Size
  <2>3. QED
    BY <2>1, <2>2, RungFacts, RungIs DEF Shorter
<1>3. CASE LoadHealthy(r) \/ LockAndCheck(r)
  <2>1. pc[r] # "attempt"
    BY <1>3 DEF LoadHealthy, LockAndCheck
  <2>2. QED
    BY <1>3, <2>1, LookShrinks
<1>4. CASE Succeed(r)
  BY <1>4, MoveShrinks DEF Succeed
<1>5. CASE ResetErrors(r)
  BY <1>5, MoveShrinks DEF ResetErrors
<1>6. CASE MarkHealthy(r)
  <2>1. CASE Leave(r)
    BY <2>1, LeaveShrinks
  <2>2. CASE MoveTo(r, "attempt")
    BY <1>6, <2>2 DEF MarkHealthy, MoveTo, LocalsInv, LocalsTyped
  <2>3. QED
    BY <1>6, <2>1, <2>2 DEF MarkHealthy
<1>7. CASE GiveUp(r)
  BY <1>7, MoveShrinks DEF GiveUp
<1>8. CASE ClientError(r)
  <2>1. CASE Leave(r)
    BY <2>1, LeaveShrinks
  <2>2. CASE MoveTo(r, "failed") /\ UNCHANGED <<tier, scan>>
    BY <1>8, <2>2, MoveShrinks DEF ClientError
  <2>3. QED
    BY <1>8, <2>1, <2>2 DEF ClientError
<1>9. CASE CountError(r)
  <2>1. pc[r] = "failed" /\ UNCHANGED <<tier, scan>> /\ \E p \in {"cool", "fallback"} : MoveTo(r, p)
    BY <1>9 DEF CountError
  <2>2. QED
    BY <2>1, MoveShrinks
<1>10. CASE CoolDown(r)
  <2>1. pc[r] = "cool" /\ UNCHANGED <<tier, scan>> /\ MoveTo(r, "fallback")
    BY <1>10 DEF CoolDown
  <2>2. QED
    BY <2>1, MoveShrinks
<1>11. CASE LastResort(r) \/ Disconnect(r)
  BY <1>11, LeaveShrinks DEF LastResort, Disconnect
<1>12. QED
  BY <1>1, <1>2, <1>3, <1>4, <1>5, <1>6, <1>7, <1>8, <1>9, <1>10, <1>11 DEF RequestStep, Proceed

LEMMA StepShrinks ==
    ASSUME RouterInv, [Next]_vars, NEW r \in Requests, pc[r] # "idle"
    PROVE  Waits(r) \/ (pc'[r] = "attempt" /\ pc[r] # "attempt") \/ Shorter(r)
<1>1. ASSUME NEW u \in Requests, RequestStep(u)
      PROVE  Waits(r) \/ (pc'[r] = "attempt" /\ pc[r] # "attempt") \/ Shorter(r)
  <2>1. CASE u = r
    BY <1>1, <2>1, RequestShrinks DEF RouterInv
  <2>2. CASE u # r
    <3>1. Others(u)
      BY <1>1, RequestFacts DEF RouterInv, HealthInv
    <3>2. QED
      BY <2>2, <3>1 DEF Others, Waits
  <2>3. QED
    BY <2>1, <2>2
<1>2. CASE UNCHANGED requestVars
  BY <1>2 DEF requestVars, Waits
<1>3. QED
  BY <1>1, <1>2 DEF Next, RequestStep, PoolChanges, Reload, Tick, vars, requestVars

\* model_router.rs resolve, next_fallback and openai_compat.rs: from one attempt to the
\* next, or to its end, a request takes a bounded number of steps, whatever other
\* requests, reloads and pools do to the models it looks at: no search goes round.
THEOREM RungsEnd == Spec => []RungsBounded /\ RungsShrink
<1>1. RouterInv => RungsBounded
  BY RungFacts DEF RouterInv, RungsBounded
<1>2. RouterInv /\ [Next]_vars
        => [\A r \in Requests : pc[r] # "idle" =>
               \/ Waits(r)
               \/ pc'[r] = "attempt" /\ pc[r] # "attempt"
               \/ Rung(pc'[r], scan'[r], tier'[r]) < Rung(pc[r], scan[r], tier[r])]_vars
  BY StepShrinks DEF Shorter
<1>3. QED
  BY <1>1, <1>2, InitRouter, StepRouter, PTL DEF Spec, RungsShrink

\* A search that reads the cooldown of a model has seen that it is not the one
\* that failed.
LooksElsewhere == \A r \in Requests : Searches(r) /\ pc[r] = "lock" => SpecOf(LookedAt(r)) # model[r]

\* A fallback is another model than the one that failed, and is in rotation at the
\* moment it is chosen.
FallsBackElsewhere ==
    [][\A r \in Requests : Searches(r) /\ pc'[r] = "attempt" =>
          /\ model'[r] = SpecOf(LookedAt(r)) /\ model'[r] # model[r]
          /\ healthy'[LookedAt(r)]]_vars

\* What a search for a fallback does with the model it looks at.
LEMMA SearchStep ==
    ASSUME LocalsInv, HealthTyped, NEW r \in Requests, Searches(r), LoadHealthy(r) \/ LockAndCheck(r)
    PROVE  \/ /\ pc'[r] = "attempt" /\ model'[r] = SpecOf(LookedAt(r)) /\ healthy'[LookedAt(r)]
              /\ pc[r] = "lock" \/ SpecOf(LookedAt(r)) # model[r]
           \/ /\ pc'[r] = "lock" /\ scan'[r] = scan[r] /\ tier'[r] = tier[r] /\ model'[r] = model[r]
              /\ SpecOf(LookedAt(r)) # model[r]
           \/ pc'[r] \in {"scan", "none"}
<1>1. scan[r].for = "fallback" /\ scan[r].for # "resolve" /\ scan[r].best = 0
  BY Own DEF Searches, InStep
<1>2. LookedAt(r) = <<tier[r], scan[r].at>> /\ LookedAt(r) \in Endpoints
  BY LookedAtFacts DEF LookedAt
<1>3. ASSUME Pass(r) PROVE pc'[r] \in {"scan", "none"}
  <2>1. scan[r].best = 0 /\ Advance(r, scan[r].best, scan[r].errors)
    BY <1>1, <1>3 DEF Pass
  <2>2. MoveTo(r, "scan") \/ MoveTo(r, "none")
    BY <1>1, <2>1 DEF Advance, EndScan
  <2>3. QED
    BY <2>2 DEF MoveTo, LocalsInv, LocalsTyped
<1>4. ASSUME NEW count, Found(r, LookedAt(r), count)
      PROVE  pc'[r] = "attempt" /\ model'[r] = SpecOf(LookedAt(r))
  <2>1. Take(r, LookedAt(r)[2])
    BY <1>1, <1>4 DEF Found
  <2>2. pc'[r] = "attempt" /\ model'[r] = Mapping[tier[r]][LookedAt(r)[2]]
    BY <2>1 DEF Take, MoveTo, LocalsInv, LocalsTyped
  <2>3. QED
    BY <1>2, <2>2 DEF SpecOf
<1>5. CASE LoadHealthy(r)
  <2>1. CASE Pass(r)
    BY <1>3, <2>1
  <2>2. CASE SpecOf(LookedAt(r)) # model[r] /\ healthy[LookedAt(r)] /\ Found(r, LookedAt(r), errors[LookedAt(r)])
    <3>1. healthy' = healthy
      BY <1>5 DEF LoadHealthy, routerVars
    <3>2. QED
      BY <1>4, <2>2, <3>1
  <2>3. CASE SpecOf(LookedAt(r)) # model[r] /\ MoveTo(r, "lock") /\ UNCHANGED <<scan, model>>
    <3>1. UNCHANGED tier
      BY <1>5 DEF LoadHealthy
    <3>2. QED
      BY <2>3, <3>1 DEF MoveTo, LocalsInv, LocalsTyped
  <2>4. QED
    BY <1>1, <1>5, <2>1, <2>2, <2>3 DEF LoadHealthy
<1>6. CASE LockAndCheck(r)
  <2>1. CASE Pass(r)
    BY <1>3, <2>1
  <2>2. CASE Recover(LookedAt(r)) /\ Found(r, LookedAt(r), 0)
    <3>1. healthy'[LookedAt(r)]
      BY <1>2, <2>2 DEF Recover, HealthTyped
    <3>2. pc[r] = "lock"
      BY <1>6 DEF LockAndCheck
    <3>3. QED
      BY <1>4, <2>2, <3>1, <3>2
  <2>3. QED
    BY <1>6, <2>1, <2>2 DEF LockAndCheck
<1>7. QED
  BY <1>5, <1>6

\* Only a look goes on with a search.
LEMMA OnlyLooksSearch ==
    ASSUME LocalsInv, HealthTyped, RouterTyped, NEW r \in Requests, RequestStep(r), Searches(r),
           pc'[r] \in {"attempt", "lock"}
    PROVE  LoadHealthy(r) \/ LockAndCheck(r)
<1>1. pc[r] \in {"scan", "lock"}
  BY DEF Searches, Scanning
<1>2. ~Resolve(r) /\ ~NextFallback(r) /\ ~Succeed(r) /\ ~ResetErrors(r) /\ ~MarkHealthy(r) /\ ~GiveUp(r)
  BY <1>1 DEF Resolve, NextFallback, Succeed, ResetErrors, MarkHealthy, GiveUp
<1>3. ~ClientError(r) /\ ~CountError(r) /\ ~CoolDown(r) /\ ~LastResort(r)
  BY <1>1 DEF ClientError, CountError, CoolDown, LastResort
<1>4. ~Disconnect(r)
  BY DEF Disconnect, Leave, MoveTo, LocalsInv, LocalsTyped
<1>5. QED
  BY <1>2, <1>3, <1>4 DEF RequestStep, Proceed

LEMMA StepElsewhere ==
    ASSUME RouterInv, LooksElsewhere, [Next]_vars, NEW r \in Requests
    PROVE  /\ (Searches(r) /\ pc[r] = "lock" => SpecOf(LookedAt(r)) # model[r])'
           /\ Searches(r) /\ pc'[r] = "attempt" =>
                 /\ model'[r] = SpecOf(LookedAt(r)) /\ model'[r] # model[r]
                 /\ healthy'[LookedAt(r)]
<1>1. LocalsInv /\ HealthTyped /\ RouterTyped
  BY DEF RouterInv, HealthInv
<1>2. CASE /\ pc'[r] = pc[r] /\ scan'[r] = scan[r] /\ tier'[r] = tier[r] /\ model'[r] = model[r]
  <2>1. Searches(r)' <=> Searches(r)
    BY <1>2 DEF Searches
  <2>2. LookedAt(r)' = LookedAt(r)
    BY <1>2 DEF LookedAt
  <2>3. ~(Searches(r) /\ pc[r] = "attempt")
    BY DEF Searches, Scanning
  <2>4. QED
    BY <1>2, <2>1, <2>2, <2>3 DEF LooksElsewhere, SpecOf
<1>3. CASE RequestStep(r)
  <2>1. CASE Searches(r) /\ pc'[r] \in {"attempt", "lock"}
    <3>1. LoadHealthy(r) \/ LockAndCheck(r)
      BY <1>1, <1>3, <2>1, OnlyLooksSearch
    <3>2. pc[r] = "lock" => SpecOf(LookedAt(r)) # model[r]
      BY <2>1 DEF LooksElsewhere
    <3>3. CASE pc'[r] = "attempt"
      BY <1>1, <2>1, <3>1, <3>2, <3>3, SearchStep
    <3>4. CASE pc'[r] = "lock"
      <4>1. /\ scan'[r] = scan[r] /\ tier'[r] = tier[r] /\ model'[r] = model[r]
            /\ SpecOf(LookedAt(r)) # model[r]
        BY <1>1, <2>1, <3>1, <3>4, SearchStep
      <4>2. LookedAt(r)' = LookedAt(r)
        BY <4>1 DEF LookedAt
      <4>3. QED
        BY <3>4, <4>1, <4>2 DEF SpecOf
    <3>5. QED
      BY <2>1, <3>3, <3>4
  <2>2. CASE ~Searches(r) /\ Searches(r)' /\ pc'[r] = "lock"
    <3>1. Looks(r)
      BY <1>1, <1>3, <2>2, RequestFacts DEF Searches, Scanning
    <3>2. pc[r] \in Scanning /\ scan'[r] = scan[r]
      BY <2>2, <3>1 DEF Looks
    <3>3. QED
      BY <2>2, <3>2 DEF Searches
  <2>3. QED
    BY <2>1, <2>2
<1>4. CASE \E u \in Requests \ {r} : RequestStep(u)
  <2>1. PICK u \in Requests \ {r} : RequestStep(u)
    BY <1>4
  <2>2. Others(u)
    BY <1>1, <2>1, RequestFacts
  <2>3. QED
    BY <1>2, <2>2 DEF Others
<1>5. CASE UNCHANGED requestVars
  BY <1>2, <1>5 DEF requestVars
<1>6. QED
  BY <1>3, <1>4, <1>5 DEF Next, RequestStep, PoolChanges, Reload, Tick, vars, requestVars

\* model_router.rs next_fallback: a fallback is another model than the one that failed,
\* and one in rotation at the moment it is chosen, although the healthy flag and the
\* cooldown are read in two steps and reports and clocks come between them.
THEOREM FallbacksDiffer == Spec => []LooksElsewhere /\ FallsBackElsewhere
<1>1. Init => LooksElsewhere
  BY DEF Init, LooksElsewhere, Searches, Scanning
<1>2. RouterInv /\ LooksElsewhere /\ [Next]_vars => LooksElsewhere'
  BY StepElsewhere DEF LooksElsewhere
<1>3. RouterInv /\ LooksElsewhere /\ [Next]_vars
        => [\A r \in Requests : Searches(r) /\ pc'[r] = "attempt" =>
               /\ model'[r] = SpecOf(LookedAt(r)) /\ model'[r] # model[r]
               /\ healthy'[LookedAt(r)]]_vars
  BY StepElsewhere
<1>4. QED
  BY <1>1, <1>2, <1>3, InitRouter, StepRouter, PTL DEF Spec, FallsBackElsewhere
=============================================================================
