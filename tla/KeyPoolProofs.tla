---------------------------- MODULE KeyPoolProofs ----------------------------
(***************************************************************************)
(* What KeyPool guarantees for any number of keys and callers and any      *)
(* configuration of the backoff, and what a scan of KeyPoolScan sees.      *)
(*                                                                         *)
(* A key out of rotation keeps the end of its cooldown (IInv); a scan has  *)
(* still ahead of it whatever was healthy all along (ScanInv); a request   *)
(* is through with its pool after a bounded number of steps (Use); and     *)
(* nobody new comes to a key that is out of rotation (InHand).             *)
(***************************************************************************)
EXTENDS KeyPoolScan, TLAPS

\* The cooldown report_error chooses is never longer than the configured cap,
\* or half the base where that is longer, for every escalation count.
LEMMA CooldownRange ==
    ASSUME NEW kind, NEW n
    PROVE  /\ Cooldown(kind, n) \in 0 .. LongestCooldown
           /\ LongestCooldown \in Nat
<1> DEFINE exp == CooldownSeconds * 2 ^ (n - 1)
<1>1. RateLimitCooldown(n) = IF exp \in 0 .. CooldownCap THEN exp ELSE CooldownCap
  BY DEF RateLimitCooldown
<1> HIDE DEF exp
<1>2. RateLimitCooldown(n) \in 0 .. CooldownCap
  BY <1>1, KeyPoolAssumption DEF KeyPoolAssumption
<1>3. ErrorCooldown \in Nat
  BY KeyPoolAssumption DEF KeyPoolAssumption, ErrorCooldown
<1>4. QED
  BY <1>2, <1>3, KeyPoolAssumption DEF KeyPoolAssumption, Cooldown, LongestCooldown

LEMMA Values ==
    /\ NoBest \in Candidate
    /\ LongestCooldown \in Nat
    /\ 0 \in Keys
<1>1. NoBest \in Candidate
  BY KeyPoolAssumption DEF KeyPoolAssumption, NoBest, NoKey, Candidate
<1>2. LongestCooldown \in Nat
  BY CooldownRange
<1>3. 0 \in Keys
  BY KeyPoolAssumption DEF KeyPoolAssumption, Keys
<1>4. QED
  BY <1>1, <1>2, <1>3

LEMMA NextKey == \A k \in Keys : NextEndpoint(k) \in Keys
BY KeyPoolAssumption DEF KeyPoolAssumption, Keys, NextEndpoint

LEMMA InitTypeOK == Init => TypeOK
BY Values, KeyPoolAssumption
DEF KeyPoolAssumption, Init, TypeOK, KeysTypeOK, CallersTypeOK, NoTime, Places

-----------------------------------------------------------------------------
(***************************************************************************)
(* The callers' side of a step, for the operators several actions share.   *)
(***************************************************************************)
LEMMA LeavePoolType ==
    ASSUME CallersTypeOK, NEW c \in Callers, LeavePool(c)
    PROVE  CallersTypeOK'
BY Values, KeyPoolAssumption DEF KeyPoolAssumption, CallersTypeOK, LeavePool, Places

LEMMA BeginScanType ==
    ASSUME CallersTypeOK, NEW c \in Callers, NEW what \in {"acquire", "exhausted"},
           NEW start \in Keys, BeginScan(c, what, start)
    PROVE  CallersTypeOK' /\ UNCHANGED <<keyVars, until, dropped>>
BY Values, KeyPoolAssumption DEF KeyPoolAssumption, CallersTypeOK, BeginScan, Places

LEMMA EndScanType ==
    ASSUME CallersTypeOK, NEW c \in Callers, NEW choice \in Candidate,
           EndScan(c, choice), UNCHANGED <<op, detached>>
    PROVE  CallersTypeOK'
<1>1. choice.key # NoKey => choice.key \in Keys
  BY DEF Candidate
<1>2. QED
  BY <1>1, Values, KeyPoolAssumption
  DEF KeyPoolAssumption, CallersTypeOK, EndScan, Places

LEMMA AdvanceType ==
    ASSUME CallersTypeOK, NEW c \in Callers, NEW choice \in Candidate, Advance(c, choice)
    PROVE  CallersTypeOK' /\ UNCHANGED <<strategy, roundRobinIdx, until>>
<1>1. CASE EndScan(c, choice)
  BY <1>1, EndScanType DEF Advance
<1>2. CASE ~EndScan(c, choice)
  <2>1. /\ left[c] > 1
        /\ pc' = [pc EXCEPT ![c] = "scan"]
        /\ ep' = [ep EXCEPT ![c] = NextEndpoint(@)]
        /\ left' = [left EXCEPT ![c] = @ - 1]
        /\ best' = [best EXCEPT ![c] = choice]
        /\ UNCHANGED <<retries, strategy, roundRobinIdx, op, until, detached>>
    BY <1>2 DEF Advance
  <2>2. ep' \in [Callers -> Keys]
    BY <2>1, NextKey DEF CallersTypeOK
  <2>3. left' \in [Callers -> 0 .. NumKeys]
    BY <2>1, KeyPoolAssumption DEF KeyPoolAssumption, CallersTypeOK
  <2>4. QED
    BY <2>1, <2>2, <2>3 DEF CallersTypeOK, Places
<1>3. QED
  BY <1>1, <1>2

LEMMA FoundAvailableType ==
    ASSUME TypeOK, NEW c \in Callers, FoundAvailable(c)
    PROVE  CallersTypeOK' /\ UNCHANGED <<strategy, roundRobinIdx, until>>
<1> DEFINE this == [key |-> ep[c], errors |-> totalErrors[ep[c]]]
<1>1. this \in Candidate /\ best[c] \in Candidate
  BY KeyPoolAssumption
  DEF KeyPoolAssumption, TypeOK, KeysTypeOK, CallersTypeOK, Candidate
<1> HIDE DEF this
<1>2. CASE Advance(c, IF this.errors < best[c].errors THEN this ELSE best[c])
  BY <1>1, <1>2, AdvanceType DEF TypeOK
<1>3. CASE EndScan(c, this) /\ UNCHANGED <<strategy, roundRobinIdx, op, until, detached>>
  BY <1>1, <1>3, EndScanType DEF TypeOK
<1>4. CASE /\ pc' = [pc EXCEPT ![c] = "unkeyed"]
           /\ left' = [left EXCEPT ![c] = 0]
           /\ ep' = [ep EXCEPT ![c] = 0]
           /\ UNCHANGED <<strategy, roundRobinIdx, op, best, until, retries, detached>>
  BY <1>4, Values, KeyPoolAssumption
  DEF KeyPoolAssumption, TypeOK, CallersTypeOK, Places
<1>5. QED
  BY <1>2, <1>3, <1>4 DEF FoundAvailable, this

LEMMA AfterReportErrorType ==
    ASSUME CallersTypeOK, NEW c \in Callers, NEW kind, AfterReportError(c, kind)
    PROVE  CallersTypeOK'
<1>1. CASE LeavePool(c)
  BY <1>1, LeavePoolType
<1>2. CASE ~LeavePool(c)
  BY <1>2, KeyPoolAssumption
  DEF KeyPoolAssumption, AfterReportError, CallersTypeOK, Places
<1>3. QED
  BY <1>1, <1>2

\* Recover resets one key.
LEMMA RecoverType ==
    ASSUME KeysTypeOK, NEW k \in Keys, Recover(k), UNCHANGED <<strategy, roundRobinIdx>>
    PROVE  KeysTypeOK'
BY Values, KeyPoolAssumption DEF KeyPoolAssumption, KeysTypeOK, Recover, NoTime

-----------------------------------------------------------------------------
LEMMA CallerStepTypeOK ==
    ASSUME TypeOK, NEW c \in Callers, CallerStep(c)
    PROVE  TypeOK'
<1> USE DEF TypeOK
<1>1. CASE Acquire(c)
  <2>1. PICK start \in Keys : BeginScan(c, "acquire", start)
    BY <1>1, Values DEF Acquire, KeysTypeOK
  <2>2. roundRobinIdx' \in Keys /\ UNCHANGED strategy
    BY <1>1, NextKey DEF Acquire, KeysTypeOK, NextEndpoint
  <2>3. QED
    BY <2>1, <2>2, BeginScanType DEF KeysTypeOK, keyVars
<1>2. CASE AskExhausted(c)
  BY <1>2, Values, BeginScanType DEF AskExhausted, KeysTypeOK, keyVars
<1>3. CASE LoadHealthy(c)
  <2>1. CallersTypeOK' /\ UNCHANGED <<strategy, roundRobinIdx, until>>
    <3>1. CASE FoundAvailable(c)
      BY <3>1, FoundAvailableType
    <3>2. CASE ~FoundAvailable(c)
      BY <1>3, <3>2 DEF LoadHealthy, CallersTypeOK, Places
    <3>3. QED
      BY <3>1, <3>2
  <2>2. QED
    BY <1>3, <2>1 DEF LoadHealthy, KeysTypeOK, keyVars
<1>4. CASE LockAndCheck(c)
  <2>1. CASE Recover(ep[c]) /\ FoundAvailable(c)
    BY <2>1, FoundAvailableType, RecoverType DEF CallersTypeOK
  <2>2. CASE Advance(c, best[c]) /\ UNCHANGED <<keyVars, dropped>>
    BY <2>2, AdvanceType DEF CallersTypeOK, KeysTypeOK, keyVars
  <2>3. QED
    BY <1>4, <2>1, <2>2 DEF LockAndCheck
<1>5. CASE AnswerOk(c)
  <2>1. CallersTypeOK'
    <3>1. CASE LeavePool(c)
      BY <3>1, LeavePoolType
    <3>2. CASE ~LeavePool(c)
      BY <1>5, <3>2 DEF AnswerOk, CallersTypeOK, Places
    <3>3. QED
      BY <3>1, <3>2
  <2>2. QED
    BY <1>5, <2>1 DEF AnswerOk, KeysTypeOK, poolVars, keyVars
<1>6. CASE AnswerDetached(c)
  <2>1. CallersTypeOK'
    <3>1. CASE LeavePool(c)
      BY <3>1, LeavePoolType
    <3>2. CASE ~LeavePool(c)
      BY <1>6, <3>2, KeyPoolAssumption
      DEF KeyPoolAssumption, AnswerDetached, CallersTypeOK
    <3>3. QED
      BY <3>1, <3>2
  <2>2. QED
    BY <1>6, <2>1 DEF AnswerDetached, KeysTypeOK, poolVars, keyVars
<1>7. ASSUME NEW kind \in {"rate_limit", "error"}, AnswerError(c, kind) PROVE TypeOK'
  <2>1. CallersTypeOK'
    <3>1. CASE AfterReportError(c, kind)
      BY <3>1, AfterReportErrorType
    <3>2. CASE ~AfterReportError(c, kind)
      BY <1>7, <3>2 DEF AnswerError, CallersTypeOK, Places
    <3>3. QED
      BY <3>1, <3>2
  <2>2. KeysTypeOK'
    BY <1>7, KeyPoolAssumption
    DEF KeyPoolAssumption, AnswerError, KeysTypeOK, CallersTypeOK
  <2>3. QED
    BY <1>7, <2>1, <2>2 DEF AnswerError
<1>8. CASE Escalate(c)
  <2>1. cooldownCount' \in [Keys -> 0 .. EscalationBound]
    BY <1>8, KeyPoolAssumption DEF KeyPoolAssumption, Escalate, KeysTypeOK, CallersTypeOK
  <2>2. until' \in [Callers -> NoTime .. LongestCooldown]
    BY <1>8, CooldownRange DEF Escalate, NoTime
  <2>3. QED
    BY <1>8, <2>1, <2>2 DEF Escalate, KeysTypeOK, CallersTypeOK, Places
<1>9. CASE CoolDown(c)
  <2>1. CallersTypeOK'
    BY <1>9, AfterReportErrorType DEF CoolDown
  <2>2. KeysTypeOK' /\ until' \in [Callers -> NoTime .. LongestCooldown]
    BY <1>9, Values DEF CoolDown, KeysTypeOK, CallersTypeOK, NoTime
  <2>3. QED
    BY <2>1, <2>2
<1>10. CASE ResetErrors(c)
  BY <1>10, KeyPoolAssumption
  DEF KeyPoolAssumption, ResetErrors, KeysTypeOK, CallersTypeOK, Places
<1>11. CASE ResetCount(c)
  BY <1>11, KeyPoolAssumption
  DEF KeyPoolAssumption, ResetCount, KeysTypeOK, CallersTypeOK, Places
<1>12. CASE MarkHealthy(c)
  BY <1>12, LeavePoolType DEF MarkHealthy, KeysTypeOK
<1>13. CASE LeaveVerdict(c)
  BY <1>13, LeavePoolType DEF LeaveVerdict, KeysTypeOK, poolVars, keyVars
<1>14. CASE Disconnect(c)
  <2>1. until' \in [Callers -> NoTime .. LongestCooldown]
    BY <1>14, Values DEF Disconnect, NoTime
  <2>2. QED
    BY <1>14, <2>1, LeavePoolType DEF Disconnect, KeysTypeOK, CallersTypeOK, poolVars, keyVars
<1>15. QED
  BY <1>1, <1>2, <1>3, <1>4, <1>5, <1>6, <1>7, <1>8, <1>9, <1>10, <1>11,
     <1>12, <1>13, <1>14 DEF CallerStep

LEMMA StepTypeOK == TypeOK /\ [Next]_vars => TypeOK'
<1> SUFFICES ASSUME TypeOK, [Next]_vars PROVE TypeOK'
  OBVIOUS
<1> USE DEF TypeOK
<1>1. ASSUME NEW c \in Callers, CallerStep(c) PROVE TypeOK'
  BY <1>1, CallerStepTypeOK
<1>2. ASSUME NEW k \in Keys, RecoverExpired(k) PROVE TypeOK'
  BY <1>2, RecoverType DEF RecoverExpired, CallersTypeOK, callerVars
<1>3. CASE Reload
  BY <1>3, Values, KeyPoolAssumption
  DEF KeyPoolAssumption, Reload, KeysTypeOK, CallersTypeOK, NoTime
<1>4. CASE Tick
  <2>1. \A t \in NoTime .. LongestCooldown : Elapse(t) \in NoTime .. LongestCooldown
    BY Values DEF Elapse, NoTime
  <2>2. QED
    BY <1>4, <2>1 DEF Tick, KeysTypeOK, CallersTypeOK
<1>5. CASE UNCHANGED vars
  BY <1>5 DEF vars, keyVars, poolVars, callerVars, KeysTypeOK, CallersTypeOK
<1>6. QED
  BY <1>1, <1>2, <1>3, <1>4, <1>5 DEF Next

\* Every key and every caller stays in the domain the code declares for it; in
\* particular no interleaving makes a cooldown longer than LongestCooldown.
THEOREM TypeCorrect == Spec => []TypeOK
<1>1. QED
  BY InitTypeOK, StepTypeOK, PTL DEF Spec

-----------------------------------------------------------------------------
(***************************************************************************)
(* The inductive invariant.  NoKeyStranded needs that what CoolDown stores *)
(* is an instant, never None; ErrorThresholdCools is inductive with types. *)
(***************************************************************************)
UntilComputed == \A c \in Callers : pc[c] = "cool" => until[c] # NoTime

IInv == TypeOK /\ UntilComputed /\ NoKeyStranded /\ ErrorThresholdCools

InReport == {"escalating", "cool"}

\* Caller c moves on its own and neither before nor after is in report_error.
QuietMove(c) ==
    /\ pc[c] \notin InReport
    /\ pc'[c] \notin InReport
    /\ \A d \in Callers \ {c} : pc'[d] = pc[d] /\ ep'[d] = ep[d]
    /\ until' = until

\* Key k is left alone but for its error count being reset or it being marked
\* healthy, or it recovers.
GentleChange(k) ==
    \/ /\ healthy'[k] = healthy[k] \/ healthy'[k]
       /\ cooldownUntil'[k] = cooldownUntil[k]
       /\ consecutiveErrors'[k] = consecutiveErrors[k] \/ consecutiveErrors'[k] = 0
       /\ k \in dropped => k \in dropped'
    \/ healthy'[k] /\ consecutiveErrors'[k] = 0

LEMMA QuietStep ==
    ASSUME IInv, TypeOK', NEW c \in Callers, QuietMove(c), \A k \in Keys : GentleChange(k)
    PROVE  IInv'
<1>1. UntilComputed'
  BY DEF IInv, UntilComputed, QuietMove, InReport
<1>2. NoKeyStranded'
  BY DEF IInv, NoKeyStranded, GentleChange
<1>3. ErrorThresholdCools'
  <2> SUFFICES ASSUME NEW k \in Keys, (consecutiveErrors[k] >= MaxConsecutiveErrors)'
               PROVE  \/ cooldownUntil'[k] # NoTime
                      \/ \E d \in Callers : Reporting(d, k)'
                      \/ k \in dropped'
    BY DEF ErrorThresholdCools
  <2>1. ~(0 >= MaxConsecutiveErrors)
    BY KeyPoolAssumption DEF KeyPoolAssumption
  <2>2. /\ cooldownUntil'[k] = cooldownUntil[k]
        /\ consecutiveErrors'[k] = consecutiveErrors[k]
        /\ k \in dropped => k \in dropped'
    BY <2>1 DEF GentleChange
  <2>3. \A d \in Callers : Reporting(d, k) => Reporting(d, k)'
    BY DEF Reporting, QuietMove, InReport
  <2>4. QED
    BY <2>2, <2>3 DEF IInv, ErrorThresholdCools
<1>4. QED
  BY <1>1, <1>2, <1>3 DEF IInv

LEMMA LeavePoolMoves ==
    ASSUME TypeOK, NEW c \in Callers, LeavePool(c)
    PROVE  /\ pc'[c] = "idle"
           /\ \A d \in Callers \ {c} : pc'[d] = pc[d] /\ ep'[d] = ep[d]
BY DEF TypeOK, CallersTypeOK, LeavePool

LEMMA AfterReportErrorMoves ==
    ASSUME TypeOK, NEW c \in Callers, NEW kind, AfterReportError(c, kind)
    PROVE  /\ pc'[c] \in {"idle", "inflight"}
           /\ \A d \in Callers \ {c} : pc'[d] = pc[d] /\ ep'[d] = ep[d]
BY LeavePoolMoves DEF TypeOK, CallersTypeOK, AfterReportError

LEMMA AdvanceMoves ==
    ASSUME TypeOK, NEW c \in Callers, NEW choice, pc[c] \notin InReport,
           Advance(c, choice) \/ (EndScan(c, choice) /\ UNCHANGED until)
    PROVE  QuietMove(c)
BY DEF TypeOK, CallersTypeOK, Advance, EndScan, QuietMove, InReport

LEMMA FoundAvailableMoves ==
    ASSUME TypeOK, NEW c \in Callers, pc[c] \notin InReport, FoundAvailable(c)
    PROVE  QuietMove(c)
<1> DEFINE this == [key |-> ep[c], errors |-> totalErrors[ep[c]]]
           choice == IF this.errors < best[c].errors THEN this ELSE best[c]
<1>1. CASE Advance(c, choice)
  BY <1>1, AdvanceMoves
<1>2. CASE EndScan(c, this) /\ UNCHANGED until
  BY <1>2, AdvanceMoves
<1>3. CASE /\ pc' = [pc EXCEPT ![c] = "unkeyed"]
           /\ ep' = [ep EXCEPT ![c] = 0]
           /\ UNCHANGED until
  BY <1>3 DEF TypeOK, CallersTypeOK, QuietMove, InReport
<1>4. QED
  BY <1>1, <1>2, <1>3 DEF FoundAvailable

LEMMA RecoverGentle ==
    ASSUME TypeOK, NEW k \in Keys, Recover(k)
    PROVE  \A j \in Keys : GentleChange(j)
BY DEF TypeOK, KeysTypeOK, Recover, GentleChange

LEMMA UntouchedGentle ==
    ASSUME UNCHANGED <<healthy, cooldownUntil, consecutiveErrors, dropped>>
    PROVE  \A j \in Keys : GentleChange(j)
BY DEF GentleChange

LEMMA CallerStepInv ==
    ASSUME IInv, NEW c \in Callers, CallerStep(c)
    PROVE  IInv'
<1>0. TypeOK /\ TypeOK'
  BY CallerStepTypeOK DEF IInv
<1>1. CASE Acquire(c) \/ AskExhausted(c)
  <2>1. QuietMove(c)
    BY <1>0, <1>1
    DEF Acquire, AskExhausted, BeginScan, TypeOK, CallersTypeOK, QuietMove, InReport
  <2>2. QED
    BY <1>0, <1>1, <2>1, UntouchedGentle, QuietStep
    DEF Acquire, AskExhausted, BeginScan, keyVars
<1>2. CASE LoadHealthy(c)
  <2>1. QuietMove(c)
    <3>1. CASE FoundAvailable(c)
      BY <1>0, <1>2, <3>1, FoundAvailableMoves DEF LoadHealthy, InReport
    <3>2. CASE ~FoundAvailable(c)
      BY <1>0, <1>2, <3>2 DEF LoadHealthy, TypeOK, CallersTypeOK, QuietMove, InReport
    <3>3. QED
      BY <3>1, <3>2
  <2>2. QED
    BY <1>0, <1>2, <2>1, UntouchedGentle, QuietStep DEF LoadHealthy, keyVars
<1>3. CASE LockAndCheck(c)
  <2>1. QuietMove(c)
    BY <1>0, <1>3, FoundAvailableMoves, AdvanceMoves DEF LockAndCheck, InReport
  <2>2. \A k \in Keys : GentleChange(k)
    <3>1. CASE Recover(ep[c])
      BY <1>0, <3>1, RecoverGentle DEF TypeOK, CallersTypeOK
    <3>2. CASE UNCHANGED <<keyVars, dropped>>
      BY <3>2, UntouchedGentle DEF keyVars
    <3>3. QED
      BY <1>3, <3>1, <3>2 DEF LockAndCheck
  <2>3. QED
    BY <1>0, <2>1, <2>2, QuietStep
<1>4. CASE AnswerOk(c) \/ AnswerDetached(c) \/ LeaveVerdict(c)
  <2>1. QuietMove(c)
    <3>1. CASE LeavePool(c)
      BY <1>0, <1>4, <3>1, LeavePoolMoves
      DEF AnswerOk, AnswerDetached, LeaveVerdict, QuietMove, InReport
    <3>2. CASE ~LeavePool(c)
      BY <1>0, <1>4, <3>2
      DEF AnswerOk, AnswerDetached, LeaveVerdict, TypeOK, CallersTypeOK, QuietMove, InReport
    <3>3. QED
      BY <3>1, <3>2
  <2>2. QED
    BY <1>0, <1>4, <2>1, UntouchedGentle, QuietStep
    DEF AnswerOk, AnswerDetached, LeaveVerdict, poolVars, keyVars
<1>5. CASE ResetErrors(c) \/ ResetCount(c) \/ MarkHealthy(c)
  <2>1. QuietMove(c)
    BY <1>0, <1>5, LeavePoolMoves
    DEF ResetErrors, ResetCount, MarkHealthy, TypeOK, CallersTypeOK, QuietMove, InReport
  <2>2. \A k \in Keys : GentleChange(k)
    BY <1>0, <1>5
    DEF ResetErrors, ResetCount, MarkHealthy, TypeOK, KeysTypeOK, CallersTypeOK, GentleChange
  <2>3. QED
    BY <1>0, <2>1, <2>2, QuietStep
<1>6. ASSUME NEW kind \in {"rate_limit", "error"}, AnswerError(c, kind) PROVE IInv'
  <2>1. /\ pc[c] = "inflight"
        /\ pc'[c] \in {"idle", "inflight", "escalating"}
        /\ \A d \in Callers \ {c} : pc'[d] = pc[d] /\ ep'[d] = ep[d]
        /\ until' = until
    <3>1. CASE AfterReportError(c, kind)
      BY <1>0, <1>6, <3>1, AfterReportErrorMoves DEF AnswerError
    <3>2. CASE ~AfterReportError(c, kind)
      BY <1>0, <1>6, <3>2 DEF AnswerError, TypeOK, CallersTypeOK
    <3>3. QED
      BY <3>1, <3>2
  <2>2. UntilComputed'
    BY <2>1 DEF IInv, UntilComputed
  <2>3. NoKeyStranded'
    BY <1>6 DEF AnswerError, IInv, NoKeyStranded
  <2>4. ErrorThresholdCools'
    <3> SUFFICES ASSUME NEW k \in Keys, (consecutiveErrors[k] >= MaxConsecutiveErrors)'
                 PROVE  \/ cooldownUntil'[k] # NoTime
                        \/ \E d \in Callers : Reporting(d, k)'
                        \/ k \in dropped'
      BY DEF ErrorThresholdCools
    <3>1. CASE k = ep[c]
      <4>1. (consecutiveErrors[k] + 1 >= MaxConsecutiveErrors)
        BY <1>0, <1>6, <3>1, KeyPoolAssumption
        DEF KeyPoolAssumption, AnswerError, TypeOK, KeysTypeOK
      <4>2. consecutiveErrors[k] < MaxConsecutiveErrors \/ consecutiveErrors[k] = MaxConsecutiveErrors
        BY <1>0, KeyPoolAssumption DEF KeyPoolAssumption, TypeOK, KeysTypeOK
      <4>3. pc' = [pc EXCEPT ![c] = "escalating"] /\ ep' = ep
        BY <1>0, <1>6, <3>1, <4>1, <4>2, KeyPoolAssumption
        DEF KeyPoolAssumption, AnswerError, TypeOK, KeysTypeOK
      <4>4. Reporting(c, k)'
        BY <1>0, <3>1, <4>3 DEF Reporting, TypeOK, CallersTypeOK
      <4>5. QED
        BY <4>4
    <3>2. CASE k # ep[c]
      <4>1. /\ consecutiveErrors'[k] = consecutiveErrors[k]
            /\ cooldownUntil' = cooldownUntil
            /\ dropped' = dropped
        BY <1>0, <1>6, <3>2 DEF AnswerError, TypeOK, KeysTypeOK
      <4>2. \A d \in Callers : Reporting(d, k) => Reporting(d, k)'
        BY <2>1 DEF Reporting
      <4>3. QED
        BY <4>1, <4>2 DEF IInv, ErrorThresholdCools
    <3>3. QED
      BY <3>1, <3>2
  <2>5. QED
    BY <1>0, <2>2, <2>3, <2>4 DEF IInv
<1>7. CASE Escalate(c)
  <2>1. UntilComputed'
    <3>1. until'[c] # NoTime
      BY <1>0, <1>7, CooldownRange DEF Escalate, TypeOK, NoTime
    <3>2. QED
      BY <1>0, <1>7, <3>1 DEF Escalate, IInv, UntilComputed, TypeOK, CallersTypeOK
  <2>2. NoKeyStranded'
    BY <1>7 DEF Escalate, IInv, NoKeyStranded
  <2>3. \A k \in Keys, d \in Callers : Reporting(d, k) => Reporting(d, k)'
    BY <1>0, <1>7 DEF Escalate, Reporting, TypeOK, CallersTypeOK
  <2>4. ErrorThresholdCools'
    BY <1>7, <2>3 DEF Escalate, IInv, ErrorThresholdCools
  <2>5. QED
    BY <1>0, <2>1, <2>2, <2>4 DEF IInv
<1>8. CASE CoolDown(c)
  <2>1. /\ pc[c] = "cool" /\ pc'[c] \in {"idle", "inflight"}
        /\ \A d \in Callers \ {c} : pc'[d] = pc[d] /\ ep'[d] = ep[d]
    BY <1>0, <1>8, AfterReportErrorMoves DEF CoolDown
  <2>2. cooldownUntil'[ep[c]] # NoTime
    BY <1>0, <1>8 DEF CoolDown, IInv, UntilComputed, TypeOK, KeysTypeOK, CallersTypeOK
  <2>3. \A k \in Keys \ {ep[c]} :
          /\ healthy'[k] = healthy[k]
          /\ cooldownUntil'[k] = cooldownUntil[k]
          /\ k \in dropped => k \in dropped'
    BY <1>0, <1>8 DEF CoolDown, TypeOK, KeysTypeOK
  <2>4. UntilComputed'
    <3> SUFFICES ASSUME NEW d \in Callers, pc'[d] = "cool" PROVE until'[d] # NoTime
      BY DEF UntilComputed
    <3>1. d # c /\ pc[d] = "cool"
      BY <2>1
    <3>2. until'[d] = until[d]
      <4>1. until' = [until EXCEPT ![c] = NoTime] /\ d # c
        BY <1>8, <3>1 DEF CoolDown
      <4>2. until \in [Callers -> NoTime .. LongestCooldown]
        BY <1>0 DEF TypeOK
      <4>3. QED
        BY <4>1, <4>2
    <3>3. QED
      BY <3>1, <3>2 DEF IInv, UntilComputed
  <2>5. NoKeyStranded'
    <3> SUFFICES ASSUME NEW k \in Keys, ~healthy'[k] PROVE cooldownUntil'[k] # NoTime
      BY DEF NoKeyStranded
    <3>1. CASE k = ep[c]
      BY <2>2, <3>1
    <3>2. CASE k # ep[c]
      BY <2>3, <3>2 DEF IInv, NoKeyStranded
    <3>3. QED
      BY <3>1, <3>2
  <2>6. \A k \in Keys \ {ep[c]}, d \in Callers : Reporting(d, k) => Reporting(d, k)'
    BY <2>1 DEF Reporting
  <2>7. ErrorThresholdCools'
    BY <1>8, <2>2, <2>3, <2>6 DEF CoolDown, IInv, ErrorThresholdCools
  <2>8. QED
    BY <1>0, <2>4, <2>5, <2>7 DEF IInv
<1>9. CASE Disconnect(c)
  <2>1. /\ pc[c] # "escalating" /\ pc'[c] = "idle"
        /\ \A d \in Callers \ {c} : pc'[d] = pc[d] /\ ep'[d] = ep[d]
        /\ \A d \in Callers \ {c} : until'[d] = until[d]
        /\ UNCHANGED <<healthy, cooldownUntil, consecutiveErrors>>
        /\ \A k \in Keys : k \in dropped \/ (pc[c] = "cool" /\ k = ep[c]) => k \in dropped'
    BY <1>0, <1>9, LeavePoolMoves DEF Disconnect, poolVars, keyVars, TypeOK
  <2>2. UntilComputed'
    BY <2>1 DEF IInv, UntilComputed
  <2>3. NoKeyStranded'
    BY <2>1 DEF IInv, NoKeyStranded
  <2>4. \A k \in Keys, d \in Callers : Reporting(d, k) => Reporting(d, k)' \/ k \in dropped'
    BY <2>1 DEF Reporting
  <2>5. ErrorThresholdCools'
    BY <2>1, <2>4 DEF IInv, ErrorThresholdCools
  <2>6. QED
    BY <1>0, <2>2, <2>3, <2>5 DEF IInv
<1>10. QED
  BY <1>1, <1>2, <1>3, <1>4, <1>5, <1>6, <1>7, <1>8, <1>9 DEF CallerStep

LEMMA InitInv == Init => IInv
<1> SUFFICES ASSUME Init PROVE IInv
  OBVIOUS
<1>1. ~(0 >= MaxConsecutiveErrors)
  BY KeyPoolAssumption DEF KeyPoolAssumption
<1>2. QED
  BY <1>1, InitTypeOK DEF Init, IInv, UntilComputed, NoKeyStranded, ErrorThresholdCools

LEMMA StepInv == IInv /\ [Next]_vars => IInv'
<1> SUFFICES ASSUME IInv, [Next]_vars PROVE IInv'
  OBVIOUS
<1>0. TypeOK /\ TypeOK'
  BY StepTypeOK DEF IInv
<1>1. ASSUME NEW c \in Callers, CallerStep(c) PROVE IInv'
  BY <1>1, CallerStepInv
<1>2. ASSUME NEW k \in Keys, RecoverExpired(k) PROVE IInv'
  <2>1. UNCHANGED <<pc, ep, until>>
    BY <1>2 DEF RecoverExpired, callerVars
  <2>2. \A j \in Keys : GentleChange(j)
    BY <1>0, <1>2, RecoverGentle DEF RecoverExpired
  <2>3. UntilComputed'
    BY <2>1 DEF IInv, UntilComputed
  <2>4. NoKeyStranded'
    BY <2>2 DEF IInv, NoKeyStranded, GentleChange
  <2>5. ~(0 >= MaxConsecutiveErrors)
    BY KeyPoolAssumption DEF KeyPoolAssumption
  <2>6. ErrorThresholdCools'
    BY <2>1, <2>2, <2>5 DEF IInv, ErrorThresholdCools, GentleChange, Reporting
  <2>7. QED
    BY <1>0, <2>3, <2>4, <2>6 DEF IInv
<1>3. CASE Reload
  <2>1. UntilComputed'
    BY <1>3 DEF Reload, IInv, UntilComputed
  <2>2. NoKeyStranded'
    BY <1>3 DEF Reload, NoKeyStranded
  <2>3. ~(0 >= MaxConsecutiveErrors)
    BY KeyPoolAssumption DEF KeyPoolAssumption
  <2>4. ErrorThresholdCools'
    BY <1>3, <2>3 DEF Reload, ErrorThresholdCools
  <2>5. QED
    BY <1>0, <2>1, <2>2, <2>4 DEF IInv
<1>4. CASE Tick
  <2>1. \A t \in NoTime .. LongestCooldown : Elapse(t) = NoTime <=> t = NoTime
    BY Values DEF Elapse, NoTime
  <2>2. /\ UNCHANGED <<healthy, consecutiveErrors, pc, ep, dropped>>
        /\ \A k \in Keys : cooldownUntil'[k] = NoTime <=> cooldownUntil[k] = NoTime
        /\ \A c \in Callers : until'[c] = NoTime <=> until[c] = NoTime
    BY <1>0, <1>4, <2>1 DEF Tick, TypeOK, KeysTypeOK
  <2>3. UntilComputed' /\ NoKeyStranded'
    BY <2>2 DEF IInv, UntilComputed, NoKeyStranded
  <2>4. ErrorThresholdCools'
    BY <2>2 DEF IInv, ErrorThresholdCools, Reporting
  <2>5. QED
    BY <1>0, <2>3, <2>4 DEF IInv
<1>5. CASE UNCHANGED vars
  BY <1>0, <1>5 DEF vars, poolVars, keyVars, callerVars, IInv, UntilComputed, NoKeyStranded,
     ErrorThresholdCools, Reporting
<1>6. QED
  BY <1>1, <1>2, <1>3, <1>4, <1>5 DEF Next

THEOREM InvCorrect == Spec => []IInv
<1>1. QED
  BY InitInv, StepInv, PTL DEF Spec

\* NoKeyStranded (see KeyPool) in every reachable state: whatever requests,
\* recoveries, disconnects and reloads interleave, a key that is out of rotation
\* has an end of its cooldown set, so recover_expired_cooldowns will find it.
THEOREM NeverStranded == Spec => []NoKeyStranded
<1>1. IInv => NoKeyStranded
  BY DEF IInv
<1>2. QED
  BY InvCorrect, <1>1, PTL

\* ErrorThresholdCools (see KeyPool) in every reachable state: the threshold of
\* report_error is never passed without a cooldown being set or under way.
THEOREM ThresholdEnforced == Spec => []ErrorThresholdCools
<1>1. IInv => ErrorThresholdCools
  BY DEF IInv
<1>2. QED
  BY InvCorrect, <1>1, PTL

\* An active cooldown is left alone by every step but Tick, which ages it,
\* CoolDown, which replaces it by another instant, and Reload.
LEMMA StepKeepsCooldown ==
    ASSUME IInv, Next, NEW k \in Keys, CoolingDown(k)
    PROVE  cooldownUntil'[k] # NoTime \/ Reload
<1>0. /\ TypeOK
      /\ cooldownUntil[k] # NoTime /\ cooldownUntil[k] # 0
      /\ cooldownUntil[k] \in Nat
  BY Values DEF IInv, CoolingDown, TypeOK, KeysTypeOK, NoTime
<1>1. ASSUME NEW c \in Callers, CallerStep(c) PROVE cooldownUntil'[k] # NoTime
  <2>1. CASE LockAndCheck(c)
    <3>1. CASE cooldownUntil[ep[c]] = 0 /\ Recover(ep[c])
      BY <1>0, <3>1 DEF Recover, TypeOK, KeysTypeOK, CallersTypeOK
    <3>2. CASE UNCHANGED keyVars
      BY <1>0, <3>2 DEF keyVars
    <3>3. QED
      BY <2>1, <3>1, <3>2 DEF LockAndCheck
  <2>2. CASE CoolDown(c)
    BY <1>0, <2>2 DEF CoolDown, IInv, UntilComputed, TypeOK, KeysTypeOK, CallersTypeOK
  <2>3. CASE ~LockAndCheck(c) /\ ~CoolDown(c)
    BY <1>0, <1>1, <2>3
    DEF CallerStep, Acquire, AskExhausted, BeginScan, LoadHealthy, AnswerOk, AnswerDetached,
        AnswerError, Escalate, ResetErrors, ResetCount, MarkHealthy, LeaveVerdict,
        Disconnect, keyVars, poolVars
  <2>4. QED
    BY <2>1, <2>2, <2>3
<1>2. ASSUME NEW j \in Keys, RecoverExpired(j) PROVE cooldownUntil'[k] # NoTime
  BY <1>0, <1>2 DEF RecoverExpired, Recover, TypeOK, KeysTypeOK
<1>3. CASE Tick
  BY <1>0, <1>3 DEF Tick, Elapse, NoTime
<1>4. QED
  BY <1>1, <1>2, <1>3 DEF Next

\* CooldownRunsOut (see KeyPool): no late success, scan or recovery erases a
\* cooldown that has not run out.
THEOREM CooldownKept == Spec => CooldownRunsOut
<1>1. IInv /\ [Next]_vars =>
        [\A k \in Keys : CoolingDown(k) => cooldownUntil'[k] # NoTime \/ Reload]_vars
  BY StepKeepsCooldown
<1>2. QED
  BY <1>1, InvCorrect, PTL DEF Spec, CooldownRunsOut
-----------------------------------------------------------------------------
(***************************************************************************)
(* A scan misses no key that stays usable.  The keys it has passed by were *)
(* unhealthy when it did, so those that were healthy all along are ahead.  *)
(***************************************************************************)
\* The keys the scan of c still has to look at.
ToSee(c) ==
    {k \in Keys : \/ ep[c] <= k /\ k < ep[c] + left[c]
                  \/ k + NumKeys < ep[c] + left[c]}

ScanOf(c) ==
    /\ steady[c] \subseteq {k \in Keys : healthy[k]}
    /\ pc[c] \in {"none", "escalate"} => steady[c] = {}
    /\ pc[c] = "lock" => ep[c] \notin steady[c]
    /\ pc[c] \in {"scan", "lock"} =>
         \/ best[c] = NoBest /\ steady[c] \subseteq ToSee(c)
         \/ op[c] = "acquire" /\ best[c].key # NoKey

ScanInv == \A c \in Callers : ScanOf(c)

Searching == {"scan", "lock", "none", "escalate"}

LEMMA NextKeyIs ==
    \A k \in Keys : NextEndpoint(k) = IF k + 1 = NumKeys THEN 0 ELSE k + 1
BY KeyPoolAssumption DEF KeyPoolAssumption, Keys, NextEndpoint

\* A caller that is not on a scan has nothing to remember.
LEMMA OffScan ==
    ASSUME NEW c \in Callers, TrackSteady, pc'[c] \notin Searching
    PROVE  ScanOf(c)'
<1>1. steady'[c] = {}
  BY DEF TrackSteady, Begins, Searching
<1>2. QED
  BY <1>1 DEF ScanOf, Searching

\* What the others do can only make keys unhealthy that a scan counts on.
LEMMA OthersScan ==
    ASSUME TypeOK, NEW c \in Callers, ScanOf(c), TrackSteady,
           pc'[c] = pc[c], op'[c] = op[c], ep'[c] = ep[c], left'[c] = left[c], best'[c] = best[c]
    PROVE  ScanOf(c)'
<1>1. CASE pc[c] \notin Searching
  BY <1>1, OffScan
<1>2. CASE pc[c] \in Searching
  <2>1. steady'[c] = {k \in steady[c] : healthy'[k]}
    BY <1>2 DEF TrackSteady, Begins, Searching
  <2>2. ToSee(c)' = ToSee(c)
    BY DEF ToSee
  <2>3. QED
    BY <2>1, <2>2 DEF ScanOf
<1>3. QED
  BY <1>1, <1>2

\* A scan begins with every key ahead of it.
LEMMA BeginScanSees ==
    ASSUME TypeOK, NEW c \in Callers, NEW what, NEW start \in Keys,
           pc[c] \in {"idle", "none"}, BeginScan(c, what, start), TrackSteady
    PROVE  ScanOf(c)'
<1>1. /\ pc'[c] = "scan" /\ ep'[c] = start /\ left'[c] = NumKeys /\ best'[c] = NoBest
      /\ healthy' = healthy
  BY DEF BeginScan, TypeOK, CallersTypeOK, keyVars
<1>2. steady'[c] = {k \in Keys : healthy[k]}
  BY <1>1 DEF TrackSteady, Begins
<1>3. ToSee(c)' = Keys
  <2>1. \A k \in Keys : (start <= k /\ k < start + NumKeys) \/ k + NumKeys < start + NumKeys
    BY KeyPoolAssumption DEF KeyPoolAssumption, Keys
  <2>2. QED
    BY <1>1, <2>1 DEF ToSee
<1>4. QED
  BY <1>1, <1>2, <1>3 DEF ScanOf

\* The keys ahead of the next position are those ahead of this one, but for the
\* key at this position.
LEMMA OneSeen ==
    ASSUME NEW e \in Keys, NEW l \in 2 .. NumKeys, NEW k \in Keys, k # e,
           (e <= k /\ k < e + l) \/ k + NumKeys < e + l
    PROVE  LET n == NextEndpoint(e)
           IN  (n <= k /\ k < n + (l - 1)) \/ k + NumKeys < n + (l - 1)
<1>1. NextEndpoint(e) = IF e + 1 = NumKeys THEN 0 ELSE e + 1
  BY NextKeyIs
<1>2. QED
  BY <1>1, KeyPoolAssumption DEF KeyPoolAssumption, Keys

\* The scan of c goes on, or ends, after a key that did not stay healthy or with
\* a key in hand.
LEMMA AdvanceSees ==
    ASSUME TypeOK, NEW c \in Callers, ScanOf(c), TrackSteady, pc[c] \in {"scan", "lock"},
           NEW choice, Advance(c, choice),
           \/ /\ choice = NoBest /\ best[c] = NoBest
              /\ ep[c] \notin steady[c] \/ ~healthy'[ep[c]]
           \/ op[c] = "acquire" /\ choice.key # NoKey
    PROVE  ScanOf(c)'
<1>1. /\ ep[c] \in Keys /\ left[c] \in 0 .. NumKeys /\ op' = op /\ NoBest.key = NoKey
  BY DEF TypeOK, CallersTypeOK, Advance, NoBest
<1>2. CASE left[c] > 1 /\ pc'[c] = "scan" /\ ep'[c] = NextEndpoint(ep[c])
           /\ left'[c] = left[c] - 1 /\ best'[c] = choice
  <2>1. steady'[c] = {k \in steady[c] : healthy'[k]}
    BY <1>2 DEF TrackSteady, Begins
  <2>2. steady'[c] \subseteq {k \in Keys : healthy'[k]}
    BY <2>1 DEF ScanOf
  <2>3. CASE /\ choice = NoBest /\ best[c] = NoBest
             /\ ep[c] \notin steady[c] \/ ~healthy'[ep[c]]
    <3>1. ep[c] \notin steady'[c] /\ steady'[c] \subseteq ToSee(c)
      BY <1>1, <2>1, <2>3 DEF ScanOf
    <3>2. steady'[c] \subseteq ToSee(c)'
      <4> SUFFICES ASSUME NEW k \in steady'[c] PROVE k \in ToSee(c)'
        OBVIOUS
      <4>1. k \in Keys /\ k # ep[c]
            /\ ((ep[c] <= k /\ k < ep[c] + left[c]) \/ k + NumKeys < ep[c] + left[c])
        BY <3>1 DEF ToSee
      <4>2. left[c] \in 2 .. NumKeys
        BY <1>1, <1>2, KeyPoolAssumption DEF KeyPoolAssumption
      <4>3. QED
        BY <1>1, <1>2, <4>1, <4>2, OneSeen DEF ToSee
    <3>3. QED
      BY <1>2, <2>2, <2>3, <3>2 DEF ScanOf
  <2>4. CASE op[c] = "acquire" /\ choice.key # NoKey
    BY <1>1, <1>2, <2>2, <2>4 DEF ScanOf
  <2>5. QED
    BY <2>3, <2>4
<1>3. CASE left[c] <= 1 /\ EndScan(c, choice)
  <2>1. CASE pc'[c] \notin Searching
    BY <2>1, OffScan
  <2>2. CASE pc'[c] \in Searching
    <3>1. pc'[c] \in {"none", "escalate"} /\ (op[c] = "acquire" => choice.key = NoKey)
      BY <1>3, <2>2 DEF EndScan, TypeOK, CallersTypeOK, Searching
    <3>2. /\ choice = NoBest /\ best[c] = NoBest
          /\ ep[c] \notin steady[c] \/ ~healthy'[ep[c]]
      BY <3>1
    <3>3. steady'[c] = {k \in steady[c] : healthy'[k]}
      BY <3>1 DEF TrackSteady, Begins
    <3>4. steady[c] \subseteq ToSee(c)
      BY <1>1, <3>2 DEF ScanOf
    <3>5. ToSee(c) \subseteq {ep[c]}
      BY <1>1, <1>3, KeyPoolAssumption DEF KeyPoolAssumption, ToSee, Keys
    <3>6. steady'[c] = {}
      BY <3>2, <3>3, <3>4, <3>5
    <3>7. QED
      BY <3>1, <3>6 DEF ScanOf
  <2>3. QED
    BY <2>1, <2>2
<1>4. QED
  <2>1. left[c] > 1 \/ left[c] <= 1
    BY <1>1
  <2>2. QED
    BY <1>2, <1>3, <2>1 DEF Advance, TypeOK, CallersTypeOK

\* The scan meets an available key.
LEMMA FoundSees ==
    ASSUME TypeOK, NEW c \in Callers, ScanOf(c), TrackSteady, pc[c] \in {"scan", "lock"},
           FoundAvailable(c)
    PROVE  ScanOf(c)'
<1> DEFINE this == [key |-> ep[c], errors |-> totalErrors[ep[c]]]
<1>1. /\ ep[c] \in Keys /\ this.key = ep[c] /\ this.errors = totalErrors[ep[c]]
      /\ this.errors \in 0 .. TotalErrorsBound /\ NoKey \notin Keys /\ NoBest.key = NoKey
      /\ NoBest.errors = TotalErrorsBound + 1
  BY KeyPoolAssumption DEF KeyPoolAssumption, TypeOK, KeysTypeOK, CallersTypeOK, NoBest, NoKey, Keys
<1> HIDE DEF this
<1>2. ASSUME op[c] = "acquire", Advance(c, IF this.errors < best[c].errors THEN this ELSE best[c])
      PROVE  ScanOf(c)'
  <2>1. PICK choice : choice = IF this.errors < best[c].errors THEN this ELSE best[c]
    OBVIOUS
  <2>2. best[c] = NoBest \/ best[c].key # NoKey
    BY DEF ScanOf
  <2>3. choice.key # NoKey
    <3>1. this.key # NoKey
      BY <1>1
    <3>2. CASE best[c] = NoBest
      <4>1. this.errors < best[c].errors
        BY <1>1, <3>2, KeyPoolAssumption DEF KeyPoolAssumption
      <4>2. QED
        BY <2>1, <3>1, <4>1
    <3>3. QED
      BY <2>1, <2>2, <3>1, <3>2
  <2>4. QED
    BY <1>2, <2>1, <2>3, AdvanceSees
<1>3. CASE op[c] = "acquire" /\ EndScan(c, this)
  BY <1>1, <1>3, OffScan DEF EndScan, TypeOK, CallersTypeOK, Searching
<1>4. CASE pc' = [pc EXCEPT ![c] = "unkeyed"]
  BY <1>4, OffScan DEF TypeOK, CallersTypeOK, Searching
<1>5. QED
  BY <1>2, <1>3, <1>4 DEF FoundAvailable, this

\* Steps of c that are no part of a scan.
LEMMA RestOffScan ==
    ASSUME TypeOK, NEW c \in Callers, TrackSteady,
           \/ AnswerOk(c) \/ AnswerDetached(c)
           \/ \E kind \in {"rate_limit", "error"} : AnswerError(c, kind)
           \/ Escalate(c) \/ CoolDown(c) \/ ResetErrors(c) \/ ResetCount(c) \/ MarkHealthy(c)
           \/ LeaveVerdict(c) \/ Disconnect(c)
    PROVE  ScanOf(c)'
<1>1. LeavePool(c) => pc'[c] = "idle"
  BY DEF LeavePool, TypeOK, CallersTypeOK
<1>2. \A kind : AfterReportError(c, kind) => pc'[c] \in {"idle", "inflight"}
  BY <1>1 DEF AfterReportError, TypeOK, CallersTypeOK
<1>3. pc'[c] \in {"idle", "inflight", "escalating", "cool", "resetErrors", "resetCount", "markHealthy"}
  BY <1>1, <1>2 DEF AnswerOk, AnswerDetached, AnswerError, Escalate, CoolDown, ResetErrors,
     ResetCount, MarkHealthy, LeaveVerdict, Disconnect, TypeOK, CallersTypeOK
<1>4. QED
  BY <1>3, OffScan DEF Searching

LEMMA CallerScan ==
    ASSUME TypeOK, NEW c \in Callers, ScanOf(c), CallerStep(c), TrackSteady
    PROVE  ScanOf(c)'
<1>1. CASE Acquire(c)
  <2>1. PICK start \in Keys : BeginScan(c, "acquire", start)
    BY <1>1, Values DEF Acquire, TypeOK, KeysTypeOK
  <2>2. QED
    BY <1>1, <2>1, BeginScanSees DEF Acquire
<1>2. CASE AskExhausted(c)
  BY <1>2, Values, BeginScanSees DEF AskExhausted
<1>3. CASE LoadHealthy(c)
  <2>1. CASE FoundAvailable(c)
    BY <1>3, <2>1, FoundSees DEF LoadHealthy
  <2>2. CASE ~FoundAvailable(c)
    <3>1. /\ pc[c] = "scan" /\ pc'[c] = "lock" /\ ~healthy[ep[c]] /\ healthy' = healthy
          /\ op' = op /\ ep' = ep /\ left' = left /\ best' = best
      BY <1>3, <2>2 DEF LoadHealthy, keyVars, TypeOK, CallersTypeOK
    <3>2. steady'[c] = {k \in steady[c] : healthy'[k]}
      BY <3>1 DEF TrackSteady, Begins
    <3>3. ToSee(c)' = ToSee(c)
      BY <3>1 DEF ToSee
    <3>4. QED
      BY <3>1, <3>2, <3>3 DEF ScanOf
  <2>3. QED
    BY <2>1, <2>2
<1>4. CASE LockAndCheck(c)
  <2>1. CASE FoundAvailable(c)
    BY <1>4, <2>1, FoundSees DEF LockAndCheck
  <2>2. CASE ~FoundAvailable(c)
    <3>1. pc[c] = "lock" /\ Advance(c, best[c])
      BY <1>4, <2>2 DEF LockAndCheck
    <3>2. \/ best[c] = NoBest
          \/ op[c] = "acquire" /\ best[c].key # NoKey
      BY <3>1 DEF ScanOf
    <3>3. ep[c] \notin steady[c]
      BY <3>1 DEF ScanOf
    <3>4. QED
      BY <3>1, <3>2, <3>3, AdvanceSees
  <2>3. QED
    BY <2>1, <2>2
<1>5. CASE ~(Acquire(c) \/ AskExhausted(c) \/ LoadHealthy(c) \/ LockAndCheck(c))
  BY <1>5, RestOffScan DEF CallerStep
<1>6. QED
  BY <1>1, <1>2, <1>3, <1>4, <1>5

\* A step of one caller is all that changes the locals of that caller.
LEMMA OnlyItsOwn ==
    ASSUME TypeOK, NEW c \in Callers, NEW d \in Callers, d # c, CallerStep(c)
    PROVE  pc'[d] = pc[d] /\ op'[d] = op[d] /\ ep'[d] = ep[d] /\ left'[d] = left[d] /\ best'[d] = best[d]
<1> USE DEF TypeOK, CallersTypeOK
<1>1. ASSUME NEW choice, EndScan(c, choice), op' = op
      PROVE  pc'[d] = pc[d] /\ op'[d] = op[d] /\ ep'[d] = ep[d] /\ left'[d] = left[d] /\ best'[d] = best[d]
  BY <1>1 DEF EndScan
<1>2. ASSUME NEW choice, Advance(c, choice)
      PROVE  pc'[d] = pc[d] /\ op'[d] = op[d] /\ ep'[d] = ep[d] /\ left'[d] = left[d] /\ best'[d] = best[d]
  BY <1>1, <1>2 DEF Advance
<1>3. FoundAvailable(c) =>
        pc'[d] = pc[d] /\ op'[d] = op[d] /\ ep'[d] = ep[d] /\ left'[d] = left[d] /\ best'[d] = best[d]
  BY <1>1, <1>2 DEF FoundAvailable
<1>4. CASE Acquire(c) \/ AskExhausted(c)
  BY <1>4 DEF Acquire, AskExhausted, BeginScan
<1>5. CASE LoadHealthy(c) \/ LockAndCheck(c)
  BY <1>2, <1>3, <1>5 DEF LoadHealthy, LockAndCheck
<1>6. LeavePool(c) =>
        pc'[d] = pc[d] /\ op'[d] = op[d] /\ ep'[d] = ep[d] /\ left'[d] = left[d] /\ best'[d] = best[d]
  BY DEF LeavePool
<1>7. \A kind : AfterReportError(c, kind) =>
        pc'[d] = pc[d] /\ op'[d] = op[d] /\ ep'[d] = ep[d] /\ left'[d] = left[d] /\ best'[d] = best[d]
  BY <1>6 DEF AfterReportError
<1>8. CASE AnswerOk(c) \/ AnswerDetached(c) \/ LeaveVerdict(c) \/ Disconnect(c) \/ MarkHealthy(c)
  BY <1>6, <1>8 DEF AnswerOk, AnswerDetached, LeaveVerdict, Disconnect, MarkHealthy
<1>9. CASE CoolDown(c) \/ Escalate(c) \/ ResetErrors(c) \/ ResetCount(c)
  BY <1>7, <1>9 DEF CoolDown, Escalate, ResetErrors, ResetCount
<1>10. CASE \E kind \in {"rate_limit", "error"} : AnswerError(c, kind)
  BY <1>7, <1>10 DEF AnswerError
<1>11. QED
  BY <1>4, <1>5, <1>8, <1>9, <1>10 DEF CallerStep

LEMMA ScanStep == TypeOK /\ ScanInv /\ [ScanNext]_<<vars, steady>> => ScanInv'
<1> SUFFICES ASSUME TypeOK, ScanInv, [ScanNext]_<<vars, steady>>, NEW d \in Callers
             PROVE  ScanOf(d)'
  BY DEF ScanInv
<1>1. ScanOf(d)
  BY DEF ScanInv
<1>2. ASSUME NEW c \in Callers, CallerStep(c), TrackSteady PROVE ScanOf(d)'
  <2>1. CASE c = d
    BY <1>1, <1>2, <2>1, CallerScan
  <2>2. CASE c # d
    BY <1>1, <1>2, <2>2, OnlyItsOwn, OthersScan
  <2>3. QED
    BY <2>1, <2>2
<1>3. CASE ((\E k \in Keys : RecoverExpired(k)) \/ Reload \/ Tick) /\ TrackSteady
  <2>1. UNCHANGED <<pc, op, ep, left, best>>
    BY <1>3 DEF RecoverExpired, Reload, Tick, callerVars
  <2>2. QED
    BY <1>1, <1>3, <2>1, OthersScan
<1>4. CASE UNCHANGED <<vars, steady>>
  BY <1>1, <1>4 DEF ScanOf, ToSee, vars, poolVars, keyVars, callerVars
<1>5. QED
  BY <1>2, <1>3, <1>4 DEF ScanNext, Next

LEMMA ScanInitInv == ScanInit => ScanInv
BY DEF ScanInit, Init, ScanInv, ScanOf

\* The invariants of the pool hold with the history as well.
LEMMA ScanTypeOK == ScanSpec => []TypeOK
<1>1. ScanInit => TypeOK
  BY InitTypeOK DEF ScanInit
<1>2. TypeOK /\ [ScanNext]_<<vars, steady>> => TypeOK'
  BY StepTypeOK DEF ScanNext, vars
<1>3. QED
  BY <1>1, <1>2, PTL DEF ScanSpec

\* key_pool.rs 105-205: for any number of keys and callers and every strategy,
\* acquire answers None, and all_exhausted true, only if no key was healthy from
\* the beginning of the scan to its end.
THEOREM NoKeyIsMissed == ScanSpec => []NoUsableKeyMissed
<1>1. ScanInv => NoUsableKeyMissed
  BY DEF ScanInv, ScanOf, NoUsableKeyMissed
<1>2. QED
  BY <1>1, ScanInitInv, ScanStep, ScanTypeOK, PTL DEF ScanSpec

-----------------------------------------------------------------------------
(***************************************************************************)
(* How long a request uses the pool.                                       *)
(***************************************************************************)
\* The steps a caller at place p has at most before it: two for each endpoint a
\* scan has still to look at; a scan that finds nothing is followed by that of
\* all_exhausted; a key that is found is tried MaxSameKeyRetries times more.
Use(p, o, l, r) ==
    LET held == 4 * (MaxSameKeyRetries - r)
        found == 4 * MaxSameKeyRetries + 5
    IN  CASE p = "idle"        -> 0
          [] p = "escalate"    -> 1
          [] p = "unkeyed"     -> 1
          [] p = "markHealthy" -> 1
          [] p = "resetCount"  -> 2
          [] p = "resetErrors" -> 3
          [] p = "cool"        -> held + 2
          [] p = "escalating"  -> held + 3
          [] p = "inflight"    -> held + 4
          [] p = "lock"        -> found + 2 * l + IF o = "exhausted" THEN 0 ELSE 2 * NumKeys + 3
          [] p = "scan"        -> found + 2 * l + IF o = "exhausted" THEN 1 ELSE 2 * NumKeys + 4
          [] p = "none"        -> found + 2 * NumKeys + 2

UseLeft(c) == Use(pc[c], op[c], left[c], retries[c])

UseBounded == \A c \in Callers : UseLeft(c) \in 0 .. 4 * MaxSameKeyRetries + 4 * NumKeys + 9

\* A step of a caller brings the end of its use nearer, and no other step, of
\* another caller, the recovery task, a reload or the clock, puts it off.
UseSpent ==
    [][\A c \in Callers : pc[c] # "idle" =>
         IF CallerStep(c) THEN UseLeft(c)' < UseLeft(c) ELSE UseLeft(c)' = UseLeft(c)]_vars

LEMMA UseAt ==
    ASSUME NEW o, NEW l \in 0 .. NumKeys, NEW r \in 0 .. MaxSameKeyRetries
    PROVE  /\ Use("idle", o, l, r) = 0
           /\ Use("escalate", o, l, r) = 1
           /\ Use("unkeyed", o, l, r) = 1
           /\ Use("markHealthy", o, l, r) = 1
           /\ Use("resetCount", o, l, r) = 2
           /\ Use("resetErrors", o, l, r) = 3
           /\ Use("cool", o, l, r) = 4 * (MaxSameKeyRetries - r) + 2
           /\ Use("escalating", o, l, r) = 4 * (MaxSameKeyRetries - r) + 3
           /\ Use("inflight", o, l, r) = 4 * (MaxSameKeyRetries - r) + 4
           /\ Use("lock", o, l, r) = 4 * MaxSameKeyRetries + 5 + 2 * l
                                       + IF o = "exhausted" THEN 0 ELSE 2 * NumKeys + 3
           /\ Use("scan", o, l, r) = 4 * MaxSameKeyRetries + 5 + 2 * l
                                       + IF o = "exhausted" THEN 1 ELSE 2 * NumKeys + 4
           /\ Use("none", o, l, r) = 4 * MaxSameKeyRetries + 5 + 2 * NumKeys + 2
BY DEF Use

LEMMA UseFits ==
    ASSUME NEW p \in Places, NEW o, NEW l \in 0 .. NumKeys, NEW r \in 0 .. MaxSameKeyRetries
    PROVE  /\ Use(p, o, l, r) \in 0 .. 4 * MaxSameKeyRetries + 4 * NumKeys + 9
           /\ p # "idle" => Use(p, o, l, r) > 0
BY UseAt, KeyPoolAssumption DEF KeyPoolAssumption, Places

\* A caller's step concerns its own locals only.
Own(c) == <<pc[c], op[c], left[c], retries[c]>>

LEMMA OthersUse ==
    ASSUME TypeOK, NEW c \in Callers, CallerStep(c), NEW d \in Callers \ {c}
    PROVE  UNCHANGED Own(d)
<1> USE DEF TypeOK, CallersTypeOK, Own
<1>1. /\ LeavePool(c) => UNCHANGED Own(d)
      /\ \A k : AfterReportError(c, k) => UNCHANGED Own(d)
  BY DEF LeavePool, AfterReportError
<1>2. \A x : EndScan(c, x) /\ UNCHANGED op => UNCHANGED Own(d)
  BY DEF EndScan
<1>3. \A x : Advance(c, x) => UNCHANGED Own(d)
  BY <1>2 DEF Advance
<1>4. FoundAvailable(c) => UNCHANGED Own(d)
  BY <1>2, <1>3 DEF FoundAvailable
<1>5. \A w, s : BeginScan(c, w, s) => UNCHANGED Own(d)
  BY DEF BeginScan
<1>6. CASE Acquire(c) \/ AskExhausted(c)
  BY <1>5, <1>6 DEF Acquire, AskExhausted
<1>7. CASE LoadHealthy(c)
  BY <1>4, <1>7 DEF LoadHealthy
<1>8. CASE LockAndCheck(c)
  BY <1>3, <1>4, <1>8 DEF LockAndCheck
<1>9. CASE AnswerOk(c) \/ AnswerDetached(c)
  BY <1>1, <1>9 DEF AnswerOk, AnswerDetached
<1>10. CASE \E kind \in {"rate_limit", "error"} : AnswerError(c, kind)
  BY <1>1, <1>10 DEF AnswerError
<1>11. CASE Escalate(c) \/ CoolDown(c)
  BY <1>1, <1>11 DEF Escalate, CoolDown
<1>12. CASE ResetErrors(c) \/ ResetCount(c) \/ MarkHealthy(c)
  BY <1>1, <1>12 DEF ResetErrors, ResetCount, MarkHealthy
<1>13. CASE LeaveVerdict(c) \/ Disconnect(c)
  BY <1>1, <1>13 DEF LeaveVerdict, Disconnect
<1>14. QED
  BY <1>6, <1>7, <1>8, <1>9, <1>10, <1>11, <1>12, <1>13 DEF CallerStep

LEMMA OwnUse ==
    ASSUME TypeOK, TypeOK', NEW c \in Callers, CallerStep(c), pc[c] # "idle"
    PROVE  UseLeft(c)' < UseLeft(c)
<1> DEFINE L == left[c]
           R == retries[c]
           M == MaxSameKeyRetries
           tail == IF op[c] = "exhausted" THEN 0 ELSE 2 * NumKeys + 3
<1>0. /\ NumKeys \in Nat \ {0} /\ M \in Nat
      /\ L \in 0 .. NumKeys /\ R \in 0 .. M
      /\ left'[c] \in 0 .. NumKeys /\ retries'[c] \in 0 .. M
      /\ pc[c] \in Places /\ pc'[c] \in Places
  BY KeyPoolAssumption DEF KeyPoolAssumption, TypeOK, CallersTypeOK
<1>t. /\ pc \in [Callers -> Places] /\ left \in [Callers -> 0 .. NumKeys]
      /\ retries \in [Callers -> 0 .. M] /\ DOMAIN op = Callers
  BY DEF TypeOK, CallersTypeOK
\* What a caller's place costs, before and after.
<1>u. /\ UseLeft(c) > 0
      /\ pc[c] = "escalate" \/ pc[c] = "unkeyed" \/ pc[c] = "markHealthy" => UseLeft(c) = 1
      /\ pc[c] = "resetCount" => UseLeft(c) = 2
      /\ pc[c] = "resetErrors" => UseLeft(c) = 3
      /\ pc[c] = "cool" => UseLeft(c) = 4 * (M - R) + 2
      /\ pc[c] = "escalating" => UseLeft(c) = 4 * (M - R) + 3
      /\ pc[c] = "inflight" => UseLeft(c) = 4 * (M - R) + 4
      /\ pc[c] = "lock" => UseLeft(c) = 4 * M + 5 + 2 * L + tail
      /\ pc[c] = "scan" => UseLeft(c) = 4 * M + 6 + 2 * L + tail
      /\ pc[c] = "none" => UseLeft(c) = 4 * M + 7 + 2 * NumKeys
  <2>1. UseLeft(c) > 0
    BY <1>0, UseFits DEF UseLeft
  <2>2. QED
    BY <1>0, <2>1, UseAt DEF UseLeft
<1>v. /\ UseLeft(c)' = Use(pc'[c], op'[c], left'[c], retries'[c])
      /\ pc'[c] = "idle" => UseLeft(c)' = 0
      /\ pc'[c] \in {"escalate", "unkeyed", "markHealthy"} => UseLeft(c)' = 1
      /\ pc'[c] = "resetCount" => UseLeft(c)' = 2
      /\ pc'[c] = "resetErrors" => UseLeft(c)' = 3
      /\ pc'[c] = "cool" => UseLeft(c)' = 4 * (M - retries'[c]) + 2
      /\ pc'[c] = "escalating" => UseLeft(c)' = 4 * (M - retries'[c]) + 3
      /\ pc'[c] = "inflight" => UseLeft(c)' = 4 * (M - retries'[c]) + 4
      /\ pc'[c] = "lock" /\ op'[c] = op[c] => UseLeft(c)' = 4 * M + 5 + 2 * left'[c] + tail
      /\ pc'[c] = "scan" /\ op'[c] = op[c] => UseLeft(c)' = 4 * M + 6 + 2 * left'[c] + tail
      /\ pc'[c] = "scan" /\ op'[c] = "exhausted" => UseLeft(c)' = 4 * M + 6 + 2 * left'[c]
      /\ pc'[c] = "none" => UseLeft(c)' = 4 * M + 7 + 2 * NumKeys
  BY <1>0, UseAt DEF UseLeft
<1>w. tail \in Nat /\ (op[c] # "exhausted" => tail = 2 * NumKeys + 3)
  BY <1>0
<1> HIDE DEF tail, L, R, M
\* A search goes on, or ends.
<1>1. ASSUME NEW x, EndScan(c, x), pc[c] \in {"scan", "lock"} PROVE UseLeft(c)' < UseLeft(c)
  <2>1. CASE pc'[c] = "inflight" /\ retries'[c] = 0
    BY <1>0, <1>1, <1>u, <1>v, <1>w, <2>1
  <2>2. CASE op[c] = "acquire" /\ pc'[c] = "none"
    BY <1>0, <1>1, <1>u, <1>v, <1>w, <2>2
  <2>3. CASE pc'[c] = "escalate"
    BY <1>0, <1>1, <1>u, <1>v, <1>w, <2>3
  <2>4. QED
    BY <1>1, <1>t, <2>1, <2>2, <2>3 DEF EndScan
<1>2. ASSUME NEW x, Advance(c, x), pc[c] \in {"scan", "lock"} PROVE UseLeft(c)' < UseLeft(c)
  <2>1. CASE EndScan(c, x)
    BY <1>1, <1>2, <2>1
  <2>2. CASE pc'[c] = "scan" /\ left'[c] = L - 1 /\ op'[c] = op[c]
    BY <1>0, <1>2, <1>u, <1>v, <1>w, <2>2
  <2>3. QED
    BY <1>2, <1>t, <2>1, <2>2 DEF Advance, L
<1>3. ASSUME FoundAvailable(c), pc[c] \in {"scan", "lock"} PROVE UseLeft(c)' < UseLeft(c)
  <2>1. CASE pc'[c] = "unkeyed"
    BY <1>0, <1>3, <1>u, <1>v, <1>w, <2>1
  <2>2. QED
    BY <1>1, <1>2, <1>3, <1>t, <2>1 DEF FoundAvailable
<1>4. LeavePool(c) => UseLeft(c)' < UseLeft(c)
  BY <1>t, <1>u, <1>v DEF LeavePool
<1>5. ASSUME NEW k, AfterReportError(c, k), pc[c] \in {"inflight", "cool"} PROVE UseLeft(c)' < UseLeft(c)
  <2>1. CASE R < M /\ retries'[c] = R + 1 /\ pc'[c] = "inflight"
    BY <1>0, <1>5, <1>u, <1>v, <2>1
  <2>2. QED
    BY <1>5, <1>4, <1>t, <2>1 DEF AfterReportError, R, M
<1>6. CASE AskExhausted(c)
  <2>1. /\ pc[c] = "none" /\ pc'[c] = "scan" /\ op'[c] = "exhausted" /\ left'[c] = NumKeys
    BY <1>6, <1>t DEF AskExhausted, BeginScan
  <2>2. QED
    BY <1>0, <1>u, <1>v, <2>1
<1>7. CASE LoadHealthy(c)
  <2>1. CASE pc[c] = "scan" /\ pc'[c] = "lock" /\ left'[c] = L /\ op'[c] = op[c]
    BY <1>0, <1>u, <1>v, <1>w, <2>1
  <2>2. QED
    BY <1>3, <1>7, <1>t, <2>1 DEF LoadHealthy, L
<1>8. CASE LockAndCheck(c)
  BY <1>2, <1>3, <1>8 DEF LockAndCheck
<1>9. CASE AnswerOk(c)
  <2>1. CASE pc[c] = "inflight" /\ pc'[c] = "resetErrors"
    BY <1>0, <1>u, <1>v, <2>1
  <2>2. QED
    BY <1>4, <1>9, <1>t, <2>1 DEF AnswerOk
<1>10. CASE AnswerDetached(c)
  <2>1. CASE pc[c] = "inflight" /\ R < M /\ pc'[c] = "inflight" /\ retries'[c] = R + 1
    BY <1>0, <1>u, <1>v, <2>1
  <2>2. QED
    BY <1>4, <1>10, <1>t, <2>1 DEF AnswerDetached, R, M
<1>11. ASSUME NEW kind \in {"rate_limit", "error"}, AnswerError(c, kind) PROVE UseLeft(c)' < UseLeft(c)
  <2>1. CASE pc[c] = "inflight" /\ pc'[c] = "escalating" /\ retries'[c] = R
    BY <1>0, <1>u, <1>v, <2>1
  <2>2. CASE pc[c] = "inflight" /\ AfterReportError(c, kind)
    BY <1>5, <2>2
  <2>3. QED
    BY <1>11, <1>t, <2>1, <2>2 DEF AnswerError, R
<1>12. CASE Escalate(c)
  <2>1. pc[c] = "escalating" /\ pc'[c] = "cool" /\ retries'[c] = R
    BY <1>12, <1>t DEF Escalate, R
  <2>2. QED
    BY <1>0, <1>u, <1>v, <2>1
<1>13. CASE CoolDown(c)
  BY <1>5, <1>13 DEF CoolDown
<1>14. CASE ResetErrors(c) \/ ResetCount(c) \/ MarkHealthy(c)
  BY <1>4, <1>14, <1>t, <1>u, <1>v DEF ResetErrors, ResetCount, MarkHealthy
<1>15. CASE LeaveVerdict(c) \/ Disconnect(c)
  BY <1>4, <1>15 DEF LeaveVerdict, Disconnect
<1>16. QED
  BY <1>6, <1>7, <1>8, <1>9, <1>10, <1>11, <1>12, <1>13, <1>14, <1>15 DEF CallerStep, Acquire

\* key_pool.rs and the key loop of openai_compat.rs: a request is through with its
\* pool after a bounded number of its own steps.  Searches go round once, the one
\* of all_exhausted after that of acquire, a key is tried a bounded number of times
\* more; and no report, recovery or reload in between sets a request back.
THEOREM UsesEnd == Spec => []UseBounded /\ UseSpent
<1>1. TypeOK => UseBounded
  BY UseFits DEF TypeOK, CallersTypeOK, UseBounded, UseLeft
<1>2. TypeOK /\ TypeOK' /\ [Next]_vars
        => [\A c \in Callers : pc[c] # "idle" =>
              IF CallerStep(c) THEN UseLeft(c)' < UseLeft(c) ELSE UseLeft(c)' = UseLeft(c)]_vars
  <2> SUFFICES ASSUME TypeOK, TypeOK', Next, NEW c \in Callers, pc[c] # "idle", ~CallerStep(c)
               PROVE  UseLeft(c)' = UseLeft(c)
    BY OwnUse
  <2>1. ASSUME NEW d \in Callers, CallerStep(d) PROVE Own(c)' = Own(c)
    BY <2>1, OthersUse
  <2>2. ASSUME NEW k \in Keys, RecoverExpired(k) PROVE Own(c)' = Own(c)
    BY <2>2 DEF RecoverExpired, callerVars, Own
  <2>3. ASSUME Reload \/ Tick PROVE Own(c)' = Own(c)
    <3>1. UNCHANGED <<pc, op, left, retries>>
      BY <2>3 DEF Reload, Tick
    <3>2. QED
      BY <3>1 DEF Own
  <2>4. Own(c)' = Own(c)
    BY <2>1, <2>2, <2>3 DEF Next
  <2>5. QED
    BY <2>4 DEF Own, UseLeft
<1>3. QED
  BY <1>1, <1>2, InitTypeOK, StepTypeOK, PTL DEF Spec, UseSpent

-----------------------------------------------------------------------------
(***************************************************************************)
(* Who can keep a key out of rotation.                                     *)
(***************************************************************************)
\* A caller that uses the key, or has picked it as the best of its scan so far.
InHand(c, k) ==
    \/ pc[c] \in {"inflight", "escalating", "cool", "resetErrors", "resetCount", "markHealthy"}
       /\ ep[c] = k
    \/ pc[c] \in {"scan", "lock"} /\ best[c].key = k

\* Nobody comes to a key while it is out of rotation, and only a report of those
\* who had it in hand before can put the end of its cooldown off.
NobodyJoins ==
    [][\A k \in Keys : ~healthy[k] /\ ~healthy'[k] =>
          /\ \A c \in Callers : InHand(c, k)' => InHand(c, k)
          /\ \/ cooldownUntil'[k] <= cooldownUntil[k]
             \/ \E c \in Callers : InHand(c, k) /\ CoolDown(c)]_vars

\* A scan that goes on or ends has nothing in hand but its choice.
LEMMA AdvanceInHand ==
    ASSUME TypeOK, NEW c \in Callers, NEW choice, NEW k \in Keys,
           Advance(c, choice) \/ (EndScan(c, choice) /\ op' = op), InHand(c, k)'
    PROVE  choice.key = k
<1> USE DEF TypeOK, CallersTypeOK
<1>1. CASE EndScan(c, choice)
  BY <1>1 DEF EndScan, InHand
<1>2. CASE Advance(c, choice) /\ ~EndScan(c, choice)
  <2>1. pc'[c] = "scan" /\ best'[c] = choice
    BY <1>2 DEF Advance
  <2>2. QED
    BY <2>1 DEF InHand
<1>3. QED
  BY <1>1, <1>2

LEMMA FoundInHand ==
    ASSUME TypeOK, NEW c \in Callers, NEW k \in Keys, ep[c] # k, pc[c] \in {"scan", "lock"},
           FoundAvailable(c), InHand(c, k)'
    PROVE  InHand(c, k)
<1> DEFINE this == [key |-> ep[c], errors |-> totalErrors[ep[c]]]
<1>1. CASE Advance(c, IF this.errors < best[c].errors THEN this ELSE best[c])
  <2>1. (IF this.errors < best[c].errors THEN this ELSE best[c]).key = k
    BY <1>1, AdvanceInHand
  <2>2. QED
    BY <2>1 DEF InHand
<1>2. CASE EndScan(c, this) /\ op' = op
  BY <1>2, AdvanceInHand
<1>3. CASE pc' = [pc EXCEPT ![c] = "unkeyed"]
  BY <1>3 DEF InHand, TypeOK, CallersTypeOK
<1>4. QED
  BY <1>1, <1>2, <1>3 DEF FoundAvailable

LEMMA CallerInHand ==
    ASSUME TypeOK, NEW c \in Callers, NEW k \in Keys, CallerStep(c),
           ~healthy[k], ~healthy'[k], InHand(c, k)'
    PROVE  InHand(c, k)
<1> USE DEF TypeOK, CallersTypeOK
<1>1. ~LeavePool(c)
  BY DEF LeavePool, InHand
<1>2. CASE Acquire(c) \/ AskExhausted(c)
  BY <1>2, Values DEF Acquire, AskExhausted, BeginScan, InHand, NoBest, NoKey, Keys
<1>3. CASE LoadHealthy(c)
  <2>1. CASE FoundAvailable(c) /\ healthy[ep[c]]
    BY <1>3, <2>1, FoundInHand DEF LoadHealthy
  <2>2. CASE pc' = [pc EXCEPT ![c] = "lock"] /\ UNCHANGED best
    BY <1>3, <2>2 DEF LoadHealthy, InHand
  <2>3. QED
    BY <1>3, <2>1, <2>2 DEF LoadHealthy
<1>4. CASE LockAndCheck(c)
  <2>1. CASE Recover(ep[c]) /\ FoundAvailable(c)
    <3>1. ep[c] # k
      BY <2>1 DEF Recover, KeysTypeOK
    <3>2. QED
      BY <1>4, <2>1, <3>1, FoundInHand DEF LockAndCheck
  <2>2. CASE Advance(c, best[c])
    BY <1>4, <2>2, AdvanceInHand DEF LockAndCheck, InHand
  <2>3. QED
    BY <1>4, <2>1, <2>2 DEF LockAndCheck
<1>5. ASSUME NEW kind, AfterReportError(c, kind) PROVE UNCHANGED ep
  BY <1>1, <1>5 DEF AfterReportError
<1>6. CASE AnswerOk(c) \/ AnswerDetached(c)
  BY <1>1, <1>6 DEF AnswerOk, AnswerDetached, InHand
<1>7. CASE \E kind \in {"rate_limit", "error"} : AnswerError(c, kind)
  <2>1. pc[c] = "inflight" /\ UNCHANGED ep
    BY <1>5, <1>7 DEF AnswerError
  <2>2. CASE pc'[c] \notin {"scan", "lock"}
    BY <2>1, <2>2 DEF InHand
  <2>3. pc'[c] \in {"inflight", "escalating"}
    BY <1>1, <1>7 DEF AnswerError, AfterReportError
  <2>4. QED
    BY <2>2, <2>3
<1>8. CASE CoolDown(c)
  <2>1. pc[c] = "cool" /\ UNCHANGED ep /\ pc'[c] = "inflight"
    BY <1>1, <1>5, <1>8 DEF CoolDown, AfterReportError
  <2>2. QED
    BY <2>1 DEF InHand
<1>9. CASE Escalate(c) \/ ResetErrors(c) \/ ResetCount(c)
  BY <1>9 DEF Escalate, ResetErrors, ResetCount, InHand
<1>10. CASE MarkHealthy(c) \/ LeaveVerdict(c) \/ Disconnect(c)
  BY <1>1, <1>10 DEF MarkHealthy, LeaveVerdict, Disconnect
<1>11. QED
  BY <1>2, <1>3, <1>4, <1>6, <1>7, <1>8, <1>9, <1>10 DEF CallerStep

\* A step of a caller leaves the end of a cooldown alone unless it ends the
\* cooldown or starts another.
LEMMA CallerCooldown ==
    ASSUME TypeOK, NEW c \in Callers, NEW k \in Keys, CallerStep(c), ~healthy'[k]
    PROVE  cooldownUntil'[k] = cooldownUntil[k] \/ (InHand(c, k) /\ CoolDown(c))
<1> USE DEF TypeOK, KeysTypeOK, CallersTypeOK
<1>1. CASE CoolDown(c)
  BY <1>1 DEF CoolDown, InHand
<1>2. CASE LockAndCheck(c)
  <2>1. Recover(ep[c]) => cooldownUntil'[k] = cooldownUntil[k]
    BY DEF Recover
  <2>2. QED
    BY <1>2, <2>1 DEF LockAndCheck, keyVars
<1>3. CASE Acquire(c) \/ AskExhausted(c) \/ LoadHealthy(c)
  BY <1>3 DEF Acquire, AskExhausted, BeginScan, LoadHealthy, keyVars
<1>4. CASE \/ AnswerOk(c) \/ AnswerDetached(c)
           \/ \E kind \in {"rate_limit", "error"} : AnswerError(c, kind)
  BY <1>4 DEF AnswerOk, AnswerDetached, AnswerError, poolVars, keyVars
<1>5. CASE Escalate(c) \/ ResetErrors(c) \/ ResetCount(c) \/ MarkHealthy(c)
  BY <1>5 DEF Escalate, ResetErrors, ResetCount, MarkHealthy
<1>6. CASE LeaveVerdict(c) \/ Disconnect(c)
  BY <1>6 DEF LeaveVerdict, Disconnect, poolVars, keyVars
<1>7. QED
  BY <1>1, <1>2, <1>3, <1>4, <1>5, <1>6 DEF CallerStep

\* key_pool.rs 100-300: while a key is out of rotation nobody new gets it
\* in hand, by whatever strategy, and the end of its cooldown comes nearer or is
\* put off by a request that had the key before.  As each of those is through with
\* the key after a bounded number of steps (UsesEnd), it is put off finitely often.
THEOREM NobodyComesToACoolingKey == Spec => NobodyJoins
<1>1. TypeOK /\ [Next]_vars
        => [\A k \in Keys : ~healthy[k] /\ ~healthy'[k] =>
              /\ \A c \in Callers : InHand(c, k)' => InHand(c, k)
              /\ \/ cooldownUntil'[k] <= cooldownUntil[k]
                 \/ \E c \in Callers : InHand(c, k) /\ CoolDown(c)]_vars
  <2> SUFFICES ASSUME TypeOK, Next, NEW k \in Keys, ~healthy[k], ~healthy'[k]
               PROVE  /\ \A c \in Callers : InHand(c, k)' => InHand(c, k)
                      /\ \/ cooldownUntil'[k] <= cooldownUntil[k]
                         \/ \E c \in Callers : InHand(c, k) /\ CoolDown(c)
    OBVIOUS
  <2>0. cooldownUntil[k] \in Int
    BY CooldownRange DEF TypeOK, KeysTypeOK, NoTime
  <2>1. ASSUME NEW d \in Callers, CallerStep(d)
        PROVE  /\ \A c \in Callers : InHand(c, k)' => InHand(c, k)
               /\ \/ cooldownUntil'[k] <= cooldownUntil[k]
                  \/ \E c \in Callers : InHand(c, k) /\ CoolDown(c)
    <3>1. ASSUME NEW c \in Callers, c # d PROVE InHand(c, k)' => InHand(c, k)
      BY <2>1, <3>1, OnlyItsOwn DEF InHand
    <3>2. InHand(d, k)' => InHand(d, k)
      BY <2>1, CallerInHand
    <3>3. QED
      BY <2>0, <2>1, <3>1, <3>2, CallerCooldown
  <2>2. ASSUME NEW j \in Keys, RecoverExpired(j)
        PROVE  UNCHANGED callerVars /\ cooldownUntil'[k] = cooldownUntil[k]
    <3>1. j # k
      BY <2>2 DEF RecoverExpired, Recover, TypeOK, KeysTypeOK
    <3>2. QED
      BY <2>2, <3>1 DEF RecoverExpired, Recover, TypeOK, KeysTypeOK
  <2>3. ASSUME Tick PROVE UNCHANGED <<pc, ep, best>> /\ cooldownUntil'[k] <= cooldownUntil[k]
    BY <2>0, <2>3 DEF Tick, Elapse
  <2>4. ~Reload
    BY DEF Reload
  <2>5. UNCHANGED <<pc, ep, best>> => \A c \in Callers : InHand(c, k)' => InHand(c, k)
    BY DEF InHand
  <2>6. UNCHANGED callerVars => UNCHANGED <<pc, ep, best>>
    BY DEF callerVars
  <2>7. QED
    BY <2>0, <2>1, <2>2, <2>3, <2>4, <2>5, <2>6 DEF Next
<1>2. QED
  BY <1>1, InitTypeOK, StepTypeOK, PTL DEF Spec, NobodyJoins
=============================================================================
