----------------------------- MODULE RateLimiter -----------------------------
(***************************************************************************)
(* The provider-wide rate limiter (src/src/rate_limiter.rs): a semaphore   *)
(* that bounds the requests in progress, a block that a rotation of the IP *)
(* address sets and lifts, and a sliding window over the attempts granted. *)
(*                                                                         *)
(* A request holds its permit from start to end and calls acquire before   *)
(* every attempt, as the providers' loops do.  One step is one critical    *)
(* section of a mutex.  Instants are relative to the present: a grant has  *)
(* an age, a sleeper and the block have time left.                         *)
(***************************************************************************)
EXTENDS Integers, Sequences, FiniteSets

CONSTANTS
    Requests,        \* requests that may exist at the same time
    RateLimit,       \* rate_limit
    RateWindow,      \* rate_window
    MaxConcurrency,  \* permits of concurrency_sem
    BlockSeconds     \* the block a provider sets (30 s in the code)

ASSUME RateLimiterAssumption ==
    /\ IsFiniteSet(Requests)
    /\ RateLimit \in Nat \ {0}
    /\ RateWindow \in Nat \ {0}
    /\ MaxConcurrency \in Nat \ {0}
    /\ BlockSeconds \in Nat \ {0}

NoTime == -1

VARIABLES
    waiters,        \* requests queued at the semaphore, first come first served
    requestTimes,   \* request_times: ages of the recorded grants, oldest first
    blockedUntil,   \* blocked_until, as time left, or NoTime
    pc,             \* where a request is
    sleep,          \* time left of the sleep it is in
    grants          \* history: ages of the grants of the last RateWindow

limiterVars == <<requestTimes, blockedUntil>>
requestVars == <<waiters, pc, sleep>>
vars == <<limiterVars, requestVars, grants>>

Holding == {"gate", "blocked", "window", "sleep", "granted"}
Holders == {r \in Requests : pc[r] \in Holding}

Init ==
    /\ waiters = <<>>
    /\ requestTimes = <<>>
    /\ blockedUntil = NoTime
    /\ pc = [r \in Requests |-> "idle"]
    /\ sleep = [r \in Requests |-> 0]
    /\ grants = <<>>

TypeOK ==
    /\ waiters \in Seq(Requests)
    /\ requestTimes \in Seq(0 .. RateWindow)
    /\ blockedUntil \in NoTime .. BlockSeconds
    /\ pc \in [Requests -> Holding \cup {"idle", "permit"}]
    /\ sleep \in [Requests -> 0 .. RateWindow + BlockSeconds]
    /\ grants \in Seq(0 .. RateWindow - 1)

MoveTo(r, place) == pc' = [pc EXCEPT ![r] = place]

-----------------------------------------------------------------------------
(***************************************************************************)
(* acquire_concurrency: tokio's semaphore serves its waiters in order.     *)
(***************************************************************************)
\* A bug: the last to come is served first.
AskPermitInFront(r) ==
    /\ pc[r] = "idle"
    /\ MoveTo(r, "permit")
    /\ waiters' = <<r>> \o waiters
    /\ UNCHANGED <<limiterVars, sleep, grants>>

AskPermit(r) ==
    /\ pc[r] = "idle"
    /\ MoveTo(r, "permit")
    /\ waiters' = Append(waiters, r)
    /\ UNCHANGED <<limiterVars, sleep, grants>>

GetPermit(r) ==
    /\ waiters # <<>> /\ Head(waiters) = r
    /\ Cardinality(Holders) < MaxConcurrency
    /\ waiters' = Tail(waiters)
    /\ MoveTo(r, "gate")
    /\ UNCHANGED <<limiterVars, sleep, grants>>

-----------------------------------------------------------------------------
(***************************************************************************)
(* acquire: the block is looked at once, then the window until it has room.*)
(***************************************************************************)
CheckBlock(r) ==
    /\ pc[r] = "gate"
    /\ \/ /\ blockedUntil > 0
          /\ MoveTo(r, "blocked")
          /\ sleep' = [sleep EXCEPT ![r] = blockedUntil]
       \/ /\ blockedUntil <= 0
          /\ MoveTo(r, "window")
          /\ UNCHANGED sleep
    /\ UNCHANGED <<waiters, limiterVars, grants>>

Wake(r) ==
    /\ pc[r] \in {"blocked", "sleep"}
    /\ sleep[r] = 0
    /\ MoveTo(r, "window")
    /\ UNCHANGED <<waiters, sleep, limiterVars, grants>>

\* Two bugs: nothing leaves the window, and one grant too many.
Unpopped(times) == times
HasRoomForOneMore(times) == Len(times) <= RateLimit

\* The grants that have not left the window: t <= cutoff is popped, from the
\* front and up to the first one that is younger.
Old(times, n) ==
    /\ \A i \in 1 .. n : times[i] >= RateWindow
    /\ n < Len(times) => times[n + 1] < RateWindow
Popped(times) ==
    LET n == CHOOSE n \in 0 .. Len(times) : Old(times, n)
    IN  SubSeq(times, n + 1, Len(times))
HasRoom(times) == Len(times) < RateLimit

\* A bug: the sleep is until the last grant leaves the window, not the first.
TryWindowNewest(r) ==
    LET live == Popped(requestTimes)
    IN  /\ pc[r] = "window"
        /\ \/ /\ HasRoom(live)
              /\ requestTimes' = Append(live, 0)
              /\ grants' = Append(grants, 0)
              /\ MoveTo(r, "granted")
              /\ UNCHANGED sleep
           \/ /\ ~HasRoom(live)
              /\ requestTimes' = live
              /\ sleep' = [sleep EXCEPT ![r] = RateWindow - live[Len(live)]]
              /\ MoveTo(r, "sleep")
              /\ UNCHANGED grants
        /\ UNCHANGED <<waiters, blockedUntil>>

TryWindow(r) ==
    LET live == Popped(requestTimes)
    IN  /\ pc[r] = "window"
        /\ \/ /\ HasRoom(live)
              /\ requestTimes' = Append(live, 0)
              /\ grants' = Append(grants, 0)
              /\ MoveTo(r, "granted")
              /\ UNCHANGED sleep
           \/ /\ ~HasRoom(live)
              /\ requestTimes' = live
              /\ sleep' = [sleep EXCEPT ![r] = RateWindow - Head(live)]
              /\ MoveTo(r, "sleep")
              /\ UNCHANGED grants
        /\ UNCHANGED <<waiters, blockedUntil>>

\* The next attempt of the same request: another key, model or retry.
NextAttempt(r) ==
    /\ pc[r] = "granted"
    /\ MoveTo(r, "gate")
    /\ UNCHANGED <<waiters, sleep, limiterVars, grants>>

\* The queue without r, which waits in it at most once.
Without(queue, r) ==
    IF \E i \in DOMAIN queue : queue[i] = r
    THEN LET i == CHOOSE i \in DOMAIN queue : queue[i] = r
         IN  SubSeq(queue, 1, i - 1) \o SubSeq(queue, i + 1, Len(queue))
    ELSE queue

\* The request ends, or its client hangs up wherever it waits; its permit and
\* its place in the queue are given back.
Leave(r) ==
    /\ pc[r] # "idle"
    /\ MoveTo(r, "idle")
    /\ waiters' = Without(waiters, r)
    /\ sleep' = [sleep EXCEPT ![r] = 0]
    /\ UNCHANGED <<limiterVars, grants>>

-----------------------------------------------------------------------------
\* A bug: the block is prolonged by what is asked for.
SetBlockedAdding ==
    /\ blockedUntil' = blockedUntil + BlockSeconds
    /\ UNCHANGED requestTimes

\* set_blocked never shortens a block that is already there.
SetBlocked ==
    /\ blockedUntil' = IF blockedUntil >= BlockSeconds THEN blockedUntil ELSE BlockSeconds
    /\ UNCHANGED requestTimes

ClearBlock ==
    /\ blockedUntil' = NoTime
    /\ UNCHANGED requestTimes

Elapse(t) == IF t > 0 THEN t - 1 ELSE t

\* Grants past the window are all alike, so ages stop at RateWindow.
Older(times) ==
    [i \in DOMAIN times |-> IF times[i] < RateWindow THEN times[i] + 1 ELSE RateWindow]

\* The history keeps the grants that are less than RateWindow old, the last ones.
Youngest(times) ==
    LET young == Cardinality({i \in DOMAIN times : times[i] < RateWindow})
    IN  SubSeq(times, Len(times) - young + 1, Len(times))

Tick ==
    /\ requestTimes' = Older(requestTimes)
    /\ blockedUntil' = Elapse(blockedUntil)
    /\ sleep' = [r \in Requests |-> Elapse(sleep[r])]
    /\ grants' = Youngest(Older(grants))
    /\ UNCHANGED <<waiters, pc>>

RequestStep(r) ==
    \/ AskPermit(r) \/ GetPermit(r) \/ CheckBlock(r) \/ Wake(r) \/ TryWindow(r)
    \/ NextAttempt(r) \/ Leave(r)

Next ==
    \/ \E r \in Requests : RequestStep(r)
    \/ SetBlocked /\ UNCHANGED <<requestVars, grants>>
    \/ ClearBlock /\ UNCHANGED <<requestVars, grants>>
    \/ Tick

Spec == Init /\ [][Next]_vars

\* Time passes, the runtime polls what is ready, and a request makes finitely
\* many attempts, each bounded by its HTTP client's timeouts: a request that is
\* granted again and again ends.  Nothing makes a client hang up.
FairSpec ==
    /\ Spec
    /\ WF_vars(Tick)
    /\ \A r \in Requests :
        /\ WF_vars(GetPermit(r)) /\ WF_vars(CheckBlock(r)) /\ WF_vars(Wake(r))
        /\ WF_vars(TryWindow(r))
        /\ SF_vars(pc[r] = "granted" /\ Leave(r))

-----------------------------------------------------------------------------
\* README: the sliding window "throttles concurrent bursts": in any interval of
\* RateWindow at most RateLimit attempts are granted, however many requests
\* wake at once, hang up half way or meet a block.
WindowRespected == Len(grants) <= RateLimit

\* No grant goes unused while somebody sleeps for it: whoever still sleeps for
\* the window would be refused if it looked now, however the grants of others,
\* their hang-ups and their wake-ups have changed the window since it looked.
NobodySleepsInVain ==
    \A r \in Requests : pc[r] = "sleep" /\ sleep[r] > 0 => Len(grants) = RateLimit

\* A request asking for a permit gets one, or gives up: no permit is lost with a
\* request that hangs up, and a waiter that is gone does not hold up the queue.
PermitGranted == \A r \in Requests : pc[r] = "permit" ~> pc[r] # "permit"

\* While a request waits for the window, attempts keep being granted, to it or to
\* another, unless its own client hangs up: the limiter throttles but never
\* wedges, and no wake-up is lost to a request that is gone.
WindowMoves ==
    \A r \in Requests :
        pc[r] \in {"window", "sleep"} ~>
            pc[r] = "idle" \/ \E s \in Requests : pc[s] = "granted"
=============================================================================
