--------------------------- MODULE KimiAuthProofs ----------------------------
(***************************************************************************)
(* KimiAuth for any number of requests, pairs, refusals and crashes.       *)
(*                                                                         *)
(* At most one actor renews at a time: a request that renews holds the     *)
(* lock, and the start renews only while no request is on its way.  Given  *)
(* that, what the client keeps and what the service issued are compared    *)
(* step by step.                                                           *)
(*                                                                         *)
(* The lock is never left to somebody who has gone (LockHeld), and each    *)
(* step of a request brings it nearer to its end (StepsLeft).              *)
(***************************************************************************)
EXTENDS KimiAuth, FiniteSetTheorems, TLAPS

Renewing == {"refresh", "answer", "save", "write", "store"}
InHand == {"answer", "save", "write", "store"}
AtRest == Ended \cup {"begin"}

\* Who renews is alone, and a new pair in hand is the one issued last.
Alone ==
    /\ actor[Boot].pc # "up" =>
         inflight = Nobody /\ \A r \in Requests : actor[r].pc \in AtRest
    /\ actor[Boot].pc \notin AtRest \cup {"get", "lock", "call"}
    /\ \A a \in Actors : actor[a].pc \in InHand => actor[a].pair = issued /\ issued \in Pairs

AuthInv == TypeOK /\ Alone

LEMMA Constants ==
    /\ NoPair = 0 /\ NoPair \notin Pairs /\ Torn \notin Pairs /\ Pairs \subseteq Nat
    /\ Boot \notin Requests /\ Nobody \notin Requests
    /\ Boot \in Actors /\ Requests \subseteq Actors
    /\ MaxPairs \in Nat /\ MaxRevocations \in Nat /\ MaxCrashes \in Nat
BY KimiAuthAssumption DEF KimiAuthAssumption, Pairs, NoPair, Torn, Actors, Boot, Nobody

LEMMA LocalFacts ==
    /\ \A p \in Places : Fresh(p) \in Locals
    /\ \A q \in Locals, p \in Places : Go(q, p) \in Locals /\ Leave(q, p) \in Locals
BY DEF Locals, Fresh, Go, Leave

LEMMA PutFacts ==
    ASSUME TypeOK, NEW a \in Actors, NEW q \in Locals, Put(a, q)
    PROVE  /\ actor' \in [Actors -> Locals]
           /\ actor'[a] = q
           /\ \A b \in Actors \ {a} : actor'[b] = actor[b]
BY DEF TypeOK, Put

\* Two actors never renew at the same time.
LEMMA OneRenews ==
    ASSUME AuthInv, NEW a \in Actors, NEW b \in Actors, a # b, actor[a].pc \in Renewing
    PROVE  actor[b].pc \notin Renewing
<1>1. CASE a = Boot
  <2>1. b \in Requests
    BY <1>1 DEF Actors
  <2>2. actor[b].pc \in AtRest
    BY <1>1, <2>1 DEF AuthInv, Alone, Serving, Renewing
  <2>3. QED
    BY <2>2 DEF AtRest, Ended, Renewing
<1>2. CASE b = Boot
  <2>1. a \in Requests
    BY <1>2 DEF Actors
  <2>2. actor[b].pc \in Renewing => actor[a].pc \in AtRest
    BY <1>2, <2>1 DEF AuthInv, Alone, Serving, Renewing
  <2>3. QED
    BY <2>2 DEF AtRest, Ended, Renewing
<1>3. CASE a \in Requests /\ b \in Requests
  BY <1>3 DEF AuthInv, TypeOK, Renewing
<1>4. QED
  BY <1>1, <1>2, <1>3 DEF Actors

LEMMA InitAuth == Init => AuthInv
<1> SUFFICES ASSUME Init PROVE AuthInv
  OBVIOUS
<1>1. \A a \in Actors : actor[a] = Fresh(IF a = Boot THEN "load" ELSE "begin")
  BY DEF Init
<1>2. \A a \in Actors : actor[a] \in Locals /\ actor[a].pc = IF a = Boot THEN "load" ELSE "begin"
  <2>1. /\ Fresh("load") \in Locals /\ Fresh("load").pc = "load"
        /\ Fresh("begin") \in Locals /\ Fresh("begin").pc = "begin"
    BY LocalFacts DEF Places, Fresh
  <2>2. QED
    BY <1>1, <2>1
<1>3. actor \in [Actors -> Locals]
  BY <1>2 DEF Init
<1>4. TypeOK
  <2>1. \A r \in Requests : actor[r].pc = "begin"
    BY <1>2, Constants
  <2>2. MaxCrashes \in Nat
    BY Constants
  <2>3. crashes \in 0 .. MaxCrashes
    BY <2>2 DEF Init
  <2>4. QED
    BY <1>3, <2>1, <2>3 DEF Init, TypeOK
<1>5. Alone
  BY <1>2, Constants DEF Init, Alone, AtRest, Ended, Serving, InHand
<1>6. QED
  BY <1>4, <1>5 DEF AuthInv

-----------------------------------------------------------------------------
(***************************************************************************)
(* One lemma per kind of step.                                             *)
(***************************************************************************)
\* A request goes to a place where it does not renew, and gives back the lock or
\* leaves it alone.
LEMMA RequestMoves ==
    ASSUME AuthInv, NEW r \in Requests, NEW q \in Locals, Put(r, q),
           q.pc \notin Renewing, q.pc \notin AtRest => actor[Boot].pc = "up",
           UNCHANGED inflight \/ inflight' = Release(r),
           cache' \in Pairs \cup {NoPair}, file' \in Pairs \cup {NoPair, Torn},
           UNCHANGED <<issued, aged, refused, crashes>>, lost' \in BOOLEAN
    PROVE  AuthInv'
<1>1. r \in Actors /\ r # Boot
  BY Constants
<1>2. /\ actor' \in [Actors -> Locals] /\ actor'[r] = q
      /\ \A b \in Actors \ {r} : actor'[b] = actor[b]
  BY <1>1, PutFacts DEF AuthInv
<1>3. /\ inflight' \in Requests \cup {Nobody}
      /\ inflight = Nobody => inflight' = Nobody
      /\ \A s \in Requests \ {r} : inflight = s => inflight' = s
  BY DEF AuthInv, TypeOK, Release
<1>4. TypeOK'
  BY <1>1, <1>2, <1>3, Constants DEF AuthInv, TypeOK, Renewing
<1>5. Alone'
  BY <1>1, <1>2, <1>3, Constants DEF AuthInv, Alone, Renewing, InHand
<1>6. QED
  BY <1>4, <1>5 DEF AuthInv

\* A request in the middle of a renewal goes on with it, or with what follows.
LEMMA RequestRenews ==
    ASSUME AuthInv, NEW r \in Requests, actor[r].pc \in Renewing, NEW q \in Locals, Put(r, q),
           UNCHANGED inflight, actor[Boot].pc = "up",
           q.pc \in InHand => q.pair = issued' /\ issued' \in Pairs,
           cache' \in Pairs \cup {NoPair}, file' \in Pairs \cup {NoPair, Torn},
           issued' \in Pairs \cup {NoPair},
           UNCHANGED <<aged, refused, crashes>>, lost' \in BOOLEAN
    PROVE  AuthInv'
<1>1. r \in Actors /\ r # Boot /\ inflight = r
  BY Constants DEF AuthInv, TypeOK, Renewing
<1>2. /\ actor' \in [Actors -> Locals] /\ actor'[r] = q
      /\ \A b \in Actors \ {r} : actor'[b] = actor[b]
  BY <1>1, PutFacts DEF AuthInv
<1>3. \A b \in Actors \ {r} : actor'[b].pc \notin Renewing
  BY <1>1, <1>2, OneRenews
<1>4. TypeOK'
  <2>1. \A s \in Requests : actor'[s].pc \in Renewing => inflight' = s
    BY <1>1, <1>3, Constants
  <2>2. QED
    BY <1>2, <2>1 DEF AuthInv, TypeOK, Renewing
<1>5. Alone'
  <2>1. actor'[Boot] = actor[Boot]
    BY <1>1, <1>2, Constants
  <2>2. \A a \in Actors : actor'[a].pc \in InHand => actor'[a].pair = issued' /\ issued' \in Pairs
    BY <1>2, <1>3 DEF InHand, Renewing
  <2>3. QED
    BY <2>1, <2>2 DEF AuthInv, Alone
<1>6. QED
  BY <1>4, <1>5 DEF AuthInv

\* The start of the process goes on, while no request is on its way.
LEMMA BootMoves ==
    ASSUME AuthInv, actor[Boot].pc # "up", NEW q \in Locals, Put(Boot, q),
           q.pc \notin AtRest \cup {"get", "lock", "call"},
           UNCHANGED inflight \/ inflight' = Release(Boot),
           q.pc \in InHand => q.pair = issued' /\ issued' \in Pairs,
           cache' \in Pairs \cup {NoPair}, file' \in Pairs \cup {NoPair, Torn},
           issued' \in Pairs \cup {NoPair},
           UNCHANGED <<aged, refused, crashes>>, lost' \in BOOLEAN
    PROVE  AuthInv'
<1>1. /\ actor' \in [Actors -> Locals] /\ actor'[Boot] = q
      /\ \A b \in Actors \ {Boot} : actor'[b] = actor[b]
  BY PutFacts, Constants DEF AuthInv
<1>2. inflight = Nobody /\ inflight' = Nobody
  BY DEF AuthInv, Alone, Release
<1>3. \A r \in Requests : actor'[r].pc \in AtRest
  BY <1>1, Constants DEF AuthInv, Alone
<1>4. \A r \in Requests : actor'[r].pc \notin Renewing
  BY <1>3 DEF AtRest, Ended, Renewing
<1>5. TypeOK'
  BY <1>1, <1>2, <1>4 DEF AuthInv, TypeOK, Renewing
<1>6. Alone'
  <2>1. \A a \in Actors : actor'[a].pc \in InHand => actor'[a].pair = issued' /\ issued' \in Pairs
    BY <1>1, <1>4 DEF InHand, Renewing, Actors
  <2>2. QED
    BY <1>1, <1>2, <1>3, <2>1 DEF Alone
<1>7. QED
  BY <1>5, <1>6 DEF AuthInv

\* GiveUp: where the actor goes when its renewal came to nothing.
LEMMA GivingUp ==
    ASSUME AuthInv, NEW a \in Actors, actor[a].pc \in Renewing
    PROVE  /\ GivenUp(a) \in Locals
           /\ a = Boot => GivenUp(a).pc \in {"off", "login"}
           /\ a # Boot => GivenUp(a).pc \in {"get", "error"}
<1>1. actor[a] \in Locals /\ actor[a].pc \in Places
  BY DEF AuthInv, TypeOK, Locals
<1> DEFINE q == [actor[a] EXCEPT !.fault = TRUE, !.pair = NoPair]
<1>2. q \in Locals
  BY <1>1 DEF Locals
<1>3. /\ Go(q, "login") \in Locals /\ Fresh("off") \in Locals /\ Leave(q, "error") \in Locals
      /\ Go(q, "login").pc = "login" /\ Fresh("off").pc = "off" /\ Leave(q, "error").pc = "error"
  <2>1. {"login", "off", "error"} \subseteq Places
    BY DEF Places, Serving, Ended
  <2>2. Go(q, "login") \in Locals /\ Fresh("off") \in Locals /\ Leave(q, "error") \in Locals
    BY <1>2, <2>1, LocalFacts
  <2>3. Go(q, "login").pc = "login" /\ Fresh("off").pc = "off" /\ Leave(q, "error").pc = "error"
    BY <1>2 DEF Go, Fresh, Leave, Locals
  <2>4. QED
    BY <2>2, <2>3
<1>4. /\ [q EXCEPT !.pc = "get", !.attempts = 1] \in Locals
      /\ [q EXCEPT !.pc = "get", !.attempts = 1].pc = "get"
  BY <1>2 DEF Locals, Places
<1>5. QED
  BY <1>3, <1>4 DEF GivenUp

LEMMA RenewalKeeps == ASSUME AuthInv, NEW a \in Actors, Renewal(a) PROVE AuthInv'
<1>1. actor[a] \in Locals /\ actor[a].pc \in Renewing /\ a \in Requests \cup {Boot}
  BY DEF AuthInv, TypeOK, Actors, Renewal, ServiceRefreshes, RefreshFails, AnswerArrives, AnswerLost,
         OpenTruncated, SaveFails, Write, StoreCache, At, Renewing
<1>2. a \in Requests => actor[Boot].pc = "up"
  BY <1>1 DEF AuthInv, Alone, AtRest, Ended, Renewing
<1>3. a = Boot => actor[Boot].pc # "up"
  BY <1>1 DEF Renewing, Serving
<1>4. /\ cache \in Pairs \cup {NoPair} /\ file \in Pairs \cup {NoPair, Torn}
      /\ issued \in Pairs \cup {NoPair} /\ lost \in BOOLEAN
      /\ actor[a].pc \in InHand => actor[a].pair = issued /\ issued \in Pairs
  BY DEF AuthInv, TypeOK, Alone
<1>5. /\ InHand \subseteq Renewing /\ {"login", "up", "off", "get", "call", "error"} \cap Renewing = {}
      /\ {"login", "up", "off"} \cap (AtRest \cup {"get", "lock", "call"}) = {}
      /\ InHand \cap (AtRest \cup {"get", "lock", "call"}) = {}
      /\ InHand \cup {"up", "get", "call"} \subseteq Places
  BY DEF InHand, Renewing, AtRest, Ended, Places, Serving
<1>6. CASE ServiceRefreshes(a)
  <2> DEFINE q == [actor[a] EXCEPT !.pc = "answer", !.pair = issued']
  <2>1. /\ issued' = issued + 1 /\ issued < MaxPairs /\ Put(a, q) /\ lost' = FALSE
        /\ UNCHANGED <<cache, file, inflight, aged, refused, crashes>>
    BY <1>6 DEF ServiceRefreshes, store
  <2>2. issued' \in Pairs
    BY <1>4, <2>1, Constants DEF Pairs, NoPair
  <2>3. q \in Locals /\ q.pc = "answer" /\ q.pair = issued'
    BY <1>1, <2>2 DEF Locals, Places
  <2>4. QED
    BY <1>1, <1>2, <1>3, <1>4, <1>5, <2>1, <2>2, <2>3, RequestRenews, BootMoves DEF InHand
<1>7. CASE GiveUp(a) /\ cache' = cache /\ file' = file /\ lost' \in BOOLEAN
           /\ UNCHANGED <<issued, aged, refused, crashes>>
  <2>1. Put(a, GivenUp(a)) /\ inflight' = Release(a)
    BY <1>7 DEF GiveUp
  <2>2. GivenUp(a) \in Locals /\ GivenUp(a).pc \notin Renewing
    BY <1>1, <1>5, GivingUp
  <2>3. CASE a = Boot
    BY <1>1, <1>3, <1>4, <1>5, <1>7, <2>1, <2>2, <2>3, GivingUp, BootMoves
  <2>4. CASE a \in Requests
    BY <1>1, <1>2, <1>4, <1>5, <1>7, <2>1, <2>2, <2>4, RequestMoves
  <2>5. QED
    BY <1>1, <2>3, <2>4
<1>8. ASSUME NEW place \in InHand, Put(a, Go(actor[a], place)), actor[a].pc \in InHand,
             file' \in Pairs \cup {NoPair, Torn},
             UNCHANGED <<cache, inflight, issued, aged, refused, crashes, lost>>
      PROVE  AuthInv'
  <2>1. Go(actor[a], place) \in Locals /\ Go(actor[a], place).pc = place
        /\ Go(actor[a], place).pair = actor[a].pair
    <3>1. place \in Places
      BY <1>5
    <3>2. QED
      BY <1>1, <3>1, LocalFacts DEF Go, Locals
  <2>2. QED
    BY <1>1, <1>2, <1>3, <1>4, <1>5, <1>8, <2>1, RequestRenews, BootMoves
<1>9. CASE StoreCache(a)
  <2>1. /\ actor[a].pc \in InHand /\ cache' = actor[a].pair /\ inflight' = Release(a)
        /\ UNCHANGED <<file, issued, aged, refused, crashes, lost>>
    BY <1>9 DEF StoreCache, At, InHand, service
  <2>2. cache' \in Pairs
    BY <1>4, <2>1
  <2>3. CASE a = Boot
    <3>1. Put(a, Fresh("up")) /\ Fresh("up") \in Locals /\ Fresh("up").pc = "up"
      BY <1>9, <2>3, LocalFacts DEF StoreCache, Places, Serving, Fresh
    <3>2. QED
      BY <1>3, <1>4, <1>5, <2>1, <2>2, <2>3, <3>1, BootMoves
  <2>4. CASE a \in Requests
    <3>1. PICK q : Put(a, q) /\ q \in Locals /\ q.pc \in {"get", "call"}
      <4>1. CASE actor[a].force
        <5>1. Put(a, [actor[a] EXCEPT !.pc = "get", !.attempts = 1])
          BY <1>9, <2>4, <4>1, Constants DEF StoreCache
        <5>2. /\ [actor[a] EXCEPT !.pc = "get", !.attempts = 1] \in Locals
              /\ [actor[a] EXCEPT !.pc = "get", !.attempts = 1].pc = "get"
          BY <1>1 DEF Locals, Places
        <5>3. QED
          BY <5>1, <5>2
      <4>2. CASE ~actor[a].force
        <5>1. Put(a, Go(actor[a], "call"))
          BY <1>9, <2>4, <4>2, Constants DEF StoreCache
        <5>2. Go(actor[a], "call") \in Locals /\ Go(actor[a], "call").pc = "call"
          BY <1>1, <1>5, LocalFacts DEF Go, Locals
        <5>3. QED
          BY <5>1, <5>2
      <4>3. QED
        BY <4>1, <4>2
    <3>2. QED
      BY <1>2, <1>4, <1>5, <2>1, <2>2, <2>4, <3>1, RequestMoves
  <2>5. QED
    BY <1>1, <2>3, <2>4
<1>10. CASE RefreshFails(a) \/ AnswerLost(a) \/ SaveFails(a)
  BY <1>4, <1>7, <1>10 DEF RefreshFails, AnswerLost, SaveFails, service
<1>11. CASE AnswerArrives(a) \/ OpenTruncated(a) \/ Write(a)
  <2>1. actor[a].pc \in InHand
    BY <1>11 DEF AnswerArrives, OpenTruncated, Write, At, InHand
  <2>2. PICK place \in InHand : Put(a, Go(actor[a], place))
    BY <1>11 DEF AnswerArrives, OpenTruncated, Write, InHand
  <2>3. file' \in Pairs \cup {NoPair, Torn}
    BY <1>4, <1>11, <2>1 DEF AnswerArrives, OpenTruncated, Write, store
  <2>4. UNCHANGED <<cache, inflight, issued, aged, refused, crashes, lost>>
    BY <1>11 DEF AnswerArrives, OpenTruncated, Write, store, service
  <2>5. QED
    BY <1>8, <2>1, <2>2, <2>3, <2>4
<1>12. QED
  BY <1>6, <1>9, <1>10, <1>11 DEF Renewal

\* The steps of a request that is not in the middle of a renewal.
LEMMA RequestKeeps ==
    ASSUME AuthInv, NEW r \in Requests,
           \/ Begin(r) \/ GetAuth(r) \/ CallAccepted(r) \/ CallFails(r) \/ CallRefused(r)
           \/ TakeLock(r) \/ HangUp(r)
    PROVE  AuthInv'
<1>1. actor[r] \in Locals /\ r \in Actors /\ r # Boot
  BY Constants DEF AuthInv, TypeOK
<1>2. actor[r].pc \notin AtRest => actor[Boot].pc = "up"
  BY DEF AuthInv, Alone
<1>3. /\ cache \in Pairs \cup {NoPair} /\ file \in Pairs \cup {NoPair, Torn}
      /\ lost \in BOOLEAN /\ issued \in Pairs \cup {NoPair}
  BY DEF AuthInv, TypeOK
<1>4. {"get", "call", "lock"} \cap (Renewing \cup AtRest) = {} /\ AtRest \cap Renewing = {}
      /\ AtRest \cup Renewing \cup {"get", "call", "lock"} \subseteq Places
  BY DEF Renewing, AtRest, Ended, Places
<1>5. ASSUME NEW place \in Ended, NEW q \in Locals, Put(r, Leave(q, place)),
             UNCHANGED inflight \/ inflight' = Release(r), lost' \in BOOLEAN,
             UNCHANGED <<cache, file, service, crashes>>
      PROVE  AuthInv'
  <2>1. place \in AtRest /\ place \in Places
    BY <1>4 DEF AtRest
  <2>2. Leave(q, place) \in Locals /\ Leave(q, place).pc = place
    BY <2>1, LocalFacts DEF Leave, Fresh
  <2>3. QED
    BY <1>3, <1>4, <1>5, <2>1, <2>2, RequestMoves DEF service
<1>6. ASSUME NEW q \in Locals, q.pc \in {"get", "call", "lock"}, Put(r, q),
             actor[Boot].pc = "up", UNCHANGED <<store, service, crashes, lost>>
      PROVE  AuthInv'
  BY <1>3, <1>4, <1>6, RequestMoves DEF store, service
<1>7. CASE Begin(r)
  <2>1. CASE At(Boot, "up")
    <3>1. Fresh("get") \in Locals /\ Fresh("get").pc = "get"
      BY <1>4, LocalFacts DEF Fresh
    <3>2. QED
      BY <1>6, <1>7, <2>1, <3>1 DEF Begin, At
  <2>2. CASE ~At(Boot, "up")
    <3> DEFINE q == [Fresh("error") EXCEPT !.fault = TRUE]
    <3>1. Fresh("error") \in Locals
      BY <1>4, LocalFacts DEF AtRest, Ended
    <3>2. q \in Locals /\ q.pc = "error"
      BY <3>1 DEF Locals, Fresh
    <3>3. "error" \in AtRest
      BY DEF AtRest, Ended
    <3>4. QED
      BY <1>3, <1>4, <1>7, <2>2, <3>2, <3>3, RequestMoves DEF Begin, store, service
  <2>3. QED
    BY <2>1, <2>2
<1>8. CASE GetAuth(r)
  <2>1. /\ [actor[r] EXCEPT !.pc = "call", !.pair = cache] \in Locals
        /\ [actor[r] EXCEPT !.pc = "call", !.pair = cache].pc = "call"
        /\ [actor[r] EXCEPT !.pc = "lock", !.force = FALSE] \in Locals
        /\ [actor[r] EXCEPT !.pc = "lock", !.force = FALSE].pc = "lock"
    BY <1>1, <1>3 DEF Locals, Places
  <2>2. actor[Boot].pc = "up"
    BY <1>2, <1>8 DEF GetAuth, At, AtRest, Ended
  <2>3. QED
    BY <1>6, <1>8, <2>1, <2>2 DEF GetAuth
<1>9. CASE CallAccepted(r)
  BY <1>1, <1>3, <1>5, <1>9 DEF CallAccepted, Ended, store
<1>10. CASE CallFails(r)
  <2>1. [actor[r] EXCEPT !.fault = TRUE] \in Locals
    BY <1>1 DEF Locals
  <2>2. QED
    BY <1>3, <1>5, <1>10, <2>1 DEF CallFails, Ended, store
<1>11. CASE CallRefused(r)
  <2>1. actor[r].pair \in Pairs /\ actor[r].pc = "call"
    BY <1>11 DEF AuthInv, TypeOK, CallRefused, At
  <2>2. Refusal(r) \in Locals /\ [Refusal(r) EXCEPT !.pc = "lock", !.force = TRUE] \in Locals
        /\ [Refusal(r) EXCEPT !.pc = "lock", !.force = TRUE].pc = "lock"
    BY <1>1, <2>1 DEF Refusal, Locals, Places
  <2>3. actor[Boot].pc = "up"
    BY <1>2, <2>1 DEF AtRest, Ended
  <2>4. CASE actor[r].attempts < 1
    BY <1>6, <1>11, <2>2, <2>3, <2>4 DEF CallRefused
  <2>5. CASE ~(actor[r].attempts < 1)
    BY <1>3, <1>5, <1>11, <2>2, <2>5 DEF CallRefused, Ended, store
  <2>6. QED
    BY <2>4, <2>5
<1>12. CASE TakeLock(r)
  <2> DEFINE q == [actor[r] EXCEPT !.pc = "refresh", !.pair = cache]
  <2>0. /\ At(r, "lock") /\ inflight = Nobody
        /\ UNCHANGED <<cache, file, service, crashes, lost>>
    BY <1>12 DEF TakeLock
  <2>1. actor[Boot].pc = "up"
    BY <1>2, <2>0 DEF At, AtRest, Ended
  <2>2. CASE Put(r, [actor[r] EXCEPT !.pc = "call", !.pair = cache]) /\ UNCHANGED inflight
    <3>1. /\ [actor[r] EXCEPT !.pc = "call", !.pair = cache] \in Locals
          /\ [actor[r] EXCEPT !.pc = "call", !.pair = cache].pc = "call"
      BY <1>1, <1>3 DEF Locals, Places
    <3>2. QED
      BY <1>6, <2>0, <2>1, <2>2, <3>1 DEF store
  <2>3. CASE Put(r, q) /\ inflight' = r
    <3>1. q \in Locals /\ q.pc = "refresh"
      BY <1>1, <1>3 DEF Locals, Places
    <3>2. /\ actor' \in [Actors -> Locals] /\ actor'[r] = q
          /\ \A b \in Actors \ {r} : actor'[b] = actor[b]
      BY <1>1, <2>3, <3>1, PutFacts DEF AuthInv
    <3>3. \A s \in Requests : actor[s].pc \notin Renewing
      BY <2>0, Constants DEF AuthInv, TypeOK, Renewing
    <3>4. TypeOK'
      <4>1. \A s \in Requests : actor'[s].pc \in Renewing => inflight' = s
        BY <2>3, <3>2, <3>3, Constants
      <4>2. QED
        BY <2>0, <2>3, <3>2, <4>1 DEF AuthInv, TypeOK, Renewing, service
    <3>5. Alone'
      <4>1. actor'[Boot] = actor[Boot]
        BY <1>1, <3>2, Constants
      <4>2. \A a \in Actors : actor'[a].pc \in InHand => actor[a].pc \in InHand /\ actor'[a] = actor[a]
        BY <3>1, <3>2 DEF InHand
      <4>3. QED
        BY <2>0, <2>1, <4>1, <4>2 DEF AuthInv, Alone, service
    <3>6. QED
      BY <3>4, <3>5 DEF AuthInv
  <2>4. QED
    BY <1>12, <2>2, <2>3 DEF TakeLock
<1>13. CASE HangUp(r)
  <2>1. lost' \in BOOLEAN
    BY <1>3, <1>13 DEF HangUp
  <2>2. QED
    BY <1>1, <1>5, <1>13, <2>1 DEF HangUp, Ended
<1>14. QED
  BY <1>7, <1>8, <1>9, <1>10, <1>11, <1>12, <1>13

\* The start of the process up to its renewal.
LEMMA BootKeeps ==
    ASSUME AuthInv, LoadExisting \/ DeviceLogin \/ LoginTimesOut \/ Restart
    PROVE  AuthInv'
<1>1. actor[Boot] \in Locals /\ actor[Boot].pc # "up"
  BY Constants DEF AuthInv, TypeOK, LoadExisting, DeviceLogin, LoginTimesOut, Restart, At, Serving
<1>2. /\ cache \in Pairs \cup {NoPair} /\ file \in Pairs \cup {NoPair, Torn}
      /\ lost \in BOOLEAN /\ issued \in Pairs \cup {NoPair}
  BY DEF AuthInv, TypeOK
<1>3. \A p \in {"up", "off", "login", "load", "refresh", "answer"} :
        Fresh(p) \in Locals /\ Fresh(p).pc = p /\ p \notin AtRest \cup {"get", "lock", "call"}
  <2>1. {"up", "off", "login", "load", "refresh", "answer"} \subseteq Places
    BY DEF Places, Serving
  <2>2. QED
    BY <2>1, LocalFacts DEF Fresh, AtRest, Ended
<1>4. CASE LoadExisting
  <2>1. PICK q : /\ Put(Boot, q) /\ q \in Locals /\ q.pc \in {"up", "login", "refresh"}
    <3> DEFINE renewal == [Fresh("refresh") EXCEPT !.pair = file]
    <3>1. file \in Pairs => renewal \in Locals /\ renewal.pc = "refresh"
      BY <1>3 DEF Locals
    <3>2. QED
      BY <1>3, <1>4, <3>1 DEF LoadExisting
  <2>2. /\ cache' \in Pairs \cup {NoPair} /\ lost' \in BOOLEAN
        /\ UNCHANGED <<file, inflight, issued, aged, refused, crashes>>
    BY <1>4 DEF LoadExisting, service
  <2>3. QED
    BY <1>1, <1>2, <1>3, <2>1, <2>2, BootMoves DEF InHand
<1>5. CASE DeviceLogin
  <2> DEFINE q == [Fresh("answer") EXCEPT !.pair = issued', !.login = TRUE]
  <2>1. /\ issued' = issued + 1 /\ issued < MaxPairs /\ Put(Boot, q) /\ lost' = FALSE
        /\ UNCHANGED <<cache, file, inflight, aged, refused, crashes>>
    BY <1>5 DEF DeviceLogin, store
  <2>2. issued' \in Pairs
    BY <1>2, <2>1, Constants DEF Pairs, NoPair
  <2>3. q \in Locals /\ q.pc = "answer" /\ q.pair = issued'
    BY <1>3, <2>2 DEF Locals
  <2>4. QED
    BY <1>1, <1>2, <1>3, <2>1, <2>2, <2>3, BootMoves
<1>6. CASE LoginTimesOut \/ Restart
  BY <1>1, <1>2, <1>3, <1>6, BootMoves DEF LoginTimesOut, Restart, store, service, InHand
<1>7. QED
  BY <1>4, <1>5, <1>6

LEMMA CrashKeeps == ASSUME AuthInv, Crash PROVE AuthInv'
<1>1. \A a \in Actors :
        /\ actor'[a] \in Locals
        /\ a = Boot => actor'[a].pc = "down"
        /\ a # Boot => actor'[a].pc \in AtRest
  <2> SUFFICES ASSUME NEW a \in Actors
               PROVE  /\ actor'[a] \in Locals
                      /\ a = Boot => actor'[a].pc = "down"
                      /\ a # Boot => actor'[a].pc \in AtRest
    OBVIOUS
  <2>1. actor[a] \in Locals
    BY DEF AuthInv, TypeOK
  <2>2. Fresh("down") \in Locals /\ Fresh("down").pc = "down"
    BY LocalFacts DEF Fresh, Places
  <2>3. Leave(actor[a], "gone") \in Locals /\ Leave(actor[a], "gone").pc = "gone"
    <3>1. "gone" \in Places
      BY DEF Places, Ended
    <3>2. QED
      BY <2>1, <3>1, LocalFacts DEF Leave, Fresh
  <2>4. QED
    BY <2>1, <2>2, <2>3 DEF Crash, AtRest, Ended
<1>2. actor' \in [Actors -> Locals]
  BY <1>1 DEF Crash
<1>3. \A r \in Requests : actor'[r].pc \in AtRest
  BY <1>1, Constants
<1>4. TypeOK'
  <2>1. crashes' \in 0 .. MaxCrashes /\ lost' \in BOOLEAN
    BY Constants DEF Crash, AuthInv, TypeOK
  <2>2. \A r \in Requests : actor'[r].pc \notin Renewing
    BY <1>3 DEF AtRest, Ended, Renewing
  <2>3. QED
    BY <1>2, <2>1, <2>2 DEF Crash, service, AuthInv, TypeOK, Renewing
<1>5. Alone'
  <2>1. actor'[Boot].pc = "down"
    BY <1>1, Constants
  <2>2. \A a \in Actors : actor'[a].pc \notin InHand
    BY <1>3, <2>1 DEF AtRest, Ended, InHand, Actors
  <2>3. QED
    BY <1>3, <2>1, <2>2 DEF Crash, Alone, AtRest, Ended, Serving
<1>6. QED
  BY <1>4, <1>5 DEF AuthInv

LEMMA StepAuth == AuthInv /\ [Next]_vars => AuthInv'
<1> SUFFICES ASSUME AuthInv, [Next]_vars PROVE AuthInv'
  OBVIOUS
<1>1. CASE Age \/ Revoke \/ UNCHANGED vars
  <2>1. /\ UNCHANGED <<cache, file, inflight, issued, actor, crashes, lost>>
        /\ aged' \subseteq Pairs /\ refused' \subseteq Pairs
    BY <1>1 DEF Age, Revoke, vars, store, service, AuthInv, TypeOK
  <2>2. QED
    BY <2>1 DEF AuthInv, TypeOK, Alone
<1>2. CASE \E r \in Requests : Begin(r) \/ RequestStep(r) \/ HangUp(r)
  BY <1>2, RequestKeeps, RenewalKeeps, Constants DEF RequestStep
<1>3. CASE BootStep \/ Restart
  BY <1>3, BootKeeps, RenewalKeeps, Constants DEF BootStep
<1>4. CASE Crash
  BY <1>4, CrashKeeps
<1>5. QED
  BY <1>1, <1>2, <1>3, <1>4 DEF Next

\* auth.rs: every variable stays in its domain, and a request renews only with
\* the lock AuthManager.inflight.
THEOREM TypeCorrect == Spec => []TypeOK
<1>1. AuthInv => TypeOK
  BY DEF AuthInv
<1>2. QED
  BY <1>1, InitAuth, StepAuth, PTL DEF Spec

-----------------------------------------------------------------------------
(***************************************************************************)
(* What is kept of the pair issued last.                                   *)
(***************************************************************************)
NoneInHand == \A a \in Actors : actor[a].pc \notin InHand

Kept ==
    /\ \A a \in Actors :
        /\ actor[a].pc = "refresh" /\ ~lost => actor[a].pair = issued
        /\ actor[a].pc = "store" => file = issued
    /\ NoneInHand /\ ~lost => file = issued
    /\ NoneInHand /\ ~lost /\ actor[Boot].pc = "up" => cache = issued

\* A step of one actor outside of a renewal, or one that begins a renewal with
\* the pair issued last, or gives one up.
LEMMA OutsideKept ==
    ASSUME AuthInv, Kept, NEW a \in Actors, \A b \in Actors \ {a} : actor'[b] = actor[b],
           actor'[a].pc \notin InHand, UNCHANGED <<file, issued>>,
           actor[a].pc \in InHand => lost',
           lost /\ ~lost' => a = Boot /\ file = issued,
           actor'[a].pc = "refresh" /\ ~lost' => actor'[a].pair = issued,
           a # Boot => UNCHANGED cache,
           a = Boot => actor[a].pc # "up" /\ (actor'[a].pc = "up" /\ ~lost' => cache' = issued)
    PROVE  Kept'
<1>0. ASSUME lost, ~lost', NEW b \in Actors \ {a} PROVE actor[b].pc \notin Renewing
  <2>1. b \in Requests /\ actor[Boot].pc # "up"
    BY <1>0 DEF Actors
  <2>2. actor[b].pc \in AtRest
    BY <2>1 DEF AuthInv, Alone
  <2>3. QED
    BY <2>2 DEF AtRest, Ended, Renewing
<1>1. \A b \in Actors : /\ actor'[b].pc = "refresh" /\ ~lost' => actor'[b].pair = issued'
                        /\ actor'[b].pc = "store" => file' = issued'
  BY <1>0 DEF Kept, InHand, Renewing
<1>2. ASSUME NoneInHand', ~lost' PROVE file' = issued' /\ (actor'[Boot].pc = "up" => cache' = issued')
  <2>1. NoneInHand
    BY <1>2 DEF NoneInHand
  <2>2. file = issued
    BY <1>2, <2>1 DEF Kept
  <2>3. actor'[Boot].pc = "up" => cache' = issued
    BY <1>2, <2>1, Constants DEF Kept
  <2>4. QED
    BY <2>2, <2>3
<1>3. QED
  BY <1>1, <1>2 DEF Kept

\* A step of the renewal that is under way, to another point of it.
LEMMA InsideKept ==
    ASSUME AuthInv, Kept, NEW a \in Actors, actor[a].pc \in Renewing \/ (a = Boot /\ actor[a].pc = "login"),
           \A b \in Actors \ {a} : actor'[b] = actor[b],
           actor'[a].pc \in InHand, actor'[a].pc = "store" => file' = issued'
    PROVE  Kept'
<1>1. \A b \in Actors \ {a} : actor[b].pc \notin Renewing
  <2>1. CASE actor[a].pc \in Renewing
    BY <2>1, OneRenews
  <2>2. CASE a = Boot /\ actor[a].pc = "login"
    BY <2>2 DEF AuthInv, Alone, Actors, AtRest, Ended, Renewing
  <2>3. QED
    BY <2>1, <2>2
<1>2. \A b \in Actors : /\ actor'[b].pc # "refresh"
                        /\ actor'[b].pc = "store" => file' = issued'
  BY <1>1 DEF InHand, Renewing
<1>3. ~NoneInHand'
  BY DEF NoneInHand
<1>4. QED
  BY <1>2, <1>3 DEF Kept

LEMMA InitKept == Init => Kept
<1> SUFFICES ASSUME Init PROVE Kept
  OBVIOUS
<1>1. \A a \in Actors : actor[a].pc \in {"load", "begin"}
  BY DEF Init, Fresh
<1>2. QED
  BY <1>1, Constants DEF Init, Kept, NoneInHand

\* The cache takes the pair in hand, which the file already holds.
LEMMA StoreKept == ASSUME AuthInv, Kept, NEW a \in Actors, StoreCache(a) PROVE Kept'
<1>1. /\ actor[a].pc = "store" /\ cache' = actor[a].pair /\ UNCHANGED <<file, issued, lost>>
      /\ actor[a] \in Locals
  BY DEF StoreCache, At, service, AuthInv, TypeOK
<1>2. file = issued /\ actor[a].pair = issued
  BY <1>1 DEF Kept, AuthInv, Alone, InHand
<1>3. \A b \in Actors \ {a} : actor[b].pc \notin Renewing
  BY <1>1, OneRenews DEF Renewing
<1>4. \A b \in Actors \ {a} : actor'[b] = actor[b]
  BY DEF StoreCache, Put, AuthInv, TypeOK
<1>5. actor'[a].pc \in {"up", "get", "call"}
  BY <1>1 DEF StoreCache, Put, AuthInv, TypeOK, Fresh, Go, Locals
<1>6. QED
  BY <1>1, <1>2, <1>3, <1>4, <1>5 DEF Kept, Renewing

LEMMA RenewalKept == ASSUME AuthInv, Kept, NEW a \in Actors, Renewal(a) PROVE Kept'
<1>1. actor[a] \in Locals /\ actor[a].pc \in Renewing /\ actor \in [Actors -> Locals]
  BY DEF AuthInv, TypeOK, Actors, Renewal, ServiceRefreshes, RefreshFails, AnswerArrives, AnswerLost,
         OpenTruncated, SaveFails, Write, StoreCache, At, Renewing
<1>2. \A q : Put(a, q) => actor'[a] = q /\ \A b \in Actors \ {a} : actor'[b] = actor[b]
  BY <1>1 DEF Put
<1>3. CASE RefreshFails(a) \/ AnswerLost(a) \/ SaveFails(a)
  <2>1. /\ Put(a, GivenUp(a)) /\ UNCHANGED <<cache, file, issued>>
        /\ lost' = lost \/ lost' = TRUE
        /\ actor[a].pc \in InHand => lost'
    BY <1>3 DEF RefreshFails, AnswerLost, SaveFails, GiveUp, service, At, InHand
  <2>2. GivenUp(a).pc \in {"off", "login", "get", "error"} /\ (a = Boot => GivenUp(a).pc \in {"off", "login"})
    BY <1>1, GivingUp
  <2>3. lost => lost'
    BY <2>1
  <2>4. a = Boot => actor[a].pc # "up"
    BY <1>1 DEF Renewing
  <2>5. QED
    BY <1>2, <2>1, <2>2, <2>3, <2>4, OutsideKept DEF InHand
<1>4. CASE ServiceRefreshes(a)
  <2>1. actor'[a].pc = "answer"
    BY <1>1, <1>4 DEF ServiceRefreshes, Locals, Put
  <2>2. QED
    BY <1>1, <1>2, <1>4, <2>1, InsideKept DEF ServiceRefreshes, InHand
<1>5. CASE AnswerArrives(a) \/ OpenTruncated(a) \/ Write(a)
  <2>1. actor[a].pc \in InHand
    BY <1>5 DEF AnswerArrives, OpenTruncated, Write, At, InHand
  <2>2. /\ actor'[a].pc \in {"save", "write", "store"}
        /\ actor'[a].pc = "store" => file' = actor[a].pair
        /\ \A b \in Actors \ {a} : actor'[b] = actor[b]
    BY <1>1, <1>2, <1>5 DEF AnswerArrives, OpenTruncated, Write, Go, Locals
  <2>3. actor[a].pair = issued /\ issued' = issued
    BY <1>5, <2>1 DEF AuthInv, Alone, AnswerArrives, OpenTruncated, Write, service
  <2>4. QED
    BY <1>1, <2>2, <2>3, InsideKept DEF InHand
<1>6. CASE StoreCache(a)
  BY <1>6, StoreKept
<1>7. QED
  BY <1>3, <1>4, <1>5, <1>6 DEF Renewal

LEMMA RequestKept ==
    ASSUME AuthInv, Kept, NEW r \in Requests,
           \/ Begin(r) \/ GetAuth(r) \/ CallAccepted(r) \/ CallFails(r) \/ CallRefused(r)
           \/ TakeLock(r) \/ HangUp(r)
    PROVE  Kept'
<1>1. /\ actor[r] \in Locals /\ r \in Actors /\ r # Boot /\ actor \in [Actors -> Locals]
      /\ UNCHANGED <<cache, file, issued>>
  BY Constants DEF AuthInv, TypeOK, Begin, GetAuth, CallAccepted, CallFails, CallRefused, TakeLock,
     HangUp, store, service
<1>2. \A q : Put(r, q) => actor'[r] = q /\ \A b \in Actors \ {r} : actor'[b] = actor[b]
  BY <1>1 DEF Put
<1>3. CASE TakeLock(r)
  <2>1. /\ inflight = Nobody /\ actor[r].pc = "lock" /\ lost' = lost
        /\ actor'[r].pc = "refresh" => actor'[r].pair = cache
        /\ actor'[r].pc \in {"call", "refresh"}
        /\ \A b \in Actors \ {r} : actor'[b] = actor[b]
    BY <1>1, <1>3, ZenonT(30) DEF TakeLock, At, Locals, Put
  <2>2. actor[Boot].pc = "up"
    BY <1>1, <2>1 DEF AuthInv, Alone, AtRest, Ended
  <2>3. NoneInHand
    BY <2>1, <2>2, Constants DEF AuthInv, TypeOK, NoneInHand, InHand, Actors
  <2>4. ~lost => cache = issued
    BY <2>2, <2>3 DEF Kept
  <2>5. QED
    BY <1>1, <2>1, <2>4, OutsideKept DEF InHand
<1>4. CASE ~TakeLock(r)
  <2>1. /\ actor'[r].pc \in {"get", "error", "call", "lock", "ok", "gone"}
        /\ \A b \in Actors \ {r} : actor'[b] = actor[b]
    <3>1. \A b \in Actors \ {r} : actor'[b] = actor[b]
      BY <1>1, <1>4 DEF Begin, GetAuth, CallAccepted, CallFails, CallRefused, HangUp, Put
    <3>2. CASE Begin(r)
      BY <1>1, <3>2 DEF Begin, Fresh, Put
    <3>6. CASE CallAccepted(r) \/ CallFails(r) \/ HangUp(r)
      <4>1. \A q, p : Leave(q, p).pc = p
        BY DEF Leave, Fresh
      <4>2. QED
        BY <1>1, <3>6, <4>1 DEF CallAccepted, CallFails, HangUp, Put
    <3>3. CASE GetAuth(r)
      BY <1>1, <3>3 DEF GetAuth, Locals, Put
    <3>4. CASE CallRefused(r)
      <4>1. Refusal(r).pc = actor[r].pc /\ [Refusal(r) EXCEPT !.pc = "lock", !.force = TRUE].pc = "lock"
        BY <1>1 DEF Refusal, Locals
      <4>2. QED
        BY <1>1, <3>4, <4>1 DEF CallRefused, Leave, Fresh, Put
    <3>5. QED
      BY <1>4, <3>1, <3>2, <3>3, <3>4, <3>6
  <2>2. (lost => lost') /\ (actor[r].pc \in InHand => lost')
    <3>1. CASE HangUp(r)
      <4>1. CASE actor[r].pc \in {"answer", "store"}
        BY <3>1, <4>1 DEF HangUp
      <4>2. CASE actor[r].pc \notin {"answer", "store"}
        BY <3>1, <4>2 DEF HangUp, InHand
      <4>3. QED
        BY <4>1, <4>2
    <3>2. CASE ~HangUp(r)
      BY <1>4, <3>2 DEF Begin, GetAuth, CallAccepted, CallFails, CallRefused, At, InHand
    <3>3. QED
      BY <3>1, <3>2
  <2>3. QED
    BY <1>1, <2>1, <2>2, OutsideKept DEF InHand
<1>5. QED
  BY <1>3, <1>4

LEMMA BootKept ==
    ASSUME AuthInv, Kept, LoadExisting \/ DeviceLogin \/ LoginTimesOut \/ Restart
    PROVE  Kept'
<1>1. Boot \in Actors /\ actor \in [Actors -> Locals] /\ actor[Boot] \in Locals
  BY Constants DEF AuthInv, TypeOK
<1>2. \A q : Put(Boot, q) => actor'[Boot] = q /\ \A b \in Actors \ {Boot} : actor'[b] = actor[b]
  BY <1>1 DEF Put
<1>3. \A r \in Requests : actor[Boot].pc # "up" => actor[r].pc \notin Renewing
  BY DEF AuthInv, Alone, AtRest, Ended, Renewing
<1>4. CASE LoadExisting
  <2>1. /\ actor[Boot].pc = "load" /\ UNCHANGED <<file, issued>>
        /\ actor'[Boot].pc \in {"up", "refresh", "login"}
        /\ actor'[Boot].pc = "up" => cache' = file
        /\ actor'[Boot].pc = "refresh" => actor'[Boot].pair = file
        /\ \A b \in Actors \ {Boot} : actor'[b] = actor[b]
    BY <1>1, <1>2, <1>4 DEF LoadExisting, At, Fresh, service
  <2>2. lost /\ ~lost' => file = issued
    BY <1>4 DEF LoadExisting
  <2>3. NoneInHand
    BY <1>3, <2>1 DEF NoneInHand, InHand, Renewing, Actors
  <2>4. ~lost' => file = issued
    BY <2>2, <2>3 DEF Kept
  <2>5. QED
    BY <1>1, <2>1, <2>2, <2>4, OutsideKept DEF InHand
<1>5. CASE DeviceLogin
  <2>1. actor'[Boot].pc = "answer" /\ actor[Boot].pc = "login"
        /\ \A b \in Actors \ {Boot} : actor'[b] = actor[b]
    BY <1>1, <1>5 DEF DeviceLogin, At, Fresh, Put
  <2>2. QED
    BY <1>1, <2>1, InsideKept DEF InHand
<1>6. CASE LoginTimesOut \/ Restart
  <2>1. /\ actor[Boot].pc \in {"login", "down"} /\ UNCHANGED <<cache, file, issued, lost>>
        /\ actor'[Boot].pc \in {"off", "load"}
        /\ \A b \in Actors \ {Boot} : actor'[b] = actor[b]
    BY <1>1, <1>2, <1>6 DEF LoginTimesOut, Restart, At, Fresh, store, service
  <2>2. QED
    BY <1>1, <2>1, OutsideKept DEF InHand
<1>7. QED
  BY <1>4, <1>5, <1>6

LEMMA CrashKept == ASSUME AuthInv, Kept, Crash PROVE Kept'
<1>1. \A a \in Actors : actor'[a].pc \in AtRest \cup {"down"}
  BY DEF Crash, Fresh, Leave, AtRest, Ended
<1>2. ~lost' => ~lost /\ file = issued
  <2>1. CASE NoneInHand
    BY <2>1 DEF Crash, Kept
  <2>2. CASE ~NoneInHand /\ ~lost'
    <3>1. PICK a \in Actors : actor[a].pc \in InHand
      BY <2>2 DEF NoneInHand
    <3>2. actor[a].pc = "store"
      BY <2>2, <3>1 DEF Crash, Unsaved, InHand
    <3>3. QED
      BY <2>2, <3>2 DEF Crash, Kept
  <2>3. QED
    BY <2>1, <2>2
<1>3. QED
  BY <1>1, <1>2, Constants DEF Crash, service, Kept, NoneInHand, AtRest, Ended, InHand

LEMMA StepKept == AuthInv /\ Kept /\ [Next]_vars => Kept'
<1> SUFFICES ASSUME AuthInv, Kept, [Next]_vars PROVE Kept'
  OBVIOUS
<1>1. CASE Age \/ Revoke \/ UNCHANGED vars
  <2>1. UNCHANGED <<cache, file, issued, actor, lost>>
    BY <1>1 DEF Age, Revoke, vars, store, service
  <2>2. QED
    BY <2>1 DEF Kept, NoneInHand
<1>2. CASE \E r \in Requests : Begin(r) \/ RequestStep(r) \/ HangUp(r)
  BY <1>2, RequestKept, RenewalKept, Constants DEF RequestStep
<1>3. CASE BootStep \/ Restart
  BY <1>3, BootKept, RenewalKept, Constants DEF BootStep
<1>4. CASE Crash
  BY <1>4, CrashKept
<1>5. QED
  BY <1>1, <1>2, <1>3, <1>4 DEF Next

LEMMA LoginIsKept == AuthInv /\ Kept => LoginKept
<1> SUFFICES ASSUME AuthInv, Kept, actor[Boot].pc = "up", inflight = Nobody, ~lost
             PROVE  cache = issued /\ file = issued
  BY DEF LoginKept, At
<1>1. NoneInHand
  BY Constants DEF AuthInv, TypeOK, NoneInHand, InHand, Actors
<1>2. QED
  BY <1>1 DEF Kept

\* auth.rs 94-192: unless a renewed pair was dropped on its way, the cache and
\* the file hold the pair issued last whenever nobody renews it, after any number
\* of concurrent requests, crashes and restarts.
THEOREM LoginIsNeverLost == Spec => []LoginKept
BY InitAuth, StepAuth, InitKept, StepKept, LoginIsKept, PTL DEF Spec

\* auth.rs 143-192 and 259-299: unless a renewed pair was dropped, nobody sends a
\* refresh token that the service has rotated away.
THEOREM RefreshTokensAreValid == Spec => []RenewalsValid
<1>1. Kept => RenewalsValid
  BY DEF Kept, RenewalsValid, At
<1>2. QED
  BY <1>1, InitAuth, StepAuth, InitKept, StepKept, PTL DEF Spec
-----------------------------------------------------------------------------
(***************************************************************************)
(* What a request was refused.  Pairs are numbered as they are issued, so  *)
(* a pair that comes after the refused one is another one.                 *)
(***************************************************************************)
\* The request q, while the cache holds c and the service has issued i, has been
\* refused one pair at most; once it has renewed, it is given later ones only.
Asked(q, c, i) ==
    /\ q.refusals = {} <=> (q.attempts = 0 /\ ~q.force)
    /\ q.attempts = 0 /\ q.force => q.pc \in {"lock"} \cup Renewing
    /\ q.refusals = {} \/ \E p \in Pairs :
          /\ q.refusals = {p} /\ p <= i
          /\ q.attempts = 1 => p < c
          /\ q.pc \in InHand \cup {"call"} => p < q.pair

Judged(q, c, i) ==
    /\ q.pc \notin AtRest /\ ~q.fault => Asked(q, c, i)
    /\ q.pc = "error" /\ ~q.fault => Cardinality(q.refusals) >= 2

RefusalInv ==
    /\ cache <= issued /\ file <= issued
    /\ \A a \in Actors : actor[a].pair <= issued
    /\ \A r \in Requests : Judged(actor[r], cache, issued)

\* Pairs are numbers, and Torn is below them.
LEMMA Numbers ==
    ASSUME AuthInv
    PROVE  /\ cache \in Nat /\ issued \in Nat /\ file \in Int
           /\ Pairs \subseteq Nat /\ NoPair = 0
           /\ \A a \in Actors : actor[a] \in Locals /\ actor[a].pair \in Nat
<1>1. Pairs \subseteq Nat /\ NoPair = 0 /\ Torn = -1
  BY Constants DEF Torn
<1>2. /\ cache \in Pairs \cup {NoPair} /\ issued \in Pairs \cup {NoPair}
      /\ file \in Pairs \cup {NoPair, Torn}
  BY DEF AuthInv, TypeOK
<1>3. cache \in Nat /\ issued \in Nat /\ file \in Int
  BY <1>1, <1>2
<1>4. ASSUME NEW a \in Actors PROVE actor[a] \in Locals /\ actor[a].pair \in Nat
  <2>1. actor[a] \in Locals
    BY DEF AuthInv, TypeOK
  <2>2. \A p \in Pairs \cup {NoPair} : p \in Nat
    BY <1>1
  <2>3. actor[a].pair \in Nat
    BY <2>1, <2>2 DEF Locals
  <2>4. QED
    BY <2>1, <2>3
<1>5. QED
  BY <1>1, <1>3, <1>4

\* Two pairs are two refusals.
LEMMA TwoRefusals ==
    ASSUME NEW p \in Nat, NEW q \in Nat, p < q
    PROVE  Cardinality({p} \cup {q}) >= 2
<1>1. IsFiniteSet({p}) /\ Cardinality({p}) = 1
  BY FS_Singleton
<1>2. q \notin {p}
  OBVIOUS
<1>3. Cardinality({p} \cup {q}) = 2
  BY <1>1, <1>2, FS_AddElement
<1>4. QED
  BY <1>3

\* Later pairs in the cache and at the service leave a request where it is.
LEMMA LaterPairs ==
    ASSUME AuthInv, NEW r \in Requests, Judged(actor[r], cache, issued),
           NEW c \in Nat, NEW i \in Nat, i >= issued,
           c >= cache \/ actor[r].pc \in AtRest
    PROVE  Judged(actor[r], c, i)
<1>1. CASE actor[r].pc \notin AtRest /\ ~actor[r].fault
  <2>1. Asked(actor[r], cache, issued) /\ c >= cache
    BY <1>1 DEF Judged
  <2>2. actor[r].refusals = {} \/ \E p \in Pairs :
          /\ actor[r].refusals = {p} /\ p <= i
          /\ actor[r].attempts = 1 => p < c
          /\ actor[r].pc \in InHand \cup {"call"} => p < actor[r].pair
    <3>1. CASE actor[r].refusals = {}
      BY <3>1
    <3>2. CASE actor[r].refusals # {}
      <4>1. PICK p \in Pairs : /\ actor[r].refusals = {p} /\ p <= issued
                               /\ actor[r].attempts = 1 => p < cache
                               /\ actor[r].pc \in InHand \cup {"call"} => p < actor[r].pair
        BY <2>1, <3>2 DEF Asked
      <4>2. p <= i /\ (actor[r].attempts = 1 => p < c)
        BY <2>1, <4>1, Numbers
      <4>3. QED
        BY <4>1, <4>2
    <3>3. QED
      BY <3>1, <3>2
  <2>3. QED
    BY <1>1, <2>1, <2>2 DEF Judged, Asked, AtRest, Ended
<1>2. CASE actor[r].pc \in AtRest \/ actor[r].fault
  BY <1>2 DEF Judged
<1>3. QED
  BY <1>1, <1>2

\* A step that leaves later pairs behind it, and its actor with the pair p; only
\* the start of the process may put an earlier one into the cache.
Grows(a, p) ==
    /\ cache' \in Nat /\ issued' \in Nat /\ issued' >= issued
    /\ cache' >= cache \/ (a = Boot /\ actor[Boot].pc # "up")
    /\ cache' <= issued' /\ file' <= issued' /\ p <= issued'

\* Pairs only move between the cache, the file, the actors and the service.
LEMMA PairsMove ==
    ASSUME AuthInv, RefusalInv, NEW a \in Actors, NEW p,
           p \in {0, cache, file, issued'} \/ \E b \in Actors : p = actor[b].pair,
           issued' \in {issued, issued + 1}, file' \in {file, Torn, p},
           \/ cache' \in {cache, issued}
           \/ a = Boot /\ actor[Boot].pc # "up" /\ cache' \in Nat /\ cache' \in {0, file}
    PROVE  Grows(a, p)
<1>1. /\ cache \in Nat /\ issued \in Nat /\ file \in Int /\ cache <= issued /\ file <= issued
      /\ issued' \in Nat /\ issued' >= issued
  BY Numbers DEF RefusalInv
<1>2. p \in Int /\ p <= issued'
  <2>1. CASE p \in {0, cache, file, issued'}
    BY <1>1, <2>1
  <2>2. CASE \E b \in Actors : p = actor[b].pair
    <3>1. PICK b \in Actors : p = actor[b].pair
      BY <2>2
    <3>2. p \in Nat /\ p <= issued
      BY <3>1, Numbers DEF RefusalInv
    <3>3. QED
      BY <1>1, <3>2
  <2>3. QED
    BY <2>1, <2>2
<1>3. file' <= issued'
  BY <1>1, <1>2 DEF Torn
<1>4. CASE cache' = cache \/ cache' = issued
  <2>1. cache' \in Nat /\ cache' <= issued'
    BY <1>1, <1>4
  <2>2. cache' >= cache
    BY <1>1, <1>4
  <2>3. QED
    BY <1>1, <1>2, <1>3, <2>1, <2>2 DEF Grows
<1>5. CASE a = Boot /\ actor[Boot].pc # "up" /\ cache' \in Nat /\ cache' \in {0, file}
  <2>1. cache' <= issued'
    BY <1>1, <1>5
  <2>2. QED
    BY <1>1, <1>2, <1>3, <1>5, <2>1 DEF Grows
<1>6. QED
  BY <1>4, <1>5

\* A step of one actor: the others see later pairs, if they are on their way.
LEMMA OneJudged ==
    ASSUME AuthInv, RefusalInv, NEW a \in Actors, NEW q, Put(a, q), Grows(a, q.pair),
           a # Boot => Judged(q, cache', issued')
    PROVE  RefusalInv'
<1>1. actor'[a] = q /\ \A b \in Actors \ {a} : actor'[b] = actor[b]
  BY DEF Put, AuthInv, TypeOK
<1>2. \A b \in Actors : actor'[b].pair <= issued'
  BY <1>1, Numbers DEF RefusalInv, Grows
<1>3. ASSUME NEW r \in Requests, r # a PROVE Judged(actor'[r], cache', issued')
  <2>1. actor'[r] = actor[r]
    BY <1>1, <1>3, Constants
  <2>2. cache' >= cache \/ actor[r].pc \in AtRest
    BY DEF AuthInv, Alone, Grows
  <2>3. QED
    BY <2>1, <2>2, LaterPairs DEF RefusalInv, Grows
<1>4. \A r \in Requests : Judged(actor'[r], cache', issued')
  BY <1>1, <1>3, Constants
<1>5. QED
  BY <1>2, <1>4 DEF RefusalInv, Grows

\* What a request has been refused, as numbers.
LEMMA WasRefused ==
    ASSUME AuthInv, RefusalInv, NEW r \in Requests, actor[r].pc \notin AtRest, ~actor[r].fault
    PROVE  /\ actor[r].refusals = {} <=> (actor[r].attempts = 0 /\ ~actor[r].force)
           /\ actor[r].attempts = 0 /\ actor[r].force => actor[r].pc \in {"lock"} \cup Renewing
           /\ actor[r].refusals # {} => \E p \in Pairs :
                 /\ actor[r].refusals = {p} /\ p <= issued
                 /\ actor[r].attempts = 1 => p < cache
                 /\ actor[r].pc \in InHand \cup {"call"} => p < actor[r].pair
BY DEF RefusalInv, Judged, Asked

LEMMA InitRefusals == Init => RefusalInv
<1> SUFFICES ASSUME Init PROVE RefusalInv
  OBVIOUS
<1>1. \A a \in Actors : actor[a].pc \in {"load", "begin"} /\ actor[a].pair = 0
  BY DEF Init, Fresh, NoPair
<1>2. \A r \in Requests : actor[r].pc = "begin"
  BY Constants DEF Init, Fresh
<1>3. QED
  BY <1>1, <1>2 DEF Init, RefusalInv, Judged, NoPair, AtRest

\* A renewal that came to nothing counts as a fault.
LEMMA GiveUpJudged ==
    ASSUME AuthInv, RefusalInv, NEW a \in Actors, actor[a].pc \in Renewing, GiveUp(a),
           UNCHANGED <<cache, file, issued>>
    PROVE  RefusalInv'
<1>1. actor[a] \in Locals
  BY Numbers
<1>2. Put(a, GivenUp(a)) /\ GivenUp(a).pair = NoPair /\ (a # Boot => GivenUp(a).fault)
  BY <1>1 DEF GiveUp, GivenUp, Fresh, Leave, Go, Locals
<1>3. Grows(a, GivenUp(a).pair)
  BY <1>2, PairsMove DEF NoPair
<1>4. a # Boot => Judged(GivenUp(a), cache', issued')
  BY <1>2, <1>1 DEF Judged, GivenUp, Leave, Fresh, Go
<1>5. QED
  BY <1>2, <1>3, <1>4, OneJudged

LEMMA RenewalJudged == ASSUME AuthInv, RefusalInv, NEW a \in Actors, Renewal(a) PROVE RefusalInv'
<1>1. actor[a] \in Locals /\ actor[a].pc \in Renewing /\ a \in Requests \cup {Boot}
  BY DEF AuthInv, TypeOK, Actors, Renewal, ServiceRefreshes, RefreshFails, AnswerArrives, AnswerLost,
         OpenTruncated, SaveFails, Write, StoreCache, At, Renewing
<1>2. actor[a].pc \notin AtRest /\ actor[a].pc \notin {"up", "lock", "call"} /\ InHand \cap AtRest = {}
  BY <1>1 DEF Renewing, AtRest, Ended, InHand
<1>3. CASE RefreshFails(a) \/ AnswerLost(a) \/ SaveFails(a)
  BY <1>1, <1>3, GiveUpJudged DEF RefreshFails, AnswerLost, SaveFails, service
<1>4. CASE ServiceRefreshes(a)
  <2>1. PICK q : q = [actor[a] EXCEPT !.pc = "answer", !.pair = issued']
    OBVIOUS
  <2>2. /\ Put(a, q) /\ issued' = issued + 1 /\ UNCHANGED <<cache, file>>
        /\ q.pc = "answer" /\ q.pair = issued' /\ q.refusals = actor[a].refusals /\ q.fault = actor[a].fault
        /\ q.attempts = actor[a].attempts /\ q.force = actor[a].force
    BY <1>1, <1>4, <2>1 DEF ServiceRefreshes, store, Locals
  <2>3. a # Boot => Judged(q, cache', issued')
    <3> SUFFICES ASSUME a \in Requests, ~actor[a].fault PROVE Asked(q, cache', issued')
      BY <1>1, <2>2 DEF Judged
    <3>1. q.refusals # {} => \E p \in Pairs : /\ q.refusals = {p} /\ p <= issued' /\ p < issued'
                                              /\ q.attempts = 1 => p < cache'
      BY <1>2, <2>2, WasRefused, Numbers
    <3>2. QED
      BY <1>2, <2>2, <3>1, WasRefused DEF Asked, Renewing
  <2>4. Grows(a, q.pair)
    BY <2>2, PairsMove
  <2>5. QED
    BY <2>2, <2>3, <2>4, OneJudged
<1>5. CASE AnswerArrives(a) \/ OpenTruncated(a) \/ Write(a)
  <2>1. PICK place \in InHand : Put(a, Go(actor[a], place))
    BY <1>5 DEF AnswerArrives, OpenTruncated, Write, InHand
  <2>2. PICK q : q = Go(actor[a], place)
    OBVIOUS
  <2>3. /\ q.pc = place /\ q.pair = actor[a].pair /\ q.refusals = actor[a].refusals /\ q.fault = actor[a].fault
        /\ q.attempts = actor[a].attempts /\ q.force = actor[a].force
    BY <1>1, <2>2 DEF Go, Locals
  <2>4. /\ actor[a].pc \in InHand /\ UNCHANGED <<cache, issued>>
        /\ file' \in {file, Torn, actor[a].pair}
    BY <1>5 DEF AnswerArrives, OpenTruncated, Write, At, InHand, service, store
  <2>5. a # Boot => Judged(q, cache', issued')
    <3> SUFFICES ASSUME a \in Requests, ~actor[a].fault PROVE Asked(q, cache', issued')
      BY <1>1, <1>2, <2>3 DEF Judged, InHand
    <3>1. place \in Renewing
      BY DEF InHand, Renewing
    <3>2. QED
      BY <1>2, <2>3, <2>4, <3>1, WasRefused DEF Asked
  <2>6. Grows(a, q.pair)
    BY <2>3, <2>4, PairsMove
  <2>7. QED
    BY <2>1, <2>2, <2>5, <2>6, OneJudged
<1>6. CASE StoreCache(a)
  <2>1. /\ actor[a].pc = "store" /\ cache' = issued /\ UNCHANGED <<file, issued>>
        /\ actor[a].pair = issued
    BY <1>6 DEF StoreCache, At, service, AuthInv, Alone, InHand
  <2>2. CASE a = Boot
    <3>1. Put(a, Fresh("up")) /\ Fresh("up").pair = 0
      BY <1>6, <2>2 DEF StoreCache, Fresh, NoPair
    <3>2. Grows(a, Fresh("up").pair)
      BY <2>1, <3>1, PairsMove
    <3>3. QED
      BY <2>2, <3>1, <3>2, OneJudged
  <2>3. CASE a \in Requests
    <3>1. PICK q : q = IF actor[a].force THEN [actor[a] EXCEPT !.pc = "get", !.attempts = 1]
                       ELSE Go(actor[a], "call")
      OBVIOUS
    <3>2. Put(a, q)
      BY <1>6, <2>3, <3>1, Constants DEF StoreCache
    <3>3. /\ q.pc = IF actor[a].force THEN "get" ELSE "call"
          /\ q.attempts = IF actor[a].force THEN 1 ELSE actor[a].attempts
          /\ q.pair = issued /\ q.refusals = actor[a].refusals /\ q.fault = actor[a].fault
          /\ q.force = actor[a].force
      BY <1>1, <2>1, <3>1 DEF Go, Locals
    <3>4. Judged(q, cache', issued')
      <4> SUFFICES ASSUME ~actor[a].fault PROVE Asked(q, cache', issued')
        BY <3>3 DEF Judged
      <4>1. actor[a].pc \in InHand
        BY <2>1 DEF InHand
      <4>2. q.refusals # {} => \E p \in Pairs : q.refusals = {p} /\ p <= issued /\ p < issued
        BY <1>2, <2>1, <2>3, <3>3, <4>1, WasRefused
      <4>3. /\ q.refusals = {} <=> (q.attempts = 0 /\ ~q.force)
            /\ ~(q.attempts = 0 /\ q.force)
        BY <1>2, <2>3, <3>3, WasRefused
      <4>4. QED
        BY <2>1, <3>3, <4>2, <4>3 DEF Asked
    <3>5. Grows(a, q.pair)
      BY <2>1, <3>3, PairsMove
    <3>6. QED
      BY <3>2, <3>4, <3>5, OneJudged
  <2>4. QED
    BY <1>1, <2>2, <2>3
<1>7. QED
  BY <1>3, <1>4, <1>5, <1>6 DEF Renewal

\* The steps of a request outside of a renewal.
LEMMA RequestJudged ==
    ASSUME AuthInv, RefusalInv, NEW r \in Requests,
           \/ Begin(r) \/ GetAuth(r) \/ CallAccepted(r) \/ CallFails(r) \/ CallRefused(r)
           \/ TakeLock(r) \/ HangUp(r)
    PROVE  RefusalInv'
<1>1. /\ actor[r] \in Locals /\ r \in Actors /\ r # Boot
      /\ UNCHANGED <<cache, file, issued>>
  BY Constants DEF AuthInv, TypeOK, Begin, GetAuth, CallAccepted, CallFails, CallRefused, TakeLock,
     HangUp, store, service
<1>2. ASSUME NEW q, Put(r, q), q.pair \in {0, actor[r].pair, cache}, Judged(q, cache, issued)
      PROVE  RefusalInv'
  <2>1. Grows(r, q.pair)
    BY <1>1, <1>2, PairsMove
  <2>2. Judged(q, cache', issued')
    BY <1>1, <1>2
  <2>3. QED
    BY <1>1, <1>2, <2>1, <2>2, OneJudged
<1>3. ASSUME NEW q, NEW p PROVE /\ Leave(q, p).pc = p /\ Leave(q, p).pair = 0
                                /\ Leave(q, p).refusals = q.refusals /\ Leave(q, p).fault = q.fault
  BY DEF Leave, Fresh, NoPair
<1>4. CASE Begin(r)
  <2>1. CASE At(Boot, "up")
    <3>1. /\ Put(r, Fresh("get")) /\ Fresh("get").pc = "get" /\ Fresh("get").pair = 0
          /\ Fresh("get").refusals = {} /\ Fresh("get").attempts = 0 /\ ~Fresh("get").force
      BY <1>4, <2>1 DEF Begin, Fresh, NoPair
    <3>2. QED
      BY <1>2, <3>1 DEF Judged, Asked
  <2>2. CASE ~At(Boot, "up")
    <3>1. PICK q : q = [Fresh("error") EXCEPT !.fault = TRUE]
      OBVIOUS
    <3>2. Put(r, q) /\ q.fault /\ q.pair = 0
      BY <1>4, <2>2, <3>1 DEF Begin, Fresh, NoPair
    <3>3. QED
      BY <1>2, <3>2 DEF Judged
  <2>3. QED
    BY <2>1, <2>2
<1>5. CASE CallAccepted(r)
  BY <1>2, <1>3, <1>5 DEF CallAccepted, Judged, AtRest, Ended
<1>6. CASE CallFails(r)
  <2>1. PICK q : q = [actor[r] EXCEPT !.fault = TRUE]
    OBVIOUS
  <2>2. q.fault /\ Put(r, Leave(q, "error"))
    BY <1>1, <1>6, <2>1 DEF CallFails, Locals
  <2>3. QED
    BY <1>2, <1>3, <2>2 DEF Judged
<1>7. CASE HangUp(r)
  BY <1>2, <1>3, <1>7 DEF HangUp, Judged, AtRest, Ended
<1>8. CASE CallRefused(r)
  <2>1. /\ actor[r].pc = "call" /\ actor[r].pair \in Pairs /\ actor[r].pair <= issued
        /\ actor[r].attempts \in {0, 1}
    BY <1>1, <1>8 DEF CallRefused, At, AuthInv, TypeOK, RefusalInv, Locals
  <2>2. actor[r].pc \notin AtRest
    BY <2>1 DEF AtRest, Ended
  <2>3. Refusal(r).refusals = actor[r].refusals \cup {actor[r].pair} /\ Refusal(r).fault = actor[r].fault
    BY <1>1 DEF Refusal, Locals
  <2>4. CASE actor[r].attempts = 0
    <3>1. PICK q : q = [Refusal(r) EXCEPT !.pc = "lock", !.force = TRUE]
      OBVIOUS
    <3>2. Put(r, q)
      BY <1>8, <2>4, <3>1 DEF CallRefused
    <3>3. /\ q.pc = "lock" /\ q.force /\ q.attempts = 0 /\ q.pair = actor[r].pair /\ q.fault = actor[r].fault
          /\ q.refusals = actor[r].refusals \cup {actor[r].pair}
      BY <1>1, <2>4, <3>1 DEF Refusal, Locals
    <3>4. ~q.fault => q.refusals = {actor[r].pair}
      BY <2>1, <2>2, <2>4, <3>3, WasRefused DEF Renewing
    <3>5. Judged(q, cache, issued)
      BY <2>1, <3>3, <3>4 DEF Judged, Asked, InHand
    <3>6. QED
      BY <1>2, <3>2, <3>3, <3>5
  <2>5. CASE actor[r].attempts = 1
    <3>1. Put(r, Leave(Refusal(r), "error"))
      BY <1>8, <2>5 DEF CallRefused
    <3>2. ASSUME ~actor[r].fault PROVE Cardinality(Refusal(r).refusals) >= 2
      <4>1. PICK p \in Pairs : actor[r].refusals = {p} /\ p < actor[r].pair
        BY <2>1, <2>2, <2>5, <3>2, WasRefused
      <4>2. QED
        BY <2>1, <2>3, <4>1, Numbers, TwoRefusals
    <3>3. PICK q : q = Leave(Refusal(r), "error")
      OBVIOUS
    <3>4. /\ q.pc = "error" /\ q.pair = 0 /\ q.refusals = Refusal(r).refusals
          /\ q.fault = actor[r].fault
      BY <1>3, <2>3, <3>3
    <3>5. Judged(q, cache, issued)
      BY <3>2, <3>4 DEF Judged, AtRest, Ended
    <3>6. QED
      BY <1>2, <3>1, <3>3, <3>4, <3>5
  <2>6. QED
    BY <2>1, <2>4, <2>5
<1>9. CASE GetAuth(r) \/ TakeLock(r)
  <2>1. actor[r].pc \in {"get", "lock"} /\ actor[r].pc \notin AtRest
    BY <1>9 DEF GetAuth, TakeLock, At, AtRest, Ended
  <2>2. CASE Put(r, [actor[r] EXCEPT !.pc = "call", !.pair = cache])
             /\ (actor[r].pc = "get" \/ ~actor[r].force)
    <3>1. PICK q : q = [actor[r] EXCEPT !.pc = "call", !.pair = cache]
      OBVIOUS
    <3>2. /\ q.pc = "call" /\ q.pair = cache /\ q.refusals = actor[r].refusals /\ q.fault = actor[r].fault
          /\ q.attempts = actor[r].attempts /\ q.force = actor[r].force
      BY <1>1, <3>1 DEF Locals
    <3>3. ASSUME ~actor[r].fault PROVE Asked(q, cache, issued)
      <4>1. ~(q.attempts = 0 /\ q.force)
        BY <2>1, <2>2, <3>2, <3>3, WasRefused DEF Renewing
      <4>2. q.attempts \in {0, 1}
        BY <1>1, <3>2 DEF Locals
      <4>3. q.refusals # {} => q.attempts = 1
        BY <2>1, <3>2, <3>3, <4>1, <4>2, WasRefused
      <4>4. q.refusals # {} => \E p \in Pairs : q.refusals = {p} /\ p <= issued /\ p < cache
        BY <2>1, <3>2, <3>3, <4>3, WasRefused
      <4>5. QED
        BY <2>1, <3>2, <3>3, <4>1, <4>4, WasRefused DEF Asked
    <3>4. QED
      BY <1>2, <2>2, <3>1, <3>2, <3>3 DEF Judged
  <2>3. CASE Put(r, [actor[r] EXCEPT !.pc = "refresh", !.pair = cache])
    <3>1. PICK q : q = [actor[r] EXCEPT !.pc = "refresh", !.pair = cache]
      OBVIOUS
    <3>2. /\ q.pc = "refresh" /\ q.pair = cache /\ q.refusals = actor[r].refusals /\ q.fault = actor[r].fault
          /\ q.attempts = actor[r].attempts /\ q.force = actor[r].force
      BY <1>1, <3>1 DEF Locals
    <3>3. ASSUME ~actor[r].fault PROVE Asked(q, cache, issued)
      BY <2>1, <3>2, <3>3, WasRefused DEF Asked, Renewing, InHand
    <3>4. QED
      BY <1>2, <2>3, <3>1, <3>2, <3>3 DEF Judged
  <2>4. CASE Put(r, [actor[r] EXCEPT !.pc = "lock", !.force = FALSE]) /\ actor[r].pc = "get"
    <3>1. PICK q : q = [actor[r] EXCEPT !.pc = "lock", !.force = FALSE]
      OBVIOUS
    <3>2. /\ q.pc = "lock" /\ q.pair = actor[r].pair /\ q.refusals = actor[r].refusals
          /\ q.fault = actor[r].fault /\ q.attempts = actor[r].attempts /\ ~q.force
      BY <1>1, <3>1 DEF Locals
    <3>3. ASSUME ~actor[r].fault PROVE Asked(q, cache, issued)
      <4>1. ~(actor[r].attempts = 0 /\ actor[r].force)
        BY <2>1, <2>4, <3>3, WasRefused DEF Renewing
      <4>2. QED
        BY <2>1, <3>2, <3>3, <4>1, WasRefused DEF Asked, InHand
    <3>4. QED
      BY <1>2, <2>4, <3>1, <3>2, <3>3 DEF Judged
  <2>5. QED
    BY <1>9, <2>2, <2>3, <2>4 DEF GetAuth, TakeLock, At
<1>10. QED
  BY <1>4, <1>5, <1>6, <1>7, <1>8, <1>9

LEMMA BootJudged ==
    ASSUME AuthInv, RefusalInv, LoadExisting \/ DeviceLogin \/ LoginTimesOut \/ Restart
    PROVE  RefusalInv'
<1>1. Boot \in Actors /\ actor[Boot].pc # "up"
  BY Constants DEF LoadExisting, DeviceLogin, LoginTimesOut, Restart, At
<1>2. \A p : Fresh(p).pair = 0
  BY DEF Fresh, NoPair
<1>3. CASE LoadExisting
  <2>1. PICK q : Put(Boot, q) /\ (q.pair = 0 \/ q.pair = file)
    <3>1. [Fresh("refresh") EXCEPT !.pair = file].pair = file
      BY DEF Fresh
    <3>2. QED
      BY <1>2, <1>3, <3>1 DEF LoadExisting
  <2>2. cache' \in {0, file} /\ cache' \in Nat /\ UNCHANGED <<file, issued>>
    BY <1>3, Numbers DEF LoadExisting, service
  <2>3. Grows(Boot, q.pair)
    BY <1>1, <2>1, <2>2, PairsMove
  <2>4. QED
    BY <1>1, <2>1, <2>3, OneJudged
<1>4. CASE DeviceLogin
  <2>1. PICK q : q = [Fresh("answer") EXCEPT !.pair = issued', !.login = TRUE]
    OBVIOUS
  <2>2. Put(Boot, q) /\ q.pair = issued' /\ issued' = issued + 1 /\ UNCHANGED <<cache, file>>
    BY <1>4, <2>1 DEF DeviceLogin, Fresh, store
  <2>3. Grows(Boot, q.pair)
    BY <1>1, <2>2, PairsMove
  <2>4. QED
    BY <1>1, <2>2, <2>3, OneJudged
<1>5. CASE LoginTimesOut \/ Restart
  <2>1. PICK p : Put(Boot, Fresh(p)) /\ UNCHANGED <<cache, file, issued>>
    BY <1>5 DEF LoginTimesOut, Restart, store, service
  <2>2. Grows(Boot, Fresh(p).pair)
    BY <1>1, <1>2, <2>1, PairsMove
  <2>3. QED
    BY <1>1, <2>1, <2>2, OneJudged
<1>6. QED
  BY <1>3, <1>4, <1>5

LEMMA CrashJudged == ASSUME AuthInv, RefusalInv, Crash PROVE RefusalInv'
<1>1. cache' = 0 /\ UNCHANGED <<file, issued>>
  BY DEF Crash, service, NoPair
<1>2. ASSUME NEW a \in Actors
      PROVE  \/ actor'[a].pc \in {"down", "gone"} /\ actor'[a].pair = 0
             \/ a # Boot /\ actor'[a] = actor[a] /\ actor[a].pc \in AtRest
  BY <1>2 DEF Crash, Fresh, Leave, NoPair, AtRest
<1>3. \A a \in Actors : actor'[a].pair <= issued'
  BY <1>1, <1>2, Numbers DEF RefusalInv
<1>4. ASSUME NEW r \in Requests PROVE Judged(actor'[r], cache', issued')
  <2>1. r \in Actors
    BY DEF Actors
  <2>2. CASE actor'[r].pc \in {"down", "gone"}
    <3>1. actor'[r].pc = "gone"
      BY <2>1, <2>2, Constants DEF Crash, Leave, Fresh, Ended
    <3>2. QED
      BY <3>1 DEF Judged, AtRest, Ended
  <2>3. CASE actor'[r] = actor[r] /\ actor[r].pc \in AtRest
    BY <1>1, <2>3, Numbers, LaterPairs DEF RefusalInv
  <2>4. QED
    BY <1>2, <2>1, <2>2, <2>3
<1>5. QED
  BY <1>1, <1>3, <1>4, Numbers DEF RefusalInv

LEMMA StepRefusals == AuthInv /\ RefusalInv /\ [Next]_vars => RefusalInv'
<1> SUFFICES ASSUME AuthInv, RefusalInv, [Next]_vars PROVE RefusalInv'
  OBVIOUS
<1>1. CASE Age \/ Revoke \/ UNCHANGED vars
  <2>1. UNCHANGED <<cache, file, issued, actor>>
    BY <1>1 DEF Age, Revoke, vars, store, service
  <2>2. QED
    BY <2>1 DEF RefusalInv, Judged, Asked
<1>2. CASE \E r \in Requests : Begin(r) \/ RequestStep(r) \/ HangUp(r)
  BY <1>2, RequestJudged, RenewalJudged, Constants DEF RequestStep
<1>3. CASE BootStep \/ Restart
  BY <1>3, BootJudged, RenewalJudged, Constants DEF BootStep
<1>4. CASE Crash
  BY <1>4, CrashJudged
<1>5. QED
  BY <1>1, <1>2, <1>3, <1>4 DEF Next

\* provider.rs 82-110: a request that met nothing worse than refused access
\* tokens fails only after two different ones, whoever else renews in between.
THEOREM RefusalIsSurvived == Spec => []RefusalSurvived
<1>1. RefusalInv => RefusalSurvived
  BY DEF RefusalInv, Judged, RefusalSurvived, At
<1>2. QED
  BY <1>1, InitAuth, StepAuth, InitRefusals, StepRefusals, PTL DEF Spec

(* --------- no lock outlives its holder, no renewal repeats itself --------- *)

\* Whoever holds the lock renews: he is on his way to give it back.
LockHeld == \A r \in Requests : inflight = r => actor[r].pc \in Renewing

\* A forced renewal comes before the second attempt, and only there.
Once(q) ==
    /\ q.attempts = 1 /\ q.pc \in {"lock"} \cup Renewing => ~q.force
    /\ q.attempts = 0 /\ q.force => q.pc \in {"lock"} \cup Renewing

OnceInv == \A r \in Requests : Once(actor[r])

\* The steps of one pass from get_auth to the answer, and the passes left: the
\* first, the forced renewal after a refusal, and the second attempt.
PlaceLeft(q) ==
    CASE q.pc = "get" -> 9
      [] q.pc = "lock" -> 8
      [] q.pc = "refresh" -> 7
      [] q.pc = "answer" -> 6
      [] q.pc = "save" -> 5
      [] q.pc = "write" -> 4
      [] q.pc = "store" -> 3
      [] q.pc = "call" -> 2
      [] OTHER -> 1

PassesLeft(q) == IF q.attempts = 1 THEN 0 ELSE IF q.force THEN 1 ELSE 2

StepsLeft(q) ==
    IF q.pc \in Ended THEN 0
    ELSE IF q.pc = "begin" THEN 30
    ELSE 10 * PassesLeft(q) + PlaceLeft(q)

\* Each step of a request uses up one of those it has left at least, and nobody
\* else's step gives it new ones.
StepsSpent ==
    [][\A r \in Requests : actor'[r] # actor[r] => StepsLeft(actor'[r]) < StepsLeft(actor[r])]_vars

\* What a request has left is never more than this.
StepsBounded == \A r \in Requests : StepsLeft(actor[r]) \in 0 .. 30

LEMMA StepsFit == \A q \in Locals : StepsLeft(q) \in 0 .. 30 /\ (q.pc \notin Ended => StepsLeft(q) > 0)
BY DEF StepsLeft, PassesLeft, PlaceLeft

\* A pass goes on, or the next one begins.
LEMMA Closer ==
    ASSUME NEW q \in Locals, NEW p \in Locals, q.pc \notin AtRest, p.pc # "begin",
           \/ p.pc \in Ended
           \/ p.attempts = q.attempts /\ p.force = q.force /\ PlaceLeft(p) < PlaceLeft(q)
           \/ PassesLeft(p) < PassesLeft(q)
    PROVE  StepsLeft(p) < StepsLeft(q)
<1>1. PlaceLeft(p) \in 1 .. 9 /\ PlaceLeft(q) \in 1 .. 9
  BY DEF PlaceLeft
<1>2. PassesLeft(p) \in 0 .. 2 /\ PassesLeft(q) \in 0 .. 2
  BY DEF PassesLeft
<1>3. StepsLeft(q) = 10 * PassesLeft(q) + PlaceLeft(q)
  BY DEF StepsLeft, AtRest
<1>4. CASE p.pc \in Ended
  BY <1>1, <1>2, <1>3, <1>4 DEF StepsLeft
<1>5. CASE p.pc \notin Ended
  <2>1. StepsLeft(p) = 10 * PassesLeft(p) + PlaceLeft(p)
    BY <1>5 DEF StepsLeft
  <2>2. CASE PassesLeft(p) < PassesLeft(q)
    BY <1>1, <1>2, <1>3, <2>1, <2>2
  <2>3. CASE p.attempts = q.attempts /\ p.force = q.force /\ PlaceLeft(p) < PlaceLeft(q)
    <3>1. PassesLeft(p) = PassesLeft(q)
      BY <2>3 DEF PassesLeft
    <3>2. QED
      BY <1>1, <1>2, <1>3, <2>1, <2>3, <3>1
  <2>4. QED
    BY <1>5, <2>2, <2>3
<1>6. QED
  BY <1>4, <1>5

\* One step of a request: q is what it was, p what it is now.
LEMMA OwnStep ==
    ASSUME AuthInv, NEW r \in Requests, Once(actor[r]), inflight = r => actor[r].pc \in Renewing,
           Begin(r) \/ RequestStep(r) \/ HangUp(r)
    PROVE  /\ Once(actor'[r])
           /\ StepsLeft(actor'[r]) < StepsLeft(actor[r])
           /\ \A a \in Actors \ {r} : actor'[a] = actor[a]
           /\ inflight' = r => actor'[r].pc \in Renewing
           /\ inflight' \in {inflight, r, Nobody}
<1> DEFINE q == actor[r]
           p == actor'[r]
<1>1. r \in Actors /\ r # Boot /\ r # Nobody /\ q \in Locals /\ actor \in [Actors -> Locals]
  BY Constants DEF AuthInv, TypeOK
<1>2. \A x : Put(r, x) => p = x /\ \A a \in Actors \ {r} : actor'[a] = actor[a]
  BY <1>1 DEF Put
<1>3. q.pc \in Renewing => inflight = r
  BY DEF AuthInv, TypeOK, Renewing
<1>4. q.attempts \in {0, 1} /\ q.force \in BOOLEAN
  BY <1>1 DEF Locals
<1>5. \A place \in Ended : \A x : /\ Leave(x, place).pc = place /\ Leave(x, place).attempts = 0
                                  /\ Leave(x, place).force = FALSE
  BY DEF Leave, Fresh
\* The request ends.
<1>6. ASSUME p.pc \in Ended, p.force = FALSE, p \in Locals, q.pc \notin Ended
      PROVE  Once(p) /\ StepsLeft(p) < StepsLeft(q)
  <2>1. Once(p)
    BY <1>6 DEF Once, Ended, Renewing
  <2>2. CASE q.pc = "begin"
    BY <1>6, <2>1, <2>2 DEF StepsLeft, Ended
  <2>3. CASE q.pc # "begin"
    BY <1>1, <1>6, <2>1, <2>3, Closer DEF AtRest, Ended
  <2>4. QED
    BY <2>1, <2>2, <2>3
\* The renewal goes on.
<1>7. ASSUME p.attempts = q.attempts, p.force = q.force, p.pc \in Renewing, q.pc \in {"lock"} \cup Renewing,
             p \in Locals, PlaceLeft(p) < PlaceLeft(q)
      PROVE  Once(p) /\ StepsLeft(p) < StepsLeft(q)
  <2>1. Once(p)
    BY <1>7 DEF Once
  <2>2. QED
    BY <1>1, <1>7, <2>1, Closer DEF AtRest, Ended, Renewing
\* A forced renewal is over, whatever came of it.
<1>8. ASSUME p.attempts = 1, p.pc = "get", q.force, q.pc \in Renewing, p \in Locals
      PROVE  Once(p) /\ StepsLeft(p) < StepsLeft(q)
  <2>1. Once(p)
    BY <1>8 DEF Once, Renewing
  <2>2. q.attempts = 0
    BY <1>4, <1>8 DEF Once
  <2>3. PassesLeft(p) < PassesLeft(q)
    BY <1>8, <2>2 DEF PassesLeft
  <2>4. QED
    BY <1>1, <1>8, <2>1, <2>3, Closer DEF AtRest, Ended, Renewing
<1>9. AuthInv'
  BY RequestKeeps, RenewalKeeps, <1>1 DEF RequestStep
<1>10. p \in Locals
  BY <1>1, <1>9 DEF AuthInv, TypeOK
<1>11. CASE Begin(r)
  <2>1. q.pc = "begin" /\ inflight' = inflight
    BY <1>11 DEF Begin, At, store
  <2>2. p = Fresh("get") \/ p = [Fresh("error") EXCEPT !.fault = TRUE]
    BY <1>2, <1>11 DEF Begin
  <2>3. CASE p = Fresh("get")
    <3>1. p.pc = "get" /\ p.attempts = 0 /\ p.force = FALSE
      BY <2>3 DEF Fresh
    <3>2. Once(p) /\ StepsLeft(p) < StepsLeft(q)
      BY <2>1, <3>1 DEF Once, StepsLeft, PassesLeft, PlaceLeft, Ended, Renewing
    <3>3. q.pc \notin Renewing /\ inflight # r
      BY <2>1 DEF Renewing
    <3>4. QED
      BY <1>2, <1>11, <2>1, <3>2, <3>3 DEF Begin
  <2>4. CASE p = [Fresh("error") EXCEPT !.fault = TRUE]
    <3>1. p.pc \in Ended /\ p.force = FALSE
      BY <2>4 DEF Fresh, Ended
    <3>2. QED
      BY <1>2, <1>6, <1>10, <1>11, <2>1, <3>1 DEF Begin, Ended, Renewing
  <2>5. QED
    BY <2>2, <2>3, <2>4
<1>12. CASE GetAuth(r)
  <2>1. q.pc = "get" /\ inflight' = inflight
    BY <1>12 DEF GetAuth, At, store
  <2>2. \/ p = [q EXCEPT !.pc = "call", !.pair = cache]
        \/ p = [q EXCEPT !.pc = "lock", !.force = FALSE]
    BY <1>2, <1>12 DEF GetAuth
  <2>3. q.attempts = 0 => ~q.force
    BY <2>1 DEF Once, Renewing
  <2>4. /\ p.attempts = q.attempts
        /\ \/ p.pc = "call" /\ p.force = q.force
           \/ p.pc = "lock" /\ p.force = FALSE
    BY <1>1, <2>2 DEF Locals
  <2>5. Once(p)
    BY <1>4, <2>3, <2>4 DEF Once, Renewing
  <2>6. StepsLeft(p) < StepsLeft(q)
    BY <1>4, <2>1, <2>3, <2>4 DEF StepsLeft, PassesLeft, PlaceLeft, Ended
  <2>7. QED
    BY <1>2, <1>12, <2>1, <2>5, <2>6 DEF GetAuth, Renewing
<1>13. CASE TakeLock(r)
  <2>1. q.pc = "lock" /\ inflight = Nobody
    BY <1>13 DEF TakeLock, At
  <2>2. CASE ~q.force /\ p = [q EXCEPT !.pc = "call", !.pair = cache] /\ inflight' = inflight
    <3>1. p.pc = "call" /\ p.attempts = q.attempts /\ p.force = q.force
      BY <1>1, <2>2 DEF Locals
    <3>2. Once(p)
      BY <2>2, <3>1 DEF Once, Renewing
    <3>3. StepsLeft(p) < StepsLeft(q)
      BY <1>4, <2>1, <3>1 DEF StepsLeft, PassesLeft, PlaceLeft, Ended
    <3>4. QED
      BY <1>1, <1>2, <1>13, <2>1, <2>2, <3>2, <3>3 DEF TakeLock
  <2>3. CASE p = [q EXCEPT !.pc = "refresh", !.pair = cache] /\ inflight' = r
    <3>1. p.pc = "refresh" /\ p.attempts = q.attempts /\ p.force = q.force
      BY <1>1, <2>3 DEF Locals
    <3>2. PlaceLeft(p) < PlaceLeft(q) /\ p.pc \in Renewing
      BY <2>1, <3>1 DEF PlaceLeft, Renewing
    <3>3. QED
      BY <1>2, <1>7, <1>10, <1>13, <2>1, <2>3, <3>1, <3>2 DEF TakeLock
  <2>4. QED
    BY <1>2, <1>13, <2>2, <2>3 DEF TakeLock
<1>14. CASE Renewal(r)
  <2>1. q.pc \in Renewing /\ inflight = r
    BY <1>3, <1>14 DEF Renewal, ServiceRefreshes, RefreshFails, AnswerArrives, AnswerLost,
           OpenTruncated, SaveFails, Write, StoreCache, At, Renewing
  <2>2. CASE GiveUp(r)
    <3>1. p = GivenUp(r) /\ inflight' = Nobody
      BY <1>2, <2>1, <2>2 DEF GiveUp, Release
    <3> DEFINE x == [q EXCEPT !.fault = TRUE, !.pair = NoPair]
    <3>2. p = IF q.force THEN [x EXCEPT !.pc = "get", !.attempts = 1] ELSE Leave(x, "error")
      BY <1>1, <3>1 DEF GivenUp
    <3>3. CASE q.force
      <4>1. p.pc = "get" /\ p.attempts = 1
        BY <1>1, <3>2, <3>3 DEF Locals
      <4>2. QED
        BY <1>1, <1>2, <1>8, <1>10, <2>1, <2>2, <3>1, <3>3, <4>1 DEF GiveUp
    <3>4. CASE ~q.force
      <4>1. p.pc \in Ended /\ p.force = FALSE
        BY <1>5, <3>2, <3>4 DEF Ended
      <4>2. q.pc \notin Ended
        BY <2>1 DEF Renewing, Ended
      <4>3. QED
        BY <1>1, <1>2, <1>6, <1>10, <2>2, <3>1, <4>1, <4>2 DEF GiveUp
    <3>5. QED
      BY <3>3, <3>4
  <2>3. CASE \/ ServiceRefreshes(r) \/ AnswerArrives(r) \/ OpenTruncated(r) \/ Write(r)
    <3>1. inflight' = inflight
      BY <2>3 DEF ServiceRefreshes, AnswerArrives, OpenTruncated, Write, store
    <3>2. /\ p.attempts = q.attempts /\ p.force = q.force
          /\ \/ q.pc = "refresh" /\ p.pc = "answer"
             \/ q.pc = "answer" /\ p.pc = "save"
             \/ q.pc = "save" /\ p.pc = "write"
             \/ q.pc = "write" /\ p.pc = "store"
      <4>1. CASE ServiceRefreshes(r)
        <5>1. PICK i : p = [q EXCEPT !.pc = "answer", !.pair = i]
          BY <1>2, <4>1 DEF ServiceRefreshes
        <5>2. QED
          BY <1>1, <4>1, <5>1 DEF ServiceRefreshes, At, Locals
      <4>2. CASE AnswerArrives(r)
        BY <1>1, <1>2, <4>2 DEF AnswerArrives, At, Go, Locals
      <4>3. CASE OpenTruncated(r)
        BY <1>1, <1>2, <4>3 DEF OpenTruncated, At, Go, Locals
      <4>4. CASE Write(r)
        BY <1>1, <1>2, <4>4 DEF Write, At, Go, Locals
      <4>5. QED
        BY <2>3, <4>1, <4>2, <4>3, <4>4
    <3>3. PlaceLeft(p) < PlaceLeft(q) /\ p.pc \in Renewing
      BY <3>2 DEF PlaceLeft, Renewing
    <3>4. \A a \in Actors \ {r} : actor'[a] = actor[a]
      BY <1>2, <2>3 DEF ServiceRefreshes, AnswerArrives, OpenTruncated, Write
    <3>5. QED
      BY <1>7, <1>10, <2>1, <3>1, <3>2, <3>3, <3>4
  <2>4. CASE StoreCache(r)
    <3>1. q.pc = "store" /\ inflight' = Nobody
      BY <2>1, <2>4 DEF StoreCache, At, Release
    <3>2. p = IF q.force THEN [q EXCEPT !.pc = "get", !.attempts = 1] ELSE Go(q, "call")
      BY <1>1, <1>2, <2>4 DEF StoreCache
    <3>3. CASE q.force
      <4>1. p.pc = "get" /\ p.attempts = 1
        BY <1>1, <3>2, <3>3 DEF Locals
      <4>2. QED
        BY <1>1, <1>2, <1>8, <1>10, <2>1, <2>4, <3>1, <3>3, <4>1 DEF StoreCache
    <3>4. CASE ~q.force
      <4>1. p.pc = "call" /\ p.attempts = q.attempts /\ p.force = q.force
        BY <1>1, <3>2, <3>4 DEF Go, Locals
      <4>2. Once(p)
        BY <3>4, <4>1 DEF Once, Renewing
      <4>3. StepsLeft(p) < StepsLeft(q)
        BY <1>4, <3>1, <4>1 DEF StepsLeft, PassesLeft, PlaceLeft, Ended
      <4>4. QED
        BY <1>1, <1>2, <2>4, <3>1, <4>2, <4>3 DEF StoreCache
    <3>5. QED
      BY <3>3, <3>4
  <2>5. QED
    BY <1>14, <2>2, <2>3, <2>4 DEF Renewal, RefreshFails, AnswerLost, SaveFails
<1>15. CASE CallAccepted(r) \/ CallFails(r) \/ CallRefused(r)
  <2>1. q.pc = "call" /\ inflight' = inflight
    BY <1>15 DEF CallAccepted, CallFails, CallRefused, At, store
  <2>2. \A a \in Actors \ {r} : actor'[a] = actor[a]
    BY <1>2, <1>15 DEF CallAccepted, CallFails, CallRefused
  <2>3. CASE p.pc \in Ended /\ p.force = FALSE
    BY <1>6, <1>10, <2>1, <2>2, <2>3 DEF Ended, Renewing
  <2>4. CASE q.attempts < 1 /\ p = [Refusal(r) EXCEPT !.pc = "lock", !.force = TRUE]
    <3>1. q.attempts = 0 /\ ~q.force
      BY <1>4, <2>1, <2>4 DEF Once, Renewing
    <3>2. p.pc = "lock" /\ p.attempts = 0 /\ p.force = TRUE
      BY <1>1, <2>4, <3>1 DEF Refusal, Locals
    <3>3. Once(p)
      BY <3>2 DEF Once
    <3>4. PassesLeft(p) < PassesLeft(q)
      BY <3>1, <3>2 DEF PassesLeft
    <3>5. StepsLeft(p) < StepsLeft(q)
      BY <1>1, <1>10, <2>1, <3>2, <3>4, Closer DEF AtRest, Ended
    <3>6. QED
      BY <2>1, <2>2, <3>3, <3>5 DEF Renewing
  <2>5. CASE CallAccepted(r) \/ CallFails(r)
    <3>1. PICK x : p = Leave(x, "ok") \/ p = Leave(x, "error")
      BY <1>2, <2>5 DEF CallAccepted, CallFails
    <3>2. QED
      BY <1>5, <2>3, <3>1 DEF Ended
  <2>6. CASE CallRefused(r)
    <3>1. p = IF q.attempts < 1 THEN [Refusal(r) EXCEPT !.pc = "lock", !.force = TRUE]
              ELSE Leave(Refusal(r), "error")
      BY <1>2, <2>6 DEF CallRefused
    <3>2. QED
      BY <1>5, <2>3, <2>4, <3>1 DEF Ended
  <2>7. QED
    BY <1>15, <2>5, <2>6
<1>16. CASE HangUp(r)
  <2>1. q.pc \notin Ended /\ p = Leave(q, "gone") /\ inflight' = Release(r)
    BY <1>2, <1>16 DEF HangUp, Ended
  <2>2. p.pc \in Ended /\ p.force = FALSE
    BY <1>5, <2>1 DEF Ended
  <2>3. inflight' # r /\ inflight' \in {inflight, Nobody}
    BY <1>1, <2>1 DEF Release
  <2>4. QED
    BY <1>2, <1>6, <1>10, <1>16, <2>1, <2>2, <2>3 DEF HangUp
<1>17. QED
  BY <1>11, <1>12, <1>13, <1>14, <1>15, <1>16 DEF RequestStep

\* The start of the process, and what goes on around it.
LEMMA OtherSteps ==
    ASSUME AuthInv, NEW r \in Requests, BootStep \/ Restart \/ Age \/ Revoke \/ UNCHANGED vars
    PROVE  actor'[r] = actor[r] /\ (inflight' = r => inflight = r)
<1>1. r # Boot /\ r # Nobody /\ Boot \in Actors /\ r \in Actors
  BY Constants
<1>2. inflight' \in {inflight, Nobody}
  BY DEF BootStep, LoadExisting, Renewal, ServiceRefreshes, RefreshFails, AnswerArrives, AnswerLost,
         OpenTruncated, SaveFails, Write, StoreCache, GiveUp, DeviceLogin, LoginTimesOut, Restart, Age, Revoke,
         Release, store, vars
<1>3. (\E x : Put(Boot, x)) \/ actor' = actor
  BY DEF BootStep, LoadExisting, Renewal, ServiceRefreshes, RefreshFails, AnswerArrives, AnswerLost,
         OpenTruncated, SaveFails, Write, StoreCache, GiveUp, DeviceLogin, LoginTimesOut, Restart, Age, Revoke, vars
<1>4. actor'[r] = actor[r]
  BY <1>1, <1>3 DEF Put, AuthInv, TypeOK
<1>5. QED
  BY <1>1, <1>2, <1>4

LEMMA CrashEnds ==
    ASSUME AuthInv, NEW r \in Requests, Once(actor[r]), Crash
    PROVE  /\ Once(actor'[r]) /\ inflight' # r
           /\ actor'[r] # actor[r] => StepsLeft(actor'[r]) < StepsLeft(actor[r])
<1>1. r # Boot /\ r # Nobody /\ r \in Actors /\ actor[r] \in Locals
  BY Constants DEF AuthInv, TypeOK
<1>2. actor'[r] = IF actor[r].pc \in Ended \cup {"begin"} THEN actor[r] ELSE Leave(actor[r], "gone")
  BY <1>1 DEF Crash
<1>3. inflight' = Nobody
  BY DEF Crash
<1>4. Leave(actor[r], "gone").pc = "gone" /\ Leave(actor[r], "gone").force = FALSE
  BY DEF Leave, Fresh
<1>5. CASE actor[r].pc \in Ended \cup {"begin"}
  BY <1>1, <1>2, <1>3, <1>5
<1>6. CASE actor[r].pc \notin Ended \cup {"begin"}
  <2>1. Once(actor'[r]) /\ StepsLeft(actor'[r]) = 0
    BY <1>2, <1>4, <1>6 DEF Once, StepsLeft, Ended
  <2>2. QED
    BY <1>1, <1>3, <1>6, <2>1, StepsFit
<1>7. QED
  BY <1>5, <1>6

LEMMA InitOnce == Init => OnceInv /\ LockHeld
<1> SUFFICES ASSUME Init, NEW r \in Requests PROVE Once(actor[r]) /\ inflight # r
  BY DEF OnceInv, LockHeld
<1>1. actor[r] = Fresh("begin")
  BY Constants DEF Init
<1>2. QED
  BY <1>1, Constants DEF Init, Once, Fresh

LEMMA StepSpends ==
    ASSUME AuthInv, OnceInv, LockHeld, [Next]_vars, NEW r \in Requests
    PROVE  /\ Once(actor'[r])
           /\ actor'[r] # actor[r] => StepsLeft(actor'[r]) < StepsLeft(actor[r])
           /\ inflight' = r => actor'[r].pc \in Renewing
<1>1. Once(actor[r]) /\ (inflight = r => actor[r].pc \in Renewing)
  BY DEF OnceInv, LockHeld
<1>2. CASE \E s \in Requests : Begin(s) \/ RequestStep(s) \/ HangUp(s)
  <2>1. PICK s \in Requests : Begin(s) \/ RequestStep(s) \/ HangUp(s)
    BY <1>2
  <2>2. CASE s = r
    BY <1>1, <2>1, <2>2, OwnStep
  <2>3. CASE s # r
    <3>1. r \in Actors \ {s} /\ r # Nobody /\ Once(actor[s]) /\ (inflight = s => actor[s].pc \in Renewing)
      BY <2>1, <2>3, Constants DEF OnceInv, LockHeld
    <3>2. actor'[r] = actor[r] /\ inflight' \in {inflight, s, Nobody}
      BY <2>1, <3>1, OwnStep
    <3>3. QED
      BY <1>1, <2>3, <3>1, <3>2
  <2>4. QED
    BY <2>2, <2>3
<1>3. CASE BootStep \/ Restart \/ Age \/ Revoke \/ UNCHANGED vars
  BY <1>1, <1>3, OtherSteps
<1>4. CASE Crash
  BY <1>1, <1>4, CrashEnds
<1>5. QED
  BY <1>2, <1>3, <1>4 DEF Next

LEMMA StepOnce == AuthInv /\ OnceInv /\ LockHeld /\ [Next]_vars => OnceInv' /\ LockHeld'
BY StepSpends DEF OnceInv, LockHeld

\* auth.rs 94-192: the lock is always with somebody whose renewal is under way;
\* no error, no answer that is lost and no client that hangs up leaves it taken,
\* so that who waits for it waits for a renewal that ends.
THEOREM NoLockOutlivesItsHolder == Spec => []LockHeld
BY InitAuth, StepAuth, InitOnce, StepOnce, PTL DEF Spec

\* provider.rs 82-110 and auth.rs 94-192: a request passes get_auth twice and
\* force_refresh once at most; each of its steps, a crash included, brings it
\* closer to its end, and no step of another request sets it back.
THEOREM RenewalsAreUsedUp == Spec => []StepsBounded /\ StepsSpent
<1>1. AuthInv /\ OnceInv /\ LockHeld /\ [Next]_vars
        => [\A r \in Requests : actor'[r] # actor[r] => StepsLeft(actor'[r]) < StepsLeft(actor[r])]_vars
  BY StepSpends
<1>2. AuthInv => StepsBounded
  BY StepsFit, Constants DEF AuthInv, TypeOK, StepsBounded
<1>3. QED
  BY <1>1, <1>2, InitAuth, StepAuth, InitOnce, StepOnce, PTL DEF Spec, StepsSpent
=============================================================================
