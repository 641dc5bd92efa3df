------------------------------- MODULE KimiAuth -------------------------------
(***************************************************************************)
(* The Kimi OAuth provider's login (src/src/providers/kimi_oauth/auth.rs): *)
(* one pair of an access and a refresh token, cached in AuthManager and    *)
(* kept in auth.json, renewed by whoever finds it too old or refused, and  *)
(* loaded, renewed or replaced by a device login when the process starts   *)
(* (bootstrap_if_enabled).  The service rotates the refresh token: it      *)
(* accepts the one it issued last, and knows of a renewal before the       *)
(* client does.  Clients hang up and the process crashes in between.       *)
(*                                                                         *)
(* A step is one access to the cache, the lock or the file, or one answer  *)
(* of the service.  A save is two steps, truncation and writing, between   *)
(* which only a crash can come.                                            *)
(***************************************************************************)
EXTENDS Integers, FiniteSets

CONSTANTS
    Requests,         \* requests in flight at the same time
    MaxPairs,         \* bound: pairs of tokens the service issues
    MaxRevocations,   \* bound: access tokens it stops accepting early
    MaxCrashes        \* bound: crashes of the process

Boot == "boot"
Nobody == "nobody"

ASSUME KimiAuthAssumption ==
    /\ Requests \cap {Boot, Nobody} = {}
    /\ MaxPairs \in Nat /\ MaxRevocations \in Nat /\ MaxCrashes \in Nat

\* Pairs are numbered as they are issued.
Pairs == 1 .. MaxPairs
NoPair == 0
Torn == -1

VARIABLES
    cache,     \* AuthManager.cache
    inflight,  \* who holds the lock AuthManager.inflight
    file,      \* auth.json: a pair, NoPair if it is missing, or Torn
    actor,     \* the requests and the start of the process, with their locals
    issued,    \* the pair the service issued last: its refresh token is valid
    aged,      \* pairs within REFRESH_MARGIN_MS of their expiry
    refused,   \* pairs whose access token the service refuses
    crashes,   \* crashes so far
    lost       \* history: the pair issued last has been dropped by the client

store == <<cache, file, inflight>>
service == <<issued, aged, refused>>
vars == <<store, service, actor, crashes, lost>>

Actors == Requests \cup {Boot}
Serving == {"up", "off"}   \* where the start ends: with the provider or without
Ended == {"ok", "error", "gone"}
Places == {"begin", "get", "lock", "refresh", "answer", "save", "write", "store",
           "call", "load", "login", "down"} \cup Serving \cup Ended

\* The locals of an actor.  The last two are history: the access tokens the
\* service refused, and whether anything else went wrong.
Locals == [pc : Places, force : BOOLEAN, pair : Pairs \cup {NoPair}, attempts : {0, 1},
           login : BOOLEAN, refusals : SUBSET Pairs, fault : BOOLEAN]

Fresh(place) == [pc |-> place, force |-> FALSE, pair |-> NoPair, attempts |-> 0,
                 login |-> FALSE, refusals |-> {}, fault |-> FALSE]

Init ==
    /\ cache = NoPair /\ file = NoPair /\ inflight = Nobody
    /\ actor = [a \in Actors |-> Fresh(IF a = Boot THEN "load" ELSE "begin")]
    /\ issued = NoPair /\ aged = {} /\ refused = {}
    /\ crashes = 0 /\ lost = FALSE

At(a, place) == actor[a].pc = place
Put(a, q) == actor' = [actor EXCEPT ![a] = q]
Go(q, place) == [q EXCEPT !.pc = place]
Leave(q, place) == [Fresh(place) EXCEPT !.refusals = q.refusals, !.fault = q.fault]
Release(a) == IF inflight = a THEN Nobody ELSE inflight

Young(p) == p # NoPair /\ p \notin aged

(* -------------------------- get_auth, force_refresh ---------------------- *)

\* The start has ended; without the provider the request is refused.
Begin(r) ==
    /\ At(r, "begin") /\ actor[Boot].pc \in Serving
    /\ Put(r, IF At(Boot, "up") THEN Fresh("get") ELSE [Fresh("error") EXCEPT !.fault = TRUE])
    /\ UNCHANGED <<store, service, crashes, lost>>

\* get_auth's first look at the cache, without the lock.
GetAuth(r) ==
    /\ At(r, "get")
    /\ Put(r, IF Young(cache) THEN [actor[r] EXCEPT !.pc = "call", !.pair = cache]
                              ELSE [actor[r] EXCEPT !.pc = "lock", !.force = FALSE])
    /\ UNCHANGED <<store, service, crashes, lost>>

\* A bug: nobody waits for a renewal that is under way.
TakeLockAnyway(r) ==
    /\ At(r, "lock")
    /\ \/ /\ ~actor[r].force /\ Young(cache)
          /\ Put(r, [actor[r] EXCEPT !.pc = "call", !.pair = cache])
          /\ UNCHANGED inflight
       \/ /\ actor[r].force \/ ~Young(cache)
          /\ Put(r, [actor[r] EXCEPT !.pc = "refresh", !.pair = cache])
          /\ inflight' = r
    /\ UNCHANGED <<cache, file, service, crashes, lost>>

\* With the lock: get_auth looks again, force_refresh does not.
TakeLock(r) ==
    /\ At(r, "lock") /\ inflight = Nobody
    /\ \/ /\ ~actor[r].force /\ Young(cache)
          /\ Put(r, [actor[r] EXCEPT !.pc = "call", !.pair = cache])
          /\ UNCHANGED inflight
       \/ /\ actor[r].force \/ ~Young(cache)
          /\ Put(r, [actor[r] EXCEPT !.pc = "refresh", !.pair = cache])
          /\ inflight' = r
    /\ UNCHANGED <<cache, file, service, crashes, lost>>

(* ------------------------- refresh_now and save_auth --------------------- *)

\* A bug: only a renewal that succeeds counts as the request's second attempt.
GivenUpUncounted(a) ==
    LET q == [actor[a] EXCEPT !.fault = TRUE, !.pair = NoPair]
    IN  IF a = Boot THEN IF q.login THEN Fresh("off") ELSE Go(q, "login")
        ELSE IF q.force THEN [q EXCEPT !.pc = "get"]
        ELSE Leave(q, "error")

\* A renewal came to nothing: the start logs in, unless that was the login;
\* force_refresh's error is ignored, get_auth's is not.
GivenUp(a) ==
    LET q == [actor[a] EXCEPT !.fault = TRUE, !.pair = NoPair]
    IN  IF a = Boot THEN IF q.login THEN Fresh("off") ELSE Go(q, "login")
        ELSE IF q.force THEN [q EXCEPT !.pc = "get", !.attempts = 1]
        ELSE Leave(q, "error")

GiveUp(a) ==
    /\ Put(a, GivenUp(a))
    /\ inflight' = Release(a)

\* The service renews the pair: from now on the old refresh token is rejected.
ServiceRefreshes(a) ==
    /\ At(a, "refresh") /\ actor[a].pair = issued /\ issued < MaxPairs
    /\ issued' = issued + 1
    /\ Put(a, [actor[a] EXCEPT !.pc = "answer", !.pair = issued'])
    /\ lost' = FALSE
    /\ UNCHANGED <<store, aged, refused, crashes>>

\* No connection, or a refresh token that is not the last one.
RefreshFails(a) ==
    /\ At(a, "refresh") /\ GiveUp(a)
    /\ UNCHANGED <<cache, file, service, crashes, lost>>

AnswerArrives(a) ==
    /\ At(a, "answer") /\ Put(a, Go(actor[a], "save"))
    /\ UNCHANGED <<store, service, crashes, lost>>

\* The answer does not arrive, or cannot be parsed.
AnswerLost(a) ==
    /\ At(a, "answer") /\ GiveUp(a) /\ lost' = TRUE
    /\ UNCHANGED <<cache, file, service, crashes>>

OpenTruncated(a) ==
    /\ At(a, "save") /\ Put(a, Go(actor[a], "write"))
    /\ file' = Torn
    /\ UNCHANGED <<cache, inflight, service, crashes, lost>>

\* The directory or the file cannot be opened, or not be written.
SaveFails(a) ==
    /\ actor[a].pc \in {"save", "write"} /\ GiveUp(a) /\ lost' = TRUE
    /\ UNCHANGED <<cache, file, service, crashes>>

\* A bug: the renewed pair is not saved, the one it was made from is.
WriteOld(a) ==
    /\ At(a, "write") /\ Put(a, Go(actor[a], "store"))
    /\ file' = IF cache = NoPair THEN actor[a].pair ELSE cache
    /\ UNCHANGED <<cache, inflight, service, crashes, lost>>

Write(a) ==
    /\ At(a, "write") /\ Put(a, Go(actor[a], "store"))
    /\ file' = actor[a].pair
    /\ UNCHANGED <<cache, inflight, service, crashes, lost>>

\* The cache takes the new pair, and the lock is released.
StoreCache(a) ==
    /\ At(a, "store")
    /\ cache' = actor[a].pair
    /\ inflight' = Release(a)
    /\ Put(a, IF a = Boot THEN Fresh("up")
              ELSE IF actor[a].force THEN [actor[a] EXCEPT !.pc = "get", !.attempts = 1]
              ELSE Go(actor[a], "call"))
    /\ UNCHANGED <<file, service, crashes, lost>>

(* --------------------------- the call and its answer --------------------- *)

CallAccepted(r) ==
    /\ At(r, "call") /\ actor[r].pair \notin refused
    /\ Put(r, Leave(actor[r], "ok"))
    /\ UNCHANGED <<store, service, crashes, lost>>

\* No connection, an error that is not about the token, or a broken stream.
CallFails(r) ==
    /\ At(r, "call")
    /\ Put(r, Leave([actor[r] EXCEPT !.fault = TRUE], "error"))
    /\ UNCHANGED <<store, service, crashes, lost>>

Refusal(r) == [actor[r] EXCEPT !.refusals = @ \cup {actor[r].pair}]

\* A bug: the token is taken from the cache again instead of renewed.
CallRefusedAgain(r) ==
    /\ At(r, "call") /\ actor[r].pair \in refused
    /\ Put(r, IF actor[r].attempts < 1 THEN [Refusal(r) EXCEPT !.pc = "get", !.attempts = 1]
                                       ELSE Leave(Refusal(r), "error"))
    /\ UNCHANGED <<store, service, crashes, lost>>

\* 401 or 403: renew once, whatever the cache holds by now, and try again.
CallRefused(r) ==
    /\ At(r, "call") /\ actor[r].pair \in refused
    /\ Put(r, IF actor[r].attempts < 1 THEN [Refusal(r) EXCEPT !.pc = "lock", !.force = TRUE]
                                       ELSE Leave(Refusal(r), "error"))
    /\ UNCHANGED <<store, service, crashes, lost>>

(* ------------------------------- the start ------------------------------- *)

\* try_load_existing: a young pair is taken, an old one renewed; a file that is
\* missing or torn means a login.
LoadExisting ==
    /\ At(Boot, "load")
    /\ LET young == file \in Pairs /\ Young(file)
       IN  /\ Put(Boot, IF young THEN Fresh("up")
                        ELSE IF file \in Pairs THEN [Fresh("refresh") EXCEPT !.pair = file]
                        ELSE Fresh("login"))
           /\ cache' = IF young THEN file ELSE NoPair
           /\ lost' = (lost /\ ~(file \in Pairs /\ file = issued))
    /\ UNCHANGED <<file, inflight, service, crashes>>

\* run_device_login: the user confirms in time.
DeviceLogin ==
    /\ At(Boot, "login") /\ issued < MaxPairs
    /\ issued' = issued + 1
    /\ Put(Boot, [Fresh("answer") EXCEPT !.pair = issued', !.login = TRUE])
    /\ lost' = FALSE
    /\ UNCHANGED <<store, aged, refused, crashes>>

\* The service refuses, or nobody confirms before the code expires.
LoginTimesOut ==
    /\ At(Boot, "login") /\ Put(Boot, Fresh("off"))
    /\ UNCHANGED <<store, service, crashes, lost>>

Restart ==
    /\ At(Boot, "down") /\ Put(Boot, Fresh("load"))
    /\ UNCHANGED <<store, service, crashes, lost>>

(* --------------------------- the world around it ------------------------- *)

\* A pair in hand that is the last one issued and not in the file.
Unsaved(a) == actor[a].pc \in {"answer", "save", "write"}

\* A client hangs up while its request awaits something: nothing goes on in its
\* name, and its lock is released.
HangUp(r) ==
    /\ actor[r].pc \in {"get", "lock", "refresh", "answer", "store", "call"}
    /\ Put(r, Leave(actor[r], "gone"))
    /\ inflight' = Release(r)
    /\ lost' = (lost \/ actor[r].pc \in {"answer", "store"})
    /\ UNCHANGED <<cache, file, service, crashes>>

\* The process dies and takes the cache and its requests along.
Crash ==
    /\ crashes < MaxCrashes /\ ~At(Boot, "down")
    /\ crashes' = crashes + 1
    /\ lost' = (lost \/ \E a \in Actors : Unsaved(a))
    /\ actor' = [a \in Actors |->
                   IF a = Boot THEN Fresh("down")
                   ELSE IF actor[a].pc \in Ended \cup {"begin"} THEN actor[a]
                   ELSE Leave(actor[a], "gone")]
    /\ cache' = NoPair /\ inflight' = Nobody
    /\ UNCHANGED <<file, service>>

Known == {cache, file} \cup {actor[a].pair : a \in Actors}

Age ==
    /\ \E p \in (Pairs \cap Known) \ aged : aged' = aged \cup {p}
    /\ UNCHANGED <<store, issued, refused, actor, crashes, lost>>

\* The service stops accepting an access token before its time.
Revoke ==
    /\ Cardinality(refused) < MaxRevocations
    /\ \E p \in (Pairs \cap Known) \ refused : refused' = refused \cup {p}
    /\ UNCHANGED <<store, issued, aged, actor, crashes, lost>>

Renewal(a) ==
    \/ ServiceRefreshes(a) \/ RefreshFails(a) \/ AnswerArrives(a) \/ AnswerLost(a)
    \/ OpenTruncated(a) \/ SaveFails(a) \/ Write(a) \/ StoreCache(a)

RequestStep(r) ==
    \/ GetAuth(r) \/ TakeLock(r) \/ Renewal(r)
    \/ CallAccepted(r) \/ CallFails(r) \/ CallRefused(r)

BootStep == LoadExisting \/ Renewal(Boot) \/ DeviceLogin \/ LoginTimesOut

Next ==
    \/ \E r \in Requests : Begin(r) \/ RequestStep(r) \/ HangUp(r)
    \/ BootStep
    \/ Restart
    \/ Crash
    \/ Age
    \/ Revoke

\* Calls have timeouts, and a login expires.
Fairness == WF_vars(BootStep) /\ \A r \in Requests : WF_vars(RequestStep(r))

Spec == Init /\ [][Next]_vars /\ Fairness

(* ------------------------------- properties ------------------------------ *)

TypeOK ==
    /\ cache \in Pairs \cup {NoPair} /\ file \in Pairs \cup {NoPair, Torn}
    /\ inflight \in Requests \cup {Nobody}
    /\ actor \in [Actors -> Locals]
    /\ issued \in Pairs \cup {NoPair} /\ aged \subseteq Pairs /\ refused \subseteq Pairs
    /\ crashes \in 0 .. MaxCrashes /\ lost \in BOOLEAN
    /\ \A r \in Requests : actor[r].pc \in {"refresh", "answer", "save", "write", "store"}
                               => inflight = r

\* Nobody sends a refresh token that has been rotated away: unless an answer, a
\* save or a client in the middle of a renewal was lost, the cache and the file
\* hold the pair issued last whenever nobody renews it, so that the provider
\* stays logged in, and across restarts (auth.rs 94-192).
LoginKept ==
    At(Boot, "up") /\ inflight = Nobody /\ ~lost => cache = issued /\ file = issued

\* A request that met nothing worse than refused access tokens fails only after
\* two different ones: what it is given after force_refresh is never the token
\* that was refused, whoever else renews in between (provider.rs 82-110).
RefusalSurvived ==
    \A r \in Requests :
        At(r, "error") /\ ~actor[r].fault => Cardinality(actor[r].refusals) >= 2

\* Unless a pair was lost, a renewal sends the refresh token the service issued
\* last, after a crash and a restart too: the file is never behind the service
\* but while the new pair is on its way (auth.rs 143-192, 259-299).
RenewalsValid ==
    \A a \in Actors : At(a, "refresh") /\ ~lost => actor[a].pair = issued

\* Every request that begins comes to an end: no lock outlives its holder, and
\* no renewal is tried for ever.
RequestsEnd == \A r \in Requests : At(r, "get") ~> actor[r].pc \in Ended
=============================================================================
