---------------------------- MODULE KeyPoolScan -----------------------------
(***************************************************************************)
(* KeyPool with a history variable: steady[c] is the set of keys that have *)
(* been healthy in every state since the scan of caller c began.  It lets  *)
(* the verdict of a scan, which looks at the keys one after another while  *)
(* others change them, be judged against the whole interval it took.       *)
(***************************************************************************)
EXTENDS KeyPool

VARIABLE steady

ScanInit == Init /\ steady = [c \in Callers |-> {}]

\* BeginScan(c) happens in this step.
Begins(c) == pc[c] \in {"idle", "none"} /\ pc'[c] = "scan"

TrackSteady ==
    steady' = [c \in Callers |->
        CASE Begins(c) -> {k \in Keys : healthy[k]}
          [] ~Begins(c) /\ pc'[c] \in {"scan", "lock", "none", "escalate"}
                -> {k \in steady[c] : healthy'[k]}
          [] OTHER -> {}]

ScanNext == Next /\ TrackSteady

ScanSpec == ScanInit /\ [][ScanNext]_<<vars, steady>>

\* The fairness of KeyPool, which the history does not weaken.
FairScanSpec == ScanSpec /\ Fairness

\* acquire answers None, and all_exhausted sends the request to another model,
\* only if no key stayed healthy during the whole scan: no interleaving of
\* recoveries, cooldowns and reloads lets a scan miss a usable key.
NoUsableKeyMissed ==
    \A c \in Callers : pc[c] \in {"none", "escalate"} => steady[c] = {}
=============================================================================
