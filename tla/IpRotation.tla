----------------------------- MODULE IpRotation ------------------------------
(***************************************************************************)
(* The rotation of the egress address (src/src/ip_rotator.rs): requests    *)
(* that ran out of models and keys ask for a rotation, a reload switches   *)
(* WARP on or off, and both drive the one warp-cli under a global lock.    *)
(*                                                                         *)
(* A step is one warp-cli command or one access to the lock, the time      *)
(* stamp or the limiter's block.  The container runs the WARP daemon.      *)
(* run_cmd does not kill the process of a future that is dropped: a        *)
(* warp-cli whose caller has hung up runs on, without the lock.            *)
(***************************************************************************)
EXTENDS Integers, Sequences, FiniteSets

CONSTANTS
    Spawners,          \* requests that spawn their rotation (OpenAI-compatible)
    Inliners,          \* requests that await it themselves (Cloudflare)
    Syncs,             \* tasks that call sync_warp_state: start-up and reload
    NoTask,            \* nobody holds the lock
    RotationInterval,  \* 20 s in the code
    CommandsMayFail,   \* whether warp-cli fails without a cause in its own state
    LeftOverBound      \* bound: processes of one command left over at a time

ASSUME IpRotationAssumption ==
    /\ Spawners \cap Inliners = {} /\ (Spawners \cup Inliners) \cap Syncs = {}
    /\ NoTask \notin Spawners \cup Inliners \cup Syncs
    /\ RotationInterval \in Nat \ {0}
    /\ CommandsMayFail \in BOOLEAN
    /\ LeftOverBound \in Nat

Rotators == Spawners \cup Inliners
Tasks == Rotators \cup Syncs

VARIABLES
    enabled,        \* features.enable_ip_rotation of the current configuration
    wanted,         \* the flag a sync was called with
    doing,             \* where a task is
    holder,         \* who holds IP_ROTATION_LOCK
    lockQueue,        \* who waits for it, first come first served
    lastRotation,   \* LAST_ROTATION: its age, up to RotationInterval
    blocked,        \* the limiter's block, set for 30 s
    registered,     \* the daemon has a registration
    connected,      \* the daemon's tunnel is up
    leftOver,       \* the warp-cli processes whose caller has gone, by command
    renewed,        \* history: the registration is newer than the last locking
    undone,         \* history: a process left over took the tunnel down after the holder's connect
    sinceDone       \* history: age of the last completed rotation, likewise

lockVars == <<holder, lockQueue>>
warpVars == <<registered, connected, renewed>>
leftVars == <<leftOver, undone>>
rotationVars == <<enabled, wanted, doing, lockVars, lastRotation, blocked, warpVars, leftVars, sinceDone>>

Commands == {"disconnect", "delete", "new", "connect"}
Locked == Commands \cup {"check", "stamp"}

RotationTypeOK ==
    /\ enabled \in BOOLEAN /\ wanted \in [Syncs -> BOOLEAN]
    /\ doing \in [Tasks -> Locked \cup {"idle", "serving", "queued", "unblock"}]
    /\ holder \in Tasks \cup {NoTask} /\ lockQueue \in Seq(Tasks)
    /\ \A t \in Tasks : doing[t] \in Locked <=> holder = t
    /\ lastRotation \in 0 .. RotationInterval /\ sinceDone \in 0 .. RotationInterval
    /\ blocked \in BOOLEAN /\ registered \in BOOLEAN /\ connected \in BOOLEAN
    /\ leftOver \in [Commands -> 0 .. LeftOverBound]
    /\ renewed \in BOOLEAN /\ undone \in BOOLEAN

\* The daemon keeps a registration across restarts of the program.
RotationInit ==
    /\ enabled = FALSE
    /\ wanted = [s \in Syncs |-> FALSE]
    /\ doing = [t \in Tasks |-> "idle"]
    /\ holder = NoTask /\ lockQueue = <<>>
    /\ lastRotation = RotationInterval /\ sinceDone = RotationInterval
    /\ blocked = FALSE
    /\ registered \in BOOLEAN /\ connected = FALSE
    /\ leftOver = [command \in Commands |-> 0]
    /\ renewed = FALSE /\ undone = FALSE

Goes(t, place) == doing' = [doing EXCEPT ![t] = place]
Release == holder' = NoTask /\ UNCHANGED lockQueue

-----------------------------------------------------------------------------
(***************************************************************************)
(* Who asks: a request keeps the enable_ip_rotation it started with, and   *)
(* the reload task syncs after it has put the new configuration in place.  *)
(***************************************************************************)
StartRequest(t) ==
    /\ enabled /\ doing[t] = "idle"
    /\ Goes(t, "serving")
    /\ UNCHANGED <<enabled, wanted, lockVars, lastRotation, blocked, warpVars, leftVars, sinceDone>>

EndRequest(t) ==
    /\ doing[t] = "serving"
    /\ Goes(t, "idle")
    /\ UNCHANGED <<enabled, wanted, lockVars, lastRotation, blocked, warpVars, leftVars, sinceDone>>

LastResort(t) ==
    /\ doing[t] = "serving"
    /\ Goes(t, "queued")
    /\ lockQueue' = Append(lockQueue, t)
    /\ blocked' = (blocked \/ t \in Spawners)
    /\ UNCHANGED <<enabled, wanted, holder, lastRotation, warpVars, leftVars, sinceDone>>

Reconfigure(s) ==
    /\ doing[s] = "idle"
    /\ enabled' \in BOOLEAN
    /\ wanted' = [wanted EXCEPT ![s] = enabled']
    /\ Goes(s, "queued")
    /\ lockQueue' = Append(lockQueue, s)
    /\ UNCHANGED <<holder, lastRotation, blocked, warpVars, leftVars, sinceDone>>

-----------------------------------------------------------------------------
(***************************************************************************)
(* Under the lock: a sync goes straight to its two commands, a rotation    *)
(* looks at the time stamp first.                                          *)
(***************************************************************************)
FirstStep(t) ==
    CASE t \in Rotators -> "check"
      [] t \in Syncs /\ wanted[t] -> "new"
      [] OTHER -> "disconnect"

\* A bug: nobody holds the lock for long.
LockShared(t) ==
    /\ lockQueue # <<>> /\ Head(lockQueue) = t
    /\ holder' = t
    /\ lockQueue' = Tail(lockQueue)
    /\ renewed' = FALSE
    /\ Goes(t, FirstStep(t))
    /\ UNCHANGED <<enabled, wanted, lastRotation, blocked, registered, connected, leftVars, sinceDone>>

Lock(t) ==
    /\ holder = NoTask /\ lockQueue # <<>> /\ Head(lockQueue) = t
    /\ holder' = t
    /\ lockQueue' = Tail(lockQueue)
    /\ renewed' = FALSE
    /\ Goes(t, FirstStep(t))
    /\ UNCHANGED <<enabled, wanted, lastRotation, blocked, registered, connected, leftVars, sinceDone>>

Recent == lastRotation < RotationInterval

\* rotate_ip answers Ok; the task it was spawned in lifts the block next.
AnswerOk(t) ==
    /\ Release
    /\ Goes(t, IF t \in Spawners THEN "unblock" ELSE "idle")

\* A bug: an early return leaves the lock held.
ReturnLocked(t) ==
    /\ Goes(t, "idle")
    /\ UNCHANGED lockVars

\* rotate_ip answers Err, or a sync returns.
Return(t) ==
    /\ Release
    /\ Goes(t, "idle")

Skip(t) ==
    /\ doing[t] = "check" /\ Recent
    /\ AnswerOk(t)
    /\ UNCHANGED <<enabled, wanted, lastRotation, blocked, warpVars, leftVars, sinceDone>>

StampStart(t) ==
    /\ doing[t] = "check" /\ ~Recent
    /\ lastRotation' = 0
    /\ Goes(t, "disconnect")
    /\ UNCHANGED <<enabled, wanted, lockVars, blocked, warpVars, leftVars, sinceDone>>

(***************************************************************************)
(* What the daemon does when a command reaches it, and when the command    *)
(* fails: a daemon that has a registration refuses a second one, and one   *)
(* without connects to nothing.                                            *)
(***************************************************************************)
TunnelDown == connected' = FALSE /\ UNCHANGED <<registered, renewed>>

RegistrationGone == registered' = FALSE /\ connected' = FALSE /\ renewed' = FALSE

RegistrationMade ==
    /\ ~registered
    /\ registered' = TRUE /\ renewed' = TRUE
    /\ UNCHANGED connected

TunnelUp ==
    /\ registered
    /\ connected' = TRUE
    /\ UNCHANGED <<registered, renewed>>

Refused(command) ==
    \/ command = "new" /\ registered
    \/ command = "connect" /\ ~registered

Fails(command) ==
    /\ CommandsMayFail \/ Refused(command)
    /\ UNCHANGED warpVars

\* Whether disconnect and delete worked is of no consequence to either caller.
Disconnect(t) ==
    /\ doing[t] = "disconnect"
    /\ TunnelDown \/ Fails("disconnect")
    /\ Goes(t, "delete")
    /\ UNCHANGED <<enabled, wanted, lockVars, lastRotation, blocked, leftVars, sinceDone>>

Delete(t) ==
    /\ doing[t] = "delete"
    /\ RegistrationGone \/ Fails("delete")
    /\ \/ /\ t \in Rotators
          /\ Goes(t, "new")
          /\ UNCHANGED lockVars
       \/ /\ t \in Syncs
          /\ Return(t)
    /\ UNCHANGED <<enabled, wanted, lastRotation, blocked, leftVars, sinceDone>>

NewRegistration(t) ==
    /\ doing[t] = "new"
    /\ \/ /\ RegistrationMade
          /\ Goes(t, "connect")
          /\ UNCHANGED lockVars
       \/ /\ Fails("new")
          /\ \/ /\ t \in Rotators
                /\ Return(t)
             \/ /\ t \in Syncs
                /\ Goes(t, "connect")
                /\ UNCHANGED lockVars
    /\ UNCHANGED <<enabled, wanted, lastRotation, blocked, leftVars, sinceDone>>

Connect(t) ==
    /\ doing[t] = "connect"
    /\ \/ /\ TunnelUp
          /\ \/ /\ t \in Rotators
                /\ Goes(t, "stamp")
                /\ UNCHANGED lockVars
             \/ /\ t \in Syncs
                /\ Return(t)
       \/ /\ Fails("connect")
          /\ Return(t)
    /\ UNCHANGED <<enabled, wanted, lastRotation, blocked, leftVars, sinceDone>>

\* A bug: the time stamp is not renewed upon completion.
StampEndForgotten(t) ==
    /\ doing[t] = "stamp"
    /\ sinceDone' = 0 /\ undone' = FALSE
    /\ AnswerOk(t)
    /\ UNCHANGED <<enabled, wanted, lastRotation, blocked, warpVars, leftOver>>

StampEnd(t) ==
    /\ doing[t] = "stamp"
    /\ lastRotation' = 0 /\ sinceDone' = 0 /\ undone' = FALSE
    /\ AnswerOk(t)
    /\ UNCHANGED <<enabled, wanted, blocked, warpVars, leftOver>>

LiftBlock(t) ==
    /\ doing[t] = "unblock"
    /\ blocked' = FALSE
    /\ Goes(t, "idle")
    /\ UNCHANGED <<enabled, wanted, lockVars, lastRotation, warpVars, leftVars, sinceDone>>

\* The queue without t, which waits in it at most once.
Dequeued(queue, t) ==
    IF \E i \in DOMAIN queue : queue[i] = t
    THEN LET i == CHOOSE i \in DOMAIN queue : queue[i] = t
         IN  SubSeq(queue, 1, i - 1) \o SubSeq(queue, i + 1, Len(queue))
    ELSE queue

\* A client hangs up on a request that awaits the rotation itself: the lock is
\* free at once.  A command that has been started is left over.
Cancel(t) ==
    /\ t \in Inliners /\ doing[t] \in Locked \cup {"serving", "queued"}
    /\ Goes(t, "idle")
    /\ holder' = IF holder = t THEN NoTask ELSE holder
    /\ lockQueue' = Dequeued(lockQueue, t)
    /\ \/ UNCHANGED leftOver
       \/ /\ doing[t] \in Commands /\ leftOver[doing[t]] < LeftOverBound
          /\ leftOver' = [leftOver EXCEPT ![doing[t]] = @ + 1]
    /\ undone' = (undone /\ holder # t)
    /\ UNCHANGED <<enabled, wanted, lastRotation, blocked, warpVars, sinceDone>>

SomebodyConnected == \E t \in Rotators : doing[t] = "stamp"

\* A process left over gets to the daemon, whoever holds the lock by now.
LeftOverRuns(command) ==
    /\ leftOver[command] > 0
    /\ leftOver' = [leftOver EXCEPT ![command] = @ - 1]
    /\ \/ command = "disconnect" /\ TunnelDown /\ undone' = (undone \/ SomebodyConnected)
       \/ command = "delete" /\ RegistrationGone /\ undone' = (undone \/ SomebodyConnected)
       \/ command = "new" /\ RegistrationMade /\ UNCHANGED undone
       \/ command = "connect" /\ TunnelUp /\ UNCHANGED undone
       \/ Fails(command) /\ UNCHANGED undone
    /\ UNCHANGED <<enabled, wanted, doing, lockVars, lastRotation, blocked, sinceDone>>

Aged(age) == IF age < RotationInterval THEN age + 1 ELSE RotationInterval

ClockTicks ==
    /\ lastRotation' = Aged(lastRotation)
    /\ sinceDone' = Aged(sinceDone)
    /\ UNCHANGED <<enabled, wanted, doing, lockVars, blocked, warpVars, leftVars>>

BlockRunsOut ==
    /\ blocked /\ blocked' = FALSE
    /\ UNCHANGED <<enabled, wanted, doing, lockVars, lastRotation, warpVars, leftVars, sinceDone>>

Work(t) ==
    \/ Lock(t) \/ Skip(t) \/ StampStart(t) \/ Disconnect(t) \/ Delete(t)
    \/ NewRegistration(t) \/ Connect(t) \/ StampEnd(t) \/ LiftBlock(t)

RotationNext ==
    \/ \E t \in Rotators : StartRequest(t) \/ EndRequest(t) \/ LastResort(t) \/ Cancel(t)
    \/ \E s \in Syncs : Reconfigure(s)
    \/ \E t \in Tasks : Work(t)
    \/ \E command \in Commands : LeftOverRuns(command)
    \/ ClockTicks
    \/ BlockRunsOut

RotationSpec == RotationInit /\ [][RotationNext]_rotationVars

\* warp-cli returns (it is run without a time limit), and tasks are polled.
FairRotationSpec == RotationSpec /\ \A t \in Tasks : WF_rotationVars(Work(t))

-----------------------------------------------------------------------------
\* rotate_ip that ran its commands answers Ok only with the tunnel up on a
\* registration made since it took the lock, whatever other rotations, reloads
\* that switch WARP off, failed commands and commands left over by a client that
\* hung up did before it connected; only a command left over that gets to the
\* daemon after that undoes it.
RotationRenews ==
    \A t \in Rotators : doing[t] = "stamp" => (connected /\ registered /\ renewed) \/ undone

\* ip_rotator.rs: "IP rotation completed" is logged, and Ok answered, with the
\* tunnel up on a registration of the rotation's own: false while clients hang up.
TunnelUpWhenDone ==
    \A t \in Rotators : doing[t] = "stamp" => connected /\ registered /\ renewed

\* Two rotations never follow each other within the interval: one begins only
\* when the last one that completed has been over for RotationInterval, however
\* many requests asked for it meanwhile.
RotationsSpaced ==
    [][\A t \in Rotators : StampStart(t) => sinceDone >= RotationInterval]_rotationVars

\* No request that asked for a rotation and no reload waits for ever behind a
\* failed, skipped or cancelled one.
TasksReturn == \A t \in Tasks : doing[t] = "queued" ~> doing[t] = "idle"

\* ip_rotator.rs: "Check if we already rotated recently (within 20 seconds)": a
\* rotation is skipped, and Ok answered, only when one has been done.
SkipsOnlyWhenRotated ==
    [][\A t \in Rotators : Skip(t) => sinceDone < RotationInterval]_rotationVars
=============================================================================
