------------------------------ MODULE HotReload ------------------------------
(***************************************************************************)
(* How a configuration becomes the running one: the panel's handlers       *)
(* (src/src/panel/api.rs) save config.toml and apply it part by part, the  *)
(* file watcher (src/src/config_watcher.rs) sees the file change, its own  *)
(* saves included, and the reload task (src/src/main.rs) applies what the  *)
(* watcher read.  The process may crash at any point and starts again from *)
(* the file (src/src/config_loader.rs).                                    *)
(*                                                                         *)
(* A step is one access to the file system or one swap of a runtime part;  *)
(* the awaits of a rebuild (logins, locks) are the time between two steps. *)
(* Two appliers, the handler and the reload task, may interleave freely.   *)
(*                                                                         *)
(* Assumed of the environment: a request or an edit by hand begins only    *)
(* when no other is under way (OneAtATime); and between the start of the   *)
(* process and that of its watcher, nobody edits the file (Seen) and no    *)
(* request comes (Serving).  main spawns the watcher and does not wait for *)
(* it before it binds, so the second is a matter of a very short time.     *)
(***************************************************************************)
EXTENDS Integers, Sequences, FiniteSets

CONSTANTS
    Names,            \* keys of PanelConfig.profiles
    Contents,         \* what a ProfileConfig may hold
    DefaultConfig,    \* PanelConfig::default
    EnvConfig,        \* what migrate_from_env makes of legacy variables
    InitialFiles,     \* what the process may find at its first start
    Edits,            \* whole configurations a user writes, by hand or panel
    NewContent,       \* ProfileConfig::default, what a created profile holds
    Absent,           \* instead of a configuration: there is no such file,
    Unreadable,       \* it is torn, malformed or refused by validate,
    NoConfig,         \* there is none
    ChannelCapacity,  \* of the broadcast channel of configurations
    MaxChanges,       \* bound: requests and edits
    MaxCrashes        \* bound: crashes

\* PanelConfig, as validate accepts it: the active profile is one of them.
Configs == {c \in [profiles : UNION {[S -> Contents] : S \in SUBSET Names},
                   active : Names] : c.active \in DOMAIN c.profiles}

ASSUME HotReloadAssumption ==
    /\ DefaultConfig \in Configs /\ EnvConfig \in Configs
    /\ InitialFiles \subseteq Configs \cup {Absent} /\ Edits \subseteq Configs
    /\ NewContent \in Contents
    /\ Absent \notin Configs /\ Unreadable \notin Configs
    /\ NoConfig \notin Configs /\ Absent # Unreadable
    /\ ChannelCapacity \in Nat \ {0}
    /\ MaxChanges \in Nat /\ MaxCrashes \in Nat

\* The parts of the runtime, in the order in which every applier swaps them.
Parts == <<"settings", "panel_config", "key_pool_manager", "model_router",
           "provider", "puter_provider", "kimi_oauth_provider",
           "cloudflare_provider">>
PartNames == {Parts[k] : k \in 1..8}

\* Up to this part an applier has not awaited anything.
FirstAwait == 3

VARIABLES
    file,      \* config.toml
    tmp,       \* config.toml.tmp
    dir,       \* the configuration directory exists
    legacyEnv, \* the environment holds legacy variables
    up,        \* the process runs
    live,      \* the configuration each part was made from
    event,     \* the watcher's channel of notifications is not empty
    watcher,   \* "down", "failed", or up: "idle", "debounce", "drained"
    queue,     \* configurations broadcast and not yet received
    reload,    \* the reload task: what it applies, and which part is next
    panel,     \* the request the panel's handler works on
    editing,   \* somebody is writing config.toml by hand
    acked,     \* the configuration acknowledged last, while the file is its own
    changes,   \* requests and edits so far
    crashes    \* crashes so far

processVars == <<up, live, watcher, queue, reload>>
bounds == <<changes, crashes>>
vars == <<file, tmp, dir, legacyEnv, up, live, event, watcher, queue, reload,
          panel, editing, acked, changes, crashes>>

Readable == file \in Configs
WatcherUp == watcher \in {"idle", "debounce", "drained"}
\* The server accepts requests: main has come to its end, and the task it spawned
\* long before has started to watch or given up, which main does not wait for.
Serving == up /\ watcher # "down"

\* The panel's handlers that change the configuration.
Ops == {"none", "update_config", "create_profile", "update_profile",
        "delete_profile", "activate_profile", "restart"}

NotApplying == [config |-> NoConfig, next |-> 0]
NoRequest == [op |-> "none", pc |-> "idle", config |-> NoConfig, next |-> 0]

OneAtATime == panel.pc = "idle" /\ ~editing /\ changes < MaxChanges

\* Replacing or writing config.toml wakes the watcher's callback, if it listens.
Notify == event' = (event \/ WatcherUp)

(* ------------------------------ start and crash -------------------------- *)

Init ==
    /\ file \in InitialFiles
    /\ tmp = Absent /\ dir \in BOOLEAN /\ (file # Absent => dir)
    /\ legacyEnv \in BOOLEAN
    /\ up = FALSE /\ live = [p \in PartNames |-> NoConfig]
    /\ event = FALSE /\ watcher = "down" /\ queue = <<>>
    /\ reload = NotApplying /\ panel = NoRequest
    /\ editing = FALSE /\ acked = NoConfig /\ changes = 0 /\ crashes = 0

StartFrom(c) == up' = TRUE /\ live' = [p \in PartNames |-> c]

\* load_or_create finds a configuration it can use.
BootLoaded ==
    /\ ~up /\ Readable
    /\ StartFrom(file)
    /\ UNCHANGED <<file, tmp, dir>>

\* No file, or one that cannot be read: legacy variables are migrated, and the
\* result is saved over whatever was there; the process starts from it all the
\* same when the save fails, at its directory, its temporary file or its rename.
BootMigrated ==
    /\ ~up /\ ~Readable /\ legacyEnv
    /\ StartFrom(EnvConfig)
    /\ \/ file' = EnvConfig /\ tmp' = Absent /\ dir' = TRUE
       \/ UNCHANGED <<file, tmp, dir>>
       \/ UNCHANGED file /\ tmp' \in {tmp, Unreadable, EnvConfig} /\ dir' = TRUE

\* Setup mode: defaults, and nothing is written.
BootFresh ==
    /\ ~up /\ ~Readable /\ ~legacyEnv
    /\ StartFrom(DefaultConfig)
    /\ UNCHANGED <<file, tmp, dir>>

Boot ==
    /\ BootLoaded \/ BootMigrated \/ BootFresh
    /\ UNCHANGED <<legacyEnv, event, watcher, queue, reload, panel, editing,
                   acked, bounds>>

\* Without the directory there is nothing to watch: the task returns, the
\* channel closes and the reload task ends with it.
StartWatching ==
    /\ up /\ watcher = "down"
    /\ watcher' = IF dir THEN "idle" ELSE "failed"
    /\ UNCHANGED <<file, tmp, dir, legacyEnv, up, live, event, queue, reload,
                   panel, editing, acked, bounds>>

Crash ==
    /\ up /\ crashes < MaxCrashes
    /\ up' = FALSE /\ live' = [p \in PartNames |-> NoConfig]
    /\ event' = FALSE /\ watcher' = "down" /\ queue' = <<>>
    /\ reload' = NotApplying /\ panel' = NoRequest
    /\ crashes' = crashes + 1
    /\ UNCHANGED <<file, tmp, dir, legacyEnv, editing, acked, changes>>

(* ---------------------------- the watcher's task ------------------------- *)

Wake ==
    /\ watcher = "idle" /\ event
    /\ watcher' = "debounce" /\ event' = FALSE
    /\ UNCHANGED <<file, tmp, dir, legacyEnv, up, live, queue, reload, panel,
                   editing, acked, bounds>>

\* The notifications of the last 500 ms are one change.
Drain ==
    /\ watcher = "debounce"
    /\ watcher' = "drained" /\ event' = FALSE
    /\ UNCHANGED <<file, tmp, dir, legacyEnv, up, live, queue, reload, panel,
                   editing, acked, bounds>>

\* A bug: a full channel refuses what is new.
BroadcastKeepingOld(c) ==
    queue' = IF Len(queue) < ChannelCapacity THEN Append(queue, c) ELSE queue

\* tokio::sync::broadcast: a receiver that lags loses the oldest values.
Broadcast(c) ==
    queue' = IF Len(queue) < ChannelCapacity THEN Append(queue, c)
             ELSE Append(Tail(queue), c)

LoadAndBroadcast ==
    /\ watcher = "drained"
    /\ watcher' = "idle"
    /\ IF Readable THEN Broadcast(file) ELSE UNCHANGED queue
    /\ UNCHANGED <<file, tmp, dir, legacyEnv, up, live, event, reload, panel,
                   editing, acked, bounds>>

(* ------------------------------ the reload task -------------------------- *)

Receive ==
    /\ reload.next = 0 /\ queue # <<>>
    /\ reload' = [config |-> Head(queue), next |-> 1]
    /\ queue' = Tail(queue)
    /\ UNCHANGED <<file, tmp, dir, legacyEnv, up, live, event, watcher, panel,
                   editing, acked, bounds>>

\* One part is replaced by what was made of the configuration.
Swap(k, c) == live' = [live EXCEPT ![Parts[k]] = c]

\* A bug: what was reloaded is saved again.
ReloadPartSaving ==
    /\ reload.next \in 1..8
    /\ Swap(reload.next, reload.config)
    /\ reload' = IF reload.next = 8 THEN NotApplying
                 ELSE [reload EXCEPT !.next = @ + 1]
    /\ event' = (event \/ reload.next = 8)
    /\ UNCHANGED <<file, tmp, dir, legacyEnv, up, watcher, queue, panel,
                   editing, acked, bounds>>

ReloadPart ==
    /\ reload.next \in 1..8
    /\ Swap(reload.next, reload.config)
    /\ reload' = IF reload.next = 8 THEN NotApplying
                 ELSE [reload EXCEPT !.next = @ + 1]
    /\ UNCHANGED <<file, tmp, dir, legacyEnv, up, event, watcher, queue, panel,
                   editing, acked, bounds>>

(* --------------------------- the panel's handlers ------------------------ *)

\* A handler starts from the running configuration, not from the file.
Current == live["panel_config"]

Handle(op, c) ==
    /\ Serving /\ OneAtATime
    /\ panel' = [op |-> op, pc |-> "create", config |-> c, next |-> 0]
    /\ changes' = changes + 1
    /\ UNCHANGED <<file, tmp, dir, legacyEnv, processVars, event, editing,
                   acked, crashes>>

UpdateConfig == \E c \in Edits : Handle("update_config", c)

\* The profiles p with n set to content.
WithProfile(p, n, content) ==
    [m \in DOMAIN p \cup {n} |-> IF m = n THEN content ELSE p[m]]

CreateProfile ==
    \E n \in Names :
        /\ Serving /\ n \notin DOMAIN Current.profiles
        /\ Handle("create_profile", [Current EXCEPT
                      !.profiles = WithProfile(@, n, NewContent)])

UpdateProfile ==
    \E n \in Names, content \in Contents :
        /\ Serving /\ n \in DOMAIN Current.profiles
        /\ Handle("update_profile", [Current EXCEPT
                      !.profiles = WithProfile(@, n, content)])

\* A bug: the deleted profile stays the active one.
WithoutSwitching(c, n) ==
    {[c EXCEPT !.profiles = [m \in DOMAIN c.profiles \ {n} |-> @[m]]]}

\* What is left without n; if n was active, any other takes its place.
Without(c, n) ==
    LET rest == [m \in DOMAIN c.profiles \ {n} |-> c.profiles[m]]
    IN  {[profiles |-> rest, active |-> a] :
           a \in IF c.active = n THEN DOMAIN rest ELSE {c.active}}

DeleteProfile ==
    \E n \in Names :
        /\ Serving /\ n \in DOMAIN Current.profiles
        /\ Cardinality(DOMAIN Current.profiles) > 1
        /\ \E c \in Without(Current, n) : Handle("delete_profile", c)

ActivateProfile ==
    \E n \in Names :
        /\ Serving /\ n \in DOMAIN Current.profiles
        /\ Handle("activate_profile", [Current EXCEPT !.active = n])

\* A bug: the file itself is created anew and written.
CreateInPlace ==
    /\ panel.pc = "create"
    /\ file' = Unreadable /\ tmp' = Unreadable /\ dir' = TRUE
    /\ panel' = [panel EXCEPT !.pc = "write"]
    /\ UNCHANGED <<legacyEnv, processVars, event, editing, acked, bounds>>

\* save: the temporary file is created, written and renamed onto the file.
CreateTmp ==
    /\ panel.pc = "create"
    /\ tmp' = Unreadable /\ dir' = TRUE
    /\ panel' = [panel EXCEPT !.pc = "write"]
    /\ UNCHANGED <<file, legacyEnv, processVars, event, editing, acked, bounds>>

WriteTmp ==
    /\ panel.pc = "write"
    /\ tmp' = panel.config
    /\ panel' = [panel EXCEPT !.pc = "rename"]
    /\ UNCHANGED <<file, dir, legacyEnv, processVars, event, editing, acked,
                   bounds>>

Rename ==
    /\ panel.pc = "rename"
    /\ file' = tmp /\ tmp' = Absent /\ Notify
    /\ acked' = NoConfig
    /\ panel' = [panel EXCEPT !.pc = "apply", !.next = 1]
    /\ UNCHANGED <<dir, legacyEnv, processVars, editing, bounds>>

\* A bug: the error is ignored.
SaveFailsUnnoticed ==
    /\ panel.pc \in {"create", "write", "rename"}
    /\ panel' = [panel EXCEPT !.pc = "apply", !.next = 1]
    /\ UNCHANGED <<file, tmp, dir, legacyEnv, processVars, event, editing,
                   acked, bounds>>

\* Any of the three may fail; the answer is 500 and nothing is applied.
SaveFails ==
    /\ panel.pc \in {"create", "write", "rename"}
    /\ panel' = NoRequest
    /\ UNCHANGED <<file, tmp, dir, legacyEnv, processVars, event, editing,
                   acked, bounds>>

\* POST /api/restart applies the file as it is.
TriggerRestart ==
    /\ Serving /\ OneAtATime /\ Readable
    /\ panel' = [op |-> "restart", pc |-> "apply", config |-> file, next |-> 1]
    /\ changes' = changes + 1
    /\ UNCHANGED <<file, tmp, dir, legacyEnv, processVars, event, editing,
                   acked, crashes>>

\* apply_config, and the answer after its last part.
ApplyPart ==
    /\ panel.pc = "apply"
    /\ Swap(panel.next, panel.config)
    /\ panel' = IF panel.next = 8 THEN NoRequest
                ELSE [panel EXCEPT !.next = @ + 1]
    /\ acked' = IF panel.next = 8 THEN panel.config ELSE acked
    /\ UNCHANGED <<file, tmp, dir, legacyEnv, up, event, watcher, queue, reload,
                   editing, bounds>>

\* The browser goes away: the handler is dropped where it awaits.
HangUp ==
    /\ panel.pc = "apply" /\ panel.next >= FirstAwait
    /\ panel' = NoRequest
    /\ UNCHANGED <<file, tmp, dir, legacyEnv, processVars, event, editing,
                   acked, bounds>>

(* ------------------------------- edits by hand --------------------------- *)

\* The watcher will see it, or the process will when it starts.
Seen == ~up \/ WatcherUp

BeginEdit ==
    /\ OneAtATime /\ Seen /\ Readable
    /\ file' = Unreadable /\ Notify
    /\ editing' = TRUE /\ acked' = NoConfig /\ changes' = changes + 1
    /\ UNCHANGED <<tmp, dir, legacyEnv, processVars, panel, crashes>>

\* The new text is a configuration, or it has a mistake in it.
EndEdit ==
    /\ editing /\ Seen
    /\ file' \in Edits \cup {Unreadable} /\ Notify
    /\ editing' = FALSE
    /\ UNCHANGED <<tmp, dir, legacyEnv, processVars, panel, acked, bounds>>

(* ------------------------------ specification ---------------------------- *)

Next ==
    \/ Boot \/ StartWatching \/ Crash
    \/ Wake \/ Drain \/ LoadAndBroadcast
    \/ Receive \/ ReloadPart
    \/ UpdateConfig \/ CreateProfile \/ UpdateProfile \/ DeleteProfile
    \/ ActivateProfile \/ TriggerRestart
    \/ CreateTmp \/ WriteTmp \/ Rename \/ SaveFails \/ ApplyPart \/ HangUp
    \/ BeginEdit \/ EndEdit

\* The process is started, its tasks are scheduled and an editor finishes.
\* What an applier awaits ends: locks are held briefly, logins time out.
Fairness ==
    /\ WF_vars(Boot) /\ WF_vars(StartWatching)
    /\ WF_vars(Wake) /\ WF_vars(Drain) /\ WF_vars(LoadAndBroadcast)
    /\ WF_vars(Receive) /\ WF_vars(ReloadPart)
    /\ WF_vars(CreateTmp) /\ WF_vars(WriteTmp) /\ WF_vars(Rename)
    /\ WF_vars(ApplyPart) /\ WF_vars(EndEdit)

Spec == Init /\ [][Next]_vars /\ Fairness

(* ------------------------------- properties ------------------------------ *)

TypeOK ==
    /\ file \in Configs \cup {Absent, Unreadable}
    /\ tmp \in Configs \cup {Absent, Unreadable}
    /\ dir \in BOOLEAN /\ legacyEnv \in BOOLEAN /\ up \in BOOLEAN
    /\ event \in BOOLEAN /\ editing \in BOOLEAN
    /\ live \in [PartNames -> Configs \cup {NoConfig}]
    /\ up => \A p \in PartNames : live[p] # NoConfig
    /\ watcher \in {"down", "failed", "idle", "debounce", "drained"}
    /\ queue \in Seq(Configs) /\ Len(queue) <= ChannelCapacity
    /\ reload \in {NotApplying} \cup [config : Configs, next : 1..8]
    /\ panel \in [op : Ops, pc : {"idle", "create", "write", "rename", "apply"},
                 config : Configs \cup {NoConfig}, next : 0..8]
    /\ panel.pc = "idle" => panel = NoRequest
    /\ panel.pc # "idle" => panel.config \in Configs
    /\ panel.next \in IF panel.pc = "apply" THEN 1..8 ELSE {0}
    /\ acked \in Configs \cup {NoConfig}
    /\ changes \in 0..MaxChanges /\ crashes \in 0..MaxCrashes

\* Nothing is under way: no request, no edit, no notification, no reload.
Quiescent ==
    /\ up /\ watcher \in {"idle", "failed"} /\ ~event
    /\ queue = <<>> /\ reload = NotApplying
    /\ panel = NoRequest /\ ~editing

\* Every part of the runtime was made from the configuration in the file.
LiveIsFile == \A p \in PartNames : live[p] = file

\* When everything has come to rest, all parts of the runtime agree with
\* config.toml and so with each other, although the handler and the reload
\* task swap them one by one, in any interleaving, and a handler may be
\* dropped half way (api.rs apply_config, main.rs reload task).
QuiescentAgreement ==
    Quiescent /\ WatcherUp /\ Readable => LiveIsFile

\* What the panel acknowledged is what the file holds, until somebody else
\* changes it; so a crash right after the answer loses nothing.
AckedOnDisk == acked # NoConfig => file = acked

\* Only an edit by hand makes config.toml unreadable: no step of the proxy,
\* and no crash between two of its steps, leaves half a configuration.
SaveAtomic ==
    [][file' = Unreadable => editing \/ file = Unreadable \/ editing']_vars

\* Once requests, edits and crashes stop, all that is under way comes to an
\* end: no reload triggers another one for ever.
Settles == <>[]Quiescent

\* A profile of a configuration that the panel acknowledged leaves the file
\* only when a request deletes it or replaces the whole configuration, or in
\* an edit by hand (api.rs save_and_apply, "Save config to disk and apply it").
AcknowledgedKept ==
    [][\A n \in Names :
         /\ acked # NoConfig /\ ~editing'
         /\ n \in DOMAIN acked.profiles /\ n \notin DOMAIN file'.profiles
         => panel.op \in {"delete_profile", "update_config"}]_vars
=============================================================================
